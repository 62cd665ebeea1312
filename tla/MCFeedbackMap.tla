---------------------------- MODULE MCFeedbackMap ----------------------------
(***************************************************************************)
(* Instances of FeedbackMap for TLC: a map of eight bytes with the hash of *)
(* cqmsan_update_map on it, and two or three violations.                   *)
(***************************************************************************)
EXTENDS FeedbackMap, Bitwise

MCEdgeIdx(last, x) == (x ^^ (last \div 2)) % MapSize

\* Which handlers the sites call: the pass's two builds, and a pc-only build in
\* which interceptors find the violations "b" and "c".
FastHandler == [v \in Viol |-> "fast"]
PcOnlyHandler == [v \in Viol |-> "pconly"]
MixedHandlers == [a |-> "pconly", b |-> "fast", c |-> "fast"]

\* Spread over the map; the call-stack edge from "b" to "b" is the sentinel.
WidePcOf == [a |-> 1, b |-> 2]
WideHashOf == [a |-> 2, b |-> 5]

\* Three violations, spread likewise; two share a call-stack byte.
ThreePcOf == [a |-> 1, b |-> 2, c |-> 4]
ThreeHashOf == [a |-> 2, b |-> 5, c |-> 5]

\* All bits of both violations in the bytes 2 and 3, so that threads meet.
DensePcOf == [a |-> 3, b |-> 2]
DenseHashOf == [a |-> 2, b |-> 3]
=============================================================================
