---------------------------- MODULE MCHeapShadow ----------------------------
(***************************************************************************)
(* Instances of HeapShadow for TLC: two chunks of the primary of different *)
(* size classes and a mapping of the secondary, all a few bytes long.      *)
(***************************************************************************)
EXTENDS HeapShadow

MCChunks == {"small", "big", "mapping"}
MCPrimary == {"small", "big"}
MCCap == [small |-> 2, big |-> 3, mapping |-> 3]

\* Smaller, where stray stores multiply the states.
MCReuseCap == [small |-> 1, big |-> 3, mapping |-> 2]
=============================================================================
