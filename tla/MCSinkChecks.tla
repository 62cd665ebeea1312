---------------------------- MODULE MCSinkChecks ----------------------------
(* Every control-flow graph of four blocks with at most two successors per *)
(* block, a load x, a load y through x and a use of y, anywhere the values *)
(* are defined, and at most one further call, in block cb.  Other values   *)
(* of cb are no call, and with 5 terminators that cannot be split, with 6  *)
(* an EH pad for the last block, with 7 a load x of an aggregate.          *)
EXTENDS SinkChecks, FiniteSets

CONSTANTS x, y

MCBlocks == 1..4

(* The graphs whose blocks are all reachable and all reach an exit. *)
MCGraphs ==
    {Analysed(s) : s \in
      {s \in [MCBlocks -> {S \in SUBSET (2..4) : Cardinality(S) <= 2}] :
         /\ s[4] = {} /\ s[1] # {}
         /\ Region(s, {1}, 0) = MCBlocks
         /\ \A b \in MCBlocks : \E e \in Region(s, {b}, 0) : s[e] = {}}}

Build(g, xb, yb, ub, op, cb) ==
    LET code == [b \in MCBlocks |->
                   (IF b = xb THEN <<[op |-> "op", uses |-> {}]>> ELSE <<>>) \o
                   (IF b = cb THEN <<[op |-> "call", uses |-> {}]>> ELSE <<>>) \o
                   (IF b = yb THEN <<[op |-> "op", uses |-> {x}]>> ELSE <<>>) \o
                   (IF b = ub THEN <<[op |-> op, uses |-> {y}]>> ELSE <<>>)]
        yi == (IF yb = xb THEN 1 ELSE 0) + (IF yb = cb THEN 1 ELSE 0) + 1
    IN  [g |-> g, code |-> code, pinned |-> IF cb = 5 THEN MCBlocks ELSE {},
         pads |-> IF cb = 6 THEN {4} ELSE {}, aggs |-> IF cb = 7 THEN {x} ELSE {},
         at |-> [l \in Loads |-> IF l = x THEN <<xb, 1>> ELSE <<yb, yi>>]]

(* A block that defines a value dominates the blocks that use it. *)
Uses(g) ==
    LET dom == {<<d, b>> \in MCBlocks \X MCBlocks : Dominates(g.succ, d, b)}
    IN  {<<xb, yb, ub>> \in MCBlocks \X MCBlocks \X MCBlocks :
           <<xb, yb>> \in dom /\ <<yb, ub>> \in dom}

(* What uses y, and the place of the call: one of the two varies. *)
MCCalls == {<<"op", cb>> : cb \in 0..7} \cup {<<"call", 0>>, <<"icall", 0>>}

MCPrograms ==
    UNION {{Build(g, u[1], u[2], u[3], k[1], k[2]) : u \in Uses(g), k \in MCCalls}
             : g \in MCGraphs}
=============================================================================
