------------------------------ MODULE FlowGraph ------------------------------
(***************************************************************************)
(* The analyses of LLVM that the instrumentation pass asks for: dominance, *)
(* post-dominance and natural loops of a function's basic blocks.  A graph *)
(* is given by succ, a function from a block to the set of its successors. *)
(***************************************************************************)
EXTENDS FiniteSets

CONSTANTS Blocks,   \* basic blocks
          Entry     \* the entry block

ASSUME EntryAssumption == Entry \in Blocks
ASSUME BlocksAssumption == IsFiniteSet(Blocks)

Closed(succ, X, a) == \A x \in X : succ[x] \subseteq X \cup {a}

(* The blocks reachable from the blocks of S without entering a. *)
Region(succ, S, a) ==
    LET closed == {X \in SUBSET Blocks : S \ {a} \subseteq X /\ Closed(succ, X, a)}
    IN  {b \in Blocks : \A X \in closed : b \in X}

Dominates(succ, d, b) == b \notin Region(succ, {Entry}, d)

PostDominates(succ, s, b) == \A x \in Region(succ, {b}, s) : succ[x] # {}

(* The natural loop of header h: empty when h heads no loop. *)
LoopBody(succ, h) ==
    LET latches == {t \in Blocks : h \in succ[t] /\ Dominates(succ, h, t)}
    IN  IF latches = {} THEN {}
        ELSE {h} \cup {b \in Blocks : latches \cap Region(succ, {b}, h) # {}}

(* A graph with its loops, as pairs <<header, block of the loop>>, and the *)
(* innermost loop of each block that is in one.                            *)
Analysed(succ) ==
    LET loops == {e \in Blocks \X Blocks : e[2] \in LoopBody(succ, e[1])}
    IN  [succ |-> succ, loops |-> loops,
         inner |-> {e \in loops :
                      \A k \in Blocks : <<k, e[2]>> \in loops => <<k, e[1]>> \in loops}]

(* Every cycle goes through the header of a natural loop: without the      *)
(* edges back to a header the graph has no cycle.                          *)
Reducible(succ) ==
    LET forward == [b \in Blocks |-> {s \in succ[b] : ~Dominates(succ, s, b)}]
    IN  \A b \in Blocks : \A a \in forward[b] : b \notin Region(forward, {a}, Entry)

Body(g, h) == {b \in Blocks : <<h, b>> \in g.loops}

(* The innermost loop of b, as the set of its header or the empty set. *)
LoopFor(g, b) == {h \in Blocks : <<h, b>> \in g.inner}

ExitBlocks(g, h) == (UNION {g.succ[b] : b \in Body(g, h)}) \ Body(g, h)

(* The one block outside that enters the loop, when it goes nowhere else. *)
Preheaders(g, h) ==
    LET outside == {b \in Blocks \ Body(g, h) : h \in g.succ[b]}
    IN  {b \in outside : outside = {b} /\ g.succ[b] = {h}}
=============================================================================
