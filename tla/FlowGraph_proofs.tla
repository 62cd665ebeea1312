--------------------------- MODULE FlowGraph_proofs ---------------------------
(***************************************************************************)
(* What the placement of checks needs of dominance and loops, for every    *)
(* finite control-flow graph.  A region is the least set that is closed    *)
(* under successors, so a fact about it is proved by naming a closed set;  *)
(* no path is ever written down.                                           *)
(***************************************************************************)
EXTENDS FlowGraph, FiniteSetTheorems, WellFoundedInduction, TLAPS

Graphs == [Blocks -> SUBSET Blocks]

-----------------------------------------------------------------------------
(* Regions.                                                                *)

LEMMA RegionType ==
    ASSUME NEW succ, NEW S, NEW a
    PROVE  Region(succ, S, a) \in SUBSET Blocks
  BY DEF Region

(* The blocks a region starts from are in it. *)
LEMMA RegionStart ==
    ASSUME NEW succ, NEW S, NEW a, NEW y \in Blocks, y \in S, y # a
    PROVE  y \in Region(succ, S, a)
  BY DEF Region

(* A region is left only through the block it avoids. *)
LEMMA RegionClosed ==
    ASSUME NEW succ, NEW S, NEW a, NEW x \in Region(succ, S, a),
           NEW y \in Blocks, y \in succ[x], y # a
    PROVE  y \in Region(succ, S, a)
  BY DEF Region, Closed

(* A region is contained in every closed set that has its first blocks. *)
LEMMA RegionLeast ==
    ASSUME NEW succ, NEW S, NEW a, NEW X \in SUBSET Blocks,
           \A s \in S : s # a => s \in X,
           \A x \in X : \A s \in succ[x] : s # a => s \in X
    PROVE  Region(succ, S, a) \subseteq X
  BY DEF Region, Closed

LEMMA RegionAvoids ==
    ASSUME NEW succ \in Graphs, NEW S \in SUBSET Blocks, NEW a
    PROVE  a \notin Region(succ, S, a)
  <1> DEFINE X == Blocks \ {a}
  <1>1. \A x \in X : \A s \in succ[x] : s # a => s \in X
    BY DEF Graphs
  <1>2. \A s \in S : s # a => s \in X
    OBVIOUS
  <1>3. X \in SUBSET Blocks /\ a \notin X
    OBVIOUS
  <1> HIDE DEF X
  <1> QED  BY <1>1, <1>2, <1>3, RegionLeast

(* A block of a region is one it starts from or follows one of the region. *)
LEMMA RegionPred ==
    ASSUME NEW succ \in Graphs, NEW S \in SUBSET Blocks, NEW a, NEW b \in Region(succ, S, a)
    PROVE  b \in S \/ \E p \in Region(succ, S, a) : b \in succ[p]
  <1> SUFFICES ASSUME b \notin S, \A p \in Region(succ, S, a) : b \notin succ[p]
               PROVE  FALSE
    OBVIOUS
  <1> DEFINE X == Region(succ, S, a) \ {b}
  <1>1. X \in SUBSET Blocks /\ b \notin X
    BY RegionType
  <1>2. \A s \in S : s # a => s \in X
    BY RegionStart
  <1>3. \A x \in X : \A s \in succ[x] : s # a => s \in X
    <2> SUFFICES ASSUME NEW x \in X, NEW s \in succ[x], s # a PROVE s \in X
      OBVIOUS
    <2>1. x \in Region(succ, S, a) /\ s # b
      OBVIOUS
    <2>2. s \in Blocks
      BY <1>1 DEF Graphs
    <2> QED  BY <2>1, <2>2, RegionClosed
  <1> HIDE DEF X
  <1> QED  BY <1>1, <1>2, <1>3, RegionLeast

LEMMA RegionTrans ==
    ASSUME NEW succ \in Graphs, NEW S, NEW a,
           NEW c \in Region(succ, S, a), NEW b \in Region(succ, {c}, a)
    PROVE  b \in Region(succ, S, a)
  <1> DEFINE X == Region(succ, S, a)
  <1>1. X \in SUBSET Blocks
    BY RegionType
  <1>2. \A x \in X : \A s \in succ[x] : s # a => s \in X
    BY <1>1, RegionClosed DEF Graphs
  <1>3. \A s \in {c} : s # a => s \in X
    OBVIOUS
  <1> HIDE DEF X
  <1>4. Region(succ, {c}, a) \subseteq X
    BY <1>1, <1>2, <1>3, RegionLeast
  <1> QED  BY <1>4 DEF X

(* Whatever a successor reaches, the block itself reaches. *)
LEMMA RegionBack ==
    ASSUME NEW succ \in Graphs, NEW a, NEW c \in Blocks, c # a,
           NEW s \in succ[c], s # a, NEW b \in Region(succ, {s}, a)
    PROVE  b \in Region(succ, {c}, a)
  <1>1. s \in Blocks
    BY DEF Graphs
  <1>2. c \in Region(succ, {c}, a)
    BY RegionStart
  <1>3. s \in Region(succ, {c}, a)
    BY <1>1, <1>2, RegionClosed
  <1> QED  BY <1>3, RegionTrans

LEMMA RegionUnion ==
    ASSUME NEW succ \in Graphs, NEW S \in SUBSET Blocks, NEW a, NEW b \in Region(succ, S, a)
    PROVE  \E s \in S : b \in Region(succ, {s}, a)
  <1> DEFINE X == {c \in Blocks : \E s \in S : c \in Region(succ, {s}, a)}
  <1>1. X \in SUBSET Blocks
    OBVIOUS
  <1>2. \A s \in S : s # a => s \in X
    <2> SUFFICES ASSUME NEW s \in S, s # a PROVE s \in X
      OBVIOUS
    <2>1. s \in Region(succ, {s}, a)
      BY RegionStart
    <2> QED  BY <2>1
  <1>3. \A x \in X : \A y \in succ[x] : y # a => y \in X
    <2> SUFFICES ASSUME NEW x \in X, NEW y \in succ[x], y # a PROVE y \in X
      OBVIOUS
    <2>1. PICK s \in S : x \in Region(succ, {s}, a)
      OBVIOUS
    <2>2. y \in Blocks
      BY DEF Graphs
    <2>3. y \in Region(succ, {s}, a)
      BY <2>1, <2>2, RegionClosed
    <2> QED  BY <2>2, <2>3
  <1>4. Region(succ, S, a) \subseteq X
    <2> HIDE DEF X
    <2> QED  BY <1>1, <1>2, <1>3, RegionLeast
  <1> QED  BY <1>4

-----------------------------------------------------------------------------
(* The blocks an execution can be in.                                      *)
Reached(succ) ==
    {b \in Blocks : \A X \in SUBSET Blocks :
        Entry \in X /\ (\A x \in X : succ[x] \subseteq X) => b \in X}

LEMMA ReachedEntry ==
    ASSUME NEW succ
    PROVE  Entry \in Reached(succ)
  BY EntryAssumption DEF Reached

LEMMA ReachedStep ==
    ASSUME NEW succ \in Graphs, NEW b \in Reached(succ), NEW s \in succ[b]
    PROVE  s \in Reached(succ)
  BY DEF Reached, Graphs

LEMMA ReachedLeast ==
    ASSUME NEW succ, NEW X \in SUBSET Blocks, Entry \in X,
           \A x \in X : \A s \in succ[x] : s \in X
    PROVE  Reached(succ) \subseteq X
  BY DEF Reached

LEMMA RegionReached ==
    ASSUME NEW succ \in Graphs, NEW S, NEW a, \A s \in S : s \in Reached(succ),
           NEW b \in Region(succ, S, a)
    PROVE  b \in Reached(succ)
  <1> DEFINE X == Reached(succ)
  <1>1. X \in SUBSET Blocks
    BY DEF Reached
  <1>2. \A x \in X : \A s \in succ[x] : s # a => s \in X
    BY ReachedStep
  <1>3. \A s \in S : s # a => s \in X
    OBVIOUS
  <1> HIDE DEF X
  <1>4. Region(succ, S, a) \subseteq X
    BY <1>1, <1>2, <1>3, RegionLeast
  <1> QED  BY <1>4 DEF X

-----------------------------------------------------------------------------
(* Dominance.                                                              *)

(* Without entering d, execution stays in the region that avoids d. *)
LEMMA Undominated ==
    ASSUME NEW succ \in Graphs, NEW d
    PROVE  /\ Region(succ, {Entry}, d) \in SUBSET Blocks
           /\ d \notin Region(succ, {Entry}, d)
           /\ Entry # d => Entry \in Region(succ, {Entry}, d)
           /\ \A x \in Region(succ, {Entry}, d) : \A s \in succ[x] :
                s # d => s \in Region(succ, {Entry}, d)
  <1>1. Region(succ, {Entry}, d) \in SUBSET Blocks
    BY RegionType
  <1>2. d \notin Region(succ, {Entry}, d)
    BY RegionAvoids, EntryAssumption
  <1>3. Entry # d => Entry \in Region(succ, {Entry}, d)
    BY RegionStart, EntryAssumption
  <1>4. \A x \in Region(succ, {Entry}, d) : \A s \in succ[x] :
          s # d => s \in Region(succ, {Entry}, d)
    BY <1>1, RegionClosed DEF Graphs
  <1> QED  BY <1>1, <1>2, <1>3, <1>4

LEMMA EntryDominates ==
    ASSUME NEW succ \in Graphs, NEW b
    PROVE  Dominates(succ, Entry, b)
  <1> DEFINE X == {}
  <1>1. X \in SUBSET Blocks /\ \A s \in {Entry} : s # Entry => s \in X
    OBVIOUS
  <1>2. \A x \in X : \A s \in succ[x] : s # Entry => s \in X
    OBVIOUS
  <1>3. Region(succ, {Entry}, Entry) \subseteq X
    <2> HIDE DEF X
    <2> QED  BY <1>1, <1>2, RegionLeast
  <1> QED  BY <1>3 DEF Dominates

LEMMA DomRefl ==
    ASSUME NEW succ \in Graphs, NEW b
    PROVE  Dominates(succ, b, b)
  BY Undominated DEF Dominates

LEMMA DomTrans ==
    ASSUME NEW succ \in Graphs, NEW a, NEW b, NEW c,
           Dominates(succ, a, b), Dominates(succ, b, c)
    PROVE  Dominates(succ, a, c)
  <1> DEFINE A == Region(succ, {Entry}, a)
             B == Region(succ, {Entry}, b)
             X == A \cap B
  <1>1. b \notin A /\ c \notin B
    BY DEF Dominates
  <1>2. /\ A \in SUBSET Blocks /\ (Entry # a => Entry \in A)
        /\ \A x \in A : \A s \in succ[x] : s # a => s \in A
    BY Undominated
  <1>3. /\ Entry # b => Entry \in B
        /\ \A x \in B : \A s \in succ[x] : s # b => s \in B
    BY Undominated
  <1> HIDE DEF A, B
  <1>4. X \in SUBSET Blocks /\ \A s \in {Entry} : s # a => s \in X
    BY <1>1, <1>2, <1>3
  <1>5. \A x \in X : \A s \in succ[x] : s # a => s \in X
    BY <1>1, <1>2, <1>3
  <1>6. Region(succ, {Entry}, a) \subseteq X
    <2> HIDE DEF X
    <2> QED  BY <1>4, <1>5, RegionLeast
  <1> QED  BY <1>1, <1>6 DEF Dominates, A

(* What dominates a reached block is reached. *)
LEMMA DomReach ==
    ASSUME NEW succ \in Graphs, NEW d, NEW b \in Reached(succ), Dominates(succ, d, b)
    PROVE  d \in Reached(succ)
  <1> SUFFICES ASSUME d \notin Reached(succ) PROVE FALSE
    OBVIOUS
  <1> DEFINE X == Region(succ, {Entry}, d)
  <1>1. X \in SUBSET Blocks /\ Entry \in X
    BY Undominated, ReachedEntry
  <1>2. \A x \in X : x \in Reached(succ)
    BY ReachedEntry, RegionReached
  <1>3. \A x \in X : \A s \in succ[x] : s \in X
    BY <1>2, ReachedStep, Undominated
  <1>4. b \notin X
    BY DEF Dominates
  <1> HIDE DEF X
  <1> QED  BY <1>1, <1>3, <1>4, ReachedLeast

LEMMA DomAntisym ==
    ASSUME NEW succ \in Graphs, NEW a, NEW b, a # b,
           Dominates(succ, a, b), Dominates(succ, b, a)
    PROVE  a \notin Reached(succ)
  <1> DEFINE A == Region(succ, {Entry}, a)
             B == Region(succ, {Entry}, b)
             X == A \cap B
  <1>1. b \notin A /\ a \notin B
    BY DEF Dominates
  <1>2. /\ A \in SUBSET Blocks /\ (Entry # a => Entry \in A) /\ a \notin A
        /\ \A x \in A : \A s \in succ[x] : s # a => s \in A
    BY Undominated
  <1>3. /\ Entry # b => Entry \in B
        /\ \A x \in B : \A s \in succ[x] : s # b => s \in B
    BY Undominated
  <1> HIDE DEF A, B
  <1>4. X \in SUBSET Blocks /\ Entry \in X
    BY <1>1, <1>2, <1>3
  <1>5. \A x \in X : \A s \in succ[x] : s \in X
    BY <1>1, <1>2, <1>3
  <1>6. Reached(succ) \subseteq X
    <2> HIDE DEF X
    <2> QED  BY <1>4, <1>5, ReachedLeast
  <1> QED  BY <1>2, <1>6

(* The dominators of a reached block form a chain. *)
LEMMA DomTotal ==
    ASSUME NEW succ \in Graphs, NEW h, NEW k, NEW b \in Reached(succ),
           Dominates(succ, h, b), Dominates(succ, k, b)
    PROVE  Dominates(succ, h, k) \/ Dominates(succ, k, h)
  <1> SUFFICES ASSUME ~Dominates(succ, h, k), ~Dominates(succ, k, h) PROVE FALSE
    OBVIOUS
  <1> DEFINE A == Region(succ, {Entry}, h)
             B == Region(succ, {Entry}, k)
             X == A \cup B
  <1>1. k \in A /\ h \in B /\ b \notin X
    BY DEF Dominates
  <1>2. /\ A \in SUBSET Blocks /\ (Entry # h => Entry \in A)
        /\ \A x \in A : \A s \in succ[x] : s # h => s \in A
    BY Undominated
  <1>3. /\ B \in SUBSET Blocks /\ k \notin B
        /\ \A x \in B : \A s \in succ[x] : s # k => s \in B
    BY Undominated
  <1> HIDE DEF A, B
  <1>4. X \in SUBSET Blocks /\ Entry \in X
    BY <1>1, <1>2, <1>3
  <1>5. \A x \in X : \A s \in succ[x] : s \in X
    BY <1>1, <1>2, <1>3
  <1> HIDE DEF X
  <1> QED  BY <1>1, <1>4, <1>5, ReachedLeast

-----------------------------------------------------------------------------
(* Least elements of finite families.                                      *)

LEMMA LeastNumber ==
    ASSUME NEW T \in SUBSET Nat, T # {}
    PROVE  \E n \in T : \A k \in T : n <= k
  <1> DEFINE R == {q \in Nat \X Nat : q[1] < q[2]}
  <1>1. IsWellFoundedOn(R, Nat)
    BY NatLessThanWellFounded DEF OpToRel
  <1> HIDE DEF R
  <1>2. \E n \in T : \A k \in T : ~(<<k, n>> \in R)
    BY <1>1, WFMin
  <1>3. \A n, k \in Nat : ~(<<k, n>> \in R) => n <= k
    BY DEF R
  <1> QED  BY <1>2, <1>3

(* One of the sets m[c] contains no other of them properly. *)
LEMMA LeastSet ==
    ASSUME NEW C, C # {}, NEW m \in [C -> SUBSET Blocks]
    PROVE  \E c \in C : \A d \in C : m[d] \subseteq m[c] => m[d] = m[c]
  <1> DEFINE T == {Cardinality(m[c]) : c \in C}
  <1>1. \A c \in C : IsFiniteSet(m[c]) /\ Cardinality(m[c]) \in Nat
    BY BlocksAssumption, FS_Subset, FS_CardinalityType
  <1>2. T \in SUBSET Nat /\ T # {}
    BY <1>1
  <1>3. PICK n \in T : \A k \in T : n <= k
    <2> HIDE DEF T
    <2> QED  BY <1>2, LeastNumber
  <1>4. PICK c \in C : n = Cardinality(m[c])
    OBVIOUS
  <1>5. \A d \in C : Cardinality(m[c]) <= Cardinality(m[d])
    BY <1>3, <1>4
  <1>6. ASSUME NEW d \in C, m[d] \subseteq m[c], m[d] # m[c] PROVE FALSE
    <2>1. Cardinality(m[d]) < Cardinality(m[c])
      BY <1>1, <1>6, FS_Subset
    <2> QED  BY <1>1, <1>5, <2>1
  <1> QED  BY <1>6

-----------------------------------------------------------------------------
(* Natural loops.                                                          *)
Latches(succ, h) == {t \in Blocks : h \in succ[t] /\ Dominates(succ, h, t)}

InLoop(succ, h, b) ==
    \E t \in Latches(succ, h) : b = h \/ t \in Region(succ, {b}, h)

LEMMA LoopBodyMeans ==
    ASSUME NEW succ, NEW h \in Blocks, NEW b \in Blocks
    PROVE  b \in LoopBody(succ, h) <=> InLoop(succ, h, b)
  BY DEF LoopBody, InLoop, Latches

(* The innermost loops of b, of which there is at most one. *)
LEMMA LoopForMeans ==
    ASSUME NEW succ, NEW h \in Blocks, NEW b \in Blocks
    PROVE  h \in LoopFor(Analysed(succ), b)
             <=> /\ InLoop(succ, h, b)
                 /\ \A k \in Blocks : InLoop(succ, k, b) => InLoop(succ, k, h)
  <1>1. \A k, c \in Blocks : <<k, c>> \in Analysed(succ).loops <=> InLoop(succ, k, c)
    BY LoopBodyMeans DEF Analysed
  <1>2. \A k, c \in Blocks :
          <<k, c>> \in Analysed(succ).inner
            <=> /\ <<k, c>> \in Analysed(succ).loops
                /\ \A j \in Blocks : <<j, c>> \in Analysed(succ).loops
                                       => <<j, k>> \in Analysed(succ).loops
    BY DEF Analysed
  <1>3. h \in LoopFor(Analysed(succ), b) <=> <<h, b>> \in Analysed(succ).inner
    BY DEF LoopFor
  <1> QED  BY <1>1, <1>2, <1>3

LEMMA HeaderDominates ==
    ASSUME NEW succ \in Graphs, NEW h \in Blocks, NEW b \in Blocks, InLoop(succ, h, b)
    PROVE  Dominates(succ, h, b)
  <1>1. PICK t \in Latches(succ, h) : b = h \/ t \in Region(succ, {b}, h)
    BY DEF InLoop
  <1>2. Dominates(succ, h, t)
    BY <1>1 DEF Latches
  <1>3. CASE b = h
    BY <1>3, DomRefl
  <1>4. CASE t \in Region(succ, {b}, h)
    BY <1>2, <1>4, RegionTrans DEF Dominates
  <1> QED  BY <1>1, <1>3, <1>4

(* Of two loops of b, the one whose header dominates the other's contains  *)
(* that header: it reaches b, and b a latch, without entering k.           *)
LEMMA HeaderInside ==
    ASSUME NEW succ \in Graphs, NEW b \in Reached(succ), NEW h \in Blocks, NEW k \in Blocks,
           InLoop(succ, h, b), InLoop(succ, k, b), Dominates(succ, k, h)
    PROVE  InLoop(succ, k, h)
  <1>0. b \in Blocks
    BY DEF Reached
  <1>1. PICK t \in Latches(succ, k) : b = k \/ t \in Region(succ, {b}, k)
    BY DEF InLoop
  <1>2. SUFFICES ASSUME h # k PROVE t \in Region(succ, {h}, k)
    BY <1>1 DEF InLoop
  <1>3. Dominates(succ, h, b) /\ h \in Reached(succ)
    BY <1>0, HeaderDominates, DomReach
  <1>4. ~Dominates(succ, h, k)
    BY <1>2, <1>3, DomAntisym
  <1>5. b \in Region(succ, {h}, k)
    <2> DEFINE A == Region(succ, {Entry}, h)
               B == Region(succ, {h}, k)
               X == A \cup B
    <2>1. k \in A /\ b \notin A
      BY <1>3, <1>4 DEF Dominates
    <2>2. /\ A \in SUBSET Blocks /\ (Entry # h => Entry \in A)
          /\ \A x \in A : \A s \in succ[x] : s # h => s \in A
      BY Undominated
    <2>3. B \in SUBSET Blocks /\ h \in B
      BY <1>2, RegionType, RegionStart
    <2>4. \A x \in B : \A s \in succ[x] : s # k => s \in B
      BY <2>3, RegionClosed DEF Graphs
    <2> HIDE DEF A, B
    <2>5. X \in SUBSET Blocks /\ Entry \in X
      BY <2>2, <2>3
    <2>6. \A x \in X : \A s \in succ[x] : s \in X
      BY <2>1, <2>2, <2>3, <2>4
    <2>7. b \in X
      <3> HIDE DEF X
      <3> QED  BY <2>5, <2>6, ReachedLeast
    <2> QED  BY <2>1, <2>7 DEF B
  <1>6. b # k
    BY <1>3, <1>4
  <1> QED  BY <1>1, <1>5, <1>6, RegionTrans

(* A reached block that is in a loop has an innermost one. *)
LEMMA InnermostLoop ==
    ASSUME NEW succ \in Graphs, NEW b \in Reached(succ), NEW k \in Blocks, InLoop(succ, k, b)
    PROVE  \E h \in Blocks : h \in LoopFor(Analysed(succ), b)
  <1>0. b \in Blocks
    BY DEF Reached
  <1> DEFINE H == {j \in Blocks : InLoop(succ, j, b)}
             m == [h \in H |-> {j \in H : Dominates(succ, h, j)}]
  <1>1. H # {} /\ m \in [H -> SUBSET Blocks]
    OBVIOUS
  <1>2. PICK h \in H : \A d \in H : m[d] \subseteq m[h] => m[d] = m[h]
    <2> HIDE DEF H, m
    <2> QED  BY <1>1, LeastSet
  <1>3. ASSUME NEW d \in H PROVE Dominates(succ, d, h)
    <2> SUFFICES ASSUME ~Dominates(succ, d, h) PROVE FALSE
      OBVIOUS
    <2>1. Dominates(succ, d, b) /\ Dominates(succ, h, b)
      BY <1>0, <1>3, HeaderDominates
    <2>2. Dominates(succ, h, d)
      BY <2>1, DomTotal
    <2>3. m[d] \subseteq m[h]
      BY <2>2, DomTrans
    <2>4. h \in m[h] /\ h \notin m[d]
      BY DomRefl
    <2> HIDE DEF m
    <2> QED  BY <1>2, <2>3, <2>4
  <1>4. \A d \in Blocks : InLoop(succ, d, b) => InLoop(succ, d, h)
    BY <1>3, HeaderInside
  <1>5. h \in Blocks /\ InLoop(succ, h, b)
    OBVIOUS
  <1> QED  BY <1>0, <1>4, <1>5, LoopForMeans

-----------------------------------------------------------------------------
(* The cycles through sb that avoid lb: the blocks that follow sb and come *)
(* back to it without entering lb.                                         *)
Around(succ, sb, lb) ==
    {c \in Blocks : c \in Region(succ, succ[sb], lb) /\ sb \in Region(succ, {c}, lb)}

LEMMA AroundBlock ==
    ASSUME NEW succ \in Graphs, NEW sb \in Blocks, NEW lb, NEW c \in Around(succ, sb, lb)
    PROVE  /\ c \in Blocks /\ c \in Region(succ, succ[sb], lb)
           /\ sb \in Region(succ, {c}, lb) /\ c # lb
  <1>1. succ[sb] \in SUBSET Blocks
    BY DEF Graphs
  <1> QED  BY <1>1, RegionAvoids DEF Around

(* Every block of the cycles follows one of them. *)
LEMMA AroundPred ==
    ASSUME NEW succ \in Graphs, NEW sb \in Blocks, NEW lb,
           sb \in Around(succ, sb, lb), NEW c \in Around(succ, sb, lb)
    PROVE  \E p \in Around(succ, sb, lb) : c \in succ[p]
  <1>1. succ[sb] \in SUBSET Blocks
    BY DEF Graphs
  <1>2. c \in succ[sb] \/ \E p \in Region(succ, succ[sb], lb) : c \in succ[p]
    BY <1>1, AroundBlock, RegionPred
  <1>3. ASSUME NEW p \in Region(succ, succ[sb], lb), c \in succ[p] PROVE p \in Around(succ, sb, lb)
    <2>1. p \in Blocks /\ p # lb
      BY <1>1, RegionType, RegionAvoids
    <2>2. sb \in Region(succ, {p}, lb)
      BY <1>3, <2>1, AroundBlock, RegionBack
    <2> QED  BY <2>1, <2>2 DEF Around
  <1> QED  BY <1>2, <1>3

(* From each of these blocks all the others are reached through them. *)
LEMMA AroundConnected ==
    ASSUME NEW succ \in Graphs, NEW sb \in Blocks, NEW lb, sb # lb, NEW X,
           NEW first \in Around(succ, sb, lb), first \in X,
           \A x \in Around(succ, sb, lb) : \A s \in succ[x] :
               x \in X /\ s \in Around(succ, sb, lb) => s \in X
    PROVE  Around(succ, sb, lb) \subseteq X
  <1> DEFINE C == Around(succ, sb, lb)
             lost == {b \in Blocks : b # lb /\ sb \notin Region(succ, {b}, lb)}
             Y == {b \in C : b \in X} \cup lost
  <1>0. succ[sb] \in SUBSET Blocks
    BY DEF Graphs
  <1>1. \A c \in C : /\ c \in Blocks /\ c \in Region(succ, succ[sb], lb)
                     /\ sb \in Region(succ, {c}, lb) /\ c # lb
    BY AroundBlock
  <1>2. \A y \in Y : \A s \in succ[y] : s # lb => s \in Y
    <2> SUFFICES ASSUME NEW y \in Y, NEW s \in succ[y], s # lb PROVE s \in Y
      OBVIOUS
    <2>1. y \in Blocks /\ y # lb
      BY <1>1
    <2>2. s \in Blocks
      BY <2>1 DEF Graphs
    <2>3. SUFFICES ASSUME sb \in Region(succ, {s}, lb) PROVE s \in Y
      BY <2>2
    <2>4. y \notin lost
      BY <2>1, <2>3, RegionBack
    <2>5. y \in C /\ y \in X
      BY <2>4
    <2>6. s \in Region(succ, succ[sb], lb)
      BY <1>1, <2>2, <2>5, RegionClosed
    <2>7. s \in C
      BY <2>2, <2>3, <2>6 DEF Around
    <2> HIDE DEF C, lost
    <2> QED  BY <2>5, <2>7 DEF C
  <1>3. Y \in SUBSET Blocks
    BY <1>1
  <1>4. sb \in Y
    <2>1. \A s \in {first} : s # lb => s \in Y
      OBVIOUS
    <2>2. sb \in Region(succ, {first}, lb)
      BY <1>1
    <2> HIDE DEF Y
    <2>3. Region(succ, {first}, lb) \subseteq Y
      BY <1>2, <1>3, <2>1, RegionLeast
    <2> QED  BY <2>2, <2>3
  <1>5. Region(succ, succ[sb], lb) \subseteq Y
    <2>1. \A s \in succ[sb] : s # lb => s \in Y
      BY <1>2, <1>4
    <2> HIDE DEF Y
    <2> QED  BY <1>2, <1>3, <2>1, RegionLeast
  <1>6. ASSUME NEW c \in C PROVE c \in X
    <2>1. c \in Y /\ c \notin lost
      BY <1>1, <1>5
    <2> QED  BY <2>1
  <1> QED  BY <1>6

-----------------------------------------------------------------------------
(* Reducible graphs.                                                       *)
Forward(succ) == [b \in Blocks |-> {s \in succ[b] : ~Dominates(succ, s, b)}]

(* What follows a block by forward edges grows along them backwards. *)
LEMMA ForwardGrows ==
    ASSUME NEW succ \in Graphs, Reducible(succ),
           NEW p \in Blocks, NEW c \in Forward(succ)[p]
    PROVE  /\ Region(Forward(succ), Forward(succ)[c], Entry)
                \subseteq Region(Forward(succ), Forward(succ)[p], Entry)
           /\ c \in Region(Forward(succ), Forward(succ)[p], Entry)
           /\ c \notin Region(Forward(succ), Forward(succ)[c], Entry)
  <1> DEFINE F == Forward(succ)
             X == Region(F, F[p], Entry)
  <1>1. F \in Graphs
    BY DEF Forward, Graphs
  <1>2. c \in Blocks /\ ~Dominates(succ, c, p)
    BY DEF Forward, Graphs
  <1>3. c # Entry
    BY <1>2, EntryDominates
  <1>4. \A b \in Blocks : \A a \in F[b] : b \notin Region(F, {a}, Entry)
    BY DEF Reducible, Forward
  <1>5. c \in F[p] /\ F[c] \in SUBSET Blocks
    BY <1>1, <1>2 DEF Graphs
  <1> HIDE DEF F
  <1>6. c \in X
    BY <1>2, <1>3, <1>5, RegionStart
  <1>7. X \in SUBSET Blocks
    BY RegionType
  <1>8. \A x \in X : \A s \in F[x] : s # Entry => s \in X
    BY <1>1, <1>7, RegionClosed DEF Graphs
  <1>9. Region(F, F[c], Entry) \subseteq X
    <2>1. \A s \in F[c] : s # Entry => s \in X
      BY <1>6, <1>8
    <2> HIDE DEF X
    <2> QED  BY <1>7, <1>8, <2>1, RegionLeast
  <1>10. c \notin Region(F, F[c], Entry)
    BY <1>1, <1>2, <1>4, <1>5, RegionUnion
  <1> QED  BY <1>6, <1>9, <1>10 DEF F

(* Every set of blocks of a reducible graph has one that is entered from   *)
(* the set only by edges back to a dominator.                              *)
LEMMA HeaderOf ==
    ASSUME NEW succ \in Graphs, Reducible(succ), NEW C \in SUBSET Blocks, C # {}
    PROVE  \E h \in C : \A p \in C : h \in succ[p] => Dominates(succ, h, p)
  <1> DEFINE m == [c \in C |-> Blocks \ Region(Forward(succ), Forward(succ)[c], Entry)]
  <1>1. m \in [C -> SUBSET Blocks]
    OBVIOUS
  <1>2. PICK c \in C : \A d \in C : m[d] \subseteq m[c] => m[d] = m[c]
    <2> HIDE DEF m
    <2> QED  BY <1>1, LeastSet
  <1>3. ASSUME NEW p \in C, c \in succ[p], ~Dominates(succ, c, p) PROVE FALSE
    <2>1. p \in Blocks /\ c \in Blocks /\ c \in Forward(succ)[p]
      BY <1>3 DEF Forward
    <2>2. m[p] \subseteq m[c] /\ c \in m[c] /\ c \notin m[p]
      BY <2>1, ForwardGrows
    <2> HIDE DEF m
    <2> QED  BY <1>2, <2>2
  <1> QED  BY <1>3

(* All the cycles through sb that avoid lb are in a loop whose header is   *)
(* one of their blocks.                                                    *)
LEMMA AroundLoop ==
    ASSUME NEW succ \in Graphs, Reducible(succ), NEW sb \in Blocks, NEW lb, sb # lb,
           sb \in Around(succ, sb, lb)
    PROVE  \E h \in Around(succ, sb, lb) : InLoop(succ, h, sb)
  <1> DEFINE C == Around(succ, sb, lb)
  <1>0. C \in SUBSET Blocks /\ C # {}
    BY DEF Around
  <1>1. PICK h \in C : \A p \in C : h \in succ[p] => Dominates(succ, h, p)
    <2> HIDE DEF C
    <2> QED  BY <1>0, HeaderOf
  <1>2. h \in Blocks
    BY <1>0
  <1>3. ASSUME NEW c \in C PROVE Dominates(succ, h, c)
    <2> DEFINE X == Region(succ, {Entry}, h)
    <2>1. /\ h \notin X
          /\ \A x \in X : \A s \in succ[x] : s # h => s \in X
      BY Undominated
    <2>2. SUFFICES ASSUME c \in X PROVE FALSE
      BY DEF Dominates
    <2>3. ASSUME NEW x \in C, NEW s \in succ[x], x \in X, s \in C PROVE s \in X
      <3>1. CASE s = h
        BY <1>1, <2>3, <3>1 DEF Dominates
      <3>2. CASE s # h
        BY <2>1, <2>3, <3>2
      <3> QED  BY <3>1, <3>2
    <2>4. C \subseteq X
      <3> HIDE DEF X
      <3> QED  BY <2>2, <2>3, AroundConnected
    <2> QED  BY <2>1, <2>4
  <1>4. PICK t \in C : h \in succ[t]
    BY AroundPred
  <1>5. t \in Latches(succ, h)
    BY <1>0, <1>3, <1>4 DEF Latches
  <1>6. SUFFICES ASSUME sb # h PROVE \E q \in Latches(succ, h) : q \in Region(succ, {sb}, h)
    BY <1>5 DEF InLoop
  <1>7. SUFFICES ASSUME \A q \in Latches(succ, h) : q \notin Region(succ, {sb}, h) PROVE FALSE
    OBVIOUS
  <1> DEFINE X == {c \in C : c # h /\ \A q \in Latches(succ, h) : q \notin Region(succ, {c}, h)}
  <1>8. sb \in C /\ sb \in X
    BY <1>6, <1>7
  <1>9. ASSUME NEW x \in C, NEW s \in succ[x], x \in X, s \in C PROVE s \in X
    <2>1. x \in Blocks /\ x # h
      BY <1>0, <1>9
    <2>2. x \in Region(succ, {x}, h)
      BY <2>1, RegionStart
    <2>3. s # h
      <3> SUFFICES ASSUME s = h PROVE FALSE
        OBVIOUS
      <3>1. x \in Latches(succ, h)
        BY <1>3, <2>1 DEF Latches
      <3> QED  BY <1>9, <2>2, <3>1
    <2>4. \A q \in Latches(succ, h) : q \notin Region(succ, {s}, h)
      BY <1>9, <2>1, <2>3, RegionBack
    <2> QED  BY <1>9, <2>3, <2>4
  <1>10. C \subseteq X
    <2> HIDE DEF X
    <2> QED  BY <1>8, <1>9, AroundConnected
  <1> QED  BY <1>10

(* Where a value is loaded in a block lb and its check sits in another     *)
(* block sb that lb dominates, with no loop between them, the check is not *)
(* executed twice without a new load: in a reducible graph every way from  *)
(* sb back to sb goes through lb.                                          *)
THEOREM SinkNeedsNewLoad ==
    ASSUME NEW succ \in Graphs, Reducible(succ),
           NEW lb \in Blocks, NEW sb \in Reached(succ), lb # sb,
           Dominates(succ, lb, sb),
           LoopFor(Analysed(succ), sb) = LoopFor(Analysed(succ), lb)
    PROVE  sb \notin Region(succ, succ[sb], lb)
  <1> SUFFICES ASSUME sb \in Region(succ, succ[sb], lb) PROVE FALSE
    OBVIOUS
  <1>0. sb \in Blocks
    BY DEF Reached
  <1>1. sb \in Around(succ, sb, lb)
    BY <1>0, RegionStart DEF Around
  <1>2. PICK h \in Around(succ, sb, lb) : InLoop(succ, h, sb)
    BY <1>0, <1>1, AroundLoop
  <1>3. /\ h \in Blocks /\ h \in Region(succ, succ[sb], lb)
        /\ sb \in Region(succ, {h}, lb) /\ h # lb
    BY <1>0, AroundBlock
  <1>4. PICK k \in Blocks : k \in LoopFor(Analysed(succ), sb)
    BY <1>2, <1>3, InnermostLoop
  <1>5. Dominates(succ, h, k)
    BY <1>0, <1>2, <1>3, <1>4, LoopForMeans, HeaderDominates
  <1>6. Dominates(succ, k, lb)
    <2>1. k \in LoopFor(Analysed(succ), lb)
      BY <1>4
    <2> QED  BY <2>1, LoopForMeans, HeaderDominates
  <1>7. Dominates(succ, h, lb)
    BY <1>5, <1>6, DomTrans
  <1>8. h \in Reached(succ)
    BY <1>3, ReachedStep, RegionReached
  <1>9. h \in Region(succ, {Entry}, lb)
    BY <1>3, <1>7, <1>8, DomAntisym DEF Dominates
  <1> QED  BY <1>3, <1>9, RegionTrans DEF Dominates
=============================================================================
