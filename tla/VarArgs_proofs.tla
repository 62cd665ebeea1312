---------------------------- MODULE VarArgs_proofs ----------------------------
(***************************************************************************)
(* The size that the caller counts covers what va_arg reads, for any       *)
(* arguments, any number of registers and any nesting of calls and signal  *)
(* handlers.                                                               *)
(*                                                                         *)
(* Two arguments meet.  By induction over the arguments of one call, the   *)
(* loop of visitCallBase and the calling convention take registers alike,  *)
(* and the convention's area is the counted size unless it has a hole.     *)
(* And by induction over the steps, a function called by instrumented code *)
(* got the size of its own call: what a handler stores in between is       *)
(* undone by its backup, which sits on the stack above the call.           *)
(***************************************************************************)
EXTENDS VarArgs, SequenceTheorems, WellFoundedInduction, TLAPS

----------------------------------------------------------------------------
(* Induction and recursion over the indices of a sequence.                 *)

LEMMA LeastNat ==
  ASSUME NEW T \in SUBSET Nat, T # {}
  PROVE  \E x \in T : \A y \in T : x <= y
<1> DEFINE R == {ss \in Nat \X Nat : ss[1] < ss[2]}
<1>1. IsWellFoundedOn(R, Nat)
  BY NatLessThanWellFounded DEF OpToRel
<1> HIDE DEF R
<1>2. \E x \in T : \A y \in T : ~(<<y, x>> \in R)
  BY <1>1, WFMin
<1>3. \A x, y \in Nat : ~(<<y, x>> \in R) => x <= y
  BY DEF R
<1> QED  BY <1>2, <1>3

\* A set of indices that has 0 and the successors of its elements has them all.
LEMMA IndexInduction ==
  ASSUME NEW N \in Nat, NEW T, 0 \in T, \A n \in 1..N : n - 1 \in T => n \in T
  PROVE  \A n \in 0..N : n \in T
<1> DEFINE U == {n \in 0..N : n \notin T}
<1> SUFFICES ASSUME U # {} PROVE FALSE
  OBVIOUS
<1>0. U \in SUBSET Nat
  OBVIOUS
<1>1. PICK m \in U : \A y \in U : m <= y
  <2> HIDE DEF U
  <2> QED  BY <1>0, LeastNat
<1>2. m \in 1..N
  BY <1>1
<1>3. m - 1 \in 0..N /\ m - 1 < m
  BY <1>2
<1>4. m - 1 \in T
  BY <1>1, <1>3
<1> QED  BY <1>1, <1>2, <1>4

\* g is given by its first value and the step from each to the next.
Solves(g, N, S, init, step) ==
  /\ g \in [0..N -> S]
  /\ g[0] = init /\ \A n \in 1..N : g[n] = step[<<g[n - 1], n>>]

LEMMA Recursion ==
  ASSUME NEW N \in Nat, NEW S, NEW init \in S, NEW step \in [S \X (1..N) -> S]
  PROVE  \E g : Solves(g, N, S, init, step)
<1> DEFINE Has(m) == \E g \in [0..m -> S] :
                       g[0] = init /\ \A n \in 1..m : g[n] = step[<<g[n - 1], n>>]
           T == {m \in 0..N : Has(m)}
<1>1. 0 \in T
  <2> DEFINE g == [n \in 0..0 |-> init]
  <2>1. g \in [0..0 -> S] /\ g[0] = init
    OBVIOUS
  <2>2. \A n \in 1..0 : g[n] = step[<<g[n - 1], n>>]
    OBVIOUS
  <2> HIDE DEF g
  <2>3. Has(0)
    BY <2>1, <2>2
  <2> QED  BY <2>3
<1>2. ASSUME NEW m \in 1..N, m - 1 \in T PROVE m \in T
  <2>1. PICK g \in [0..(m - 1) -> S] :
          g[0] = init /\ \A n \in 1..(m - 1) : g[n] = step[<<g[n - 1], n>>]
    BY <1>2
  <2> DEFINE h == [n \in 0..m |-> IF n = m THEN step[<<g[m - 1], m>>] ELSE g[n]]
  <2>2. h \in [0..m -> S]
    BY <2>1
  <2>3. h[0] = init
    BY <2>1
  <2>4. ASSUME NEW n \in 1..m PROVE h[n] = step[<<h[n - 1], n>>]
    <3>1. n - 1 \in 0..m /\ n - 1 # m
      OBVIOUS
    <3>2. h[n - 1] = g[n - 1]
      BY <3>1
    <3>3. CASE n = m
      <4>1. m \in 0..m
        OBVIOUS
      <4>2. h[m] = step[<<g[m - 1], m>>]
        BY <4>1
      <4> HIDE DEF h
      <4> QED  BY <3>2, <3>3, <4>2
    <3>4. CASE n # m
      <4>1. n \in 0..m /\ n \in 1..(m - 1)
        BY <3>4
      <4>2. h[n] = g[n]
        BY <3>4, <4>1
      <4> HIDE DEF h
      <4> QED  BY <2>1, <3>2, <4>1, <4>2
    <3> QED  BY <3>3, <3>4
  <2> HIDE DEF h
  <2> QED  BY <2>2, <2>3, <2>4
<1> HIDE DEF T
<1>3. N \in T
  BY <1>1, <1>2, IndexInduction
<1> QED  BY <1>3 DEF T, Solves

\* A function that satisfies the equation is the one that Recursion gives.
LEMMA SameRecursion ==
  ASSUME NEW N \in Nat, NEW g, NEW h, g[0] = h[0],
         \A n \in 1..N : g[n - 1] = h[n - 1] => g[n] = h[n]
  PROVE  \A n \in 0..N : g[n] = h[n]
<1> DEFINE T == {n \in 0..N : g[n] = h[n]}
<1>1. 0 \in T
  OBVIOUS
<1>2. \A n \in 1..N : n - 1 \in T => n \in T
  OBVIOUS
<1> HIDE DEF T
<1>3. \A n \in 0..N : n \in T
  BY <1>1, <1>2, IndexInduction
<1> QED  BY <1>3 DEF T

----------------------------------------------------------------------------
(* What the recursive definitions compute.                                 *)

Regs == [{"gp", "fp"} -> Nat]
Tally == [used : Regs, overflow : Nat]
Layout == [used : Regs, sp : Nat, at : SUBSET Nat]

LEMMA WordsType == \A k \in Kinds : Words(k) \in 1..3
BY DEF Words, Kinds

\* s is f and then v.
Joins(s, f, v, S) ==
  /\ Len(f) \in Nat /\ Len(v) \in Nat /\ Len(s) = Len(f) + Len(v)
  /\ \A n \in 1..Len(s) : s[n] \in S
  /\ \A n \in 1..Len(v) : v[n] \in S /\ s[Len(f) + n] = v[n]

LEMMA Concatenated ==
  ASSUME NEW S, NEW f \in Seq(S), NEW v \in Seq(S)
  PROVE  Joins(f \o v, f, v, S)
<1>1. Len(f) \in Nat /\ Len(v) \in Nat
  BY LenProperties
<1>2. f \o v \in Seq(S) /\ Len(f \o v) = Len(f) + Len(v)
  BY ConcatProperties
<1>3. \A n \in 1..Len(f \o v) : (f \o v)[n] \in S
  <2>1. PICK s \in Seq(S) : s = f \o v
    BY <1>2
  <2>2. s \in [1..Len(s) -> S]
    BY LenProperties
  <2>3. \A n \in 1..Len(s) : s[n] \in S
    BY <2>2
  <2> QED  BY <2>1, <2>3
<1>4. ASSUME NEW n \in 1..Len(v) PROVE v[n] \in S /\ (f \o v)[Len(f) + n] = v[n]
  <2>1. v \in [1..Len(v) -> S]
    BY LenProperties
  <2>2. Len(f) + n \in 1..(Len(f) + Len(v)) /\ ~(Len(f) + n <= Len(f))
    BY <1>1
  <2>3. Len(f) + n - Len(f) = n
    BY <1>1
  <2> QED  BY <1>1, <2>1, <2>2, <2>3, ConcatProperties
<1> QED  BY <1>1, <1>2, <1>3, <1>4 DEF Joins

LEMMA ArgsAre ==
  ASSUME NEW c \in Calls
  PROVE  /\ Len(c.fixed) \in Nat /\ Len(c.var) \in Nat
         /\ Len(Args(c)) = Len(c.fixed) + Len(c.var)
         /\ \A n \in 1..Len(Args(c)) : Args(c)[n] \in Kinds
         /\ \A n \in 1..Len(c.var) :
              c.var[n] \in Kinds /\ Args(c)[Len(c.fixed) + n] = c.var[n]
<1>1. c.fixed \in Seq(Kinds) /\ c.var \in Seq(Kinds)
  BY DEF Calls
<1>2. Joins(Args(c), c.fixed, c.var, Kinds)
  BY <1>1, Concatenated DEF Args
<1> QED  BY <1>2 DEF Joins

LEMMA NothingType == Nothing \in Tally /\ Start \in Layout
BY DEF Nothing, NoRegs, Start, Tally, Layout, Regs

\* A register is taken alike by both; an argument in memory takes none.
LEMMA CountArgIs ==
  ASSUME NEW a \in Tally, NEW k \in Kinds, NEW isFixed \in BOOLEAN
  PROVE  /\ CountArg(a, k, isFixed) \in Tally
         /\ ~InMemory(a.used, k) =>
              /\ CountArg(a, k, isFixed).used = Take(a.used, k)
              /\ CountArg(a, k, isFixed).overflow = a.overflow
         /\ InMemory(a.used, k) =>
              /\ CountArg(a, k, isFixed).used = a.used
              /\ CountArg(a, k, isFixed).overflow =
                   IF isFixed THEN a.overflow ELSE a.overflow + Words(k)
<1>1. a.used \in Regs /\ a.overflow \in Nat /\ Words(k) \in Nat
  BY WordsType DEF Tally
<1>2. CASE ~InMemory(a.used, k)
  <2>1. k \in {"gp", "fp"}
    BY <1>2 DEF InMemory, Kinds
  <2>2. Take(a.used, k) \in Regs
    BY <1>1, <2>1 DEF Regs, Take
  <2>3. CountArg(a, k, isFixed) = [a EXCEPT !.used = Take(a.used, k)]
    BY <1>2 DEF CountArg
  <2> QED  BY <1>1, <1>2, <2>2, <2>3 DEF Tally
<1>3. CASE InMemory(a.used, k)
  <2>1. CountArg(a, k, isFixed) =
          IF isFixed THEN a ELSE [a EXCEPT !.overflow = a.overflow + Words(k)]
    BY <1>3 DEF CountArg
  <2> QED  BY <1>1, <1>3, <2>1 DEF Tally
<1> QED  BY <1>2, <1>3

LEMMA AlignIs ==
  ASSUME NEW k, NEW n \in Nat
  PROVE  Align(k, n) \in {n, n + 1}
BY DEF Align

\* The convention has a register left exactly when the pass counts one.
LEMMA RegisterLeftIs ==
  ASSUME NEW used \in Regs, NEW k \in Kinds
  PROVE  RegisterLeft(used, k) <=> ~InMemory(used, k)
BY VarArgsAssumption DEF RegisterLeft, InMemory, Kinds, Regs

LEMMA PlaceArgIs ==
  ASSUME NEW a \in Layout, NEW k \in Kinds
  PROVE  /\ PlaceArg(a, k) \in Layout
         /\ ~InMemory(a.used, k) =>
              /\ PlaceArg(a, k).used = Take(a.used, k)
              /\ PlaceArg(a, k).sp = a.sp /\ PlaceArg(a, k).at = a.at
         /\ InMemory(a.used, k) =>
              /\ PlaceArg(a, k).used = a.used
              /\ \E from \in {a.sp, a.sp + 1} :
                   /\ PlaceArg(a, k).sp = from + Words(k)
                   /\ PlaceArg(a, k).at = a.at \cup from..(from + Words(k) - 1)
<1>1. a.used \in Regs /\ a.sp \in Nat /\ a.at \in SUBSET Nat /\ Words(k) \in 1..3
  BY WordsType DEF Layout
<1>0. RegisterLeft(a.used, k) <=> ~InMemory(a.used, k)
  BY <1>1, RegisterLeftIs
<1>2. CASE ~InMemory(a.used, k)
  <2>1. k \in {"gp", "fp"}
    BY <1>2 DEF InMemory, Kinds
  <2>2. Take(a.used, k) \in Regs
    BY <1>1, <2>1 DEF Regs, Take
  <2>3. PlaceArg(a, k) = [a EXCEPT !.used = Take(a.used, k)]
    BY <1>0, <1>2 DEF PlaceArg
  <2> QED  BY <1>1, <1>2, <2>2, <2>3 DEF Layout
<1>3. CASE InMemory(a.used, k)
  <2>1. PICK from \in {a.sp, a.sp + 1} : from = Align(k, a.sp)
    BY <1>1, AlignIs
  <2>2. PlaceArg(a, k) = [a EXCEPT !.sp = from + Words(k),
                                   !.at = a.at \cup from..(from + Words(k) - 1)]
    BY <1>0, <1>3, <2>1 DEF PlaceArg
  <2>3. from + Words(k) \in Nat /\ from..(from + Words(k) - 1) \in SUBSET Nat
    BY <1>1, <2>1
  <2> QED  BY <1>1, <1>3, <2>1, <2>2, <2>3 DEF Layout
<1> QED  BY <1>2, <1>3

LEMMA CountedIs ==
  ASSUME NEW c \in Calls
  PROVE  /\ Counted(c)[0] = Nothing
         /\ \A n \in 0..Len(Args(c)) : Counted(c)[n] \in Tally
         /\ \A n \in 1..Len(Args(c)) :
              Counted(c)[n] = CountArg(Counted(c)[n - 1], Args(c)[n], n <= Len(c.fixed))
<1> DEFINE N == Len(Args(c))
           Def(g) == [n \in 0..N |->
                        IF n = 0 THEN Nothing
                        ELSE CountArg(g[n - 1], Args(c)[n], n <= Len(c.fixed))]
           step == [x \in Tally \X (1..N) |-> CountArg(x[1], Args(c)[x[2]], x[2] <= Len(c.fixed))]
<1>1. N \in Nat
  BY ArgsAre
<1>2. step \in [Tally \X (1..N) -> Tally]
  <2>1. ASSUME NEW a \in Tally, NEW n \in 1..N
        PROVE  CountArg(a, Args(c)[n], n <= Len(c.fixed)) \in Tally
    <3>1. Args(c)[n] \in Kinds
      BY ArgsAre
    <3>2. (n <= Len(c.fixed)) \in BOOLEAN
      OBVIOUS
    <3> QED  BY <3>1, <3>2, CountArgIs
  <2> HIDE DEF N
  <2> QED  BY <2>1
<1>3. \A a \in Tally, n \in 1..N : step[<<a, n>>] = CountArg(a, Args(c)[n], n <= Len(c.fixed))
  <2> HIDE DEF N
  <2> QED  OBVIOUS
<1> HIDE DEF step
<1>a. PICK g : Solves(g, N, Tally, Nothing, step)
  <2> HIDE DEF N
  <2>1. Nothing \in Tally
    BY NothingType
  <2> QED  BY <1>1, <1>2, <2>1, Recursion
<1>4. g \in [0..N -> Tally] /\ g[0] = Nothing /\ \A n \in 1..N : g[n] = step[<<g[n - 1], n>>]
  BY <1>a DEF Solves
<1> HIDE DEF N
<1>5. \A n \in 1..N : g[n] = CountArg(g[n - 1], Args(c)[n], n <= Len(c.fixed))
  <2>1. \A n \in 1..N : g[n - 1] \in Tally
    BY <1>1, <1>4
  <2> QED  BY <1>3, <1>4, <2>1
<1>6. g = Def(g)
  <2>1. \A n \in 0..N : g[n] = Def(g)[n]
    BY <1>1, <1>4, <1>5
  <2> HIDE DEF Def
  <2>2. Def(g) = [n \in 0..N |-> Def(g)[n]]
    BY DEF Def
  <2> QED  BY <1>4, <2>1, <2>2
<1>7. Counted(c) = CHOOSE h : h = Def(h)
  BY DEF Counted, N
<1>8. Counted(c) = Def(Counted(c))
  <2> HIDE DEF Def
  <2> QED  BY <1>6, <1>7
<1>9. /\ Counted(c)[0] = Nothing
      /\ \A n \in 1..N :
           Counted(c)[n] = CountArg(Counted(c)[n - 1], Args(c)[n], n <= Len(c.fixed))
  <2>1. PICK h : h = Counted(c)
    OBVIOUS
  <2>2. h = Def(h)
    BY <1>8, <2>1
  <2>3. \A n \in 0..N : h[n] = IF n = 0 THEN Nothing
                                ELSE CountArg(h[n - 1], Args(c)[n], n <= Len(c.fixed))
    BY <2>2
  <2> HIDE DEF Def
  <2> QED  BY <1>1, <2>1, <2>3
<1>10. \A n \in 0..N : g[n] = Counted(c)[n]
  <2>1. \A n \in 1..N : g[n - 1] = Counted(c)[n - 1] => g[n] = Counted(c)[n]
    BY <1>5, <1>9
  <2>2. g[0] = Counted(c)[0]
    BY <1>4, <1>9
  <2> QED  BY <1>1, <2>1, <2>2, SameRecursion
<1> QED  BY <1>4, <1>9, <1>10 DEF N

LEMMA PlacedIs ==
  ASSUME NEW c \in Calls
  PROVE  /\ Placed(c)[0] = Start
         /\ \A n \in 0..Len(Args(c)) : Placed(c)[n] \in Layout
         /\ \A n \in 1..Len(Args(c)) :
              Placed(c)[n] = PlaceArg(Placed(c)[n - 1], Args(c)[n])
<1> DEFINE N == Len(Args(c))
           Def(g) == [n \in 0..N |->
                        IF n = 0 THEN Start
                        ELSE PlaceArg(g[n - 1], Args(c)[n])]
           step == [x \in Layout \X (1..N) |-> PlaceArg(x[1], Args(c)[x[2]])]
<1>1. N \in Nat
  BY ArgsAre
<1>2. step \in [Layout \X (1..N) -> Layout]
  <2>1. ASSUME NEW a \in Layout, NEW n \in 1..N
        PROVE  PlaceArg(a, Args(c)[n]) \in Layout
    <3>1. Args(c)[n] \in Kinds
      BY ArgsAre
    <3> QED  BY <3>1, PlaceArgIs
  <2> HIDE DEF N
  <2> QED  BY <2>1
<1>3. \A a \in Layout, n \in 1..N : step[<<a, n>>] = PlaceArg(a, Args(c)[n])
  <2> HIDE DEF N
  <2> QED  OBVIOUS
<1> HIDE DEF step
<1>a. PICK g : Solves(g, N, Layout, Start, step)
  <2> HIDE DEF N
  <2>1. Start \in Layout
    BY NothingType
  <2> QED  BY <1>1, <1>2, <2>1, Recursion
<1>4. g \in [0..N -> Layout] /\ g[0] = Start /\ \A n \in 1..N : g[n] = step[<<g[n - 1], n>>]
  BY <1>a DEF Solves
<1> HIDE DEF N
<1>5. \A n \in 1..N : g[n] = PlaceArg(g[n - 1], Args(c)[n])
  <2>1. \A n \in 1..N : g[n - 1] \in Layout
    BY <1>1, <1>4
  <2> QED  BY <1>3, <1>4, <2>1
<1>6. g = Def(g)
  <2>1. \A n \in 0..N : g[n] = Def(g)[n]
    BY <1>1, <1>4, <1>5
  <2> HIDE DEF Def
  <2>2. Def(g) = [n \in 0..N |-> Def(g)[n]]
    BY DEF Def
  <2> QED  BY <1>4, <2>1, <2>2
<1>7. Placed(c) = CHOOSE h : h = Def(h)
  BY DEF Placed, N
<1>8. Placed(c) = Def(Placed(c))
  <2> HIDE DEF Def
  <2> QED  BY <1>6, <1>7
<1>9. /\ Placed(c)[0] = Start
      /\ \A n \in 1..N :
           Placed(c)[n] = PlaceArg(Placed(c)[n - 1], Args(c)[n])
  <2>1. PICK h : h = Placed(c)
    OBVIOUS
  <2>2. h = Def(h)
    BY <1>8, <2>1
  <2>3. \A n \in 0..N : h[n] = IF n = 0 THEN Start
                                ELSE PlaceArg(h[n - 1], Args(c)[n])
    BY <2>2
  <2> HIDE DEF Def
  <2> QED  BY <1>1, <2>1, <2>3
<1>10. \A n \in 0..N : g[n] = Placed(c)[n]
  <2>1. \A n \in 1..N : g[n - 1] = Placed(c)[n - 1] => g[n] = Placed(c)[n]
    BY <1>5, <1>9
  <2>2. g[0] = Placed(c)[0]
    BY <1>4, <1>9
  <2> QED  BY <1>1, <2>1, <2>2, SameRecursion
<1> QED  BY <1>4, <1>9, <1>10 DEF N

\* The partial sums of VarWords.
Summed(c) ==
  CHOOSE sum : sum = [n \in 0..Len(c.var) |-> IF n = 0 THEN 0 ELSE sum[n - 1] + Words(c.var[n])]

LEMMA SummedIs ==
  ASSUME NEW c \in Calls
  PROVE  /\ Summed(c)[0] = 0
         /\ \A n \in 0..Len(c.var) : Summed(c)[n] \in Nat
         /\ \A n \in 1..Len(c.var) : Summed(c)[n] = Summed(c)[n - 1] + Words(c.var[n])
<1> DEFINE N == Len(c.var)
           Def(g) == [n \in 0..N |-> IF n = 0 THEN 0 ELSE g[n - 1] + Words(c.var[n])]
           step == [x \in Nat \X (1..N) |-> x[1] + Words(c.var[x[2]])]
<1>1. N \in Nat
  BY ArgsAre
<1>2. step \in [Nat \X (1..N) -> Nat]
  <2>1. ASSUME NEW a \in Nat, NEW n \in 1..N PROVE a + Words(c.var[n]) \in Nat
    <3>1. c.var[n] \in Kinds
      BY ArgsAre
    <3>2. Words(c.var[n]) \in 1..3
      BY <3>1, WordsType
    <3> QED  BY <3>2
  <2> HIDE DEF N
  <2> QED  BY <2>1
<1>3. \A a \in Nat, n \in 1..N : step[<<a, n>>] = a + Words(c.var[n])
  <2> HIDE DEF N
  <2> QED  OBVIOUS
<1> HIDE DEF step
<1>a. PICK g : Solves(g, N, Nat, 0, step)
  <2> HIDE DEF N
  <2> QED  BY <1>1, <1>2, Recursion
<1>4. g \in [0..N -> Nat] /\ g[0] = 0 /\ \A n \in 1..N : g[n] = step[<<g[n - 1], n>>]
  BY <1>a DEF Solves
<1> HIDE DEF N
<1>5. \A n \in 1..N : g[n] = g[n - 1] + Words(c.var[n])
  <2>1. \A n \in 1..N : g[n - 1] \in Nat
    BY <1>1, <1>4
  <2> QED  BY <1>3, <1>4, <2>1
<1>6. g = Def(g)
  <2>1. \A n \in 0..N : g[n] = Def(g)[n]
    BY <1>1, <1>4, <1>5
  <2> HIDE DEF Def
  <2>2. Def(g) = [n \in 0..N |-> Def(g)[n]]
    BY DEF Def
  <2> QED  BY <1>4, <2>1, <2>2
<1>7. Summed(c) = CHOOSE h : h = Def(h)
  BY DEF Summed, N
<1>8. Summed(c) = Def(Summed(c))
  <2> HIDE DEF Def
  <2> QED  BY <1>6, <1>7
<1>9. /\ Summed(c)[0] = 0
      /\ \A n \in 1..N : Summed(c)[n] = Summed(c)[n - 1] + Words(c.var[n])
  <2>1. PICK h : h = Summed(c)
    OBVIOUS
  <2>2. h = Def(h)
    BY <1>8, <2>1
  <2>3. \A n \in 0..N : h[n] = IF n = 0 THEN 0 ELSE h[n - 1] + Words(c.var[n])
    BY <2>2
  <2> HIDE DEF Def
  <2>4. h[0] = 0
    BY <1>1, <2>3
  <2>5. ASSUME NEW n \in 1..N PROVE h[n] = h[n - 1] + Words(c.var[n])
    <3>1. n \in 0..N /\ n # 0
      BY <1>1
    <3> QED  BY <2>3, <3>1, Zenon
  <2> QED  BY <2>1, <2>4, <2>5
<1>10. \A n \in 0..N : g[n] = Summed(c)[n]
  <2>1. \A n \in 1..N : g[n - 1] = Summed(c)[n - 1] => g[n] = Summed(c)[n]
    BY <1>5, <1>9
  <2>2. g[0] = Summed(c)[0]
    BY <1>4, <1>9
  <2> QED  BY <1>1, <2>1, <2>2, SameRecursion
<1> QED  BY <1>4, <1>9, <1>10 DEF N

LEMMA VarWordsIs ==
  ASSUME NEW c \in Calls
  PROVE  VarWords(c) = Summed(c)[Len(c.var)]
BY DEF VarWords, Summed

----------------------------------------------------------------------------
(* The counted size and the area that va_arg reads.                        *)

\* Of the arguments so far those on the stack take the words A between s, the
\* end of the fixed ones, and p; o words were counted.  Either that is the
\* same, or there is a hole.
Covers(s, p, o, A) ==
  /\ A \subseteq s..(p - 1) /\ s + o <= p
  /\ o > 0 => p - 1 \in A
  /\ \/ A = s..(p - 1) /\ p = s + o
     \/ \E w \in A : \E v \in s..w : v \notin A

LEMMA CoversStep ==
  ASSUME NEW s \in Nat, NEW p \in Nat, NEW o \in Nat, NEW A, NEW W \in 1..3,
         NEW from \in {p, p + 1}, Covers(s, p, o, A)
  PROVE  Covers(s, from + W, o + W, A \cup from..(from + W - 1))
<1> DEFINE I == from..(from + W - 1)
           q == from + W
<1>1. A \subseteq s..(p - 1) /\ s + o <= p /\ s <= p
  BY DEF Covers
<1>2. I \subseteq s..(q - 1) /\ q - 1 \in I /\ from \in I /\ s + (o + W) <= q
  BY <1>1
<1>3. A \cup I \subseteq s..(q - 1)
  BY <1>1, <1>2
<1>4. CASE from = p + 1
  <2>1. p \in s..from /\ p \notin A \cup I
    BY <1>1, <1>4
  <2> HIDE DEF I, q
  <2>2. \E w \in A \cup I : \E v \in s..w : v \notin A \cup I
    BY <1>2, <2>1
  <2> QED  BY <1>2, <1>3, <2>2 DEF Covers, I, q
<1>5. CASE from = p /\ A = s..(p - 1) /\ p = s + o
  <2>1. A \cup I = s..(q - 1) /\ q = s + (o + W)
    BY <1>5
  <2> HIDE DEF I
  <2> QED  BY <1>2, <1>3, <2>1 DEF Covers, I
<1>6. CASE from = p /\ \E w \in A : \E v \in s..w : v \notin A
  <2>1. PICK w \in A : \E v \in s..w : v \notin A
    BY <1>6
  <2>2. PICK v \in s..w : v \notin A
    BY <2>1
  <2>3. w \in s..(p - 1)
    BY <1>1
  <2>4. v \notin A \cup I
    BY <1>6, <2>2, <2>3
  <2> HIDE DEF I, q
  <2>5. \E x \in A \cup I : \E y \in s..x : y \notin A \cup I
    BY <2>4
  <2> QED  BY <1>2, <1>3, <2>5 DEF Covers, I, q
<1> QED  BY <1>4, <1>5, <1>6 DEF Covers

\* The loop of the pass and the calling convention agree on the registers.
LEMMA SameRegisters ==
  ASSUME NEW c \in Calls
  PROVE  \A n \in 0..Len(Args(c)) : Counted(c)[n].used = Placed(c)[n].used
<1> DEFINE N == Len(Args(c))
           T == {n \in 0..N : Counted(c)[n].used = Placed(c)[n].used}
<1>1. N \in Nat
  BY ArgsAre
<1>2. 0 \in T
  BY <1>1, CountedIs, PlacedIs DEF Nothing, Start
<1>3. ASSUME NEW n \in 1..N, n - 1 \in T PROVE n \in T
  <2>0. n \in 0..N /\ n - 1 \in 0..N
    BY <1>1
  <2>1. PICK a \in Tally : a = Counted(c)[n - 1]
    BY <2>0, CountedIs
  <2>2. PICK b \in Layout : b = Placed(c)[n - 1]
    BY <2>0, PlacedIs
  <2>3. PICK k \in Kinds : k = Args(c)[n]
    BY ArgsAre
  <2>4. PICK x \in BOOLEAN : x = (n <= Len(c.fixed))
    <3>1. (n <= Len(c.fixed)) \in BOOLEAN
      OBVIOUS
    <3> QED  BY <3>1, Zenon
  <2>5. Counted(c)[n] = CountArg(a, k, x) /\ Placed(c)[n] = PlaceArg(b, k)
    BY <2>1, <2>2, <2>3, <2>4, CountedIs, PlacedIs
  <2>6. a.used = b.used
    BY <1>3, <2>1, <2>2
  <2>7. CountArg(a, k, x).used = PlaceArg(b, k).used
    BY <2>6, CountArgIs, PlaceArgIs
  <2> QED  BY <2>0, <2>5, <2>7
<1> HIDE DEF T, N
<1>4. \A n \in 0..N : n \in T
  BY <1>1, <1>2, <1>3, IndexInduction
<1> QED  BY <1>4 DEF T, N

\* The fixed arguments count for nothing.
LEMMA FixedCountNothing ==
  ASSUME NEW c \in Calls
  PROVE  \A n \in 0..Len(c.fixed) : Counted(c)[n].overflow = 0
<1> DEFINE F == Len(c.fixed)
           T == {n \in 0..F : Counted(c)[n].overflow = 0}
<1>1. F \in Nat /\ Len(Args(c)) \in Nat /\ F <= Len(Args(c))
  <2>1. F \in Nat /\ Len(c.var) \in Nat /\ Len(Args(c)) = F + Len(c.var)
    BY ArgsAre
  <2> HIDE DEF F
  <2> QED  BY <2>1
<1>2. 0 \in T
  BY <1>1, CountedIs DEF Nothing
<1>3. ASSUME NEW n \in 1..F, n - 1 \in T PROVE n \in T
  <2>0. n \in 0..F /\ n \in 1..Len(Args(c)) /\ n - 1 \in 0..Len(Args(c)) /\ n <= F
    BY <1>1
  <2>1. PICK a \in Tally : a = Counted(c)[n - 1]
    BY <2>0, CountedIs
  <2>2. PICK k \in Kinds : k = Args(c)[n]
    BY <2>0, ArgsAre
  <2>3. PICK x \in BOOLEAN : x = (n <= Len(c.fixed)) /\ x
    BY <2>0
  <2>4. Counted(c)[n] = CountArg(a, k, x)
    BY <2>0, <2>1, <2>2, <2>3, CountedIs
  <2>5. CountArg(a, k, x).overflow = a.overflow
    BY <2>3, CountArgIs
  <2> QED  BY <1>3, <2>0, <2>1, <2>4, <2>5
<1> HIDE DEF T, F
<1>4. \A n \in 0..F : n \in T
  BY <1>1, <1>2, <1>3, IndexInduction
<1> QED  BY <1>4 DEF T, F

\* The stack pointer is above every argument.
LEMMA BelowStackPointer ==
  ASSUME NEW c \in Calls
  PROVE  \A n \in 0..Len(Args(c)) : Placed(c)[n].at \subseteq 0..(Placed(c)[n].sp - 1)
<1> DEFINE N == Len(Args(c))
           T == {n \in 0..N : Placed(c)[n].at \subseteq 0..(Placed(c)[n].sp - 1)}
<1>1. N \in Nat
  BY ArgsAre
<1>2. 0 \in T
  BY <1>1, PlacedIs DEF Start
<1>3. ASSUME NEW n \in 1..N, n - 1 \in T PROVE n \in T
  <2>0. n \in 0..N /\ n - 1 \in 0..N
    BY <1>1
  <2>1. PICK b \in Layout : b = Placed(c)[n - 1]
    BY <2>0, PlacedIs
  <2>2. PICK k \in Kinds : k = Args(c)[n]
    BY ArgsAre
  <2>3. Placed(c)[n] = PlaceArg(b, k)
    BY <2>1, <2>2, PlacedIs
  <2>4. b.at \subseteq 0..(b.sp - 1) /\ b.sp \in Nat /\ Words(k) \in 1..3
    BY <1>3, <2>1, WordsType DEF Layout
  <2>5. PlaceArg(b, k).at \subseteq 0..(PlaceArg(b, k).sp - 1)
    <3>1. CASE ~InMemory(b.used, k)
      BY <2>4, <3>1, PlaceArgIs
    <3>2. CASE InMemory(b.used, k)
      <4>1. PICK from \in {b.sp, b.sp + 1} :
              /\ PlaceArg(b, k).sp = from + Words(k)
              /\ PlaceArg(b, k).at = b.at \cup from..(from + Words(k) - 1)
        BY <3>2, PlaceArgIs
      <4> QED  BY <2>4, <4>1
    <3> QED  BY <3>1, <3>2
  <2> QED  BY <2>0, <2>3, <2>5
<1> HIDE DEF T, N
<1>4. \A n \in 0..N : n \in T
  BY <1>1, <1>2, <1>3, IndexInduction
<1> QED  BY <1>4 DEF T, N

LEMMA AreaCovered ==
  ASSUME NEW c \in Calls
  PROVE  Covers(Placed(c)[Len(c.fixed)].sp, Placed(c)[Len(Args(c))].sp, OverflowSize(c),
                Placed(c)[Len(Args(c))].at \ Placed(c)[Len(c.fixed)].at)
<1> DEFINE F == Len(c.fixed)
           V == Len(c.var)
           s == Placed(c)[F].sp
           B == Placed(c)[F].at
           Good(m) == Covers(s, Placed(c)[F + m].sp, Counted(c)[F + m].overflow,
                             Placed(c)[F + m].at \ B)
           T == {m \in 0..V : Good(m)}
<1>1. F \in Nat /\ V \in Nat /\ Len(Args(c)) = F + V
  BY ArgsAre
<1>2. \A n \in 0..(F + V) : Placed(c)[n] \in Layout /\ Counted(c)[n] \in Tally
  BY <1>1, PlacedIs, CountedIs
<1>3. s \in Nat /\ B \subseteq 0..(s - 1)
  <2>1. F \in 0..(F + V)
    <3> HIDE DEF F, V
    <3> QED  BY <1>1
  <2> QED  BY <1>1, <1>2, <2>1, BelowStackPointer DEF Layout
<1>4. 0 \in T
  <2>1. F + 0 = F /\ F \in 0..F /\ 0 \in 0..V
    BY <1>1
  <2>2. Counted(c)[F].overflow = 0
    BY <2>1, FixedCountNothing
  <2>3. Covers(s, s, 0, B \ B)
    BY <1>3 DEF Covers
  <2> QED  BY <2>1, <2>2, <2>3
<1>5. ASSUME NEW m \in 1..V, m - 1 \in T PROVE m \in T
  <2>0. /\ m \in 0..V /\ F + m \in 1..(F + V) /\ F + (m - 1) \in 0..(F + V)
        /\ (F + m) - 1 = F + (m - 1) /\ ~(F + m <= F)
    <3> HIDE DEF F, V
    <3> QED  BY <1>1
  <2>1. PICK a \in Tally : a = Counted(c)[F + (m - 1)]
    BY <1>2, <2>0
  <2>2. PICK b \in Layout : b = Placed(c)[F + (m - 1)]
    BY <1>2, <2>0
  <2>3. PICK k \in Kinds : k = Args(c)[F + m]
    BY <1>1, <2>0, ArgsAre
  <2>4. Counted(c)[F + m] = CountArg(a, k, FALSE) /\ Placed(c)[F + m] = PlaceArg(b, k)
    <3>1. (F + m <= Len(c.fixed)) = FALSE
      BY <2>0
    <3>2. Counted(c)[F + m] =
            CountArg(Counted(c)[(F + m) - 1], Args(c)[F + m], F + m <= Len(c.fixed))
      BY <1>1, <2>0, CountedIs
    <3>3. Placed(c)[F + m] = PlaceArg(Placed(c)[(F + m) - 1], Args(c)[F + m])
      BY <1>1, <2>0, PlacedIs
    <3> HIDE DEF F
    <3> QED  BY <2>0, <2>1, <2>2, <2>3, <3>1, <3>2, <3>3
  <2>5. a.used = b.used /\ a.overflow \in Nat /\ b.sp \in Nat /\ Words(k) \in 1..3
    BY <1>1, <2>0, <2>1, <2>2, SameRegisters, WordsType DEF Tally, Layout
  <2>6. Covers(s, b.sp, a.overflow, b.at \ B)
    BY <1>5, <2>1, <2>2
  <2> HIDE DEF s, B, F
  <2>7. Covers(s, PlaceArg(b, k).sp, CountArg(a, k, FALSE).overflow, PlaceArg(b, k).at \ B)
    <3>1. CASE ~InMemory(b.used, k)
      <4>1. PlaceArg(b, k).sp = b.sp /\ PlaceArg(b, k).at = b.at
        BY <3>1, PlaceArgIs
      <4>2. CountArg(a, k, FALSE).overflow = a.overflow
        BY <2>5, <3>1, CountArgIs
      <4> QED  BY <2>6, <4>1, <4>2
    <3>2. CASE InMemory(b.used, k)
      <4>1. PICK from \in {b.sp, b.sp + 1} :
              /\ PlaceArg(b, k).sp = from + Words(k)
              /\ PlaceArg(b, k).at = b.at \cup from..(from + Words(k) - 1)
        BY <3>2, PlaceArgIs
      <4>2. CountArg(a, k, FALSE).overflow = a.overflow + Words(k)
        BY <2>5, <3>2, CountArgIs
      <4>3. Covers(s, from + Words(k), a.overflow + Words(k),
                   (b.at \ B) \cup from..(from + Words(k) - 1))
        BY <1>3, <2>5, <2>6, CoversStep
      <4>4. s <= from
        BY <1>3, <2>5, <2>6, <4>1 DEF Covers
      <4>5. (from..(from + Words(k) - 1)) \cap B = {}
        BY <1>3, <2>5, <4>1, <4>4
      <4>6. PlaceArg(b, k).at \ B = (b.at \ B) \cup from..(from + Words(k) - 1)
        BY <4>1, <4>5
      <4> QED  BY <4>1, <4>2, <4>3, <4>6
    <3> QED  BY <3>1, <3>2
  <2> QED  BY <2>0, <2>4, <2>7
<1> HIDE DEF T, V
<1>6. \A m \in 0..V : m \in T
  BY <1>1, <1>4, <1>5, IndexInduction
<1>7. V \in T
  BY <1>1, <1>6
<1>8. Good(V)
  BY <1>7 DEF T
<1> QED  BY <1>1, <1>8 DEF OverflowSize

\* What is counted is at most what the variadic arguments take.
LEMMA CountedAtMost ==
  ASSUME NEW c \in Calls
  PROVE  OverflowSize(c) \in 0..VarWords(c)
<1> DEFINE F == Len(c.fixed)
           V == Len(c.var)
           T == {m \in 0..V : Counted(c)[F + m].overflow <= Summed(c)[m]}
<1>1. F \in Nat /\ V \in Nat /\ Len(Args(c)) = F + V
  BY ArgsAre
<1>2. \A n \in 0..(F + V) : Counted(c)[n] \in Tally
  BY <1>1, CountedIs
<1>3. 0 \in T
  <2>1. F + 0 = F /\ F \in 0..F /\ 0 \in 0..V
    BY <1>1
  <2>2. Counted(c)[F].overflow = 0 /\ Summed(c)[0] = 0
    BY <2>1, FixedCountNothing, SummedIs
  <2> QED  BY <2>1, <2>2
<1>4. ASSUME NEW m \in 1..V, m - 1 \in T PROVE m \in T
  <2>0. /\ m \in 0..V /\ m - 1 \in 0..V
        /\ F + m \in 1..(F + V) /\ F + (m - 1) \in 0..(F + V)
        /\ (F + m) - 1 = F + (m - 1) /\ ~(F + m <= F)
    <3> HIDE DEF F, V
    <3> QED  BY <1>1
  <2>1. PICK a \in Tally : a = Counted(c)[F + (m - 1)]
    BY <1>2, <2>0
  <2>2. PICK k \in Kinds : k = Args(c)[F + m] /\ k = c.var[m]
    BY <1>1, <2>0, ArgsAre
  <2>3. Counted(c)[F + m] = CountArg(a, k, FALSE)
    <3>1. (F + m <= Len(c.fixed)) = FALSE
      BY <2>0
    <3>2. Counted(c)[F + m] =
            CountArg(Counted(c)[(F + m) - 1], Args(c)[F + m], F + m <= Len(c.fixed))
      BY <1>1, <2>0, CountedIs
    <3> HIDE DEF F
    <3> QED  BY <2>0, <2>1, <2>2, <3>1, <3>2
  <2>4. Summed(c)[m] = Summed(c)[m - 1] + Words(k) /\ Summed(c)[m - 1] \in Nat
    BY <2>0, <2>2, SummedIs
  <2>5. a.overflow \in Nat /\ Words(k) \in 1..3 /\ a.overflow <= Summed(c)[m - 1]
    BY <1>4, <2>1, WordsType DEF Tally
  <2>6. \/ CountArg(a, k, FALSE).overflow = a.overflow
        \/ CountArg(a, k, FALSE).overflow = a.overflow + Words(k)
    BY CountArgIs
  <2>7. CountArg(a, k, FALSE).overflow <= Summed(c)[m]
    <3>1. \A o, u, w \in Nat : \A d : o <= u /\ (d = o \/ d = o + w) => d <= u + w
      OBVIOUS
    <3>2. Words(k) \in Nat
      BY <2>5
    <3> QED  BY <2>4, <2>5, <2>6, <3>1, <3>2, Zenon
  <2> QED  BY <2>0, <2>3, <2>7
<1> HIDE DEF T, V
<1>5. \A m \in 0..V : m \in T
  BY <1>1, <1>3, <1>4, IndexInduction
<1>6. V \in T /\ V \in 0..V /\ F + V \in 0..(F + V)
  BY <1>1, <1>5
<1>7. Counted(c)[F + V].overflow <= Summed(c)[V] /\ Counted(c)[F + V].overflow \in Nat
  BY <1>2, <1>6 DEF T, Tally
<1>8. Summed(c)[V] \in Nat
  BY <1>6, SummedIs DEF V
<1>9. OverflowSize(c) = Counted(c)[F + V].overflow
  BY <1>1 DEF OverflowSize
<1>10. VarWords(c) = Summed(c)[V]
  BY VarWordsIs DEF V
<1> HIDE DEF F
<1> QED  BY <1>7, <1>8, <1>9, <1>10

\* A size o reaches the words R that are read, or R has a hole; and no further.
RightSize(o, R) ==
  /\ \/ \E w \in R : \E v \in 0..w : v \notin R
     \/ R \subseteq 0..(o - 1)
  /\ \A w \in 0..(o - 1) : \E v \in R : w <= v

\* The same, counted from where va_start points.
LEMMA ShiftedArea ==
  ASSUME NEW s \in Nat, NEW p \in Nat, NEW o \in Nat, NEW A, Covers(s, p, o, A), NEW R,
         R = {w - s : w \in A}
  PROVE  RightSize(o, R)
<1>1. A \subseteq s..(p - 1) /\ s + o <= p
  BY DEF Covers
<1>2. (\E w \in R : \E v \in 0..w : v \notin R) \/ R \subseteq 0..(o - 1)
  <2>1. CASE A = s..(p - 1) /\ p = s + o
    BY <2>1
  <2>2. CASE \E w \in A : \E v \in s..w : v \notin A
    <3>0. PICK w \in A : \E v \in s..w : v \notin A
      BY <2>2
    <3>1. PICK v \in s..w : v \notin A
      BY <3>0
    <3>2. w - s \in R /\ w \in Nat /\ v \in Nat /\ s <= v /\ v <= w
      BY <1>1, <3>1
    <3>3. v - s \in 0..(w - s)
      BY <3>2
    <3>4. v - s \notin R
      BY <1>1, <3>1, <3>2
    <3> QED  BY <3>2, <3>3, <3>4
  <2> QED  BY <2>1, <2>2 DEF Covers
<1>3. ASSUME NEW w \in 0..(o - 1) PROVE \E v \in R : w <= v
  <2>1. p - 1 \in A
    BY <1>3 DEF Covers
  <2>2. (p - 1) - s \in R
    BY <2>1
  <2>3. w <= (p - 1) - s
    BY <1>1, <1>3
  <2> QED  BY <2>2, <2>3
<1> QED  BY <1>2, <1>3 DEF RightSize

\* What the caller stores is right for the callee, whatever the arguments are:
\* it reaches every word that is read, if there is no padding, and no further.
LEMMA StoredSizeIsRight ==
  ASSUME NEW c \in Calls
  PROVE  /\ Padded(c) \/ Read(c) \subseteq 0..(OverflowSize(c) - 1)
         /\ \A w \in 0..(OverflowSize(c) - 1) : \E v \in Read(c) : w <= v
<1> DEFINE F == Len(c.fixed)
           N == Len(Args(c))
           A == Placed(c)[N].at \ Placed(c)[F].at
<1>1. F \in Nat /\ F \in 0..N /\ N \in 0..N
  <2>1. F \in Nat /\ Len(c.var) \in Nat /\ N = F + Len(c.var)
    BY ArgsAre
  <2>2. \A f, v \in Nat : f \in 0..(f + v) /\ f + v \in 0..(f + v)
    OBVIOUS
  <2> HIDE DEF F, N
  <2> QED  BY <2>1, <2>2
<1>2. Placed(c)[F].sp \in Nat /\ Placed(c)[N].sp \in Nat
  BY <1>1, PlacedIs DEF Layout
<1>3. OverflowSize(c) \in Nat
  BY <1>1, CountedIs DEF OverflowSize, Tally
<1>4. Covers(Placed(c)[F].sp, Placed(c)[N].sp, OverflowSize(c), A)
  BY AreaCovered
<1>5. Read(c) = {w - Placed(c)[F].sp : w \in A}
  BY DEF Read
<1> HIDE DEF F, N, A
<1>6. RightSize(OverflowSize(c), Read(c))
  BY <1>2, <1>3, <1>4, <1>5, ShiftedArea
<1> QED  BY <1>6 DEF Padded, RightSize

-----------------------------------------------------------------------------
(* The activations.                                                         *)

Frames == [as : {"function", "handler"}, call : Calls, known : BOOLEAN, size : Sizes,
           calling : BOOLEAN, next : Calls]

StackInv ==
  /\ tls \in Sizes
  /\ stack \in Seq(Frames)
  /\ Len(stack) \in 1..MaxDepth

\* Is the size of the callee the one that was stored for it?
OwnSize(f) == f.as = "function" /\ f.known => f.size = OverflowSize(f.call)

EntryInv == \A i \in 1..Len(stack) : OwnSize(stack[i])

\* A size that was stored and not yet read is in the variable, or, while a
\* handler runs, in the backup of the outermost one.
Waiting(i) ==
  stack[i].calling =>
    IF i = Len(stack) THEN tls = OverflowSize(stack[i].next)
    ELSE /\ stack[i + 1].as = "handler"
         /\ stack[i + 1].size = OverflowSize(stack[i].next)

CallInv == \A i \in 1..Len(stack) : Waiting(i)

IInv == StackInv /\ EntryInv /\ CallInv

LEMMA NoneIs == None \in Calls /\ OverflowSize(None) = 0
<1>1. None \in Calls /\ None.var = <<>>
  BY DEF None, Calls
<1>2. VarWords(None) = 0
  <2>1. Len(None.var) = 0
    BY <1>1
  <2> QED  BY <1>1, <2>1, VarWordsIs, SummedIs
<1> QED  BY <1>1, <1>2, CountedAtMost

LEMMA StoredSizes ==
  ASSUME StackInv, Deeper, NEW c \in CallsAt[Len(stack)]
  PROVE  c \in Calls /\ OverflowSize(c) \in Sizes
<1>1. Len(stack) \in 1..(MaxDepth - 1)
  BY VarArgsAssumption DEF StackInv, Deeper
<1>2. c \in Calls
  BY <1>1, VarArgsAssumption
<1>3. c \in UNION {CallsAt[d] : d \in 1..MaxDepth - 1}
  BY <1>1
<1>4. OverflowSize(c) \in 0..VarWords(c)
  BY <1>2, CountedAtMost
<1> QED  BY <1>2, <1>3, <1>4 DEF Sizes

LEMMA FrameAt ==
  ASSUME StackInv, NEW i \in 1..Len(stack)
  PROVE  stack[i] \in Frames
<1>1. stack \in Seq(Frames)
  BY DEF StackInv
<1> QED  BY <1>1, ElementOfSeq

LEMMA EntryAt ==
  ASSUME IInv, NEW i \in Instrumented
  PROVE  stack[i].call \in Calls /\ stack[i].size = OverflowSize(stack[i].call)
<1>1. i \in 1..Len(stack) /\ stack[i].as = "function" /\ stack[i].known
  BY DEF Instrumented
<1>2. stack[i] \in Frames
  BY <1>1, FrameAt DEF IInv
<1>3. OwnSize(stack[i])
  BY <1>1 DEF IInv, EntryInv
<1> QED  BY <1>1, <1>2, <1>3 DEF OwnSize, Frames

LEMMA TopIs ==
  ASSUME StackInv
  PROVE  /\ Top = stack[Len(stack)] /\ Top \in Frames
         /\ Len(stack) \in Nat /\ Len(stack) \in 1..Len(stack)
<1>1. Len(stack) \in 1..Len(stack) /\ Len(stack) \in Nat
  BY VarArgsAssumption DEF StackInv
<1> QED  BY <1>1 DEF StackInv, Top, Last

\* A new activation on top.
LEMMA Pushed ==
  ASSUME StackInv, Deeper, NEW f \in Frames, NEW st \in Seq(Frames), Len(st) = Len(stack),
         stack' = Append(st, f)
  PROVE  /\ stack' \in Seq(Frames)
         /\ Len(stack') = Len(stack) + 1 /\ Len(stack') \in 1..MaxDepth
         /\ stack'[Len(stack) + 1] = f
         /\ \A i \in 1..Len(stack) : stack'[i] = st[i]
<1>1. Len(stack) + 1 \in 1..MaxDepth
  BY VarArgsAssumption DEF StackInv, Deeper
<1> QED  BY <1>1, AppendProperties

LEMMA Started == Init => IInv
<1> SUFFICES ASSUME Init PROVE IInv
  OBVIOUS
<1> DEFINE f == Activation("function", None, TRUE, 0)
<1>1. 0 \in Sizes
  BY DEF Sizes
<1>2. f \in Frames /\ ~f.calling /\ OwnSize(f)
  BY <1>1, NoneIs DEF Activation, Frames, OwnSize
<1>3. stack = <<f>> /\ tls = 0
  BY DEF Init
<1> HIDE DEF f
<1>4. stack \in Seq(Frames) /\ Len(stack) = 1 /\ stack[1] = f
  BY <1>2, <1>3
<1>5. StackInv
  BY <1>1, <1>3, <1>4, VarArgsAssumption DEF StackInv
<1>6. EntryInv
  BY <1>2, <1>4 DEF EntryInv
<1>7. CallInv
  BY <1>2, <1>4 DEF CallInv, Waiting
<1> QED  BY <1>5, <1>6, <1>7 DEF IInv

\* Only the call of the innermost activation changes.
NewTop(st, b, c) ==
  /\ st \in Seq(Frames) /\ Len(st) = Len(stack)
  /\ \A i \in 1..Len(stack) : i # Len(stack) => st[i] = stack[i]
  /\ st[Len(stack)].calling = b /\ st[Len(stack)].next = c
  /\ st[Len(stack)].as = Top.as /\ st[Len(stack)].size = Top.size
  /\ OwnSize(Top) => OwnSize(st[Len(stack)])

LEMMA TopChanged ==
  ASSUME StackInv, NEW b \in BOOLEAN, NEW c \in Calls, NEW st,
         st = [stack EXCEPT ![Len(stack)] = [@ EXCEPT !.calling = b, !.next = c]]
  PROVE  NewTop(st, b, c)
<1> DEFINE L == Len(stack)
           f == [Top EXCEPT !.calling = b, !.next = c]
<1>1. L \in 1..L /\ L \in Nat /\ Top = stack[L] /\ Top \in Frames
  BY TopIs
<1>2. f \in Frames /\ f.calling = b /\ f.next = c /\ f.as = Top.as /\ f.size = Top.size
        /\ f.known = Top.known /\ f.call = Top.call
  BY <1>1 DEF Frames
<1>3. st = [stack EXCEPT ![L] = f]
  BY <1>1
<1> HIDE DEF f
<1>4. /\ st \in Seq(Frames) /\ Len(st) = Len(stack) /\ st[L] = f
      /\ \A i \in 1..Len(stack) : i # L => st[i] = stack[i]
  <2>1. stack \in Seq(Frames)
    BY DEF StackInv
  <2>2. st \in Seq(Frames) /\ Len(st) = Len(stack)
        /\ \A i \in 1..Len(stack) : st[i] = IF i = L THEN f ELSE stack[i]
    BY <1>1, <1>2, <1>3, <2>1, ExceptSeq
  <2> QED  BY <1>1, <2>2
<1> HIDE DEF L
<1>5. OwnSize(Top) => OwnSize(f)
  BY <1>2 DEF OwnSize
<1>6. NewTop(st, b, c)
  BY <1>2, <1>4, <1>5 DEF NewTop, L
<1> QED  BY <1>6

\* What a new activation f keeps, st being what is below it.
LEMMA PushKeeps ==
  ASSUME IInv, Deeper, tls' = tls,
         NEW f \in Frames, OwnSize(f), ~f.calling,
         NEW st \in Seq(Frames), Len(st) = Len(stack), stack' = Append(st, f),
         \A i \in 1..Len(stack) : i # Len(stack) => st[i] = stack[i],
         OwnSize(st[Len(stack)]),
         st[Len(stack)].as = Top.as, st[Len(stack)].size = Top.size,
         st[Len(stack)].calling =>
           f.as = "handler" /\ f.size = OverflowSize(st[Len(stack)].next)
  PROVE  IInv'
<1> DEFINE L == Len(stack)
<1>0. StackInv /\ EntryInv /\ CallInv
  BY DEF IInv
<1>1. L \in 1..L /\ L \in Nat /\ Top = stack[L]
  BY <1>0, TopIs
<1>2. /\ stack' \in Seq(Frames) /\ Len(stack') = L + 1 /\ Len(stack') \in 1..MaxDepth
      /\ stack'[L + 1] = f /\ \A i \in 1..L : stack'[i] = st[i]
  BY <1>0, Pushed
<1>3. StackInv'
  BY <1>0, <1>2 DEF StackInv
<1>4. EntryInv'
  <2> SUFFICES ASSUME NEW i \in 1..(L + 1) PROVE OwnSize(stack'[i])
    BY <1>2 DEF EntryInv, OwnSize
  <2>1. CASE i = L + 1
    BY <1>2, <2>1
  <2>2. CASE i = L
    BY <1>1, <1>2, <2>2
  <2>3. CASE i \in 1..L /\ i # L
    BY <1>0, <1>2, <2>3 DEF EntryInv
  <2> QED  BY <1>1, <2>1, <2>2, <2>3
<1>5. CallInv'
  <2> SUFFICES ASSUME NEW i \in 1..(L + 1), stack'[i].calling
               PROVE  IF i = L + 1 THEN tls = OverflowSize(stack'[i].next)
                      ELSE /\ stack'[i + 1].as = "handler"
                           /\ stack'[i + 1].size = OverflowSize(stack'[i].next)
    BY <1>2 DEF CallInv, Waiting
  <2>1. CASE i = L + 1
    BY <1>2, <2>1
  <2>2. CASE i = L
    <3>1. i # L + 1
      BY <1>1, <2>2
    <3> QED  BY <1>1, <1>2, <2>2, <3>1
  <2>3. CASE i \in 1..L /\ i # L
    <3>1. i # L + 1 /\ i + 1 \in 1..L
      BY <1>1, <2>3
    <3>2. stack'[i] = stack[i] /\ stack'[i + 1] = st[i + 1]
      BY <1>2, <2>3, <3>1
    <3>3. stack[i + 1].as = "handler" /\ stack[i + 1].size = OverflowSize(stack[i].next)
      BY <1>0, <2>3, <3>2 DEF CallInv, Waiting
    <3>4. st[i + 1].as = stack[i + 1].as /\ st[i + 1].size = stack[i + 1].size
      BY <1>1, <3>1
    <3> QED  BY <3>1, <3>2, <3>3, <3>4
  <2> QED  BY <1>1, <2>1, <2>2, <2>3
<1> QED  BY <1>3, <1>4, <1>5 DEF IInv

LEMMA StoreSizeKeeps == ASSUME IInv, StoreSize PROVE IInv'
<1> DEFINE L == Len(stack)
<1>0. StackInv /\ EntryInv /\ CallInv /\ Deeper /\ ~Top.calling
  BY DEF IInv, StoreSize
<1>1. PICK c \in CallsAt[L] :
        /\ tls' = OverflowSize(c)
        /\ stack' = [stack EXCEPT ![Len(stack)] = [@ EXCEPT !.calling = TRUE, !.next = c]]
  BY DEF StoreSize
<1>2. c \in Calls /\ OverflowSize(c) \in Sizes
  BY <1>0, StoredSizes
<1>3. L \in 1..L /\ L \in Nat /\ Top = stack[L]
  BY <1>0, TopIs
<1>4. /\ stack' \in Seq(Frames) /\ Len(stack') = L
      /\ \A i \in 1..L : i # L => stack'[i] = stack[i]
      /\ stack'[L].next = c /\ stack'[L].as = Top.as /\ stack'[L].size = Top.size
      /\ OwnSize(Top) => OwnSize(stack'[L])
  <2>1. PICK b \in BOOLEAN : b = TRUE
    OBVIOUS
  <2>2. PICK st : st = [stack EXCEPT ![Len(stack)] = [@ EXCEPT !.calling = b, !.next = c]]
    OBVIOUS
  <2>3. stack' = st
    BY <1>1, <2>1, <2>2
  <2>4. NewTop(st, b, c)
    BY <1>0, <1>2, <2>2, TopChanged
  <2> QED  BY <2>3, <2>4 DEF NewTop
<1>5. StackInv'
  BY <1>0, <1>1, <1>2, <1>4 DEF StackInv
<1>6. EntryInv'
  <2> SUFFICES ASSUME NEW i \in 1..L PROVE OwnSize(stack'[i])
    BY <1>4 DEF EntryInv, OwnSize
  <2> QED  BY <1>0, <1>3, <1>4 DEF EntryInv
<1>7. CallInv'
  <2> SUFFICES ASSUME NEW i \in 1..L, stack'[i].calling
               PROVE  IF i = L THEN tls' = OverflowSize(stack'[i].next)
                      ELSE /\ stack'[i + 1].as = "handler"
                           /\ stack'[i + 1].size = OverflowSize(stack'[i].next)
    BY <1>4 DEF CallInv, Waiting
  <2>1. CASE i = L
    BY <1>1, <1>4, <2>1
  <2>2. CASE i # L
    <3>1. i + 1 \in 1..L
      BY <1>3, <2>2
    <3>2. stack'[i] = stack[i]
      BY <1>4, <2>2
    <3>3. stack[i + 1].as = "handler" /\ stack[i + 1].size = OverflowSize(stack[i].next)
      BY <1>0, <2>2, <3>2 DEF CallInv, Waiting
    <3>4. stack'[i + 1].as = stack[i + 1].as /\ stack'[i + 1].size = stack[i + 1].size
      BY <1>3, <1>4, <3>1
    <3> QED  BY <2>2, <3>2, <3>3, <3>4
  <2> QED  BY <2>1, <2>2
<1> QED  BY <1>5, <1>6, <1>7 DEF IInv

LEMMA PrologueKeeps == ASSUME IInv, Prologue PROVE IInv'
<1> DEFINE L == Len(stack)
           st == [stack EXCEPT ![Len(stack)] = [@ EXCEPT !.calling = FALSE, !.next = None]]
           f == Activation("function", Top.next, TRUE, tls)
<1>0. /\ StackInv /\ EntryInv /\ CallInv /\ Deeper /\ Top.calling
      /\ tls' = tls /\ stack' = Append(st, f)
  BY DEF IInv, Prologue, SizeAtEntry
<1>1. L \in 1..L /\ L \in Nat /\ Top = stack[L] /\ Top \in Frames
  BY <1>0, TopIs
<1>2. tls = OverflowSize(Top.next)
  BY <1>0, <1>1 DEF CallInv, Waiting
<1>3. Top.next \in Calls /\ tls \in Sizes /\ None \in Calls
  BY <1>0, <1>1, NoneIs DEF Frames, StackInv
<1>4. f \in Frames /\ ~f.calling /\ OwnSize(f)
  BY <1>2, <1>3 DEF Activation, Frames, OwnSize
<1>5. OwnSize(Top)
  BY <1>0, <1>1 DEF EntryInv
<1>6. st = [stack EXCEPT ![Len(stack)] = [@ EXCEPT !.calling = FALSE, !.next = None]]
  OBVIOUS
<1> HIDE DEF st, f
<1>7. /\ st \in Seq(Frames) /\ Len(st) = L
      /\ \A i \in 1..L : i # L => st[i] = stack[i]
      /\ st[L].calling = FALSE /\ st[L].as = Top.as /\ st[L].size = Top.size
      /\ OwnSize(st[L])
  <2>1. PICK b \in BOOLEAN : b = FALSE
    OBVIOUS
  <2>2. st = [stack EXCEPT ![Len(stack)] = [@ EXCEPT !.calling = b, !.next = None]]
    BY <1>6, <2>1
  <2>3. NewTop(st, b, None)
    BY <1>0, <1>3, <2>2, TopChanged
  <2> QED  BY <1>5, <2>1, <2>3 DEF NewTop
<1> QED  BY <1>0, <1>4, <1>7, PushKeeps

LEMMA UnchangedBelow ==
  ASSUME IInv, Deeper, tls' = tls, NEW f \in Frames, OwnSize(f), ~f.calling,
         stack' = Append(stack, f),
         Top.calling => f.as = "handler" /\ f.size = OverflowSize(Top.next)
  PROVE  IInv'
<1>0. StackInv /\ EntryInv
  BY DEF IInv
<1>1. Top = stack[Len(stack)] /\ Len(stack) \in 1..Len(stack) /\ stack \in Seq(Frames)
  BY <1>0, TopIs DEF StackInv
<1>2. OwnSize(stack[Len(stack)])
  BY <1>0, <1>1 DEF EntryInv
<1> QED  BY <1>1, <1>2, PushKeeps

LEMMA ForeignCallKeeps == ASSUME IInv, ForeignCall PROVE IInv'
<1>0. StackInv /\ Deeper /\ ~Top.calling /\ tls' = tls /\ tls \in Sizes
  BY DEF IInv, StackInv, ForeignCall
<1>1. PICK c \in CallsAt[Len(stack)] : stack' = Append(stack, Activation("function", c, FALSE, tls))
  BY DEF ForeignCall, SizeAtEntry
<1>2. c \in Calls /\ None \in Calls
  BY <1>0, StoredSizes, NoneIs
<1>3. PICK f : f = Activation("function", c, FALSE, tls)
  OBVIOUS
<1>4. f \in Frames /\ ~f.calling /\ OwnSize(f)
  BY <1>0, <1>2, <1>3 DEF Activation, Frames, OwnSize
<1> QED  BY <1>0, <1>1, <1>3, <1>4, UnchangedBelow

LEMMA DeliverKeeps == ASSUME IInv, Deliver PROVE IInv'
<1>0. StackInv /\ CallInv /\ Deeper /\ tls' = tls /\ tls \in Sizes
  BY DEF IInv, StackInv, Deliver
<1>1. PICK f : f = Activation("handler", None, TRUE, tls)
  OBVIOUS
<1>2. f \in Frames /\ ~f.calling /\ OwnSize(f) /\ f.as = "handler" /\ f.size = tls
  BY <1>0, <1>1, NoneIs DEF Activation, Frames, OwnSize
<1>3. stack' = Append(stack, f)
  BY <1>1 DEF Deliver
<1>4. Top.calling => tls = OverflowSize(Top.next)
  BY <1>0, TopIs DEF CallInv, Waiting
<1> QED  BY <1>0, <1>2, <1>3, <1>4, UnchangedBelow

LEMMA ReturnKeeps == ASSUME IInv, Return PROVE IInv'
<1> DEFINE L == Len(stack)
<1>0. /\ StackInv /\ EntryInv /\ CallInv /\ L > 1
      /\ tls' = IF Top.as = "handler" THEN Top.size ELSE tls
      /\ stack' = Front(stack)
  BY DEF IInv, Return, Restore
<1>1. L \in Nat /\ Top = stack[L] /\ Top \in Frames /\ L \in 1..MaxDepth /\ stack \in Seq(Frames)
  BY <1>0, TopIs DEF StackInv
<1>2. /\ stack' \in Seq(Frames) /\ Len(stack') = L - 1
      /\ \A i \in 1..(L - 1) : stack'[i] = stack[i]
  BY <1>0, <1>1, SubSeqProperties DEF Front
<1>3. StackInv'
  <2>1. tls' \in Sizes
    BY <1>0, <1>1 DEF StackInv, Frames
  <2>2. L - 1 \in 1..MaxDepth
    BY <1>0, <1>1, VarArgsAssumption
  <2> QED  BY <1>2, <2>1, <2>2 DEF StackInv
<1>4. EntryInv'
  <2> SUFFICES ASSUME NEW i \in 1..(L - 1) PROVE OwnSize(stack'[i])
    BY <1>2 DEF EntryInv, OwnSize
  <2>1. i \in 1..L
    BY <1>1
  <2> QED  BY <1>0, <1>2, <2>1 DEF EntryInv
<1>5. CallInv'
  <2> SUFFICES ASSUME NEW i \in 1..(L - 1), stack'[i].calling
               PROVE  IF i = L - 1 THEN tls' = OverflowSize(stack'[i].next)
                      ELSE /\ stack'[i + 1].as = "handler"
                           /\ stack'[i + 1].size = OverflowSize(stack'[i].next)
    BY <1>2 DEF CallInv, Waiting
  <2>1. i \in 1..L /\ i # L /\ stack'[i] = stack[i]
    BY <1>1, <1>2
  <2>2. stack[i + 1].as = "handler" /\ stack[i + 1].size = OverflowSize(stack[i].next)
    BY <1>0, <2>1 DEF CallInv, Waiting
  <2>3. CASE i = L - 1
    <3>1. i + 1 = L
      BY <1>1, <2>3
    <3> QED  BY <1>0, <1>1, <2>1, <2>2, <2>3, <3>1
  <2>4. CASE i # L - 1
    <3>1. i + 1 \in 1..(L - 1)
      BY <1>1, <2>4
    <3> QED  BY <1>2, <2>1, <2>2, <2>4, <3>1
  <2> QED  BY <2>3, <2>4
<1> QED  BY <1>3, <1>4, <1>5 DEF IInv

LEMMA AlwaysIInv == Spec => []IInv
<1>1. IInv /\ [Next]_vars => IInv'
  <2> SUFFICES ASSUME IInv, [Next]_vars PROVE IInv'
    OBVIOUS
  <2>1. CASE UNCHANGED vars
    BY <2>1 DEF vars, IInv, StackInv, EntryInv, CallInv, Waiting, OwnSize
  <2>2. CASE StoreSize
    BY <2>2, StoreSizeKeeps
  <2>3. CASE Prologue
    BY <2>3, PrologueKeeps
  <2>4. CASE ForeignCall
    BY <2>4, ForeignCallKeeps
  <2>5. CASE Deliver
    BY <2>5, DeliverKeeps
  <2>6. CASE Return
    BY <2>6, ReturnKeeps
  <2> QED  BY <2>1, <2>2, <2>3, <2>4, <2>5, <2>6 DEF Next
<1> QED  BY <1>1, Started, PTL DEF Spec

(* The variables have their types: no size that a caller stores, a callee  *)
(* reads or a handler backs up is more than the variadic arguments of one  *)
(* call take, whatever spills from the registers.                          *)
THEOREM TypeCorrect == Spec => []TypeOK
<1>1. IInv => TypeOK
  <2> SUFFICES ASSUME StackInv PROVE TypeOK
    BY DEF IInv
  <2>1. ASSUME NEW i \in 1..Len(stack)
        PROVE  /\ stack[i].as \in {"function", "handler"}
               /\ stack[i].size \in Sizes /\ stack[i].known \in BOOLEAN
    BY FrameAt DEF Frames
  <2> QED  BY <2>1 DEF StackInv, TypeOK
<1> QED  BY <1>1, AlwaysIInv, PTL

(* A function that instrumented code calls unpoisons at va_start every     *)
(* word that its va_arg reads, if no alignment put a hole between them,    *)
(* however handlers and their own variadic calls are nested.               *)
THEOREM VarargsAlwaysClean == Spec => []VarargsAreClean
<1>1. IInv => VarargsAreClean
  <2> SUFFICES ASSUME IInv, NEW i \in Instrumented
               PROVE  Padded(stack[i].call) \/ Read(stack[i].call) \subseteq Cleaned(stack[i])
    BY DEF VarargsAreClean
  <2>1. stack[i].call \in Calls /\ stack[i].size = OverflowSize(stack[i].call)
    BY EntryAt
  <2> QED  BY <2>1, StoredSizeIsRight DEF Cleaned
<1> QED  BY <1>1, AlwaysIInv, PTL

(* It unpoisons nothing above its arguments: the frame of its caller keeps *)
(* its shadow.                                                             *)
THEOREM CallerFrameStaysPoisoned == Spec => []CallerStaysPoisoned
<1>1. IInv => CallerStaysPoisoned
  <2> SUFFICES ASSUME IInv, NEW i \in Instrumented, NEW w \in Cleaned(stack[i])
               PROVE  \E v \in Read(stack[i].call) : w <= v
    BY DEF CallerStaysPoisoned
  <2>1. stack[i].call \in Calls /\ stack[i].size = OverflowSize(stack[i].call)
    BY EntryAt
  <2> QED  BY <2>1, StoredSizeIsRight DEF Cleaned
<1> QED  BY <1>1, AlwaysIInv, PTL
=============================================================================
