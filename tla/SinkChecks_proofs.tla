-------------------------- MODULE SinkChecks_proofs --------------------------
(***************************************************************************)
(* Proofs that a deferred check is reached and reports once, for every     *)
(* function, every choice of sinks and the ways of materializing checks.   *)
(***************************************************************************)
EXTENDS SinkChecks, FlowGraph_proofs, TLAPS

(* A check emitted at a point comes after its load, in the same loop, and  *)
(* the load is executed before it on every path.                           *)
PlacedAfter(p, l, r) ==
    LET lb == p.at[l][1]  li == p.at[l][2]
        sb == r.pos[1]    si == r.pos[2]
    IN  r.loop = NoLoop => IF sb = lb THEN li < si
                           ELSE /\ LoopFor(p.g, sb) = LoopFor(p.g, lb)
                                /\ Dominates(p.g.succ, lb, sb)

(* What the pass also established, unless told to sink past barriers: no   *)
(* barrier between the load and the check, or none in the loop that        *)
(* accumulates it.                                                         *)
PlacedSoundly(p, l, r) ==
    LET lb == p.at[l][1]  li == p.at[l][2]
        sb == r.pos[1]    si == r.pos[2]
    IN  IF r.loop # NoLoop
        THEN lb \in Body(p.g, r.loop) /\ \A b \in Body(p.g, r.loop) : BarrierFree(p, b)
        ELSE IF sb = lb
        THEN li < si /\ \A j \in li + 1 .. si - 1 : ~Barrier(p, lb, j)
        ELSE /\ LoopFor(p.g, sb) = LoopFor(p.g, lb)
             /\ \A j \in li + 1 .. Len(p.code[lb]) + 1 : ~Barrier(p, lb, j)
             /\ \A b \in Between(p, lb, sb) : BarrierFree(p, b)
             /\ \A j \in 1 .. si - 1 : ~Barrier(p, sb, j)

(* Execution is between the load and its check. *)
OnTheWay(l) ==
    LET lb == prog.at[l][1]  li == prog.at[l][2]
        sb == plan[l].pos[1] si == plan[l].pos[2]
    IN  IF sb = lb
        THEN blk = lb /\ li < idx /\ idx <= si
        ELSE \/ blk = lb /\ li < idx
             \/ blk \in Between(prog, lb, sb)
             \/ blk = sb /\ idx <= si

InTheLoop(l) ==
    LET h == plan[l].loop
    IN  acc[h] /\ (blk \in Body(prog.g, h) \/ (blk \in ExitBlocks(prog.g, h) /\ idx = 1))

Pending(l) == IF plan[l].loop = NoLoop THEN shadow[l] /\ OnTheWay(l) ELSE InTheLoop(l)

Inv ==
    /\ TypeOK
    /\ \A l \in Loads : PlacedSoundly(prog, l, plan[l])
    /\ \A l \in owed : ContinueAround(l) \/ (running /\ Pending(l))

-----------------------------------------------------------------------------
(* The placement of the checks.                                            *)

(* An instruction that is a load is no barrier. *)
LEMMA LoadIsNoBarrier ==
    ASSUME NEW p, IsProgram(p), NEW l \in Loads
    PROVE  /\ p.at[l] \in Points
           /\ p.at[l][2] \in 1..Len(p.code[p.at[l][1]])
           /\ ~Barrier(p, p.at[l][1], p.at[l][2])
  <1>1. /\ p.at[l] \in Points
        /\ p.at[l][1] \in Blocks
        /\ p.at[l][2] \in 1..Len(p.code[p.at[l][1]])
        /\ p.code[p.at[l][1]][p.at[l][2]].op = "op"
    BY DEF IsProgram, Points
  <1>2. DOMAIN p.code[p.at[l][1]] = 1..Len(p.code[p.at[l][1]])
    BY <1>1 DEF IsProgram
  <1> QED  BY <1>1, <1>2 DEF Barrier

(* What holds of the instruction the check of l is moved to. *)
SinkAfter(p, l, c) ==
    /\ c \in Points
    /\ c[2] \in 1..Len(p.code[c[1]])
    /\ c = p.at[l] \/ (SameLoop(p, l, c) /\ Available(p, l, c[1], c[2]))

SinkSound(p, l, c) == c = p.at[l] \/ ~PathHasBarrier(p, l, c)

LEMMA SinkAfterType ==
    ASSUME NEW p, IsProgram(p), NEW l \in Loads, NEW c, SinkAfter(p, l, c)
    PROVE  /\ p.at[l] = <<p.at[l][1], p.at[l][2]>> /\ p.at[l][1] \in Blocks /\ p.at[l][2] \in Nat
           /\ c = <<c[1], c[2]>> /\ c[1] \in Blocks /\ c[2] \in Nat /\ c[2] >= 1
           /\ c[2] <= Len(p.code[c[1]])
           /\ Len(p.code[c[1]]) \in Nat /\ Len(p.code[p.at[l][1]]) \in Nat
  <1>1. p.at[l] \in Points /\ c \in Points
    BY LoadIsNoBarrier DEF SinkAfter
  <1>2. /\ p.at[l] = <<p.at[l][1], p.at[l][2]>> /\ p.at[l][1] \in Blocks /\ p.at[l][2] \in Nat
        /\ c = <<c[1], c[2]>> /\ c[1] \in Blocks /\ c[2] \in Nat
    BY <1>1 DEF Points
  <1>3. Len(p.code[c[1]]) \in Nat /\ Len(p.code[p.at[l][1]]) \in Nat
    BY <1>2 DEF IsProgram
  <1> QED  BY <1>2, <1>3 DEF SinkAfter

(* findSinkFor leaves the check at the load or moves it to a use of the    *)
(* value in the same loop, past no barrier unless told to.                 *)
LEMMA FindSinkForAfter ==
    ASSUME NEW p, IsProgram(p), NEW l \in Loads, NEW c \in FindSinkFor(p, l)
    PROVE  SinkAfter(p, l, c) /\ (SinkPastBarriers \/ SinkSound(p, l, c))
  <1>1. CASE c = p.at[l]
    BY <1>1, LoadIsNoBarrier DEF SinkAfter, SinkSound
  <1>2. CASE c # p.at[l]
    <2>0. PICK b \in Blocks : \E i \in 1..Len(p.code[b]) :
                                 c = <<b, i>> /\ SinkAccepted(p, l, <<b, i>>)
      BY <1>2 DEF FindSinkFor
    <2>1. PICK i \in 1..Len(p.code[b]) : c = <<b, i>> /\ SinkAccepted(p, l, <<b, i>>)
      BY <2>0
    <2>2. p.code[b] \in Seq([op : Ops, uses : SUBSET Loads])
      BY DEF IsProgram
    <2>3. c \in Points /\ c[1] = b /\ c[2] = i
      BY <2>1, <2>2 DEF Points
    <2>4. SameLoop(p, l, c) /\ (SinkPastBarriers \/ ~PathHasBarrier(p, l, c))
      BY <2>1 DEF SinkAccepted
    <2>5. l \in p.code[b][i].uses
      BY <2>1 DEF SinkAccepted
    <2>6. Available(p, l, b, i)
      BY <2>5 DEF IsProgram
    <2> QED  BY <2>1, <2>3, <2>4, <2>6 DEF SinkAfter, SinkSound
  <1> QED  BY <1>1, <1>2

(* A placement is a point of the function or the accumulator of a loop. *)
PlacedInRange(p, r) ==
    /\ r \in [loop : Blocks \cup {NoLoop}, pos : Points]
    /\ r.pos[2] \in 1 .. Len(p.code[r.pos[1]]) + 1

(* The check for sink c is emitted at index j of its block: at or after    *)
(* the sink with no barrier in between, and after the load itself.         *)
Slides(p, l, c, j) ==
    /\ j \in c[2] .. Len(p.code[c[1]]) + 1
    /\ \A k \in c[2] .. j - 1 : ~Barrier(p, c[1], k)
    /\ c = p.at[l] => j # c[2]

EmittedAt(c, j) == [loop |-> NoLoop, pos |-> <<c[1], j>>]

LEMMA SlideAfter ==
    ASSUME NEW p, IsProgram(p), NEW l \in Loads, NEW c, SinkAfter(p, l, c),
           NEW j, Slides(p, l, c, j)
    PROVE  PlacedInRange(p, EmittedAt(c, j)) /\ PlacedAfter(p, l, EmittedAt(c, j))
  <1> DEFINE lb == p.at[l][1]  li == p.at[l][2]  r == EmittedAt(c, j)
  <1>1. /\ lb \in Blocks /\ li \in Nat /\ p.at[l] = <<lb, li>>
        /\ c[1] \in Blocks /\ c[2] \in Nat /\ c[2] >= 1 /\ c = <<c[1], c[2]>>
        /\ Len(p.code[c[1]]) \in Nat
    BY SinkAfterType
  <1>2. j \in Nat /\ j >= c[2] /\ j <= Len(p.code[c[1]]) + 1
    BY <1>1 DEF Slides
  <1>3. r.loop = NoLoop /\ r.pos = <<c[1], j>> /\ r.pos[1] = c[1] /\ r.pos[2] = j
    BY DEF EmittedAt
  <1>4. PlacedInRange(p, r)
    BY <1>1, <1>2, <1>3 DEF PlacedInRange, Points, EmittedAt
  <1>5. CASE c = p.at[l]
    <2>1. c[1] = lb /\ li < j
      BY <1>1, <1>2, <1>5 DEF Slides
    <2> QED  BY <1>3, <1>4, <2>1 DEF PlacedAfter
  <1>6. CASE c # p.at[l] /\ c[1] = lb
    <2>1. li < c[2]
      BY <1>6 DEF SinkAfter, Available
    <2>2. li < j
      BY <1>1, <1>2, <2>1
    <2> QED  BY <1>3, <1>4, <1>6, <2>2 DEF PlacedAfter
  <1>7. CASE c # p.at[l] /\ c[1] # lb
    <2>1. LoopFor(p.g, c[1]) = LoopFor(p.g, lb) /\ Dominates(p.g.succ, lb, c[1])
      BY <1>7 DEF SinkAfter, Available, SameLoop
    <2> QED  BY <1>3, <1>4, <1>7, <2>1 DEF PlacedAfter
  <1> QED  BY <1>5, <1>6, <1>7

LEMMA SlideSound ==
    ASSUME NEW p, IsProgram(p), NEW l \in Loads, NEW c, SinkAfter(p, l, c), SinkSound(p, l, c),
           NEW j, Slides(p, l, c, j)
    PROVE  PlacedSoundly(p, l, EmittedAt(c, j))
  <1> DEFINE lb == p.at[l][1]  li == p.at[l][2]  r == EmittedAt(c, j)
  <1>1. /\ lb \in Blocks /\ li \in Nat /\ p.at[l] = <<lb, li>>
        /\ c[1] \in Blocks /\ c[2] \in Nat /\ c[2] >= 1 /\ c = <<c[1], c[2]>>
        /\ Len(p.code[c[1]]) \in Nat
    BY SinkAfterType
  <1>2. /\ j \in Nat /\ j >= c[2]
        /\ \A k \in c[2] .. j - 1 : ~Barrier(p, c[1], k)
    BY <1>1 DEF Slides
  <1>3. r.loop = NoLoop /\ r.pos = <<c[1], j>> /\ r.pos[1] = c[1] /\ r.pos[2] = j
    BY DEF EmittedAt
  <1>4. PlacedAfter(p, l, r)
    BY SlideAfter
  <1>5. CASE c = p.at[l]
    <2>1. c[1] = lb /\ c[2] = li /\ li < j
      BY <1>1, <1>3, <1>4, <1>5 DEF PlacedAfter
    <2>2. \A k \in li + 1 .. j - 1 : ~Barrier(p, lb, k)
      BY <1>1, <1>2, <2>1
    <2> QED  BY <1>3, <2>1, <2>2 DEF PlacedSoundly
  <1>6. CASE c # p.at[l] /\ c[1] = lb
    <2>1. \A k \in li + 1 .. c[2] - 1 : ~Barrier(p, lb, k)
      BY <1>6 DEF SinkSound, PathHasBarrier
    <2>2. li < j
      BY <1>3, <1>4, <1>6 DEF PlacedAfter
    <2>3. \A k \in li + 1 .. j - 1 : ~Barrier(p, lb, k)
      BY <1>1, <1>2, <1>6, <2>1
    <2> QED  BY <1>3, <1>6, <2>2, <2>3 DEF PlacedSoundly
  <1>7. CASE c # p.at[l] /\ c[1] # lb
    <2>1. /\ \A k \in li + 1 .. Len(p.code[lb]) + 1 : ~Barrier(p, lb, k)
          /\ \A b \in Between(p, lb, c[1]) : BarrierFree(p, b)
          /\ \A k \in 1 .. c[2] - 1 : ~Barrier(p, c[1], k)
      BY <1>7 DEF SinkSound, PathHasBarrier
    <2>2. \A k \in 1 .. j - 1 : ~Barrier(p, c[1], k)
      BY <1>1, <1>2, <2>1
    <2>3. LoopFor(p.g, c[1]) = LoopFor(p.g, lb)
      BY <1>7 DEF SinkAfter, SameLoop
    <2> QED  BY <1>3, <1>7, <2>1, <2>2, <2>3 DEF PlacedSoundly
  <1> QED  BY <1>5, <1>6, <1>7

Accumulated(p, l, c, r) == \E h \in Accumulators(p, l, c) : r = [loop |-> h, pos |-> c]

(* materializeChecks emits the check at or after its sink, or accumulates  *)
(* it.                                                                     *)
LEMMA PlacementCases ==
    ASSUME NEW m, NEW p, IsProgram(p), NEW orig,
           \A l \in Loads : SinkAfter(p, l, orig[l]),
           NEW l \in Loads, NEW r \in Placement(m, p, orig, l)
    PROVE  \/ m = "loop" /\ Accumulated(p, l, orig[l], r)
           \/ \E j : Slides(p, l, orig[l], j) /\ r = EmittedAt(orig[l], j)
  <1> DEFINE c == orig[l]
  <1>1. /\ c[1] \in Blocks /\ c[2] \in Nat /\ c[2] >= 1 /\ c = <<c[1], c[2]>>
        /\ c[2] <= Len(p.code[c[1]]) /\ Len(p.code[c[1]]) \in Nat
    BY SinkAfterType
  <1>2. \/ m = "loop" /\ Accumulated(p, l, c, r)
        \/ r = [loop |-> NoLoop, pos |-> InsertPoint(p, orig, c)]
        \/ \E q \in AnchorFor(p, c) : r = [loop |-> NoLoop, pos |-> q]
    BY DEF Placement, Accumulated
  <1>3. CASE r = [loop |-> NoLoop, pos |-> InsertPoint(p, orig, c)]
    <2>1. CASE \E k \in Loads : orig[k] = c /\ p.at[k] = c
      <3>1. ~Barrier(p, c[1], c[2])
        BY <2>1, LoadIsNoBarrier
      <3>2. InsertPoint(p, orig, c) = <<c[1], c[2] + 1>>
        BY <2>1 DEF InsertPoint
      <3>3. Slides(p, l, c, c[2] + 1)
        BY <1>1, <3>1 DEF Slides
      <3> QED  BY <1>3, <3>2, <3>3 DEF EmittedAt
    <2>2. CASE ~\E k \in Loads : orig[k] = c /\ p.at[k] = c
      <3>1. InsertPoint(p, orig, c) = <<c[1], c[2]>> /\ c # p.at[l]
        BY <1>1, <2>2 DEF InsertPoint
      <3>2. Slides(p, l, c, c[2])
        BY <1>1, <3>1 DEF Slides
      <3> QED  BY <1>3, <3>1, <3>2 DEF EmittedAt
    <2> QED  BY <2>1, <2>2
  <1>4. CASE \E q \in AnchorFor(p, c) : r = [loop |-> NoLoop, pos |-> q]
    <2>1. PICK j \in c[2] .. Len(p.code[c[1]]) + 1 :
             /\ r = [loop |-> NoLoop, pos |-> <<c[1], j>>]
             /\ Barrier(p, c[1], j) \/ j = Len(p.code[c[1]]) + 1
             /\ \A k \in c[2] .. j - 1 : ~Barrier(p, c[1], k)
      BY <1>4 DEF AnchorFor
    <2>2. c = p.at[l] => j # c[2]
      BY <1>1, <2>1, LoadIsNoBarrier
    <2>3. Slides(p, l, c, j)
      BY <2>1, <2>2 DEF Slides
    <2> QED  BY <2>1, <2>3 DEF EmittedAt
  <1> QED  BY <1>2, <1>3, <1>4

LEMMA AccumulatedSound ==
    ASSUME NEW p, IsProgram(p), NEW l \in Loads, NEW c, SinkAfter(p, l, c),
           NEW r, Accumulated(p, l, c, r)
    PROVE  /\ PlacedInRange(p, r) /\ PlacedAfter(p, l, r) /\ PlacedSoundly(p, l, r)
           /\ r.loop # NoLoop
  <1>1. PICK h \in Accumulators(p, l, c) : r = [loop |-> h, pos |-> c]
    BY DEF Accumulated
  <1>2. /\ h \in Blocks /\ h # NoLoop /\ p.at[l][1] \in Body(p.g, h)
        /\ \A b \in Body(p.g, h) : BarrierFree(p, b)
    BY FlagAssumption DEF Accumulators, LoopFor, LoopFlushIsSound
  <1>3. r.loop = h /\ r.pos = c
    BY <1>1
  <1>4. PlacedInRange(p, r)
    <2>1. c \in Points /\ c[2] \in 1 .. Len(p.code[c[1]]) + 1
      BY SinkAfterType DEF SinkAfter
    <2> QED  BY <1>1, <1>2, <2>1 DEF PlacedInRange
  <1> QED  BY <1>2, <1>3, <1>4 DEF PlacedAfter, PlacedSoundly

(* materializeChecks keeps what findSinkFor established. *)
LEMMA PlacementAfter ==
    ASSUME NEW m, NEW p, IsProgram(p), NEW orig,
           \A l \in Loads : SinkAfter(p, l, orig[l]),
           NEW l \in Loads, NEW r \in Placement(m, p, orig, l)
    PROVE  /\ PlacedInRange(p, r) /\ PlacedAfter(p, l, r)
           /\ m # "loop" => r.loop = NoLoop
           /\ SinkSound(p, l, orig[l]) => PlacedSoundly(p, l, r)
  <1>1. CASE m = "loop" /\ Accumulated(p, l, orig[l], r)
    BY <1>1, AccumulatedSound
  <1>2. CASE \E j : Slides(p, l, orig[l], j) /\ r = EmittedAt(orig[l], j)
    <2>1. PICK j : Slides(p, l, orig[l], j) /\ r = EmittedAt(orig[l], j)
      BY <1>2
    <2>2. r.loop = NoLoop
      BY <2>1 DEF EmittedAt
    <2> QED  BY <2>1, <2>2, SlideAfter, SlideSound
  <1> QED  BY <1>1, <1>2, PlacementCases

-----------------------------------------------------------------------------
(* The inductive invariant.                                                *)

(* What the pass has established when the function starts. *)
LEMMA InitPlaced ==
    ASSUME Init
    PROVE  /\ TypeOK
           /\ \A l \in Loads : /\ PlacedAfter(prog, l, plan[l])
                               /\ mode # "loop" => plan[l].loop = NoLoop
                               /\ SinkPastBarriers \/ PlacedSoundly(prog, l, plan[l])
  <1>1. IsProgram(prog)
    BY ProgramsAssumption DEF Init
  <1>2. PICK orig \in Choices(LAMBDA l : FindSinkFor(prog, l)) :
           plan \in Choices(LAMBDA l : Placement(mode, prog, orig, l))
    BY DEF Init, RunOnFunction
  <1>3. \A l \in Loads : /\ SinkAfter(prog, l, orig[l])
                         /\ SinkPastBarriers \/ SinkSound(prog, l, orig[l])
    <2>1. \A l \in Loads : orig[l] \in FindSinkFor(prog, l)
      BY DEF Choices
    <2> QED  BY <1>1, <2>1, FindSinkForAfter
  <1>4. /\ \A l \in Loads : plan[l] \in Placement(mode, prog, orig, l)
        /\ DOMAIN plan = Loads /\ plan = [l \in Loads |-> plan[l]]
    BY <1>2 DEF Choices
  <1>5. \A l \in Loads : /\ PlacedInRange(prog, plan[l]) /\ PlacedAfter(prog, l, plan[l])
                         /\ mode # "loop" => plan[l].loop = NoLoop
                         /\ SinkPastBarriers \/ PlacedSoundly(prog, l, plan[l])
    BY <1>1, <1>3, <1>4, PlacementAfter
  <1>6. Len(prog.code[Entry]) \in Nat
    BY <1>1, EntryAssumption DEF IsProgram
  <1>7. plan \in [Loads -> [loop : Blocks \cup {NoLoop}, pos : Points]]
    BY <1>4, <1>5 DEF PlacedInRange
  <1>8. \A l \in Loads : plan[l].pos[2] \in 1 .. Len(prog.code[plan[l].pos[1]]) + 1
    BY <1>5 DEF PlacedInRange
  <1>9. TypeOK
    BY <1>1, <1>6, <1>7, <1>8, EntryAssumption DEF Init, TypeOK
  <1> QED  BY <1>5, <1>9

LEMMA InitInv == ~SinkPastBarriers /\ Init => Inv
  BY InitPlaced DEF Init, Inv

(* Facts about the current point that the steps below share. *)
LEMMA Here ==
    ASSUME TypeOK
    PROVE  /\ prog.g.succ \in [Blocks -> SUBSET Blocks]
           /\ blk \in Blocks /\ idx \in Nat /\ idx >= 1
           /\ Len(prog.code[blk]) \in Nat /\ idx <= Len(prog.code[blk]) + 1
           /\ \A l \in Loads : /\ prog.at[l][1] \in Blocks /\ prog.at[l][2] \in Nat
                               /\ prog.at[l] = <<prog.at[l][1], prog.at[l][2]>>
                               /\ prog.at[l][2] <= Len(prog.code[prog.at[l][1]])
                               /\ plan[l].pos[1] \in Blocks /\ plan[l].pos[2] \in Nat
                               /\ plan[l].pos = <<plan[l].pos[1], plan[l].pos[2]>>
                               /\ plan[l].pos[2] <= Len(prog.code[plan[l].pos[1]]) + 1
                               /\ Len(prog.code[prog.at[l][1]]) \in Nat
                               /\ Len(prog.code[plan[l].pos[1]]) \in Nat
  <1>1. IsProgram(prog)
    BY DEF TypeOK
  <1>2. \A b \in Blocks : Len(prog.code[b]) \in Nat
    BY <1>1 DEF IsProgram
  <1>3. prog.g.succ \in [Blocks -> SUBSET Blocks]
    BY <1>1 DEF IsProgram
  <1>4. \A l \in Loads : /\ prog.at[l] \in Points /\ plan[l].pos \in Points
                         /\ prog.at[l][2] \in 1..Len(prog.code[prog.at[l][1]])
    BY <1>1 DEF IsProgram, TypeOK
  <1>5. \A q \in Points : q[1] \in Blocks /\ q[2] \in Nat /\ q = <<q[1], q[2]>>
    BY DEF Points
  <1>6. \A l \in Loads : plan[l].pos[2] \in 1 .. Len(prog.code[plan[l].pos[1]]) + 1
    BY DEF TypeOK
  <1> QED  BY <1>2, <1>3, <1>4, <1>5, <1>6 DEF TypeOK

(* At a point where the function can be left, nothing is pending once the  *)
(* checks there have run.                                                  *)
LEMMA NothingPendingAtBarrier ==
    ASSUME Inv, NEW l \in Loads, Pending(l), Barrier(prog, blk, idx)
    PROVE  l \in Warned
  <1> USE DEF Inv
  <1>1. PlacedSoundly(prog, l, plan[l])
    OBVIOUS
  <1>2. BarrierFree(prog, blk) => FALSE
    BY Here DEF BarrierFree
  <1>3. CASE plan[l].loop = NoLoop /\ plan[l].pos[1] = prog.at[l][1]
    <2>1. shadow[l] /\ blk = prog.at[l][1] /\ prog.at[l][2] < idx /\ idx <= plan[l].pos[2]
      BY <1>3 DEF Pending, OnTheWay
    <2>2. \A j \in prog.at[l][2] + 1 .. plan[l].pos[2] - 1 : ~Barrier(prog, blk, j)
      BY <1>1, <1>3, <2>1 DEF PlacedSoundly
    <2>3. idx = plan[l].pos[2]
      BY <2>1, <2>2, Here
    <2> QED  BY <1>3, <2>1, <2>3, Here DEF Warned
  <1>4. CASE plan[l].loop = NoLoop /\ plan[l].pos[1] # prog.at[l][1]
    <2>1. shadow[l] /\ (\/ blk = prog.at[l][1] /\ prog.at[l][2] < idx
                        \/ blk \in Between(prog, prog.at[l][1], plan[l].pos[1])
                        \/ blk = plan[l].pos[1] /\ idx <= plan[l].pos[2])
      BY <1>4 DEF Pending, OnTheWay
    <2>2. /\ \A j \in prog.at[l][2] + 1 .. Len(prog.code[prog.at[l][1]]) + 1 :
                ~Barrier(prog, prog.at[l][1], j)
          /\ \A b \in Between(prog, prog.at[l][1], plan[l].pos[1]) : BarrierFree(prog, b)
          /\ \A j \in 1 .. plan[l].pos[2] - 1 : ~Barrier(prog, plan[l].pos[1], j)
      BY <1>1, <1>4 DEF PlacedSoundly
    <2>3. blk = plan[l].pos[1] /\ idx <= plan[l].pos[2]
      BY <1>2, <2>1, <2>2, Here
    <2>4. idx = plan[l].pos[2]
      BY <2>2, <2>3, Here
    <2> QED  BY <1>4, <2>1, <2>3, <2>4, Here DEF Warned
  <1>5. CASE plan[l].loop # NoLoop
    <2>1. acc[plan[l].loop] /\ blk \in ExitBlocks(prog.g, plan[l].loop) /\ idx = 1
      BY <1>1, <1>2, <1>5 DEF Pending, InTheLoop, PlacedSoundly
    <2> QED  BY <1>5, <2>1 DEF Warned
  <1> QED  BY <1>3, <1>4, <1>5

(* Where an owed load without a check at this point still is. *)
LEMMA PendingHere ==
    ASSUME Inv, NEW l \in Loads, Pending(l), l \notin Warned
    PROVE  /\ plan[l].loop = NoLoop /\ plan[l].pos[1] = prog.at[l][1]
                => blk = prog.at[l][1] /\ prog.at[l][2] < idx /\ idx < plan[l].pos[2]
           /\ plan[l].loop = NoLoop /\ plan[l].pos[1] # prog.at[l][1]
                => \/ blk = prog.at[l][1] /\ prog.at[l][2] < idx
                   \/ blk \in Between(prog, prog.at[l][1], plan[l].pos[1])
                   \/ blk = plan[l].pos[1] /\ idx < plan[l].pos[2]
           /\ plan[l].loop = NoLoop => shadow[l]
           /\ plan[l].loop # NoLoop => acc[plan[l].loop] /\ blk \in Body(prog.g, plan[l].loop)
  <1>1. CASE plan[l].loop = NoLoop
    <2>1. shadow[l] /\ OnTheWay(l)
      BY <1>1 DEF Pending
    <2>2. ~(blk = plan[l].pos[1] /\ idx = plan[l].pos[2])
      BY <1>1, <2>1, Here DEF Warned, Inv
    <2> QED  BY <1>1, <2>1, <2>2, Here DEF OnTheWay, Inv
  <1>2. CASE plan[l].loop # NoLoop
    BY <1>2 DEF Pending, InTheLoop, Warned
  <1> QED  BY <1>1, <1>2

LEMMA TypeStep == TypeOK /\ [Next]_vars => TypeOK'
  <1> SUFFICES ASSUME TypeOK, [Next]_vars PROVE TypeOK'
    OBVIOUS
  <1>1. CASE Instruction
    <2>1. PICK poisoned \in SUBSET Loads : Execute(poisoned)
      BY <1>1 DEF Instruction
    <2>2. idx' \in 1 .. Len(prog.code[blk]) + 1
      BY <1>1, Here DEF Instruction, AtTerminator
    <2>3. shadow' \in [Loads -> BOOLEAN] /\ owed' \in SUBSET Loads
      <3>1. owed' \in SUBSET Loads
        BY <2>1 DEF Execute, TypeOK
      <3>2. shadow' \in [Loads -> BOOLEAN]
        <4>1. \A k \in Loads : /\ shadow[k] \in BOOLEAN
                               /\ (k \in poisoned) \in BOOLEAN
          BY DEF TypeOK
        <4> DEFINE v(k) == IF k \in {l \in Loads : prog.at[l] = <<blk, idx>>}
                           THEN k \in poisoned ELSE shadow[k]
        <4>2. \A k \in Loads : v(k) \in BOOLEAN
          BY <4>1
        <4>3. shadow' = [k \in Loads |-> v(k)]
          BY <2>1, Zenon DEF Execute
        <4> HIDE DEF v
        <4> QED  BY <4>2, <4>3
      <3> QED  BY <3>1, <3>2
    <2>4. acc' \in [Blocks -> BOOLEAN]
      BY <2>1, Zenon DEF Execute, TypeOK
    <2> QED  BY <1>1, <2>2, <2>3, <2>4 DEF Instruction, TypeOK
  <1>2. CASE Branch
    <2>1. blk' \in Blocks
      BY <1>2, Here DEF Branch
    <2>2. IsProgram(prog)
      BY DEF TypeOK
    <2>3. Len(prog.code[blk']) \in Nat
      BY <2>1, <2>2 DEF IsProgram
    <2>4. acc' \in [Blocks -> BOOLEAN] /\ owed' \in SUBSET Loads
      BY <1>2 DEF Branch, TypeOK
    <2> QED  BY <1>2, <2>1, <2>3, <2>4 DEF Branch, TypeOK
  <1>3. CASE Leave
    BY <1>3 DEF Leave, TypeOK
  <1>4. CASE UNCHANGED vars
    BY <1>4 DEF vars, TypeOK
  <1> QED  BY <1>1, <1>2, <1>3, <1>4 DEF Next

(* What depends on the function and its plan only does not change. *)
LEMMA PlanStays ==
    ASSUME prog' = prog, plan' = plan, NEW l \in Loads
    PROVE  /\ PlacedSoundly(prog, l, plan[l]) => PlacedSoundly(prog, l, plan[l])'
           /\ ContinueAround(l) => ContinueAround(l)'
  BY DEF PlacedSoundly, ContinueAround

LEMMA InstructionInv ==
    ASSUME Inv, Instruction, NEW l \in owed'
    PROVE  ContinueAround(l) \/ Pending(l)'
  <1> DEFINE lb == prog.at[l][1]  li == prog.at[l][2]
             sb == plan[l].pos[1] si == plan[l].pos[2]
             h == plan[l].loop
  <1>0. TypeOK /\ PlacedSoundly(prog, l, plan[l]) /\ l \in Loads
        /\ prog' = prog /\ plan' = plan /\ blk' = blk /\ idx' = idx + 1
    BY TypeStep DEF Inv, Instruction, TypeOK, Next
  <1>1. PICK poisoned \in SUBSET Loads : Execute(poisoned)
    BY DEF Instruction
  <1>2. h \in Blocks \cup {NoLoop}
    BY <1>0 DEF TypeOK
  <1>3. CASE l \in poisoned
    <2>0. prog.at[l] = <<blk, idx>>
      BY <1>1, <1>3 DEF Execute
    <2>1. blk = lb /\ idx = li /\ shadow'[l]
      <3>1. shadow'[l]
        BY <1>0, <1>1, <1>3, <2>0, Zenon DEF Execute
      <3> QED  BY <2>0, <3>1
    <2>2. CASE h = NoLoop /\ sb = lb
      <3>1. li < si
        BY <1>0, <2>2 DEF PlacedSoundly
      <3> QED  BY <1>0, <2>1, <2>2, <3>1, Here DEF Pending, OnTheWay
    <2>3. CASE h = NoLoop /\ sb # lb
      BY <1>0, <2>1, <2>3, Here DEF Pending, OnTheWay
    <2>4. CASE h # NoLoop
      <3>1. acc'[h]
        BY <1>1, <1>2, <1>3, <2>4 DEF Execute
      <3>2. blk \in Body(prog.g, h)
        BY <1>0, <2>1, <2>4 DEF PlacedSoundly
      <3> QED  BY <1>0, <2>4, <3>1, <3>2 DEF Pending, InTheLoop
    <2> QED  BY <2>2, <2>3, <2>4
  <1>4. CASE l \notin poisoned
    <2>1. l \in owed /\ l \notin Warned
      BY <1>1, <1>4 DEF Execute
    <2>2. SUFFICES ASSUME ~ContinueAround(l) PROVE Pending(l)'
      OBVIOUS
    <2>3. Pending(l)
      BY <2>1, <2>2 DEF Inv
    <2>4. CASE h = NoLoop
      <3>1. prog.at[l] # <<blk, idx>>
        <4>1. SUFFICES ASSUME blk = lb, idx = li PROVE FALSE
          BY <1>0, Here
        <4>2. sb # lb /\ lb \in Between(prog, lb, sb)
          BY <1>0, <2>1, <2>3, <2>4, <4>1, PendingHere, Here
        <4> QED  BY <1>0, <2>2, <2>4, <4>2 DEF ContinueAround, PlacedSoundly
      <3>2. shadow'[l] = shadow[l]
        BY <1>0, <1>1, <3>1 DEF Execute
      <3>3. OnTheWay(l)'
        BY <1>0, <2>1, <2>3, <2>4, PendingHere, Here DEF OnTheWay
      <3> QED  BY <1>0, <2>1, <2>3, <2>4, <3>2, <3>3, PendingHere DEF Pending
    <2>5. CASE h # NoLoop
      <3>1. acc[h] /\ blk \in Body(prog.g, h)
        BY <1>0, <2>1, <2>3, <2>5, PendingHere
      <3>2. acc'[h]
        BY <1>1, <1>2, <2>5, <3>1 DEF Execute
      <3> QED  BY <1>0, <2>5, <3>1, <3>2 DEF Pending, InTheLoop
    <2> QED  BY <2>4, <2>5
  <1> QED  BY <1>3, <1>4

LEMMA BranchInv ==
    ASSUME Inv, Branch, NEW l \in owed'
    PROVE  ContinueAround(l) \/ Pending(l)'
  <1> DEFINE lb == prog.at[l][1]  li == prog.at[l][2]
             sb == plan[l].pos[1] si == plan[l].pos[2]
             h == plan[l].loop
  <1>0. TypeOK /\ PlacedSoundly(prog, l, plan[l]) /\ l \in Loads
        /\ prog' = prog /\ plan' = plan /\ shadow' = shadow /\ idx' = 1
        /\ l \in owed /\ l \notin Warned /\ idx = Len(prog.code[blk]) + 1
        /\ blk' \in prog.g.succ[blk]
    BY DEF Inv, Branch, TypeOK, AtTerminator
  <1>1. blk' \in Blocks
    BY <1>0, Here
  <1>2. SUFFICES ASSUME ~ContinueAround(l) PROVE Pending(l)'
    OBVIOUS
  <1>3. Pending(l)
    BY <1>0, <1>2 DEF Inv
  <1>4. CASE h = NoLoop
    <2>1. sb # lb /\ shadow[l] /\ (blk = lb \/ blk \in Between(prog, lb, sb))
      BY <1>0, <1>3, <1>4, PendingHere, Here
    <2>2. CASE blk' = sb
      BY <1>0, <1>4, <2>1, <2>2, Here DEF Pending, OnTheWay, TypeOK
    <2>3. CASE blk' # sb
      <3>1. blk' \in Between(prog, lb, sb)
        BY <1>0, <1>1, <2>1, <2>3, RegionStart, RegionClosed DEF Between
      <3> QED  BY <1>0, <1>4, <2>1, <3>1 DEF Pending, OnTheWay
    <2> QED  BY <2>2, <2>3
  <1>5. CASE h # NoLoop
    <2>1. acc[h] /\ blk \in Body(prog.g, h) /\ h \in Blocks
      BY <1>0, <1>3, <1>5, PendingHere DEF TypeOK
    <2>2. blk \notin Preheaders(prog.g, h)
      BY <2>1 DEF Preheaders
    <2>3. acc'[h]
      BY <2>1, <2>2 DEF Branch
    <2>4. blk' \in Body(prog.g, h) \/ blk' \in ExitBlocks(prog.g, h)
      <3>1. blk' \in UNION {prog.g.succ[b] : b \in Body(prog.g, h)}
        BY <1>0, <2>1
      <3> QED  BY <3>1 DEF ExitBlocks
    <2> QED  BY <1>0, <1>5, <2>3, <2>4 DEF Pending, InTheLoop
  <1> QED  BY <1>4, <1>5

LEMMA StepInv == Inv /\ [Next]_vars => Inv'
  <1> SUFFICES ASSUME Inv, [Next]_vars PROVE Inv'
    OBVIOUS
  <1>1. TypeOK'
    BY TypeStep DEF Inv
  <1>2. prog' = prog /\ plan' = plan
    BY DEF Next, Instruction, Branch, Leave, vars
  <1>3. (\A l \in Loads : PlacedSoundly(prog, l, plan[l]))'
    BY <1>2, PlanStays DEF Inv
  <1>4. \A l \in owed' : l \in Loads
    BY <1>1 DEF TypeOK
  <1>5. CASE Instruction
    <2>1. running' = TRUE
      BY <1>5 DEF Instruction, Inv, TypeOK
    <2> QED  BY <1>1, <1>2, <1>3, <1>4, <1>5, <2>1, InstructionInv, PlanStays DEF Inv
  <1>6. CASE Branch
    <2>1. running' = TRUE
      BY <1>6 DEF Branch, Inv, TypeOK
    <2> QED  BY <1>1, <1>2, <1>3, <1>4, <1>6, <2>1, BranchInv, PlanStays DEF Inv
  <1>7. CASE Leave
    <2>1. \A l \in owed' : l \in owed /\ l \notin Warned
      BY <1>7 DEF Leave
    <2>2. \A l \in owed' : ContinueAround(l)
      BY <1>4, <1>7, <2>1, NothingPendingAtBarrier DEF Inv, Leave
    <2> QED  BY <1>1, <1>2, <1>3, <1>4, <2>2, PlanStays DEF Inv
  <1>8. CASE UNCHANGED vars
    BY <1>8 DEF vars, Inv, TypeOK, PlacedSoundly, ContinueAround, Pending, OnTheWay, InTheLoop
  <1> QED  BY <1>5, <1>6, <1>7, <1>8 DEF Next

-----------------------------------------------------------------------------
(* Checks are emitted at points of the function and execution stays in it: *)
(* type correctness, for every function, choice of sinks and flag.         *)
THEOREM TypeCorrect == Spec => []TypeOK
  <1>1. Init => TypeOK
    BY InitPlaced
  <1>2. TypeOK /\ [Next]_vars => TypeOK'
    BY TypeStep
  <1> QED  BY <1>1, <1>2, PTL DEF Spec

(* With barriers respected, a load that read poison has been reported when *)
(* the function is left, unless its loop comes back to it around its sink: *)
(* for every control-flow graph, code and way of materializing checks.     *)
THEOREM DeferredChecksAreReached == ~SinkPastBarriers => (Spec => []ReportedBeforeLeaving)
  <1> SUFFICES ASSUME ~SinkPastBarriers PROVE Spec => []ReportedBeforeLeaving
    OBVIOUS
  <1>1. Init => Inv
    BY InitInv
  <1>2. Inv /\ [Next]_vars => Inv'
    BY StepInv
  <1>3. Inv => ReportedBeforeLeaving
    BY DEF Inv, ReportedBeforeLeaving
  <1> QED  BY <1>1, <1>2, <1>3, PTL DEF Spec

-----------------------------------------------------------------------------
(* One warning per read.                                                   *)

(* Execution is past the check of l and has not read l again. *)
Past(l) ==
    LET lb == prog.at[l][1]  li == prog.at[l][2]
        sb == plan[l].pos[1] si == plan[l].pos[2]
    IN  IF sb = lb
        THEN ~(blk = lb /\ li < idx /\ idx <= si)
        ELSE \/ blk = sb /\ si < idx
             \/ blk \in Region(prog.g.succ, prog.g.succ[sb], lb)
             \/ blk = lb /\ idx <= li

(* A shadow that is still poisoned after it was reported is behind its     *)
(* check.                                                                  *)
ReportedIsPast ==
    \A l \in Loads : plan[l].loop = NoLoop /\ shadow[l] /\ l \notin owed => Past(l)

OnceInv ==
    /\ TypeOK
    /\ prog.g = Analysed(prog.g.succ)
    /\ blk \in Reached(prog.g.succ)
    /\ \A l \in Loads : /\ PlacedAfter(prog, l, plan[l])
                        /\ mode # "loop" => plan[l].loop = NoLoop
    /\ running => ReportedIsPast

LEMMA InitOnce == Init => OnceInv
  <1> SUFFICES ASSUME Init PROVE OnceInv
    OBVIOUS
  <1>1. prog.g = Analysed(prog.g.succ)
    BY GraphsAssumption DEF Init
  <1>2. blk \in Reached(prog.g.succ)
    BY ReachedEntry DEF Init
  <1>3. ReportedIsPast
    BY DEF Init, ReportedIsPast
  <1> QED  BY <1>1, <1>2, <1>3, InitPlaced DEF OnceInv

(* A check reports only what is owed: the point of a check is past no      *)
(* check of the same load, in a reducible graph.                           *)
LEMMA WarnedIsOwed ==
    ASSUME OnceInv, running, mode # "loop", Reducible(prog.g.succ), NEW l \in Warned
    PROVE  l \in owed
  <1> DEFINE lb == prog.at[l][1]  li == prog.at[l][2]
             sb == plan[l].pos[1] si == plan[l].pos[2]
             succ == prog.g.succ
  <1>1. /\ l \in Loads /\ TypeOK /\ plan[l].loop = NoLoop /\ PlacedAfter(prog, l, plan[l])
        /\ prog.g = Analysed(succ)
    BY DEF OnceInv, Warned
  <1>2. plan[l].pos = <<blk, idx>> /\ shadow[l]
    BY <1>1 DEF Warned
  <1>3. blk = sb /\ idx = si
    BY <1>2
  <1>4. SUFFICES ASSUME Past(l) PROVE FALSE
    BY <1>1, <1>2 DEF OnceInv, ReportedIsPast
  <1>5. lb \in Blocks /\ sb \in Blocks /\ li \in Nat /\ si \in Nat /\ idx \in Nat
    BY <1>1, Here
  <1>6. CASE sb = lb
    <2>1. li < si
      BY <1>1, <1>6 DEF PlacedAfter
    <2> QED  BY <1>3, <1>4, <1>5, <1>6, <2>1 DEF Past
  <1>7. CASE sb # lb
    <2>1. LoopFor(prog.g, sb) = LoopFor(prog.g, lb) /\ Dominates(succ, lb, sb)
      BY <1>1, <1>7 DEF PlacedAfter
    <2>2. sb \in Region(succ, succ[sb], lb)
      BY <1>3, <1>4, <1>5, <1>7 DEF Past
    <2>3. succ \in Graphs /\ sb \in Reached(succ)
      BY <1>1, <1>3, Here DEF Graphs, OnceInv
    <2>4. LoopFor(Analysed(succ), sb) = LoopFor(Analysed(succ), lb)
      BY <1>1, <2>1
    <2>5. Reducible(succ)
      OBVIOUS
    <2> HIDE DEF succ, lb, sb
    <2> QED  BY <1>5, <1>7, <2>1, <2>2, <2>3, <2>4, <2>5, SinkNeedsNewLoad
  <1> QED  BY <1>6, <1>7

(* A load that is poisoned and not owed after a step was so before it, or  *)
(* its check has just reported.                                            *)
LEMMA NotOwedBefore ==
    ASSUME OnceInv, running, Instruction \/ Branch,
           NEW l \in Loads, plan[l].loop = NoLoop, shadow'[l], l \notin owed'
    PROVE  /\ Past(l) \/ (blk = plan[l].pos[1] /\ idx = plan[l].pos[2])
           /\ Instruction => prog.at[l] # <<blk, idx>>
  <1>0. TypeOK
    BY DEF OnceInv
  <1>1. CASE Instruction
    <2>1. PICK poisoned \in SUBSET Loads : Execute(poisoned)
      BY <1>1 DEF Instruction
    <2>2. l \notin poisoned /\ (l \in owed => l \in Warned)
      BY <2>1 DEF Execute
    <2>3. prog.at[l] # <<blk, idx>>
      <3> SUFFICES ASSUME prog.at[l] = <<blk, idx>> PROVE FALSE
        OBVIOUS
      <3>1. shadow'[l] = (l \in poisoned)
        BY <2>1 DEF Execute
      <3> QED  BY <2>2, <3>1
    <2>4. shadow[l]
      BY <2>1, <2>3 DEF Execute
    <2>5. l \in Warned => plan[l].pos = <<blk, idx>>
      BY DEF Warned
    <2> QED  BY <2>2, <2>3, <2>4, <2>5 DEF OnceInv, ReportedIsPast
  <1>2. CASE Branch
    <2>1. shadow[l] /\ (l \in owed => l \in Warned)
      BY <1>2 DEF Branch
    <2>2. l \in Warned => plan[l].pos = <<blk, idx>>
      BY DEF Warned
    <2>3. ~Instruction
      BY <1>2 DEF Branch, Instruction
    <2> QED  BY <2>1, <2>2, <2>3 DEF OnceInv, ReportedIsPast
  <1> QED  BY <1>1, <1>2

LEMMA InstructionPast ==
    ASSUME OnceInv, Instruction, NEW l \in Loads, plan[l].loop = NoLoop, shadow'[l], l \notin owed'
    PROVE  Past(l)'
  <1> DEFINE lb == prog.at[l][1]  li == prog.at[l][2]
             sb == plan[l].pos[1] si == plan[l].pos[2]
  <1>1. running /\ prog' = prog /\ plan' = plan /\ blk' = blk /\ idx' = idx + 1
    BY DEF Instruction
  <1>2. /\ Past(l) \/ (blk = sb /\ idx = si)
        /\ prog.at[l] # <<blk, idx>>
    BY <1>1, NotOwedBefore
  <1>3. TypeOK
    BY DEF OnceInv
  <1>4. ~(blk = lb /\ idx = li) /\ li \in Nat /\ si \in Nat /\ idx \in Nat
    BY <1>2, <1>3, Here
  <1>5. CASE sb = lb
    BY <1>1, <1>2, <1>4, <1>5 DEF Past
  <1>6. CASE sb # lb
    BY <1>1, <1>2, <1>4, <1>6 DEF Past
  <1> QED  BY <1>5, <1>6

LEMMA BranchPast ==
    ASSUME OnceInv, Branch, NEW l \in Loads, plan[l].loop = NoLoop, shadow'[l], l \notin owed'
    PROVE  Past(l)'
  <1> DEFINE lb == prog.at[l][1]  li == prog.at[l][2]
             sb == plan[l].pos[1] si == plan[l].pos[2]
  <1>1. /\ running /\ prog' = prog /\ plan' = plan /\ idx' = 1
        /\ blk' \in prog.g.succ[blk] /\ idx = Len(prog.code[blk]) + 1
    BY DEF Branch, AtTerminator
  <1>2. Past(l) \/ (blk = sb /\ idx = si)
    BY <1>1, NotOwedBefore
  <1>3. TypeOK
    BY DEF OnceInv
  <1>4. /\ li \in Nat /\ si \in Nat /\ idx \in Nat /\ blk' \in Blocks
        /\ blk = lb => li < idx
    BY <1>1, <1>3, Here
  <1>5. li >= 1
    BY <1>3, LoadIsNoBarrier DEF TypeOK
  <1>6. CASE sb = lb
    BY <1>1, <1>4, <1>5, <1>6 DEF Past
  <1>7. CASE sb # lb
    <2>1. blk = sb \/ blk \in Region(prog.g.succ, prog.g.succ[sb], lb)
      BY <1>2, <1>4, <1>7 DEF Past
    <2>2. CASE blk' = lb
      BY <1>1, <1>4, <1>5, <1>7, <2>2 DEF Past
    <2>3. CASE blk' # lb
      <3>1. blk' \in Region(prog.g.succ, prog.g.succ[sb], lb)
        BY <1>1, <1>4, <2>1, <2>3, RegionStart, RegionClosed
      <3> QED  BY <1>1, <1>7, <3>1 DEF Past
    <2> QED  BY <2>2, <2>3
  <1> QED  BY <1>6, <1>7

LEMMA StepOnce == OnceInv /\ [Next]_vars => OnceInv'
  <1> SUFFICES ASSUME OnceInv, [Next]_vars PROVE OnceInv'
    OBVIOUS
  <1>1. TypeOK /\ TypeOK'
    BY TypeStep DEF OnceInv
  <1>2. prog' = prog /\ plan' = plan /\ mode' = mode
    BY DEF Next, Instruction, Branch, Leave, vars
  <1>3. \A l \in Loads : /\ PlacedAfter(prog, l, plan[l])'
                         /\ mode' # "loop" => plan'[l].loop = NoLoop
    BY <1>2 DEF OnceInv, PlacedAfter
  <1>4. blk' \in Reached(prog.g.succ)
    <2>1. blk' = blk \/ blk' \in prog.g.succ[blk]
      BY DEF Next, Instruction, Branch, Leave, vars
    <2>2. prog.g.succ \in Graphs
      BY <1>1, Here DEF Graphs
    <2> QED  BY <2>1, <2>2, ReachedStep DEF OnceInv
  <1>5. running' => ReportedIsPast'
    <2>1. CASE Instruction
      BY <1>2, <2>1, InstructionPast DEF ReportedIsPast
    <2>2. CASE Branch
      BY <1>2, <2>2, BranchPast DEF ReportedIsPast
    <2>3. CASE Leave
      BY <2>3 DEF Leave
    <2>4. CASE UNCHANGED vars
      BY <2>4 DEF vars, OnceInv, ReportedIsPast, Past
    <2> QED  BY <2>1, <2>2, <2>3, <2>4 DEF Next
  <1>6. (prog.g = Analysed(prog.g.succ))'
    BY <1>2 DEF OnceInv
  <1> QED  BY <1>1, <1>2, <1>3, <1>4, <1>5, <1>6 DEF OnceInv

(* A check that findSinkFor deferred, materialized at its sink or at the   *)
(* end of its segment, warns only of what was read since its last warning, *)
(* for every reducible control-flow graph, with barriers respected or not. *)
THEOREM WarnedOncePerRead == Spec => []OneWarningPerRead
  <1>1. Init => OnceInv
    BY InitOnce
  <1>2. OnceInv /\ [Next]_vars => OnceInv'
    BY StepOnce
  <1>3. OnceInv => OneWarningPerRead
    BY WarnedIsOwed DEF OneWarningPerRead
  <1> QED  BY <1>1, <1>2, <1>3, PTL DEF Spec

-----------------------------------------------------------------------------
(* What the exception of ReportedBeforeLeaving amounts to.                 *)

(* A read that findSinkFor's deferral loses is one of a load in a loop.    *)
LossOnlyInLoops ==
    ~running /\ Reducible(prog.g.succ)
      => \A l \in owed : \E h \in Blocks : prog.at[l][1] \in Body(prog.g, h)

LEMMA ContinueAroundLoops ==
    ASSUME OnceInv, Reducible(prog.g.succ), NEW l \in Loads, ContinueAround(l)
    PROVE  \E h \in Blocks : prog.at[l][1] \in Body(prog.g, h)
  <1> DEFINE lb == prog.at[l][1]  sb == plan[l].pos[1]  succ == prog.g.succ
  <1>1. /\ TypeOK /\ prog.g = Analysed(succ) /\ lb # sb
        /\ lb \in Region(succ, succ[lb], sb)
    BY DEF OnceInv, ContinueAround, Between
  <1>2. lb \in Blocks /\ succ \in Graphs /\ Reducible(succ)
    BY <1>1, Here DEF Graphs
  <1> HIDE DEF succ, lb, sb
  <1>3. lb \in Around(succ, lb, sb)
    BY <1>1, <1>2, RegionStart DEF Around
  <1>4. PICK h \in Around(succ, lb, sb) : InLoop(succ, h, lb)
    BY <1>1, <1>2, <1>3, AroundLoop
  <1>5. h \in Blocks /\ lb \in LoopBody(succ, h)
    BY <1>2, <1>4, AroundBlock, LoopBodyMeans
  <1>6. <<h, lb>> \in prog.g.loops
    BY <1>1, <1>2, <1>5 DEF Analysed
  <1> QED  BY <1>2, <1>5, <1>6 DEF Body, lb

(* Deferring the check of a load outside every loop never loses a read of  *)
(* poison, in a reducible graph and with barriers respected: what remains  *)
(* owed when the function is left was read by a load inside a loop.        *)
THEOREM OnlyLoopsLoseReads == ~SinkPastBarriers => (Spec => []LossOnlyInLoops)
  <1> SUFFICES ASSUME ~SinkPastBarriers PROVE Spec => []LossOnlyInLoops
    OBVIOUS
  <1>1. Init => Inv /\ OnceInv
    BY InitInv, InitOnce
  <1>2. Inv /\ OnceInv /\ [Next]_vars => (Inv /\ OnceInv)'
    BY StepInv, StepOnce
  <1>3. Inv /\ OnceInv => LossOnlyInLoops
    <2> SUFFICES ASSUME Inv, OnceInv, ~running, Reducible(prog.g.succ), NEW l \in owed
                 PROVE  \E h \in Blocks : prog.at[l][1] \in Body(prog.g, h)
      BY DEF LossOnlyInLoops
    <2>1. l \in Loads /\ ContinueAround(l)
      BY DEF Inv, TypeOK
    <2> QED  BY <2>1, ContinueAroundLoops
  <1> QED  BY <1>1, <1>2, <1>3, PTL DEF Spec
=============================================================================
