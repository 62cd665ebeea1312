--------------------------- MODULE FeedbackMap_proofs ---------------------------
(***************************************************************************)
(* Theorems about the violation map, for every number of threads, map size *)
(* and hash.                                                               *)
(***************************************************************************)
EXTENDS FeedbackMap, FiniteSetTheorems, TLAPS

USE MapAssumption, ThreadAssumption, ModeAssumption DEF Regs

\* Every index the code takes modulo MAP_SIZE is a slot.
LEMMA SlotsOfRecords ==
  /\ Sentinel \in Slots /\ 0 \in Slots
  /\ \A v \in Viol : PcSlot(v) \in Slots /\ HashOf[v] % MapSize \in Slots
BY DEF Sentinel, Slots, PcSlot

LEMMA OrSlotInSlots ==
  ASSUME TypeOK, NEW t \in Threads, pc[t] \in Scanned
  PROVE  OrSlot(t) \in Slots
<1>1. viol[t] \in Viol
  BY DEF TypeOK, Scanned
<1> QED BY <1>1, SlotsOfRecords DEF TypeOK, OrSlot, Scanned

--------------------------------------------------------------------------------
(* Type correctness, one lemma per group of actions.                        *)

LEMMA TypeInit == Init => TypeOK
BY SlotsOfRecords DEF Init, Attach, TypeOK, Bits, Labels, Scanned

LEMMA TypeNewChild ==
  ASSUME TypeOK, NewChild
  PROVE  /\ pc' \in [Threads -> Labels]
         /\ viol' \in [Threads -> Viol \cup {NoViol}]
         /\ \A t \in Threads : pc'[t] # "ready" => viol'[t] \in Viol
         /\ held' \in [Threads -> (SUBSET Bits) \cup {NoByte}]
         /\ csIdx' \in [Threads -> Slots] /\ edgeIdx' \in [Threads -> Slots]
         /\ last_edge' \in Regs /\ last_cs_edge' \in Regs
BY SlotsOfRecords DEF NewChild, TypeOK, Labels

LEMMA TypeStep ==
  ASSUME TypeOK, NEW t \in Threads, Step(t)
  PROVE  TypeOK'
<1>1. CASE \E v \in Viol : Fire(t, v)
  BY <1>1 DEF Fire, TypeOK, aflVars, Labels, Scanned
<1>2. CASE \E v \in Viol : FireKnown(t, v)
  <2>1. CASE HaltOnError
    BY <1>2, <2>1, TypeNewChild DEF FireKnown, ChildDies, TypeOK, aflVars
  <2>2. CASE ~HaltOnError
    BY <1>2, <2>2 DEF FireKnown, TypeOK, aflVars, childVars
  <2> QED BY <2>1, <2>2
<1>3. CASE ReadCsEdge(t)
  <2>1. EdgeIdx(last_cs_edge, HashOf[viol[t]]) \in Slots
    BY <1>3 DEF ReadCsEdge, TypeOK
  <2> QED BY <1>3, <2>1 DEF ReadCsEdge, TypeOK, aflVars, Labels
<1>4. CASE WriteCsEdge(t)
  BY <1>4 DEF WriteCsEdge, TypeOK, aflVars, Labels, Scanned
<1>5. CASE ReadEdge(t)
  <2>1. EdgeIdx(last_edge, PcOf[viol[t]]) \in Slots
    BY <1>5 DEF ReadEdge, TypeOK
  <2> QED BY <1>5, <2>1 DEF ReadEdge, TypeOK, aflVars, Labels, Scanned
<1>6. CASE WriteEdge(t)
  BY <1>6 DEF WriteEdge, TypeOK, aflVars, Labels, Scanned
<1>7. CASE LoadByte(t)
  <2>1. map[OrSlot(t)] \in SUBSET Bits
    BY <1>7, OrSlotInSlots DEF LoadByte, TypeOK
  <2> QED BY <1>7, <2>1 DEF LoadByte, TypeOK, aflVars
<1>8. CASE StoreByte(t)
  <2>1. OrSlot(t) \in Slots /\ pc[t] \in Scanned /\ viol[t] \in Viol
    BY <1>8, OrSlotInSlots DEF StoreByte, TypeOK, Scanned
  <2>2. held[t] \cup {pc[t]} \in SUBSET Bits
    BY <1>8, <2>1 DEF StoreByte, TypeOK, Scanned, Bits
  <2>3. map' \in [Slots -> SUBSET Bits]
    BY <1>8, <2>1, <2>2 DEF StoreByte, TypeOK
  <2>4. fresh' \subseteq Slots \X Scanned
    BY <1>8, <2>1 DEF StoreByte, TypeOK
  <2>5. AfterOr[pc[t]] \in Labels
    BY <2>1 DEF AfterOr, Scanned, Labels
  <2>6. /\ pc' \in [Threads -> Labels]
        /\ \A u \in Threads : pc'[u] # "ready" => viol'[u] \in Viol
    BY <1>8, <2>1, <2>5 DEF StoreByte, TypeOK
  <2> QED BY <1>8, <2>3, <2>4, <2>6 DEF StoreByte, TypeOK, aflVars
<1>9. CASE MarkDirty(t)
  <2>1. map' \in [Slots -> SUBSET Bits] /\ fired' \subseteq Viol
    BY <1>9, SlotsOfRecords DEF MarkDirty, TypeOK, Scanned
  <2>2. CASE HaltOnError
    BY <1>9, <2>1, <2>2, TypeNewChild DEF MarkDirty, ChildDies, TypeOK, aflVars
  <2>3. CASE ~HaltOnError
    BY <1>9, <2>1, <2>3, SlotsOfRecords, SMTT(30)
       DEF MarkDirty, Return, TypeOK, aflVars, Labels
  <2> QED BY <2>2, <2>3
<1> QED
  BY <1>1, <1>2, <1>3, <1>4, <1>5, <1>6, <1>7, <1>8, <1>9 DEF Step

LEMMA TypeExecution ==
  ASSUME TypeOK, StartRun \/ EndRun \/ Interrupt \/ Check
  PROVE  TypeOK'
<1>1. CASE StartRun
  BY <1>1 DEF StartRun, TypeOK, aflVars, childVars
<1>2. CASE EndRun
  <2>1. CASE ChildDies
    BY <1>2, <2>1, TypeNewChild DEF EndRun, ChildDies, TypeOK, aflVars
  <2>2. CASE UNCHANGED childVars /\ phase' = "ended"
    BY <1>2, <2>2 DEF EndRun, TypeOK, aflVars, childVars
  <2> QED BY <1>2, <2>1, <2>2 DEF EndRun
<1>3. CASE Interrupt
  BY <1>3, TypeNewChild DEF Interrupt, ChildDies, TypeOK, aflVars
<1>4. CASE CheckBugs
  <2>1. traces' \in [Slots -> SUBSET Scanned]
    BY <1>4 DEF CheckBugs, NewBits, TypeOK
  <2>2. map' \in [Slots -> SUBSET Bits]
    BY <1>4, SlotsOfRecords DEF CheckBugs, TypeOK
  <2>3. runs' \in Nat /\ crashes' \in Nat
    BY <1>4 DEF CheckBugs, TypeOK
  <2> QED BY <1>4, <2>1, <2>2, <2>3 DEF CheckBugs, TypeOK, childVars
<1>5. CASE CheckNothing
  BY <1>5 DEF CheckNothing, TypeOK, aflVars, childVars
<1> QED BY <1>1, <1>2, <1>3, <1>4, <1>5 DEF Check

LEMMA TypeStutter == TypeOK /\ UNCHANGED vars => TypeOK'
BY DEF TypeOK, vars

LEMMA TypeNext == TypeOK /\ [Next]_vars => TypeOK'
BY TypeStep, TypeExecution, TypeStutter DEF Next

\* The state keeps its types; in particular no index of the map is ever out of
\* its bounds, and msan_traces only ever holds bits that are scanned for.
THEOREM TypeCorrect == Spec => []TypeOK
BY TypeInit, TypeNext, PTL DEF Spec

--------------------------------------------------------------------------------
(* Without the persistent loop, what afl-fuzz has folded stays in the map.  *)
(* The byte a thread has loaded may be stale, but it was loaded in this     *)
(* execution, after the last fold, so it has every bit that was folded.     *)

HeldCoversSeen ==
  \A t \in Threads : held[t] # NoByte =>
    /\ phase = "running" /\ pc[t] \in Scanned
    /\ traces[OrSlot(t)] \subseteq held[t]

SeenInv == /\ TypeOK
           /\ SeenIsReported
           /\ traces[Sentinel] = {}
           /\ HeldCoversSeen

LEMMA SeenInit == Init => SeenInv
BY TypeInit, SlotsOfRecords
   DEF Init, SeenInv, SeenIsReported, HeldCoversSeen, NoByte

\* A step of one thread leaves what another one is doing alone.
LEMMA SeenStep ==
  ASSUME SeenInv, NEW t \in Threads, Step(t)
  PROVE  SeenInv'
<1>1. TypeOK /\ TypeOK'
  BY TypeStep DEF SeenInv
<1>2. traces' = traces
  BY DEF Step, Fire, FireKnown, ReadCsEdge, WriteCsEdge, ReadEdge, WriteEdge,
         LoadByte, StoreByte, MarkDirty, aflVars
<1>3. traces'[Sentinel] = {}
  BY <1>2 DEF SeenInv
<1>4. CASE \E v \in Viol : FireKnown(t, v)
  <2>1. SeenIsReported'
    BY <1>2, <1>4 DEF SeenInv, SeenIsReported, FireKnown
  <2>2. HeldCoversSeen'
    <3>1. CASE HaltOnError
      BY <1>4, <3>1 DEF FireKnown, ChildDies, NewChild, HeldCoversSeen
    <3>2. CASE ~HaltOnError
      BY <1>4, <3>2 DEF FireKnown, childVars, aflVars, HeldCoversSeen, OrSlot,
                        SeenInv
    <3> QED BY <3>1, <3>2
  <2> QED BY <1>1, <1>3, <2>1, <2>2 DEF SeenInv
<1>5. CASE MarkDirty(t)
  <2>1. SeenIsReported'
    BY <1>1, <1>2, <1>3, <1>5, SlotsOfRecords
       DEF SeenInv, SeenIsReported, MarkDirty, TypeOK
  <2>2. HeldCoversSeen'
    <3>1. CASE HaltOnError
      BY <1>5, <3>1 DEF MarkDirty, ChildDies, NewChild, HeldCoversSeen
    <3>2. CASE ~HaltOnError
      <4> SUFFICES ASSUME NEW u \in Threads, held'[u] # NoByte
                   PROVE  /\ phase' = "running" /\ pc'[u] \in Scanned
                          /\ traces'[OrSlot(u)'] \subseteq held'[u]
        BY DEF HeldCoversSeen
      <4>1. held' = held /\ phase' = phase
        BY <1>5, <3>2 DEF MarkDirty, Return
      <4>2. u # t
        BY <1>5, <4>1 DEF MarkDirty, SeenInv, HeldCoversSeen, Scanned
      <4>3. /\ pc'[u] = pc[u] /\ viol'[u] = viol[u]
            /\ csIdx'[u] = csIdx[u] /\ edgeIdx'[u] = edgeIdx[u]
        BY <1>1, <1>5, <3>2, <4>2 DEF MarkDirty, Return, TypeOK
      <4>4. OrSlot(u)' = OrSlot(u)
        BY <4>3 DEF OrSlot
      <4> QED BY <1>2, <4>1, <4>3, <4>4 DEF SeenInv, HeldCoversSeen
    <3> QED BY <3>1, <3>2
  <2> QED BY <1>1, <1>3, <2>1, <2>2 DEF SeenInv
<1>6. CASE \/ \E v \in Viol : Fire(t, v)
           \/ ReadCsEdge(t) \/ WriteCsEdge(t) \/ ReadEdge(t) \/ WriteEdge(t)
           \/ LoadByte(t) \/ StoreByte(t)
  <2>1. phase = "running" /\ phase' = phase
    BY <1>6 DEF Fire, ReadCsEdge, WriteCsEdge, ReadEdge, WriteEdge,
                LoadByte, StoreByte
  <2>2. SeenIsReported'
    <3>1. CASE StoreByte(t)
      BY <1>1, <1>2, <3>1, OrSlotInSlots
         DEF SeenInv, SeenIsReported, HeldCoversSeen, StoreByte, TypeOK
    <3>2. CASE UNCHANGED map
      BY <1>2, <3>2 DEF SeenInv, SeenIsReported
    <3> QED BY <1>6, <3>1, <3>2 DEF Fire, ReadCsEdge, WriteCsEdge, ReadEdge,
                                    WriteEdge, LoadByte
  <2>3. HeldCoversSeen'
    <3> SUFFICES ASSUME NEW u \in Threads, held'[u] # NoByte
                 PROVE  /\ pc'[u] \in Scanned
                        /\ traces'[OrSlot(u)'] \subseteq held'[u]
      BY <2>1 DEF HeldCoversSeen
    <3>1. CASE u = t
      <4>1. CASE LoadByte(t)
        <5>1. OrSlot(u)' = OrSlot(u)
          BY <4>1 DEF LoadByte, OrSlot
        <5>2. held'[u] = map[OrSlot(u)]
          BY <1>1, <3>1, <4>1 DEF LoadByte, TypeOK
        <5>3. pc'[u] = pc[u] /\ pc[u] \in Scanned
          BY <3>1, <4>1 DEF LoadByte
        <5> QED BY <1>1, <1>2, <5>1, <5>2, <5>3, OrSlotInSlots
               DEF SeenInv, SeenIsReported
      <4>2. CASE \/ \E v \in Viol : Fire(t, v)
                 \/ ReadCsEdge(t) \/ WriteCsEdge(t)
                 \/ ReadEdge(t) \/ WriteEdge(t)
        <5>1. held' = held /\ pc[t] \notin Scanned
          BY <4>2 DEF Fire, ReadCsEdge, WriteCsEdge, ReadEdge, WriteEdge, Scanned
        <5> QED BY <3>1, <5>1 DEF SeenInv, HeldCoversSeen
      <4>3. CASE StoreByte(t)
        BY <1>1, <3>1, <4>3 DEF StoreByte, TypeOK
      <4> QED BY <1>6, <4>1, <4>2, <4>3
    <3>2. CASE u # t
      <4>1. /\ pc'[u] = pc[u] /\ viol'[u] = viol[u] /\ held'[u] = held[u]
            /\ csIdx'[u] = csIdx[u] /\ edgeIdx'[u] = edgeIdx[u]
        BY <1>1, <1>6, <3>2
           DEF Fire, ReadCsEdge, WriteCsEdge, ReadEdge, WriteEdge,
               LoadByte, StoreByte, TypeOK
      <4>2. OrSlot(u)' = OrSlot(u)
        BY <4>1 DEF OrSlot
      <4> QED BY <1>2, <4>1, <4>2 DEF SeenInv, HeldCoversSeen
    <3> QED BY <3>1, <3>2
  <2> QED BY <1>1, <1>3, <2>2, <2>3 DEF SeenInv
<1> QED BY <1>4, <1>5, <1>6 DEF Step

\* The fold itself happens when no thread holds a byte.
LEMMA SeenExecution ==
  ASSUME ~Persistent, SeenInv, StartRun \/ EndRun \/ Interrupt \/ Check
  PROVE  SeenInv'
<1>1. TypeOK /\ TypeOK'
  BY TypeExecution DEF SeenInv
<1>2. CASE StartRun
  BY <1>1, <1>2 DEF StartRun, SeenInv, SeenIsReported, HeldCoversSeen, OrSlot,
                    aflVars, childVars
<1>3. CASE EndRun \/ Interrupt
  <2>1. ChildDies /\ UNCHANGED <<map, traces>>
    BY <1>3 DEF EndRun, Interrupt, aflVars
  <2> QED BY <1>1, <2>1 DEF ChildDies, NewChild, SeenInv, SeenIsReported,
                            HeldCoversSeen
<1>4. CASE CheckBugs
  <2>1. \A t \in Threads : held[t] = NoByte
    BY <1>4 DEF CheckBugs, SeenInv, HeldCoversSeen
  <2>2. HeldCoversSeen'
    BY <1>4, <2>1 DEF CheckBugs, childVars, HeldCoversSeen
  <2>3. traces'[Sentinel] = {}
    BY <1>4, SlotsOfRecords DEF CheckBugs, NewBits, SeenInv
  <2>4. ASSUME NEW i \in Slots, i # Sentinel
        PROVE  traces'[i] \subseteq map'[i]
    BY <1>1, <1>4, <2>4 DEF CheckBugs, NewBits, SeenInv, SeenIsReported, TypeOK
  <2>5. SeenIsReported'
    BY <2>3, <2>4 DEF SeenIsReported
  <2> QED BY <1>1, <2>2, <2>3, <2>5 DEF SeenInv
<1>5. CASE CheckNothing
  BY <1>1, <1>5 DEF CheckNothing, SeenInv, SeenIsReported, HeldCoversSeen,
                    OrSlot, aflVars, childVars
<1> QED BY <1>2, <1>3, <1>4, <1>5 DEF Check

LEMMA SeenStutter == SeenInv /\ UNCHANGED vars => SeenInv'
BY TypeStutter DEF SeenInv, SeenIsReported, HeldCoversSeen, OrSlot, vars

\* In a target without the persistent loop no thread, however it is scheduled
\* and wherever it is killed, takes back a bit that afl-fuzz has folded: the
\* subset relation that the early return of check_msan_trace relies on.
THEOREM SeenStaysReported ==
  ASSUME ~Persistent
  PROVE  Spec => []SeenIsReported
<1>1. SeenInv /\ [Next]_vars => SeenInv'
  BY SeenStep, SeenExecution, SeenStutter DEF Next
<1>2. SeenInv => SeenIsReported
  BY DEF SeenInv
<1> QED BY <1>1, <1>2, SeenInit, PTL DEF Spec

--------------------------------------------------------------------------------
(* The map and its fold implement the log.                                  *)

LEMMA LogInit == Init => Log!Init
BY DEF Init, Log!Init, SeenPairs

\* Only the fold touches what the log sees.
LEMMA LogStep == TypeOK /\ [Next]_vars => [Log!Next]_Log!vars
<1> SUFFICES ASSUME TypeOK, [Next]_vars PROVE [Log!Next]_Log!vars
  OBVIOUS
<1>1. CASE UNCHANGED aflVars
  BY <1>1 DEF aflVars, Log!vars, SeenPairs
<1>2. CASE CheckBugs
  <2>1. TypeOK'
    BY TypeNext
  <2>2. CASE HeavyweightNeeded
    <3>1. SeenPairs' \in SUBSET (Slots \X Scanned)
      BY DEF SeenPairs
    <3>2. ASSUME NEW i \in Slots
          PROVE  traces'[i] = traces[i] \cup NewBits(i)
      BY <1>2, <2>2 DEF CheckBugs, HeavyweightNeeded
    <3>3. SeenPairs \subseteq SeenPairs'
      BY <3>2 DEF SeenPairs
    <3>4. PICK i \in Slots : NewBits(i) # {}
      BY <2>2 DEF HeavyweightNeeded
    <3>5. PICK b : b \in NewBits(i)
      BY <3>4
    <3>6. b \in Scanned /\ b \notin traces[i]
      BY <3>5 DEF NewBits
    <3>7. <<i, b>> \in SeenPairs' /\ <<i, b>> \notin SeenPairs
      BY <3>2, <3>5, <3>6 DEF SeenPairs
    <3>8. Log!Submit
      BY <1>2, <2>2, <3>1, <3>3, <3>7 DEF CheckBugs, Log!Submit
    <3> QED BY <3>8 DEF Log!Next
  <2>3. CASE ~HeavyweightNeeded
    <3>1. \A i \in Slots : traces'[i] = traces[i]
      BY <1>2, <2>3 DEF CheckBugs, HeavyweightNeeded
    <3> QED BY <1>2, <2>3, <3>1 DEF CheckBugs, Log!vars, SeenPairs
  <2> QED BY <2>2, <2>3
<1> QED
  BY <1>1, <1>2
     DEF Next, Step, Fire, FireKnown, ReadCsEdge, WriteCsEdge, ReadEdge,
         WriteEdge, LoadByte, StoreByte, MarkDirty, StartRun, EndRun,
         Interrupt, Check, CheckNothing, vars, aflVars

\* In every mode, with any threads: an accurate run happens only in a fold
\* that brings new bits, which enter msan_traces with it, and none leaves.
THEOREM MapImplementsLog == Spec => LogSpec
BY LogInit, LogStep, TypeCorrect, PTL DEF Spec, LogSpec, Log!Spec

LEMMA FiniteLog == IsFiniteSet(Slots \X Scanned)
<1>1. IsFiniteSet(Slots)
  BY FS_Interval DEF Slots
<1>2. IsFiniteSet(Scanned)
  <2>1. Scanned = (({"ERROR"} \cup {"PC_EDGE"}) \cup {"CS"}) \cup {"CS_EDGE"}
    BY DEF Scanned
  <2>2. IsFiniteSet({"ERROR"} \cup {"PC_EDGE"})
    BY FS_Singleton, FS_AddElement
  <2>3. IsFiniteSet(({"ERROR"} \cup {"PC_EDGE"}) \cup {"CS"})
    BY <2>2, FS_AddElement
  <2> QED BY <2>1, <2>3, FS_AddElement
<1> QED BY <1>1, <1>2, FS_Product

\* A set that grows gains at least one element.
LEMMA GrowthPays ==
  ASSUME NEW S, NEW T, IsFiniteSet(T), S \subseteq T, S # T
  PROVE  /\ Cardinality(S) \in Nat /\ Cardinality(T) \in Nat
         /\ Cardinality(S) + 1 <= Cardinality(T)
<1>1. /\ IsFiniteSet(S)
      /\ Cardinality(S) <= Cardinality(T) /\ Cardinality(S) # Cardinality(T)
  BY FS_Subset
<1>2. Cardinality(S) \in Nat /\ Cardinality(T) \in Nat
  BY <1>1, FS_CardinalityType
<1> QED BY <1>1, <1>2

LEMMA PaidNext ==
  ASSUME TypeOK, RunsPaidFor, [Next]_vars
  PROVE  RunsPaidFor'
<1>1. [Log!Next]_Log!vars
  BY LogStep
<1>2. CASE Log!Submit
  <2>1. IsFiniteSet(SeenPairs')
    BY <1>2, FiniteLog, FS_Subset DEF Log!Submit
  <2>2. /\ Cardinality(SeenPairs) \in Nat /\ Cardinality(SeenPairs') \in Nat
        /\ Cardinality(SeenPairs) + 1 <= Cardinality(SeenPairs')
    BY <1>2, <2>1, GrowthPays DEF Log!Submit
  <2>3. runs' = runs + 1 /\ crashes' \in {crashes, crashes + 1}
    BY <1>2 DEF Log!Submit
  <2> QED BY <2>2, <2>3 DEF TypeOK, RunsPaidFor
<1>3. CASE UNCHANGED <<SeenPairs, runs, crashes>>
  BY <1>3 DEF RunsPaidFor
<1> QED BY <1>1, <1>2, <1>3 DEF Log!Next, Log!vars

\* A campaign never makes more accurate runs than there are (slot, bit) pairs
\* in msan_traces, and confirms at most one finding per run.
THEOREM AccurateRunsArePaidFor == Spec => []RunsPaidFor
<1>1. Init => RunsPaidFor
  <2> SUFFICES ASSUME Init PROVE RunsPaidFor
    OBVIOUS
  <2>1. SeenPairs = {} /\ runs = 0 /\ crashes = 0
    BY DEF Init, SeenPairs
  <2>2. Cardinality(SeenPairs) = 0
    BY <2>1, FS_EmptySet
  <2> QED BY <2>1, <2>2 DEF RunsPaidFor
<1>2. TypeOK /\ RunsPaidFor /\ [Next]_vars => RunsPaidFor'
  BY PaidNext
<1> QED BY <1>1, <1>2, TypeCorrect, PTL DEF Spec

--------------------------------------------------------------------------------
(* One thread: the |= loses nothing, so a violation that was recorded is on *)
(* the map until it is folded, and the sentinel tells afl-fuzz to fold.     *)

HeldIsCurrent ==
  held[Main] # NoByte => /\ phase = "running" /\ pc[Main] \in Scanned
                         /\ held[Main] = map[OrSlot(Main)]

AfterError == {"edge_rd", "PC_EDGE", "edge_wr", "CS", "CS_EDGE", "mark"}

ErrorStored ==
  pc[Main] \in AfterError /\ PcSlot(viol[Main]) # Sentinel
    => "ERROR" \in map[PcSlot(viol[Main])]

SentinelRaised == fired # {} /\ phase # "idle" => map[Sentinel] # {}

OneThreadInv == /\ TypeOK /\ HeldIsCurrent /\ ErrorStored
                /\ RecordedOnMap /\ SentinelRaised /\ CompletedIsSeen

LEMMA OneThreadInit == Init => OneThreadInv
BY TypeInit DEF Init, OneThreadInv, HeldIsCurrent, ErrorStored, AfterError, RecordedOnMap,
                SentinelRaised, CompletedIsSeen

\* A new child starts with nothing loaded and nothing in progress.
LEMMA NewChildIdle ==
  ASSUME NewChild PROVE HeldIsCurrent' /\ ErrorStored'
BY DEF NewChild, HeldIsCurrent, ErrorStored, AfterError

LEMMA OneThreadStep ==
  ASSUME Threads = {Main}, OneThreadInv, Step(Main)
  PROVE  OneThreadInv'
<1>1. TypeOK /\ TypeOK'
  BY TypeStep DEF OneThreadInv
<1>2. phase = "running" /\ phase' # "idle" /\ traces' = traces
  BY DEF Step, Fire, FireKnown, ReadCsEdge, WriteCsEdge, ReadEdge, WriteEdge,
         LoadByte, StoreByte, MarkDirty, aflVars, ChildDies, Return
<1>3. CompletedIsSeen'
  BY <1>2 DEF CompletedIsSeen
<1>4. CASE \E v \in Viol : FireKnown(Main, v)
  <2>1. UNCHANGED <<map, fired>>
    BY <1>4 DEF FireKnown
  <2>2. RecordedOnMap' /\ SentinelRaised'
    BY <1>2, <2>1 DEF OneThreadInv, RecordedOnMap, SentinelRaised
  <2>3. HeldIsCurrent' /\ ErrorStored'
    <3>1. CASE HaltOnError
      BY <1>4, <3>1, NewChildIdle DEF FireKnown, ChildDies
    <3>2. CASE ~HaltOnError
      <4>1. UNCHANGED <<pc, viol, held, csIdx, edgeIdx, map, phase>>
        BY <1>4, <3>2 DEF FireKnown, childVars
      <4>2. OrSlot(Main)' = OrSlot(Main)
        BY <4>1 DEF OrSlot
      <4> QED BY <4>1, <4>2 DEF OneThreadInv, HeldIsCurrent, ErrorStored, AfterError
    <3> QED BY <3>1, <3>2
  <2> QED BY <1>1, <1>3, <2>2, <2>3 DEF OneThreadInv
<1>5. CASE \/ \E v \in Viol : Fire(Main, v)
           \/ ReadCsEdge(Main) \/ WriteCsEdge(Main)
           \/ ReadEdge(Main) \/ WriteEdge(Main)
  <2>1. UNCHANGED <<map, fired, held, phase>>
    BY <1>5 DEF Fire, ReadCsEdge, WriteCsEdge, ReadEdge, WriteEdge
  <2>2. RecordedOnMap' /\ SentinelRaised'
    BY <1>2, <2>1 DEF OneThreadInv, RecordedOnMap, SentinelRaised
  <2>3. held'[Main] = NoByte
    BY <1>5, <2>1 DEF OneThreadInv, HeldIsCurrent, Fire, ReadCsEdge,
                      WriteCsEdge, ReadEdge, WriteEdge, Scanned
  <2>4. ErrorStored'
    <3>1. CASE \/ \E v \in Viol : Fire(Main, v)
               \/ ReadCsEdge(Main) \/ WriteCsEdge(Main)
      BY <1>1, <3>1 DEF Fire, ReadCsEdge, WriteCsEdge, ErrorStored, AfterError, TypeOK
    <3>2. CASE ReadEdge(Main) \/ WriteEdge(Main)
      BY <1>1, <2>1, <3>2 DEF ReadEdge, WriteEdge, OneThreadInv, ErrorStored, AfterError,
                              TypeOK
    <3> QED BY <1>5, <3>1, <3>2
  <2> QED BY <1>1, <1>3, <2>2, <2>3, <2>4 DEF OneThreadInv, HeldIsCurrent
<1>6. CASE LoadByte(Main)
  <2>1. UNCHANGED <<map, fired, pc, viol, csIdx, edgeIdx, phase>>
    BY <1>6 DEF LoadByte
  <2>2. OrSlot(Main)' = OrSlot(Main)
    BY <2>1 DEF OrSlot
  <2>3. HeldIsCurrent'
    BY <1>1, <1>6, <2>1, <2>2 DEF LoadByte, HeldIsCurrent, TypeOK
  <2>4. ErrorStored' /\ RecordedOnMap' /\ SentinelRaised'
    BY <2>1 DEF OneThreadInv, ErrorStored, AfterError, RecordedOnMap, SentinelRaised
  <2> QED BY <1>1, <1>3, <2>3, <2>4 DEF OneThreadInv
<1>7. CASE StoreByte(Main)
  <2>1. /\ OrSlot(Main) \in Slots /\ viol[Main] \in Viol
        /\ pc[Main] \in Scanned
    BY <1>1, <1>7, OrSlotInSlots DEF StoreByte, TypeOK, Scanned
  <2>2. map' = [map EXCEPT ![OrSlot(Main)] = map[OrSlot(Main)] \cup {pc[Main]}]
    BY <1>7 DEF StoreByte, OneThreadInv, HeldIsCurrent
  <2>3. \A i \in Slots : map[i] \subseteq map'[i]
    BY <1>1, <2>1, <2>2 DEF TypeOK
  <2>4. UNCHANGED <<fired, viol, phase>>
    BY <1>7 DEF StoreByte
  <2>5. HeldIsCurrent'
    BY <1>1, <1>7 DEF StoreByte, HeldIsCurrent, TypeOK
  <2>6. RecordedOnMap' /\ SentinelRaised'
    BY <1>1, <2>3, <2>4, SlotsOfRecords
       DEF OneThreadInv, RecordedOnMap, SentinelRaised, TypeOK
  <2>7. ErrorStored'
    <3>1. CASE pc[Main] = "ERROR"
      <4>1. "ERROR" \in map'[PcSlot(viol[Main])]
        BY <1>1, <2>1, <2>2, <3>1 DEF OrSlot, TypeOK
      <4> QED BY <2>4, <4>1 DEF ErrorStored, AfterError, PcSlot
    <3>2. CASE pc[Main] # "ERROR"
      BY <2>1, <2>3, <2>4, <3>2, SlotsOfRecords
         DEF OneThreadInv, ErrorStored, AfterError, Scanned, PcSlot
    <3> QED BY <3>1, <3>2
  <2> QED BY <1>1, <1>3, <2>5, <2>6, <2>7 DEF OneThreadInv
<1>8. CASE MarkDirty(Main)
  <2>1. /\ viol[Main] \in Viol /\ pc[Main] = "mark"
        /\ fired' = fired \cup {viol[Main]}
    BY <1>1, <1>8 DEF MarkDirty, TypeOK
  <2>2. map'[Sentinel] = Bits /\ \A i \in Slots : map[i] \subseteq map'[i]
    BY <1>1, <1>8, SlotsOfRecords DEF MarkDirty, TypeOK
  <2>3. RecordedOnMap'
    BY <1>1, <2>1, <2>2, SlotsOfRecords
       DEF OneThreadInv, ErrorStored, AfterError, RecordedOnMap, TypeOK, PcSlot
  <2>4. SentinelRaised'
    BY <2>2 DEF SentinelRaised, Bits
  <2>5. HeldIsCurrent' /\ ErrorStored'
    <3>1. CASE HaltOnError
      BY <1>8, <3>1, NewChildIdle DEF MarkDirty, ChildDies
    <3>2. CASE ~HaltOnError
      <4>1. held[Main] = NoByte
        BY <2>1 DEF OneThreadInv, HeldIsCurrent, Scanned
      <4> QED BY <1>1, <1>8, <3>2, <4>1
             DEF MarkDirty, Return, HeldIsCurrent, ErrorStored, AfterError, TypeOK
    <3> QED BY <3>1, <3>2
  <2> QED BY <1>1, <1>3, <2>3, <2>4, <2>5 DEF OneThreadInv
<1> QED BY <1>4, <1>5, <1>6, <1>7, <1>8 DEF Step

LEMMA OneThreadExecution ==
  ASSUME OneThreadInv, StartRun \/ EndRun \/ Interrupt \/ Check
  PROVE  OneThreadInv'
<1>1. TypeOK /\ TypeOK'
  BY TypeExecution DEF OneThreadInv
<1>2. CASE StartRun
  <2>1. UNCHANGED <<map, pc, viol, held, csIdx, edgeIdx>>
    BY <1>2 DEF StartRun, childVars
  <2>2. held[Main] = NoByte
    BY <1>2 DEF StartRun, OneThreadInv, HeldIsCurrent
  <2>3. HeldIsCurrent' /\ ErrorStored'
    BY <2>1, <2>2 DEF OneThreadInv, HeldIsCurrent, ErrorStored, AfterError
  <2>4. RecordedOnMap' /\ SentinelRaised' /\ CompletedIsSeen'
    BY <1>2 DEF StartRun, RecordedOnMap, SentinelRaised, CompletedIsSeen
  <2> QED BY <1>1, <2>3, <2>4 DEF OneThreadInv
<1>3. CASE EndRun \/ Interrupt
  <2>1. UNCHANGED <<map, fired>> /\ phase = "running" /\ phase' = "ended"
    BY <1>3 DEF EndRun, Interrupt, ChildDies
  <2>2. HeldIsCurrent' /\ ErrorStored'
    <3>1. CASE NewChild
      BY <3>1, NewChildIdle
    <3>2. CASE UNCHANGED childVars /\ pc[Main] = "ready"
      <4>1. held'[Main] = NoByte /\ pc'[Main] = "ready"
        BY <3>2 DEF OneThreadInv, HeldIsCurrent, Scanned, childVars
      <4> QED BY <4>1 DEF HeldIsCurrent, ErrorStored, AfterError
    <3> QED BY <1>3, <3>1, <3>2 DEF EndRun, Interrupt, ChildDies
  <2>3. RecordedOnMap' /\ SentinelRaised' /\ CompletedIsSeen'
    BY <2>1 DEF OneThreadInv, RecordedOnMap, SentinelRaised, CompletedIsSeen
  <2> QED BY <1>1, <2>2, <2>3 DEF OneThreadInv
<1>4. CASE Check
  <2>1. /\ phase = "ended" /\ phase' = "idle"
        /\ UNCHANGED <<pc, viol, held, fired>>
        /\ \A i \in Slots \ {Sentinel} : map'[i] = map[i]
    BY <1>1, <1>4, SlotsOfRecords
       DEF Check, CheckBugs, CheckNothing, childVars, TypeOK
  <2>2. HeldIsCurrent' /\ SentinelRaised'
    BY <2>1 DEF OneThreadInv, HeldIsCurrent, SentinelRaised
  <2>3. RecordedOnMap'
    BY <1>1, <2>1, SlotsOfRecords DEF OneThreadInv, RecordedOnMap, TypeOK
  <2>4. ErrorStored'
    <3>1. pc[Main] # "ready" => PcSlot(viol[Main]) \in Slots
      BY <1>1, SlotsOfRecords DEF TypeOK
    <3> QED BY <2>1, <3>1 DEF OneThreadInv, ErrorStored, AfterError, PcSlot
  <2>5. CompletedIsSeen'
    <3> SUFFICES ASSUME NEW v \in fired, PcSlot(v) # Sentinel
                 PROVE  "ERROR" \in traces'[PcSlot(v)]
      BY <2>1 DEF CompletedIsSeen
    <3>1. PcSlot(v) \in Slots /\ "ERROR" \in map[PcSlot(v)]
      BY <1>1, SlotsOfRecords DEF OneThreadInv, RecordedOnMap, TypeOK
    <3>2. CheckBugs
      BY <1>4, <2>1 DEF Check, CheckNothing, OneThreadInv, SentinelRaised
    <3>3. CASE MapUnchanged
      BY <3>1, <3>2, <3>3 DEF CheckBugs, MapUnchanged
    <3>4. CASE ~MapUnchanged
      BY <3>1, <3>2, <3>4 DEF CheckBugs, NewBits, Scanned
    <3> QED BY <3>3, <3>4
  <2> QED BY <1>1, <2>2, <2>3, <2>4, <2>5 DEF OneThreadInv
<1> QED BY <1>2, <1>3, <1>4

LEMMA OneThreadStutter == OneThreadInv /\ UNCHANGED vars => OneThreadInv'
BY TypeStutter DEF OneThreadInv, HeldIsCurrent, ErrorStored, AfterError, RecordedOnMap,
                   SentinelRaised, CompletedIsSeen, OrSlot, vars

\* In a target whose violations all come from one thread, whatever its mode
\* and wherever a timeout cuts it off, every violation it finished recording
\* is in msan_traces before the next input runs.
THEOREM CompletedViolationsAreSeen ==
  ASSUME Threads = {Main}
  PROVE  Spec => []CompletedIsSeen
<1>1. OneThreadInv /\ [Next]_vars => OneThreadInv'
  BY OneThreadStep, OneThreadExecution, OneThreadStutter DEF Next
<1>2. OneThreadInv => CompletedIsSeen
  BY DEF OneThreadInv
<1> QED BY <1>1, <1>2, OneThreadInit, PTL DEF Spec
--------------------------------------------------------------------------------
(* Any mode, any threads: an execution that finished recording a violation  *)
(* leaves the sentinel set.  A racing update of the sentinel's byte cannot  *)
(* clear it, since it sets a bit itself; so the fold that follows looks.    *)

FoldInv == TypeOK /\ SentinelRaised /\ FoldComplete

LEMMA FoldStep ==
  ASSUME FoldInv, NEW t \in Threads, Step(t)
  PROVE  SentinelRaised' /\ FoldComplete'
<1>1. phase = "running" /\ phase' \in {"running", "ended"}
  <2>1. CASE \E v \in Viol : Fire(t, v) \/ FireKnown(t, v)
    BY <2>1 DEF Fire, FireKnown, ChildDies
  <2>2. CASE ReadCsEdge(t) \/ WriteCsEdge(t) \/ ReadEdge(t) \/ WriteEdge(t)
    BY <2>2 DEF ReadCsEdge, WriteCsEdge, ReadEdge, WriteEdge
  <2>3. CASE LoadByte(t) \/ StoreByte(t) \/ MarkDirty(t)
    BY <2>3 DEF LoadByte, StoreByte, MarkDirty, ChildDies, Return
  <2> QED BY <2>1, <2>2, <2>3 DEF Step
<1>2. FoldComplete'
  BY <1>1 DEF FoldComplete
<1>3. CASE UNCHANGED <<map, fired>>
  BY <1>1, <1>2, <1>3 DEF FoldInv, SentinelRaised
<1>4. CASE StoreByte(t)
  <2>1. /\ map' = [map EXCEPT ![OrSlot(t)] = held[t] \cup {pc[t]}]
        /\ fired' = fired
    BY <1>4 DEF StoreByte
  <2>2. map'[Sentinel] = map[Sentinel] \/ pc[t] \in map'[Sentinel]
    BY <2>1, SlotsOfRecords DEF FoldInv, TypeOK
  <2> QED BY <1>1, <1>2, <2>1, <2>2 DEF FoldInv, SentinelRaised
<1>5. CASE MarkDirty(t)
  <2>1. map'[Sentinel] = Bits
    BY <1>5, SlotsOfRecords DEF MarkDirty, FoldInv, TypeOK
  <2>2. "ERROR" \in Bits
    BY DEF Bits
  <2> QED BY <1>2, <2>1, <2>2 DEF SentinelRaised
<1> QED BY <1>2, <1>3, <1>4, <1>5
        DEF Step, Fire, FireKnown, ReadCsEdge, WriteCsEdge, ReadEdge,
            WriteEdge, LoadByte

LEMMA FoldExecution ==
  ASSUME FoldInv, StartRun \/ EndRun \/ Interrupt \/ Check
  PROVE  SentinelRaised' /\ FoldComplete'
<1>1. CASE StartRun
  BY <1>1 DEF StartRun, SentinelRaised, FoldComplete
<1>2. CASE EndRun \/ Interrupt
  BY <1>2 DEF EndRun, Interrupt, ChildDies, FoldInv, SentinelRaised, FoldComplete
<1>3. CASE CheckNothing
  <2>1. fired = {} /\ fired' = {}
    BY <1>3 DEF CheckNothing, FoldInv, SentinelRaised
  <2> QED BY <2>1 DEF SentinelRaised, FoldComplete
<1>4. CASE CheckBugs
  <2>1. phase' = "idle"
    BY <1>4 DEF CheckBugs
  <2>2. ASSUME NEW i \in Slots \ {Sentinel}
        PROVE  map'[i] \cap Scanned \subseteq traces'[i]
    <3>1. map'[i] = map[i]
      BY <1>4 DEF CheckBugs, FoldInv, TypeOK
    <3>2. CASE MapUnchanged
      BY <1>4, <3>1, <3>2 DEF CheckBugs, MapUnchanged
    <3>3. CASE ~MapUnchanged
      BY <1>4, <3>1, <3>3 DEF CheckBugs, NewBits
    <3> QED BY <3>2, <3>3
  <2> QED BY <2>1, <2>2 DEF SentinelRaised, FoldComplete
<1> QED BY <1>1, <1>2, <1>3, <1>4 DEF Check

\* After an execution that finished recording a violation, no bit that
\* afl-fuzz scans for is left unseen off the sentinel byte: not one of a thread
\* that was cut off, nor one of an earlier execution, in any mode.
THEOREM FoldLeavesNothing == Spec => []FoldComplete
<1>1. Init => FoldInv
  BY TypeInit DEF Init, FoldInv, SentinelRaised, FoldComplete
<1>2. FoldInv /\ [Next]_vars => FoldInv'
  <2>1. CASE UNCHANGED vars
    BY <2>1, TypeStutter DEF FoldInv, SentinelRaised, FoldComplete, vars
  <2>2. FoldInv /\ Next => FoldInv'
    BY FoldStep, FoldExecution, TypeNext DEF FoldInv, Next
  <2> QED BY <2>1, <2>2
<1>3. FoldInv => FoldComplete
  BY DEF FoldInv
<1> QED BY <1>1, <1>2, <1>3, PTL DEF Spec

--------------------------------------------------------------------------------
(* Without the persistent loop, a bit that the fold finds new was set since *)
(* the last one.  The byte a thread has loaded can put back a bit that a    *)
(* racing store took out of the map, but only one of this execution.        *)

MapIsNews ==
  \A i \in Slots \ {Sentinel} : \A b \in map[i] \cap Scanned :
    b \in traces[i] \/ <<i, b>> \in fresh

HeldIsNews ==
  \A t \in Threads : held[t] # NoByte /\ OrSlot(t) # Sentinel =>
    \A b \in held[t] \cap Scanned :
      b \in traces[OrSlot(t)] \/ <<OrSlot(t), b>> \in fresh

NewsInv == SeenInv /\ MapIsNews /\ HeldIsNews

LEMMA NewsStep ==
  ASSUME NewsInv, NEW t \in Threads, Step(t)
  PROVE  MapIsNews' /\ HeldIsNews'
<1>1. TypeOK /\ TypeOK' /\ HeldCoversSeen
  BY TypeStep DEF NewsInv, SeenInv
<1>2. traces' = traces
  BY DEF Step, Fire, FireKnown, ReadCsEdge, WriteCsEdge, ReadEdge, WriteEdge,
         LoadByte, StoreByte, MarkDirty, aflVars
<1>3. CASE ChildDies /\ (MarkDirty(t) \/ \E v \in Viol : FireKnown(t, v))
  <2>1. fresh' = fresh /\ \A i \in Slots \ {Sentinel} : map'[i] = map[i]
    BY <1>1, <1>3 DEF MarkDirty, FireKnown, TypeOK
  <2>2. \A u \in Threads : held'[u] = NoByte
    BY <1>3 DEF ChildDies, NewChild
  <2> QED BY <1>2, <2>1, <2>2 DEF NewsInv, MapIsNews, HeldIsNews
<1>4. CASE LoadByte(t)
  <2>1. UNCHANGED <<map, fresh, pc, viol, csIdx, edgeIdx>> /\ pc[t] \in Scanned
    BY <1>4 DEF LoadByte
  <2>2. \A u \in Threads : OrSlot(u)' = OrSlot(u)
    BY <2>1 DEF OrSlot
  <2>3. /\ held'[t] = map[OrSlot(t)]
        /\ \A u \in Threads \ {t} : held'[u] = held[u]
    BY <1>1, <1>4 DEF LoadByte, TypeOK
  <2>4. OrSlot(t) \in Slots
    BY <1>1, <2>1, OrSlotInSlots
  <2>5. MapIsNews'
    BY <1>2, <2>1 DEF NewsInv, MapIsNews
  <2>6. ASSUME NEW u \in Threads, held'[u] # NoByte, OrSlot(u) # Sentinel,
               NEW b \in held'[u] \cap Scanned
        PROVE  b \in traces[OrSlot(u)] \/ <<OrSlot(u), b>> \in fresh
    <3>1. CASE u = t
      BY <2>3, <2>4, <2>6, <3>1 DEF NewsInv, MapIsNews
    <3>2. CASE u # t
      BY <2>3, <2>6, <3>2 DEF NewsInv, HeldIsNews
    <3> QED BY <3>1, <3>2
  <2> QED BY <1>2, <2>1, <2>2, <2>5, <2>6 DEF HeldIsNews
<1>5. CASE StoreByte(t)
  <2> DEFINE s == OrSlot(t)
  <2>1. s \in Slots /\ held[t] # NoByte /\ pc[t] \in Scanned
    BY <1>1, <1>5, OrSlotInSlots DEF StoreByte
  <2>2. /\ map' = [map EXCEPT ![s] = held[t] \cup {pc[t]}]
        /\ fresh \subseteq fresh'
        /\ pc[t] \in traces[s] \/ <<s, pc[t]>> \in fresh'
    BY <1>5 DEF StoreByte
  <2>3. \A u \in Threads \ {t} :
          /\ pc'[u] = pc[u] /\ viol'[u] = viol[u] /\ held'[u] = held[u]
          /\ csIdx'[u] = csIdx[u] /\ edgeIdx'[u] = edgeIdx[u]
    BY <1>1, <1>5 DEF StoreByte, TypeOK
  <2>4. held'[t] = NoByte
    BY <1>1, <1>5 DEF StoreByte, TypeOK
  <2>5. \A u \in Threads \ {t} : OrSlot(u)' = OrSlot(u)
    BY <2>3 DEF OrSlot
  <2> HIDE DEF s
  <2>6. map'[s] = held[t] \cup {pc[t]} /\ \A i \in Slots \ {s} : map'[i] = map[i]
    BY <1>1, <2>1, <2>2 DEF TypeOK
  <2>7. ASSUME NEW i \in Slots \ {Sentinel}, NEW b \in map'[i] \cap Scanned
        PROVE  b \in traces[i] \/ <<i, b>> \in fresh'
    <3>1. CASE i = s
      <4>1. b = pc[t] \/ b \in held[t] \cap Scanned
        BY <2>6, <2>7, <3>1
      <4>2. ASSUME b \in held[t] \cap Scanned PROVE b \in traces[s] \/ <<s, b>> \in fresh
        BY <2>1, <2>7, <3>1, <4>2 DEF NewsInv, HeldIsNews, s
      <4> QED BY <2>2, <3>1, <4>1, <4>2
    <3>2. CASE i # s
      BY <2>2, <2>6, <2>7, <3>2 DEF NewsInv, MapIsNews
    <3> QED BY <3>1, <3>2
  <2>8. HeldIsNews'
    BY <1>2, <2>2, <2>3, <2>4, <2>5 DEF NewsInv, HeldIsNews
  <2> QED BY <1>2, <2>7, <2>8 DEF MapIsNews
<1>6. CASE \/ \E v \in Viol : Fire(t, v)
           \/ ReadCsEdge(t) \/ WriteCsEdge(t) \/ ReadEdge(t) \/ WriteEdge(t)
           \/ ~ChildDies /\ (MarkDirty(t) \/ \E v \in Viol : FireKnown(t, v))
  <2>1. /\ fresh' = fresh /\ held' = held
        /\ \A i \in Slots \ {Sentinel} : map'[i] = map[i]
    BY <1>1, <1>6 DEF Fire, ReadCsEdge, WriteCsEdge, ReadEdge, WriteEdge, MarkDirty,
                      Return, FireKnown, childVars, TypeOK
  <2>2. pc[t] \notin Scanned
    BY <1>6 DEF Fire, ReadCsEdge, WriteCsEdge, ReadEdge, WriteEdge, MarkDirty,
                FireKnown, Scanned
  <2>3. held[t] = NoByte
    BY <1>1, <2>2 DEF HeldCoversSeen
  <2>4. \A u \in Threads \ {t} :
          /\ pc'[u] = pc[u] /\ viol'[u] = viol[u]
          /\ csIdx'[u] = csIdx[u] /\ edgeIdx'[u] = edgeIdx[u]
    BY <1>1, <1>6 DEF Fire, ReadCsEdge, WriteCsEdge, ReadEdge, WriteEdge, MarkDirty,
                      Return, FireKnown, childVars, TypeOK
  <2>5. \A u \in Threads \ {t} : OrSlot(u)' = OrSlot(u)
    BY <2>4 DEF OrSlot
  <2> QED BY <1>2, <2>1, <2>3, <2>5 DEF NewsInv, MapIsNews, HeldIsNews
<1> QED BY <1>3, <1>4, <1>5, <1>6 DEF Step

LEMMA NewsSame ==
  ASSUME NewsInv, UNCHANGED <<map, traces, fresh, held, pc, viol, csIdx, edgeIdx>>
  PROVE  MapIsNews' /\ HeldIsNews'
<1>1. \A t \in Threads : OrSlot(t)' = OrSlot(t)
  BY DEF OrSlot
<1> QED BY <1>1 DEF NewsInv, MapIsNews, HeldIsNews

LEMMA NewsExecution ==
  ASSUME ~Persistent, NewsInv, StartRun \/ EndRun \/ Interrupt \/ Check
  PROVE  MapIsNews' /\ HeldIsNews'
<1>1. TypeOK /\ HeldCoversSeen
  BY DEF NewsInv, SeenInv
<1>2. CASE StartRun \/ CheckNothing
  <2>1. UNCHANGED <<map, traces, fresh, held, pc, viol, csIdx, edgeIdx>>
    BY <1>2 DEF StartRun, CheckNothing, aflVars, childVars
  <2> QED BY <2>1, NewsSame
<1>3. CASE EndRun \/ Interrupt
  <2>1. UNCHANGED <<map, traces, fresh>> /\ \A u \in Threads : held'[u] = NoByte
    BY <1>3 DEF EndRun, Interrupt, ChildDies, NewChild, aflVars
  <2> QED BY <2>1 DEF NewsInv, MapIsNews, HeldIsNews
<1>4. CASE CheckBugs
  <2>1. \A u \in Threads : held'[u] = NoByte
    BY <1>1, <1>4 DEF CheckBugs, childVars, HeldCoversSeen
  <2>2. ASSUME NEW i \in Slots \ {Sentinel}
        PROVE  map'[i] \cap Scanned \subseteq traces'[i]
    <3>1. map'[i] = map[i]
      BY <1>1, <1>4 DEF CheckBugs, TypeOK
    <3>2. CASE MapUnchanged
      BY <1>4, <3>1, <3>2 DEF CheckBugs, MapUnchanged
    <3>3. CASE ~MapUnchanged
      BY <1>4, <3>1, <3>3 DEF CheckBugs, NewBits
    <3> QED BY <3>2, <3>3
  <2> QED BY <2>1, <2>2 DEF MapIsNews, HeldIsNews
<1> QED BY <1>2, <1>3, <1>4 DEF Check

\* The fold counts a run only when it found a bit in the map that it had not
\* seen, and that bit is news.
LEMMA NewsRuns ==
  ASSUME NewsInv, [Next]_vars, runs' # runs
  PROVE  \E e \in fresh : e[2] \in traces'[e[1]] \ traces[e[1]]
<1>1. CheckBugs /\ HeavyweightNeeded
  <2>1. CASE \E t \in Threads : Step(t)
    BY <2>1 DEF Step, Fire, FireKnown, ReadCsEdge, WriteCsEdge, ReadEdge, WriteEdge,
                LoadByte, StoreByte, MarkDirty, aflVars
  <2>2. CASE StartRun \/ EndRun \/ Interrupt \/ Check
    BY <2>2 DEF StartRun, EndRun, Interrupt, Check, CheckBugs, CheckNothing, aflVars
  <2> QED BY <2>1, <2>2 DEF Next, vars
<1>2. PICK i \in Slots : NewBits(i) # {}
  BY <1>1 DEF HeavyweightNeeded
<1>3. i # Sentinel
  BY <1>2 DEF NewBits
<1>4. PICK b \in Scanned : b \in map[i] /\ b \notin traces[i]
  BY <1>2, <1>3 DEF NewBits
<1>5. <<i, b>> \in fresh
  BY <1>3, <1>4 DEF NewsInv, MapIsNews
<1>6. b \in traces'[i]
  BY <1>1, <1>3, <1>4 DEF CheckBugs, HeavyweightNeeded, NewBits
<1> QED BY <1>4, <1>5, <1>6

\* In a target without the persistent loop, whatever its threads overwrite and
\* wherever they are killed, the accurate detector is run only for a bit that
\* was set since the last fold.
THEOREM RunsNeedNews ==
  ASSUME ~Persistent
  PROVE  Spec => RunsOnlyForNews
<1>1. Init => NewsInv
  BY SeenInit DEF Init, Attach, NewsInv, MapIsNews, HeldIsNews, Scanned, Slots
<1>2. NewsInv /\ [Next]_vars => NewsInv'
  <2>1. CASE UNCHANGED vars
    BY <2>1, SeenStutter, NewsSame DEF NewsInv, vars
  <2>2. NewsInv /\ Next => NewsInv'
    BY NewsStep, NewsExecution, SeenStep, SeenExecution DEF NewsInv, Next
  <2> QED BY <2>1, <2>2
<1>3. NewsInv /\ [Next]_vars =>
        [runs' # runs => \E e \in fresh : e[2] \in traces'[e[1]] \ traces[e[1]]]_vars
  BY NewsRuns
<1> QED BY <1>1, <1>2, <1>3, PTL DEF Spec, RunsOnlyForNews
=============================================================================
