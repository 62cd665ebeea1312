------------------------------ MODULE FeedbackMap ------------------------------
(***************************************************************************)
(* The violation map shared by the run-time library and afl-fuzz.          *)
(*                                                                         *)
(* The threads of the target record every violation they hit in a map of   *)
(* bytes: __cqmsan_warning_fast and cqmsan_update_map of cqmsan.cpp.  After *)
(* every execution afl-fuzz looks at the last byte, the sentinel, and if    *)
(* it is set folds the new bits of the map into its own copy, msan_traces, *)
(* and re-runs the input under the accurate detector if any bit was new:   *)
(* check_msan_trace and qmsan_check_bugs of afl-fuzz-run.c.                *)
(*                                                                         *)
(* A byte is the set of its bits that are 1.  An update `map[i] |= bit' is *)
(* a load and a store, because the code is not atomic and threads share    *)
(* the map and the two edge registers.  A child may exit with its other    *)
(* threads inside an update, be killed there, or (persistent mode) be      *)
(* stopped there and resumed with the next input.                          *)
(***************************************************************************)
EXTENDS Naturals, FiniteSets

CONSTANTS
  Threads,       \* threads of the target that can hit a violation
  Main,          \* the one that runs the input and ends the execution
  Viol,          \* violations: a load site with the call stack that reached it
  PcOf, HashOf,  \* the site's pc, and the XOR of the pcs of the stack
  EdgeIdx(_, _), \* EdgeIdx(last, x): the slot of (x ^ (last >> 1)) % MAP_SIZE
  MapSize,       \* MAP_SIZE
  HandlerOf,     \* "fast" or "pconly": the handler a site calls.  The pass
                 \* chooses one for all its checks; an interceptor's check
                 \* records the call stack in either build
  SkipKnown,     \* run-time flag skip_known_sites
  HaltOnError,   \* run-time flag halt_on_error
  Persistent,    \* aflpp_driver's loop: the process survives the execution
  Interruptible  \* a timeout or a signal can end an execution at any point

Bits == {"CLEAN", "ERROR", "MEMORY", "PC_EDGE", "CS", "CS_EDGE", "bit6", "bit7"}

\* The bits check_msan_trace is compiled to look at: FILTERING, EDGES,
\* CALLSTACK and CALLSTACK_EDGES.
Scanned == {"ERROR", "PC_EDGE", "CS", "CS_EDGE"}

Slots == 0 .. MapSize - 1
Sentinel == MapSize - 1
NoByte == {"none"}
NoViol == "none"

\* What the two edge registers can hold.
Regs == {0} \cup {PcOf[v] : v \in Viol} \cup {HashOf[v] : v \in Viol}

ASSUME MapAssumption ==
  /\ MapSize \in Nat /\ MapSize >= 2
  /\ PcOf \in [Viol -> Nat] /\ HashOf \in [Viol -> Nat]
  /\ \A last, x \in Regs : EdgeIdx(last, x) \in Slots
ASSUME ThreadAssumption == Main \in Threads
ASSUME ViolAssumption == IsFiniteSet(Viol) /\ NoViol \notin Viol
ASSUME ModeAssumption ==
  /\ HandlerOf \in [Viol -> {"fast", "pconly"}]
  /\ {SkipKnown, HaltOnError, Persistent, Interruptible} \subseteq BOOLEAN

VARIABLES
  map,           \* cqmsan_area_ptr = fsrv.msan_bits, the shared bytes
  traces,        \* afl->msan_traces
  phase,         \* of afl-fuzz: "idle", "running" an input, "ended"
  pc,            \* where each thread is in the handler
  viol,          \* the violation it is recording
  held,          \* the byte loaded by the |= it is in, or NoByte
  csIdx, edgeIdx,\* its local slots for the two edge bits
  last_edge, last_cs_edge,
  runs, crashes, \* heavyweight_runs, qmsan_crashes
  fresh,         \* history: unseen bits set since the last fold
  fired          \* history: violations this execution finished recording

childVars == <<pc, viol, held, csIdx, edgeIdx, last_edge, last_cs_edge>>
aflVars == <<traces, runs, crashes>>
vars == <<map, traces, phase, pc, viol, held, csIdx, edgeIdx,
          last_edge, last_cs_edge, runs, crashes, fresh, fired>>

Labels == {"ready", "cs_rd", "cs_wr", "edge_rd", "edge_wr", "mark"} \cup Scanned

TypeOK ==
  /\ map \in [Slots -> SUBSET Bits]
  /\ traces \in [Slots -> SUBSET Scanned]
  /\ phase \in {"idle", "running", "ended"}
  /\ pc \in [Threads -> Labels]
  /\ viol \in [Threads -> Viol \cup {NoViol}]
  /\ \A t \in Threads : pc[t] # "ready" => viol[t] \in Viol
  /\ held \in [Threads -> (SUBSET Bits) \cup {NoByte}]
  /\ csIdx \in [Threads -> Slots] /\ edgeIdx \in [Threads -> Slots]
  /\ last_edge \in Regs /\ last_cs_edge \in Regs
  /\ runs \in Nat /\ crashes \in Nat
  /\ fresh \subseteq Slots \X Scanned
  /\ fired \subseteq Viol

--------------------------------------------------------------------------------
(* The run-time library attaches to the zeroed segment.  With               *)
(* AFL_INST_RATIO set it first writes a 1, the CLEAN bit, to byte 0.        *)

\* The next child is a copy of the fork server, which has hit no violation
\* (one hit before the fork would be in the map when the first input runs).
NewChild ==
  /\ pc' = [t \in Threads |-> "ready"]
  /\ viol' = [t \in Threads |-> NoViol]
  /\ held' = [t \in Threads |-> NoByte]
  /\ csIdx' = [t \in Threads |-> 0] /\ edgeIdx' = [t \in Threads |-> 0]
  /\ last_edge' = 0 /\ last_cs_edge' = 0

Attach ==
  \E touched \in {{}, {"CLEAN"}} :
    map = [i \in Slots |-> IF i = 0 THEN touched ELSE {}]

Init ==
  /\ Attach
  /\ traces = [i \in Slots |-> {}]
  /\ phase = "idle"
  /\ pc = [t \in Threads |-> "ready"]
  /\ viol = [t \in Threads |-> NoViol]
  /\ held = [t \in Threads |-> NoByte]
  /\ csIdx = [t \in Threads |-> 0] /\ edgeIdx = [t \in Threads |-> 0]
  /\ last_edge = 0 /\ last_cs_edge = 0
  /\ runs = 0 /\ crashes = 0
  /\ fresh = {} /\ fired = {}

--------------------------------------------------------------------------------
(* The handlers.                                                            *)

PcSlot(v) == PcOf[v] % MapSize

\* cqmsan_site_known
SiteKnown(v) == SkipKnown /\ "ERROR" \in map[PcSlot(v)]

\* The process ends: its threads are gone, whatever they were doing.
ChildDies == phase' = "ended" /\ NewChild

\* A check fires in thread t: the handler's entry.  A known site costs one
\* load and a branch.
Fire(t, v) ==
  /\ phase = "running" /\ pc[t] = "ready"
  /\ ~SiteKnown(v)
  /\ pc' = [pc EXCEPT ![t] = IF HandlerOf[v] = "fast" THEN "cs_rd" ELSE "ERROR"]
  /\ viol' = [viol EXCEPT ![t] = v]
  /\ UNCHANGED <<map, aflVars, phase, held, csIdx, edgeIdx,
                 last_edge, last_cs_edge, fresh, fired>>

FireKnown(t, v) ==
  /\ phase = "running" /\ pc[t] = "ready"
  /\ SiteKnown(v)
  /\ IF HaltOnError THEN ChildDies ELSE UNCHANGED <<phase, childVars>>
  /\ UNCHANGED <<map, aflVars, fresh, fired>>

\* idx = (hash ^ (last_cs_edge >> 1)) % MAP_SIZE
ReadCsEdge(t) ==
  /\ phase = "running" /\ pc[t] = "cs_rd"
  /\ csIdx' = [csIdx EXCEPT ![t] = EdgeIdx(last_cs_edge, HashOf[viol[t]])]
  /\ pc' = [pc EXCEPT ![t] = "cs_wr"]
  /\ UNCHANGED <<map, aflVars, phase, viol, held, edgeIdx,
                 last_edge, last_cs_edge, fresh, fired>>

WriteCsEdge(t) ==
  /\ phase = "running" /\ pc[t] = "cs_wr"
  /\ last_cs_edge' = HashOf[viol[t]]
  /\ pc' = [pc EXCEPT ![t] = "ERROR"]
  /\ UNCHANGED <<map, aflVars, phase, viol, held, csIdx, edgeIdx,
                 last_edge, fresh, fired>>

ReadEdge(t) ==
  /\ phase = "running" /\ pc[t] = "edge_rd"
  /\ edgeIdx' = [edgeIdx EXCEPT ![t] = EdgeIdx(last_edge, PcOf[viol[t]])]
  /\ pc' = [pc EXCEPT ![t] = "PC_EDGE"]
  /\ UNCHANGED <<map, aflVars, phase, viol, held, csIdx,
                 last_edge, last_cs_edge, fresh, fired>>

WriteEdge(t) ==
  /\ phase = "running" /\ pc[t] = "edge_wr"
  /\ last_edge' = PcOf[viol[t]]
  /\ pc' = [pc EXCEPT ![t] = IF HandlerOf[viol[t]] = "fast" THEN "CS" ELSE "mark"]
  /\ UNCHANGED <<map, aflVars, phase, viol, held, csIdx, edgeIdx,
                 last_cs_edge, fresh, fired>>

\* The slot of each of the four `map[slot] |= bit', and what follows it.
OrSlot(t) == CASE pc[t] = "ERROR"   -> PcSlot(viol[t])
               [] pc[t] = "PC_EDGE" -> edgeIdx[t]
               [] pc[t] = "CS"      -> HashOf[viol[t]] % MapSize
               [] pc[t] = "CS_EDGE" -> csIdx[t]

AfterOr == [ERROR |-> "edge_rd", PC_EDGE |-> "edge_wr",
            CS |-> "CS_EDGE", CS_EDGE |-> "mark"]

LoadByte(t) ==
  /\ phase = "running" /\ pc[t] \in Scanned /\ held[t] = NoByte
  /\ held' = [held EXCEPT ![t] = map[OrSlot(t)]]
  /\ UNCHANGED <<map, aflVars, phase, pc, viol, csIdx, edgeIdx,
                 last_edge, last_cs_edge, fresh, fired>>

StoreByte(t) ==
  /\ phase = "running" /\ pc[t] \in Scanned /\ held[t] # NoByte
  /\ map' = [map EXCEPT ![OrSlot(t)] = held[t] \cup {pc[t]}]
  /\ fresh' = IF pc[t] \in traces[OrSlot(t)] THEN fresh
                 ELSE fresh \cup {<<OrSlot(t), pc[t]>>}
  /\ held' = [held EXCEPT ![t] = NoByte]
  /\ pc' = [pc EXCEPT ![t] = AfterOr[pc[t]]]
  /\ UNCHANGED <<aflVars, phase, viol, csIdx, edgeIdx,
                 last_edge, last_cs_edge, fired>>

\* The handler returns and its locals are gone.
Return(t) ==
  /\ pc' = [pc EXCEPT ![t] = "ready"]
  /\ viol' = [viol EXCEPT ![t] = NoViol]
  /\ csIdx' = [csIdx EXCEPT ![t] = 0]
  /\ edgeIdx' = [edgeIdx EXCEPT ![t] = 0]
  /\ UNCHANGED <<phase, held, last_edge, last_cs_edge>>

\* map[MAP_SIZE - 1] = 0xff "so that AFL knows we found something"; then the
\* handler returns, or dies under halt_on_error.
MarkDirty(t) ==
  /\ phase = "running" /\ pc[t] = "mark"
  /\ map' = [map EXCEPT ![Sentinel] = Bits]
  /\ fired' = fired \cup {viol[t]}
  /\ IF HaltOnError THEN ChildDies ELSE Return(t)
  /\ UNCHANGED <<aflVars, fresh>>

Step(t) ==
  \/ \E v \in Viol : Fire(t, v) \/ FireKnown(t, v)
  \/ ReadCsEdge(t) \/ WriteCsEdge(t) \/ ReadEdge(t) \/ WriteEdge(t)
  \/ LoadByte(t) \/ StoreByte(t) \/ MarkDirty(t)

--------------------------------------------------------------------------------
(* The execution, seen from afl-fuzz.                                       *)

\* The input goes to a new child of the fork server, or to the child that is
\* stopped in its persistent loop.
StartRun ==
  /\ phase = "idle"
  /\ phase' = "running"
  /\ fired' = {}
  /\ UNCHANGED <<map, aflVars, childVars, fresh>>

\* The input is done.  Only the main thread is known to be outside the
\* handler: the others die with the process, or stop where they are.
EndRun ==
  /\ phase = "running" /\ pc[Main] = "ready"
  /\ \/ ChildDies
     \/ Persistent /\ phase' = "ended" /\ UNCHANGED childVars
  /\ UNCHANGED <<map, aflVars, fresh, fired>>

\* exec_tmout expires, or a signal kills the child.
Interrupt ==
  /\ Interruptible /\ phase = "running"
  /\ ChildDies
  /\ UNCHANGED <<map, aflVars, fresh, fired>>

\* Mutants: the scan starts one byte too far; it ignores which bits it was
\* compiled for; it stops at the first byte with news.
NewBitsOffByOne(i) == (map[i] \ traces[i]) \cap Scanned
NewBitsUnmasked(i) == IF i = Sentinel THEN {} ELSE map[i] \ traces[i]
NewBitsBreak(i) ==
  IF i = Sentinel \/ \E j \in i + 1 .. Sentinel - 1 :
                        (map[j] \ traces[j]) \cap Scanned # {}
    THEN {} ELSE (map[i] \ traces[i]) \cap Scanned

\* check_msan_trace: the bits of slot i that are new.  The sentinel is not
\* looked at.
NewBits(i) == IF i = Sentinel THEN {} ELSE (map[i] \ traces[i]) \cap Scanned

\* Mutant: the memcmp covers a fraction of the map (the size of a pointer).
MapUnchangedShort == \A i \in 0 .. MapSize \div 8 - 1 : map[i] = traces[i]

\* The memcmp of the early return.
MapUnchanged == \A i \in Slots \ {Sentinel} : map[i] = traces[i]

\* Mutant: every flagged execution is sent to the accurate detector.
HeavyweightAlways == TRUE

\* What check_msan_trace returns.
HeavyweightNeeded == ~MapUnchanged /\ \E i \in Slots : NewBits(i) # {}

\* qmsan_check_bugs after an execution that left the sentinel set: fold, run
\* the accurate detector on the input if something was new, clear the
\* sentinel.  The verdict of the detector is external.
CheckBugs ==
  /\ phase = "ended" /\ map[Sentinel] # {}
  /\ traces' = IF MapUnchanged THEN traces
                 ELSE [i \in Slots |-> traces[i] \cup NewBits(i)]
  /\ IF HeavyweightNeeded
       THEN runs' = runs + 1 /\ crashes' \in {crashes, crashes + 1}
       ELSE UNCHANGED <<runs, crashes>>
  /\ map' = [map EXCEPT ![Sentinel] = {}]
  /\ phase' = "idle"
  /\ fresh' = {}
  /\ UNCHANGED <<childVars, fired>>

\* ... and after one that left it clear.
CheckNothing ==
  /\ phase = "ended" /\ map[Sentinel] = {}
  /\ phase' = "idle"
  /\ UNCHANGED <<map, aflVars, childVars, fresh, fired>>

Check == CheckBugs \/ CheckNothing

Next ==
  \/ \E t \in Threads : Step(t)
  \/ StartRun \/ EndRun \/ Interrupt \/ Check

Spec == Init /\ [][Next]_vars

\* afl-fuzz checks every execution it has started, and its timeout ends
\* every execution; how the threads are scheduled is left open.
FairSpec == Spec /\ WF_vars(Check) /\ WF_vars(Interrupt)
--------------------------------------------------------------------------------
(* Properties.                                                              *)

\* check_msan_trace relies on it for its early return: "msan_traces' bits are
\* always a subset of trace's".  No thread of a later execution may take
\* back a bit that was folded.
SeenIsReported == \A i \in Slots : traces[i] \subseteq map[i]

\* Between executions, if the last one finished recording any violation,
\* afl-fuzz has looked: no bit it looks for is left in the map unseen, not
\* even one written by a thread that was cut off or by an earlier execution.
FoldComplete ==
  phase = "idle" /\ fired # {} =>
    \A i \in Slots \ {Sentinel} : map[i] \cap Scanned \subseteq traces[i]

\* The record cqmsan_update_map makes of a site stays in the map (slots other
\* than the sentinel's, which afl-fuzz clears).
RecordedOnMap ==
  \A v \in fired : PcSlot(v) # Sentinel => "ERROR" \in map[PcSlot(v)]

\* Every violation an execution finished recording is known to afl-fuzz when
\* the next execution starts (a site whose byte is the sentinel is never
\* looked at).
CompletedIsSeen ==
  phase = "idle" =>
    \A v \in fired : PcSlot(v) # Sentinel => "ERROR" \in traces[PcSlot(v)]

\* The accurate detector is run only if a bit afl-fuzz had not seen was set
\* since its last fold: what an earlier fold left behind never costs a run,
\* though what an execution that was cut off left behind may, on an input
\* that does not show it.
RunsOnlyForNews ==
  [][runs' # runs => \E e \in fresh : e[2] \in traces'[e[1]] \ traces[e[1]]]_vars

\* skip_known_sites: a site that will be skipped from now on has been
\* reported to afl-fuzz.
KnownWasReported ==
  SkipKnown /\ phase = "idle" =>
    \A v \in Viol : PcSlot(v) # Sentinel /\ "ERROR" \in map[PcSlot(v)]
                       => "ERROR" \in traces[PcSlot(v)]

\* What an execution that was cut off left in the map is not lost: once an
\* execution finishes recording any violation while the ERROR bit of v is in
\* the map, whoever set it, afl-fuzz eventually sees it, even if that
\* execution hangs and the site is skipped as known from then on.
LeftoverIsSeen ==
  \A v \in Viol : PcSlot(v) # Sentinel =>
    ((fired # {} /\ "ERROR" \in map[PcSlot(v)]) ~> ("ERROR" \in traces[PcSlot(v)]))

\* The map and its fold implement the abstract log: what is seen is a set of
\* (slot, bit) pairs.
SeenPairs == {e \in Slots \X Scanned : e[2] \in traces[e[1]]}
Log == INSTANCE ViolationLog WITH Violations <- Slots \X Scanned,
                                  seen <- SeenPairs, confirmed <- crashes

\* An accurate run is made, and counted, exactly when bits that were not in
\* msan_traces enter it, and no bit ever leaves it.
LogSpec == Log!Spec

\* Accurate runs are the expensive part of a campaign.  Each is paid for by a
\* bit of its own in msan_traces, and confirms at most one finding
\* (heavyweight_runs and qmsan_crashes of qmsan_check_bugs).
RunsPaidFor == crashes <= runs /\ runs <= Cardinality(SeenPairs)
=============================================================================
