------------------------------ MODULE SinkChecks ------------------------------
(***************************************************************************)
(* Where the instrumentation pass puts the check of a loaded value, and    *)
(* whether it is reached.  visitLoadInst asks for a check at the load;     *)
(* findSinkFor defers it to a use of the value that every execution of the *)
(* load is meant to reach; materializeChecks then emits it there, at the   *)
(* end of the straight-line segment, or accumulates it until the loop is   *)
(* left.  The module instruments one function, chosen in the initial       *)
(* state, and executes it: every load may find its shadow poisoned.        *)
(*                                                                         *)
(* A function is a record                                                  *)
(*   g       its control-flow graph and loops (module FlowGraph)           *)
(*   code    block |-> its instructions, without the terminator            *)
(*   at      load  |-> the point <<block, index>> of the load instruction  *)
(*   pinned  the blocks whose terminator cannot be split                   *)
(*   pads    the EH pads and the blocks with no insertion point            *)
(*   aggs    the loads of aggregates, whose shadow no accumulator can hold *)
(* and an instruction is [op, uses]: "op" always continues with the next   *)
(* one; "call" and "icall" (an indirect call) may not return.  uses are    *)
(* the loads whose value reaches an operand in sink position through       *)
(* casts, arithmetic and the other instructions findSinkFor looks through. *)
(* The terminator of block b is at index Len(code[b]) + 1.                 *)
(***************************************************************************)
EXTENDS Naturals, Sequences, FlowGraph

CONSTANTS Loads,             \* load instructions
          NoLoop,            \* stands for "no loop"
          Programs,          \* the functions to instrument
          Modes,             \* which of materializeChecks' ways are explored
          SinkPastBarriers   \* ClSinkPastBarriers

ASSUME ModesAssumption == Modes \subseteq {"legacy", "bb", "loop"}
ASSUME FlagAssumption == SinkPastBarriers \in BOOLEAN /\ NoLoop \notin Blocks

Ops == {"op", "call", "icall"}
Points == Blocks \X Nat

(* The load is executed before the point on every path to it. *)
Available(p, l, b, i) ==
    IF p.at[l][1] = b THEN p.at[l][2] < i ELSE Dominates(p.g.succ, p.at[l][1], b)

(* What the IR verifier guarantees of a function: a value is used only     *)
(* where it is available.  (findSinkFor looks through no phi and no        *)
(* select, so a use it finds is dominated by the load.)                    *)
IsProgram(p) ==
    /\ p.g \in [succ : [Blocks -> SUBSET Blocks],
               loops : SUBSET (Blocks \X Blocks), inner : SUBSET (Blocks \X Blocks)]
    /\ p.code \in [Blocks -> Seq([op : Ops, uses : SUBSET Loads])]
    /\ p.at \in [Loads -> Points]
    /\ p.pinned \in SUBSET Blocks /\ p.pads \in SUBSET Blocks
    /\ p.aggs \in SUBSET Loads
    /\ \A l \in Loads : /\ p.at[l][2] \in 1..Len(p.code[p.at[l][1]])
                        /\ p.code[p.at[l][1]][p.at[l][2]].op = "op"
    /\ \A l \in Loads, b \in Blocks : \A i \in 1..Len(p.code[b]) :
         l \in p.code[b][i].uses => Available(p, l, b, i)

ASSUME ProgramsAssumption == \A p \in Programs : IsProgram(p)
ASSUME GraphsAssumption == \A g \in {p.g : p \in Programs} : g = Analysed(g.succ)

VARIABLES prog,      \* the function
          mode,      \* how its checks are materialized
          plan,      \* load |-> where its check went: a loop's accumulator or a point
          blk, idx,  \* the point about to be executed
          shadow,    \* load |-> was the shadow it last read poisoned?
          acc,       \* loop header |-> the accumulator of the loop
          running,
          owed       \* loads that read poison of which no check has reported since

vars == <<prog, mode, plan, blk, idx, shadow, acc, running, owed>>

-----------------------------------------------------------------------------
(* isBBBarrier: execution may not get past the point.  A return and an     *)
(* unreachable are barriers too: the terminator of a block with no         *)
(* successor.                                                              *)
Barrier(p, b, i) ==
    IF i \in DOMAIN p.code[b] THEN p.code[b][i].op # "op" ELSE p.g.succ[b] = {}

BarrierFree(p, b) == \A i \in 1..Len(p.code[b]) + 1 : ~Barrier(p, b, i)

(* guaranteedPathHasBarrier: the tail of the load's block, the blocks      *)
(* between and the head of the sink's block.                               *)
Between(p, lb, sb) == Region(p.g.succ, p.g.succ[lb], sb)

PathHasBarrierEnds(p, l, c) ==
    LET lb == p.at[l][1]  li == p.at[l][2]
    IN  IF c[1] = lb
        THEN \E j \in li + 1 .. c[2] - 1 : Barrier(p, lb, j)
        ELSE \/ \E j \in li + 1 .. Len(p.code[lb]) + 1 : Barrier(p, lb, j)
             \/ \E j \in 1 .. c[2] - 1 : Barrier(p, c[1], j)

PathHasBarrier(p, l, c) ==
    LET lb == p.at[l][1]  li == p.at[l][2]
    IN  IF c[1] = lb
        THEN \E j \in li + 1 .. c[2] - 1 : Barrier(p, lb, j)
        ELSE \/ \E j \in li + 1 .. Len(p.code[lb]) + 1 : Barrier(p, lb, j)
             \/ \E b \in Between(p, lb, c[1]) : ~BarrierFree(p, b)
             \/ \E j \in 1 .. c[2] - 1 : Barrier(p, c[1], j)

(* Reached whenever the load was executed: later in its block, or in a     *)
(* block that post-dominates it.                                           *)
Guaranteed(p, l, c) ==
    IF c[1] = p.at[l][1] THEN p.at[l][2] < c[2]
                         ELSE PostDominates(p.g.succ, c[1], p.at[l][1])

SameLoopNot(p, l, c) == TRUE

SameLoop(p, l, c) == LoopFor(p.g, c[1]) = LoopFor(p.g, p.at[l][1])

SinkAccepted(p, l, c) ==
    /\ c[2] \in 1..Len(p.code[c[1]])
    /\ l \in p.code[c[1]][c[2]].uses
    /\ SameLoop(p, l, c)
    /\ Guaranteed(p, l, c)
    /\ SinkPastBarriers \/ ~PathHasBarrier(p, l, c)

(* findSinkFor returns the first sink it accepts in the order of the use   *)
(* lists, which the IR does not fix; without one the check stays put.      *)
FindSinkFor(p, l) ==
    LET sinks == UNION {{<<b, i>> : i \in {j \in 1..Len(p.code[b]) : SinkAccepted(p, l, <<b, j>>)}}
                        : b \in Blocks}
    IN  IF sinks = {} THEN {p.at[l]} ELSE sinks

-----------------------------------------------------------------------------
(* isImmediateEssentialSink: an indirect call. *)
Essential(p, c) == p.code[c[1]][c[2]].op = "icall"

InsertPointSkips(p, orig, c) ==
    IF \E l \in Loads : orig[l] = c /\ p.at[l] = c THEN <<c[1], c[2] + 2>> ELSE c

(* checkInsertPoint: before the instruction the check is for, or after it  *)
(* when it defines one of the shadows checked there.                       *)
InsertPoint(p, orig, c) ==
    IF \E l \in Loads : orig[l] = c /\ p.at[l] = c THEN <<c[1], c[2] + 1>> ELSE c

(* anchorFor: the first barrier at or after the point, else the terminator. *)
AnchorFor(p, c) ==
    {<<c[1], j>> : j \in {i \in c[2] .. Len(p.code[c[1]]) + 1 :
                            /\ Barrier(p, c[1], i) \/ i = Len(p.code[c[1]]) + 1
                            /\ \A k \in c[2] .. i - 1 : ~Barrier(p, c[1], k)}}

NoAnchor(p, c) ==
    c[1] \in p.pinned /\ \A k \in c[2] .. Len(p.code[c[1]]) : ~Barrier(p, c[1], k)

LoopFlushIsSound(p, h) ==
    /\ ExitBlocks(p.g, h) # {}
    /\ ExitBlocks(p.g, h) \cap p.pads = {}
    /\ \A b \in Body(p.g, h) : BarrierFree(p, b)

(* The loops over which the check of load l, for the sink c, accumulates:  *)
(* the loop of c, if it can.                                               *)
Accumulators(p, l, c) ==
    {h \in LoopFor(p.g, c[1]) : /\ Preheaders(p.g, h) # {}
                               /\ p.at[l][1] \in Body(p.g, h)
                               /\ l \notin p.aggs
                               /\ LoopFlushIsSound(p, h)}

(* materializeChecks: the check of load l goes to a loop's accumulator, to *)
(* the instruction orig[l], or to its anchor.                              *)
Placement(m, p, orig, l) ==
    LET c == orig[l]
        loops == IF m = "loop" /\ ~Essential(p, c) THEN Accumulators(p, l, c) ELSE {}
        here == m = "legacy" \/ Essential(p, c) \/ NoAnchor(p, c)
    IN  IF loops # {} THEN {[loop |-> h, pos |-> c] : h \in loops}
        ELSE {[loop |-> NoLoop, pos |-> q] :
                q \in IF here THEN {InsertPoint(p, orig, c)} ELSE AnchorFor(p, c)}

(* One choice from S(l) for every load. *)
Choices(S(_)) == {f \in [Loads -> UNION {S(l) : l \in Loads}] : \A l \in Loads : f[l] \in S(l)}

(* The tail of runOnFunction: remap the checks to their sinks, materialize. *)
RunOnFunction(m, p) ==
    UNION {Choices(LAMBDA l : Placement(m, p, orig, l)) :
             orig \in Choices(LAMBDA l : FindSinkFor(p, l))}

-----------------------------------------------------------------------------
(* Execution of the instrumented function.                                 *)

(* The loads whose shadow, or accumulator, a check emitted before the      *)
(* current point finds poisoned: materializeOneCheck on the OR of each     *)
(* group, and the check at the exits of a loop.                            *)
Warned ==
    {l \in Loads : \/ plan[l].loop = NoLoop /\ plan[l].pos = <<blk, idx>> /\ shadow[l]
                   \/ /\ plan[l].loop # NoLoop
                      /\ idx = 1 /\ blk \in ExitBlocks(prog.g, plan[l].loop)
                      /\ acc[plan[l].loop]}

AtTerminator == idx = Len(prog.code[blk]) + 1

Init ==
    /\ prog \in Programs
    /\ mode \in Modes
    /\ plan \in RunOnFunction(mode, prog)
    /\ blk = Entry /\ idx = 1
    /\ shadow = [l \in Loads |-> FALSE]
    /\ acc = [h \in Blocks |-> FALSE]
    /\ running = TRUE
    /\ owed = {}

(* The loads among defs find the bytes of poisoned uninitialised; those    *)
(* with an accumulator OR their shadow into it.                            *)
Execute(poisoned) ==
    LET defs == {l \in Loads : prog.at[l] = <<blk, idx>>}
    IN  /\ poisoned \subseteq defs
        /\ shadow' = [l \in Loads |-> IF l \in defs THEN l \in poisoned ELSE shadow[l]]
        /\ acc' = [h \in Blocks |-> acc[h] \/ \E l \in poisoned : plan[l].loop = h]
        /\ owed' = (owed \ Warned) \cup poisoned

Instruction ==
    /\ running /\ ~AtTerminator
    /\ \E poisoned \in SUBSET Loads : Execute(poisoned)
    /\ idx' = idx + 1
    /\ UNCHANGED <<prog, mode, plan, blk, running>>

(* A branch; in a preheader it first clears the accumulator of the loop.   *)
Branch ==
    /\ running /\ AtTerminator
    /\ \E b \in prog.g.succ[blk] : blk' = b
    /\ idx' = 1
    /\ acc' = [h \in Blocks |-> acc[h] /\ ~(blk \in Preheaders(prog.g, h))]
    /\ owed' = owed \ Warned
    /\ UNCHANGED <<prog, mode, plan, shadow, running>>

(* A return, or a call that does not come back. *)
Leave ==
    /\ running /\ Barrier(prog, blk, idx)
    /\ running' = FALSE
    /\ owed' = owed \ Warned
    /\ UNCHANGED <<prog, mode, plan, blk, idx, shadow, acc>>

Next == Instruction \/ Branch \/ Leave

Spec == Init /\ [][Next]_vars

-----------------------------------------------------------------------------
(* Properties.                                                             *)

(* Points and records stay within the function: every check is emitted at  *)
(* an instruction or the terminator of a block.                            *)
TypeOK ==
    /\ IsProgram(prog)
    /\ mode \in Modes
    /\ plan \in [Loads -> [loop : Blocks \cup {NoLoop}, pos : Points]]
    /\ \A l \in Loads : plan[l].pos[2] \in 1 .. Len(prog.code[plan[l].pos[1]]) + 1
    /\ blk \in Blocks
    /\ idx \in 1 .. Len(prog.code[blk]) + 1
    /\ shadow \in [Loads -> BOOLEAN]
    /\ acc \in [Blocks -> BOOLEAN]
    /\ running \in BOOLEAN
    /\ owed \in SUBSET Loads

(* The load is in a loop together with the block of its check, and an      *)
(* iteration can come back to the load around that block.                  *)
ContinueAround(l) ==
    LET lb == prog.at[l][1]  sb == plan[l].pos[1]
    IN  /\ plan[l].loop = NoLoop
        /\ LoopFor(prog.g, sb) = LoopFor(prog.g, lb)
        /\ sb # lb /\ lb \in Between(prog, lb, sb)

(* findSinkFor accepts a sink only if it is reached whenever the load was  *)
(* executed: when the function is left, by a return or by a call that does *)
(* not come back, a load that read poison has been reported, whichever way *)
(* the checks are materialized.  The one exception is a loop that comes    *)
(* back to the load around its sink.                                       *)
ReportedBeforeLeaving == ~running => \A l \in owed : ContinueAround(l)

(* The same without the exception, as the comments of findSinkFor have it. *)
EveryPoisonedLoadReported == ~running => owed = {}

(* A deferred check runs once for every read it stands for: every value a *)
(* warning is about was read since the last warning about it.  (The checks *)
(* at loop exits, off by default, may repeat one, and a cycle that         *)
(* LoopInfo does not know for a loop can execute a sink again.)            *)
OneWarningPerRead ==
    mode # "loop" /\ running => Warned \subseteq owed \/ ~Reducible(prog.g.succ)
=============================================================================
