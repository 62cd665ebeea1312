------------------------------ MODULE ViolationLog ------------------------------
(***************************************************************************)
(* What the two-tier detector promises, without the map that implements    *)
(* it: a log of the violations the fuzzer has already seen.  The accurate  *)
(* detector runs only when an execution brings violations that are not in  *)
(* the log, these enter the log in the same step, and nothing ever leaves  *)
(* it.  FeedbackMap, the shared byte map and its fold, implements this.    *)
(***************************************************************************)
EXTENDS Naturals

CONSTANT Violations      \* what the fuzzer can tell apart

VARIABLES seen,          \* the violations already submitted
          runs,          \* executions of the accurate detector
          confirmed      \* those that it confirmed

vars == <<seen, runs, confirmed>>

Init == /\ seen = {}
        /\ runs = 0
        /\ confirmed = 0

\* Unseen violations, one or more, enter the log and cost one accurate run.
Submit ==
  /\ seen' \in SUBSET Violations
  /\ seen \subseteq seen' /\ seen # seen'
  /\ runs' = runs + 1
  /\ confirmed' \in {confirmed, confirmed + 1}

Next == Submit

Spec == Init /\ [][Next]_vars
=============================================================================
