------------------------------- MODULE RwLock -------------------------------
(***************************************************************************)
(* What a reader-writer lock promises: one writer alone, or any number of  *)
(* readers.                                                                *)
(***************************************************************************)
EXTENDS Naturals

CONSTANT Threads

VARIABLES writers, readers   \* the threads that hold it

vars == <<writers, readers>>

Init == writers = {} /\ readers = {}

Lock(t) ==
  /\ writers = {} /\ readers = {}
  /\ writers' = {t} /\ readers' = readers

ReadLock(t) ==
  /\ writers = {} /\ t \notin readers
  /\ readers' = readers \cup {t} /\ writers' = writers

Unlock(t) ==
  /\ t \in writers
  /\ writers' = writers \ {t} /\ readers' = readers

ReadUnlock(t) ==
  /\ t \in readers
  /\ readers' = readers \ {t} /\ writers' = writers

Next == \E t \in Threads : Lock(t) \/ ReadLock(t) \/ Unlock(t) \/ ReadUnlock(t)

Spec == Init /\ [][Next]_vars
=============================================================================
