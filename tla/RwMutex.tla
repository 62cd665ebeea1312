------------------------------ MODULE RwMutex ------------------------------
(***************************************************************************)
(* The Mutex of sanitizer_common: the lock of every region of the          *)
(* allocator and of the large allocator.                                   *)
(*                                                                         *)
(* Its 64-bit word holds the number of readers inside, the numbers of      *)
(* waiting readers and writers, the writer lock and two flags that say     *)
(* that a reader, or a writer, is awake and spinning for the lock.  A      *)
(* thread that has spun enough counts itself as waiting and blocks on a    *)
(* semaphore made of a futex; whoever unlocks takes it off the count, sets *)
(* the flag for it and then posts the semaphore.                           *)
(*                                                                         *)
(* An iteration of a loop around a compare-and-swap that succeeds is one   *)
(* action, since the word has then not changed since it was read; one that *)
(* fails only counts an iteration.  The counters of the word, 20 bits      *)
(* each, are numbers: there are fewer threads than that.  The deadlock     *)
(* detector of CheckedMutex exists in debug builds only.                   *)
(***************************************************************************)
EXTENDS Naturals, FiniteSets, FiniteSetsExt

CONSTANTS
  Threads,
  kMaxSpinIters   \* 1500 in the code

ASSUME MutexAssumption == IsFiniteSet(Threads) /\ kMaxSpinIters \in Nat

Modes == {"w", "r"}

VARIABLES
  st,      \* state_
  sem,     \* state_ of the semaphores writers_ and readers_
  pc,      \* "idle", "lock" (in the loop), "wait", "asleep", "held", "post", "wake"
  mode,    \* as what t wants or has the lock
  reset,   \* whether reset_mask of t clears the flag of its kind
  spin,    \* spin_iters, up to kMaxSpinIters + 1
  owed     \* what Unlock has decided to post

vars == <<st, sem, pc, mode, reset, spin, owed>>

Free == [readers |-> 0, wlock |-> FALSE,
         waiting |-> [m \in Modes |-> 0], spinning |-> [m \in Modes |-> FALSE]]

Nothing == [to |-> "w", count |-> 0]

Init ==
  /\ st = Free
  /\ sem = [m \in Modes |-> 0]
  /\ pc = [t \in Threads |-> "idle"]
  /\ mode = [t \in Threads |-> "w"]
  /\ reset = [t \in Threads |-> FALSE]
  /\ spin = [t \in Threads |-> 0]
  /\ owed = [t \in Threads |-> Nothing]

Goto(t, label) == pc' = [pc EXCEPT ![t] = label]

----------------------------------------------------------------------------
(* Lock() and ReadLock().                                                  *)

\* Mutant: a writer does not look at the readers.
LockedByWriter(m) == st.wlock

\* What keeps a thread of each kind out.
Locked(m) == st.wlock \/ (m = "w" /\ st.readers > 0)

\* Mutant: the flag stays when its thread leaves or blocks.
MaskedNot(s, m, on) == s

\* s & reset_mask.
Masked(s, m, on) == IF on THEN [s EXCEPT !.spinning[m] = FALSE] ELSE s

Taken(s, m) ==
  IF m = "w" THEN [s EXCEPT !.wlock = TRUE] ELSE [s EXCEPT !.readers = @ + 1]

Enter(t, m) ==
  /\ pc[t] = "idle"
  /\ Goto(t, "lock")
  /\ mode' = [mode EXCEPT ![t] = m]
  /\ reset' = [reset EXCEPT ![t] = FALSE]
  /\ spin' = [spin EXCEPT ![t] = 0]
  /\ UNCHANGED <<st, sem, owed>>

TryLock(t) ==
  /\ pc[t] = "idle" /\ ~Locked("w")
  /\ st' = Taken(st, "w")
  /\ Goto(t, "held")
  /\ mode' = [mode EXCEPT ![t] = "w"]
  /\ UNCHANGED <<sem, reset, spin, owed>>

Acquire(t) ==
  /\ pc[t] = "lock" /\ ~Locked(mode[t])
  /\ st' = Masked(Taken(st, mode[t]), mode[t], reset[t])
  /\ Goto(t, "held")
  /\ UNCHANGED <<sem, mode, reset, spin, owed>>

\* Spun enough: count as waiting, then block.
Block(t) ==
  /\ pc[t] = "lock" /\ Locked(mode[t]) /\ spin[t] > kMaxSpinIters
  /\ st' = Masked([st EXCEPT !.waiting[mode[t]] = @ + 1], mode[t], reset[t])
  /\ Goto(t, "wait")
  /\ UNCHANGED <<sem, mode, reset, spin, owed>>

\* Denote our presence, unless another thread of our kind has.
Announce(t) ==
  /\ pc[t] = "lock" /\ Locked(mode[t]) /\ spin[t] <= kMaxSpinIters
  /\ ~st.spinning[mode[t]]
  /\ st' = [st EXCEPT !.spinning[mode[t]] = TRUE]
  /\ reset' = [reset EXCEPT ![t] = TRUE]
  /\ spin' = [spin EXCEPT ![t] = @ + 1]
  /\ UNCHANGED <<sem, pc, mode, owed>>

\* Active spinning, or a compare-and-swap that failed.
SpinOn(t) ==
  /\ pc[t] = "lock" /\ spin[t] <= kMaxSpinIters
  /\ spin' = [spin EXCEPT ![t] = @ + 1]
  /\ UNCHANGED <<st, sem, pc, mode, reset, owed>>

----------------------------------------------------------------------------
(* Semaphore::Wait() and Post().                                           *)

Wait(t) ==
  /\ pc[t] = "wait" /\ sem[mode[t]] > 0
  /\ sem' = [sem EXCEPT ![mode[t]] = @ - 1]
  /\ Goto(t, "lock")
  /\ reset' = [reset EXCEPT ![t] = TRUE]
  /\ spin' = [spin EXCEPT ![t] = 1]
  /\ UNCHANGED <<st, mode, owed>>

\* FutexWait sleeps only if the semaphore is still zero.
FutexWait(t) ==
  /\ pc[t] = "wait" /\ sem[mode[t]] = 0
  /\ Goto(t, "asleep")
  /\ UNCHANGED <<st, sem, mode, reset, spin, owed>>

\* A signal ends the system call.
FutexInterrupted(t) ==
  /\ pc[t] = "asleep"
  /\ Goto(t, "wait")
  /\ UNCHANGED <<st, sem, mode, reset, spin, owed>>

Post(t) ==
  /\ pc[t] = "post"
  /\ sem' = [sem EXCEPT ![owed[t].to] = @ + owed[t].count]
  /\ Goto(t, "wake")
  /\ UNCHANGED <<st, mode, reset, spin, owed>>

\* FutexWake wakes as many sleepers as the tokens posted, or all.
FutexWake(t) ==
  LET asleep == {u \in Threads : pc[u] = "asleep" /\ mode[u] = owed[t].to} IN
  /\ pc[t] = "wake"
  /\ \E woken \in SUBSET asleep :
       /\ Cardinality(woken) = Min({owed[t].count, Cardinality(asleep)})
       /\ pc' = [u \in Threads |-> IF u = t THEN "idle"
                                   ELSE IF u \in woken THEN "wait" ELSE pc[u]]
  /\ owed' = [owed EXCEPT ![t] = Nothing]
  /\ UNCHANGED <<st, sem, mode, reset, spin>>

----------------------------------------------------------------------------
(* Unlock() and ReadUnlock().                                              *)

\* Mutant: a writer is woken though none waits.
WakesWriterAlways(s) == ~s.wlock /\ s.readers = 0 /\ ~s.spinning.w /\ ~s.spinning.r

\* One writer is woken if the lock is now free, nobody spins for it and a
\* writer waits.
WakesWriter(s) ==
  /\ ~s.wlock /\ s.readers = 0
  /\ ~s.spinning.w /\ ~s.spinning.r
  /\ s.waiting.w > 0

\* Mutant: the flag is not set for the writer that is woken.
WriterWokenUnflagged(s) == [s EXCEPT !.waiting.w = @ - 1]

WriterWoken(s) == [s EXCEPT !.waiting.w = @ - 1, !.spinning.w = TRUE]

\* Mutant: one of the readers is woken.
WakesReadersOne(s) ==
  IF WakesWriter(s) \/ s.spinning.w \/ s.waiting.r = 0 THEN 0 ELSE 1

\* All readers that wait are woken if no writer is, and none spins.
WakesReaders(s) == IF WakesWriter(s) \/ s.spinning.w THEN 0 ELSE s.waiting.r

ReadersWoken(s) == [s EXCEPT !.waiting.r = 0, !.spinning.r = TRUE]

\* The word becomes s, and what was decided is posted next.
Release(t, s, to, count) ==
  /\ st' = s
  /\ owed' = [owed EXCEPT ![t] = IF count = 0 THEN Nothing ELSE [to |-> to, count |-> count]]
  /\ Goto(t, IF count = 0 THEN "idle" ELSE "post")
  /\ UNCHANGED <<sem, mode, reset, spin>>

Unlock(t) ==
  LET s == [st EXCEPT !.wlock = FALSE] IN
  /\ pc[t] = "held" /\ mode[t] = "w"
  /\ IF WakesWriter(s) THEN Release(t, WriterWoken(s), "w", 1)
     ELSE IF WakesReaders(s) > 0 THEN Release(t, ReadersWoken(s), "r", WakesReaders(s))
     ELSE Release(t, s, "w", 0)

ReadUnlock(t) ==
  LET s == [st EXCEPT !.readers = @ - 1] IN
  /\ pc[t] = "held" /\ mode[t] = "r"
  /\ IF WakesWriter(s) THEN Release(t, WriterWoken(s), "w", 1)
     ELSE Release(t, s, "w", 0)

----------------------------------------------------------------------------
\* What a thread that is scheduled does sooner or later once it has asked
\* for the lock, or owes a post.
Progress(t) ==
  \/ Acquire(t) \/ Block(t) \/ Announce(t) \/ Wait(t)
  \/ Post(t) \/ FutexWake(t)

Next ==
  \E t \in Threads :
    \/ \E m \in Modes : Enter(t, m)
    \/ TryLock(t) \/ Progress(t)
    \/ SpinOn(t) \/ FutexWait(t) \/ FutexInterrupted(t)
    \/ Unlock(t) \/ ReadUnlock(t)

Spec == Init /\ [][Next]_vars

\* Every thread that can run is scheduled.  When holders unlock is left open.
FairSpec == Spec /\ \A t \in Threads : WF_vars(Progress(t))

----------------------------------------------------------------------------
(* The variables have their types.  That the counters never go below zero  *)
(* is why Unlock may subtract from them.                                   *)
TypeOK ==
  /\ st \in [readers : 0..Cardinality(Threads), wlock : BOOLEAN,
             waiting : [Modes -> 0..Cardinality(Threads)],
             spinning : [Modes -> BOOLEAN]]
  /\ sem \in [Modes -> 0..Cardinality(Threads)]
  /\ pc \in [Threads -> {"idle", "lock", "wait", "asleep", "held", "post", "wake"}]
  /\ mode \in [Threads -> Modes]
  /\ reset \in [Threads -> BOOLEAN]
  /\ spin \in [Threads -> 0..kMaxSpinIters + 1]
  /\ owed \in [Threads -> [to : Modes, count : 0..Cardinality(Threads)]]

Holders(m) == {t \in Threads : pc[t] = "held" /\ mode[t] = m}

Blocked(m) == {t \in Threads : pc[t] \in {"wait", "asleep"} /\ mode[t] = m}

\* Tokens that Unlock has decided on and not yet posted, numbered by thread.
Tokens(m) ==
  UNION {{t} \X (1..owed[t].count) : t \in {u \in Threads : pc[u] = "post" /\ owed[u].to = m}}

Promised(m) == Cardinality(Tokens(m))

Lock == INSTANCE RwLock WITH writers <- Holders("w"), readers <- Holders("r")

(* The mutex implements the reader-writer lock: whatever mixture of        *)
(* spinning, blocking and waking, a writer is alone.                       *)
LockSpec == Lock!Spec

(* No wake-up is lost or made twice: the threads blocked in Wait() are     *)
(* those counted as waiting in the word, plus one for each token posted or *)
(* promised ("the counter will be decremented by whoever wakes us").       *)
WaitersCounted ==
  \A m \in Modes : Cardinality(Blocked(m)) = st.waiting[m] + sem[m] + Promised(m)

(* The assertion at the end of the loop of Lock(): a writer that announced *)
(* itself, or was woken, finds the flag set whenever it looks, although    *)
(* other writers set and clear it.                                         *)
AwakeWriterFlagged ==
  \A t \in Threads : pc[t] = "lock" /\ mode[t] = "w" /\ reset[t] => st.spinning.w

(* While threads are counted as waiting, the lock is held or somebody is   *)
(* awake, or about to be woken, who will take it and wake them.            *)
NoOneForgotten ==
  st.waiting.w + st.waiting.r > 0 =>
    \/ st.wlock \/ st.readers > 0
    \/ \E t \in Threads : pc[t] = "lock"
    \/ \E m \in Modes : sem[m] + Promised(m) > 0

(* If a thread wants the lock, the lock is taken: the threads never all    *)
(* wait for each other.                                                    *)
WantedIsTaken ==
  (\E t \in Threads : pc[t] \in {"lock", "wait", "asleep"})
    ~> (\E t \in Threads : pc[t] = "held")
============================================================================
