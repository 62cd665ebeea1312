---------------------------- MODULE RwMutex_proofs ----------------------------
(***************************************************************************)
(* The properties of the mutex for any finite number of threads.           *)
(*                                                                         *)
(* The word of the mutex is related to the places of the threads: its      *)
(* counters are the sizes of sets of threads, and a flag that is set has   *)
(* an owner.                                                               *)
(***************************************************************************)
EXTENDS RwMutex, FiniteSetTheorems, TLAPS

N == Cardinality(Threads)

\* The threads that will clear the flag of their kind when they leave the loop.
Claimants(m) == {t \in Threads : pc[t] = "lock" /\ mode[t] = m /\ reset[t]}

\* Tokens posted or promised: each is a wake-up that is under way.
Coming(m) == sem[m] + Promised(m)

\* The word says who is inside.
HoldersInv ==
  /\ st.wlock <=> Holders("w") # {}
  /\ \A t, u \in Holders("w") : t = u
  /\ st.readers = Cardinality(Holders("r"))
  /\ st.wlock => Holders("r") = {}

\* A flag that is set belongs to a thread that is awake or being woken.
FlagInv == \A m \in Modes : st.spinning[m] => Claimants(m) # {} \/ Coming(m) > 0

\* At most one writer is awake or being woken under the flag of the writers,
\* and while there is one the flag is set.
WriterInv ==
  /\ Coming("w") <= 1
  /\ \A t, u \in Claimants("w") : t = u
  /\ Claimants("w") # {} => Coming("w") = 0
  /\ Claimants("w") # {} \/ Coming("w") > 0 => st.spinning["w"]

\* Readers that wait have a writer before them: ReadUnlock, which wakes no
\* reader, need not look for them.
ReaderInv ==
  st.waiting["r"] > 0 => st.wlock \/ st.waiting["w"] > 0 \/ st.spinning["w"]

Inv ==
  /\ TypeOK /\ HoldersInv /\ WaitersCounted
  /\ FlagInv /\ WriterInv /\ ReaderInv /\ NoOneForgotten

\* TypeOK without the bounds that follow from the counting.
Word == [readers : Nat, wlock : BOOLEAN,
         waiting : [Modes -> Nat], spinning : [Modes -> BOOLEAN]]

Shape ==
  /\ st \in Word
  /\ sem \in [Modes -> Nat]
  /\ pc \in [Threads -> {"idle", "lock", "wait", "asleep", "held", "post", "wake"}]
  /\ mode \in [Threads -> Modes]
  /\ reset \in [Threads -> BOOLEAN]
  /\ spin \in [Threads -> 0..kMaxSpinIters + 1]
  /\ owed \in [Threads -> [to : Modes, count : 0..N]]

----------------------------------------------------------------------------
(* Sets of threads and of tokens.                                          *)

LEMMA NType == N \in Nat /\ IsFiniteSet(Threads)
BY MutexAssumption, FS_CardinalityType DEF N

LEMMA TypeHasShape == ASSUME TypeOK PROVE Shape
<1>1. 0..N \subseteq Nat
  BY NType
<1> QED  BY <1>1 DEF TypeOK, Shape, Word, N

LEMMA ThreadSets ==
  ASSUME NEW S \in SUBSET Threads
  PROVE  IsFiniteSet(S) /\ Cardinality(S) \in 0..N
<1>1. IsFiniteSet(S) /\ Cardinality(S) <= N
  BY NType, FS_Subset DEF N
<1>2. Cardinality(S) \in Nat
  BY <1>1, FS_CardinalityType
<1> QED  BY <1>1, <1>2, NType

LEMMA TokenSets ==
  ASSUME Shape, NEW m \in Modes
  PROVE  IsFiniteSet(Tokens(m)) /\ Promised(m) \in Nat
<1>1. Tokens(m) \subseteq Threads \X (1..N)
  <2> SUFFICES ASSUME NEW u \in Threads
               PROVE  {u} \X (1..owed[u].count) \subseteq Threads \X (1..N)
    BY DEF Tokens
  <2>1. owed[u].count \in 0..N
    BY DEF Shape
  <2> QED  BY <2>1, NType
<1>2. IsFiniteSet(1..N)
  BY NType, FS_Interval
<1>3. IsFiniteSet(Threads \X (1..N))
  BY <1>2, NType, FS_Product
<1>4. IsFiniteSet(Tokens(m))
  BY <1>1, <1>3, FS_Subset
<1> QED  BY <1>4, FS_CardinalityType DEF Promised

\* The same after a step.
LEMMA TokenSetsNext ==
  ASSUME Shape', NEW m \in Modes
  PROVE  IsFiniteSet(Tokens(m)') /\ Promised(m)' \in Nat
<1>1. Tokens(m)' \subseteq Threads \X (1..N)
  <2> SUFFICES ASSUME NEW u \in Threads
               PROVE  {u} \X (1..owed'[u].count) \subseteq Threads \X (1..N)
    BY DEF Tokens
  <2>1. owed'[u].count \in 0..N
    BY DEF Shape
  <2> QED  BY <2>1, NType
<1>2. IsFiniteSet(1..N)
  BY NType, FS_Interval
<1>3. IsFiniteSet(Threads \X (1..N))
  BY <1>2, NType, FS_Product
<1>4. IsFiniteSet(Tokens(m)')
  BY <1>1, <1>3, FS_Subset
<1> QED  BY <1>4, FS_CardinalityType DEF Promised

LEMMA TokensOfOne ==
  ASSUME NEW t, NEW n \in Nat
  PROVE  IsFiniteSet({t} \X (1..n)) /\ Cardinality({t} \X (1..n)) = n
<1>1. IsFiniteSet({t}) /\ Cardinality({t}) = 1
  BY FS_Singleton
<1>2. IsFiniteSet(1..n) /\ Cardinality(1..n) = n
  BY FS_Interval
<1>3. Cardinality({t} \X (1..n)) = 1 * n /\ IsFiniteSet({t} \X (1..n))
  <2>1. PICK A : A = {t}
    OBVIOUS
  <2>2. PICK B : B = 1..n
    OBVIOUS
  <2>3. IsFiniteSet(A) /\ Cardinality(A) = 1 /\ IsFiniteSet(B) /\ Cardinality(B) = n
    BY <1>1, <1>2, <2>1, <2>2
  <2>4. Cardinality(A \X B) = Cardinality(A) * Cardinality(B) /\ IsFiniteSet(A \X B)
    BY <2>3, FS_Product
  <2> QED  BY <2>1, <2>2, <2>3, <2>4
<1> QED  BY <1>3

LEMMA DisjointSum ==
  ASSUME NEW A, NEW B, IsFiniteSet(A), IsFiniteSet(B), A \cap B = {}
  PROVE  Cardinality(A \cup B) = Cardinality(A) + Cardinality(B)
<1>1. Cardinality(A \cup B) = Cardinality(A) + Cardinality(B) - Cardinality(A \cap B)
  BY FS_Union
<1>2. Cardinality(A \cap B) = 0
  BY FS_EmptySet
<1>3. Cardinality(A) \in Nat /\ Cardinality(B) \in Nat
  BY FS_CardinalityType
<1> QED  BY <1>1, <1>2, <1>3

\* Unlock promises n tokens ...
LEMMA PromiseAdds ==
  ASSUME Shape, NEW t \in Threads, pc[t] = "held",
         NEW k \in Modes, NEW n \in 0..N,
         pc' = [pc EXCEPT ![t] = "post"],
         owed' = [owed EXCEPT ![t] = [to |-> k, count |-> n]]
  PROVE  /\ Promised(k)' = Promised(k) + n
         /\ \A m \in Modes \ {k} : Promised(m)' = Promised(m)
<1> DEFINE P(m) == {u \in Threads : pc[u] = "post" /\ owed[u].to = m}
           Q(m) == {u \in Threads : pc'[u] = "post" /\ owed'[u].to = m}
<1>1. /\ Q(k) = P(k) \cup {t} /\ t \notin P(k) /\ owed'[t].count = n
      /\ \A m \in Modes \ {k} : Q(m) = P(m) /\ t \notin P(m)
      /\ \A u \in Threads \ {t} : owed'[u] = owed[u]
  BY DEF Shape
<1>2. Tokens(k)' = Tokens(k) \cup ({t} \X (1..n))
  BY <1>1 DEF Tokens
<1>3. Tokens(k) \cap ({t} \X (1..n)) = {}
  BY <1>1 DEF Tokens
<1>4. \A m \in Modes \ {k} : Tokens(m)' = Tokens(m)
  BY <1>1 DEF Tokens
<1>5. n \in Nat
  BY NType
<1>6. Cardinality(Tokens(k)') = Cardinality(Tokens(k)) + n
  <2>1. IsFiniteSet(Tokens(k)) /\ IsFiniteSet({t} \X (1..n))
    BY <1>5, TokenSets, TokensOfOne
  <2>2. Cardinality({t} \X (1..n)) = n
    BY <1>5, TokensOfOne
  <2>3. Cardinality(Tokens(k) \cup ({t} \X (1..n)))
          = Cardinality(Tokens(k)) + Cardinality({t} \X (1..n))
    BY <2>1, <1>3, DisjointSum
  <2> QED  BY <1>2, <2>2, <2>3
<1> QED  BY <1>4, <1>6 DEF Promised

\* ... and posts them.
LEMMA PostTakesAway ==
  ASSUME Shape, NEW t \in Threads, pc[t] = "post",
         NEW k \in Modes, owed[t].to = k, NEW n \in Nat, owed[t].count = n,
         pc' = [pc EXCEPT ![t] = "wake"], owed' = owed
  PROVE  /\ Promised(k) = Promised(k)' + n
         /\ \A m \in Modes \ {k} : Promised(m)' = Promised(m)
<1> DEFINE P(m) == {u \in Threads : pc[u] = "post" /\ owed[u].to = m}
           Q(m) == {u \in Threads : pc'[u] = "post" /\ owed'[u].to = m}
<1>1. /\ P(k) = Q(k) \cup {t} /\ t \notin Q(k)
      /\ \A m \in Modes \ {k} : Q(m) = P(m)
  BY DEF Shape
<1>2. Tokens(k) = Tokens(k)' \cup ({t} \X (1..n))
  BY <1>1 DEF Tokens
<1>3. Tokens(k)' \cap ({t} \X (1..n)) = {}
  BY <1>1 DEF Tokens
<1>4. \A m \in Modes \ {k} : Tokens(m)' = Tokens(m)
  BY <1>1 DEF Tokens
<1>5. IsFiniteSet(Tokens(k)')
  <2>1. Tokens(k)' \subseteq Tokens(k)
    BY <1>2
  <2> QED  BY <2>1, TokenSets, FS_Subset
<1>6. Cardinality(Tokens(k)) = Cardinality(Tokens(k)') + n
  <2>1. IsFiniteSet({t} \X (1..n)) /\ Cardinality({t} \X (1..n)) = n
    BY TokensOfOne
  <2>2. Cardinality(Tokens(k)' \cup ({t} \X (1..n)))
          = Cardinality(Tokens(k)') + Cardinality({t} \X (1..n))
    BY <2>1, <1>5, <1>3, DisjointSum
  <2> QED  BY <1>2, <2>1, <2>2
<1> QED  BY <1>4, <1>6 DEF Promised

\* The bounds of TypeOK follow from the counting.
LEMMA Bounds ==
  ASSUME Shape', HoldersInv', WaitersCounted'
  PROVE  TypeOK'
<1>1. st'.readers \in 0..N
  <2>1. Holders("r")' \in SUBSET Threads
    BY DEF Holders
  <2> QED  BY <2>1, ThreadSets DEF HoldersInv
<1>2. \A m \in Modes : st'.waiting[m] \in 0..N /\ sem'[m] \in 0..N
  <2> SUFFICES ASSUME NEW m \in Modes PROVE st'.waiting[m] \in 0..N /\ sem'[m] \in 0..N
    OBVIOUS
  <2>1. Blocked(m)' \in SUBSET Threads
    BY DEF Blocked
  <2>2. Cardinality(Blocked(m)') \in 0..N
    BY <2>1, ThreadSets
  <2>3. Promised(m)' \in Nat
    BY TokenSetsNext
  <2>4. Cardinality(Blocked(m)') = st'.waiting[m] + sem'[m] + Promised(m)'
    BY DEF WaitersCounted
  <2>5. st'.waiting[m] \in Nat /\ sem'[m] \in Nat
    BY DEF Shape, Word
  <2> HIDE DEF Promised
  <2> QED  BY <2>2, <2>3, <2>4, <2>5, NType
<1>3. st'.waiting \in [Modes -> 0..N] /\ sem' \in [Modes -> 0..N]
  BY <1>2 DEF Shape, Word
<1>4. st' \in [readers : 0..N, wlock : BOOLEAN,
               waiting : [Modes -> 0..N], spinning : [Modes -> BOOLEAN]]
  BY <1>1, <1>3 DEF Shape, Word
<1> QED  BY <1>3, <1>4 DEF Shape, Word, TypeOK, N

LEMMA Numbers ==
  ASSUME Shape, NEW m \in Modes
  PROVE  /\ sem[m] \in Nat /\ Promised(m) \in Nat /\ Coming(m) \in Nat
         /\ st.waiting[m] \in Nat /\ st.readers \in Nat
<1>1. Promised(m) \in Nat
  BY TokenSets
<1> QED  BY <1>1 DEF Shape, Word, Coming

----------------------------------------------------------------------------
LEMMA InitInv == Init => Inv
<1> SUFFICES ASSUME Init PROVE Inv
  OBVIOUS
<1>1. /\ \A m \in Modes : st.waiting[m] = 0 /\ st.spinning[m] = FALSE /\ sem[m] = 0
      /\ st.readers = 0 /\ st.wlock = FALSE
      /\ \A t \in Threads : pc[t] = "idle"
  BY DEF Init, Free
<1>2. 0 \in 0..N
  BY NType
<1>3. TypeOK
  <2>1. Nothing \in [to : Modes, count : 0..N]
    BY <1>2 DEF Nothing, Modes
  <2>2. 0 \in 0..kMaxSpinIters + 1
    BY MutexAssumption
  <2>3. Free \in [readers : 0..N, wlock : BOOLEAN,
                  waiting : [Modes -> 0..N], spinning : [Modes -> BOOLEAN]]
    BY <1>2 DEF Free
  <2>4. "w" \in Modes
    BY DEF Modes
  <2> QED  BY <1>2, <2>1, <2>2, <2>3, <2>4 DEF Init, TypeOK, N
<1>4. \A m \in Modes : Holders(m) = {} /\ Blocked(m) = {} /\ Claimants(m) = {} /\ Tokens(m) = {}
  BY <1>1 DEF Holders, Blocked, Claimants, Tokens
<1>5. "w" \in Modes /\ "r" \in Modes
  BY DEF Modes
<1>6. Cardinality({}) = 0
  BY FS_EmptySet
<1>7. HoldersInv
  BY <1>1, <1>4, <1>5, <1>6 DEF HoldersInv
<1>8. WaitersCounted
  BY <1>1, <1>4, <1>6 DEF WaitersCounted, Promised
<1>9. FlagInv /\ WriterInv /\ ReaderInv
  BY <1>1, <1>4, <1>5, <1>6 DEF FlagInv, WriterInv, ReaderInv, Coming, Promised
<1>10. NoOneForgotten
  BY <1>1, <1>5 DEF NoOneForgotten
<1> QED  BY <1>3, <1>7, <1>8, <1>9, <1>10 DEF Inv

\* A step that changes neither the word nor the semaphores, nor who counts.
LEMMA Unmoved ==
  ASSUME Inv, Shape', st' = st, sem' = sem,
         \A m \in Modes : /\ Holders(m)' = Holders(m) /\ Blocked(m)' = Blocked(m)
                          /\ Claimants(m)' = Claimants(m) /\ Tokens(m)' = Tokens(m),
         (\E t \in Threads : pc[t] = "lock") => (\E t \in Threads : pc'[t] = "lock")
  PROVE  Inv'
<1>0. "w" \in Modes /\ "r" \in Modes
  BY DEF Modes
<1>1. \A m \in Modes : Promised(m)' = Promised(m) /\ Coming(m)' = Coming(m)
  BY DEF Promised, Coming
<1>2. HoldersInv'
  BY <1>0 DEF Inv, HoldersInv
<1>3. WaitersCounted'
  BY <1>1 DEF Inv, WaitersCounted
<1>4. FlagInv' /\ WriterInv' /\ ReaderInv'
  BY <1>0, <1>1 DEF Inv, FlagInv, WriterInv, ReaderInv
<1>5. NoOneForgotten'
  BY <1>1 DEF Inv, NoOneForgotten
<1>6. TypeOK'
  BY <1>2, <1>3, Bounds
<1> QED  BY <1>2, <1>3, <1>4, <1>5, <1>6 DEF Inv

LEMMA EnterInv ==
  ASSUME Inv, NEW t \in Threads, NEW k \in Modes, Enter(t, k) PROVE Inv'
<1>0. Shape
  BY TypeHasShape DEF Inv
<1>1. Shape'
  <2>1. 0 \in 0..kMaxSpinIters + 1
    BY MutexAssumption
  <2> QED  BY <1>0, <2>1 DEF Shape, Enter, Goto
<1>2. /\ pc'[t] = "lock" /\ pc[t] = "idle" /\ ~reset'[t]
      /\ \A u \in Threads \ {t} : pc'[u] = pc[u] /\ mode'[u] = mode[u] /\ reset'[u] = reset[u]
      /\ st' = st /\ sem' = sem /\ owed' = owed
  BY <1>0 DEF Shape, Enter, Goto
<1>3. \A m \in Modes : /\ Holders(m)' = Holders(m) /\ Blocked(m)' = Blocked(m)
                       /\ Claimants(m)' = Claimants(m) /\ Tokens(m)' = Tokens(m)
  BY <1>2 DEF Holders, Blocked, Claimants, Tokens
<1> QED  BY <1>1, <1>2, <1>3, Unmoved

LEMMA SpinOnInv ==
  ASSUME Inv, NEW t \in Threads, SpinOn(t) PROVE Inv'
<1>0. Shape
  BY TypeHasShape DEF Inv
<1>1. Shape'
  <2>1. spin[t] + 1 \in 0..kMaxSpinIters + 1
    BY <1>0, MutexAssumption DEF SpinOn, Shape
  <2> QED  BY <1>0, <2>1 DEF Shape, SpinOn
<1>2. \A m \in Modes : /\ Holders(m)' = Holders(m) /\ Blocked(m)' = Blocked(m)
                       /\ Claimants(m)' = Claimants(m) /\ Tokens(m)' = Tokens(m)
  BY DEF SpinOn, Holders, Blocked, Claimants, Tokens
<1> QED  BY <1>1, <1>2, Unmoved DEF SpinOn

LEMMA FutexWaitInv ==
  ASSUME Inv, NEW t \in Threads, FutexWait(t) \/ FutexInterrupted(t) PROVE Inv'
<1>0. Shape
  BY TypeHasShape DEF Inv
<1>1. Shape'
  BY <1>0 DEF Shape, FutexWait, FutexInterrupted, Goto
<1>2. /\ pc'[t] \in {"wait", "asleep"} /\ pc[t] \in {"wait", "asleep"}
      /\ \A u \in Threads \ {t} : pc'[u] = pc[u]
      /\ st' = st /\ sem' = sem /\ owed' = owed /\ mode' = mode /\ reset' = reset
  BY <1>0 DEF Shape, FutexWait, FutexInterrupted, Goto
<1>3. \A m \in Modes : /\ Holders(m)' = Holders(m) /\ Blocked(m)' = Blocked(m)
                       /\ Claimants(m)' = Claimants(m) /\ Tokens(m)' = Tokens(m)
  BY <1>2 DEF Holders, Blocked, Claimants, Tokens
<1> QED  BY <1>1, <1>2, <1>3, Unmoved

LEMMA FutexWakeInv ==
  ASSUME Inv, NEW t \in Threads, FutexWake(t) PROVE Inv'
<1> DEFINE asleep == {u \in Threads : pc[u] = "asleep" /\ mode[u] = owed[t].to}
<1>0. Shape
  BY TypeHasShape DEF Inv
<1>1. PICK woken \in SUBSET asleep :
        pc' = [u \in Threads |-> IF u = t THEN "idle"
                                 ELSE IF u \in woken THEN "wait" ELSE pc[u]]
  BY DEF FutexWake
<1>2. /\ pc[t] = "wake" /\ owed' = [owed EXCEPT ![t] = Nothing]
      /\ st' = st /\ sem' = sem /\ mode' = mode /\ reset' = reset /\ spin' = spin
  BY DEF FutexWake
<1>3. Shape'
  <2>1. Nothing \in [to : Modes, count : 0..N]
    BY NType DEF Nothing, Modes
  <2>2. owed' \in [Threads -> [to : Modes, count : 0..N]]
    BY <1>0, <1>2, <2>1 DEF Shape
  <2>3. pc' \in [Threads -> {"idle", "lock", "wait", "asleep", "held", "post", "wake"}]
    BY <1>0, <1>1 DEF Shape
  <2> QED  BY <1>0, <1>2, <2>2, <2>3 DEF Shape
<1>4. /\ pc'[t] = "idle"
      /\ \A u \in Threads \ {t} : \/ pc'[u] = pc[u]
                                  \/ pc[u] = "asleep" /\ pc'[u] = "wait"
      /\ \A u \in Threads \ {t} : owed'[u] = owed[u]
  BY <1>0, <1>1, <1>2 DEF Shape
<1>5. \A m \in Modes : /\ Holders(m)' = Holders(m) /\ Blocked(m)' = Blocked(m)
                       /\ Claimants(m)' = Claimants(m)
  BY <1>2, <1>4 DEF Holders, Blocked, Claimants
<1>6. \A m \in Modes : Tokens(m)' = Tokens(m)
  <2> SUFFICES ASSUME NEW m \in Modes PROVE Tokens(m)' = Tokens(m)
    OBVIOUS
  <2>1. {u \in Threads : pc'[u] = "post" /\ owed'[u].to = m}
          = {u \in Threads : pc[u] = "post" /\ owed[u].to = m}
    BY <1>2, <1>4
  <2>2. \A u \in {v \in Threads : pc[v] = "post" /\ owed[v].to = m} : owed'[u] = owed[u]
    BY <1>2, <1>4
  <2> QED  BY <2>1, <2>2 DEF Tokens
<1>7. (\E u \in Threads : pc[u] = "lock") => (\E u \in Threads : pc'[u] = "lock")
  BY <1>2, <1>4
<1> QED  BY <1>2, <1>3, <1>5, <1>6, <1>7, Unmoved

----------------------------------------------------------------------------
(* Entering.                                                               *)

LEMMA TakenWord ==
  ASSUME NEW s \in Word, NEW k \in Modes
  PROVE  /\ Taken(s, k) \in Word
         /\ Taken(s, k).waiting = s.waiting /\ Taken(s, k).spinning = s.spinning
         /\ Taken(s, k).wlock <=> (s.wlock \/ k = "w")
         /\ Taken(s, k).readers = IF k = "r" THEN s.readers + 1 ELSE s.readers
<1>1. CASE k = "w"
  BY <1>1 DEF Taken, Word
<1>2. CASE k = "r"
  BY <1>2 DEF Taken, Word
<1> QED  BY <1>1, <1>2 DEF Modes

LEMMA MaskedWord ==
  ASSUME NEW s \in Word, NEW k \in Modes, NEW on \in BOOLEAN
  PROVE  /\ Masked(s, k, on) \in Word
         /\ Masked(s, k, on).waiting = s.waiting
         /\ Masked(s, k, on).wlock = s.wlock /\ Masked(s, k, on).readers = s.readers
         /\ \A m \in Modes : Masked(s, k, on).spinning[m] <=> (s.spinning[m] /\ ~(on /\ m = k))
<1>1. CASE on
  <2>1. Masked(s, k, on) = [s EXCEPT !.spinning = [s.spinning EXCEPT ![k] = FALSE]]
    BY <1>1 DEF Masked
  <2>2. s.spinning \in [Modes -> BOOLEAN]
    BY DEF Word
  <2>3. [s.spinning EXCEPT ![k] = FALSE] \in [Modes -> BOOLEAN]
    BY <2>2
  <2>4. /\ Masked(s, k, on) \in Word
        /\ Masked(s, k, on).spinning = [s.spinning EXCEPT ![k] = FALSE]
        /\ Masked(s, k, on).waiting = s.waiting
        /\ Masked(s, k, on).wlock = s.wlock /\ Masked(s, k, on).readers = s.readers
    BY <2>1, <2>3 DEF Word
  <2> QED  BY <1>1, <2>2, <2>4
<1>2. CASE ~on
  BY <1>2 DEF Masked
<1> QED  BY <1>1, <1>2

\* A thread takes the lock as k, having announced itself or not.
LEMMA TakenInv ==
  ASSUME Inv, Shape', NEW t \in Threads, NEW k \in Modes, NEW on \in BOOLEAN,
         ~Locked(k), pc[t] \notin {"held", "post", "wait", "asleep"},
         on <=> t \in Claimants(k), \A m \in Modes \ {k} : t \notin Claimants(m),
         st' = Masked(Taken(st, k), k, on), sem' = sem, owed' = owed,
         pc'[t] = "held", mode'[t] = k,
         \A u \in Threads \ {t} : pc'[u] = pc[u] /\ mode'[u] = mode[u] /\ reset'[u] = reset[u]
  PROVE  Inv'
<1>0. Shape /\ "w" \in Modes /\ "r" \in Modes
  BY TypeHasShape DEF Inv, Modes
<1>1. /\ st'.waiting = st.waiting
      /\ st'.wlock <=> (st.wlock \/ k = "w")
      /\ st'.readers = IF k = "r" THEN st.readers + 1 ELSE st.readers
      /\ \A m \in Modes : st'.spinning[m] <=> (st.spinning[m] /\ ~(on /\ m = k))
  <2>1. st \in Word
    BY <1>0 DEF Shape
  <2>2. PICK s \in Word : s = Taken(st, k)
    BY <2>1, TakenWord
  <2>3. /\ s.waiting = st.waiting /\ s.spinning = st.spinning
        /\ s.wlock <=> (st.wlock \/ k = "w")
        /\ s.readers = IF k = "r" THEN st.readers + 1 ELSE st.readers
    BY <2>1, <2>2, TakenWord
  <2>4. st' = Masked(s, k, on)
    BY <2>2
  <2> QED  BY <2>3, <2>4, MaskedWord
<1>2. /\ Holders(k)' = Holders(k) \cup {t} /\ t \notin Holders(k)
      /\ \A m \in Modes \ {k} : Holders(m)' = Holders(m)
      /\ \A m \in Modes : Claimants(m)' = Claimants(m) \ {t} /\ Blocked(m)' = Blocked(m)
  BY DEF Holders, Claimants, Blocked
<1>3. \A m \in Modes : Tokens(m)' = Tokens(m)
  <2> SUFFICES ASSUME NEW m \in Modes PROVE Tokens(m)' = Tokens(m)
    OBVIOUS
  <2>1. {u \in Threads : pc'[u] = "post" /\ owed'[u].to = m}
          = {u \in Threads : pc[u] = "post" /\ owed[u].to = m}
    OBVIOUS
  <2> QED  BY <2>1 DEF Tokens
<1>4. \A m \in Modes : Promised(m)' = Promised(m) /\ Coming(m)' = Coming(m)
  BY <1>3 DEF Promised, Coming
<1>5. HoldersInv'
  <2>1. ~st.wlock /\ Holders("w") = {}
    BY DEF Locked, Inv, HoldersInv
  <2>2. CASE k = "w"
    <3>1. st.readers = 0
      BY <2>2, <1>0 DEF Locked, Shape, Word
    <3>2. Holders("r") = {}
      <4>1. Holders("r") \in SUBSET Threads
        BY DEF Holders
      <4>2. Cardinality(Holders("r")) = 0
        BY <3>1 DEF Inv, HoldersInv
      <4>3. IsFiniteSet(Holders("r"))
        BY <4>1, ThreadSets
      <4> QED  BY <4>2, <4>3, FS_EmptySet
    <3> QED  BY <1>0, <1>1, <1>2, <2>1, <2>2, <3>1, <3>2 DEF Inv, HoldersInv
  <2>3. CASE k = "r"
    <3>1. Holders("r") \in SUBSET Threads
      BY DEF Holders
    <3>2. Cardinality(Holders("r") \cup {t}) = Cardinality(Holders("r")) + 1
      BY <1>2, <2>3, <3>1, ThreadSets, FS_AddElement
    <3>3. st.readers = Cardinality(Holders("r"))
      BY DEF Inv, HoldersInv
    <3>4. Holders("r")' = Holders("r") \cup {t} /\ Holders("w")' = {}
      BY <1>0, <1>2, <2>1, <2>3
    <3>5. ~st'.wlock /\ st'.readers = st.readers + 1
      BY <1>1, <2>1, <2>3
    <3> QED  BY <3>2, <3>3, <3>4, <3>5 DEF HoldersInv
  <2> QED  BY <2>2, <2>3 DEF Modes
<1>6. WaitersCounted'
  BY <1>1, <1>2, <1>4 DEF Inv, WaitersCounted
<1>7. FlagInv'
  BY <1>1, <1>2, <1>4 DEF Inv, FlagInv
<1>8. WriterInv'
  <2>1. Claimants("w")' \subseteq Claimants("w") /\ Coming("w")' = Coming("w")
    BY <1>0, <1>2, <1>4
  <2>2. ASSUME Claimants("w")' # {} \/ Coming("w") > 0 PROVE st'.spinning["w"]
    <3>1. t \notin Claimants("w")
      BY <2>2, <1>0, <1>2, Numbers DEF Inv, WriterInv
    <3> QED  BY <2>1, <2>2, <3>1, <1>0, <1>1 DEF Inv, WriterInv
  <2> QED  BY <2>1, <2>2 DEF Inv, WriterInv
<1>9. ReaderInv'
  BY <1>0, <1>1 DEF Inv, ReaderInv, Locked, Modes
<1>10. NoOneForgotten'
  <2>1. st'.wlock \/ st'.readers > 0
    BY <1>0, <1>1 DEF Shape, Word, Modes
  <2> QED  BY <2>1 DEF NoOneForgotten
<1>11. TypeOK'
  BY <1>5, <1>6, Bounds
<1> QED  BY <1>5, <1>6, <1>7, <1>8, <1>9, <1>10, <1>11 DEF Inv

LEMMA TryLockInv ==
  ASSUME Inv, NEW t \in Threads, TryLock(t) PROVE Inv'
<1>0. Shape /\ "w" \in Modes
  BY TypeHasShape DEF Inv, Modes
<1>1. Taken(st, "w") \in Word
  BY <1>0, TakenWord DEF Shape
<1>2. Shape'
  BY <1>0, <1>1 DEF Shape, TryLock, Goto
<1>3. st' = Masked(Taken(st, "w"), "w", FALSE)
  BY DEF TryLock, Masked
<1>4. /\ pc[t] = "idle" /\ pc'[t] = "held" /\ mode'[t] = "w" /\ ~Locked("w")
      /\ sem' = sem /\ owed' = owed
      /\ \A u \in Threads \ {t} : pc'[u] = pc[u] /\ mode'[u] = mode[u] /\ reset'[u] = reset[u]
  BY <1>0 DEF Shape, TryLock, Goto
<1>5. \A m \in Modes : t \notin Claimants(m)
  BY <1>4 DEF Claimants
<1> QED  BY <1>0, <1>2, <1>3, <1>4, <1>5, TakenInv

LEMMA AcquireInv ==
  ASSUME Inv, NEW t \in Threads, Acquire(t) PROVE Inv'
<1> DEFINE k == mode[t]
<1>0. Shape /\ k \in Modes /\ reset[t] \in BOOLEAN
  BY TypeHasShape DEF Inv, Shape
<1>1. Masked(Taken(st, k), k, reset[t]) \in Word
  BY <1>0, TakenWord, MaskedWord DEF Shape
<1>2. Shape'
  BY <1>0, <1>1 DEF Shape, Acquire, Goto
<1>4. /\ pc[t] = "lock" /\ pc'[t] = "held" /\ mode'[t] = k /\ ~Locked(k)
      /\ st' = Masked(Taken(st, k), k, reset[t])
      /\ sem' = sem /\ owed' = owed
      /\ \A u \in Threads \ {t} : pc'[u] = pc[u] /\ mode'[u] = mode[u] /\ reset'[u] = reset[u]
  BY <1>0 DEF Shape, Acquire, Goto
<1>5. /\ reset[t] <=> t \in Claimants(k)
      /\ \A m \in Modes \ {k} : t \notin Claimants(m)
  BY <1>4 DEF Claimants
<1> QED  BY <1>0, <1>2, <1>4, <1>5, TakenInv

----------------------------------------------------------------------------
(* Waiting.                                                                *)

LEMMA BlockInv ==
  ASSUME Inv, NEW t \in Threads, Block(t) PROVE Inv'
<1>0. Shape /\ "w" \in Modes /\ "r" \in Modes /\ reset[t] \in BOOLEAN
  BY TypeHasShape DEF Inv, Shape, Modes
<1>k. PICK k \in Modes : mode[t] = k
  BY <1>0 DEF Shape
<1> DEFINE s == [st EXCEPT !.waiting[k] = @ + 1]
<1>1. s \in Word /\ st' = Masked(s, k, reset[t])
  <2>1. s \in Word
    BY <1>0 DEF Shape, Word
  <2>2. st' = Masked(s, k, reset[t])
    BY <1>k DEF Block
  <2> QED  BY <2>1, <2>2
<1>2. Shape'
  <2>1. st' \in Word
    BY <1>0, <1>1, MaskedWord
  <2> QED  BY <1>0, <2>1 DEF Shape, Block, Goto
<1>3. /\ st'.wlock = st.wlock /\ st'.readers = st.readers
      /\ st'.waiting[k] = st.waiting[k] + 1
      /\ \A m \in Modes \ {k} : st'.waiting[m] = st.waiting[m]
      /\ \A m \in Modes : st'.spinning[m] <=> (st.spinning[m] /\ ~(reset[t] /\ m = k))
  <2>1. /\ s.wlock = st.wlock /\ s.readers = st.readers /\ s.spinning = st.spinning
        /\ s.waiting[k] = st.waiting[k] + 1
        /\ \A m \in Modes \ {k} : s.waiting[m] = st.waiting[m]
    BY <1>0 DEF Shape, Word
  <2> HIDE DEF s
  <2> QED  BY <1>0, <1>1, <2>1, MaskedWord
<1>4. /\ pc[t] = "lock" /\ pc'[t] = "wait" /\ mode' = mode /\ reset' = reset /\ Locked(k)
      /\ sem' = sem /\ owed' = owed
      /\ \A u \in Threads \ {t} : pc'[u] = pc[u]
  BY <1>0, <1>k DEF Shape, Block, Goto
<1>5. /\ \A m \in Modes : Holders(m)' = Holders(m) /\ Claimants(m)' = Claimants(m) \ {t}
      /\ Blocked(k)' = Blocked(k) \cup {t} /\ t \notin Blocked(k)
      /\ \A m \in Modes \ {k} : Blocked(m)' = Blocked(m)
      /\ \A m \in Modes : t \in Claimants(m) <=> (reset[t] /\ m = k)
  BY <1>k, <1>4 DEF Holders, Claimants, Blocked
<1>6. \A m \in Modes : Promised(m)' = Promised(m) /\ Coming(m)' = Coming(m)
  <2> SUFFICES ASSUME NEW m \in Modes PROVE Tokens(m)' = Tokens(m)
    BY <1>4 DEF Promised, Coming
  <2>1. {u \in Threads : pc'[u] = "post" /\ owed'[u].to = m}
          = {u \in Threads : pc[u] = "post" /\ owed[u].to = m}
    BY <1>4
  <2> QED  BY <1>4, <2>1 DEF Tokens
<1>7. HoldersInv'
  BY <1>0, <1>3, <1>5 DEF Inv, HoldersInv
<1>8. WaitersCounted'
  <2>1. Blocked(k) \in SUBSET Threads
    BY DEF Blocked
  <2>2. Cardinality(Blocked(k)') = Cardinality(Blocked(k)) + 1
    BY <1>5, <2>1, ThreadSets, FS_AddElement
  <2>3. Cardinality(Blocked(k)) = st.waiting[k] + sem[k] + Promised(k)
    BY <1>0 DEF Inv, WaitersCounted
  <2>4. Cardinality(Blocked(k)') = st'.waiting[k] + sem'[k] + Promised(k)'
    BY <1>0, <1>3, <1>4, <1>6, <2>2, <2>3, Numbers
  <2> SUFFICES ASSUME NEW m \in Modes
               PROVE  Cardinality(Blocked(m)') = st'.waiting[m] + sem'[m] + Promised(m)'
    BY DEF WaitersCounted
  <2>5. CASE m = k
    BY <2>4, <2>5
  <2>6. CASE m # k
    BY <2>6, <1>3, <1>4, <1>5, <1>6 DEF Inv, WaitersCounted
  <2> QED  BY <2>5, <2>6
<1>9. FlagInv'
  BY <1>3, <1>5, <1>6 DEF Inv, FlagInv
<1>10. WriterInv'
  <2>1. Claimants("w")' \subseteq Claimants("w") /\ Coming("w")' = Coming("w")
    BY <1>0, <1>5, <1>6
  <2>2. ASSUME Claimants("w")' # {} \/ Coming("w") > 0 PROVE st'.spinning["w"]
    <3>1. t \notin Claimants("w")
      BY <2>2, <1>0, <1>5, Numbers DEF Inv, WriterInv
    <3> QED  BY <2>1, <2>2, <3>1, <1>0, <1>3, <1>5 DEF Inv, WriterInv
  <2> QED  BY <2>1, <2>2 DEF Inv, WriterInv
<1>11. ReaderInv'
  <2>1. CASE k = "w"
    BY <1>0, <1>3, <2>1 DEF ReaderInv, Shape, Word
  <2>2. CASE k = "r"
    BY <1>3, <1>4, <2>2 DEF ReaderInv, Locked
  <2> QED  BY <1>0, <2>1, <2>2 DEF Modes
<1>12. NoOneForgotten'
  BY <1>3, <1>4 DEF NoOneForgotten, Locked
<1>13. TypeOK'
  BY <1>2, <1>7, <1>8, Bounds
<1> QED  BY <1>7, <1>8, <1>9, <1>10, <1>11, <1>12, <1>13 DEF Inv

LEMMA AnnounceInv ==
  ASSUME Inv, NEW t \in Threads, Announce(t) PROVE Inv'
<1>0. Shape /\ "w" \in Modes /\ "r" \in Modes
  BY TypeHasShape DEF Inv, Modes
<1>k. PICK k \in Modes : mode[t] = k
  BY <1>0 DEF Shape
<1>1. /\ st' \in Word /\ st'.wlock = st.wlock /\ st'.readers = st.readers
      /\ st'.waiting = st.waiting /\ st'.spinning = [st.spinning EXCEPT ![k] = TRUE]
  BY <1>0, <1>k DEF Shape, Word, Announce
<1>2. Shape'
  <2>1. spin[t] + 1 \in 0..kMaxSpinIters + 1
    BY <1>0, MutexAssumption DEF Announce, Shape
  <2> QED  BY <1>0, <1>1, <2>1 DEF Shape, Announce
<1>3. /\ st'.spinning[k] /\ ~st.spinning[k]
      /\ \A m \in Modes \ {k} : st'.spinning[m] = st.spinning[m]
  BY <1>0, <1>1, <1>k DEF Shape, Word, Announce
<1>4. /\ pc[t] = "lock" /\ pc' = pc /\ mode' = mode /\ sem' = sem /\ owed' = owed
      /\ reset'[t] /\ \A u \in Threads \ {t} : reset'[u] = reset[u]
  BY <1>0 DEF Shape, Announce
<1>5. /\ \A m \in Modes : Holders(m)' = Holders(m) /\ Blocked(m)' = Blocked(m)
      /\ Claimants(k)' = Claimants(k) \cup {t}
      /\ \A m \in Modes \ {k} : Claimants(m)' = Claimants(m)
      /\ \A m \in Modes : Tokens(m)' = Tokens(m)
  BY <1>k, <1>4 DEF Holders, Blocked, Claimants, Tokens
<1>6. \A m \in Modes : Promised(m)' = Promised(m) /\ Coming(m)' = Coming(m)
  BY <1>4, <1>5 DEF Promised, Coming
<1>7. HoldersInv'
  BY <1>0, <1>1, <1>5 DEF Inv, HoldersInv
<1>8. WaitersCounted'
  BY <1>1, <1>4, <1>5, <1>6 DEF Inv, WaitersCounted
<1>9. FlagInv'
  BY <1>3, <1>5, <1>6 DEF Inv, FlagInv
<1>10. WriterInv'
  <2>1. CASE k = "w"
    <3>1. Claimants("w") = {} /\ Coming("w") = 0
      BY <2>1, <1>0, <1>3, Numbers DEF Inv, WriterInv
    <3> QED  BY <2>1, <3>1, <1>0, <1>3, <1>5, <1>6 DEF WriterInv
  <2>2. CASE k # "w"
    BY <2>2, <1>0, <1>3, <1>5, <1>6 DEF Inv, WriterInv
  <2> QED  BY <2>1, <2>2
<1>11. ReaderInv'
  BY <1>0, <1>1, <1>3 DEF Inv, ReaderInv
<1>12. NoOneForgotten'
  BY <1>4 DEF NoOneForgotten
<1>13. TypeOK'
  BY <1>2, <1>7, <1>8, Bounds
<1> QED  BY <1>7, <1>8, <1>9, <1>10, <1>11, <1>12, <1>13 DEF Inv

LEMMA WaitInv ==
  ASSUME Inv, NEW t \in Threads, Wait(t) PROVE Inv'
<1>0. Shape /\ "w" \in Modes /\ "r" \in Modes
  BY TypeHasShape DEF Inv, Modes
<1>k. PICK k \in Modes : mode[t] = k
  BY <1>0 DEF Shape
<1>1. /\ sem[k] > 0 /\ sem' \in [Modes -> Nat] /\ sem'[k] = sem[k] - 1
      /\ \A m \in Modes \ {k} : sem'[m] = sem[m]
  BY <1>0, <1>k DEF Shape, Wait
<1>2. Shape'
  <2>1. 1 \in 0..kMaxSpinIters + 1
    BY MutexAssumption
  <2> QED  BY <1>0, <1>1, <2>1 DEF Shape, Wait, Goto
<1>4. /\ pc[t] = "wait" /\ pc'[t] = "lock" /\ mode' = mode /\ st' = st /\ owed' = owed
      /\ reset'[t] /\ \A u \in Threads \ {t} : pc'[u] = pc[u] /\ reset'[u] = reset[u]
  BY <1>0 DEF Shape, Wait, Goto
<1>5. /\ \A m \in Modes : Holders(m)' = Holders(m)
      /\ Blocked(k)' = Blocked(k) \ {t} /\ t \in Blocked(k)
      /\ Claimants(k)' = Claimants(k) \cup {t}
      /\ \A m \in Modes \ {k} : Claimants(m)' = Claimants(m) /\ Blocked(m)' = Blocked(m)
  BY <1>k, <1>4 DEF Holders, Blocked, Claimants
<1>6. \A m \in Modes : Promised(m)' = Promised(m)
  <2> SUFFICES ASSUME NEW m \in Modes PROVE Tokens(m)' = Tokens(m)
    BY DEF Promised
  <2>1. {u \in Threads : pc'[u] = "post" /\ owed'[u].to = m}
          = {u \in Threads : pc[u] = "post" /\ owed[u].to = m}
    BY <1>4
  <2> QED  BY <1>4, <2>1 DEF Tokens
<1>7. Coming(k)' = Coming(k) - 1 /\ \A m \in Modes \ {k} : Coming(m)' = Coming(m)
  BY <1>0, <1>1, <1>6, Numbers DEF Coming
<1>8. HoldersInv'
  BY <1>0, <1>4, <1>5 DEF Inv, HoldersInv
<1>9. WaitersCounted'
  <2>1. Blocked(k) \in SUBSET Threads
    BY DEF Blocked
  <2>2. Cardinality(Blocked(k)') = Cardinality(Blocked(k)) - 1
    BY <1>5, <2>1, ThreadSets, FS_RemoveElement
  <2>3. Cardinality(Blocked(k)) = st.waiting[k] + sem[k] + Promised(k)
    BY DEF Inv, WaitersCounted
  <2>4. Cardinality(Blocked(k)') = st'.waiting[k] + sem'[k] + Promised(k)'
    BY <1>0, <1>1, <1>4, <1>6, <2>2, <2>3, Numbers
  <2> SUFFICES ASSUME NEW m \in Modes
               PROVE  Cardinality(Blocked(m)') = st'.waiting[m] + sem'[m] + Promised(m)'
    BY DEF WaitersCounted
  <2>5. CASE m = k
    BY <2>4, <2>5
  <2>6. CASE m # k
    BY <2>6, <1>1, <1>4, <1>5, <1>6 DEF Inv, WaitersCounted
  <2> QED  BY <2>5, <2>6
<1>10. FlagInv'
  BY <1>4, <1>5, <1>7 DEF Inv, FlagInv
<1>11. WriterInv'
  <2>1. CASE k = "w"
    <3>1. Coming("w") > 0
      BY <2>1, <1>0, <1>1, Numbers DEF Coming
    <3>2. Claimants("w") = {} /\ Coming("w") = 1 /\ st.spinning["w"]
      BY <3>1, <1>0, Numbers DEF Inv, WriterInv
    <3> QED  BY <2>1, <3>2, <1>4, <1>5, <1>7 DEF WriterInv
  <2>2. CASE k # "w"
    BY <2>2, <1>0, <1>4, <1>5, <1>7 DEF Inv, WriterInv
  <2> QED  BY <2>1, <2>2
<1>12. ReaderInv'
  BY <1>4 DEF Inv, ReaderInv
<1>13. NoOneForgotten'
  BY <1>4 DEF NoOneForgotten
<1>14. TypeOK'
  BY <1>2, <1>8, <1>9, Bounds
<1> QED  BY <1>8, <1>9, <1>10, <1>11, <1>12, <1>13, <1>14 DEF Inv

LEMMA PostInv ==
  ASSUME Inv, NEW t \in Threads, Post(t) PROVE Inv'
<1>0. Shape /\ "w" \in Modes /\ "r" \in Modes
  BY TypeHasShape DEF Inv, Modes
<1>k. PICK k \in Modes, n \in Nat : owed[t].to = k /\ owed[t].count = n
  <2>1. owed[t].to \in Modes /\ owed[t].count \in Nat
    BY <1>0, NType DEF Shape
  <2> QED  BY <2>1
<1>1. /\ sem' \in [Modes -> Nat] /\ sem'[k] = sem[k] + n
      /\ \A m \in Modes \ {k} : sem'[m] = sem[m]
  BY <1>0, <1>k DEF Shape, Post
<1>2. Shape'
  BY <1>0, <1>1 DEF Shape, Post, Goto
<1>4. /\ pc[t] = "post" /\ pc'[t] = "wake" /\ pc' = [pc EXCEPT ![t] = "wake"]
      /\ mode' = mode /\ st' = st /\ owed' = owed /\ reset' = reset
      /\ \A u \in Threads \ {t} : pc'[u] = pc[u]
  BY <1>0 DEF Shape, Post, Goto
<1>5. \A m \in Modes : /\ Holders(m)' = Holders(m) /\ Blocked(m)' = Blocked(m)
                       /\ Claimants(m)' = Claimants(m)
  BY <1>4 DEF Holders, Blocked, Claimants
<1>6. Promised(k) = Promised(k)' + n /\ \A m \in Modes \ {k} : Promised(m)' = Promised(m)
  BY <1>0, <1>k, <1>4, PostTakesAway
<1>7. \A m \in Modes : Coming(m)' = Coming(m)
  <2>1. Promised(k)' \in Nat
    BY <1>2, TokenSetsNext
  <2>2. sem'[k] + Promised(k)' = sem[k] + Promised(k)
    BY <2>1, <1>0, <1>1, <1>6, Numbers
  <2>3. \A m \in Modes : sem'[m] + Promised(m)' = sem[m] + Promised(m)
    BY <2>2, <1>1, <1>6
  <2> QED  BY <2>3 DEF Coming
<1>8. HoldersInv'
  BY <1>0, <1>4, <1>5 DEF Inv, HoldersInv
<1>9. WaitersCounted'
  <2> SUFFICES ASSUME NEW m \in Modes
               PROVE  Cardinality(Blocked(m)') = st'.waiting[m] + sem'[m] + Promised(m)'
    BY DEF WaitersCounted
  <2>1. Cardinality(Blocked(m)) = st.waiting[m] + sem[m] + Promised(m)
    BY DEF Inv, WaitersCounted
  <2>2. sem'[m] + Promised(m)' = sem[m] + Promised(m)
    BY <1>7 DEF Coming
  <2>3. sem'[m] \in Nat /\ Promised(m)' \in Nat
    BY <1>1, <1>2, TokenSetsNext
  <2> QED  BY <2>1, <2>2, <2>3, <1>0, <1>4, <1>5, Numbers
<1>10. FlagInv' /\ WriterInv' /\ ReaderInv'
  BY <1>0, <1>4, <1>5, <1>7 DEF Inv, FlagInv, WriterInv, ReaderInv
<1>11. NoOneForgotten'
  <2>1. \A m \in Modes : sem'[m] + Promised(m)' = sem[m] + Promised(m)
    BY <1>7 DEF Coming
  <2>2. \A u \in Threads : pc[u] = "lock" => pc'[u] = "lock"
    BY <1>4
  <2> QED  BY <2>1, <2>2, <1>4 DEF Inv, NoOneForgotten
<1>12. TypeOK'
  BY <1>2, <1>8, <1>9, Bounds
<1> QED  BY <1>8, <1>9, <1>10, <1>11, <1>12 DEF Inv

----------------------------------------------------------------------------
(* Leaving.  s is the word without the holder t.                           *)

Left(t, s) ==
  /\ pc[t] = "held" /\ s \in Word
  /\ s.waiting = st.waiting /\ s.spinning = st.spinning
  /\ ~s.wlock /\ Holders("w") \ {t} = {}
  /\ s.readers = Cardinality(Holders("r") \ {t})

\* What a release does to the sets, whatever it decides.
LEMMA ReleaseSets ==
  ASSUME Shape, NEW t \in Threads, pc[t] = "held",
         NEW label \in {"idle", "post"}, pc' = [pc EXCEPT ![t] = label],
         mode' = mode, reset' = reset
  PROVE  /\ pc'[t] = label /\ \A u \in Threads \ {t} : pc'[u] = pc[u]
         /\ \A m \in Modes : /\ Holders(m)' = Holders(m) \ {t} /\ Blocked(m)' = Blocked(m)
                             /\ Claimants(m)' = Claimants(m)
<1>1. pc'[t] = label /\ \A u \in Threads \ {t} : pc'[u] = pc[u]
  BY DEF Shape
<1> QED  BY <1>1 DEF Holders, Blocked, Claimants

LEMMA WriterWokenInv ==
  ASSUME Inv, NEW t \in Threads, NEW s, Left(t, s),
         WakesWriter(s), Release(t, WriterWoken(s), "w", 1)
  PROVE  Inv'
<1>0. Shape /\ "w" \in Modes /\ "r" \in Modes
  BY TypeHasShape DEF Inv, Modes
<1>1. /\ st' \in Word /\ ~st'.wlock /\ st'.readers = s.readers
      /\ st'.waiting = [st.waiting EXCEPT !["w"] = @ - 1]
      /\ st'.spinning = [st.spinning EXCEPT !["w"] = TRUE]
  <2>1. s.waiting["w"] - 1 \in Nat
    BY <1>0 DEF Left, Word, WakesWriter
  <2> QED  BY <2>1, <1>0 DEF Release, WriterWoken, Left, Word
<1>2. /\ st.waiting["w"] > 0 /\ st'.waiting["w"] = st.waiting["w"] - 1
      /\ st'.waiting["r"] = st.waiting["r"]
      /\ ~st.spinning["w"] /\ st'.spinning["w"] /\ st'.spinning["r"] = st.spinning["r"]
  BY <1>0, <1>1 DEF Left, Word, WakesWriter, Shape
<1>3. /\ pc' = [pc EXCEPT ![t] = "post"] /\ owed' = [owed EXCEPT ![t] = [to |-> "w", count |-> 1]]
      /\ sem' = sem /\ mode' = mode /\ reset' = reset /\ spin' = spin
  BY DEF Release, Goto
<1>4. 1 \in 0..N
  <2>1. N # 0
    BY NType, FS_EmptySet DEF N
  <2> QED  BY <2>1, NType
<1>5. Shape'
  <2>1. [to |-> "w", count |-> 1] \in [to : Modes, count : 0..N]
    BY <1>0, <1>4
  <2>2. owed' \in [Threads -> [to : Modes, count : 0..N]]
    BY <1>0, <1>3, <2>1 DEF Shape
  <2>3. pc' \in [Threads -> {"idle", "lock", "wait", "asleep", "held", "post", "wake"}]
    BY <1>0, <1>3 DEF Shape
  <2> QED  BY <1>0, <1>1, <1>3, <2>2, <2>3 DEF Shape
<1>6. \A m \in Modes : /\ Holders(m)' = Holders(m) \ {t} /\ Blocked(m)' = Blocked(m)
                       /\ Claimants(m)' = Claimants(m)
  BY <1>0, <1>3, ReleaseSets DEF Left
<1>7. Promised("w")' = Promised("w") + 1 /\ Promised("r")' = Promised("r")
  BY <1>0, <1>3, <1>4, PromiseAdds DEF Left
<1>8. Coming("w")' = Coming("w") + 1 /\ Coming("r")' = Coming("r")
  <2>1. sem["w"] \in Nat /\ Promised("w") \in Nat
    BY <1>0, Numbers
  <2>2. sem'["w"] + Promised("w")' = sem["w"] + Promised("w") + 1
    BY <1>3, <1>7, <2>1
  <2> QED  BY <1>3, <1>7, <2>2 DEF Coming
<1>9. HoldersInv'
  BY <1>0, <1>1, <1>6 DEF Left, HoldersInv
<1>10. WaitersCounted'
  <2>1. Cardinality(Blocked("w")') = st'.waiting["w"] + sem'["w"] + Promised("w")'
    BY <1>0, <1>2, <1>3, <1>6, <1>7, Numbers DEF Inv, WaitersCounted
  <2>2. Cardinality(Blocked("r")') = st'.waiting["r"] + sem'["r"] + Promised("r")'
    BY <1>0, <1>2, <1>3, <1>6, <1>7 DEF Inv, WaitersCounted
  <2> QED  BY <2>1, <2>2 DEF WaitersCounted, Modes
<1>11. Claimants("w") = {} /\ Coming("w") = 0
  BY <1>0, <1>2, Numbers DEF Inv, WriterInv
<1>12. FlagInv'
  <2>1. st'.spinning["r"] => Claimants("r")' # {} \/ Coming("r")' > 0
    BY <1>0, <1>2, <1>6, <1>8 DEF Inv, FlagInv
  <2>2. Coming("w")' > 0
    BY <1>8, <1>11
  <2> QED  BY <2>1, <2>2 DEF FlagInv, Modes
<1>13. WriterInv'
  BY <1>0, <1>2, <1>6, <1>8, <1>11 DEF WriterInv
<1>14. ReaderInv'
  BY <1>2 DEF ReaderInv
<1>15. NoOneForgotten'
  <2>1. sem'["w"] + Promised("w")' > 0
    BY <1>8, <1>11 DEF Coming
  <2> QED  BY <1>0, <2>1 DEF NoOneForgotten
<1>16. TypeOK'
  BY <1>5, <1>9, <1>10, Bounds
<1> QED  BY <1>9, <1>10, <1>12, <1>13, <1>14, <1>15, <1>16 DEF Inv

LEMMA ReadersWokenInv ==
  ASSUME Inv, NEW t \in Threads, NEW s, Left(t, s),
         NEW n, n = s.waiting["r"], n > 0, ~s.spinning["w"],
         Release(t, ReadersWoken(s), "r", n)
  PROVE  Inv'
<1>0. Shape /\ "w" \in Modes /\ "r" \in Modes
  BY TypeHasShape DEF Inv, Modes
<1>1. /\ st' \in Word /\ ~st'.wlock /\ st'.readers = s.readers
      /\ st'.waiting = [st.waiting EXCEPT !["r"] = 0]
      /\ st'.spinning = [st.spinning EXCEPT !["r"] = TRUE]
  BY <1>0 DEF Release, ReadersWoken, Left, Word
<1>2. /\ st.waiting["r"] = n /\ st'.waiting["r"] = 0 /\ st'.waiting["w"] = st.waiting["w"]
      /\ ~st.spinning["w"] /\ st'.spinning["r"] /\ st'.spinning["w"] = st.spinning["w"]
  BY <1>0, <1>1 DEF Left, Word, Shape
<1>4. n \in 0..N
  BY <1>0, <1>2 DEF Inv, TypeOK, N
<1>3. /\ pc' = [pc EXCEPT ![t] = "post"] /\ owed' = [owed EXCEPT ![t] = [to |-> "r", count |-> n]]
      /\ sem' = sem /\ mode' = mode /\ reset' = reset /\ spin' = spin
  <2>1. n # 0
    BY <1>4, NType
  <2> QED  BY <2>1 DEF Release, Goto
<1>5. Shape'
  <2>1. [to |-> "r", count |-> n] \in [to : Modes, count : 0..N]
    BY <1>0, <1>4
  <2>2. owed' \in [Threads -> [to : Modes, count : 0..N]]
    BY <1>0, <1>3, <2>1 DEF Shape
  <2>3. pc' \in [Threads -> {"idle", "lock", "wait", "asleep", "held", "post", "wake"}]
    BY <1>0, <1>3 DEF Shape
  <2> QED  BY <1>0, <1>1, <1>3, <2>2, <2>3 DEF Shape
<1>6. \A m \in Modes : /\ Holders(m)' = Holders(m) \ {t} /\ Blocked(m)' = Blocked(m)
                       /\ Claimants(m)' = Claimants(m)
  BY <1>0, <1>3, ReleaseSets DEF Left
<1>7. Promised("r")' = Promised("r") + n /\ Promised("w")' = Promised("w")
  BY <1>0, <1>3, <1>4, PromiseAdds DEF Left
<1>n. n \in Nat
  BY <1>4, NType
<1>8. Coming("r")' = Coming("r") + n /\ Coming("w")' = Coming("w")
  BY <1>0, <1>n, <1>3, <1>7, Numbers DEF Coming
<1>9. HoldersInv'
  BY <1>0, <1>1, <1>6 DEF Left, HoldersInv
<1>10. WaitersCounted'
  <2>1. Cardinality(Blocked("r")') = st'.waiting["r"] + sem'["r"] + Promised("r")'
    BY <1>0, <1>n, <1>2, <1>3, <1>6, <1>7, Numbers DEF Inv, WaitersCounted
  <2>2. Cardinality(Blocked("w")') = st'.waiting["w"] + sem'["w"] + Promised("w")'
    BY <1>0, <1>2, <1>3, <1>6, <1>7 DEF Inv, WaitersCounted
  <2> QED  BY <2>1, <2>2 DEF WaitersCounted, Modes
<1>11. Coming("r")' > 0
  BY <1>0, <1>n, <1>8, Numbers
<1>12. FlagInv'
  BY <1>2, <1>11 DEF FlagInv, Modes
<1>13. WriterInv'
  BY <1>0, <1>2, <1>6, <1>8 DEF Inv, WriterInv
<1>14. ReaderInv'
  BY <1>2 DEF ReaderInv
<1>15. NoOneForgotten'
  <2>1. sem'["r"] + Promised("r")' > 0
    BY <1>11 DEF Coming
  <2> QED  BY <1>0, <2>1 DEF NoOneForgotten
<1>16. TypeOK'
  BY <1>5, <1>9, <1>10, Bounds
<1> QED  BY <1>9, <1>10, <1>12, <1>13, <1>14, <1>15, <1>16 DEF Inv

LEMMA NobodyWokenInv ==
  ASSUME Inv, NEW t \in Threads, NEW s, Left(t, s), ~WakesWriter(s),
         st.waiting["r"] > 0 => st.waiting["w"] > 0 \/ st.spinning["w"],
         Release(t, s, "w", 0)
  PROVE  Inv'
<1>0. Shape /\ "w" \in Modes /\ "r" \in Modes
  BY TypeHasShape DEF Inv, Modes
<1>1. /\ st' \in Word /\ ~st'.wlock /\ st'.readers = s.readers
      /\ st'.waiting = st.waiting /\ st'.spinning = st.spinning
  BY DEF Release, Left
<1>3. /\ pc' = [pc EXCEPT ![t] = "idle"] /\ owed' = [owed EXCEPT ![t] = Nothing]
      /\ sem' = sem /\ mode' = mode /\ reset' = reset /\ spin' = spin
  BY DEF Release, Goto
<1>5. Shape'
  <2>1. Nothing \in [to : Modes, count : 0..N]
    BY <1>0, NType DEF Nothing
  <2>2. owed' \in [Threads -> [to : Modes, count : 0..N]]
    BY <1>0, <1>3, <2>1 DEF Shape
  <2>3. pc' \in [Threads -> {"idle", "lock", "wait", "asleep", "held", "post", "wake"}]
    BY <1>0, <1>3 DEF Shape
  <2> QED  BY <1>0, <1>1, <1>3, <2>2, <2>3 DEF Shape
<1>6. /\ pc[t] = "held" /\ pc'[t] = "idle" /\ \A u \in Threads \ {t} : pc'[u] = pc[u]
      /\ \A m \in Modes : /\ Holders(m)' = Holders(m) \ {t} /\ Blocked(m)' = Blocked(m)
                          /\ Claimants(m)' = Claimants(m)
  BY <1>0, <1>3, ReleaseSets DEF Left
<1>7. \A m \in Modes : Promised(m)' = Promised(m) /\ Coming(m)' = Coming(m)
  <2> SUFFICES ASSUME NEW m \in Modes PROVE Tokens(m)' = Tokens(m)
    BY <1>3 DEF Promised, Coming
  <2>0. \A u \in Threads \ {t} : owed'[u] = owed[u]
    BY <1>0, <1>3 DEF Shape
  <2>1. {u \in Threads : pc'[u] = "post" /\ owed'[u].to = m}
          = {u \in Threads : pc[u] = "post" /\ owed[u].to = m}
    BY <1>6, <2>0
  <2>2. \A u \in {v \in Threads : pc[v] = "post" /\ owed[v].to = m} : owed'[u] = owed[u]
    BY <1>6, <2>0
  <2> QED  BY <2>1, <2>2 DEF Tokens
<1>9. HoldersInv'
  BY <1>0, <1>1, <1>6 DEF Left, HoldersInv
<1>10. WaitersCounted'
  BY <1>1, <1>3, <1>6, <1>7 DEF Inv, WaitersCounted
<1>12. FlagInv'
  BY <1>1, <1>6, <1>7 DEF Inv, FlagInv
<1>13. WriterInv'
  BY <1>0, <1>1, <1>6, <1>7 DEF Inv, WriterInv
<1>14. ReaderInv'
  BY <1>1 DEF ReaderInv
<1>15. NoOneForgotten'
  <2> SUFFICES ASSUME st.waiting["w"] + st.waiting["r"] > 0, st'.readers = 0
               PROVE  \/ \E u \in Threads : pc'[u] = "lock"
                      \/ \E m \in Modes : sem'[m] + Promised(m)' > 0
    BY <1>0, <1>1, <1>5 DEF NoOneForgotten, Shape, Word
  <2>1. PICK m \in Modes : st.spinning[m]
    <3>1. st.waiting["w"] > 0 \/ st.spinning["w"]
      BY <1>0, Numbers
    <3>2. st.spinning["w"] \/ st.spinning["r"]
      BY <3>1, <1>1 DEF WakesWriter, Left
    <3> QED  BY <1>0, <3>2
  <2>2. CASE Claimants(m) # {}
    BY <2>2, <1>6 DEF Claimants
  <2>3. CASE Coming(m) > 0
    BY <2>3, <1>3, <1>7 DEF Coming
  <2> QED  BY <2>1, <2>2, <2>3 DEF Inv, FlagInv
<1>16. TypeOK'
  BY <1>5, <1>9, <1>10, Bounds
<1> QED  BY <1>9, <1>10, <1>12, <1>13, <1>14, <1>15, <1>16 DEF Inv

LEMMA UnlockInv ==
  ASSUME Inv, NEW t \in Threads, Unlock(t) PROVE Inv'
<1> DEFINE s == [st EXCEPT !.wlock = FALSE]
<1>0. Shape /\ pc[t] = "held" /\ mode[t] = "w"
  BY TypeHasShape DEF Inv, Unlock
<1>1. s \in Word /\ s.waiting = st.waiting /\ s.spinning = st.spinning
      /\ s.wlock = FALSE /\ s.readers = st.readers
  BY <1>0 DEF Shape, Word
<1>2. Left(t, s)
  <2>1. t \in Holders("w") /\ t \notin Holders("r")
    BY <1>0 DEF Holders
  <2>2. Holders("w") \ {t} = {} /\ Holders("r") \ {t} = Holders("r")
    BY <2>1 DEF Inv, HoldersInv
  <2> QED  BY <1>0, <1>1, <2>2 DEF Left, Inv, HoldersInv
<1>3. IF WakesWriter(s) THEN Release(t, WriterWoken(s), "w", 1)
      ELSE IF WakesReaders(s) > 0 THEN Release(t, ReadersWoken(s), "r", WakesReaders(s))
      ELSE Release(t, s, "w", 0)
  BY DEF Unlock
<1> HIDE DEF s
<1>4. CASE WakesWriter(s)
  BY <1>2, <1>3, <1>4, WriterWokenInv
<1>5. CASE ~WakesWriter(s) /\ WakesReaders(s) > 0
  <2>1. ~s.spinning["w"] /\ WakesReaders(s) = s.waiting["r"]
    BY <1>5 DEF WakesReaders
  <2> QED  BY <2>1, <1>2, <1>3, <1>5, ReadersWokenInv
<1>6. CASE ~WakesWriter(s) /\ ~(WakesReaders(s) > 0)
  <2>1. st.waiting["r"] > 0 => st.spinning["w"]
    BY <1>1, <1>6 DEF WakesReaders
  <2> QED  BY <2>1, <1>2, <1>3, <1>6, NobodyWokenInv
<1> QED  BY <1>4, <1>5, <1>6

LEMMA ReadUnlockInv ==
  ASSUME Inv, NEW t \in Threads, ReadUnlock(t) PROVE Inv'
<1> DEFINE s == [st EXCEPT !.readers = @ - 1]
<1>0. Shape /\ pc[t] = "held" /\ mode[t] = "r"
  BY TypeHasShape DEF Inv, ReadUnlock
<1>1. /\ t \in Holders("r") /\ t \notin Holders("w") /\ ~st.wlock /\ Holders("w") = {}
      /\ Holders("r") \in SUBSET Threads /\ st.readers = Cardinality(Holders("r"))
  <2>1. t \in Holders("r") /\ t \notin Holders("w") /\ Holders("r") \in SUBSET Threads
    BY <1>0 DEF Holders
  <2> QED  BY <2>1 DEF Inv, HoldersInv
<1>2. Cardinality(Holders("r") \ {t}) = st.readers - 1 /\ st.readers - 1 \in Nat
  <2>1. IsFiniteSet(Holders("r") \ {t}) /\ Cardinality(Holders("r") \ {t}) = st.readers - 1
    BY <1>1, ThreadSets, FS_RemoveElement
  <2> QED  BY <2>1, FS_CardinalityType
<1>3. s \in Word /\ s.waiting = st.waiting /\ s.spinning = st.spinning
      /\ s.wlock = st.wlock /\ s.readers = st.readers - 1
  BY <1>0, <1>2 DEF Shape, Word
<1>4. Left(t, s)
  BY <1>0, <1>1, <1>2, <1>3 DEF Left
<1>5. IF WakesWriter(s) THEN Release(t, WriterWoken(s), "w", 1) ELSE Release(t, s, "w", 0)
  BY DEF ReadUnlock
<1> HIDE DEF s
<1>6. CASE WakesWriter(s)
  BY <1>4, <1>5, <1>6, WriterWokenInv
<1>7. CASE ~WakesWriter(s)
  <2>1. st.waiting["r"] > 0 => st.waiting["w"] > 0 \/ st.spinning["w"]
    BY <1>1 DEF Inv, ReaderInv
  <2> QED  BY <2>1, <1>4, <1>5, <1>7, NobodyWokenInv
<1> QED  BY <1>6, <1>7

----------------------------------------------------------------------------
LEMMA NextInv == ASSUME Inv, [Next]_vars PROVE Inv'
<1>1. ASSUME NEW t \in Threads, NEW m \in Modes, Enter(t, m) PROVE Inv'
  BY <1>1, EnterInv
<1>2. ASSUME NEW t \in Threads, TryLock(t) \/ Acquire(t) PROVE Inv'
  BY <1>2, TryLockInv, AcquireInv
<1>3. ASSUME NEW t \in Threads, Block(t) \/ Announce(t) \/ SpinOn(t) PROVE Inv'
  BY <1>3, BlockInv, AnnounceInv, SpinOnInv
<1>4. ASSUME NEW t \in Threads, Wait(t) \/ FutexWait(t) \/ FutexInterrupted(t) PROVE Inv'
  BY <1>4, WaitInv, FutexWaitInv
<1>5. ASSUME NEW t \in Threads, Post(t) \/ FutexWake(t) PROVE Inv'
  BY <1>5, PostInv, FutexWakeInv
<1>6. ASSUME NEW t \in Threads, Unlock(t) \/ ReadUnlock(t) PROVE Inv'
  BY <1>6, UnlockInv, ReadUnlockInv
<1>7. CASE UNCHANGED vars
  <2>1. Shape'
    BY <1>7, TypeHasShape DEF Inv, Shape, vars
  <2> QED  BY <1>7, <2>1, Unmoved DEF vars, Holders, Blocked, Claimants, Tokens
<1> QED  BY <1>1, <1>2, <1>3, <1>4, <1>5, <1>6, <1>7 DEF Next, Progress

LEMMA InvHolds == Spec => []Inv
BY InitInv, NextInv, PTL DEF Spec

(* The word, the semaphores and what Unlock owes stay within their types:  *)
(* no counter of the mutex goes below zero or beyond the threads there are. *)
THEOREM TypeCorrect == Spec => []TypeOK
<1>1. Inv => TypeOK
  BY DEF Inv
<1> QED  BY <1>1, InvHolds, PTL

(* No wake-up is lost or made twice: the threads blocked in Wait() are     *)
(* those counted in the word plus one for every token posted or promised.  *)
THEOREM NoWakeUpIsLost == Spec => []WaitersCounted
<1>1. Inv => WaitersCounted
  BY DEF Inv
<1> QED  BY <1>1, InvHolds, PTL

(* The assertion in the loop of Lock(): a writer that announced itself or  *)
(* was woken finds the flag of the writers set.                            *)
THEOREM WriterFindsItsFlag == Spec => []AwakeWriterFlagged
<1>1. Inv => AwakeWriterFlagged
  BY DEF Inv, WriterInv, AwakeWriterFlagged, Claimants
<1> QED  BY <1>1, InvHolds, PTL

(* While a thread is counted as waiting, the lock is held, or a thread is  *)
(* awake or being woken that will take it: Unlock and ReadUnlock may       *)
(* return without waking anybody when a flag is set.                       *)
THEOREM SomebodyWillWakeThem == Spec => []NoOneForgotten
<1>1. Inv => NoOneForgotten
  BY DEF Inv
<1> QED  BY <1>1, InvHolds, PTL

----------------------------------------------------------------------------
(* Refinement.                                                             *)

LEMMA StepImplementsLock ==
  ASSUME Inv, [Next]_vars PROVE [Lock!Next]_(Lock!vars)
<1>0. Shape /\ "w" \in Modes /\ "r" \in Modes
  BY TypeHasShape DEF Inv, Modes
<1> DEFINE Still == Holders("w")' = Holders("w") /\ Holders("r")' = Holders("r")
<1>s. Still => [Lock!Next]_(Lock!vars)
  BY DEF Lock!vars
<1>1. ASSUME NEW t \in Threads, NEW m \in Modes, Enter(t, m) PROVE Still
  <2>1. /\ pc'[t] = "lock" /\ pc[t] = "idle"
        /\ \A u \in Threads \ {t} : pc'[u] = pc[u] /\ mode'[u] = mode[u]
    BY <1>0, <1>1 DEF Shape, Enter, Goto
  <2> QED  BY <2>1 DEF Holders
<1>2. ASSUME NEW t \in Threads, NEW k \in Modes, (TryLock(t) /\ k = "w") \/ (Acquire(t) /\ k = mode[t])
      PROVE  Lock!Next
  <2>1. /\ pc[t] # "held" /\ pc'[t] = "held" /\ mode'[t] = k /\ ~Locked(k)
        /\ \A u \in Threads \ {t} : pc'[u] = pc[u] /\ mode'[u] = mode[u]
    BY <1>0, <1>2 DEF Shape, TryLock, Acquire, Goto
  <2>2. /\ Holders(k)' = Holders(k) \cup {t} /\ t \notin Holders(k)
        /\ \A m \in Modes \ {k} : Holders(m)' = Holders(m)
    BY <2>1 DEF Holders
  <2>3. Holders("w") = {}
    BY <2>1 DEF Locked, Inv, HoldersInv
  <2>4. CASE k = "w"
    <3>1. st.readers = 0
      BY <2>1, <2>4, <1>0 DEF Locked, Shape, Word
    <3>2. Holders("r") = {}
      <4>1. Holders("r") \in SUBSET Threads
        BY DEF Holders
      <4> QED  BY <3>1, <4>1, ThreadSets, FS_EmptySet DEF Inv, HoldersInv
    <3>3. Lock!Lock(t)
      BY <1>0, <2>2, <2>3, <2>4, <3>2 DEF Lock!Lock
    <3> QED  BY <3>3 DEF Lock!Next
  <2>5. CASE k = "r"
    <3>1. Lock!ReadLock(t)
      BY <1>0, <2>2, <2>3, <2>5 DEF Lock!ReadLock
    <3> QED  BY <3>1 DEF Lock!Next
  <2> QED  BY <2>4, <2>5 DEF Modes
<1>3. ASSUME NEW t \in Threads, Block(t) \/ Announce(t) \/ SpinOn(t) \/ Post(t)
      PROVE  Still
  <2>1. /\ pc'[t] # "held" /\ pc[t] # "held" /\ mode' = mode
        /\ \A u \in Threads \ {t} : pc'[u] = pc[u]
    BY <1>0, <1>3 DEF Shape, Block, Announce, SpinOn, Post, Goto
  <2> QED  BY <2>1 DEF Holders
<1>4. ASSUME NEW t \in Threads, Wait(t) \/ FutexWait(t) \/ FutexInterrupted(t)
      PROVE  Still
  <2>1. /\ pc'[t] # "held" /\ pc[t] # "held" /\ mode' = mode
        /\ \A u \in Threads \ {t} : pc'[u] = pc[u]
    BY <1>0, <1>4 DEF Shape, Wait, FutexWait, FutexInterrupted, Goto
  <2> QED  BY <2>1 DEF Holders
<1>5. ASSUME NEW t \in Threads, FutexWake(t) PROVE Still
  <2>1. PICK woken \in SUBSET {u \in Threads : pc[u] = "asleep" /\ mode[u] = owed[t].to} :
          pc' = [u \in Threads |-> IF u = t THEN "idle"
                                   ELSE IF u \in woken THEN "wait" ELSE pc[u]]
    BY <1>5 DEF FutexWake
  <2>2. pc[t] = "wake" /\ mode' = mode
    BY <1>5 DEF FutexWake
  <2> QED  BY <2>1, <2>2 DEF Holders
<1>6. ASSUME NEW t \in Threads, NEW k \in Modes, (Unlock(t) /\ k = "w") \/ (ReadUnlock(t) /\ k = "r")
      PROVE  Lock!Next
  <2>1. /\ pc[t] = "held" /\ mode[t] = k /\ mode' = mode /\ pc'[t] # "held"
        /\ \A u \in Threads \ {t} : pc'[u] = pc[u]
    BY <1>0, <1>6 DEF Shape, Unlock, ReadUnlock, Release, Goto
  <2>2. /\ Holders(k)' = Holders(k) \ {t} /\ t \in Holders(k)
        /\ \A m \in Modes \ {k} : Holders(m)' = Holders(m)
    BY <2>1 DEF Holders
  <2>3. CASE k = "w"
    <3>1. Lock!Unlock(t)
      BY <1>0, <2>2, <2>3 DEF Lock!Unlock
    <3> QED  BY <3>1 DEF Lock!Next
  <2>4. CASE k = "r"
    <3>1. Lock!ReadUnlock(t)
      BY <1>0, <2>2, <2>4 DEF Lock!ReadUnlock
    <3> QED  BY <3>1 DEF Lock!Next
  <2> QED  BY <2>3, <2>4 DEF Modes
<1>7. CASE UNCHANGED vars
  BY <1>7, <1>s DEF vars, Holders
<1>8. ASSUME NEW t \in Threads, Acquire(t) PROVE Lock!Next
  <2>1. mode[t] \in Modes
    BY <1>0 DEF Shape
  <2> QED  BY <1>2, <1>8, <2>1
<1>9. ASSUME NEW t \in Threads, TryLock(t) \/ Unlock(t) \/ ReadUnlock(t) PROVE Lock!Next
  BY <1>0, <1>2, <1>6, <1>9
<1>10. ASSUME Next PROVE Still \/ Lock!Next
  <2> HIDE DEF Still
  <2> QED  BY <1>10, <1>1, <1>3, <1>4, <1>5, <1>8, <1>9 DEF Next, Progress
<1> QED  BY <1>7, <1>10, <1>s

(* Whatever mixture of spinning, blocking and waking, and any number of    *)
(* threads, the mutex is a reader-writer lock: a writer is alone.          *)
THEOREM MutexImplementsLock == Spec => LockSpec
<1>1. Init => Lock!Init
  BY DEF Init, Lock!Init, Holders
<1> QED  BY <1>1, InvHolds, StepImplementsLock, PTL DEF Spec, LockSpec, Lock!Spec
=============================================================================
