-------------------------- MODULE SignalWrap_proofs --------------------------
(***************************************************************************)
(* The properties of SignalWrap for any number of threads and handlers.    *)
(*                                                                         *)
(* One inductive invariant serves all of them.  Its parts say who holds    *)
(* the lock, that the table has a handler whenever the kernel has or is    *)
(* about to get a wrapper, what a call that began alone can rely on, what  *)
(* is in effect as long as no call overlapped a signal(), and where a      *)
(* wrapper cannot be unless the program has passed one to a call.          *)
(***************************************************************************)
EXTENDS SignalWrap, TLAPS

\* A call that changes the disposition is in progress in context c.
Changing(c) == pc[c] # "idle" /\ act[c] # NoAct

LockInv == \A c \in Contexts : pc[c] = "sigaction" <=> mu = c

SignalInv == \A c \in Contexts : pc[c] = "signal" => act[c] \in Acts

KernelInv ==
    kernel.fn \in Wrappers =>
      /\ sigactions \in Callbacks
      /\ kernel.info = (kernel.fn = "SignalAction")

CallableInv == \A t \in Threads : frame[t] # "none" => sigactions \in Callbacks

PendingInv ==
    \A c \in Contexts : pc[c] # "idle" /\ act[c].fn \in Callbacks => sigactions \in Callbacks

\* A query that has read the table since it was last written.
Querying(d) == pc[d] = "sigaction" /\ act[d] = NoAct /\ old_cb[d] = sigactions

AloneInv ==
    \A c \in Contexts : alone = c /\ Changing(c) =>
      /\ act[c].fn \in Callbacks => sigactions = act[c].fn
      /\ \A d \in Contexts \ {c} : pc[d] = "idle" \/ Querying(d)

ClearInv ==
    ~overlap =>
      /\ \A c \in Contexts : Changing(c) => alone = c
      /\ \A c \in Contexts : pc[c] = "signal" => \A d \in Contexts \ {c} : pc[d] = "idle"
      /\ \A c \in Contexts : pc[c] = "sigaction" => OldAct(c) = last
      /\ (\A c \in Contexts : ~Changing(c)) => Effective = last

RestoredInv ==
    ~restored => /\ sigactions \notin Wrappers
                 /\ \A c \in Contexts : act[c].fn \notin Wrappers /\ old_cb[c] \notin Wrappers

\* A sigaction() that found the entry unwritten: nobody else is about to make
\* the kernel call it.
UnwrittenInv ==
    \A c \in Contexts : pc[c] = "sigaction" /\ old_cb[c] = Null =>
      /\ kernel.fn \notin Wrappers
      /\ \A d \in Contexts \ {c} : pc[d] # "idle" => act[d].fn \notin Callbacks

Inv ==
    /\ TypeOK /\ CallableInv
    /\ LockInv /\ SignalInv /\ KernelInv /\ PendingInv /\ AloneInv /\ ClearInv
    /\ RestoredInv /\ UnwrittenInv

-----------------------------------------------------------------------------
(* Facts about the constants and about acts.                               *)

LEMMA NoActIsNoAct == NoAct \notin Acts /\ NoAct.fn \notin Callbacks /\ NoAct.fn \notin Wrappers
BY HandlersAssumption DEF NoAct, Acts, Callbacks, Wrappers

\* What the kernel is given has the form KernelInv speaks of.
LEMMA WrappedShape ==
    ASSUME NEW a \in Acts
    PROVE  /\ Wrapped(a) \in Acts
           /\ Wrapped(a).fn \in Wrappers <=> a.fn \in Callbacks
           /\ Wrapped(a).fn \in Wrappers => Wrapped(a).info = (Wrapped(a).fn = "SignalAction")
           /\ a.fn \in Callbacks => Wrapped(a).info = a.info
           /\ a.fn \notin Callbacks => Wrapped(a) = a
BY HandlersAssumption DEF Acts, Wrapped, Wrappers, Callbacks

\* Undoing the wrapping with the entry of the table gives what is in effect.
LEMMA UnwrappedIsEffective ==
    ASSUME TypeOK, KernelInv
    PROVE  [kernel EXCEPT !.fn = IF kernel.fn \in Wrappers THEN sigactions ELSE kernel.fn]
             = Effective
BY DEF TypeOK, KernelInv, Effective, Wrappers, Acts

-----------------------------------------------------------------------------
LEMMA InitInv == Init => Inv
<1> SUFFICES ASSUME Init PROVE Inv
  OBVIOUS
<1>1. kernel \in Acts /\ kernel.fn \notin Wrappers
  <2>1. CASE kernel = [fn |-> Dfl, info |-> FALSE]
    BY <2>1, HandlersAssumption DEF Acts, Wrappers, Callbacks
  <2>2. CASE kernel = [fn |-> Ign, info |-> FALSE]
    BY <2>2, HandlersAssumption DEF Acts, Wrappers, Callbacks
  <2>3. CASE kernel = [fn |-> Deadly, info |-> TRUE]
    BY <2>3, HandlersAssumption DEF Acts, Wrappers, Callbacks
  <2> QED  BY <2>1, <2>2, <2>3 DEF Init
<1>2. TypeOK
  BY <1>1, HandlersAssumption DEF Init, TypeOK, Acts, Callbacks
<1>3. \A c \in Contexts : ~Changing(c) /\ pc[c] = "idle"
  BY DEF Init, Changing
<1>4. LockInv /\ SignalInv /\ PendingInv /\ AloneInv
  BY <1>3, NobodyAssumption DEF Init, LockInv, SignalInv, PendingInv, AloneInv
<1>5. KernelInv /\ CallableInv
  BY <1>1 DEF Init, KernelInv, CallableInv
<1>6. ClearInv
  BY <1>1, <1>3 DEF Init, ClearInv, Effective
<1>7. RestoredInv /\ UnwrittenInv
  BY <1>3, NoActIsNoAct, HandlersAssumption DEF Init, RestoredInv, UnwrittenInv
<1> QED  BY <1>2, <1>4, <1>5, <1>6, <1>7 DEF Inv

-----------------------------------------------------------------------------
(* The first half of a call: sigaction() and signal() write the table.     *)

\* When a call begins and no signal() is half done, nothing else is.
LEMMA BeginsAlone ==
    ASSUME Inv, NEW c \in Contexts, pc[c] = "idle", mu = Nobody, ~HalfDone(c)
    PROVE  \A d \in Contexts : pc[d] = "idle"
<1> SUFFICES ASSUME NEW d \in Contexts, d # c PROVE pc[d] = "idle"
  OBVIOUS
<1>1. pc[d] # "signal"
  BY DEF HalfDone
<1>2. pc[d] # "sigaction"
  BY NobodyAssumption DEF Inv, LockInv
<1> QED  BY <1>1, <1>2 DEF Inv, TypeOK

\* Storing keeps a handler in the table.
LEMMA StoredShape ==
    ASSUME TypeOK, NEW a \in Acts \cup {NoAct}
    PROVE  /\ Stored(a) \in Callbacks \cup {Null}
           /\ sigactions \in Callbacks => Stored(a) \in Callbacks
           /\ a.fn \in Callbacks => Stored(a) = a.fn
           /\ a = NoAct => Stored(a) = sigactions
BY NoActIsNoAct DEF TypeOK, Stored

LEMMA SigactionStoreInv ==
    ASSUME Inv, NEW c \in Contexts, NEW a \in Acts \cup {NoAct}, SigactionStore(c, a)
    PROVE  Inv'
<1> USE DEF SigactionStore, Begun, Passes
<1>0. /\ TypeOK /\ LockInv /\ SignalInv /\ KernelInv /\ PendingInv /\ AloneInv /\ ClearInv
      /\ CallableInv /\ RestoredInv /\ UnwrittenInv
  BY DEF Inv
<1>a. /\ act' = [act EXCEPT ![c] = a] /\ pc' = [pc EXCEPT ![c] = "sigaction"]
      /\ old_cb' = [old_cb EXCEPT ![c] = sigactions]
      /\ pc'[c] = "sigaction" /\ act'[c] = a /\ old_cb'[c] = sigactions
      /\ \A d \in Contexts \ {c} : pc'[d] = pc[d] /\ act'[d] = act[d] /\ old_cb'[d] = old_cb[d]
  BY <1>0 DEF TypeOK
<1>1. TypeOK'
  BY <1>0, StoredShape DEF TypeOK
<1>2. LockInv' /\ SignalInv'
  BY <1>0, <1>a, NobodyAssumption DEF LockInv, SignalInv
<1>3. KernelInv' /\ PendingInv' /\ CallableInv'
  <2>1. sigactions \in Callbacks => sigactions' \in Callbacks
    BY <1>0, StoredShape
  <2>2. KernelInv' /\ CallableInv'
    BY <1>0, <2>1 DEF KernelInv, CallableInv
  <2>3. PendingInv'
    BY <1>0, <1>a, <2>1, StoredShape DEF PendingInv
  <2> QED  BY <2>2, <2>3
<1>4. AloneInv'
  <2> SUFFICES ASSUME NEW x \in Contexts, alone' = x, Changing(x)'
               PROVE  /\ act'[x].fn \in Callbacks => sigactions' = act'[x].fn
                      /\ \A d \in Contexts \ {x} : pc'[d] = "idle" \/ Querying(d)'
    BY DEF AloneInv
  <2>1. CASE a = NoAct
    <3>1. x # c /\ alone = x /\ Changing(x) /\ sigactions' = sigactions
      BY <1>0, <1>a, <2>1, StoredShape DEF Changing
    <3>2. Querying(c)'
      BY <1>a, <2>1, <3>1 DEF Querying
    <3>3. \A d \in Contexts \ {x} : pc[d] = "idle" \/ Querying(d)
      BY <1>0, <3>1 DEF AloneInv
    <3>4. ASSUME NEW d \in Contexts \ {x} PROVE pc'[d] = "idle" \/ Querying(d)'
      BY <1>a, <3>1, <3>2, <3>3 DEF Querying
    <3> QED  BY <1>0, <1>a, <3>1, <3>4 DEF AloneInv
  <2>2. CASE a # NoAct
    <3>1. x = c /\ ~HalfDone(c)
      BY <2>2, NobodyAssumption
    <3>2. \A d \in Contexts : pc[d] = "idle"
      BY <3>1, BeginsAlone
    <3> QED  BY <1>0, <1>a, <3>1, <3>2, StoredShape
  <2> QED  BY <2>1, <2>2
<1>5. ClearInv'
  <2> SUFFICES ASSUME ~overlap'
               PROVE  /\ \A x \in Contexts : Changing(x)' => alone' = x
                      /\ \A x \in Contexts : pc'[x] = "signal" => \A d \in Contexts \ {x} : pc'[d] = "idle"
                      /\ \A x \in Contexts : pc'[x] = "sigaction" => OldAct(x)' = last'
                      /\ (\A x \in Contexts : ~Changing(x)') => Effective' = last'
    BY DEF ClearInv
  <2>1. ~overlap /\ ~HalfDone(c)
    OBVIOUS
  <2>2. \A d \in Contexts : pc[d] = "idle"
    BY <2>1, BeginsAlone
  <2>3. Effective = last
    BY <1>0, <2>1, <2>2 DEF ClearInv, Changing
  <2>4. OldAct(c)' = last'
    BY <1>0, <1>a, <2>3, UnwrappedIsEffective DEF OldAct
  <2>5. \A x \in Contexts : Changing(x)' => x = c /\ a # NoAct
    BY <1>a, <2>2 DEF Changing
  <2>6. (\A x \in Contexts : ~Changing(x)') => Effective' = last'
    BY <1>0, <1>a, <2>3, StoredShape DEF Changing, Effective
  <2> QED  BY <1>a, <2>1, <2>2, <2>4, <2>5, <2>6
<1>6. RestoredInv'
  BY <1>0, <1>a, NoActIsNoAct DEF RestoredInv, Stored
<1>7. UnwrittenInv'
  <2> SUFFICES ASSUME NEW x \in Contexts, pc'[x] = "sigaction", old_cb'[x] = Null
               PROVE  /\ kernel'.fn \notin Wrappers
                      /\ \A d \in Contexts \ {x} : pc'[d] # "idle" => act'[d].fn \notin Callbacks
    BY DEF UnwrittenInv
  <2>1. x = c
    BY <1>0, <1>a, NobodyAssumption DEF LockInv
  <2>2. sigactions \notin Callbacks
    BY <1>a, <2>1, HandlersAssumption DEF Callbacks, Wrappers
  <2> QED  BY <1>0, <1>a, <2>1, <2>2 DEF KernelInv, PendingInv
<1> QED  BY <1>1, <1>2, <1>3, <1>4, <1>5, <1>6, <1>7 DEF Inv

LEMMA SignalStoreInv ==
    ASSUME Inv, NEW c \in Contexts, NEW fn \in Callbacks \cup {Dfl, Ign}, SignalStore(c, fn)
    PROVE  Inv'
<1> DEFINE a == [fn |-> fn, info |-> FALSE]
<1>0. /\ TypeOK /\ LockInv /\ SignalInv /\ KernelInv /\ PendingInv /\ AloneInv /\ ClearInv
      /\ CallableInv /\ RestoredInv /\ UnwrittenInv
  BY DEF Inv
<1>b. a \in Acts /\ a # NoAct /\ a.fn = fn
  <2>1. a \in Acts /\ a.fn = fn
    BY DEF Acts
  <2> QED  BY <2>1, NoActIsNoAct
<1>c. /\ Runs(c) /\ pc[c] = "idle" /\ mu = Nobody
      /\ sigactions' = Stored(a)
      /\ act' = [act EXCEPT ![c] = a]
      /\ pc' = [pc EXCEPT ![c] = "signal"]
      /\ overlap' = (overlap \/ HalfDone(c))
      /\ alone' = IF HalfDone(c) THEN Nobody ELSE c
      /\ restored' = (restored \/ a.fn \in Wrappers)
      /\ UNCHANGED <<kernel, mu, old_cb, frame, given, last>>
  BY DEF SignalStore, Begun, Passes
<1> HIDE DEF a
<1>a. /\ pc'[c] = "signal" /\ act'[c] = a
      /\ \A d \in Contexts \ {c} : pc'[d] = pc[d] /\ act'[d] = act[d]
  BY <1>0, <1>c DEF TypeOK
<1>1. TypeOK'
  BY <1>0, <1>b, <1>c, StoredShape DEF TypeOK
<1>2. LockInv' /\ SignalInv'
  BY <1>0, <1>a, <1>b, <1>c, NobodyAssumption DEF LockInv, SignalInv
<1>3. KernelInv' /\ PendingInv' /\ CallableInv'
  <2>1. sigactions \in Callbacks => sigactions' \in Callbacks
    BY <1>0, <1>b, <1>c, StoredShape
  <2>2. KernelInv' /\ CallableInv'
    BY <1>0, <1>c, <2>1 DEF KernelInv, CallableInv
  <2>3. PendingInv'
    BY <1>0, <1>a, <1>b, <1>c, <2>1, StoredShape DEF PendingInv
  <2> QED  BY <2>2, <2>3
<1>4. AloneInv'
  <2> SUFFICES ASSUME NEW x \in Contexts, alone' = x
               PROVE  /\ act'[x].fn \in Callbacks => sigactions' = act'[x].fn
                      /\ \A d \in Contexts \ {x} : pc'[d] = "idle"
    BY DEF AloneInv
  <2>1. x = c /\ ~HalfDone(c)
    BY <1>c, NobodyAssumption
  <2>2. \A d \in Contexts : pc[d] = "idle"
    BY <1>c, <2>1, BeginsAlone
  <2> QED  BY <1>0, <1>a, <1>b, <1>c, <2>1, <2>2, StoredShape
<1>5. ClearInv'
  <2> SUFFICES ASSUME ~overlap' PROVE ClearInv'
    BY DEF ClearInv
  <2>1. ~HalfDone(c)
    BY <1>c
  <2>2. \A d \in Contexts : pc[d] = "idle"
    BY <1>c, <2>1, BeginsAlone
  <2>3. alone' = c /\ Changing(c)'
    BY <1>a, <1>b, <1>c, <2>1 DEF Changing
  <2>4. \A d \in Contexts \ {c} : pc'[d] = "idle"
    BY <1>a, <2>2
  <2> QED  BY <1>a, <2>3, <2>4 DEF ClearInv, Changing
<1>6. RestoredInv'
  BY <1>0, <1>a, <1>c DEF RestoredInv, Stored
<1>7. UnwrittenInv'
  BY <1>0, <1>a, <1>c, NobodyAssumption DEF UnwrittenInv, LockInv
<1> QED  BY <1>1, <1>2, <1>3, <1>4, <1>5, <1>6, <1>7 DEF Inv

-----------------------------------------------------------------------------
(* The second half: the system call.                                       *)

\* What a call that changes the disposition leaves, from either function.
LEMMA CallInv ==
    ASSUME Inv, NEW c \in Contexts, Changing(c), act[c] \in Acts,
           kernel' = Wrapped(act[c]), Ended(c),
           pc' = [pc EXCEPT ![c] = "idle"], act' = [act EXCEPT ![c] = NoAct],
           \A d \in Contexts \ {c} : old_cb'[d] = old_cb[d],
           UNCHANGED <<sigactions, frame, restored, alone>>
    PROVE  /\ SignalInv' /\ KernelInv' /\ PendingInv' /\ CallableInv'
           /\ AloneInv' /\ ClearInv'
<1>0. /\ TypeOK /\ LockInv /\ SignalInv /\ KernelInv /\ PendingInv /\ AloneInv /\ ClearInv
      /\ CallableInv /\ RestoredInv /\ UnwrittenInv
  BY DEF Inv
<1>a. /\ pc'[c] = "idle" /\ act'[c] = NoAct
      /\ \A d \in Contexts \ {c} : pc'[d] = pc[d] /\ act'[d] = act[d]
  BY <1>0 DEF TypeOK
<1>1. SignalInv' /\ PendingInv' /\ CallableInv'
  BY <1>0, <1>a DEF SignalInv, PendingInv, CallableInv
<1>2. KernelInv'
  BY <1>0, WrappedShape DEF KernelInv, PendingInv, Changing
<1>3. AloneInv'
  BY <1>0, <1>a DEF AloneInv, Changing, Querying
<1>4. ClearInv'
  <2> SUFFICES ASSUME ~overlap' PROVE ClearInv'
    BY DEF ClearInv
  <2>1. alone = c
    BY <1>0 DEF ClearInv, Ended
  <2>2. /\ act[c].fn \in Callbacks => sigactions = act[c].fn
        /\ \A d \in Contexts \ {c} : pc[d] = "idle" \/ Querying(d)
    BY <1>0, <2>1 DEF AloneInv
  <2>3. Effective' = last'
    BY <2>2, WrappedShape DEF Effective, Ended, Acts, Wrapped, Wrappers
  <2>4. \A d \in Contexts : ~Changing(d)' /\ pc'[d] # "signal"
    BY <1>a, <2>2 DEF Changing, Querying
  <2>5. ASSUME NEW d \in Contexts, pc'[d] = "sigaction" PROVE OldAct(d)' = last'
    <3>1. old_cb'[d] = sigactions'
      BY <1>a, <2>2, <2>5 DEF Querying
    <3>2. kernel' \in Acts
      BY WrappedShape
    <3>3. [kernel' EXCEPT !.fn = IF kernel'.fn \in Wrappers THEN sigactions' ELSE kernel'.fn]
            = Effective'
      BY <1>2, <3>2 DEF KernelInv, Effective, Wrappers, Acts
    <3> QED  BY <2>3, <3>1, <3>3 DEF OldAct
  <2> QED  BY <2>3, <2>4, <2>5 DEF ClearInv
<1> QED  BY <1>1, <1>2, <1>3, <1>4

LEMMA SigactionCallInv ==
    ASSUME Inv, NEW c \in Contexts, SigactionCall(c)
    PROVE  Inv'
<1>0. /\ TypeOK /\ LockInv /\ SignalInv /\ KernelInv /\ PendingInv /\ AloneInv /\ ClearInv
      /\ CallableInv /\ RestoredInv /\ UnwrittenInv
  BY DEF Inv
<1>b. /\ pc[c] = "sigaction" /\ mu' = Nobody
      /\ pc' = [pc EXCEPT ![c] = "idle"] /\ act' = [act EXCEPT ![c] = NoAct]
      /\ old_cb' = [old_cb EXCEPT ![c] = Null]
      /\ UNCHANGED <<sigactions, frame, given, restored, alone>>
  BY DEF SigactionCall
<1>a. /\ pc'[c] = "idle" /\ act'[c] = NoAct
      /\ \A d \in Contexts \ {c} : pc'[d] = pc[d] /\ act'[d] = act[d] /\ old_cb'[d] = old_cb[d]
  BY <1>0, <1>b DEF TypeOK
<1>1. LockInv'
  BY <1>0, <1>a, <1>b, NobodyAssumption DEF LockInv
<1>c. RestoredInv' /\ UnwrittenInv'
  <2>1. RestoredInv'
    BY <1>0, <1>a, <1>b, NoActIsNoAct, HandlersAssumption DEF RestoredInv, TypeOK
  <2>2. \A x \in Contexts : pc'[x] # "sigaction"
    BY <1>0, <1>a, <1>b DEF LockInv
  <2> QED  BY <2>1, <2>2 DEF UnwrittenInv
<1>2. CASE act[c] = NoAct
  <2>0. UNCHANGED <<kernel, last, overlap>>
    BY <1>2 DEF SigactionCall
  <2>1. TypeOK'
    BY <1>0, <1>b, <2>0 DEF TypeOK
  <2>2. SignalInv' /\ PendingInv' /\ CallableInv' /\ KernelInv'
    BY <1>0, <1>a, <1>b, <2>0 DEF SignalInv, PendingInv, CallableInv, KernelInv
  <2>3. \A d \in Contexts : Changing(d)' <=> Changing(d)
    BY <1>a, <1>2 DEF Changing
  <2>4. AloneInv'
    <3> SUFFICES ASSUME NEW x \in Contexts, alone' = x, Changing(x)'
                 PROVE  /\ act'[x].fn \in Callbacks => sigactions' = act'[x].fn
                        /\ \A d \in Contexts \ {x} : pc'[d] = "idle" \/ Querying(d)'
      BY DEF AloneInv
    <3>1. alone = x /\ Changing(x) /\ x # c
      BY <1>a, <1>b, <1>2, <2>3 DEF Changing
    <3>2. ASSUME NEW d \in Contexts \ {x} PROVE pc'[d] = "idle" \/ Querying(d)'
      BY <1>0, <1>a, <1>b, <3>1 DEF AloneInv, Querying
    <3> QED  BY <1>0, <1>a, <1>b, <3>1, <3>2 DEF AloneInv
  <2>5. ClearInv'
    <3>1. Effective' = Effective
      BY <1>b, <2>0 DEF Effective
    <3>2. \A d \in Contexts \ {c} : OldAct(d)' = OldAct(d)
      BY <1>a, <1>b, <2>0 DEF OldAct
    <3> QED  BY <1>0, <1>a, <1>b, <2>0, <2>3, <3>1, <3>2 DEF ClearInv
  <2> QED  BY <1>1, <1>c, <2>1, <2>2, <2>4, <2>5 DEF Inv
<1>3. CASE act[c] # NoAct
  <2>1. act[c] \in Acts /\ Changing(c)
    BY <1>0, <1>b, <1>3 DEF TypeOK, Changing
  <2>2. kernel' = Wrapped(act[c]) /\ Ended(c)
    BY <1>3 DEF SigactionCall
  <2>3. TypeOK'
    BY <1>0, <1>b, <2>1, <2>2, WrappedShape DEF TypeOK, Ended
  <2>4. /\ SignalInv' /\ KernelInv' /\ PendingInv' /\ CallableInv'
        /\ AloneInv' /\ ClearInv'
    BY <1>a, <1>b, <2>1, <2>2, CallInv
  <2> QED  BY <1>1, <1>c, <2>3, <2>4 DEF Inv
<1> QED  BY <1>2, <1>3

LEMMA SignalCallInv ==
    ASSUME Inv, NEW c \in Contexts, SignalCall(c)
    PROVE  Inv'
<1>0. TypeOK /\ LockInv /\ SignalInv /\ RestoredInv /\ UnwrittenInv
  BY DEF Inv
<1>1. /\ pc[c] = "signal" /\ kernel' = Wrapped(act[c]) /\ Ended(c)
      /\ pc' = [pc EXCEPT ![c] = "idle"] /\ act' = [act EXCEPT ![c] = NoAct]
      /\ given' = given \cup ({kernel.fn} \cap Wrappers)
      /\ UNCHANGED <<sigactions, mu, old_cb, frame, restored, alone>>
  BY DEF SignalCall
<1>2. act[c] \in Acts /\ Changing(c)
  BY <1>0, <1>1, NoActIsNoAct DEF SignalInv, Changing
<1>3. TypeOK'
  BY <1>0, <1>1, <1>2, WrappedShape DEF TypeOK, Ended
<1>4. LockInv'
  BY <1>0, <1>1 DEF LockInv, TypeOK
<1>5. /\ SignalInv' /\ KernelInv' /\ PendingInv' /\ CallableInv'
      /\ AloneInv' /\ ClearInv'
  BY <1>1, <1>2, CallInv
<1>6. RestoredInv'
  BY <1>0, <1>1, NoActIsNoAct DEF RestoredInv, TypeOK
<1>7. UnwrittenInv'
  <2> SUFFICES ASSUME NEW x \in Contexts, pc'[x] = "sigaction", old_cb'[x] = Null
               PROVE  /\ kernel'.fn \notin Wrappers
                      /\ \A d \in Contexts \ {x} : pc'[d] # "idle" => act'[d].fn \notin Callbacks
    BY DEF UnwrittenInv
  <2>1. x # c /\ pc[x] = "sigaction" /\ old_cb[x] = Null
    BY <1>0, <1>1 DEF TypeOK
  <2>2. act[c].fn \notin Callbacks
    BY <1>0, <1>1, <2>1 DEF UnwrittenInv
  <2>3. kernel'.fn \notin Wrappers
    BY <1>1, <1>2, <2>2, WrappedShape
  <2> QED  BY <1>0, <1>1, <2>1, <2>3 DEF UnwrittenInv, TypeOK
<1> QED  BY <1>3, <1>4, <1>5, <1>6, <1>7 DEF Inv

-----------------------------------------------------------------------------
(* Delivery changes nothing but the frame of a thread.                     *)

LEMMA DeliveryInv ==
    ASSUME Inv, NEW t \in Threads, Deliver(t) \/ LoadCb(t) \/ HandlerReturns(t)
    PROVE  Inv'
<1>1. UNCHANGED <<sigactions, kernel, mu, pc, act, old_cb, given, restored,
                  last, overlap, alone>>
  BY DEF Deliver, LoadCb, HandlerReturns
<1>2. TypeOK'
  BY <1>1 DEF Inv, TypeOK, Deliver, LoadCb, HandlerReturns
<1>3. CallableInv'
  BY <1>1 DEF Inv, TypeOK, CallableInv, KernelInv, Deliver, LoadCb, HandlerReturns
<1>4. LockInv' /\ SignalInv' /\ KernelInv' /\ PendingInv'
  BY <1>1 DEF Inv, LockInv, SignalInv, KernelInv, PendingInv
<1>5. AloneInv' /\ ClearInv'
  BY <1>1 DEF Inv, AloneInv, ClearInv, Changing, Querying, OldAct, Effective
<1>6. RestoredInv' /\ UnwrittenInv'
  BY <1>1 DEF Inv, RestoredInv, UnwrittenInv
<1> QED  BY <1>2, <1>3, <1>4, <1>5, <1>6 DEF Inv

LEMMA StutterInv == ASSUME Inv, UNCHANGED vars PROVE Inv'
BY DEF vars, Inv, TypeOK, CallableInv, LockInv, SignalInv, KernelInv, PendingInv,
       AloneInv, ClearInv, RestoredInv, UnwrittenInv, Changing, Querying, OldAct, Effective

LEMMA NextInv == Inv /\ [Next]_vars => Inv'
<1> SUFFICES ASSUME Inv, [Next]_vars PROVE Inv'
  OBVIOUS
<1>1. ASSUME NEW c \in Contexts, NEW a \in Acts \cup {NoAct}, SigactionStore(c, a) PROVE Inv'
  BY <1>1, SigactionStoreInv
<1>2. ASSUME NEW c \in Contexts, NEW fn \in Callbacks \cup {Dfl, Ign}, SignalStore(c, fn)
      PROVE  Inv'
  BY <1>2, SignalStoreInv
<1>3. ASSUME NEW c \in Contexts, SigactionCall(c) \/ SignalCall(c) PROVE Inv'
  BY <1>3, SigactionCallInv, SignalCallInv
<1>4. ASSUME NEW t \in Threads, Deliver(t) \/ LoadCb(t) \/ HandlerReturns(t) PROVE Inv'
  BY <1>4, DeliveryInv
<1> QED  BY <1>1, <1>2, <1>3, <1>4, StutterInv DEF Next

LEMMA InvAlways == Spec => []Inv
BY InitInv, NextInv, PTL DEF Spec

-----------------------------------------------------------------------------
\* The table, the disposition and the calls stay well typed: the table holds
\* functions, never SIG_DFL or SIG_IGN.
THEOREM TypeCorrect == Spec => []TypeOK
<1>1. Inv => TypeOK
  BY DEF Inv
<1> QED  BY <1>1, InvAlways, PTL

\* A wrapper that the kernel has entered finds a function to call, however the
\* calls of any number of threads and handlers overlap, and it is a handler as
\* long as the program has passed no address that signal() returned to a call.
THEOREM HandlerAlwaysCallable == Spec => []HandlerIsCallable
<1>1. Inv => HandlerIsCallable
  BY DEF Inv, TypeOK, CallableInv, RestoredInv, HandlerIsCallable, OfTheProgram, Callbacks
<1> QED  BY <1>1, InvAlways, PTL

\* When no call is in progress and none has overlapped a signal() since things
\* were last set right, the kernel and the table together are what the last
\* call asked for.
THEOREM TableAgreesWithKernel == Spec => []Agreement
<1>1. Inv => Agreement
  BY DEF Inv, ClearInv, Changing, Agreement
<1> QED  BY <1>1, InvAlways, PTL

\* On the same condition sigaction() returns in oldact what the last call
\* before it asked for.
THEOREM OldactIsTheLastAct == Spec => OldactIsLast
<1>1. Inv /\ [Next]_vars =>
        [\A c \in Contexts : SigactionCall(c) /\ ~overlap => OldAct(c) = last]_vars
  BY DEF Inv, ClearInv, SigactionCall
<1> QED  BY <1>1, InvAlways, PTL DEF Spec, OldactIsLast

\* Whatever overlaps, oldact is SIG_DFL, SIG_IGN or a handler of the program, or
\* else a wrapper that the program has itself passed to a call.
THEOREM OldactIsAlwaysUsable == Spec => OldactIsUsable
<1>1. ASSUME Inv, NEW c \in Contexts, SigactionCall(c)
      PROVE  OldAct(c).fn \in {Dfl, Ign} \/ OfTheProgram(OldAct(c).fn)
  <2>1. pc[c] = "sigaction" /\ TypeOK /\ RestoredInv /\ UnwrittenInv
    BY <1>1 DEF SigactionCall, Inv
  <2>2. CASE kernel.fn \in Wrappers
    <3>1. OldAct(c).fn = old_cb[c]
      BY <2>1, <2>2 DEF OldAct, TypeOK, Acts
    <3>2. old_cb[c] \in Callbacks
      BY <2>1, <2>2 DEF UnwrittenInv, TypeOK
    <3> QED  BY <2>1, <3>1, <3>2 DEF RestoredInv, OfTheProgram, Callbacks
  <2>3. CASE kernel.fn \notin Wrappers
    <3>1. OldAct(c).fn = kernel.fn
      BY <2>1, <2>3 DEF OldAct, TypeOK, Acts
    <3> QED  BY <2>1, <2>3, <3>1 DEF TypeOK, Acts, OfTheProgram, Callbacks
  <2> QED  BY <2>2, <2>3
<1>2. Inv /\ [Next]_vars =>
        [\A c \in Contexts : SigactionCall(c) =>
           OldAct(c).fn \in {Dfl, Ign} \/ OfTheProgram(OldAct(c).fn)]_vars
  BY <1>1
<1> QED  BY <1>2, InvAlways, PTL DEF Spec, OldactIsUsable
=============================================================================
