------------------------------ MODULE SignalWrap ------------------------------
(***************************************************************************)
(* The interceptors of sigaction() and signal(), for one signal.  The      *)
(* kernel is given a wrapper, SignalHandler or SignalAction, that restores *)
(* the shadow of the arguments and calls what sigactions[signo] holds; the *)
(* table is written under sigactions_mu, the kernel's disposition by the   *)
(* system call, and the wrappers read the table without the lock.          *)
(*                                                                         *)
(* A context is <<t, 0>>, the code of thread t, or <<t, 1>>, the handler   *)
(* that has interrupted it: the kernel blocks a signal while its handler   *)
(* runs, so that there is one level.  signal() returns what the kernel     *)
(* had, the address of a wrapper if that is what it was given, and the     *)
(* program may pass such an address on to a later call: the table then     *)
(* holds a wrapper, and the next delivery finds itself to call.            *)
(* The system call succeeds: it fails only for a signal that cannot be     *)
(* caught, whose entry of the table nobody reads.  Exclusive mode and      *)
(* wrap_signals=0, which bypass the table, are left out.                   *)
(***************************************************************************)
EXTENDS Naturals

CONSTANTS Threads,
          Handlers,            \* functions of the program and of the runtime
          Deadly,              \* CQMsanOnDeadlySignal, one of them
          Dfl, Ign,            \* SIG_DFL, SIG_IGN
          Null,                \* an entry of sigactions never written
          Nobody

Wrappers == {"SignalHandler", "SignalAction"}
Callbacks == Handlers \cup Wrappers
Contexts == Threads \X {0, 1}

(* What the program asks for: a function and whether sa_flags has          *)
(* SA_SIGINFO.  NoAct is a null act: sigaction() only queries.             *)
Acts == [fn : Callbacks \cup {Dfl, Ign}, info : BOOLEAN]
NoAct == [fn |-> Null, info |-> FALSE]

ASSUME HandlersAssumption ==
    /\ Deadly \in Handlers
    /\ Dfl \notin Handlers /\ Ign \notin Handlers /\ Null \notin Handlers \cup {Dfl, Ign}
    /\ Wrappers \cap (Handlers \cup {Dfl, Ign, Null}) = {}
ASSUME NobodyAssumption == Nobody \notin Contexts

VARIABLES sigactions,  \* the entry of the signal
          kernel,      \* its disposition
          mu,          \* the context that holds sigactions_mu
          pc, act,     \* of each context: the call it is in, and its argument
          old_cb,      \* of each context: a local of sigaction_impl
          frame,       \* of each thread: where its handler is
          given,       \* the wrappers that signal() has returned to the program
          restored,    \* history: the program has passed one of them to a call
          last,        \* history: what the last call to be completed asked for
          overlap,     \* history: a call ran while a signal() was half done,
                       \* and none has set things right since
          alone        \* history: the context whose call nothing overlapped yet

vars == <<sigactions, kernel, mu, pc, act, old_cb, frame, given, restored,
          last, overlap, alone>>

TypeOK ==
    /\ sigactions \in Callbacks \cup {Null}
    /\ kernel \in Acts
    /\ mu \in Contexts \cup {Nobody}
    /\ pc \in [Contexts -> {"idle", "sigaction", "signal"}]
    /\ act \in [Contexts -> Acts \cup {NoAct}]
    /\ old_cb \in [Contexts -> Callbacks \cup {Null}]
    /\ frame \in [Threads -> {"none", "entered", "running"}]
    /\ given \subseteq Wrappers
    /\ restored \in BOOLEAN
    /\ last \in Acts
    /\ overlap \in BOOLEAN
    /\ alone \in Contexts \cup {Nobody}

(* The disposition is inherited, or is the runtime's own handler of a      *)
(* deadly signal, installed with the real sigaction().                     *)
Init ==
    /\ sigactions = Null
    /\ kernel \in {[fn |-> Dfl, info |-> FALSE], [fn |-> Ign, info |-> FALSE],
                   [fn |-> Deadly, info |-> TRUE]}
    /\ mu = Nobody
    /\ pc = [c \in Contexts |-> "idle"]
    /\ act = [c \in Contexts |-> NoAct]
    /\ old_cb = [c \in Contexts |-> Null]
    /\ frame = [t \in Threads |-> "none"]
    /\ given = {} /\ restored = FALSE
    /\ last = kernel
    /\ overlap = FALSE /\ alone = Nobody

-----------------------------------------------------------------------------
(* The calls.                                                              *)

(* A thread runs its handler, if it is in one, and else its own code. *)
Runs(c) == frame[c[1]] = IF c[2] = 1 THEN "running" ELSE "none"

(* Mutant: SIG_DFL and SIG_IGN are stored too. *)
StoredAny(a) == IF a = NoAct THEN sigactions ELSE a.fn

(* The entry of the table after a call: whatever is not SIG_DFL or SIG_IGN *)
(* is stored.                                                              *)
Stored(a) == IF a.fn \in Callbacks THEN a.fn ELSE sigactions

(* Mutant: SA_SIGINFO is not looked at. *)
WrappedPlain(a) == IF a.fn \in Callbacks THEN [a EXCEPT !.fn = "SignalHandler"] ELSE a

(* What the real function is given. *)
Wrapped(a) ==
    IF a.fn \in Callbacks
    THEN [a EXCEPT !.fn = IF a.info THEN "SignalAction" ELSE "SignalHandler"]
    ELSE a

(* Histories, when context c begins a call that changes the disposition or *)
(* a query, and when it ends one.                                          *)
HalfDone(c) == \E d \in Contexts \ {c} : pc[d] = "signal"

Begun(c, changes) ==
    /\ overlap' = (overlap \/ HalfDone(c))
    /\ alone' = IF ~changes THEN alone ELSE IF HalfDone(c) THEN Nobody ELSE c

Ended(c) ==
    /\ last' = act[c]
    /\ overlap' = (overlap /\ alone # c)

(* The program passes a: a wrapper only if signal() has returned it. *)
Passes(a) ==
    /\ a.fn \in Wrappers => a.fn \in given
    /\ restored' = (restored \/ a.fn \in Wrappers)

(* sigaction_impl up to the system call, which it makes with the lock held. *)
SigactionStore(c, a) ==
    /\ Runs(c) /\ pc[c] = "idle" /\ mu = Nobody
    /\ mu' = c
    /\ old_cb' = [old_cb EXCEPT ![c] = sigactions]
    /\ sigactions' = Stored(a)
    /\ act' = [act EXCEPT ![c] = a]
    /\ pc' = [pc EXCEPT ![c] = "sigaction"]
    /\ Passes(a) /\ Begun(c, a # NoAct)
    /\ UNCHANGED <<kernel, frame, given, last>>

(* Mutants: the table is read again after the call; one wrapper is missed. *)
OldActPlain(c) ==
    [kernel EXCEPT !.fn = IF kernel.fn = "SignalHandler" THEN old_cb[c] ELSE kernel.fn]

OldActReread(c) ==
    [kernel EXCEPT !.fn = IF kernel.fn \in Wrappers THEN sigactions ELSE kernel.fn]

(* oldact, as the program gets it: the wrapper replaced by old_cb. *)
OldAct(c) ==
    [kernel EXCEPT !.fn = IF kernel.fn \in Wrappers THEN old_cb[c] ELSE kernel.fn]

(* The system call, oldact and the return. *)
SigactionCall(c) ==
    /\ Runs(c) /\ pc[c] = "sigaction"
    /\ mu' = Nobody
    /\ pc' = [pc EXCEPT ![c] = "idle"]
    /\ act' = [act EXCEPT ![c] = NoAct]
    /\ old_cb' = [old_cb EXCEPT ![c] = Null]
    /\ IF act[c] = NoAct
       THEN UNCHANGED <<kernel, last, overlap>>
       ELSE kernel' = Wrapped(act[c]) /\ Ended(c)
    /\ UNCHANGED <<sigactions, frame, given, restored, alone>>

(* signal_impl: the lock is released again when it returns ... *)
SignalStore(c, fn) ==
    LET a == [fn |-> fn, info |-> FALSE]
    IN  /\ Runs(c) /\ pc[c] = "idle" /\ mu = Nobody
        /\ sigactions' = Stored(a)
        /\ act' = [act EXCEPT ![c] = a]
        /\ pc' = [pc EXCEPT ![c] = "signal"]
        /\ Passes(a) /\ Begun(c, TRUE)
        /\ UNCHANGED <<kernel, mu, old_cb, frame, given, last>>

(* ... and the interceptor then calls the real signal(), and returns what  *)
(* it returns.                                                             *)
SignalCall(c) ==
    /\ Runs(c) /\ pc[c] = "signal"
    /\ kernel' = Wrapped(act[c])
    /\ given' = given \cup ({kernel.fn} \cap Wrappers)
    /\ pc' = [pc EXCEPT ![c] = "idle"]
    /\ act' = [act EXCEPT ![c] = NoAct]
    /\ Ended(c)
    /\ UNCHANGED <<sigactions, mu, old_cb, frame, restored, alone>>

-----------------------------------------------------------------------------
(* Delivery.  Other dispositions than the wrappers concern no state here.  *)

Deliver(t) ==
    /\ frame[t] = "none" /\ kernel.fn \in Wrappers
    /\ frame' = [frame EXCEPT ![t] = "entered"]
    /\ UNCHANGED <<sigactions, kernel, mu, pc, act, old_cb, given, restored,
                   last, overlap, alone>>

(* The wrapper loads the entry and calls it: a handler, or a wrapper again. *)
LoadCb(t) ==
    /\ frame[t] = "entered"
    /\ frame' = [frame EXCEPT ![t] = IF sigactions \in Wrappers THEN "entered" ELSE "running"]
    /\ UNCHANGED <<sigactions, kernel, mu, pc, act, old_cb, given, restored,
                   last, overlap, alone>>

HandlerReturns(t) ==
    /\ frame[t] = "running" /\ pc[<<t, 1>>] = "idle"
    /\ frame' = [frame EXCEPT ![t] = "none"]
    /\ UNCHANGED <<sigactions, kernel, mu, pc, act, old_cb, given, restored,
                   last, overlap, alone>>

Next ==
    \/ \E c \in Contexts :
         \/ \E a \in Acts \cup {NoAct} : SigactionStore(c, a)
         \/ \E fn \in Callbacks \cup {Dfl, Ign} : SignalStore(c, fn)
         \/ SigactionCall(c) \/ SignalCall(c)
    \/ \E t \in Threads : Deliver(t) \/ LoadCb(t) \/ HandlerReturns(t)

Spec == Init /\ [][Next]_vars

-----------------------------------------------------------------------------
(* Properties.                                                             *)

(* A function the program may be given or have called in its place: one of *)
(* its own, and a wrapper only if it has itself passed to a call the       *)
(* address that signal() returned.                                         *)
OfTheProgram(fn) == fn \in Handlers \/ (restored /\ fn \in Wrappers)

(* Whatever overlaps: from the moment the kernel enters a wrapper there is *)
(* a function in the table for it to call, because the table is written    *)
(* before the system call, and SIG_DFL and SIG_IGN leave it alone for the  *)
(* wrappers that are still on their way.  It is a handler, on condition    *)
(* that the program never passed on what signal() returned.                *)
HandlerIsCallable == \A t \in Threads : frame[t] # "none" => OfTheProgram(sigactions)

(* What the kernel and the table amount to together. *)
Effective ==
    IF kernel.fn \in Wrappers
    THEN [fn |-> sigactions, info |-> kernel.fn = "SignalAction"]
    ELSE kernel

(* "sigactions_mu guarantees atomicity of sigaction() and signal() calls":  *)
(* when no call is in progress, the program's handler is called as the     *)
(* last call asked.  This needs every call to stay clear of a signal(),    *)
(* whose system call is made without the lock; a disagreement lasts until  *)
(* the next call that does.                                                *)
Agreement == (\A c \in Contexts : pc[c] = "idle") /\ ~overlap => Effective = last

(* sigaction() reports what was in effect before it, on the same           *)
(* condition: saving and restoring a disposition with it is exact.         *)
OldactIsLast ==
    [][\A c \in Contexts : SigactionCall(c) /\ ~overlap => OldAct(c) = last]_vars

(* Whatever overlaps, also a signal() whose system call falls between the  *)
(* reading of the table and the system call of sigaction(): oldact is      *)
(* something the program can put back, never the null of an entry not yet  *)
(* written, nor a wrapper unless the program has itself passed one on.     *)
OldactIsUsable ==
    [][\A c \in Contexts : SigactionCall(c) =>
         OldAct(c).fn \in {Dfl, Ign} \/ OfTheProgram(OldAct(c).fn)]_vars
=============================================================================
