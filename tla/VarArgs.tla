------------------------------ MODULE VarArgs ------------------------------
(***************************************************************************)
(* How the callee of a variadic call learns which part of its stack to     *)
(* mark as initialised.                                                    *)
(*                                                                         *)
(* The arguments that do not fit in registers are stored on the stack by   *)
(* machine code that updates no shadow.  The instrumented caller counts    *)
(* them at compile time and stores their size in a thread-local variable;  *)
(* the callee reads it in its prologue and unpoisons as much at va_start.  *)
(* Between the store and the read a signal handler can run, which makes    *)
(* variadic calls of its own; SignalHandler and SignalAction save and      *)
(* restore the variable.  A caller that is not instrumented stores         *)
(* nothing.                                                                *)
(*                                                                         *)
(* One thread; the unit is a word of 8 bytes.  128-bit integers and wide   *)
(* vectors, which the code itself classifies only roughly, are left out.   *)
(* The shadow has the default convention, in which the zeroes that the     *)
(* prologue and va_start store mean initialised.                           *)
(***************************************************************************)
EXTENDS Naturals, Sequences, SequencesExt

CONSTANTS
  GpRegs, FpRegs,  \* 6 and 8: AMD64GpEndOffset / 8, and / 16 above it
  CallsAt,         \* CallsAt[d]: the calls made from depth d
  MaxDepth         \* bound on the depth of the stack of activations

Kinds == {"gp", "fp", "x87", "struct"}

\* A call: the kinds of its fixed and of its variadic arguments.
Calls == [fixed : Seq(Kinds), var : Seq(Kinds)]

ASSUME VarArgsAssumption ==
  /\ GpRegs \in Nat /\ FpRegs \in Nat /\ MaxDepth \in Nat \ {0}
  /\ \A d \in 1..MaxDepth - 1 : CallsAt[d] \subseteq Calls

\* getTypeAllocSize, rounded up, in words.
Words(k) == CASE k \in {"gp", "fp"} -> 1 [] k = "x87" -> 2 [] k = "struct" -> 3

\* CB.args(): the fixed arguments come first.
Args(c) == c.fixed \o c.var

----------------------------------------------------------------------------
(* VarArgAMD64Helper::visitCallBase.                                       *)

\* GpOffset and FpOffset, OverflowOffset: the registers and the room taken.
NoRegs == [k \in {"gp", "fp"} |-> 0]
Nothing == [used |-> NoRegs, overflow |-> 0]

\* Does the argument go to memory, given the registers used so far?
InMemory(used, k) ==
  \/ k \in {"x87", "struct"}
  \/ k = "gp" /\ used[k] >= GpRegs
  \/ k = "fp" /\ used[k] >= FpRegs

\* The next register of the kind is taken.
Take(used, k) == [used EXCEPT ![k] = @ + 1]

\* One argument; a fixed one takes registers but no room in the area.
CountArg(acc, k, isFixed) ==
  IF ~InMemory(acc.used, k) THEN [acc EXCEPT !.used = Take(@, k)]
  ELSE IF isFixed THEN acc
  ELSE [acc EXCEPT !.overflow = @ + Words(k)]

\* The loop over the arguments: what it has counted after the first n.
Counted(c) ==
  LET count[n \in 0..Len(Args(c))] ==
        IF n = 0 THEN Nothing
        ELSE CountArg(count[n - 1], Args(c)[n], n <= Len(c.fixed))
  IN count

\* Mutant: fixed arguments on the stack are counted.
OverflowSizeFixedToo(c) ==
  LET all == [fixed |-> <<>>, var |-> Args(c)]
  IN Counted(all)[Len(Args(c))].overflow

\* What the caller stores.
OverflowSize(c) == Counted(c)[Len(Args(c))].overflow

----------------------------------------------------------------------------
(* The AMD64 calling convention, where the arguments really are.           *)

Start == [used |-> NoRegs, sp |-> 0, at |-> {}]

\* A register of the argument's kind is left for it.
RegisterLeft(used, k) ==
  k \in DOMAIN used /\ used[k] < (IF k = "gp" THEN GpRegs ELSE FpRegs)

\* A long double is aligned to two words.
Align(k, n) == IF k = "x87" THEN n + (n % 2) ELSE n

\* One argument: the next register of its kind, or the stack.
PlaceArg(acc, k) ==
  LET from == Align(k, acc.sp) IN
  IF RegisterLeft(acc.used, k) THEN [acc EXCEPT !.used = Take(@, k)]
  ELSE [acc EXCEPT !.sp = from + Words(k), !.at = @ \cup from..(from + Words(k) - 1)]

\* Where the first n arguments are.
Placed(c) ==
  LET place[n \in 0..Len(Args(c))] ==
        IF n = 0 THEN Start ELSE PlaceArg(place[n - 1], Args(c)[n])
  IN place

\* The words of the stack that va_arg reads, counted from where va_start
\* points: behind the fixed arguments.
Read(c) ==
  LET named == Placed(c)[Len(c.fixed)]
      all == Placed(c)[Len(Args(c))]
  IN {w - named.sp : w \in all.at \ named.at}

\* Some word of the area is padding.
Padded(c) == \E w \in Read(c) : \E v \in 0..w : v \notin Read(c)

----------------------------------------------------------------------------
VARIABLES
  tls,     \* __cqmsan_va_arg_overflow_size_tls
  stack    \* activations, the innermost last

vars == <<tls, stack>>

None == [fixed |-> <<>>, var |-> <<>>]

\* as: "function" that was called with call, by an instrumented caller or
\* not, or a signal "handler"; size: VAArgOverflowSize of a function, the
\* backup of a handler; calling: it has stored the size for a call.
Activation(as, call, known, size) ==
  [as |-> as, call |-> call, known |-> known, size |-> size, calling |-> FALSE, next |-> None]

Init ==
  /\ tls = 0
  /\ stack = <<Activation("function", None, TRUE, 0)>>

Top == Last(stack)
Deeper == Len(stack) < MaxDepth

\* The caller, immediately before the call.
StoreSize ==
  /\ ~Top.calling /\ Deeper
  /\ \E c \in CallsAt[Len(stack)] :
       /\ tls' = OverflowSize(c)
       /\ stack' = [stack EXCEPT ![Len(stack)] = [@ EXCEPT !.calling = TRUE, !.next = c]]

\* The value the callee of the call in progress works with: read once, in
\* its prologue.
SizeAtEntry == tls

Prologue ==
  /\ Top.calling /\ Deeper
  /\ stack' = Append([stack EXCEPT ![Len(stack)] = [@ EXCEPT !.calling = FALSE, !.next = None]],
                     Activation("function", Top.next, TRUE, SizeAtEntry))
  /\ UNCHANGED tls

\* A variadic function of the program is called by code that is not
\* instrumented, a library for instance.
ForeignCall ==
  /\ ~Top.calling /\ Deeper
  /\ \E c \in CallsAt[Len(stack)] :
       stack' = Append(stack, Activation("function", c, FALSE, SizeAtEntry))
  /\ UNCHANGED tls

\* A signal arrives: SignalHandler or SignalAction, with its backup.
Deliver ==
  /\ Deeper
  /\ stack' = Append(stack, Activation("handler", None, TRUE, tls))
  /\ UNCHANGED tls

\* Mutants: the variable is reset with the rest of the state; it is kept.
RestoreZero == 0
RestoreNothing == tls

\* ~ScopedThreadLocalStateBackup.
Restore == Top.size

Return ==
  /\ Len(stack) > 1 /\ ~Top.calling
  /\ tls' = IF Top.as = "handler" THEN Restore ELSE tls
  /\ stack' = Front(stack)

Next == StoreSize \/ Prologue \/ ForeignCall \/ Deliver \/ Return

Spec == Init /\ [][Next]_vars

----------------------------------------------------------------------------
\* The words that the variadic arguments of c take if none is in a register.
VarWords(c) ==
  LET sum[n \in 0..Len(c.var)] == IF n = 0 THEN 0 ELSE sum[n - 1] + Words(c.var[n])
  IN sum[Len(c.var)]

\* What a caller may store: never more than the variadic arguments take.
Sizes == {0} \cup UNION {0..VarWords(c) : c \in UNION {CallsAt[d] : d \in 1..MaxDepth - 1}}

(* The variables have their types: no size is more than the variadic       *)
(* arguments of a call take.                                               *)
TypeOK ==
  /\ tls \in Sizes
  /\ Len(stack) \in 1..MaxDepth
  /\ \A i \in 1..Len(stack) :
       /\ stack[i].as \in {"function", "handler"}
       /\ stack[i].size \in Sizes /\ stack[i].known \in BOOLEAN

\* What finalizeInstrumentation unpoisons at va_start.
Cleaned(f) == 0..f.size - 1

Instrumented == {i \in 1..Len(stack) : stack[i].as = "function" /\ stack[i].known}

(* No false alarm: whatever handlers and nested calls ran in between, a    *)
(* function called by instrumented code unpoisons every word its va_arg    *)
(* will read, unless alignment put a hole between two arguments.           *)
VarargsAreClean ==
  \A i \in Instrumented :
    Padded(stack[i].call) \/ Read(stack[i].call) \subseteq Cleaned(stack[i])

(* No missed read: it unpoisons nothing above its arguments, where the     *)
(* frame of the caller begins.                                             *)
CallerStaysPoisoned ==
  \A i \in Instrumented :
    \A w \in Cleaned(stack[i]) : \E v \in Read(stack[i].call) : w <= v
============================================================================
