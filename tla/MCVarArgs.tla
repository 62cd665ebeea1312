----------------------------- MODULE MCVarArgs -----------------------------
(***************************************************************************)
(* One register of each kind, so that short lists spill.  The outermost    *)
(* function makes every call with up to two fixed and two variadic         *)
(* arguments, the functions and handlers it runs some of them.             *)
(***************************************************************************)
EXTENDS VarArgs

Lists(n, m) == [fixed : BoundedSeq(Kinds, n), var : BoundedSeq(Kinds, m)]

Some == {[fixed |-> <<>>, var |-> <<"gp">>],
         [fixed |-> <<"gp">>, var |-> <<"gp", "fp", "fp">>],
         [fixed |-> <<"struct">>, var |-> <<"struct", "x87">>]}

MCCallsAt == <<Lists(2, 2), Some, Some>>
============================================================================
