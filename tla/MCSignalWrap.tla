---------------------------- MODULE MCSignalWrap ----------------------------
(***************************************************************************)
(* Two threads, each of which can be interrupted, and three handlers, one  *)
(* of them the runtime's.  Threads are interchangeable, and so are the     *)
(* program's handlers.                                                     *)
(***************************************************************************)
EXTENDS SignalWrap, TLC

Symmetry == Permutations(Threads) \cup Permutations(Handlers \ {Deadly})
=============================================================================
