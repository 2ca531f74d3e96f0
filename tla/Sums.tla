------------------------------- MODULE Sums -------------------------------
(***************************************************************************)
(* The sum of the amounts that a function gives the members of a finite    *)
(* set, as SELECT SUM does.  An operator over functions, and not one that  *)
(* takes an operator, can be reasoned about: see SumsProofs.               *)
(***************************************************************************)
EXTENDS Integers, FiniteSetsExt

SumOver(W, S) == MapThenSumSet(LAMBDA x : W[x], S)
=============================================================================
