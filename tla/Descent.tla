------------------------------- MODULE Descent -------------------------------
(***************************************************************************)
(* What it means that the steps of a process use something up: a tuple of  *)
(* natural numbers gets smaller, the first that changes counting most.     *)
(* There is no infinite chain of such steps (WFLexProductOrdering).        *)
(***************************************************************************)
EXTENDS Naturals, WellFoundedInduction

Fewer == {pair \in Nat \X Nat : pair[1] < pair[2]}
Descent(n) == LexProductOrdering(Fewer, Nat, n)
Ranks(n) == [1..n -> Nat]
=============================================================================
