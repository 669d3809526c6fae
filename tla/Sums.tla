------------------------------- MODULE Sums ---------------------------------
(***************************************************************************)
(* What the queries' SUM and the services' reduce compute: the numbers f   *)
(* gives to the members of a finite set, added up.                         *)
(***************************************************************************)
EXTENDS Integers, FiniteSets, FiniteSetsExt

SumOf(f, S) == MapThenSumSet(LAMBDA x : f[x], S)
=============================================================================
