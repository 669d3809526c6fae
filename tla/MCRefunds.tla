----------------------------- MODULE MCRefunds -----------------------------
(* Two members of staff and three refunds of one order. *)
EXTENDS Refunds, TLC

CONSTANTS a1, a2, r1, r2, r3

MCAdmins == {a1, a2}
MCIds    == {r1, r2, r3}
Alike    == Permutations(MCAdmins) \cup Permutations(MCIds)
=============================================================================
