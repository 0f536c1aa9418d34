--------------------------- MODULE MCMembership ---------------------------
(* An instance of MemberCards, and with it of MemberAccounts, for TLC.     *)
EXTENDS MemberCards, TLC

OneLevel == <<2>>
Corrections == {[principal |-> -1, bonus |-> 1, points |-> 0]}
Symmetry == Permutations(Callers)
=============================================================================
