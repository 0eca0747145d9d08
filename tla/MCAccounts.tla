----------------------------- MODULE MCAccounts -----------------------------
(* Model-checking instances of Accounts. *)
EXTENDS Accounts, TLC

Symmetry == Permutations(Req) \cup Permutations(Email)
=============================================================================
