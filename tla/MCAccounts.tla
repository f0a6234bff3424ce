----------------------------- MODULE MCAccounts -----------------------------
(* Bounds of TLC's runs of the accounts module. *)
EXTENDS AccountsInductive, TLC

Symmetry == Permutations(Request) \cup Permutations(Name) \cup Permutations(Password)
=============================================================================
