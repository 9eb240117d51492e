----------------------------- MODULE MCAccounts -----------------------------
(* Instance of Accounts for TLC.                                            *)
EXTENDS Accounts, TLC

CONSTANTS u1, u2, u3, r1, r2, l1, l2     \* model values

Symmetry == Permutations(Users) \cup Permutations(Requests) \cup
            Permutations(Links)
=============================================================================
