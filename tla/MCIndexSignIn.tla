--------------------------- MODULE MCIndexSignIn ---------------------------
(***************************************************************************)
(* Instance for TLC of the indexing runs and of signing in to one account. *)
(* The two share no state, so that no interleaving of them adds a          *)
(* behaviour to either, and a behaviour of this instance is one of one of  *)
(* them.                                                                   *)
(***************************************************************************)
EXTENDS IndexRun, SignIn, TLC

CONSTANTS u1, u2, q1, q2, k1, k2, c1    \* model values

VARIABLE part        \* the one that takes steps

MCInit == Init /\ SignInInit /\ part \in {"indexing", "sign in"}

MCNext ==
  /\ \/ part = "indexing" /\ Next /\ UNCHANGED signInVars
     \/ part = "sign in" /\ SignInNext /\ UNCHANGED vars
  /\ UNCHANGED part

MCSpec == MCInit /\ [][MCNext]_<<vars, signInVars, part>>

\* Devices are Requests here, and sessions Urls: one permutation for both.
Symmetry == Permutations(Urls) \cup Permutations(Requests) \cup Permutations(Secrets)
=============================================================================
