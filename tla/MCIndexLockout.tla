--------------------------- MODULE MCIndexLockout ---------------------------
(***************************************************************************)
(* Instance for TLC of two that have to end by themselves: an indexing run *)
(* and the lockout of a user name.  They share no state, so that no        *)
(* interleaving of them adds a behaviour to either, and a behaviour of     *)
(* this instance is one of one of them.                                    *)
(***************************************************************************)
EXTENDS IndexRun, Lockout

CONSTANTS u1, u2, q1, q2     \* model values

VARIABLE part        \* the one that takes steps

MCInit == Init /\ LockoutInit /\ part \in {"indexing", "lockout"}

MCNext ==
  /\ \/ part = "indexing" /\ Next /\ UNCHANGED lockoutVars
     \/ part = "lockout" /\ LockoutNext /\ UNCHANGED vars
  /\ UNCHANGED part

\* No fair step of the other one is enabled, for that one stays as it began.
MCSpec ==
  MCInit /\ [][MCNext]_<<vars, lockoutVars, part>> /\ Fairness /\ LockoutFairness
=============================================================================
