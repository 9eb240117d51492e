------------------------------ MODULE RunSlot ------------------------------
(***************************************************************************)
(* What a subsystem of runs promises to its users, with no threads in it:  *)
(* a single slot for a run, a request to stop that is remembered until the *)
(* slot is claimed again and after which only so many results are taken    *)
(* in, and a buffer of results that belongs to the run holding the slot.   *)
(* The promise is the one of ARCHITECTURE.md, section "Concurrency         *)
(* Invariants", and of the docstring of app/blueprints/audit.py; AuditRun  *)
(* and IndexRun are its implementations.                                   *)
(***************************************************************************)
EXTENDS Naturals

CONSTANTS
  Items,            \* what a run can produce a result for
  Grace             \* how many results may be in hand when it is asked to stop

VARIABLES
  active,           \* the run holding the slot, 0 when it is free
  begun,            \* how many runs have claimed the slot so far
  stopping,         \* somebody asked the current run to stop
  grace,            \* how many results it may still take in although it was
  results           \* <<run, item>> pairs available for export

vars == <<active, begun, stopping, grace, results>>

Init ==
  /\ active = 0 /\ begun = 0 /\ stopping = FALSE /\ grace = 0
  /\ results = {}

(* A run claims the free slot and starts with an empty buffer and no        *)
(* pending request to stop.                                                 *)
Begin ==
  /\ active = 0
  /\ active' = begun + 1
  /\ begun' = begun + 1
  /\ stopping' = FALSE /\ grace' = 0 /\ results' = {}

(* Anybody may ask the current run to stop, at any time; asking again gives *)
(* it no more time.                                                         *)
Stop ==
  /\ stopping' = TRUE
  /\ IF stopping THEN grace' = grace ELSE grace' \in 0..Grace
  /\ UNCHANGED <<active, begun, results>>

(* The run takes in a result (a full buffer drops it).  Once stopping is    *)
(* set these are the results it was already handling.                       *)
Collect(i) ==
  /\ active # 0
  /\ IF stopping THEN grace > 0 /\ grace' = grace - 1 ELSE grace' = grace
  /\ \E kept \in SUBSET {<<active, i>>} : results' = results \cup kept
  /\ UNCHANGED <<active, begun, stopping>>

(* The run ends: the slot is free, its results stay available.              *)
End ==
  /\ active # 0
  /\ active' = 0
  /\ UNCHANGED <<begun, stopping, grace, results>>

(* The process restarts and forgets everything it held in memory.           *)
Restart ==
  /\ active' = 0 /\ stopping' = FALSE /\ grace' = 0 /\ results' = {}
  /\ begun' = begun

Next ==
  \/ Begin
  \/ Stop
  \/ \E i \in Items : Collect(i)
  \/ End
  \/ Restart

Spec == Init /\ [][Next]_vars
=============================================================================
