--------------------------- MODULE AuditRunProofs ---------------------------
(***************************************************************************)
(* Proofs about AuditRun, for any sets of URLs and requests, any pool      *)
(* size, any bounds.                                                       *)
(***************************************************************************)
EXTENDS AuditRun, FiniteSetTheorems, TLAPS

-----------------------------------------------------------------------------
(* Facts about the operators the actions are built from.                    *)

\* A set of URLs can be counted.
LEMMA UrlsCountable ==
  ASSUME NEW S \in SUBSET Urls
  PROVE  Cardinality(S) \in Nat
  BY AuditAssumption, FS_Subset, FS_CardinalityType

\* Waking the waiting tasks moves none of them out of the future states, and
\* touches no other task.
LEMMA AwakeType ==
  ASSUME NEW f \in [Runs -> [Urls -> FutureState]]
  PROVE  /\ Awake(f) \in [Runs -> [Urls -> FutureState]]
         /\ \A r \in Runs, u \in Urls :
              f[r][u] # "waiting" => Awake(f)[r][u] = f[r][u]
         /\ \A r \in Runs, u \in Urls :
              f[r][u] = "waiting" => Awake(f)[r][u] = "cleared"
  BY DEF Awake, FutureState, Busy

-----------------------------------------------------------------------------
(* Types.                                                                   *)

LEMMA TypingStep ==
  ASSUME TypeOK, HandlingInv, [Next]_vars
  PROVE  TypeOK' /\ HandlingInv'
<1> USE AuditAssumption DEF TypeOK, HandlingInv, shared, files, ghosts, worker
<1>1. ASSUME NEW q \in Requests, HandlerStep(q) \/ UserStep(q)
      PROVE  TypeOK' /\ HandlingInv'
  <2>1. CASE RunCheck(q)
    BY <2>1 DEF RunCheck, Goto, HandlerPC
  <2>2. CASE RunClaim(q)
    <3>1. begun + 1 \in 0..MaxRuns /\ Limit \in Nat
      BY <2>2 DEF RunClaim, Claim
    <3>2. QED
      BY <2>2, <3>1 DEF RunClaim, Claim, Goto, HandlerPC
  <2>3. CASE RunRefused(q)
    BY <2>3 DEF RunRefused, Goto, HandlerPC
  <2>4. CASE RunUnpause(q)
    BY <2>4, AwakeType DEF RunUnpause, SetUnpaused, Goto, HandlerPC
  <2>5. CASE RunSpawn(q)
    <3>1. 0 \in 0..MaxRuns
      OBVIOUS
    <3>2. QED
      BY <2>5, <3>1 DEF RunSpawn, Goto, HandlerPC, WorkerPC
  <2>6. CASE RunLoadFails(q)
    BY <2>6 DEF RunLoadFails, Goto, HandlerPC
  <2>7. CASE CancelSet(q)
    BY <2>7 DEF CancelSet, Goto, HandlerPC
  <2>8. CASE CancelUnpause(q)
    BY <2>8, AwakeType DEF CancelUnpause, SetUnpaused, Goto, HandlerPC
  <2>9. CASE CancelSave(q)
    BY <2>9 DEF CancelSave, Goto, HandlerPC
  <2>10. CASE CancelAnnounce(q)
    BY <2>10 DEF CancelAnnounce, Goto, HandlerPC, Status
  <2>11. CASE PauseCheck(q)
    BY <2>11 DEF PauseCheck, Goto, HandlerPC
  <2>12. CASE PauseClear(q)
    BY <2>12 DEF PauseClear, Goto, HandlerPC
  <2>13. CASE Resume(q)
    BY <2>13, AwakeType DEF Resume, SetUnpaused
  <2>14. QED
    BY <1>1, <2>1, <2>2, <2>3, <2>4, <2>5, <2>6, <2>7, <2>8, <2>9, <2>10,
       <2>11, <2>12, <2>13 DEF HandlerStep, UserStep
<1>2. ASSUME NEW r \in Runs, WorkerStep(r)
      PROVE  TypeOK' /\ HandlingInv'
  <2>0. CASE SubmitUrls(r)
    BY <2>0 DEF SubmitUrls, Move, WorkerPC, FutureState
  <2>1. CASE FetchUrls(r)
    BY <2>1 DEF FetchUrls, Move, WorkerPC
  <2>2. CASE FetchNothing(r)
    BY <2>2 DEF FetchNothing, Move, WorkerPC, Terminal
  <2>3. CASE WorkerRaises(r)
    BY <2>3 DEF WorkerRaises, WorkerPC, Terminal, Status
  <2>4. ASSUME NEW u \in Urls, TakeFuture(r, u)
        PROVE  TypeOK' /\ HandlingInv'
    <3>1. CASE fut[r][u] = "result"
      <4>1. /\ fut' \in [Runs -> [Urls -> FutureState]]
            /\ audits' \in [Runs -> SUBSET Urls]
        BY <2>4, <3>1 DEF TakeFuture, Take, FutureState
      <4>2. /\ wpc' \in [Runs -> WorkerPC]
            /\ cur' \in [Runs -> Urls \cup {"none"}]
            /\ HandlingInv'
        BY <2>4, <3>1 DEF TakeFuture, Take, WorkerPC
      <4>3. QED
        BY <2>4, <4>1, <4>2 DEF TakeFuture, Take
    <3>2. CASE fut[r][u] # "result"
      BY <2>4, <3>2 DEF TakeFuture, Take, FutureState
    <3>3. QED
      BY <3>1, <3>2
  <2>5. ASSUME NEW u \in Urls, StopTaking(r, u)
        PROVE  TypeOK' /\ HandlingInv'
    BY <2>5 DEF StopTaking, Move, WorkerPC, FutureState
  <2>6. CASE BufferResult(r)
    BY <2>6 DEF BufferResult, Buffered, Move, WorkerPC
  <2>7. CASE CountResult(r)
    BY <2>7, UrlsCountable DEF CountResult, Move, WorkerPC
  <2>8. CASE LeavePool(r)
    BY <2>8 DEF LeavePool, WorkerPC
  <2>9. CASE WriteHtml(r)
    BY <2>9 DEF WriteHtml, WriteReport, Move, WorkerPC, Report
  <2>10. CASE WriteXlsx(r)
    BY <2>10 DEF WriteXlsx, WriteReport, Move, WorkerPC, Report
  <2>11. CASE WriteSidecar(r)
    BY <2>11 DEF WriteSidecar, WriteReport, Move, WorkerPC, Report
  <2>12. CASE AnnounceDone(r)
    BY <2>12 DEF AnnounceDone, Move, WorkerPC, Terminal, Status
  <2>13. CASE Finally(r)
    BY <2>13 DEF Finally, Move, WorkerPC, NoFutures, FutureState
  <2>14. QED
    BY <1>2, <2>0, <2>1, <2>2, <2>3, <2>4, <2>5, <2>6, <2>7, <2>8, <2>9, <2>10,
       <2>11, <2>12, <2>13 DEF WorkerStep
<1>3. ASSUME NEW r \in Runs, NEW u \in Urls, TaskStep(r, u)
      PROVE  TypeOK' /\ HandlingInv'
  <2>1. \E s \in FutureState : SetTask(r, u, s)
    BY <1>3 DEF TaskStep, TaskStart, TaskWait, TaskRecheck, TaskReturn,
                FutureState, Busy
  <2>2. QED
    BY <2>1 DEF SetTask
<1>4. CASE Restart
  <2>1. 0 \in 0..MaxRuns
    OBVIOUS
  <2>2. NoFutures \in [Urls -> FutureState]
    BY DEF NoFutures, FutureState
  <2>3. QED
    <3>1. /\ fut' \in [Runs -> [Urls -> FutureState]]
          /\ audits' \in [Runs -> SUBSET Urls]
      BY <1>4, <2>2 DEF Restart
    <3>2. /\ wpc' \in [Runs -> WorkerPC]
          /\ cur' \in [Runs -> Urls \cup {"none"}]
          /\ HandlingInv'
      BY <1>4 DEF Restart, WorkerPC, Active
    <3>3. QED
      BY <1>4, <2>1, <3>1, <3>2 DEF Restart, HandlerPC
<1>5. CASE UNCHANGED vars
  BY <1>5 DEF vars
<1>6. QED
  BY <1>1, <1>2, <1>3, <1>4, <1>5 DEF Next

(* Every variable keeps its type, and the worker has a URL in hand whenever *)
(* it is about to buffer or count a result.                                 *)
THEOREM Typing == Spec => [](TypeOK /\ HandlingInv)
<1>1. Init => TypeOK /\ HandlingInv
  <2>1. 0 \in 0..MaxRuns
    BY AuditAssumption
  <2>2. NoFutures \in [Urls -> FutureState]
    BY DEF NoFutures, FutureState
  <2>3. QED
    <3>1. Init => HandlingInv
      BY DEF Init, HandlingInv
    <3>2. ASSUME Init
          PROVE  TypeOK
      <4>1. /\ running \in BOOLEAN /\ cancel \in BOOLEAN /\ unpaused \in BOOLEAN
            /\ total \in Nat /\ done \in Nat /\ late \in Nat
            /\ full \subseteq Runs \X Urls
            /\ partialReport \subseteq Runs \X Urls
            /\ begun \in 0..MaxRuns
        BY <2>1, <3>2 DEF Init
      <4>2. /\ reports \in [Runs -> SUBSET Report]
            /\ announced \in [Runs -> SUBSET Terminal]
            /\ recorded \in [Runs -> SUBSET Status]
            /\ audits \in [Runs -> SUBSET Urls]
        BY <3>2 DEF Init
      <4>3. /\ hpc \in [Requests -> HandlerPC]
            /\ hrun \in [Requests -> 0..MaxRuns]
            /\ wpc \in [Runs -> WorkerPC]
            /\ cur \in [Runs -> Urls \cup {"none"}]
            /\ fut \in [Runs -> [Urls -> FutureState]]
        BY <2>1, <2>2, <3>2 DEF Init, HandlerPC, WorkerPC
      <4>4. QED
        BY <4>1, <4>2, <4>3 DEF TypeOK
    <3>3. QED
      BY <3>1, <3>2
<1>2. TypeOK /\ HandlingInv /\ [Next]_vars => TypeOK' /\ HandlingInv'
  BY TypingStep
<1>3. QED
  BY <1>1, <1>2, PTL DEF Spec
-----------------------------------------------------------------------------
(* Who owns the slot.                                                       *)

LEMMA SlotInvStep ==
  ASSUME TypeOK, SlotInv, [Next]_vars
  PROVE  SlotInv'
<1> USE DEF TypeOK, SlotInv, Claiming, Active, Runs,
            shared, files, ghosts, worker
<1>1. ASSUME NEW q \in Requests, HandlerStep(q) \/ UserStep(q)
      PROVE  SlotInv'
  <2>1. CASE RunCheck(q)
    BY <2>1 DEF RunCheck, Goto
  <2>2. CASE RunClaim(q)
    <3>1. /\ \A p \in Requests : ~Claiming(p)
          /\ \A r \in Runs : wpc[r] \notin Active
      BY <2>2 DEF RunClaim
    <3>2. \A p \in Requests : Claiming(p)' => p = q
      BY <2>2, <3>1 DEF RunClaim, Claim, Goto
    <3>3. begun' \in Runs /\ begun' > begun
      BY <2>2, AuditAssumption DEF RunClaim, Claim
    <3>4. /\ running' /\ hrun' = [hrun EXCEPT ![q] = begun'] /\ wpc' = wpc
      BY <2>2 DEF RunClaim, Claim
    <3>5. \A r \in Runs : r > begun => wpc[r] = "none"
      OBVIOUS
    <3>6. \A r \in Runs : r > begun' => wpc'[r] = "none"
      BY <3>3, <3>4, <3>5, AuditAssumption
    <3>7. wpc'[begun'] = "none"
      BY <3>3, <3>4, <3>5
    <3>8. hrun'[q] = begun'
      BY <3>3, <3>4
    <3>9. QED
      BY <3>1, <3>2, <3>3, <3>4, <3>6, <3>7, <3>8
  <2>3. CASE RunRefused(q)
    BY <2>3 DEF RunRefused, Goto
  <2>4. CASE RunUnpause(q)
    BY <2>4 DEF RunUnpause, SetUnpaused, Goto
  <2>5. CASE RunSpawn(q)
    <3>1. /\ Claiming(q) /\ running /\ hrun[q] = begun /\ begun \in Runs
          /\ \A r \in Runs : wpc[r] \notin Active
      BY <2>5 DEF RunSpawn, Goto
    <3>2. \A p \in Requests : ~Claiming(p)'
      BY <2>5, <3>1 DEF RunSpawn, Goto
    <3>3. wpc' = [wpc EXCEPT ![begun] = "fetch"]
      BY <2>5, <3>1 DEF RunSpawn
    <3>4. QED
      BY <2>5, <3>1, <3>2, <3>3 DEF RunSpawn
  <2>6. CASE RunLoadFails(q)
    BY <2>6 DEF RunLoadFails, Goto
  <2>7. CASE CancelSet(q)
    BY <2>7 DEF CancelSet, Goto
  <2>8. CASE CancelUnpause(q)
    BY <2>8 DEF CancelUnpause, SetUnpaused, Goto
  <2>9. CASE CancelSave(q)
    BY <2>9 DEF CancelSave, Goto
  <2>10. CASE CancelAnnounce(q)
    BY <2>10 DEF CancelAnnounce, Goto
  <2>11. CASE PauseCheck(q)
    BY <2>11 DEF PauseCheck, Goto
  <2>12. CASE PauseClear(q)
    BY <2>12 DEF PauseClear, Goto
  <2>13. CASE Resume(q)
    BY <2>13 DEF Resume, SetUnpaused
  <2>14. QED
    BY <1>1, <2>1, <2>2, <2>3, <2>4, <2>5, <2>6, <2>7, <2>8, <2>9, <2>10,
      <2>11, <2>12, <2>13 DEF HandlerStep, UserStep
<1>2. ASSUME NEW r \in Runs, WorkerStep(r)
      PROVE  SlotInv'
  <2>0. CASE SubmitUrls(r)
    BY <2>0 DEF SubmitUrls, Move
  <2>1. CASE FetchUrls(r)
    BY <2>1 DEF FetchUrls, Move
  <2>2. CASE FetchNothing(r)
    BY <2>2 DEF FetchNothing, Move
  <2>3. CASE WorkerRaises(r)
    BY <2>3 DEF WorkerRaises
  <2>4. ASSUME NEW u \in Urls, TakeFuture(r, u)
        PROVE  SlotInv'
    BY <2>4 DEF TakeFuture, Take
  <2>5. ASSUME NEW u \in Urls, StopTaking(r, u)
        PROVE  SlotInv'
    BY <2>5 DEF StopTaking, Move
  <2>6. CASE BufferResult(r)
    BY <2>6 DEF BufferResult, Buffered, Move
  <2>7. CASE CountResult(r)
    BY <2>7 DEF CountResult, Move
  <2>8. CASE LeavePool(r)
    BY <2>8 DEF LeavePool
  <2>9. CASE WriteHtml(r)
    BY <2>9 DEF WriteHtml, WriteReport, Move
  <2>10. CASE WriteXlsx(r)
    BY <2>10 DEF WriteXlsx, WriteReport, Move
  <2>11. CASE WriteSidecar(r)
    BY <2>11 DEF WriteSidecar, WriteReport, Move
  <2>12. CASE AnnounceDone(r)
    BY <2>12 DEF AnnounceDone, Move
  <2>13. CASE Finally(r)
    BY <2>13 DEF Finally, Move
  <2>14. QED
    BY <1>2, <2>0, <2>1, <2>2, <2>3, <2>4, <2>5, <2>6, <2>7, <2>8, <2>9, <2>10,
      <2>11, <2>12, <2>13 DEF WorkerStep
<1>3. ASSUME NEW r \in Runs, NEW u \in Urls, TaskStep(r, u)
      PROVE  SlotInv'
  BY <1>3 DEF TaskStep, TaskStart, TaskWait, TaskRecheck, TaskReturn, SetTask
<1>4. CASE Restart
  BY <1>4 DEF Restart
<1>5. CASE UNCHANGED vars
  BY <1>5 DEF vars
<1>6. QED
  BY <1>1, <1>2, <1>3, <1>4, <1>5 DEF Next

(* One run at a time: the claims under way and the workers alive are never  *)
(* two, and the running flag is up while there is one.  The induction needs *)
(* to know whose the slot is: a request thread with a claim holds the       *)
(* number of the latest run, which has no worker yet, and the only worker   *)
(* alive is that of the latest run.                                         *)
THEOREM Exclusion == Spec => [](SlotInv /\ OneRunAtATime)
<1>1. Init => SlotInv
  BY AuditAssumption DEF Init, SlotInv, Claiming, Active, Runs
<1>2. TypeOK /\ SlotInv /\ [Next]_vars => SlotInv'
  BY SlotInvStep
<1>3. SlotInv => OneRunAtATime
  BY DEF SlotInv, OneRunAtATime
<1>4. QED
  BY <1>1, <1>2, <1>3, Typing, PTL DEF Spec

LEMMA SlotHeldStep ==
  ASSUME TypeOK, SlotInv, SlotHeld, [Next]_vars
  PROVE  SlotHeld'
<1> USE DEF shared, files, ghosts, worker
<1> DEFINE Held == /\ begun \in Runs
                   /\ \/ wpc[begun] \in Active
                      \/ \E q \in Requests : Claiming(q) /\ hrun[q] = begun
                      \/ ConfigMayFail /\ wpc[begun] = "none"
<1>0. SUFFICES ASSUME running'
               PROVE  Held'
  BY DEF SlotHeld
<1>1. running => Held
  BY DEF SlotHeld
\* The latest run and its worker are left as they are, and no claim is given
\* up.
<1>2. ASSUME UNCHANGED <<running, begun, wpc>>,
             \A q \in Requests : Claiming(q) => Claiming(q)' /\ hrun'[q] = hrun[q]
      PROVE  Held'
  <2>1. Held
    BY <1>0, <1>1, <1>2
  <2>2. QED
    BY <1>2, <2>1
<1>3. ASSUME NEW q \in Requests, HandlerStep(q) \/ UserStep(q)
      PROVE  Held'
  <2>1. CASE RunClaim(q)
    <3>1. /\ begun' = begun + 1 /\ begun < MaxRuns
          /\ hpc'[q] = "runClaimed" /\ hrun'[q] = begun + 1
      BY <2>1 DEF RunClaim, Claim, Goto, TypeOK
    <3>2. begun' \in Runs
      BY <3>1, AuditAssumption DEF TypeOK, Runs
    <3>3. Claiming(q)'
      BY <3>1 DEF Claiming
    <3>4. QED
      BY <3>1, <3>2, <3>3
  <2>2. CASE RunSpawn(q)
    <3>1. Claiming(q) /\ hrun[q] = begun /\ begun \in Runs
      BY <2>2 DEF RunSpawn, Goto, Claiming, SlotInv
    <3>2. wpc'[begun'] = "fetch" /\ begun' = begun
      BY <2>2, <3>1 DEF RunSpawn, TypeOK
    <3>3. "fetch" \in Active
      BY DEF Active, WorkerPC
    <3>4. QED
      BY <3>1, <3>2, <3>3
  <2>3. CASE RunLoadFails(q)
    <3>1. /\ Claiming(q) /\ ConfigMayFail
          /\ UNCHANGED <<begun, wpc>>
      BY <2>3 DEF RunLoadFails, Goto, Claiming
    <3>2. begun \in Runs /\ wpc[begun] = "none"
      BY <3>1 DEF SlotInv
    <3>3. QED
      BY <3>1, <3>2
  <2>4. CASE RunUnpause(q)
    <3>1. UNCHANGED <<running, begun, wpc, hrun>>
      BY <2>4 DEF RunUnpause
    <3>2. \A p \in Requests : Claiming(p) => Claiming(p)'
      BY <2>4 DEF RunUnpause, Goto, Claiming, TypeOK
    <3>3. QED
      BY <1>2, <3>1, <3>2
  <2>5. CASE ~RunClaim(q) /\ ~RunSpawn(q) /\ ~RunLoadFails(q) /\ ~RunUnpause(q)
    <3>1. UNCHANGED <<running, begun, wpc>>
      BY <1>3, <2>5 DEF HandlerStep, UserStep, RunRefused, CancelUnpause,
         CancelSave, CancelAnnounce, PauseClear, RunCheck, CancelSet,
         PauseCheck, Resume
    <3>2. /\ ~Claiming(q)
          /\ \A p \in Requests \ {q} : hpc'[p] = hpc[p] /\ hrun'[p] = hrun[p]
      BY <1>3, <2>5 DEF HandlerStep, UserStep, RunRefused, CancelUnpause,
         CancelSave, CancelAnnounce, PauseClear, RunCheck, CancelSet,
         PauseCheck, Resume, Goto, Claiming, TypeOK
    <3>3. QED
      BY <1>2, <3>1, <3>2 DEF Claiming
  <2>6. QED
    BY <2>1, <2>2, <2>3, <2>4, <2>5
<1>4. ASSUME NEW r \in Runs, WorkerStep(r)
      PROVE  Held'
  <2>1. /\ wpc[r] \in Active /\ begun' = begun
        /\ ~Finally(r)
        /\ wpc'[r] \in Active
    <3>1. ~Finally(r)
      BY <1>0 DEF Finally
    <3>2. QED
      BY <1>4, <3>1 DEF WorkerStep, FetchUrls, FetchNothing, SubmitUrls,
         WorkerRaises, TakeFuture, Take, StopTaking, BufferResult, CountResult,
         LeavePool, WriteHtml, WriteXlsx, WriteSidecar, WriteReport,
         AnnounceDone, Move, Active, WorkerPC, TypeOK
  <2>2. r = begun
    BY <2>1 DEF SlotInv
  <2>3. QED
    BY <2>1, <2>2
<1>5. ASSUME NEW r \in Runs, NEW u \in Urls, TaskStep(r, u)
      PROVE  Held'
  <2>1. UNCHANGED <<running, begun, wpc, hpc, hrun>>
    BY <1>5 DEF TaskStep, TaskStart, TaskWait, TaskRecheck, TaskReturn, SetTask
  <2>2. QED
    BY <1>2, <2>1 DEF Claiming
<1>6. ~Restart
  BY <1>0 DEF Restart
<1>7. CASE UNCHANGED vars
  BY <1>2, <1>7 DEF vars, Claiming
<1>8. QED
  BY <1>3, <1>4, <1>5, <1>6, <1>7 DEF Next

(* While the flag is up there is a request about to start the worker, or    *)
(* the worker is alive: every way out of the worker's thread goes through   *)
(* its finally clause.  The one exception is a claim whose load_config      *)
(* raised, where the code can raise there.                                  *)
THEOREM SlotIsHeld == Spec => []SlotHeld
<1>1. Init => SlotHeld
  BY DEF Init, SlotHeld
<1>2. TypeOK /\ SlotInv /\ SlotHeld /\ [Next]_vars => SlotHeld'
  BY SlotHeldStep
<1>3. QED
  BY <1>1, <1>2, Typing, Exclusion, PTL DEF Spec

-----------------------------------------------------------------------------
(* What the steps leave alone.                                              *)

\* A request thread writes no report of a run and tells no stream that a run
\* has ended, and the only thing it does to a worker is to start one.
LEMMA HandlerFrame ==
  ASSUME TypeOK, NEW q \in Requests, HandlerStep(q) \/ UserStep(q)
  PROVE  /\ UNCHANGED <<reports, announced, cur, audits>>
         /\ \A r \in Runs : wpc'[r] = wpc[r] \/ wpc'[r] = "fetch"
<1> USE DEF TypeOK, shared, files, ghosts, worker
<1>1. CASE RunSpawn(q)
  BY <1>1 DEF RunSpawn
<1>2. CASE UserStep(q)
  BY <1>2 DEF UserStep, RunCheck, CancelSet, PauseCheck, Resume
<1>3. CASE RunClaim(q) \/ RunRefused(q) \/ RunUnpause(q) \/ RunLoadFails(q)
  BY <1>3 DEF RunClaim, Claim, RunRefused, RunUnpause, RunLoadFails
<1>4. CASE CancelUnpause(q) \/ CancelSave(q) \/ CancelAnnounce(q)
           \/ PauseClear(q)
  BY <1>4 DEF CancelUnpause, CancelSave, CancelAnnounce, PauseClear
<1>5. QED
  BY <1>1, <1>2, <1>3, <1>4 DEF HandlerStep

\* A pool task changes its future and nothing else.
LEMMA TaskFrame ==
  ASSUME NEW r \in Runs, NEW u \in Urls, TaskStep(r, u)
  PROVE  UNCHANGED <<shared, files, ghosts, hpc, hrun, wpc, cur, audits>>
  BY DEF TaskStep, TaskStart, TaskWait, TaskRecheck, TaskReturn, SetTask

-----------------------------------------------------------------------------
(* The report files.                                                        *)

(* No workbook and no sidecar without the HTML report they accompany, at    *)
(* whatever step the process is killed: the worker writes the HTML report   *)
(* first, and from then on it is there.                                     *)
THEOREM PrimaryReport == Spec => [](ReportInv /\ NoOrphanCompanion)
<1> DEFINE Inv == ReportInv /\ NoOrphanCompanion
<1> USE DEF ReportInv, NoOrphanCompanion
<1>1. Init => Inv
  BY DEF Init
<1>2. ASSUME TypeOK, Inv, [Next]_vars
      PROVE  Inv'
  <2> USE DEF TypeOK, shared, files, ghosts, worker
  <2>1. ASSUME NEW q \in Requests, HandlerStep(q) \/ UserStep(q)
        PROVE  Inv'
    BY <1>2, <2>1, HandlerFrame
  <2>2. ASSUME NEW r \in Runs, WorkerStep(r)
        PROVE  Inv'
    <3>1. CASE WriteHtml(r)
      BY <1>2, <3>1 DEF WriteHtml, WriteReport, Move
    <3>2. CASE WriteXlsx(r)
      BY <1>2, <3>2 DEF WriteXlsx, WriteReport, Move
    <3>3. CASE WriteSidecar(r)
      BY <1>2, <3>3 DEF WriteSidecar, WriteReport, Move
    <3>4. CASE FetchUrls(r) \/ SubmitUrls(r) \/ FetchNothing(r)
               \/ WorkerRaises(r)
      BY <1>2, <3>4 DEF FetchUrls, SubmitUrls, FetchNothing, WorkerRaises, Move
    <3>5. ASSUME NEW u \in Urls, TakeFuture(r, u) \/ StopTaking(r, u)
          PROVE  Inv'
      BY <1>2, <3>5 DEF TakeFuture, Take, StopTaking, Move
    <3>6. CASE BufferResult(r) \/ CountResult(r) \/ LeavePool(r)
      BY <1>2, <3>6 DEF BufferResult, CountResult, LeavePool, Move
    <3>7. CASE AnnounceDone(r) \/ Finally(r)
      BY <1>2, <3>7 DEF AnnounceDone, Finally, Move
    <3>8. QED
      BY <2>2, <3>1, <3>2, <3>3, <3>4, <3>5, <3>6, <3>7 DEF WorkerStep
  <2>3. ASSUME NEW r \in Runs, NEW u \in Urls, TaskStep(r, u)
        PROVE  Inv'
    BY <1>2, <2>3, TaskFrame
  <2>4. CASE Restart
    BY <1>2, <2>4 DEF Restart, Active
  <2>5. CASE UNCHANGED vars
    BY <1>2, <2>5 DEF vars
  <2>6. QED
    BY <1>2, <2>1, <2>2, <2>3, <2>4, <2>5 DEF Next
<1>3. QED
  BY <1>1, <1>2, Typing, PTL DEF Spec

-----------------------------------------------------------------------------
(* The end of a run.                                                        *)

(* A worker that has given the slot back, or is about to, has broadcast a   *)
(* terminal message.                                                        *)
THEOREM Farewell == Spec => []EndAnnounced
<1> USE DEF EndAnnounced
<1>1. Init => EndAnnounced
  BY DEF Init
<1>2. ASSUME TypeOK, EndAnnounced, [Next]_vars
      PROVE  EndAnnounced'
  <2> USE DEF TypeOK, shared, files, ghosts, worker
  <2>1. ASSUME NEW q \in Requests, HandlerStep(q) \/ UserStep(q)
        PROVE  EndAnnounced'
    BY <1>2, <2>1, HandlerFrame
  <2>2. ASSUME NEW r \in Runs, WorkerStep(r)
        PROVE  EndAnnounced'
    <3>0. CASE FetchNothing(r)
      <4>1. \A s \in Runs : wpc'[s] = IF s = r THEN "finally" ELSE wpc[s]
        BY <1>2, <3>0 DEF FetchNothing, Move
      <4>2. \A s \in Runs : announced'[s] = IF s = r
                 THEN announced[s] \cup {"error"} ELSE announced[s]
        BY <1>2, <3>0 DEF FetchNothing
      <4>3. QED
        BY <1>2, <4>1, <4>2
    <3>1. CASE AnnounceDone(r)
      <4>1. \A s \in Runs : wpc'[s] = IF s = r THEN "finally" ELSE wpc[s]
        BY <1>2, <3>1 DEF AnnounceDone, Move
      <4>2. \A s \in Runs : announced'[s] = IF s = r
                 THEN announced[s] \cup {"done"} ELSE announced[s]
        BY <1>2, <3>1 DEF AnnounceDone
      <4>3. QED
        BY <1>2, <4>1, <4>2
    <3>2. CASE WorkerRaises(r)
      BY <1>2, <3>2 DEF WorkerRaises
    <3>3. CASE Finally(r)
      BY <1>2, <3>3 DEF Finally, Move
    <3>4. CASE WriteHtml(r) \/ WriteXlsx(r) \/ WriteSidecar(r)
      BY <1>2, <3>4 DEF WriteHtml, WriteXlsx, WriteSidecar, Move
    <3>5. ASSUME NEW u \in Urls, TakeFuture(r, u) \/ StopTaking(r, u)
          PROVE  EndAnnounced'
      BY <1>2, <3>5 DEF TakeFuture, Take, StopTaking, Move
    <3>6. CASE FetchUrls(r) \/ SubmitUrls(r) \/ BufferResult(r)
               \/ CountResult(r)
               \/ LeavePool(r)
      BY <1>2, <3>6 DEF FetchUrls, SubmitUrls, BufferResult, CountResult,
         LeavePool, Move
    <3>7. QED
      BY <2>2, <3>0, <3>1, <3>2, <3>3, <3>4, <3>5, <3>6 DEF WorkerStep
  <2>3. ASSUME NEW r \in Runs, NEW u \in Urls, TaskStep(r, u)
        PROVE  EndAnnounced'
    BY <1>2, <2>3, TaskFrame
  <2>4. CASE Restart
    BY <1>2, <2>4 DEF Restart, Active
  <2>5. CASE UNCHANGED vars
    BY <1>2, <2>5 DEF vars
  <2>6. QED
    BY <1>2, <2>1, <2>2, <2>3, <2>4, <2>5 DEF Next
<1>3. QED
  BY <1>1, <1>2, Typing, PTL DEF Spec

-----------------------------------------------------------------------------
(* Cancellation.                                                            *)

LEMMA CancelInvStep ==
  ASSUME TypeOK, SlotInv, CancelInv, CancelWithinOne, [Next]_vars
  PROVE  CancelInv' /\ CancelWithinOne'
<1> USE DEF TypeOK, CancelInv, CancelWithinOne, shared, files, ghosts, worker
<1> DEFINE Goal == CancelInv' /\ CancelWithinOne'
<1>1. ASSUME NEW q \in Requests, HandlerStep(q) \/ UserStep(q)
      PROVE  Goal
  <2>1. CASE RunClaim(q)
    BY <2>1 DEF RunClaim, Claim, SlotInv, Active
  <2>2. CASE CancelSet(q)
    BY <2>2 DEF CancelSet
  <2>3. CASE ~RunClaim(q) /\ ~CancelSet(q)
    <3>1. UNCHANGED <<cancel, late>>
      BY <1>1, <2>3 DEF HandlerStep, UserStep, RunRefused, RunUnpause, RunSpawn,
        RunLoadFails, CancelUnpause, CancelSave, CancelAnnounce, PauseClear,
        RunCheck, PauseCheck, Resume, SetUnpaused
    <3>2. QED
      BY <1>1, <3>1, HandlerFrame
  <2>4. QED
    BY <2>1, <2>2, <2>3
<1>2. ASSUME NEW r \in Runs, WorkerStep(r)
      PROVE  Goal
  <2>1. CASE BufferResult(r)
    BY <2>1 DEF BufferResult, Move, SlotInv, Active
  <2>2. ASSUME NEW u \in Urls, TakeFuture(r, u)
        PROVE  Goal
    BY <2>2 DEF TakeFuture, Take
  <2>3. ASSUME NEW u \in Urls, StopTaking(r, u)
        PROVE  Goal
    BY <2>3 DEF StopTaking, Move
  <2>4. CASE FetchUrls(r) \/ SubmitUrls(r) \/ FetchNothing(r) \/ WorkerRaises(r)
    BY <2>4 DEF FetchUrls, SubmitUrls, FetchNothing, WorkerRaises, Move
  <2>5. CASE CountResult(r) \/ LeavePool(r) \/ WriteHtml(r) \/ WriteXlsx(r)
    BY <2>5 DEF CountResult, LeavePool, WriteHtml, WriteXlsx, Move
  <2>6. CASE WriteSidecar(r) \/ AnnounceDone(r) \/ Finally(r)
    BY <2>6 DEF WriteSidecar, AnnounceDone, Finally, Move
  <2>7. QED
    BY <1>2, <2>1, <2>2, <2>3, <2>4, <2>5, <2>6 DEF WorkerStep
<1>3. ASSUME NEW r \in Runs, NEW u \in Urls, TaskStep(r, u)
      PROVE  Goal
  BY <1>3, TaskFrame
<1>4. CASE Restart
  BY <1>4 DEF Restart, Active
<1>5. CASE UNCHANGED vars
  BY <1>5 DEF vars
<1>6. QED
  BY <1>1, <1>2, <1>3, <1>4, <1>5 DEF Next

(* Audit threads see a cancellation within one completed future.  A worker  *)
(* with a result in hand took it before any late one: it looked at the flag *)
(* after taking the previous result, and a flag that is set stays set for   *)
(* as long as the run owns the slot, because only a claim clears it.        *)
THEOREM PromptCancel == Spec => [](CancelInv /\ CancelWithinOne)
<1>1. Init => CancelInv /\ CancelWithinOne
  BY DEF Init, CancelInv, CancelWithinOne
<1>2. TypeOK /\ SlotInv /\ CancelInv /\ CancelWithinOne /\ [Next]_vars
        => CancelInv' /\ CancelWithinOne'
  BY CancelInvStep
<1>3. QED
  BY <1>1, <1>2, Typing, Exclusion, PTL DEF Spec

-----------------------------------------------------------------------------
(* The buffers.                                                             *)

(* The buffers hold results of the latest run only: a claim empties them,   *)
(* and the only worker that writes to them is the one that owns the slot.   *)
THEOREM FreshBuffers == Spec => []ResultsOfThisRun
<1> USE DEF ResultsOfThisRun
<1>1. Init => ResultsOfThisRun
  BY DEF Init
<1>2. ASSUME TypeOK, SlotInv, ResultsOfThisRun, [Next]_vars
      PROVE  ResultsOfThisRun'
  <2> USE DEF TypeOK, shared, files, ghosts, worker
  <2>1. ASSUME NEW q \in Requests, HandlerStep(q) \/ UserStep(q)
        PROVE  ResultsOfThisRun'
    <3>1. CASE RunClaim(q)
      BY <3>1 DEF RunClaim
    <3>2. CASE ~RunClaim(q)
      <4>1. UNCHANGED <<full, begun>>
        BY <2>1, <3>2 DEF HandlerStep, UserStep, RunRefused, RunUnpause,
          RunSpawn, RunLoadFails, CancelSet, CancelUnpause, CancelSave,
          CancelAnnounce, PauseClear, RunCheck, PauseCheck, Resume, SetUnpaused
      <4>2. QED
        BY <1>2, <4>1
    <3>3. QED
      BY <3>1, <3>2
  <2>2. ASSUME NEW r \in Runs, WorkerStep(r)
        PROVE  ResultsOfThisRun'
    <3>1. CASE BufferResult(r)
      <4>1. full' \subseteq full \cup {<<r, cur[r]>>} /\ begun' = begun
        BY <3>1 DEF BufferResult, Buffered
      <4>2. r = begun
        BY <1>2, <3>1 DEF BufferResult, Move, SlotInv, Active
      <4>3. QED
        BY <1>2, <4>1, <4>2
    <3>2. CASE ~BufferResult(r)
      <4>1. UNCHANGED <<full, begun>>
        BY <2>2, <3>2 DEF WorkerStep, FetchUrls, SubmitUrls, FetchNothing,
          WorkerRaises,
          TakeFuture, Take, StopTaking, CountResult, LeavePool, WriteHtml,
          WriteXlsx, WriteSidecar, AnnounceDone, Finally
      <4>2. QED
        BY <1>2, <4>1
    <3>3. QED
      BY <3>1, <3>2
  <2>3. ASSUME NEW r \in Runs, NEW u \in Urls, TaskStep(r, u)
        PROVE  ResultsOfThisRun'
    BY <1>2, <2>3, TaskFrame
  <2>4. CASE Restart
    BY <1>2, <2>4 DEF Restart
  <2>5. CASE UNCHANGED vars
    BY <1>2, <2>5 DEF vars
  <2>6. QED
    BY <1>2, <2>1, <2>2, <2>3, <2>4, <2>5 DEF Next
<1>3. QED
  BY <1>1, <1>2, Typing, Exclusion, PTL DEF Spec

-----------------------------------------------------------------------------
(* The loop over the futures.                                               *)

\* The handlers leave a run as accounted for as it was: only a new claim
\* forgets a cancellation, and waking the tasks touches no future that was
\* taken.
LEMMA HandlersAccount ==
  ASSUME TypeOK, SlotInv, EveryUrlAccounted,
         NEW q \in Requests, HandlerStep(q) \/ UserStep(q)
  PROVE  EveryUrlAccounted'
<1> USE DEF EveryUrlAccounted, TypeOK, shared, files, ghosts, worker
<1>1. CASE RunClaim(q)
  BY <1>1 DEF RunClaim, Claim, SlotInv, Active
<1>2. CASE CancelSet(q)
  BY <1>2 DEF CancelSet
<1>3. CASE ~RunClaim(q) /\ ~CancelSet(q)
  <2>1. cancel' = cancel /\ fut' \in {fut, Awake(fut)}
    BY <1>3 DEF HandlerStep, UserStep, RunRefused, RunUnpause,
      RunSpawn, RunLoadFails, CancelUnpause, CancelSave, CancelAnnounce,
      PauseClear, RunCheck, PauseCheck, Resume, SetUnpaused
  <2>2. \A r \in Runs, u \in Urls :
          fut[r][u] \in {"taken", "absent"} => fut'[r][u] = fut[r][u]
    BY <2>1, AwakeType
  <2>3. QED
    BY <2>1, <2>2, HandlerFrame
<1>4. QED
  BY <1>1, <1>2, <1>3

\* The worker leaves its loop with every future taken, unless it saw a
\* cancellation, and opens no future again.
LEMMA WorkersAccount ==
  ASSUME TypeOK, CancelInv, EveryUrlAccounted,
         NEW r \in Runs, WorkerStep(r)
  PROVE  EveryUrlAccounted'
<1> USE DEF EveryUrlAccounted, TypeOK, shared, files, ghosts, worker
<1>1. CASE FetchUrls(r) \/ SubmitUrls(r) \/ FetchNothing(r) \/ WorkerRaises(r)
  BY <1>1 DEF FetchUrls, SubmitUrls, FetchNothing, WorkerRaises, Move
<1>2. ASSUME NEW u \in Urls, TakeFuture(r, u)
      PROVE  EveryUrlAccounted'
  BY <1>2 DEF TakeFuture, Take
<1>3. ASSUME NEW u \in Urls, StopTaking(r, u)
      PROVE  EveryUrlAccounted'
  BY <1>3 DEF StopTaking, Move
<1>4. CASE BufferResult(r) \/ CountResult(r) \/ Finally(r)
  BY <1>4 DEF BufferResult, CountResult, Finally, Move
<1>5. CASE LeavePool(r)
  BY <1>5 DEF LeavePool, CancelInv
<1>6. CASE WriteHtml(r) \/ WriteXlsx(r) \/ WriteSidecar(r) \/ AnnounceDone(r)
  BY <1>6 DEF WriteHtml, WriteXlsx, WriteSidecar, AnnounceDone, Move
<1>7. QED
  BY <1>1, <1>2, <1>3, <1>4, <1>5, <1>6 DEF WorkerStep

\* A task moves only its own future, which nobody has taken yet.
LEMMA TasksAccount ==
  ASSUME TypeOK, EveryUrlAccounted,
         NEW r \in Runs, NEW u \in Urls, TaskStep(r, u)
  PROVE  EveryUrlAccounted'
<1> USE DEF EveryUrlAccounted, TypeOK, shared, files, ghosts, worker
<1>1. fut[r][u] \notin {"taken", "absent"}
  BY DEF TaskStep, TaskStart, TaskWait, TaskRecheck, TaskReturn
<1>2. \A s \in Runs, v \in Urls :
        <<s, v>> # <<r, u>> => fut'[s][v] = fut[s][v]
  BY DEF TaskStep, TaskStart, TaskWait, TaskRecheck, TaskReturn, SetTask
<1>3. QED
  BY <1>1, <1>2, TaskFrame

(* The report of a run that nobody cancelled accounts for every URL: the    *)
(* loop is left early only for a cancellation, and a future that was taken  *)
(* is not touched again.                                                    *)
THEOREM FullReport == Spec => []EveryUrlAccounted
<1>1. Init => EveryUrlAccounted
  BY DEF Init, EveryUrlAccounted
<1>2. TypeOK /\ SlotInv /\ CancelInv /\ EveryUrlAccounted /\ [Next]_vars
        => EveryUrlAccounted'
  <2>1. ASSUME TypeOK, EveryUrlAccounted, Restart \/ UNCHANGED vars
        PROVE  EveryUrlAccounted'
    BY <2>1 DEF Restart, Active, vars, EveryUrlAccounted, TypeOK, shared,
                files, ghosts, worker
  <2>2. QED
    BY <2>1, HandlersAccount, WorkersAccount, TasksAccount DEF Next
<1>3. QED
  BY <1>1, <1>2, Typing, Exclusion, PromptCancel, PTL DEF Spec

-----------------------------------------------------------------------------
(* The counters of a run.                                                   *)

\* The futures of a step that submits nothing and takes nothing.
SameFutures ==
  \A s \in Runs, v \in Urls :
    /\ fut'[s][v] = "absent" <=> fut[s][v] = "absent"
    /\ fut[s][v] = "taken" => fut'[s][v] = "taken"

\* Such a step leaves alone what was submitted.
LEMMA SameSubmitted ==
  ASSUME SameFutures
  PROVE  \A s \in Runs : Submitted(s)' = Submitted(s)
  BY DEF SameFutures, Submitted

\* A run whose worker does not move keeps its count.
LEMMA Bystander ==
  ASSUME NEW s \in Runs, CountOf(s), wpc'[s] = wpc[s], cur'[s] = cur[s],
         audits'[s] = audits[s], Submitted(s)' = Submitted(s),
         \A v \in Urls : fut[s][v] = "taken" => fut'[s][v] = "taken",
         audits[s] \in SUBSET Urls,
         wpc[s] \in Active => full' = full /\ total' = total
  PROVE  CountOf(s)'
<1>1. Offered(s)' = Offered(s)
  BY DEF Offered
<1>2. \A u \in audits'[s] : fut'[s][u] = "taken"
  BY DEF CountOf
<1>3. QED
  BY <1>1, <1>2 DEF CountOf

LEMMA CountInvStep ==
  ASSUME TypeOK, SlotInv, CountInv, [Next]_vars
  PROVE  CountInv'
<1> USE DEF TypeOK, shared, files, ghosts, worker, CountInv
<1>1. ASSUME NEW q \in Requests, HandlerStep(q) \/ UserStep(q)
      PROVE  CountInv'
  <2>0. /\ UNCHANGED <<cur, audits>>
        /\ \A r \in Runs : wpc'[r] = wpc[r] \/ wpc'[r] = "fetch"
    BY <1>1, HandlerFrame
  <2>1. fut' = fut \/ fut' = Awake(fut)
    BY <1>1 DEF HandlerStep, UserStep, RunClaim, Claim, RunRefused, RunUnpause,
       RunSpawn, RunLoadFails, CancelSet, CancelUnpause, CancelSave,
       CancelAnnounce, PauseClear, RunCheck, PauseCheck, Resume, SetUnpaused
  <2>2. SameFutures
    <3>1. CASE fut' = fut
      BY <3>1 DEF SameFutures
    <3>2. CASE fut' = Awake(fut)
      <4>1. ASSUME NEW s \in Runs, NEW v \in Urls
            PROVE  fut'[s][v] = IF fut[s][v] = "waiting" THEN "cleared"
                                                        ELSE fut[s][v]
        BY <3>2, <4>1 DEF Awake
      <4>2. QED
        BY <4>1 DEF SameFutures
    <3>3. QED
      BY <2>1, <3>1, <3>2
  <2>3. \A s \in Runs : Submitted(s)' = Submitted(s)
    BY <2>2, SameSubmitted
  <2>4. CASE RunClaim(q)
    <3>1. /\ full' = {} /\ done' = 0 /\ wpc' = wpc
          /\ \A r \in Runs : wpc[r] \notin Active
      BY <2>4 DEF RunClaim, Claim, SlotInv
    <3>2. \A s \in Runs : CountOf(s)'
      BY <2>0, <2>2, <2>3, <3>1, Bystander DEF SameFutures
    <3>3. QED
      BY <3>1, <3>2
  <2>5. CASE RunSpawn(q)
    <3>1. PICK b \in Runs : b = begun /\ hrun[q] = b /\ wpc[b] = "none"
      BY <2>5 DEF RunSpawn, Goto, Claiming, SlotInv
    <3>2. Claiming(q)
      BY <2>5 DEF RunSpawn, Goto, Claiming
    <3>3. /\ wpc' = [wpc EXCEPT ![b] = "fetch"]
          /\ UNCHANGED <<total, done, full>>
          /\ done = 0 /\ full = {}
      BY <2>5, <3>1, <3>2 DEF RunSpawn
    <3>4. \A p \in Requests : Claiming(p)' => Claiming(p)
      BY <2>5 DEF RunSpawn, Goto, Claiming
    <3>5. Submitted(b) = {}
      BY <3>1 DEF CountOf, Active
    <3>6. CountOf(b)'
      <4>0. audits[b] = {}
        BY <3>5 DEF CountOf, Submitted
      <4>1. audits'[b] = {} /\ wpc'[b] = "fetch"
        BY <2>0, <3>3, <4>0
      <4>2. Submitted(b)' = {}
        BY <2>3, <3>5
      <4>3. Cardinality(Submitted(b)') = 0
        BY <4>2, FS_EmptySet, Zenon
      <4>4. full' = {} /\ 0 <= total'
        BY <3>3
      <4>5. QED
        BY <4>1, <4>2, <4>3, <4>4 DEF CountOf
    <3>7. \A s \in Runs \ {b} : CountOf(s)'
      BY <2>0, <2>2, <2>3, <3>3, Bystander DEF SameFutures
    <3>8. \A s \in Runs : CountOf(s)'
      BY <3>6, <3>7
    <3>9. QED
      BY <3>3, <3>4, <3>8
  <2>6. CASE ~RunClaim(q) /\ ~RunSpawn(q)
    <3>1. UNCHANGED <<total, done, full, wpc>>
      BY <1>1, <2>6 DEF HandlerStep, UserStep, RunRefused, RunUnpause,
         RunLoadFails, CancelSet, CancelUnpause, CancelSave,
         CancelAnnounce, PauseClear, RunCheck, PauseCheck, Resume, SetUnpaused
    <3>2. \A p \in Requests : Claiming(p)' => Claiming(p)
      BY <1>1, <2>6 DEF HandlerStep, UserStep, RunRefused, RunUnpause,
         RunLoadFails, CancelSet, CancelUnpause, CancelSave, CancelAnnounce,
         PauseClear, RunCheck, PauseCheck, Resume, Goto, Claiming
    <3>3. \A s \in Runs : CountOf(s)'
      BY <2>0, <2>2, <2>3, <3>1, Bystander DEF SameFutures
    <3>4. QED
      BY <3>1, <3>2, <3>3
  <2>7. QED
    BY <2>4, <2>5, <2>6
<1>2. ASSUME NEW r \in Runs, WorkerStep(r)
      PROVE  CountInv'
  <2>0. wpc[r] \in Active
    BY <1>2 DEF WorkerStep, FetchUrls, FetchNothing, SubmitUrls, WorkerRaises,
       TakeFuture, Take, StopTaking, BufferResult, CountResult, LeavePool,
       WriteHtml, WriteXlsx, WriteSidecar, AnnounceDone, Finally, Move, Active
  <2>1. /\ r = begun
        /\ \A s \in Runs : wpc[s] \in Active => s = r
        /\ \A q \in Requests : ~Claiming(q)
    BY <2>0 DEF SlotInv
  <2>2. hpc' = hpc
    BY <1>2 DEF WorkerStep, FetchUrls, FetchNothing, SubmitUrls, WorkerRaises,
       TakeFuture, Take, StopTaking, BufferResult, CountResult, LeavePool,
       WriteHtml, WriteXlsx, WriteSidecar, AnnounceDone, Finally
  <2>3. \A q \in Requests : ~Claiming(q)'
    BY <2>1, <2>2 DEF Claiming
  <2> DEFINE Others == \A s \in Runs \ {r} :
        /\ wpc'[s] = wpc[s] /\ cur'[s] = cur[s] /\ audits'[s] = audits[s]
        /\ fut'[s] = fut[s]
  <2>a. Others /\ CountOf(r)' => CountInv'
    <3>1. SUFFICES ASSUME Others, NEW s \in Runs \ {r}
                   PROVE  CountOf(s)'
      BY <2>3
    <3>2. wpc[s] \notin Active
      BY <2>1
    <3>3. Submitted(s)' = Submitted(s)
      BY <3>1 DEF Submitted
    <3>4. QED
      BY <3>1, <3>2, <3>3, Bystander
  <2>4. CASE FetchUrls(r)
    <3>1. /\ wpc' = [wpc EXCEPT ![r] = "site"] /\ wpc[r] = "fetch"
          /\ total' \in Nat
          /\ UNCHANGED <<full, audits, cur, fut>>
      BY <2>4, AuditAssumption DEF FetchUrls, Move
    <3>2. Submitted(r) = {} /\ Cardinality({}) = 0
      BY <3>1, FS_EmptySet DEF CountOf
    <3>3. SameFutures
      BY <3>1 DEF SameFutures
    <3>4. \A s \in Runs : Submitted(s)' = Submitted(s)
      BY <3>3, SameSubmitted
    <3>5. wpc'[r] = "site"
      BY <3>1
    <3>6. audits[r] = {}
      BY <3>2 DEF CountOf, Submitted
    <3>7. CountOf(r)'
      <4>1. wpc'[r] \in Active /\ audits'[r] = {}
        BY <3>1, <3>5, <3>6 DEF Active, WorkerPC
      <4>2. Cardinality(Submitted(r)') = 0
        BY <3>2, <3>4, Zenon
      <4>3. full' \subseteq {r} \X Offered(r)'
        <5>1. full \subseteq {r} \X Offered(r)
          BY <2>0 DEF CountOf
        <5>2. Offered(r) = {} /\ Offered(r)' = {}
          BY <3>1, <3>5, <3>6 DEF Offered
        <5>3. QED
          BY <3>1, <5>1, <5>2
      <4>4. QED
        BY <3>1, <3>2, <3>4, <3>5, <4>1, <4>2, <4>3 DEF CountOf
    <3>8. Others
      BY <3>1
    <3>9. QED
      BY <2>a, <3>7, <3>8
  <2>5. CASE SubmitUrls(r)
    <3>1. PICK urls \in SUBSET Urls :
            /\ Cardinality(urls) = total
            /\ fut' = [fut EXCEPT ![r] =
                [u \in Urls |-> IF u \in urls THEN "queued" ELSE "absent"]]
      BY <2>5 DEF SubmitUrls
    <3>2. /\ wpc' = [wpc EXCEPT ![r] = "pool"] /\ wpc[r] = "site"
          /\ UNCHANGED <<total, full, audits, cur>>
      BY <2>5 DEF SubmitUrls, Move
    <3>3. audits[r] = {}
      <4>1. Submitted(r) = {}
        BY <3>2 DEF CountOf
      <4>2. QED
        BY <4>1 DEF Submitted, CountOf
    <3>4. Submitted(r)' = urls
      BY <3>1 DEF Submitted
    <3>5. Others
      BY <3>1, <3>2
    <3>6. wpc'[r] = "pool"
      BY <3>2
    <3>7. full \subseteq {r} \X audits[r]
      BY <2>0, <3>2 DEF CountOf, Offered
    <3>8. /\ wpc'[r] \in Active /\ audits'[r] = {}
          /\ full' \subseteq {r} \X Offered(r)'
      <4>1. Offered(r)' = audits[r]
        BY <3>2, <3>6 DEF Offered
      <4>2. QED
        BY <3>2, <3>3, <3>6, <3>7, <4>1 DEF Active, WorkerPC
    <3>9. Cardinality(Submitted(r)') = total'
      BY <3>1, <3>2, <3>4, Zenon
    <3>10. CountOf(r)'
      BY <3>2, <3>6, <3>8, <3>9 DEF CountOf
    <3>11. QED
      BY <2>a, <3>5, <3>10
  <2>6. ASSUME NEW u \in Urls, TakeFuture(r, u)
        PROVE  CountInv'
    <3>1. /\ fut' = [fut EXCEPT ![r][u] = "taken"]
          /\ wpc[r] = "pool"
          /\ fut[r][u] # "absent"
          /\ UNCHANGED <<total, full>>
      BY <2>6 DEF TakeFuture, Take
    <3>2. SameFutures
      BY <3>1 DEF SameFutures
    <3>3. \A s \in Runs : Submitted(s)' = Submitted(s)
      BY <3>2, SameSubmitted
    <3>4. CASE fut[r][u] = "result"
      <4>1. /\ wpc' = [wpc EXCEPT ![r] = "append"]
            /\ cur' = [cur EXCEPT ![r] = u]
            /\ audits' = [audits EXCEPT ![r] = @ \cup {u}]
        BY <2>6, <3>4 DEF TakeFuture, Take
      <4>2. u \notin audits[r]
        BY <3>4 DEF CountOf
      <4>3. /\ wpc'[r] = "append" /\ cur'[r] = u
            /\ audits'[r] = audits[r] \cup {u}
        BY <4>1
      <4>4. Offered(r)' = Offered(r)
        BY <3>1, <4>2, <4>3 DEF Offered
      <4>5. \A v \in audits'[r] : fut'[r][v] = "taken"
        BY <3>1, <3>2, <4>3 DEF SameFutures, CountOf
      <4>6. CountOf(r)'
        <5>1. Cardinality(Submitted(r)') = Cardinality(Submitted(r))
          BY <3>3, Zenon
        <5>2. /\ Cardinality(Submitted(r)') <= total'
              /\ full' \subseteq {r} \X Offered(r)'
          BY <2>0, <3>1, <4>4, <5>1 DEF CountOf
        <5>3. wpc'[r] \in Active
          BY <4>3 DEF Active, WorkerPC
        <5>4. QED
          BY <4>3, <4>5, <5>2, <5>3 DEF CountOf
      <4>7. Others
        BY <3>1, <4>1
      <4>8. QED
        BY <2>a, <4>6, <4>7
    <3>5. CASE fut[r][u] # "result"
      <4>1. UNCHANGED <<wpc, cur, audits>>
        BY <2>6, <3>5 DEF TakeFuture, Take
      <4>2. \A s \in Runs : CountOf(s)'
        BY <3>1, <3>2, <3>3, <4>1, Bystander DEF SameFutures
      <4>3. QED
        BY <2>3, <4>2
    <3>6. QED
      BY <3>4, <3>5
  <2>7. ASSUME NEW u \in Urls, StopTaking(r, u)
        PROVE  CountInv'
    <3>1. /\ wpc' = [wpc EXCEPT ![r] = "drain"] /\ wpc[r] = "pool"
          /\ UNCHANGED <<total, full, audits, cur>>
          /\ fut' = [fut EXCEPT ![r] = [v \in Urls |->
                IF @[v] = "queued" THEN "cancelled" ELSE @[v]]]
      BY <2>7 DEF StopTaking, Move
    <3>2. SameFutures
      BY <3>1 DEF SameFutures
    <3>3. \A s \in Runs : Submitted(s)' = Submitted(s)
      BY <3>2, SameSubmitted
    <3>4. \A v \in audits'[r] : fut'[r][v] = "taken"
      BY <3>1, <3>2 DEF SameFutures, CountOf
    <3>5. wpc'[r] = "drain"
      BY <3>1
    <3>6. CountOf(r)'
      <4>1. Cardinality(Submitted(r)') = Cardinality(Submitted(r))
        BY <3>3, Zenon
      <4>2. Offered(r)' = Offered(r)
        BY <3>1, <3>5 DEF Offered
      <4>3. /\ Cardinality(Submitted(r)') <= total'
            /\ full' \subseteq {r} \X Offered(r)'
        BY <2>0, <3>1, <4>1, <4>2 DEF CountOf
      <4>4. wpc'[r] \in Active
        BY <3>5 DEF Active, WorkerPC
      <4>5. QED
        BY <3>4, <3>5, <4>3, <4>4 DEF CountOf
    <3>7. Others
      BY <3>1
    <3>8. QED
      BY <2>a, <3>6, <3>7
  <2>8. CASE BufferResult(r)
    <3>1. /\ wpc' = [wpc EXCEPT ![r] = "progress"] /\ wpc[r] = "append"
          /\ full' \subseteq full \cup {<<r, cur[r]>>}
          /\ UNCHANGED <<total, audits, cur, fut>>
      BY <2>8 DEF BufferResult, Buffered, Move
    <3>2. SameFutures
      BY <3>1 DEF SameFutures
    <3>3. \A s \in Runs : Submitted(s)' = Submitted(s)
      BY <3>2, SameSubmitted
    <3>4. wpc'[r] = "progress" /\ cur[r] \in audits[r]
      BY <3>1 DEF CountOf
    <3>5. full \subseteq {r} \X Offered(r)
      BY <2>0 DEF CountOf
    <3>6. full' \subseteq {r} \X Offered(r)'
      BY <3>1, <3>4, <3>5 DEF Offered
    <3>7. CountOf(r)'
      <4>1. Cardinality(Submitted(r)') = Cardinality(Submitted(r))
        BY <3>3, Zenon
      <4>2. Cardinality(Submitted(r)') <= total'
        BY <2>0, <3>1, <4>1 DEF CountOf
      <4>3. wpc'[r] \in Active
        BY <3>4 DEF Active, WorkerPC
      <4>4. \A u \in audits'[r] : fut'[r][u] = "taken"
        BY <3>1 DEF CountOf
      <4>5. cur'[r] \in audits'[r]
        BY <3>1, <3>4
      <4>6. QED
        BY <3>4, <3>6, <4>2, <4>3, <4>4, <4>5 DEF CountOf
    <3>8. Others
      BY <3>1
    <3>9. QED
      BY <2>a, <3>7, <3>8
  <2>9. CASE \/ FetchNothing(r) \/ WorkerRaises(r) \/ CountResult(r)
             \/ LeavePool(r) \/ WriteHtml(r) \/ WriteXlsx(r) \/ WriteSidecar(r)
             \/ AnnounceDone(r)
    <3>1. /\ UNCHANGED <<total, full, audits, fut>>
          /\ Others
      BY <2>9 DEF FetchNothing, WorkerRaises, CountResult, LeavePool,
         WriteHtml, WriteXlsx, WriteSidecar, AnnounceDone, Move
    <3>2. /\ wpc'[r] \in Active \ {"fetch", "site", "append", "progress"}
          /\ wpc[r] # "append"
      BY <2>9 DEF FetchNothing, WorkerRaises, CountResult, LeavePool,
         WriteHtml, WriteXlsx, WriteSidecar, AnnounceDone, Move, WorkerPC, Active
    <3>3. SameFutures
      BY <3>1 DEF SameFutures
    <3>4. \A s \in Runs : Submitted(s)' = Submitted(s)
      BY <3>3, SameSubmitted
    <3>5. Offered(r)' = audits[r] /\ Offered(r) = audits[r]
      BY <3>1, <3>2 DEF Offered
    <3>6. CountOf(r)'
      BY <2>0, <3>1, <3>2, <3>4, <3>5 DEF CountOf
    <3>7. QED
      BY <2>a, <3>1, <3>6
  <2>10. CASE Finally(r)
    <3>1. /\ wpc' = [wpc EXCEPT ![r] = "ended"]
          /\ audits' = [audits EXCEPT ![r] = {}]
          /\ cur' = [cur EXCEPT ![r] = "none"]
          /\ fut' = [fut EXCEPT ![r] = NoFutures]
      BY <2>10 DEF Finally, Move
    <3>2. Submitted(r)' = {}
      BY <3>1 DEF Submitted, NoFutures
    <3>3. wpc'[r] = "ended" /\ audits'[r] = {}
      BY <3>1
    <3>4. CountOf(r)'
      BY <3>2, <3>3 DEF CountOf, Active
    <3>5. Others
      BY <3>1
    <3>6. QED
      BY <2>a, <3>4, <3>5
  <2>11. QED
    BY <1>2, <2>4, <2>5, <2>6, <2>7, <2>8, <2>9, <2>10 DEF WorkerStep
<1>3. ASSUME NEW r \in Runs, NEW u \in Urls, TaskStep(r, u)
      PROVE  CountInv'
  <2>1. UNCHANGED <<shared, files, ghosts, hpc, hrun, wpc, cur, audits>>
    BY <1>3, TaskFrame
  <2>2. SameFutures
    <3>1. PICK x \in FutureState \ {"absent"} :
            fut' = [fut EXCEPT ![r][u] = x]
      BY <1>3 DEF TaskStep, TaskStart, TaskWait, TaskRecheck, TaskReturn,
         SetTask, FutureState, Busy
    <3>2. fut[r][u] \notin {"absent", "taken"}
      BY <1>3 DEF TaskStep, TaskStart, TaskWait, TaskRecheck, TaskReturn
    <3>3. QED
      BY <3>1, <3>2 DEF SameFutures
  <2>3. \A s \in Runs : Submitted(s)' = Submitted(s)
    BY <2>2, SameSubmitted
  <2>4. \A s \in Runs : CountOf(s)'
    BY <2>1, <2>2, <2>3, Bystander DEF SameFutures
  <2>5. QED
    BY <2>1, <2>4 DEF Claiming
<1>4. CASE Restart
  <2>1. \A s \in Runs : Submitted(s)' = {}
    BY <1>4 DEF Restart, Submitted, NoFutures
  <2>2. \A s \in Runs : wpc'[s] \notin Active /\ audits'[s] = {}
    BY <1>4 DEF Restart, Active
  <2>3. \A q \in Requests : ~Claiming(q)'
    BY <1>4 DEF Restart, Claiming
  <2>4. ASSUME NEW s \in Runs
        PROVE  CountOf(s)'
    <3>1. wpc'[s] \notin Active \cup {"append", "progress"}
      BY <2>2 DEF Active, WorkerPC
    <3>2. \A u \in audits'[s] : fut'[s][u] = "taken"
      BY <2>2
    <3>3. QED
      BY <2>1, <3>1, <3>2 DEF CountOf
  <2>5. QED
    BY <2>3, <2>4
<1>5. CASE UNCHANGED vars
  <2>1. \A s \in Runs : Submitted(s)' = Submitted(s)
    BY <1>5 DEF vars, Submitted
  <2>2. \A s \in Runs : CountOf(s)'
    BY <1>5, <2>1, Bystander DEF vars, CountOf
  <2>3. QED
    BY <1>5, <2>2 DEF vars, Claiming
<1>6. QED
  BY <1>1, <1>2, <1>3, <1>4, <1>5 DEF Next

\* A set and one more element.
LEMMA OneMore ==
  ASSUME NEW S, IsFiniteSet(S), NEW x, x \notin S
  PROVE  /\ IsFiniteSet(S \cup {x})
         /\ Cardinality(S \cup {x}) = Cardinality(S) + 1
         /\ Cardinality(S) \in Nat
  BY FS_AddElement, FS_CardinalityType

\* The buffers of a bounded run are finite.
LEMMA FullFinite ==
  ASSUME TypeOK
  PROVE  IsFiniteSet(full)
<1>1. IsFiniteSet(Runs)
  BY FS_Interval, AuditAssumption DEF Runs
<1>2. IsFiniteSet(Runs \X Urls)
  BY <1>1, FS_Product, AuditAssumption
<1>3. QED
  BY <1>2, FS_Subset DEF TypeOK

\* The results of a run that the status dict counts, and those the buffers
\* were offered; what a bounded buffer keeps of n.
CountedOf(r) ==
  Cardinality(audits[r]) - IF wpc[r] \in {"append", "progress"} THEN 1 ELSE 0
OfferedOf(r) ==
  Cardinality(audits[r]) - IF wpc[r] = "append" THEN 1 ELSE 0
Kept(n) == IF n < MaxResults THEN n ELSE MaxResults

\* The equations of CountersAgree, for one run.
Agree(r) ==
  wpc[r] \in Active => done = CountedOf(r) /\ Cardinality(full) = Kept(OfferedOf(r))

\* A buffer with room for one more keeps it.
LEMMA KeptAll ==
  ASSUME NEW n \in Nat, n <= MaxResults
  PROVE  Kept(n) = n
  BY AuditAssumption DEF Kept

\* They are all of it: a result comes from a URL that was submitted.
LEMMA AgreeAll ==
  ASSUME TypeOK, CountInv, \A r \in Runs : Agree(r)
  PROVE  CountersAgree
<1>1. SUFFICES ASSUME NEW r \in Runs, wpc[r] \in Active
               PROVE  /\ done = CountedOf(r) /\ done <= total
                      /\ Cardinality(full) = Kept(OfferedOf(r))
  <2>1. \A r \in Runs : Cardinality(audits[r]) \in Nat
    BY UrlsCountable DEF TypeOK
  <2>2. QED
    BY <2>1 DEF CountersAgree, CountedOf, OfferedOf, Kept
<1>2. done = CountedOf(r) /\ Cardinality(full) = Kept(OfferedOf(r))
  BY <1>1 DEF Agree
<1>3. audits[r] \subseteq Submitted(r) /\ Submitted(r) \in SUBSET Urls
  BY DEF TypeOK, CountInv, CountOf, Submitted
<1>4. Cardinality(audits[r]) <= Cardinality(Submitted(r))
  <2>1. IsFiniteSet(Submitted(r))
    BY <1>3, AuditAssumption, FS_Subset
  <2>2. QED
    BY <1>3, <2>1, FS_Subset
<1>5. Cardinality(Submitted(r)) <= total
  BY <1>1 DEF CountInv, CountOf
<1>6. /\ Cardinality(audits[r]) \in Nat /\ Cardinality(Submitted(r)) \in Nat
      /\ total \in Nat
  BY <1>3, UrlsCountable DEF TypeOK
<1>7. CountedOf(r) <= Cardinality(audits[r])
  BY <1>6 DEF CountedOf
<1>8. QED
  BY <1>2, <1>4, <1>5, <1>6, <1>7 DEF CountedOf

\* A step that counts, buffers and takes in nothing.
LEMMA AgreeFrame ==
  ASSUME NEW r \in Runs, Agree(r), wpc[r] \in Active,
         UNCHANGED <<done, full, audits>>,
         \A c \in {"append", "progress"} : wpc'[r] = c <=> wpc[r] = c
  PROVE  Agree(r)'
<1>1. CountedOf(r)' = CountedOf(r) /\ OfferedOf(r)' = OfferedOf(r)
  BY DEF CountedOf, OfferedOf
<1>2. QED
  BY <1>1 DEF Agree, Kept

LEMMA AgreeStep ==
  ASSUME TypeOK, SlotInv, CountInv, \A r \in Runs : Agree(r), [Next]_vars
  PROVE  \A r \in Runs : Agree(r)'
<1> USE DEF TypeOK, shared, files, ghosts, worker
<1>a. \A s \in Runs : Cardinality(audits[s]) \in Nat
  BY UrlsCountable
<1>1. ASSUME NEW q \in Requests, HandlerStep(q) \/ UserStep(q), NEW s \in Runs
      PROVE  Agree(s)'
  <2>0. audits' = audits
    BY <1>1, HandlerFrame
  <2>1. CASE RunClaim(q)
    <3>1. wpc'[s] \notin Active
      BY <2>1 DEF RunClaim, Claim, SlotInv
    <3>2. QED
      BY <3>1 DEF Agree
  <2>2. CASE RunSpawn(q)
    <3>1. PICK b \in Runs : b = begun /\ hrun[q] = b /\ wpc[b] = "none"
      BY <2>2 DEF RunSpawn, Goto, Claiming, SlotInv
    <3>2. Claiming(q)
      BY <2>2 DEF RunSpawn, Goto, Claiming
    <3>3. /\ wpc' = [wpc EXCEPT ![b] = "fetch"] /\ wpc[s] \notin Active
          /\ done' = 0 /\ full' = {}
      BY <2>2, <3>1, <3>2 DEF RunSpawn, SlotInv, CountInv
    <3>4. CASE s = b
      <4>1. Submitted(s) = {}
        BY <3>1, <3>4 DEF CountInv, CountOf, Active
      <4>2. audits[s] = {}
        BY <4>1 DEF CountInv, CountOf, Submitted
      <4>3. Cardinality(audits'[s]) = 0 /\ Cardinality(full') = 0
        BY <2>0, <3>3, <4>2, FS_EmptySet, Zenon
      <4>4. wpc'[s] = "fetch"
        BY <3>3, <3>4
      <4>5. CountedOf(s)' = 0 /\ OfferedOf(s)' = 0
        <5>0. wpc'[s] \notin {"append", "progress"}
          BY <4>4
        <5>1. CountedOf(s)' = 0 - 0
          BY <4>3, <5>0 DEF CountedOf
        <5>2. OfferedOf(s)' = Cardinality(audits'[s])
          BY <4>3, <4>4 DEF OfferedOf
        <5>3. QED
          BY <4>3, <5>1, <5>2
      <4>6. 0 < MaxResults
        BY AuditAssumption
      <4>7. QED
        BY <3>3, <4>3, <4>5, <4>6 DEF Agree, Kept
    <3>5. CASE s # b
      BY <3>3, <3>5 DEF Agree
    <3>6. QED
      BY <3>4, <3>5
  <2>3. CASE ~RunClaim(q) /\ ~RunSpawn(q)
    <3>1. UNCHANGED <<done, full, wpc>>
      BY <1>1, <2>3 DEF HandlerStep, UserStep, RunRefused, RunUnpause,
         RunLoadFails, CancelSet, CancelUnpause, CancelSave, CancelAnnounce,
         PauseClear, RunCheck, PauseCheck, Resume, SetUnpaused
    <3>2. QED
      BY <2>0, <3>1, AgreeFrame DEF Agree
  <2>4. QED
    BY <2>1, <2>2, <2>3
<1>2. ASSUME NEW r \in Runs, WorkerStep(r), NEW s \in Runs
      PROVE  Agree(s)'
  <2>1. wpc[r] \in Active
    BY <1>2 DEF WorkerStep, FetchUrls, FetchNothing, SubmitUrls, WorkerRaises,
       TakeFuture, Take, StopTaking, BufferResult, CountResult, LeavePool,
       WriteHtml, WriteXlsx, WriteSidecar, AnnounceDone, Finally, Move,
       Active, WorkerPC
  <2>2. CASE s # r
    <3>1. wpc[s] \notin Active
      BY <2>1, <2>2 DEF SlotInv
    <3>2. wpc'[s] = wpc[s]
      BY <1>2, <2>2 DEF WorkerStep, FetchUrls, FetchNothing, SubmitUrls,
         WorkerRaises, TakeFuture, Take, StopTaking, BufferResult, CountResult,
         LeavePool, WriteHtml, WriteXlsx, WriteSidecar, AnnounceDone, Finally,
         Move
    <3>3. QED
      BY <3>1, <3>2 DEF Agree
  <2>3. ASSUME NEW u \in Urls, TakeFuture(r, u)
        PROVE  Agree(r)'
    <3>1. wpc[r] = "pool" /\ UNCHANGED <<done, full>>
      BY <2>3 DEF TakeFuture, Take
    <3>2. CASE fut[r][u] = "result"
      <4>1. /\ wpc'[r] = "append" /\ audits'[r] = audits[r] \cup {u}
            /\ u \notin audits[r]
        BY <2>3, <3>2 DEF TakeFuture, Take, CountInv, CountOf
      <4>2. IsFiniteSet(audits[r])
        BY AuditAssumption, FS_Subset
      <4>3. Cardinality(audits[r] \cup {u}) = Cardinality(audits[r]) + 1
        BY <4>1, <4>2, OneMore
      <4>4. Cardinality(audits'[r]) = Cardinality(audits[r]) + 1
        BY <4>1, <4>3, Zenon
      <4>5. /\ CountedOf(r)' = Cardinality(audits[r])
            /\ OfferedOf(r)' = Cardinality(audits[r])
        BY <1>a, <4>1, <4>4 DEF CountedOf, OfferedOf
      <4>6. /\ CountedOf(r) = Cardinality(audits[r])
            /\ OfferedOf(r) = Cardinality(audits[r])
        BY <1>a, <3>1 DEF CountedOf, OfferedOf
      <4>7. QED
        BY <2>1, <3>1, <4>5, <4>6 DEF Agree, Kept
    <3>3. CASE fut[r][u] # "result"
      <4>1. UNCHANGED <<wpc, audits>>
        BY <2>3, <3>3 DEF TakeFuture, Take
      <4>2. QED
        BY <2>1, <3>1, <4>1, AgreeFrame
    <3>4. QED
      BY <3>2, <3>3
  <2>4. ASSUME BufferResult(r)
        PROVE  Agree(r)'
    <3>1. /\ wpc[r] = "append" /\ wpc'[r] = "progress"
          /\ UNCHANGED <<done, audits, cur>>
          /\ full' = Buffered(r, cur[r])
      BY <2>4 DEF BufferResult, Move
    <3>2. <<r, cur[r]>> \notin full
      BY <2>1, <3>1 DEF CountInv, CountOf, Offered
    <3>3. /\ CountedOf(r)' = CountedOf(r)
          /\ OfferedOf(r)' = OfferedOf(r) + 1
      BY <1>a, <3>1 DEF CountedOf, OfferedOf
    <3>4. OfferedOf(r) \in Nat
      <4>1. cur[r] \in audits[r]
        BY <3>1 DEF CountInv, CountOf
      <4>2. Cardinality(audits[r]) # 0
        BY <4>1, AuditAssumption, FS_Subset, FS_EmptySet
      <4>3. QED
        BY <1>a, <3>1, <4>2 DEF OfferedOf
    <3>5. Cardinality(full) = Kept(OfferedOf(r)) /\ done = CountedOf(r)
      BY <2>1 DEF Agree
    <3>6. Cardinality(full') = Kept(OfferedOf(r) + 1)
      <4>1. CASE OfferedOf(r) < MaxResults
        <5>1. Cardinality(full) = OfferedOf(r)
          BY <3>5, <4>1 DEF Kept
        <5>2. full' = full \cup {<<r, cur[r]>>}
          BY <3>1, <4>1, <5>1 DEF Buffered
        <5>3. Cardinality(full \cup {<<r, cur[r]>>}) = Cardinality(full) + 1
          BY <3>2, FullFinite, OneMore
        <5>4. Cardinality(full') = OfferedOf(r) + 1
          BY <5>1, <5>2, <5>3, Zenon
        <5>5. OfferedOf(r) + 1 <= MaxResults
          BY <3>4, <4>1, AuditAssumption
        <5>6. Kept(OfferedOf(r) + 1) = OfferedOf(r) + 1
          BY <3>4, <5>5, KeptAll
        <5>7. QED
          BY <5>4, <5>6
      <4>2. CASE ~(OfferedOf(r) < MaxResults)
        <5>1. Cardinality(full) = MaxResults
          BY <3>5, <4>2 DEF Kept
        <5>2. full' = full
          BY <3>1, <5>1, AuditAssumption DEF Buffered
        <5>3. ~(OfferedOf(r) + 1 < MaxResults)
          BY <3>4, <4>2, AuditAssumption
        <5>4. QED
          BY <5>1, <5>2, <5>3 DEF Kept
      <4>3. QED
        BY <4>1, <4>2
    <3>7. QED
      BY <3>1, <3>3, <3>5, <3>6 DEF Agree, Kept
  <2>5. ASSUME CountResult(r)
        PROVE  Agree(r)'
    <3>1. /\ wpc[r] = "progress" /\ wpc'[r] = "pool"
          /\ UNCHANGED <<full, audits>> /\ done' = Cardinality(audits[r])
      BY <2>5 DEF CountResult, Move
    <3>2. /\ CountedOf(r)' = done'
          /\ OfferedOf(r)' = OfferedOf(r)
      BY <1>a, <3>1 DEF CountedOf, OfferedOf
    <3>3. QED
      BY <2>1, <3>1, <3>2 DEF Agree, Kept
  <2>6. ASSUME Finally(r)
        PROVE  Agree(r)'
    <3>1. wpc'[r] \notin Active
      BY <2>6 DEF Finally, Move, Active
    <3>2. QED
      BY <3>1 DEF Agree
  <2>7. ASSUME \/ FetchUrls(r) \/ FetchNothing(r) \/ SubmitUrls(r)
               \/ WorkerRaises(r) \/ LeavePool(r) \/ WriteHtml(r)
               \/ WriteXlsx(r) \/ WriteSidecar(r) \/ AnnounceDone(r)
               \/ \E u \in Urls : StopTaking(r, u)
        PROVE  Agree(r)'
    <3>1. UNCHANGED <<done, full, audits>>
      BY <2>7 DEF FetchUrls, FetchNothing, SubmitUrls, WorkerRaises,
         StopTaking, LeavePool, WriteHtml, WriteXlsx, WriteSidecar, AnnounceDone
    <3>2. /\ wpc[r] \notin {"append", "progress"}
          /\ wpc'[r] \notin {"append", "progress"}
      BY <2>7 DEF FetchUrls, FetchNothing, SubmitUrls, WorkerRaises,
         StopTaking, LeavePool, WriteHtml, WriteXlsx, WriteSidecar,
         AnnounceDone, Move
    <3>3. QED
      BY <2>1, <3>1, <3>2, AgreeFrame
  <2>8. QED
    BY <1>2, <2>2, <2>3, <2>4, <2>5, <2>6, <2>7 DEF WorkerStep
<1>3. ASSUME NEW r \in Runs, NEW u \in Urls, TaskStep(r, u), NEW s \in Runs
      PROVE  Agree(s)'
  BY <1>3, TaskFrame, AgreeFrame DEF Agree
<1>4. ASSUME Restart, NEW s \in Runs
      PROVE  Agree(s)'
  BY <1>4 DEF Restart, Agree, Active
<1>5. ASSUME UNCHANGED vars, NEW s \in Runs
      PROVE  Agree(s)'
  BY <1>5, AgreeFrame DEF vars, Agree
<1>6. QED
  BY <1>1, <1>2, <1>3, <1>4, <1>5 DEF Next

(* The status dict, the worker's list and the bounded buffers agree at      *)
(* every step: nothing is counted twice, because a future is taken once and *)
(* a URL enters the list only with it; the count never passes the total,    *)
(* because a result comes from a URL that was submitted, also when the      *)
(* total was lowered after the claim; and the run that counts starts from   *)
(* empty counters, whoever held the slot before it.                         *)
THEOREM Counters == Spec => []CountersAgree
<1> DEFINE Inv == CountInv /\ \A r \in Runs : Agree(r)
<1>1. Init => Inv
  <2>1. SUFFICES ASSUME Init
                 PROVE  Inv
    OBVIOUS
  <2>2. \A r \in Runs : wpc[r] = "none" /\ audits[r] = {} /\ Submitted(r) = {}
    BY <2>1 DEF Init, Submitted, NoFutures
  <2>3. \A r \in Runs : CountOf(r) /\ Agree(r)
    BY <2>2 DEF CountOf, Agree, Active
  <2>4. \A q \in Requests : ~Claiming(q)
    BY <2>1 DEF Init, Claiming
  <2>5. QED
    BY <2>3, <2>4 DEF CountInv
<1>2. TypeOK /\ SlotInv /\ Inv /\ [Next]_vars => Inv'
  BY CountInvStep, AgreeStep
<1>3. TypeOK /\ Inv => CountersAgree
  BY AgreeAll
<1>4. QED
  BY <1>1, <1>2, <1>3, Typing, Exclusion, PTL DEF Spec

-----------------------------------------------------------------------------
(* Refinement.                                                              *)

\* Every step of the threads is a step of the run slot, or changes nothing
\* the slot can see.
LEMMA SlotStep ==
  ASSUME TypeOK, HandlingInv, SlotInv, CancelInv, [Next]_vars
  PROVE  [Slot!Next]_(Slot!vars)
<1> USE DEF TypeOK, shared, files, ghosts, worker
<1> DEFINE Goal == [Slot!Next]_(Slot!vars)
<1>0. UNCHANGED <<running, begun, cancel, late, full>> => Goal
  BY DEF Slot!vars
<1>1. ASSUME NEW q \in Requests, HandlerStep(q) \/ UserStep(q)
      PROVE  Goal
  <2>1. CASE RunClaim(q)
    <3>1. Slot!Begin
      BY <2>1 DEF RunClaim, Claim, Slot!Begin
    <3>2. QED
      BY <3>1 DEF Slot!Next
  <2>2. CASE CancelSet(q)
    <3>1. cancel' = TRUE /\ UNCHANGED <<running, begun, full, late>>
      BY <2>2 DEF CancelSet
    <3>2. CASE cancel
      BY <1>0, <3>1, <3>2
    <3>3. CASE ~cancel
      <4>1. late = 0
        BY <3>3 DEF CancelInv
      <4>2. (IF cancel' /\ late' = 0 THEN 1 ELSE 0) \in 0..1
        BY <3>1, <4>1
      <4>3. Slot!Stop
        BY <3>1, <3>3, <4>2 DEF Slot!Stop
      <4>4. QED
        BY <4>3 DEF Slot!Next
    <3>4. QED
      BY <3>2, <3>3
  <2>3. CASE ~RunClaim(q) /\ ~CancelSet(q)
    <3>1. UNCHANGED <<running, begun, cancel, late, full>>
      BY <1>1, <2>3 DEF HandlerStep, UserStep, RunRefused, RunUnpause, RunSpawn,
        RunLoadFails, CancelUnpause, CancelSave, CancelAnnounce, PauseClear,
        RunCheck, PauseCheck, Resume, SetUnpaused
    <3>2. QED
      BY <1>0, <3>1
  <2>4. QED
    BY <2>1, <2>2, <2>3
<1>2. ASSUME NEW r \in Runs, WorkerStep(r)
      PROVE  Goal
  <2>1. CASE BufferResult(r)
    <3>1. wpc[r] = "append" /\ r = begun /\ running /\ cur[r] \in Urls
      BY <2>1 DEF BufferResult, Move, SlotInv, Active, HandlingInv
    <3>2. late = 0 /\ late' = IF cancel THEN 1 ELSE 0
      BY <2>1, <3>1 DEF BufferResult, CancelInv
    <3>3. \E kept \in SUBSET {<<begun, cur[r]>>} : full' = full \cup kept
      <4>1. CASE Cardinality(full) < MaxResults
        <5>1. full' = full \cup {<<begun, cur[r]>>}
          BY <2>1, <3>1, <4>1 DEF BufferResult, Buffered
        <5>2. QED
          BY <5>1
      <4>2. CASE ~(Cardinality(full) < MaxResults)
        <5>1. full' = full \cup {}
          BY <2>1, <4>2 DEF BufferResult, Buffered
        <5>2. {} \in SUBSET {<<begun, cur[r]>>}
          OBVIOUS
        <5>3. QED
          BY <5>1, <5>2
      <4>3. QED
        BY <4>1, <4>2
    <3>4. UNCHANGED <<running, begun, cancel>>
      BY <2>1 DEF BufferResult
    <3>5. Slot!Collect(cur[r])
      <4>1. (IF running THEN begun ELSE 0) = begun /\ begun # 0
        BY <3>1, AuditAssumption DEF Runs
      <4>2. (IF running' THEN begun' ELSE 0) = begun
        BY <3>1, <3>4
      <4>3. IF cancel
              THEN /\ (IF cancel /\ late = 0 THEN 1 ELSE 0) > 0
                   /\ (IF cancel' /\ late' = 0 THEN 1 ELSE 0)
                        = (IF cancel /\ late = 0 THEN 1 ELSE 0) - 1
              ELSE (IF cancel' /\ late' = 0 THEN 1 ELSE 0)
                        = (IF cancel /\ late = 0 THEN 1 ELSE 0)
        BY <3>2, <3>4
      <4>4. QED
        BY <3>3, <3>4, <4>1, <4>2, <4>3 DEF Slot!Collect
    <3>6. QED
      BY <3>1, <3>5 DEF Slot!Next
  <2>2. CASE Finally(r)
    <3>1. r = begun /\ running
      BY <2>2 DEF Finally, Move, SlotInv, Active
    <3>2. running' = FALSE /\ UNCHANGED <<begun, cancel, late, full>>
      BY <2>2 DEF Finally
    <3>3. Slot!End
      BY <3>1, <3>2, AuditAssumption DEF Slot!End, Runs
    <3>4. QED
      BY <3>3 DEF Slot!Next
  <2>3. CASE ~BufferResult(r) /\ ~Finally(r)
    <3>1. UNCHANGED <<running, begun, cancel, late, full>>
      BY <1>2, <2>3 DEF WorkerStep, FetchUrls, SubmitUrls, FetchNothing,
          WorkerRaises,
        TakeFuture, Take, StopTaking, CountResult, LeavePool, WriteHtml,
        WriteXlsx, WriteSidecar, AnnounceDone
    <3>2. QED
      BY <1>0, <3>1
  <2>4. QED
    BY <2>1, <2>2, <2>3
<1>3. ASSUME NEW r \in Runs, NEW u \in Urls, TaskStep(r, u)
      PROVE  Goal
  BY <1>0, <1>3, TaskFrame
<1>4. CASE Restart
  <2>1. Slot!Restart
    BY <1>4 DEF Restart, Slot!Restart
  <2>2. QED
    BY <2>1 DEF Slot!Next
<1>5. CASE UNCHANGED vars
  BY <1>0, <1>5 DEF vars
<1>6. QED
  BY <1>1, <1>2, <1>3, <1>4, <1>5 DEF Next

(* The threads implement the run slot: a run begins only on a free slot and *)
(* with an empty buffer, a request to stop is forgotten only when the next  *)
(* run begins, and after it at most one more result is taken in.            *)
THEOREM Refinement == Spec => ImplementsRunSlot
<1>1. Init => Slot!Init
  BY DEF Init, Slot!Init
<1>2. TypeOK /\ HandlingInv /\ SlotInv /\ CancelInv /\ [Next]_vars
        => [Slot!Next]_(Slot!vars)
  BY SlotStep
<1>3. QED
  BY <1>1, <1>2, Typing, Exclusion, PromptCancel, PTL
     DEF Spec, ImplementsRunSlot, Slot!Spec
=============================================================================
