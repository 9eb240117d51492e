------------------------------ MODULE AuditRun ------------------------------
(***************************************************************************)
(* The audit subsystem: app/blueprints/audit.py over the shared run state  *)
(* of app/state.py.                                                        *)
(*                                                                         *)
(* Processes.  Request threads (gunicorn's pool) execute the handlers of   *)
(* /api/audit/run, cancel, pause and resume; a claimed run is carried out  *)
(* by a worker thread of its own, which feeds one task per URL to a thread *)
(* pool and consumes their results in completion order.  A step is what    *)
(* happens between two accesses to shared state: one section under _lock,  *)
(* one operation on a threading.Event, one file write.                     *)
(*                                                                         *)
(* Runs are numbered in the order they claim the slot.  The number, `late' *)
(* and the two per-run sets `announced' and `recorded' are bookkeeping of  *)
(* the model; the code has no name for a run.                              *)
(***************************************************************************)
EXTENDS Naturals, FiniteSets

CONSTANTS
  Urls,             \* the URLs an input can resolve to
  Limit,            \* the request's limit on the number of URLs
  PoolSize,         \* the request's number of pool threads
  MaxResults,       \* MAX_AUDIT_RESULTS
  Requests,         \* request threads
  MaxRuns,          \* bound of the model on the number of runs
  ConfigMayFail     \* whether reading config.json can raise

ASSUME AuditAssumption ==
  /\ IsFiniteSet(Urls)
  /\ Limit \in Nat \ {0}
  /\ PoolSize \in Nat \ {0}
  /\ MaxResults \in Nat \ {0}
  /\ MaxRuns \in Nat \ {0}
  /\ ConfigMayFail \in BOOLEAN

VARIABLES
  running,          \* _audit_status["running"]
  total,            \* _audit_status["total"]
  done,             \* _audit_status["done"]
  cancel,           \* _audit_cancel is set
  unpaused,         \* _audit_paused is set: threads need not wait
  full,             \* _audit_partial and _audit_full_results, as <<run, url>>
  reports,          \* report files of each run
  partialReport,    \* contents of the last *_partial report written
  begun,            \* number of runs that claimed the slot
  late,             \* results buffered by this run while cancel was set
  announced,        \* terminal messages each run's worker has broadcast
  recorded,         \* terminal statuses counted by metrics for each run
  hpc, hrun,        \* control point of a request thread, the run it concerns
  wpc,              \* control point of a run's worker thread
  cur,              \* the URL the worker is handling
  audits,           \* the worker's own list of results
  fut               \* state of the future of each URL

shared == <<running, total, done, cancel, unpaused, full>>
files  == <<reports, partialReport>>
ghosts == <<begun, late, announced, recorded>>
worker == <<wpc, cur, audits, fut>>
vars   == <<shared, files, ghosts, hpc, hrun, worker>>

Runs == 1..MaxRuns

HandlerPC == {"idle", "runChecked", "runClaimed", "runLoading",
              "cancelSet", "cancelUnpaused", "cancelSaved", "pauseChecked"}

WorkerPC == {"none", "fetch", "site", "pool", "append", "progress", "drain",
             "html", "xlsx", "json", "announce", "finally", "ended", "lost"}

\* A worker thread exists and has not yet cleared the running flag.
Active == WorkerPC \ {"none", "ended", "lost"}

\* A task occupies a pool thread from its first instruction to its return.
Busy == {"checked", "waiting", "cleared", "auditing"}

FutureState == Busy \cup {"queued", "result", "nothing", "taken", "cancelled",
                          "absent"}

Terminal == {"done", "error", "cancelled"}
Status   == {"completed", "error", "cancelled"}
Report   == {"html", "xlsx", "json"}

NoFutures == [u \in Urls |-> "absent"]

TypeOK ==
  /\ running \in BOOLEAN /\ cancel \in BOOLEAN /\ unpaused \in BOOLEAN
  /\ total \in Nat /\ done \in Nat /\ late \in Nat
  /\ full \subseteq Runs \X Urls
  /\ partialReport \subseteq Runs \X Urls
  /\ begun \in 0..MaxRuns
  /\ reports \in [Runs -> SUBSET Report]
  /\ announced \in [Runs -> SUBSET Terminal]
  /\ recorded \in [Runs -> SUBSET Status]
  /\ hpc \in [Requests -> HandlerPC]
  /\ hrun \in [Requests -> 0..MaxRuns]
  /\ wpc \in [Runs -> WorkerPC]
  /\ cur \in [Runs -> Urls \cup {"none"}]
  /\ audits \in [Runs -> SUBSET Urls]
  /\ fut \in [Runs -> [Urls -> FutureState]]

Init ==
  /\ running = FALSE /\ total = 0 /\ done = 0
  /\ cancel = FALSE /\ unpaused = TRUE
  /\ full = {} /\ partialReport = {}
  /\ begun = 0 /\ late = 0
  /\ reports = [r \in Runs |-> {}]
  /\ announced = [r \in Runs |-> {}]
  /\ recorded = [r \in Runs |-> {}]
  /\ hpc = [q \in Requests |-> "idle"]
  /\ hrun = [q \in Requests |-> 0]
  /\ wpc = [r \in Runs |-> "none"]
  /\ cur = [r \in Runs |-> "none"]
  /\ audits = [r \in Runs |-> {}]
  /\ fut = [r \in Runs |-> NoFutures]

-----------------------------------------------------------------------------
(* Operations on the shared state.                                          *)

\* Event.set wakes every thread blocked in Event.wait, also those that get
\* to run only after the event has been cleared again.
Awake(f) ==
  [r \in Runs |-> [u \in Urls |->
     IF f[r][u] = "waiting" THEN "cleared" ELSE f[r][u]]]

SetUnpaused ==
  /\ unpaused' = TRUE
  /\ fut' = Awake(fut)

\* Mutant of Buffered: the bound is compared with <=.
BufferedOneTooMany(r, u) ==
  IF Cardinality(full) <= MaxResults THEN full \cup {<<r, u>>} ELSE full

\* The buffers are bounded: past MaxResults a new entry is dropped.
Buffered(r, u) ==
  IF Cardinality(full) < MaxResults THEN full \cup {<<r, u>>} ELSE full

Goto(q, from, to) ==
  /\ hpc[q] = from
  /\ hpc' = [hpc EXCEPT ![q] = to]

Move(r, from, to) ==
  /\ wpc[r] = from
  /\ wpc' = [wpc EXCEPT ![r] = to]

-----------------------------------------------------------------------------
(* POST /api/audit/run.                                                     *)

\* Mutant of RunCheck: the cancel event is cleared before the lock is taken,
\* as the code once did.
RunCheckClearsCancel(q) ==
  /\ Goto(q, "idle", IF running THEN "idle" ELSE "runChecked")
  /\ cancel' = FALSE
  /\ UNCHANGED <<running, total, done, unpaused, full, files, ghosts, hrun,
                 worker>>

\* The early check, followed by the validation of the request body.
RunCheck(q) ==
  /\ ~running
  /\ Goto(q, "idle", "runChecked")
  /\ UNCHANGED <<shared, files, ghosts, hrun, worker>>

\* Effect of a claim on everything but the result buffers.
Claim(q) ==
  /\ begun < MaxRuns
  /\ Goto(q, "runChecked", "runClaimed")
  /\ hrun' = [hrun EXCEPT ![q] = begun + 1]
  /\ begun' = begun + 1
  /\ running' = TRUE /\ total' = Limit /\ done' = 0
  /\ cancel' = FALSE /\ late' = 0
  /\ UNCHANGED <<unpaused, files, announced, recorded, worker>>

\* Mutant of RunClaim: the buffers of the previous run are kept.
RunClaimKeepsBuffers(q) == ~running /\ Claim(q) /\ full' = full

\* The check and the claim, in one section under _lock.
RunClaim(q) ==
  /\ ~running
  /\ Claim(q)
  /\ full' = {}

\* Another request got there first: 400.
RunRefused(q) ==
  /\ running
  /\ Goto(q, "runChecked", "idle")
  /\ UNCHANGED <<shared, files, ghosts, hrun, worker>>

\* _audit_paused.set(), after the lock was released.
RunUnpause(q) ==
  /\ Goto(q, "runClaimed", "runLoading")
  /\ SetUnpaused
  /\ UNCHANGED <<running, total, done, cancel, full, files, ghosts, hrun,
                 wpc, cur, audits>>

\* load_config returned; the worker thread is started.
RunSpawn(q) ==
  /\ Goto(q, "runLoading", "idle")
  /\ wpc' = [wpc EXCEPT ![hrun[q]] = "fetch"]
  /\ hrun' = [hrun EXCEPT ![q] = 0]
  /\ UNCHANGED <<shared, files, ghosts, cur, audits, fut>>

\* load_config raised (config.json unreadable, or caught half-written): the
\* request fails with 500 and nothing takes back the claim.
RunLoadFails(q) ==
  /\ ConfigMayFail
  /\ Goto(q, "runLoading", "idle")
  /\ hrun' = [hrun EXCEPT ![q] = 0]
  /\ UNCHANGED <<shared, files, ghosts, worker>>

-----------------------------------------------------------------------------
(* POST /api/audit/cancel: no check that anything runs.                     *)

CancelSet(q) ==
  /\ Goto(q, "idle", "cancelSet")
  /\ cancel' = TRUE
  /\ hrun' = [hrun EXCEPT ![q] = IF running THEN begun ELSE 0]
  /\ UNCHANGED <<running, total, done, unpaused, full, files, ghosts, worker>>

CancelUnpause(q) ==
  /\ Goto(q, "cancelSet", "cancelUnpaused")
  /\ SetUnpaused
  /\ UNCHANGED <<running, total, done, cancel, full, files, ghosts, hrun,
                 wpc, cur, audits>>

\* _save_partial_audit_report: a snapshot under _lock, then the files; nothing
\* is written without data, and failing to write is not fatal.
CancelSave(q) ==
  /\ Goto(q, "cancelUnpaused", "cancelSaved")
  /\ \/ full # {} /\ partialReport' = full
     \/ UNCHANGED partialReport
  /\ UNCHANGED <<shared, reports, ghosts, hrun, worker>>

\* Broadcast "cancelled" and count the run as cancelled.
CancelAnnounce(q) ==
  /\ Goto(q, "cancelSaved", "idle")
  /\ recorded' = [r \in Runs |-> IF r = hrun[q]
                                   THEN recorded[r] \cup {"cancelled"}
                                   ELSE recorded[r]]
  /\ hrun' = [hrun EXCEPT ![q] = 0]
  /\ UNCHANGED <<shared, files, begun, late, announced, worker>>

(* POST /api/audit/pause: a check under _lock, then the event.              *)

PauseCheck(q) ==
  /\ running
  /\ Goto(q, "idle", "pauseChecked")
  /\ UNCHANGED <<shared, files, ghosts, hrun, worker>>

PauseClear(q) ==
  /\ Goto(q, "pauseChecked", "idle")
  /\ unpaused' = FALSE
  /\ UNCHANGED <<running, total, done, cancel, full, files, ghosts, hrun,
                 worker>>

(* POST /api/audit/resume.                                                  *)

Resume(q) ==
  /\ hpc[q] = "idle"
  /\ SetUnpaused
  /\ UNCHANGED <<running, total, done, cancel, full, files, ghosts, hpc, hrun,
                 wpc, cur, audits>>

-----------------------------------------------------------------------------
(* The worker thread, _run_audit_thread.                                    *)

\* The input resolves to some URLs; the total is updated.
FetchUrls(r) ==
  /\ Move(r, "fetch", "site")
  /\ \E n \in 1..Limit : n <= Cardinality(Urls) /\ total' = n
  /\ UNCHANGED <<running, done, cancel, unpaused, full, files, ghosts,
                 hpc, hrun, cur, audits, fut>>

\* The site-wide checks of Search Console are done, and every URL is submitted
\* to the pool.
SubmitUrls(r) ==
  /\ Move(r, "site", "pool")
  /\ \E urls \in SUBSET Urls :
       /\ Cardinality(urls) = total
       /\ fut' = [fut EXCEPT ![r] =
                    [u \in Urls |-> IF u \in urls THEN "queued" ELSE "absent"]]
  /\ UNCHANGED <<shared, files, ghosts, hpc, hrun, cur, audits>>

\* A refused upload path or an input without URLs: an error message, and no
\* metric.
FetchNothing(r) ==
  /\ Move(r, "fetch", "finally")
  /\ announced' = [announced EXCEPT ![r] = @ \cup {"error"}]
  /\ UNCHANGED <<shared, files, begun, late, recorded, hpc, hrun,
                 cur, audits, fut>>

\* Mutant of WorkerRaises: the thread dies without its finally clause.
WorkerDies(r) ==
  /\ wpc[r] \in {"fetch", "site", "html"}
  /\ wpc' = [wpc EXCEPT ![r] = "ended"]
  /\ announced' = [announced EXCEPT ![r] = @ \cup {"error"}]
  /\ recorded' = [recorded EXCEPT ![r] = @ \cup {"error"}]
  /\ UNCHANGED <<shared, files, begun, late, hpc, hrun, cur, audits, fut>>

\* Fetching the URLs, asking Search Console about the site, or writing the
\* HTML report raised.
WorkerRaises(r) ==
  /\ wpc[r] \in {"fetch", "site", "html"}
  /\ wpc' = [wpc EXCEPT ![r] = "finally"]
  /\ announced' = [announced EXCEPT ![r] = @ \cup {"error"}]
  /\ recorded' = [recorded EXCEPT ![r] = @ \cup {"error"}]
  /\ UNCHANGED <<shared, files, begun, late, hpc, hrun, cur, audits, fut>>

\* A task that produced nothing is skipped, a result is added to the worker's
\* list.  Also the mutant of TakeFuture that does not look at the cancel flag.
Take(r, u) ==
  /\ wpc[r] = "pool"
  /\ fut[r][u] \in {"result", "nothing"}
  /\ fut' = [fut EXCEPT ![r][u] = "taken"]
  /\ IF fut[r][u] = "result"
       THEN /\ wpc' = [wpc EXCEPT ![r] = "append"]
            /\ cur' = [cur EXCEPT ![r] = u]
            /\ audits' = [audits EXCEPT ![r] = @ \cup {u}]
       ELSE UNCHANGED <<wpc, cur, audits>>
  /\ UNCHANGED <<shared, files, ghosts, hpc, hrun>>

\* as_completed yields a finished future and the cancel flag is clear.
TakeFuture(r, u) ==
  /\ ~cancel
  /\ Take(r, u)

\* as_completed yields a finished future and the cancel flag is set: queued
\* tasks are cancelled and the loop is left; the future's result is dropped.
StopTaking(r, u) ==
  /\ Move(r, "pool", "drain")
  /\ cancel
  /\ fut[r][u] \in {"result", "nothing"}
  /\ fut' = [fut EXCEPT ![r] =
               [v \in Urls |-> IF @[v] = "queued" THEN "cancelled" ELSE @[v]]]
  /\ UNCHANGED <<shared, files, ghosts, hpc, hrun, cur, audits>>

\* The two buffers, in one section under _lock.
BufferResult(r) ==
  /\ Move(r, "append", "progress")
  /\ full' = Buffered(r, cur[r])
  /\ late' = IF cancel THEN late + 1 ELSE late
  /\ UNCHANGED <<running, total, done, cancel, unpaused, files, begun,
                 announced, recorded, hpc, hrun, cur, audits, fut>>

\* The progress message, then the counter under _lock.
CountResult(r) ==
  /\ Move(r, "progress", "pool")
  /\ done' = Cardinality(audits[r])
  /\ cur' = [cur EXCEPT ![r] = "none"]
  /\ UNCHANGED <<running, total, cancel, unpaused, full, files, ghosts,
                 hpc, hrun, audits, fut>>

\* Mutant of LeavePool: the executor is left as soon as no task is running.
LeavePoolEarly(r) ==
  /\ wpc[r] \in {"pool", "drain"}
  /\ \A u \in Urls : fut[r][u] \notin Busy
  /\ wpc' = [wpc EXCEPT ![r] = "html"]
  /\ UNCHANGED <<shared, files, ghosts, hpc, hrun, cur, audits, fut>>

\* Leaving the executor's block: every future was taken, or, after a cancel,
\* the tasks that had started have returned.
LeavePool(r) ==
  /\ \/ /\ wpc[r] = "pool"
        /\ \A u \in Urls : fut[r][u] \in {"taken", "absent"}
     \/ /\ wpc[r] = "drain"
        /\ \A u \in Urls : fut[r][u] \notin Busy
  /\ wpc' = [wpc EXCEPT ![r] = "html"]
  /\ UNCHANGED <<shared, files, ghosts, hpc, hrun, cur, audits, fut>>

WriteReport(r, kind) == reports' = [reports EXCEPT ![r] = @ \cup {kind}]

WriteHtml(r) ==
  /\ Move(r, "html", "xlsx")
  /\ WriteReport(r, "html")
  /\ UNCHANGED <<shared, partialReport, ghosts, hpc, hrun, cur, audits, fut>>

\* Failing to write the workbook or the sidecar is not fatal.
WriteXlsx(r) ==
  /\ Move(r, "xlsx", "json")
  /\ WriteReport(r, "xlsx") \/ UNCHANGED reports
  /\ UNCHANGED <<shared, partialReport, ghosts, hpc, hrun, cur, audits, fut>>

WriteSidecar(r) ==
  /\ Move(r, "json", "announce")
  /\ WriteReport(r, "json") \/ UNCHANGED reports
  /\ UNCHANGED <<shared, partialReport, ghosts, hpc, hrun, cur, audits, fut>>

\* Broadcast "done" and count the run as completed, cancelled or not.
AnnounceDone(r) ==
  /\ Move(r, "announce", "finally")
  /\ announced' = [announced EXCEPT ![r] = @ \cup {"done"}]
  /\ recorded' = [recorded EXCEPT ![r] = @ \cup {"completed"}]
  /\ UNCHANGED <<shared, files, begun, late, hpc, hrun, cur, audits, fut>>

\* The finally clause; the thread's locals go with it.
Finally(r) ==
  /\ Move(r, "finally", "ended")
  /\ running' = FALSE
  /\ cur' = [cur EXCEPT ![r] = "none"]
  /\ audits' = [audits EXCEPT ![r] = {}]
  /\ fut' = [fut EXCEPT ![r] = NoFutures]
  /\ UNCHANGED <<total, done, cancel, unpaused, full, files, ghosts,
                 hpc, hrun>>

-----------------------------------------------------------------------------
(* A pool thread executing _audit_one for one URL.                          *)

InPool(r) == {u \in Urls : fut[r][u] \in Busy}

SetTask(r, u, s) ==
  /\ fut' = [fut EXCEPT ![r][u] = s]
  /\ UNCHANGED <<shared, files, ghosts, hpc, hrun, wpc, cur, audits>>

\* A free pool thread picks the task up and looks at the cancel flag.
TaskStart(r, u) ==
  /\ fut[r][u] = "queued"
  /\ Cardinality(InPool(r)) < PoolSize
  /\ SetTask(r, u, IF cancel THEN "nothing" ELSE "checked")

\* _audit_paused.wait().
TaskWait(r, u) ==
  /\ fut[r][u] = "checked"
  /\ SetTask(r, u, IF unpaused THEN "cleared" ELSE "waiting")

\* The second look at the cancel flag.
TaskRecheck(r, u) ==
  /\ fut[r][u] = "cleared"
  /\ SetTask(r, u, IF cancel THEN "nothing" ELSE "auditing")

\* audit_single_url returns a result, or raises.
TaskReturn(r, u) ==
  /\ fut[r][u] = "auditing"
  /\ \E s \in {"result", "nothing"} : SetTask(r, u, s)

-----------------------------------------------------------------------------
\* The process is killed and started again: memory is lost, files are not.
Restart ==
  /\ running' = FALSE /\ total' = 0 /\ done' = 0
  /\ cancel' = FALSE /\ unpaused' = TRUE
  /\ full' = {} /\ late' = 0
  /\ hpc' = [q \in Requests |-> "idle"]
  /\ hrun' = [q \in Requests |-> 0]
  /\ wpc' = [r \in Runs |-> IF wpc[r] \in Active THEN "lost" ELSE wpc[r]]
  /\ cur' = [r \in Runs |-> "none"]
  /\ audits' = [r \in Runs |-> {}]
  /\ fut' = [r \in Runs |-> NoFutures]
  /\ UNCHANGED <<files, begun, announced, recorded>>

-----------------------------------------------------------------------------
\* Steps a request thread takes once it has begun to serve a request.
HandlerStep(q) ==
  \/ RunClaim(q) \/ RunRefused(q) \/ RunUnpause(q) \/ RunSpawn(q)
  \/ RunLoadFails(q)
  \/ CancelUnpause(q) \/ CancelSave(q) \/ CancelAnnounce(q)
  \/ PauseClear(q)

\* Requests arriving.
UserStep(q) == RunCheck(q) \/ CancelSet(q) \/ PauseCheck(q) \/ Resume(q)

WorkerStep(r) ==
  \/ FetchUrls(r) \/ FetchNothing(r) \/ SubmitUrls(r) \/ WorkerRaises(r)
  \/ \E u \in Urls : TakeFuture(r, u) \/ StopTaking(r, u)
  \/ BufferResult(r) \/ CountResult(r) \/ LeavePool(r)
  \/ WriteHtml(r) \/ WriteXlsx(r) \/ WriteSidecar(r)
  \/ AnnounceDone(r) \/ Finally(r)

TaskStep(r, u) ==
  TaskStart(r, u) \/ TaskWait(r, u) \/ TaskRecheck(r, u) \/ TaskReturn(r, u)

Next ==
  \/ \E q \in Requests : HandlerStep(q) \/ UserStep(q)
  \/ \E r \in Runs : WorkerStep(r) \/ \E u \in Urls : TaskStep(r, u)
  \/ Restart

Spec == Init /\ [][Next]_vars

\* Every thread that can run is eventually scheduled, and URL fetches, audits
\* and file writes return: they carry network time-outs.  Nothing is assumed
\* of the users.
Fairness ==
  /\ \A q \in Requests : WF_vars(HandlerStep(q))
  /\ \A r \in Runs : WF_vars(WorkerStep(r))
  /\ \A r \in Runs, u \in Urls : WF_vars(TaskStep(r, u))

FairSpec == Spec /\ Fairness
-----------------------------------------------------------------------------
(* Safety.                                                                  *)

\* A request thread that has claimed the slot for a worker it has not yet
\* started.
Claiming(q) == hpc[q] \in {"runClaimed", "runLoading"}

(* At most one audit run at a time, however the requests interleave: the    *)
(* claims not yet turned into a worker and the workers alive are never two, *)
(* and the running flag is up as long as there is one.                      *)
OneRunAtATime ==
  /\ \A q1, q2 \in Requests : Claiming(q1) /\ Claiming(q2) => q1 = q2
  /\ \A r1, r2 \in Runs : wpc[r1] \in Active /\ wpc[r2] \in Active => r1 = r2
  /\ \A q \in Requests, r \in Runs : ~(Claiming(q) /\ wpc[r] \in Active)
  /\ (\E q \in Requests : Claiming(q)) \/ (\E r \in Runs : wpc[r] \in Active)
        => running

(* The slot is held on somebody's behalf.  While the flag is up, a request  *)
(* is about to start the worker of the latest run, or that worker is alive  *)
(* and will take the flag down; it cannot end with the flag up, whatever it *)
(* raises.  A flag nobody takes down is left only by a request whose        *)
(* load_config raised after its claim: no worker was started for it.        *)
SlotHeld ==
  running =>
    /\ begun \in Runs
    /\ \/ wpc[begun] \in Active
       \/ \E q \in Requests : Claiming(q) /\ hrun[q] = begun
       \/ ConfigMayFail /\ wpc[begun] = "none"

(* The live export and the partial report never offer a result of an        *)
(* earlier run: the buffers hold results of the latest run only.            *)
ResultsOfThisRun == \A e \in full : e[1] = begun

(* Audit threads see a cancellation within about one completed future: a    *)
(* run takes in at most one result after its cancel flag was set, the one   *)
(* it was already handling.                                                 *)
CancelWithinOne == late <= 1

(* The three places progress is counted agree at every step of the worker:  *)
(* the status dict, the worker's list, and the bounded buffers, which lack  *)
(* only what was dropped at the bound.                                      *)
CountersAgree ==
  \A r \in Runs :
    LET n       == Cardinality(audits[r])
        counted == IF wpc[r] \in {"append", "progress"} THEN n - 1 ELSE n
        offered == IF wpc[r] = "append" THEN n - 1 ELSE n
    IN  wpc[r] \in Active =>
          /\ done = counted /\ done <= total
          /\ Cardinality(full) = IF offered < MaxResults THEN offered
                                                       ELSE MaxResults

(* A report written for a run that nobody cancelled accounts for every URL  *)
(* of the run: no future is left unconsumed when the pool is abandoned.     *)
EveryUrlAccounted ==
  \A r \in Runs :
    wpc[r] \in {"html", "xlsx", "json", "announce"} /\ ~cancel =>
      \A u \in Urls : fut[r][u] \in {"taken", "absent"}

(* A worker never gives the slot back without having broadcast a terminal   *)
(* message: a stream opened before that does not wait for ever.             *)
EndAnnounced ==
  \A r \in Runs : wpc[r] \in {"finally", "ended"} => announced[r] # {}

(* The HTML report is the primary file: wherever the process is killed, no  *)
(* workbook or sidecar is on disk without it.                               *)
NoOrphanCompanion == \A r \in Runs : reports[r] # {} => "html" \in reports[r]

(* The run slot of the documentation is what the threads implement.  In     *)
(* particular a cancellation is not forgotten while the run it hit holds    *)
(* the slot.                                                                *)
Slot == INSTANCE RunSlot WITH
  Items    <- Urls,
  Grace    <- 1,
  active   <- IF running THEN begun ELSE 0,
  stopping <- cancel,
  grace    <- IF cancel /\ late = 0 THEN 1 ELSE 0,
  results  <- full

ImplementsRunSlot == Slot!Spec

-----------------------------------------------------------------------------
(* Strengthenings under which the properties above are inductive.           *)

\* Who owns the slot.
SlotInv ==
  /\ \A q \in Requests :
       Claiming(q) => /\ running /\ hrun[q] = begun /\ begun \in Runs
                      /\ wpc[begun] = "none"
  /\ \A q1, q2 \in Requests : Claiming(q1) /\ Claiming(q2) => q1 = q2
  /\ \A r \in Runs :
       wpc[r] \in Active => /\ r = begun /\ running
                           /\ \A q \in Requests : ~Claiming(q)
  /\ \A r \in Runs : r > begun => wpc[r] = "none"

\* What the worker is handling.
HandlingInv ==
  \A r \in Runs : wpc[r] \in {"append", "progress"} => cur[r] \in Urls

\* The loop over the futures is left early only for a cancellation, and a
\* result in hand was taken before any late one.
CancelInv ==
  /\ ~cancel => late = 0
  /\ \A r \in Runs : /\ wpc[r] = "drain" => cancel
                     /\ wpc[r] = "append" => late = 0

\* The URLs of a run that were given to the pool.
Submitted(r) == {u \in Urls : fut[r][u] # "absent"}

\* The results a worker has offered to the buffers.
Offered(r) ==
  IF wpc[r] = "append" THEN audits[r] \ {cur[r]} ELSE audits[r]

\* A result is in the worker's list once, when its future has been taken, and
\* in the buffers only after that.
CountOf(r) ==
  /\ \A u \in audits[r] : fut[r][u] = "taken"
  /\ wpc[r] \notin Active \/ wpc[r] \in {"fetch", "site"} => Submitted(r) = {}
  /\ wpc[r] \in {"append", "progress"} => cur[r] \in audits[r]
  /\ wpc[r] \in Active => /\ Cardinality(Submitted(r)) <= total
                         /\ full \subseteq {r} \X Offered(r)

\* The counters start from nothing.
CountInv ==
  /\ \A q \in Requests : Claiming(q) => done = 0 /\ full = {}
  /\ \A r \in Runs : CountOf(r)

\* After the HTML report its companions.
ReportInv ==
  \A r \in Runs :
    wpc[r] \in {"xlsx", "json", "announce"} => "html" \in reports[r]

-----------------------------------------------------------------------------
(* Liveness, under FairSpec.                                                *)

(* A run ends, unless somebody pauses it.                                   *)
RunEndsUnlessPaused == running ~> (~running \/ ~unpaused)

(* A cancelled run ends.                                                    *)
CancelledRunEnds == (running /\ cancel) ~> ~running
=============================================================================
