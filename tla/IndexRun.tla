------------------------------ MODULE IndexRun ------------------------------
(***************************************************************************)
(* The indexing subsystem: app/blueprints/indexing.py over the shared run  *)
(* state of app/state.py.                                                  *)
(*                                                                         *)
(* Request threads execute /api/index/run, retry, cancel, pause and        *)
(* resume.  A claim starts a worker thread, which hands its URLs to        *)
(* core/checker.py; the checker reports each status through the progress   *)
(* callback `cb', from one thread per browser tab.  Here a URL of a run is *)
(* the process that carries it through the checker and the callback.  How  *)
(* the checker arrives at a status is left out, and a status is one of the *)
(* two classes _is_error_status tells apart.                               *)
(***************************************************************************)
EXTENDS Integers, FiniteSets

CONSTANTS
  Urls,             \* the URLs an input can resolve to
  Limit,            \* the request's limit on the number of URLs
  Tabs,             \* parallel browser tabs (config.json, parallel_tabs)
  Requests,         \* request threads
  MaxRuns           \* bound of the model on the number of runs

ASSUME IndexAssumption ==
  /\ IsFiniteSet(Urls)
  /\ Limit \in Nat \ {0}
  /\ Tabs \in Nat \ {0}
  /\ MaxRuns \in Nat \ {0}

VARIABLES
  running,          \* _index_status["running"]
  total,            \* _index_status["total"]
  done,             \* _index_status["done"]
  cancel,           \* _index_cancel is set
  unpaused,         \* _index_paused is set: threads need not wait
  live,             \* _last_index_run
  begun,            \* number of runs that claimed the slot
  due,              \* results past their look at the cancel flag when it was
                    \* set, and not yet recorded
  asked,            \* cancel was requested while this run held the slot
  partial,          \* the contents of the last partial report
  hpc, picked,      \* control point of a request thread, its error_urls
  kind,             \* whether a run was started by "run" or by "retry"
  wpc,              \* control point of a run's worker thread
  target,           \* the URLs the worker hands to the checker
  results,          \* _run_results
  rows,             \* how many statuses the checker has reported
  task              \* state of each URL in the checker and the callback

flags   == <<running, total, done, cancel, unpaused>>
reports == <<live, partial>>
handler == <<hpc, picked>>
runVars == <<begun, due, asked, kind, wpc, target, results, rows>>
vars    == <<flags, reports, handler, runVars, task>>

Runs == 1..MaxRuns

HandlerPC == {"idle", "runChecked", "retryChecked", "retryPicked",
              "cancelSet", "cancelUnpaused", "pauseChecked"}

WorkerPC == {"none", "fetch", "reset", "clear", "unpause", "check", "replace",
             "announce", "finally", "ended", "lost"}

Active == WorkerPC \ {"none", "ended", "lost"}

\* The two classes of _is_error_status.
Status == {"verdict", "error"}

IsError(s) == s = "error"

\* A status map is a set of <<url, status>> pairs with one pair to a URL.
Entries == Urls \X Status

Put(m, u, s) == {e \in m : e[1] # u} \cup {<<u, s>>}
OneStatusEach(m) == \A e, f \in m : e[1] = f[1] => e = f

\* Stages of a URL: waiting for a tab; reported by the checker under a number
\* (that of its row); blocked while paused; past the pause; past the look at
\* the cancel flag; recorded; out of the callback.
Stage == {"queued", "reported", "waiting", "cleared", "accepted", "recorded",
          "out"}
Busy  == Stage \ {"queued", "out"}
NoTask == [stage |-> "out", num |-> 0, status |-> "error"]
Task   == [stage : Stage, num : Nat, status : Status]

Typed ==
  /\ running \in BOOLEAN /\ cancel \in BOOLEAN /\ unpaused \in BOOLEAN
  /\ asked \in BOOLEAN
  /\ total \in Nat /\ done \in Nat /\ due \in Int
  /\ live \subseteq Entries
  /\ partial \subseteq Entries
  /\ begun \in 0..MaxRuns
  /\ hpc \in [Requests -> HandlerPC]
  /\ picked \in [Requests -> SUBSET Urls]
  /\ kind \in [Runs -> {"run", "retry"}]
  /\ wpc \in [Runs -> WorkerPC]
  /\ target \in [Runs -> SUBSET Urls]
  /\ results \in [Runs -> SUBSET Entries]
  /\ rows \in [Runs -> Nat]
  /\ task \in [Runs -> [Urls -> Task]]

TypeOK == Typed /\ OneStatusEach(live)

Init ==
  /\ running = FALSE /\ total = 0 /\ done = 0
  /\ cancel = FALSE /\ unpaused = TRUE
  /\ live = {} /\ partial = {}
  /\ begun = 0 /\ due = 0 /\ asked = FALSE
  /\ hpc = [q \in Requests |-> "idle"]
  /\ picked = [q \in Requests |-> {}]
  /\ kind = [r \in Runs |-> "run"]
  /\ wpc = [r \in Runs |-> "none"]
  /\ target = [r \in Runs |-> {}]
  /\ results = [r \in Runs |-> {}]
  /\ rows = [r \in Runs |-> 0]
  /\ task = [r \in Runs |-> [u \in Urls |-> NoTask]]

-----------------------------------------------------------------------------
Goto(q, from, to) ==
  /\ hpc[q] = from
  /\ hpc' = [hpc EXCEPT ![q] = to]

Move(r, from, to) ==
  /\ wpc[r] = from
  /\ wpc' = [wpc EXCEPT ![r] = to]

\* Event.set wakes every waiting thread for good, also when the event is
\* cleared again before the thread runs.
SetUnpaused ==
  /\ unpaused' = TRUE
  /\ task' = [r \in Runs |-> [u \in Urls |->
       IF task[r][u].stage = "waiting"
         THEN [task[r][u] EXCEPT !.stage = "cleared"] ELSE task[r][u]]]

\* The effect of a claim, and the start of the worker thread.  Also the mutant
\* of Claim in which the early check is trusted.
Occupy(k, n, urls) ==
  /\ begun < MaxRuns
  /\ running' = TRUE /\ total' = n /\ done' = 0
  /\ begun' = begun + 1 /\ asked' = FALSE
  /\ kind' = [kind EXCEPT ![begun + 1] = k]
  /\ target' = [target EXCEPT ![begun + 1] = urls]
  /\ wpc' = [wpc EXCEPT ![begun + 1] = IF k = "run" THEN "fetch" ELSE "check"]
  /\ task' = [task EXCEPT ![begun + 1] =
       [u \in Urls |-> IF u \in urls THEN [NoTask EXCEPT !.stage = "queued"]
                                     ELSE NoTask]]

\* The check and the claim in one section under _lock.  Neither the cancel flag
\* nor a pause is touched here.
Claim(k, n, urls) ==
  /\ ~running
  /\ Occupy(k, n, urls)

-----------------------------------------------------------------------------
(* POST /api/index/run.                                                     *)

RunCheck(q) ==
  /\ ~running
  /\ Goto(q, "idle", "runChecked")
  /\ UNCHANGED <<flags, reports, picked, runVars, task>>

RunClaim(q) ==
  /\ Goto(q, "runChecked", "idle")
  /\ Claim("run", Limit, {})
  /\ UNCHANGED <<cancel, unpaused, reports, picked, due, results, rows>>

RunRefused(q) ==
  /\ running
  /\ Goto(q, "runChecked", "idle")
  /\ UNCHANGED <<flags, reports, picked, runVars, task>>

(* POST /api/index/retry.                                                   *)

RetryCheck(q) ==
  /\ ~running
  /\ Goto(q, "idle", "retryChecked")
  /\ UNCHANGED <<flags, reports, picked, runVars, task>>

\* A snapshot of the failed URLs, in a section of its own; 400 if there are
\* none.
RetryPick(q) ==
  /\ LET failed == {e[1] : e \in {e \in live : IsError(e[2])}}
     IN  /\ Goto(q, "retryChecked",
                IF failed = {} THEN "idle" ELSE "retryPicked")
         /\ picked' = [picked EXCEPT ![q] = failed]
  /\ UNCHANGED <<flags, reports, runVars, task>>

RetryClaim(q) ==
  /\ Goto(q, "retryPicked", "idle")
  /\ Claim("retry", Cardinality(picked[q]), picked[q])
  /\ picked' = [picked EXCEPT ![q] = {}]
  /\ UNCHANGED <<cancel, unpaused, reports, due, results, rows>>

\* 400: another request got there first, or the body is not JSON.
RetryRefused(q) ==
  /\ Goto(q, "retryPicked", "idle")
  /\ picked' = [picked EXCEPT ![q] = {}]
  /\ UNCHANGED <<flags, reports, runVars, task>>

(* POST /api/index/cancel, pause and resume.                                *)

\* The callbacks of a run that have looked at the flag and not yet recorded.
Committed ==
  {x \in Runs \X Urls :
     kind[x[1]] = "run" /\ task[x[1]][x[2]].stage = "accepted"}

CancelSet(q) ==
  /\ Goto(q, "idle", "cancelSet")
  /\ cancel' = TRUE
  /\ asked' = (asked \/ running)
  /\ due' = IF cancel THEN due ELSE Cardinality(Committed)
  /\ UNCHANGED <<running, total, done, unpaused, reports, picked, begun, kind,
                 wpc, target, results, rows, task>>

CancelUnpause(q) ==
  /\ Goto(q, "cancelSet", "cancelUnpaused")
  /\ SetUnpaused
  /\ UNCHANGED <<running, total, done, cancel, reports, picked, runVars>>

\* _save_partial_index_report: nothing is written without data, and failing to
\* write is not fatal.  Then the streams are told.
CancelSave(q) ==
  /\ Goto(q, "cancelUnpaused", "idle")
  /\ \/ live # {} /\ partial' = live
     \/ UNCHANGED partial
  /\ UNCHANGED <<flags, live, picked, runVars, task>>

PauseCheck(q) ==
  /\ running
  /\ Goto(q, "idle", "pauseChecked")
  /\ UNCHANGED <<flags, reports, picked, runVars, task>>

PauseClear(q) ==
  /\ Goto(q, "pauseChecked", "idle")
  /\ unpaused' = FALSE
  /\ UNCHANGED <<running, total, done, cancel, reports, picked, runVars, task>>

Resume(q) ==
  /\ hpc[q] = "idle"
  /\ SetUnpaused
  /\ UNCHANGED <<running, total, done, cancel, reports, handler, runVars>>

-----------------------------------------------------------------------------
(* The worker thread: the two functions named run.                          *)

\* The input resolves to some URLs, and the total is updated.
FetchUrls(r) ==
  /\ Move(r, "fetch", "reset")
  /\ \E urls \in SUBSET Urls :
       /\ Cardinality(urls) \in 1..Limit
       /\ total' = Cardinality(urls)
       /\ target' = [target EXCEPT ![r] = urls]
  /\ UNCHANGED <<running, done, cancel, unpaused, reports, handler, begun, due,
                 asked, kind, results, rows, task>>

\* A refused upload, no URLs, or an exception: an error message.
FetchFails(r) ==
  /\ Move(r, "fetch", "finally")
  /\ UNCHANGED <<flags, reports, handler, begun, due, asked, kind, target,
                 results, rows, task>>

\* Mutant of ResetLive: the map of the previous run is left in place.
ResetNothing(r) ==
  /\ Move(r, "reset", "clear")
  /\ UNCHANGED <<flags, reports, handler, begun, due, asked, kind, target,
                 results, rows, task>>

\* _reset_last_index_run.
ResetLive(r) ==
  /\ Move(r, "reset", "clear")
  /\ live' = {}
  /\ UNCHANGED <<flags, partial, handler, begun, due, asked, kind, target,
                 results, rows, task>>

\* _index_cancel.clear.
ClearCancel(r) ==
  /\ Move(r, "clear", "unpause")
  /\ cancel' = FALSE /\ due' = 0
  /\ UNCHANGED <<running, total, done, unpaused, reports, handler, begun, asked,
                 kind, target, results, rows, task>>

\* _index_paused.set; the URLs are handed to the checker.
StartCheck(r) ==
  /\ Move(r, "unpause", "check")
  /\ unpaused' = TRUE
  /\ task' = [s \in Runs |->
       IF s = r THEN [u \in Urls |-> IF u \in target[r]
                        THEN [NoTask EXCEPT !.stage = "queued"] ELSE NoTask]
       ELSE [u \in Urls |-> IF task[s][u].stage = "waiting"
               THEN [task[s][u] EXCEPT !.stage = "cleared"] ELSE task[s][u]]]
  /\ UNCHANGED <<running, total, done, cancel, reports, handler, begun, due,
                 asked, kind, target, results, rows>>

\* The checker has gone through its URLs and written its report.
CheckReturns(r) ==
  /\ \A u \in Urls : task[r][u].stage = "out"
  /\ Move(r, "check", "replace")
  /\ UNCHANGED <<flags, reports, handler, begun, due, asked, kind, target,
                 results, rows, task>>

\* The checker raised, before the first URL, between two, or in writing its
\* report; no callback is under way.
CheckRaises(r) ==
  /\ \A u \in Urls : task[r][u].stage \notin Busy
  /\ Move(r, "check", "finally")
  /\ task' = [task EXCEPT ![r] = [u \in Urls |-> NoTask]]
  /\ UNCHANGED <<flags, reports, handler, begun, due, asked, kind, target,
                 results, rows>>

\* Mutant of Merged: a retry replaces the map like a run.
MergedAway(r) == results[r]

\* What the map holds once the worker is through: a run replaces it, a retry
\* replaces the entries of the URLs it retried.
Merged(r) ==
  IF kind[r] = "run"
    THEN results[r]
    ELSE {e \in live : e[1] \notin target[r]} \cup results[r]

ReplaceLive(r) ==
  /\ Move(r, "replace", "announce")
  /\ live' = Merged(r)
  /\ UNCHANGED <<flags, partial, handler, begun, due, asked, kind, target,
                 results, rows, task>>

\* Broadcast "done".
AnnounceDone(r) ==
  /\ Move(r, "announce", "finally")
  /\ UNCHANGED <<flags, reports, handler, begun, due, asked, kind, target,
                 results, rows, task>>

\* Mutant of Finally: an early return leaves the flag up.
FinallyForgets(r) ==
  /\ Move(r, "finally", "ended")
  /\ results' = [results EXCEPT ![r] = {}]
  /\ rows' = [rows EXCEPT ![r] = 0]
  /\ target' = [target EXCEPT ![r] = {}]
  /\ UNCHANGED <<flags, reports, handler, begun, due, asked, kind, task>>

\* The flag is taken down; the thread's locals go with it.
Finally(r) ==
  /\ Move(r, "finally", "ended")
  /\ running' = FALSE
  /\ results' = [results EXCEPT ![r] = {}]
  /\ rows' = [rows EXCEPT ![r] = 0]
  /\ target' = [target EXCEPT ![r] = {}]
  /\ UNCHANGED <<total, done, cancel, unpaused, reports, handler, begun, due,
                 asked, kind, task>>

-----------------------------------------------------------------------------
(* One URL in the checker (on_result) and in the callback (cb).             *)

At(r, u, stage) == task[r][u].stage = stage

Stay == UNCHANGED <<flags, reports, handler, begun, due, asked, kind, wpc,
                    target, results, rows>>

\* A tab has found the status and taken the next row number.
Report(r, u) ==
  /\ wpc[r] = "check"
  /\ At(r, u, "queued")
  /\ Cardinality({v \in Urls : task[r][v].stage \in Busy}) < Tabs
  /\ \E s \in Status :
       task' = [task EXCEPT ![r][u] =
         [num |-> rows[r] + 1, status |-> s,
          stage |-> IF kind[r] = "run" THEN "reported" ELSE "accepted"]]
  /\ rows' = [rows EXCEPT ![r] = @ + 1]
  /\ UNCHANGED <<flags, reports, handler, begun, due, asked, kind, wpc, target,
                 results>>

\* Never reported: its status was known from an interrupted run, or the tab it
\* was assigned to did not start.
Skip(r, u) ==
  /\ wpc[r] = "check"
  /\ At(r, u, "queued")
  /\ task' = [task EXCEPT ![r][u] = NoTask]
  /\ Stay

\* _index_paused.wait.
WaitUnpaused(r, u) ==
  /\ At(r, u, "reported")
  /\ task' = [task EXCEPT ![r][u].stage =
                IF unpaused THEN "cleared" ELSE "waiting"]
  /\ Stay

\* Mutant of LookAtCancel: the flag is not looked at.
AcceptAnyway(r, u) ==
  /\ At(r, u, "cleared")
  /\ task' = [task EXCEPT ![r][u].stage = "accepted"]
  /\ Stay

LookAtCancel(r, u) ==
  /\ At(r, u, "cleared")
  /\ task' = [task EXCEPT ![r][u] =
                IF cancel THEN NoTask ELSE [@ EXCEPT !.stage = "accepted"]]
  /\ Stay

\* Into _run_results and, under _lock, into the live map.
Record(r, u) ==
  /\ At(r, u, "accepted")
  /\ task' = [task EXCEPT ![r][u].stage = "recorded"]
  /\ results' = [results EXCEPT ![r] = Put(@, u, task[r][u].status)]
  /\ live' = Put(live, u, task[r][u].status)
  /\ due' = IF cancel /\ kind[r] = "run" THEN due - 1 ELSE due
  /\ UNCHANGED <<flags, partial, handler, begun, asked, kind, wpc, target,
                 rows>>

\* The progress message, then the counter: the number is the callback's own,
\* so the last thread to get here decides.
Count(r, u) ==
  /\ At(r, u, "recorded")
  /\ done' = task[r][u].num
  /\ task' = [task EXCEPT ![r][u] = NoTask]
  /\ UNCHANGED <<running, total, cancel, unpaused, reports, handler, runVars>>

-----------------------------------------------------------------------------
\* The process is killed and started again: only reports are left.
Restart ==
  /\ running' = FALSE /\ total' = 0 /\ done' = 0
  /\ cancel' = FALSE /\ unpaused' = TRUE
  /\ live' = {} /\ due' = 0 /\ asked' = FALSE
  /\ hpc' = [q \in Requests |-> "idle"]
  /\ picked' = [q \in Requests |-> {}]
  /\ wpc' = [r \in Runs |-> IF wpc[r] \in Active THEN "lost" ELSE wpc[r]]
  /\ target' = [r \in Runs |-> {}]
  /\ results' = [r \in Runs |-> {}]
  /\ rows' = [r \in Runs |-> 0]
  /\ task' = [r \in Runs |-> [u \in Urls |-> NoTask]]
  /\ UNCHANGED <<partial, begun, kind>>

-----------------------------------------------------------------------------
HandlerStep(q) ==
  \/ RunClaim(q) \/ RunRefused(q)
  \/ RetryPick(q) \/ RetryClaim(q) \/ RetryRefused(q)
  \/ CancelUnpause(q) \/ CancelSave(q) \/ PauseClear(q)

UserStep(q) ==
  RunCheck(q) \/ RetryCheck(q) \/ CancelSet(q) \/ PauseCheck(q) \/ Resume(q)

WorkerStep(r) ==
  \/ FetchUrls(r) \/ FetchFails(r) \/ ResetLive(r) \/ ClearCancel(r)
  \/ StartCheck(r) \/ CheckReturns(r) \/ CheckRaises(r) \/ ReplaceLive(r)
  \/ AnnounceDone(r) \/ Finally(r)

TaskStep(r, u) ==
  \/ Report(r, u) \/ Skip(r, u) \/ WaitUnpaused(r, u) \/ LookAtCancel(r, u)
  \/ Record(r, u) \/ Count(r, u)

Next ==
  \/ \E q \in Requests : HandlerStep(q) \/ UserStep(q)
  \/ \E r \in Runs : WorkerStep(r) \/ \E u \in Urls : TaskStep(r, u)
  \/ Restart

Spec == Init /\ [][Next]_vars

\* Threads that can run are scheduled, and a check of a URL returns: page loads
\* and API calls carry time-outs.
Fairness ==
  /\ \A q \in Requests : WF_vars(HandlerStep(q))
  /\ \A r \in Runs : WF_vars(WorkerStep(r))
  /\ \A r \in Runs, u \in Urls : WF_vars(TaskStep(r, u))
-----------------------------------------------------------------------------
(* At most one indexing run at a time, run and retry taken together, and    *)
(* the flag is up exactly as long as there is one: nothing that can fail    *)
(* lies between a claim and the start of its worker, so that they are one   *)
(* step here, and a worker takes the flag down whatever it raises.          *)
OneIndexRun ==
  /\ \A r1, r2 \in Runs : wpc[r1] \in Active /\ wpc[r2] \in Active => r1 = r2
  /\ running <=> \E r \in Runs : wpc[r] \in Active

(* The map behind /errors, /partial and retry mirrors the results of the    *)
(* run in progress, whatever the callbacks' threads do: from its reset on   *)
(* it holds what a run recorded and nothing else; of a retried URL it never *)
(* holds an outcome the retry did not find, once the retry is through.      *)
LiveMirrorsRun ==
  \A r \in Runs :
    /\ kind[r] = "run" /\ wpc[r] \in {"clear", "unpause", "check", "replace",
                                      "announce"} => live = results[r]
    /\ kind[r] = "retry" /\ wpc[r] = "announce" =>
         {e \in live : e[1] \in target[r]} = results[r]

(* A retry leaves the statuses of the URLs it does not retry alone.         *)
RetryKeepsOthers ==
  [][\A r \in Runs :
       kind[r] = "retry" /\ wpc[r] \in Active /\ wpc'[r] # "lost" =>
         {e \in live' : e[1] \notin target[r]}
           = {e \in live : e[1] \notin target[r]}]_vars

(* Once the cancel flag is set nothing more is recorded but by callbacks    *)
(* that had looked at it before, of which there is one to a tab at most.    *)
CancelWithinTabs == due \in 0..Tabs

(* The run slot is what these threads implement, too, but for two things    *)
(* that are not promised here.  A request to stop counts from the moment    *)
(* the worker has cleared the cancel flag: one made earlier is forgotten.   *)
(* And it counts for a run only: a retry does not look at the flag.  Whose  *)
(* results the live map holds is the subject of LiveMirrorsRun.             *)
Heeds(r) == kind[r] = "run" /\ wpc[r] \notin {"fetch", "reset", "clear"}

Slot == INSTANCE RunSlot WITH
  Items    <- Urls,
  Grace    <- Tabs,
  active   <- IF running THEN begun ELSE 0,
  stopping <- cancel /\ begun # 0 /\ Heeds(begun),
  grace    <- IF cancel /\ begun # 0 /\ Heeds(begun) THEN due ELSE 0,
  results  <- {}

ImplementsRunSlot == Slot!Spec

(* A run takes the slot for a bounded time: it ends unless somebody pauses  *)
(* it, also when a callback blocks while the others go on.                  *)
RunEndsUnlessPaused == running ~> (~running \/ ~unpaused)

=============================================================================
