--------------------------- MODULE IndexRunProofs ---------------------------
(***************************************************************************)
(* Proofs about IndexRun, for any set of URLs, any limit, any number of    *)
(* tabs, requests and runs.                                                *)
(***************************************************************************)
EXTENDS IndexRun, FiniteSetTheorems, TLAPS

-----------------------------------------------------------------------------
(* Facts about the operators the actions are built from.                    *)

\* A set of URLs can be counted.
LEMMA UrlsCountable ==
  ASSUME NEW S \in SUBSET Urls
  PROVE  IsFiniteSet(S) /\ Cardinality(S) \in Nat
  BY IndexAssumption, FS_Subset, FS_CardinalityType

LEMMA CommittedCountable ==
  IsFiniteSet(Committed) /\ Cardinality(Committed) \in Nat
<1>1. IsFiniteSet(Runs)
  BY IndexAssumption, FS_Interval DEF Runs
<1>2. IsFiniteSet(Runs \X Urls)
  BY <1>1, IndexAssumption, FS_Product
<1>3. Committed \in SUBSET (Runs \X Urls)
  BY DEF Committed
<1>4. QED
  BY <1>2, <1>3, FS_Subset, FS_CardinalityType

\* A task whose stage is changed is a task.
LEMMA StageType ==
  ASSUME NEW t \in Task, NEW s \in Stage
  PROVE  /\ [t EXCEPT !.stage = s] \in Task
         /\ [t EXCEPT !.stage = s].stage = s
         /\ [t EXCEPT !.stage = s].num = t.num
         /\ [t EXCEPT !.stage = s].status = t.status
  BY DEF Task

\* Waking the waiting callbacks.
LEMMA WokenType ==
  ASSUME Typed, SetUnpaused
  PROVE  /\ unpaused' \in BOOLEAN
         /\ task' \in [Runs -> [Urls -> Task]]
         /\ \A r \in Runs, u \in Urls :
              /\ task'[r][u].num = task[r][u].num
              /\ task'[r][u].status = task[r][u].status
              /\ task'[r][u].stage = IF task[r][u].stage = "waiting"
                                       THEN "cleared" ELSE task[r][u].stage
<1>1. \A r \in Runs, u \in Urls : task[r][u] \in Task
  BY DEF Typed
<1>2. "cleared" \in Stage
  BY DEF Stage
<1>3. \A r \in Runs, u \in Urls :
        task'[r][u] = IF task[r][u].stage = "waiting"
                        THEN [task[r][u] EXCEPT !.stage = "cleared"]
                        ELSE task[r][u]
  BY DEF SetUnpaused
<1>4. task' \in [Runs -> [Urls -> Task]]
  BY <1>1, <1>2, StageType DEF SetUnpaused
<1>5. QED
  BY <1>1, <1>2, <1>3, <1>4, StageType DEF SetUnpaused

\* Fresh tasks.
LEMMA FreshType ==
  /\ NoTask \in Task /\ NoTask.stage = "out"
  /\ [NoTask EXCEPT !.stage = "queued"] \in Task
  /\ [NoTask EXCEPT !.stage = "queued"].stage = "queued"
<1>1. NoTask \in Task /\ NoTask.stage = "out"
  BY DEF NoTask, Task, Stage, Status
<1>2. "queued" \in Stage
  BY DEF Stage
<1>3. QED
  BY <1>1, <1>2, StageType

-----------------------------------------------------------------------------
(* Types.                                                                   *)

\* A claim leaves everything of its type.
LEMMA ClaimType ==
  ASSUME Typed, NEW k \in {"run", "retry"}, NEW n \in Nat,
         NEW us \in SUBSET Urls, Claim(k, n, us)
  PROVE  /\ running' \in BOOLEAN /\ asked' \in BOOLEAN
         /\ total' \in Nat /\ done' \in Nat
         /\ begun' \in 0..MaxRuns /\ begun' \in Runs
         /\ kind' \in [Runs -> {"run", "retry"}]
         /\ wpc' \in [Runs -> WorkerPC]
         /\ target' \in [Runs -> SUBSET Urls]
         /\ task' \in [Runs -> [Urls -> Task]]
<1>1. begun + 1 \in 0..MaxRuns /\ begun + 1 \in Runs
  BY IndexAssumption DEF Claim, Occupy, Typed, Runs
<1>2. [u \in Urls |-> IF u \in us THEN [NoTask EXCEPT !.stage = "queued"]
                                  ELSE NoTask] \in [Urls -> Task]
  BY FreshType
<1>3. (IF k = "run" THEN "fetch" ELSE "check") \in WorkerPC
  BY DEF WorkerPC
<1>4. QED
  BY <1>1, <1>2, <1>3 DEF Claim, Occupy, Typed

LEMMA TypedStep ==
  ASSUME Typed, [Next]_vars
  PROVE  Typed'
<1> USE IndexAssumption DEF flags, reports, handler, runVars
<1>1. ASSUME NEW q \in Requests, HandlerStep(q) \/ UserStep(q)
      PROVE  Typed'
  <2>1. CASE RunCheck(q) \/ RunRefused(q) \/ RetryCheck(q) \/ PauseCheck(q)
    BY <2>1 DEF Typed, RunCheck, RunRefused, RetryCheck, PauseCheck, Goto,
                HandlerPC
  <2>2. CASE RunClaim(q)
    <3>1. Limit \in Nat
      OBVIOUS
    <3>2. {} \in SUBSET Urls
      OBVIOUS
    <3>3. Claim("run", Limit, {})
      BY <2>2 DEF RunClaim
    <3>4. hpc' \in [Requests -> HandlerPC]
      BY <2>2 DEF RunClaim, Goto, Typed, HandlerPC
    <3>5. QED
      BY <2>2, <3>1, <3>2, <3>3, <3>4, ClaimType DEF RunClaim, Typed
  <2>3. CASE RetryPick(q)
    <3>1. {e[1] : e \in {e \in live : IsError(e[2])}} \in SUBSET Urls
      BY DEF Typed, Entries
    <3>2. picked' \in [Requests -> SUBSET Urls]
      BY <2>3, <3>1 DEF RetryPick, Typed
    <3>3. hpc' \in [Requests -> HandlerPC]
      BY <2>3 DEF RetryPick, Goto, Typed, HandlerPC
    <3>4. QED
      BY <2>3, <3>2, <3>3 DEF RetryPick, Typed
  <2>4. CASE RetryClaim(q)
    <3>1. picked[q] \in SUBSET Urls
      BY DEF Typed
    <3>2. Cardinality(picked[q]) \in Nat
      BY <3>1, UrlsCountable
    <3>3. Claim("retry", Cardinality(picked[q]), picked[q])
      BY <2>4 DEF RetryClaim
    <3>4. /\ hpc' \in [Requests -> HandlerPC]
          /\ picked' \in [Requests -> SUBSET Urls]
      BY <2>4 DEF RetryClaim, Goto, Typed, HandlerPC
    <3>5. QED
      BY <2>4, <3>1, <3>2, <3>3, <3>4, ClaimType DEF RetryClaim, Typed
  <2>5. CASE RetryRefused(q)
    BY <2>5 DEF Typed, RetryRefused, Goto, HandlerPC
  <2>6. CASE CancelSet(q)
    <3>1. due' \in Int
      BY <2>6, CommittedCountable DEF CancelSet, Typed
    <3>2. QED
      BY <2>6, <3>1 DEF Typed, CancelSet, Goto, HandlerPC
  <2>7. CASE CancelUnpause(q)
    BY <2>7, WokenType DEF Typed, CancelUnpause, Goto, HandlerPC
  <2>8. CASE CancelSave(q)
    BY <2>8 DEF Typed, CancelSave, Goto, HandlerPC
  <2>9. CASE PauseClear(q)
    BY <2>9 DEF Typed, PauseClear, Goto, HandlerPC
  <2>10. CASE Resume(q)
    BY <2>10, WokenType DEF Typed, Resume
  <2>11. QED
    BY <1>1, <2>1, <2>2, <2>3, <2>4, <2>5, <2>6, <2>7, <2>8, <2>9, <2>10
       DEF HandlerStep, UserStep
<1>2. ASSUME NEW r \in Runs, WorkerStep(r)
      PROVE  Typed'
  <2>1. CASE FetchUrls(r)
    <3>1. /\ total' \in Nat
          /\ target' \in [Runs -> SUBSET Urls]
      BY <2>1, UrlsCountable DEF FetchUrls, Typed
    <3>2. wpc' \in [Runs -> WorkerPC]
      BY <2>1 DEF FetchUrls, Move, Typed, WorkerPC
    <3>3. QED
      BY <2>1, <3>1, <3>2 DEF FetchUrls, Typed
  <2>2. CASE FetchFails(r) \/ CheckReturns(r) \/ AnnounceDone(r)
    BY <2>2 DEF FetchFails, CheckReturns, AnnounceDone, Move, Typed, WorkerPC
  <2>3. CASE ResetLive(r) \/ ClearCancel(r)
    <3>0. due' \in Int
      BY <2>3 DEF ResetLive, ClearCancel, Typed
    <3>1. live' \subseteq Entries /\ cancel' \in BOOLEAN
      BY <2>3 DEF ResetLive, ClearCancel, Typed
    <3>2. wpc' \in [Runs -> WorkerPC]
      BY <2>3 DEF ResetLive, ClearCancel, Move, Typed, WorkerPC
    <3>3. QED
      BY <2>3, <3>0, <3>1, <3>2 DEF ResetLive, ClearCancel, Typed
  <2>4. CASE StartCheck(r)
    <3>1. ASSUME NEW s \in Runs, NEW u \in Urls
          PROVE  /\ task[s][u] \in Task
                 /\ [task[s][u] EXCEPT !.stage = "cleared"] \in Task
      <4>1. task[s][u] \in Task /\ "cleared" \in Stage
        BY DEF Typed, Stage
      <4>2. QED
        BY <4>1, StageType
    <3>2. task' \in [Runs -> [Urls -> Task]]
      BY <2>4, <3>1, FreshType DEF StartCheck
    <3>3. QED
      BY <2>4, <3>2 DEF StartCheck, Move, Typed, WorkerPC
  <2>5. CASE CheckRaises(r)
    <3>1. task' \in [Runs -> [Urls -> Task]]
      BY <2>5, FreshType DEF CheckRaises, Typed
    <3>2. QED
      BY <2>5, <3>1 DEF CheckRaises, Move, Typed, WorkerPC
  <2>6. CASE ReplaceLive(r)
    <3>1. Merged(r) \subseteq Entries
      BY DEF Merged, Typed
    <3>2. QED
      BY <2>6, <3>1 DEF ReplaceLive, Move, Typed, WorkerPC
  <2>7. CASE Finally(r)
    BY <2>7 DEF Finally, Move, Typed, WorkerPC
  <2>8. QED
    BY <1>2, <2>1, <2>2, <2>3, <2>4, <2>5, <2>6, <2>7 DEF WorkerStep
<1>3. ASSUME NEW r \in Runs, NEW u \in Urls, TaskStep(r, u)
      PROVE  Typed'
  <2>0. task[r][u] \in Task /\ task[r][u].status \in Status
        /\ task[r][u].num \in Nat
    BY DEF Typed, Task
  <2>1. ASSUME NEW t \in Task
        PROVE  [task EXCEPT ![r][u] = t] \in [Runs -> [Urls -> Task]]
    BY DEF Typed
  <2>2. ASSUME NEW st \in Stage
        PROVE  [task[r][u] EXCEPT !.stage = st] \in Task
    BY <2>0 DEF Task
  <2>3. CASE Report(r, u)
    <3>1. rows[r] + 1 \in Nat /\ rows' \in [Runs -> Nat]
      BY <2>3 DEF Report, Typed
    <3>2. PICK s \in Status :
            task' = [task EXCEPT ![r][u] =
              [num |-> rows[r] + 1, status |-> s,
               stage |-> IF kind[r] = "run" THEN "reported" ELSE "accepted"]]
      BY <2>3 DEF Report
    <3>3. [num |-> rows[r] + 1, status |-> s,
           stage |-> IF kind[r] = "run" THEN "reported" ELSE "accepted"] \in Task
      BY <3>1 DEF Task, Stage
    <3>4. task' \in [Runs -> [Urls -> Task]]
      BY <2>1, <3>2, <3>3
    <3>5. QED
      BY <2>3, <3>1, <3>4 DEF Report, Typed
  <2>4. CASE Skip(r, u) \/ WaitUnpaused(r, u) \/ LookAtCancel(r, u)
    <3>1. task' \in [Runs -> [Urls -> Task]]
      BY <2>1, <2>2, <2>4, FreshType
         DEF Skip, WaitUnpaused, LookAtCancel, Stage
    <3>2. QED
      BY <2>4, <3>1 DEF Skip, WaitUnpaused, LookAtCancel, Stay, Typed
  <2>5. CASE Record(r, u)
    <3>1. task' \in [Runs -> [Urls -> Task]]
      BY <2>1, <2>2, <2>5 DEF Record, Stage
    <3>2. ASSUME NEW m \in SUBSET Entries
          PROVE  Put(m, u, task[r][u].status) \in SUBSET Entries
      BY <2>0 DEF Put, Entries
    <3>3. live' \subseteq Entries /\ results' \in [Runs -> SUBSET Entries]
      BY <2>5, <3>2 DEF Record, Typed
    <3>4. due' \in Int
      BY <2>5 DEF Record, Typed
    <3>5. QED
      BY <2>5, <3>1, <3>3, <3>4 DEF Record, Typed
  <2>6. CASE Count(r, u)
    <3>1. task' \in [Runs -> [Urls -> Task]] /\ done' \in Nat
      BY <2>0, <2>1, <2>6, FreshType DEF Count
    <3>2. QED
      BY <2>6, <3>1 DEF Count, Typed
  <2>7. QED
    BY <1>3, <2>3, <2>4, <2>5, <2>6 DEF TaskStep
<1>4. CASE Restart
  <2>1. task' \in [Runs -> [Urls -> Task]]
    BY <1>4, FreshType DEF Restart
  <2>2. /\ wpc' \in [Runs -> WorkerPC]
        /\ hpc' \in [Requests -> HandlerPC]
        /\ picked' \in [Requests -> SUBSET Urls]
    BY <1>4 DEF Restart, Typed, WorkerPC, HandlerPC
  <2>3. /\ target' \in [Runs -> SUBSET Urls]
        /\ results' \in [Runs -> SUBSET Entries]
        /\ rows' \in [Runs -> Nat]
    BY <1>4 DEF Restart
  <2>4. /\ running' \in BOOLEAN /\ cancel' \in BOOLEAN
        /\ unpaused' \in BOOLEAN /\ asked' \in BOOLEAN
    BY <1>4 DEF Restart
  <2>5. total' \in Nat /\ done' \in Nat /\ due' \in Int
    BY <1>4 DEF Restart
  <2>6. live' \subseteq Entries
    BY <1>4 DEF Restart
  <2>7. /\ partial' \subseteq Entries /\ begun' \in 0..MaxRuns
        /\ kind' \in [Runs -> {"run", "retry"}]
    BY <1>4 DEF Restart, Typed
  <2>8. QED
    BY <2>1, <2>2, <2>3, <2>4, <2>5, <2>6, <2>7 DEF Typed
<1>5. CASE UNCHANGED vars
  BY <1>5 DEF vars, Typed
<1>6. QED
  BY <1>1, <1>2, <1>3, <1>4, <1>5 DEF Next

LEMMA TypedAlways == Spec => []Typed
<1>1. Init => Typed
  <2>1. ASSUME Init
        PROVE  task \in [Runs -> [Urls -> Task]] /\ begun \in 0..MaxRuns
    BY <2>1, FreshType, IndexAssumption DEF Init
  <2>2. ASSUME Init
        PROVE  /\ hpc \in [Requests -> HandlerPC]
               /\ wpc \in [Runs -> WorkerPC]
    BY <2>2 DEF Init, HandlerPC, WorkerPC
  <2>3. ASSUME Init
        PROVE  /\ running \in BOOLEAN /\ cancel \in BOOLEAN
               /\ unpaused \in BOOLEAN /\ asked \in BOOLEAN
    BY <2>3 DEF Init
  <2>4. ASSUME Init
        PROVE  total \in Nat /\ done \in Nat /\ due \in Int
    BY <2>4 DEF Init
  <2>5. ASSUME Init
        PROVE  /\ live \subseteq Entries /\ partial \subseteq Entries
               /\ kind \in [Runs -> {"run", "retry"}]
    BY <2>5 DEF Init
  <2>6. ASSUME Init
        PROVE  /\ picked \in [Requests -> SUBSET Urls]
               /\ target \in [Runs -> SUBSET Urls]
               /\ results \in [Runs -> SUBSET Entries]
               /\ rows \in [Runs -> Nat]
    BY <2>6 DEF Init
  <2>7. QED
    BY <2>1, <2>2, <2>3, <2>4, <2>5, <2>6 DEF Typed
<1>2. Typed /\ [Next]_vars => Typed'
  BY TypedStep
<1>3. QED
  BY <1>1, <1>2, PTL DEF Spec

-----------------------------------------------------------------------------
(* Who owns the slot.                                                       *)

\* A worker alive is that of the latest run, and the slot is taken exactly
\* while there is one.
SlotInv ==
  /\ \A r \in Runs : r > begun => wpc[r] = "none"
  /\ \A r \in Runs : wpc[r] \in Active => r = begun /\ running
  /\ running => begun \in Runs /\ wpc[begun] \in Active

\* A stage of a URL is of interest for what it says of the callback.
SameStage(s, t) ==
  /\ s = "out" <=> t = "out"
  /\ s = "accepted" <=> t = "accepted"
  /\ s \in Busy <=> t \in Busy

\* What request threads leave alone unless they claim the slot.
LEMMA HandlerFrame ==
  ASSUME Typed, NEW q \in Requests, HandlerStep(q) \/ UserStep(q),
         ~RunClaim(q), ~RetryClaim(q)
  PROVE  /\ UNCHANGED <<running, begun, kind, wpc, target, results, live>>
         /\ \A r \in Runs, u \in Urls :
              SameStage(task[r][u].stage, task'[r][u].stage)
<1> USE DEF flags, reports, runVars
<1>1. \A s : SameStage(s, s)
  BY DEF SameStage
<1>2. SameStage("waiting", "cleared")
  BY DEF SameStage, Busy, Stage
<1>3. CASE CancelUnpause(q) \/ Resume(q)
  <2>1. SetUnpaused
    BY <1>3 DEF CancelUnpause, Resume
  <2>2. \A r \in Runs, u \in Urls :
          SameStage(task[r][u].stage, task'[r][u].stage)
    BY <1>1, <1>2, <2>1, WokenType
  <2>3. QED
    BY <1>3, <2>2 DEF CancelUnpause, Resume
<1>4. CASE ~CancelUnpause(q) /\ ~Resume(q)
  <2>1. UNCHANGED <<running, begun, kind, wpc, target, results, live, task>>
    BY <1>4 DEF HandlerStep, UserStep, RunRefused, RetryPick, RetryRefused,
       CancelSave, PauseClear, RunCheck, RetryCheck, CancelSet, PauseCheck
  <2>2. QED
    BY <1>1, <2>1
<1>5. QED
  BY <1>3, <1>4

\* What a claim does.
LEMMA ClaimEffect ==
  ASSUME Typed, NEW q \in Requests, RunClaim(q) \/ RetryClaim(q)
  PROVE  \E us \in SUBSET Urls :
           /\ ~running /\ running'
           /\ begun' = begun + 1 /\ begun' \in Runs
           /\ \/ kind'[begun'] = "run" /\ wpc'[begun'] = "fetch" /\ us = {}
              \/ kind'[begun'] = "retry" /\ wpc'[begun'] = "check"
           /\ target'[begun'] = us
           /\ \A u \in Urls :
                task'[begun'][u].stage = IF u \in us THEN "queued" ELSE "out"
           /\ \A r \in Runs \ {begun'} :
                /\ kind'[r] = kind[r] /\ wpc'[r] = wpc[r]
                /\ target'[r] = target[r] /\ task'[r] = task[r]
           /\ UNCHANGED <<results, live, cancel, due>>
<1>1. ASSUME NEW k \in {"run", "retry"}, NEW n, NEW us \in SUBSET Urls,
             Claim(k, n, us)
      PROVE  /\ ~running /\ running'
             /\ begun' = begun + 1 /\ begun' \in Runs
             /\ kind'[begun'] = k
             /\ wpc'[begun'] = IF k = "run" THEN "fetch" ELSE "check"
             /\ target'[begun'] = us
             /\ \A u \in Urls :
                  task'[begun'][u].stage = IF u \in us THEN "queued" ELSE "out"
             /\ \A r \in Runs \ {begun'} :
                  /\ kind'[r] = kind[r] /\ wpc'[r] = wpc[r]
                  /\ target'[r] = target[r] /\ task'[r] = task[r]
  <2>1. begun + 1 \in Runs
    BY <1>1, IndexAssumption DEF Claim, Occupy, Typed, Runs
  <2>2. task' = [task EXCEPT ![begun + 1] =
          [u \in Urls |-> IF u \in us THEN [NoTask EXCEPT !.stage = "queued"]
                                      ELSE NoTask]]
    BY <1>1 DEF Claim, Occupy
  <2>3. \A u \in Urls :
          task'[begun + 1][u].stage = IF u \in us THEN "queued" ELSE "out"
    BY <2>1, <2>2, FreshType DEF Typed
  <2>4. /\ ~running /\ running'
        /\ begun' = begun + 1
        /\ kind' = [kind EXCEPT ![begun + 1] = k]
        /\ target' = [target EXCEPT ![begun + 1] = us]
        /\ wpc' = [wpc EXCEPT ![begun + 1] =
                     IF k = "run" THEN "fetch" ELSE "check"]
    BY <1>1 DEF Claim, Occupy
  <2>5. QED
    BY <2>1, <2>2, <2>3, <2>4 DEF Typed
<1>2. CASE RunClaim(q)
  <2>1. Claim("run", Limit, {}) /\ {} \in SUBSET Urls
    BY <1>2 DEF RunClaim
  <2>2. UNCHANGED <<results, live, cancel, due>>
    BY <1>2 DEF RunClaim, reports
  <2>3. QED
    BY <1>1, <2>1, <2>2
<1>3. CASE RetryClaim(q)
  <2>1. /\ Claim("retry", Cardinality(picked[q]), picked[q])
        /\ picked[q] \in SUBSET Urls
    BY <1>3 DEF RetryClaim, Typed
  <2>2. UNCHANGED <<results, live, cancel, due>>
    BY <1>3 DEF RetryClaim, reports
  <2>3. QED
    BY <1>1, <2>1, <2>2
<1>4. QED
  BY <1>2, <1>3

\* What the process of a URL leaves alone.
LEMMA TaskFrame ==
  ASSUME Typed, NEW r \in Runs, NEW u \in Urls, TaskStep(r, u)
  PROVE  /\ UNCHANGED <<running, begun, cancel, kind, wpc, target>>
         /\ \A s \in Runs, v \in Urls :
              <<s, v>> # <<r, u>> => task'[s][v] = task[s][v]
         /\ task[r][u].stage # "out"
         /\ Record(r, u) \/ UNCHANGED <<results, live, due>>
<1> USE DEF flags, reports, handler, runVars, Stay, At
<1>1. \E t : task' = [task EXCEPT ![r][u] = t]
  BY DEF TaskStep, Report, Skip, WaitUnpaused, LookAtCancel, Record, Count
<1>2. \A s \in Runs, v \in Urls :
        <<s, v>> # <<r, u>> => task'[s][v] = task[s][v]
  BY <1>1 DEF Typed
<1>3. task[r][u].stage # "out"
  BY DEF TaskStep, Report, Skip, WaitUnpaused, LookAtCancel, Record, Count
<1>4. UNCHANGED <<running, begun, cancel, kind, wpc, target>>
  BY DEF TaskStep, Report, Skip, WaitUnpaused, LookAtCancel, Record, Count
<1>5. Record(r, u) \/ UNCHANGED <<results, live, due>>
  BY DEF TaskStep, Report, Skip, WaitUnpaused, LookAtCancel, Record, Count
<1>6. QED
  BY <1>2, <1>3, <1>4, <1>5

\* A worker moves itself only, and gives the slot back only by ending.
LEMMA WorkerFrame ==
  ASSUME Typed, NEW r \in Runs, WorkerStep(r)
  PROVE  /\ wpc[r] \in Active
         /\ \A s \in Runs \ {r} : wpc'[s] = wpc[s]
         /\ UNCHANGED <<begun, kind>>
         /\ Finally(r) \/ (running' = running /\ results' = results)
         /\ FetchUrls(r) \/ Finally(r) \/ target' = target
         /\ ResetLive(r) \/ ReplaceLive(r) \/ live' = live
<1> USE DEF flags, reports, handler, Move
<1>1. wpc[r] \in Active
  BY DEF WorkerStep, FetchUrls, FetchFails, ResetLive, ClearCancel, StartCheck,
     CheckReturns, CheckRaises, ReplaceLive, AnnounceDone, Finally, Active,
     WorkerPC
<1>2. \A s \in Runs \ {r} : wpc'[s] = wpc[s]
  BY DEF WorkerStep, FetchUrls, FetchFails, ResetLive, ClearCancel, StartCheck,
     CheckReturns, CheckRaises, ReplaceLive, AnnounceDone, Finally, Typed
<1>3. UNCHANGED <<begun, kind>>
  BY DEF WorkerStep, FetchUrls, FetchFails, ResetLive, ClearCancel, StartCheck,
     CheckReturns, CheckRaises, ReplaceLive, AnnounceDone, Finally
<1>4. Finally(r) \/ (running' = running /\ results' = results)
  BY DEF WorkerStep, FetchUrls, FetchFails, ResetLive, ClearCancel, StartCheck,
     CheckReturns, CheckRaises, ReplaceLive, AnnounceDone
<1>5. FetchUrls(r) \/ Finally(r) \/ target' = target
  BY DEF WorkerStep, FetchFails, ResetLive, ClearCancel, StartCheck,
     CheckReturns, CheckRaises, ReplaceLive, AnnounceDone
<1>6. ResetLive(r) \/ ReplaceLive(r) \/ live' = live
  BY DEF WorkerStep, FetchUrls, FetchFails, ClearCancel, StartCheck,
     CheckReturns, CheckRaises, AnnounceDone, Finally
<1>7. QED
  BY <1>1, <1>2, <1>3, <1>4, <1>5, <1>6

LEMMA SlotInvStep ==
  ASSUME Typed, SlotInv, [Next]_vars
  PROVE  SlotInv'
<1> USE DEF SlotInv
<1>1. ASSUME NEW q \in Requests, HandlerStep(q) \/ UserStep(q)
      PROVE  SlotInv'
  <2>1. CASE RunClaim(q) \/ RetryClaim(q)
    <3>1. /\ ~running /\ running' /\ begun' = begun + 1 /\ begun' \in Runs
          /\ wpc'[begun'] \in Active
          /\ \A r \in Runs \ {begun'} : wpc'[r] = wpc[r]
      BY <2>1, ClaimEffect DEF Active, WorkerPC
    <3>2. begun \in Nat
      BY IndexAssumption DEF Typed
    <3>3. \A r \in Runs : wpc[r] \notin Active
      BY <3>1
    <3>4. QED
      BY <3>1, <3>2, <3>3 DEF Runs
  <2>2. CASE ~RunClaim(q) /\ ~RetryClaim(q)
    BY <1>1, <2>2, HandlerFrame
  <2>3. QED
    BY <2>1, <2>2
<1>2. ASSUME NEW r \in Runs, WorkerStep(r)
      PROVE  SlotInv'
  <2>1. r = begun /\ running
    BY <1>2, WorkerFrame
  <2>2. \A s \in Runs : s > begun => s # r
    BY <2>1, IndexAssumption DEF Typed, Runs
  <2>3. CASE Finally(r)
    <3>1. wpc'[r] = "ended" /\ "ended" \notin Active /\ ~running'
      BY <2>3 DEF Finally, Move, Typed, Active
    <3>2. QED
      BY <1>2, <2>1, <2>2, <3>1, WorkerFrame
  <2>4. CASE ~Finally(r)
    <3>1. wpc'[r] \in Active
      BY <1>2, <2>4 DEF WorkerStep, FetchUrls, FetchFails, ResetLive,
         ClearCancel, StartCheck, CheckReturns, CheckRaises, ReplaceLive,
         AnnounceDone, Move, Typed, Active, WorkerPC
    <3>2. /\ begun' = begun /\ running' = running
          /\ \A s \in Runs \ {r} : wpc'[s] = wpc[s]
      BY <1>2, <2>4, WorkerFrame
    <3>3. \A s \in Runs \ {r} : wpc[s] \notin Active
      BY <2>1
    <3>4. QED
      BY <2>1, <2>2, <3>1, <3>2, <3>3
  <2>5. QED
    BY <2>3, <2>4
<1>3. ASSUME NEW r \in Runs, NEW u \in Urls, TaskStep(r, u)
      PROVE  SlotInv'
  BY <1>3, TaskFrame
<1>4. CASE Restart
  BY <1>4 DEF Restart, Active
<1>5. CASE UNCHANGED vars
  BY <1>5 DEF vars, flags, runVars
<1>6. QED
  BY <1>1, <1>2, <1>3, <1>4, <1>5 DEF Next

(* At most one worker is alive, of a run or of a retry: the claim checks    *)
(* the flag in the section that sets it, and the flag stays up until the    *)
(* worker of the latest claim takes it down, which it does in the end.      *)
THEOREM Exclusion == Spec => [](SlotInv /\ OneIndexRun)
<1>1. Init => SlotInv
  BY DEF Init, SlotInv, Active
<1>2. Typed /\ SlotInv /\ [Next]_vars => SlotInv'
  BY SlotInvStep
<1>3. SlotInv => OneIndexRun
  BY DEF SlotInv, OneIndexRun
<1>4. QED
  BY <1>1, <1>2, <1>3, TypedAlways, PTL DEF Spec

-----------------------------------------------------------------------------
(* The live map.                                                            *)

\* A URL is with the checker only while its run checks it, and was handed to
\* it; a retry skips the reset; results are of URLs the run was given, one to
\* a URL, and there are none before the reset.
RunInv(r) ==
  /\ \A u \in Urls :
       task[r][u].stage # "out" => wpc[r] = "check" /\ u \in target[r]
  /\ kind[r] = "retry" => wpc[r] \notin {"fetch", "reset", "clear", "unpause"}
  /\ wpc[r] \in {"none", "fetch", "reset"} => results[r] = {}
  /\ results[r] \subseteq target[r] \X Status
  /\ OneStatusEach(results[r])

\* LiveMirrorsRun, of one run.
Mirrors(r) ==
  /\ kind[r] = "run" /\ wpc[r] \in {"clear", "unpause", "check", "replace",
                                    "announce"} => live = results[r]
  /\ kind[r] = "retry" /\ wpc[r] = "announce" =>
       {e \in live : e[1] \in target[r]} = results[r]

MirrorInv ==
  /\ OneStatusEach(live)
  /\ \A r \in Runs : RunInv(r) /\ Mirrors(r)

\* Putting a status keeps one to a URL.
LEMMA PutOneStatus ==
  ASSUME NEW m, NEW u, NEW s, OneStatusEach(m)
  PROVE  OneStatusEach(Put(m, u, s))
  BY DEF OneStatusEach, Put

\* A run whose part of the state does not change, but for a callback that is
\* woken, stays as it should be.
LEMMA RunKept ==
  ASSUME NEW r \in Runs, RunInv(r),
         kind'[r] = kind[r], wpc'[r] = wpc[r], target'[r] = target[r],
         results'[r] = results[r],
         \A u \in Urls : task'[r][u].stage # "out" => task[r][u].stage # "out"
  PROVE  RunInv(r)'
  BY DEF RunInv, OneStatusEach

\* The map says nothing of a run that is over or has not begun.
LEMMA IdleMirrors ==
  ASSUME NEW r \in Runs, wpc'[r] \notin Active
  PROVE  Mirrors(r)'
  BY DEF Mirrors, Active, WorkerPC

LEMMA MirrorsKept ==
  ASSUME NEW r \in Runs, Mirrors(r),
         kind'[r] = kind[r], wpc'[r] = wpc[r], target'[r] = target[r],
         results'[r] = results[r], live' = live
  PROVE  Mirrors(r)'
  BY DEF Mirrors

LEMMA MirrorHandler ==
  ASSUME Typed, SlotInv, MirrorInv,
         NEW q \in Requests, HandlerStep(q) \/ UserStep(q)
  PROVE  MirrorInv'
<1>1. CASE RunClaim(q) \/ RetryClaim(q)
  <2>1. PICK us \in SUBSET Urls :
          /\ ~running /\ running'
          /\ begun' = begun + 1 /\ begun' \in Runs
          /\ \/ kind'[begun'] = "run" /\ wpc'[begun'] = "fetch" /\ us = {}
             \/ kind'[begun'] = "retry" /\ wpc'[begun'] = "check"
          /\ target'[begun'] = us
          /\ \A u \in Urls :
               task'[begun'][u].stage = IF u \in us THEN "queued" ELSE "out"
          /\ \A r \in Runs \ {begun'} :
               /\ kind'[r] = kind[r] /\ wpc'[r] = wpc[r]
               /\ target'[r] = target[r] /\ task'[r] = task[r]
          /\ UNCHANGED <<results, live, cancel, due>>
    BY <1>1, ClaimEffect
  <2>2. OneStatusEach(live)'
    BY <2>1 DEF MirrorInv, OneStatusEach
  <2>3. ASSUME NEW r \in Runs, r # begun'
        PROVE  RunInv(r)' /\ Mirrors(r)'
    BY <2>1, <2>3, RunKept, MirrorsKept DEF MirrorInv
  <2>4. ASSUME NEW r \in Runs, r = begun'
        PROVE  RunInv(r)' /\ Mirrors(r)'
    <3>1. wpc[r] = "none"
      BY <2>1, <2>4, IndexAssumption DEF SlotInv, Typed
    <3>2. results'[r] = {}
      BY <2>1, <2>4, <3>1 DEF MirrorInv, RunInv
    <3>3. RunInv(r)'
      BY <2>1, <2>4, <3>2 DEF RunInv, OneStatusEach
    <3>4. Mirrors(r)'
      BY <2>1, <2>4 DEF Mirrors
    <3>5. QED
      BY <3>3, <3>4
  <2>5. QED
    BY <2>2, <2>3, <2>4 DEF MirrorInv
<1>2. CASE ~RunClaim(q) /\ ~RetryClaim(q)
  <2>1. /\ UNCHANGED <<running, begun, kind, wpc, target, results, live>>
        /\ \A r \in Runs, u \in Urls :
             SameStage(task[r][u].stage, task'[r][u].stage)
    BY <1>2, HandlerFrame
  <2>2. OneStatusEach(live)'
    BY <2>1 DEF MirrorInv, OneStatusEach
  <2>3. QED
    BY <2>1, <2>2, RunKept, MirrorsKept DEF MirrorInv, SameStage
<1>3. QED
  BY <1>1, <1>2

\* The task of another run can only be woken by a worker, and that of its own
\* run changes only when the checking starts and when it fails.
LEMMA WorkerTasks ==
  ASSUME Typed, NEW r \in Runs, WorkerStep(r)
  PROVE  /\ \A s \in Runs, u \in Urls :
              s # r => SameStage(task[s][u].stage, task'[s][u].stage)
         /\ StartCheck(r) \/ CheckRaises(r) \/ task' = task
<1>1. \A s : SameStage(s, s)
  BY DEF SameStage
<1>2. SameStage("waiting", "cleared")
  BY DEF SameStage, Busy, Stage
<1>3. CASE StartCheck(r)
  <2>1. ASSUME NEW s \in Runs, NEW u \in Urls, s # r
        PROVE  SameStage(task[s][u].stage, task'[s][u].stage)
    <3>1. task'[s][u] = IF task[s][u].stage = "waiting"
                          THEN [task[s][u] EXCEPT !.stage = "cleared"]
                          ELSE task[s][u]
      BY <1>3, <2>1 DEF StartCheck
    <3>2. task[s][u] \in Task /\ "cleared" \in Stage
      BY DEF Typed, Stage
    <3>3. QED
      BY <1>1, <1>2, <3>1, <3>2, StageType
  <2>2. QED
    BY <1>3, <2>1
<1>4. CASE CheckRaises(r)
  <2>1. \A s \in Runs : s # r => task'[s] = task[s]
    BY <1>4 DEF CheckRaises, Typed
  <2>2. QED
    BY <1>1, <1>4, <2>1
<1>5. CASE ~StartCheck(r) /\ ~CheckRaises(r)
  <2>1. task' = task
    BY <1>5 DEF WorkerStep, FetchUrls, FetchFails, ResetLive, ClearCancel,
       CheckReturns, ReplaceLive, AnnounceDone, Finally
  <2>2. QED
    BY <1>1, <2>1
<1>6. QED
  BY <1>3, <1>4, <1>5

LEMMA MirrorWorker ==
  ASSUME Typed, SlotInv, MirrorInv, NEW r \in Runs, WorkerStep(r)
  PROVE  MirrorInv'
<1>0. /\ RunInv(r) /\ Mirrors(r) /\ OneStatusEach(live)
      /\ r = begun /\ wpc[r] \in Active
      /\ \A s \in Runs \ {r} : wpc[s] \notin Active /\ wpc'[s] \notin Active
  BY WorkerFrame DEF MirrorInv, SlotInv
<1>1. ASSUME NEW s \in Runs, s # r
      PROVE  RunInv(s)' /\ Mirrors(s)'
  <2>1. /\ kind'[s] = kind[s] /\ wpc'[s] = wpc[s]
        /\ target'[s] = target[s] /\ results'[s] = results[s]
    BY <1>1, WorkerFrame DEF FetchUrls, Finally, Typed
  <2>2. \A u \in Urls : task'[s][u].stage # "out" => task[s][u].stage # "out"
    BY <1>1, WorkerTasks DEF SameStage
  <2>3. QED
    BY <1>0, <1>1, <2>1, <2>2, RunKept, IdleMirrors DEF MirrorInv
<1>2. RunInv(r)' /\ Mirrors(r)' /\ OneStatusEach(live)'
  <2> USE DEF Move
  <2>1. CASE FetchUrls(r)
    <3>1. /\ wpc[r] = "fetch" /\ wpc'[r] = "reset"
          /\ UNCHANGED <<kind, live, results, task>>
      BY <2>1 DEF FetchUrls, reports, Typed
    <3>2. results'[r] = {} /\ \A u \in Urls : task'[r][u].stage = "out"
      BY <1>0, <3>1 DEF RunInv
    <3>3. kind'[r] # "retry"
      BY <1>0, <3>1 DEF RunInv
    <3>4. QED
      BY <1>0, <3>1, <3>2, <3>3 DEF RunInv, Mirrors, OneStatusEach
  <2>2. CASE FetchFails(r)
    <3>1. /\ wpc[r] = "fetch" /\ wpc'[r] = "finally"
          /\ UNCHANGED <<kind, live, results, target, task>>
      BY <2>2 DEF FetchFails, reports, Typed
    <3>2. QED
      BY <1>0, <3>1 DEF RunInv, Mirrors, OneStatusEach
  <2>3. CASE ResetLive(r)
    <3>1. /\ wpc[r] = "reset" /\ wpc'[r] = "clear" /\ live' = {}
          /\ UNCHANGED <<kind, results, target, task>>
      BY <2>3 DEF ResetLive, Typed
    <3>2. QED
      BY <1>0, <3>1 DEF RunInv, Mirrors, OneStatusEach
  <2>4. CASE ClearCancel(r)
    <3>1. /\ wpc[r] = "clear" /\ wpc'[r] = "unpause"
          /\ UNCHANGED <<kind, live, results, target, task>>
      BY <2>4 DEF ClearCancel, reports, Typed
    <3>2. QED
      BY <1>0, <3>1 DEF RunInv, Mirrors, OneStatusEach
  <2>5. CASE StartCheck(r)
    <3>1. /\ wpc[r] = "unpause" /\ wpc'[r] = "check"
          /\ UNCHANGED <<kind, live, results, target>>
      BY <2>5 DEF StartCheck, reports, Typed
    <3>2. \A u \in Urls : task'[r][u] =
            IF u \in target[r] THEN [NoTask EXCEPT !.stage = "queued"]
                               ELSE NoTask
      BY <2>5 DEF StartCheck
    <3>3. \A u \in Urls : task'[r][u].stage # "out" => u \in target[r]
      BY <3>2, FreshType
    <3>4. QED
      BY <1>0, <3>1, <3>3 DEF RunInv, Mirrors, OneStatusEach
  <2>6. CASE CheckReturns(r)
    <3>1. /\ wpc[r] = "check" /\ wpc'[r] = "replace"
          /\ UNCHANGED <<kind, live, results, target, task>>
          /\ \A u \in Urls : task[r][u].stage = "out"
      BY <2>6 DEF CheckReturns, At, reports, Typed
    <3>2. QED
      BY <1>0, <3>1 DEF RunInv, Mirrors, OneStatusEach
  <2>7. CASE CheckRaises(r)
    <3>1. /\ wpc[r] = "check" /\ wpc'[r] = "finally"
          /\ UNCHANGED <<kind, live, results, target>>
          /\ \A u \in Urls : task'[r][u] = NoTask
      BY <2>7 DEF CheckRaises, reports, Typed
    <3>2. QED
      BY <1>0, <3>1, FreshType DEF RunInv, Mirrors, OneStatusEach
  <2>8. CASE ReplaceLive(r)
    <3>1. /\ wpc[r] = "replace" /\ wpc'[r] = "announce"
          /\ UNCHANGED <<kind, results, target, task>>
          /\ live' = Merged(r)
      BY <2>8 DEF ReplaceLive, Typed
    <3>2. RunInv(r)'
      BY <1>0, <3>1 DEF RunInv, OneStatusEach
    <3>3. \A e \in results[r] : e[1] \in target[r]
      BY <1>0 DEF RunInv
    <3>4. CASE kind[r] = "run"
      BY <1>0, <3>1, <3>2, <3>4 DEF RunInv, Mirrors, OneStatusEach, Merged
    <3>5. CASE kind[r] # "run"
      <4>1. live' = {e \in live : e[1] \notin target[r]} \cup results[r]
        BY <3>1, <3>5 DEF Merged
      <4>2. OneStatusEach(live)'
        BY <1>0, <3>3, <4>1 DEF RunInv, OneStatusEach
      <4>3. Mirrors(r)'
        BY <3>1, <3>3, <3>5, <4>1 DEF Mirrors
      <4>4. QED
        BY <3>2, <4>2, <4>3
    <3>6. QED
      BY <3>4, <3>5
  <2>9. CASE AnnounceDone(r)
    <3>1. /\ wpc[r] = "announce" /\ wpc'[r] = "finally"
          /\ UNCHANGED <<kind, live, results, target, task>>
      BY <2>9 DEF AnnounceDone, reports, Typed
    <3>2. QED
      BY <1>0, <3>1 DEF RunInv, Mirrors, OneStatusEach
  <2>10. CASE Finally(r)
    <3>1. /\ wpc[r] = "finally" /\ wpc'[r] = "ended"
          /\ UNCHANGED <<kind, live, task>>
          /\ results'[r] = {} /\ target'[r] = {}
      BY <2>10 DEF Finally, reports, Typed
    <3>2. QED
      BY <1>0, <3>1 DEF RunInv, Mirrors, OneStatusEach
  <2>11. QED
    BY <2>1, <2>2, <2>3, <2>4, <2>5, <2>6, <2>7, <2>8, <2>9, <2>10
       DEF WorkerStep
<1>3. QED
  BY <1>1, <1>2 DEF MirrorInv

LEMMA MirrorTask ==
  ASSUME Typed, SlotInv, MirrorInv,
         NEW r \in Runs, NEW u \in Urls, TaskStep(r, u)
  PROVE  MirrorInv'
<1>1. /\ UNCHANGED <<kind, wpc, target>>
      /\ \A s \in Runs, v \in Urls :
           <<s, v>> # <<r, u>> => task'[s][v] = task[s][v]
      /\ task[r][u].stage # "out"
      /\ Record(r, u) \/ UNCHANGED <<results, live>>
  BY TaskFrame
<1>2. \A s \in Runs, v \in Urls :
        task'[s][v].stage # "out" => task[s][v].stage # "out"
  BY <1>1
<1>3. CASE Record(r, u)
  <2>1. /\ wpc[r] = "check" /\ u \in target[r]
        /\ RunInv(r) /\ Mirrors(r) /\ OneStatusEach(live)
    BY <1>1 DEF MirrorInv, RunInv
  <2>2. \A s \in Runs \ {r} : wpc[s] \notin Active
    BY <2>1 DEF SlotInv, Active, WorkerPC
  <2>3. task[r][u].status \in Status
    BY DEF Typed, Task
  <2>4. /\ live' = Put(live, u, task[r][u].status)
        /\ results' = [results EXCEPT ![r] = Put(@, u, task[r][u].status)]
    BY <1>3 DEF Record
  <2>5. ASSUME NEW s \in Runs, s # r
        PROVE  RunInv(s)' /\ Mirrors(s)'
    BY <1>1, <1>2, <2>2, <2>4, <2>5, RunKept, IdleMirrors DEF MirrorInv, Typed
  <2>6. results'[r] = Put(results[r], u, task[r][u].status)
    BY <2>4 DEF Typed
  <2>7. results'[r] \subseteq target'[r] \X Status
    BY <1>1, <2>1, <2>3, <2>6 DEF Put, RunInv
  <2>8. OneStatusEach(results[r])' /\ OneStatusEach(live)'
    BY <2>1, <2>4, <2>6, PutOneStatus DEF RunInv, OneStatusEach
  <2>9. RunInv(r)'
    BY <1>1, <1>2, <2>1, <2>7, <2>8 DEF RunInv
  <2>10. Mirrors(r)'
    BY <1>1, <2>1, <2>4, <2>6 DEF Mirrors
  <2>11. QED
    BY <2>5, <2>8, <2>9, <2>10 DEF MirrorInv
<1>4. CASE UNCHANGED <<results, live>>
  <2>1. OneStatusEach(live)'
    BY <1>4 DEF MirrorInv, OneStatusEach
  <2>2. QED
    BY <1>1, <1>2, <1>4, <2>1, RunKept, MirrorsKept DEF MirrorInv
<1>5. QED
  BY <1>1, <1>3, <1>4

LEMMA MirrorInvStep ==
  ASSUME Typed, SlotInv, MirrorInv, [Next]_vars
  PROVE  MirrorInv'
<1>1. CASE Restart
  <2>1. /\ live' = {}
        /\ \A r \in Runs : /\ wpc'[r] \notin Active
                           /\ wpc'[r] # "none" \/ wpc[r] = "none"
                           /\ results'[r] = {}
                           /\ \A u \in Urls : task'[r][u] = NoTask
    BY <1>1 DEF Restart, Active, WorkerPC
  <2>2. \A r \in Runs : wpc'[r] \notin {"fetch", "reset", "clear", "unpause"}
    BY <2>1 DEF Active, WorkerPC
  <2>3. \A r \in Runs : RunInv(r)'
    BY <2>1, <2>2, FreshType DEF RunInv, OneStatusEach
  <2>4. QED
    BY <2>1, <2>3, IdleMirrors DEF MirrorInv, OneStatusEach
<1>2. CASE UNCHANGED vars
  BY <1>2 DEF vars, flags, reports, runVars, MirrorInv, RunInv, Mirrors,
     OneStatusEach
<1>3. QED
  BY <1>1, <1>2, MirrorHandler, MirrorWorker, MirrorTask DEF Next

LEMMA MirrorAlways == Spec => []MirrorInv
<1>1. Init => MirrorInv
  BY FreshType DEF Init, MirrorInv, RunInv, Mirrors, OneStatusEach
<1>2. Typed /\ SlotInv /\ MirrorInv /\ [Next]_vars => MirrorInv'
  BY MirrorInvStep
<1>3. QED
  BY <1>1, <1>2, TypedAlways, Exclusion, PTL DEF Spec

(* Every variable keeps its type, and the live map holds one status to a    *)
(* URL: a callback replaces the entry of its URL, and a retry takes the     *)
(* old entries of its URLs out before it puts its own in.                   *)
THEOREM Typing == Spec => []TypeOK
<1>1. Typed /\ MirrorInv => TypeOK
  BY DEF MirrorInv, TypeOK
<1>2. QED
  BY <1>1, TypedAlways, MirrorAlways, PTL

(* From its reset on the live map is what the run in progress recorded, and *)
(* what a retry merges replaces what it retried: only the worker of the     *)
(* slot and its callbacks write to the map, and a callback is never left    *)
(* behind by its run.                                                       *)
THEOREM MapMirrorsRun == Spec => []LiveMirrorsRun
<1>1. MirrorInv => LiveMirrorsRun
  BY DEF MirrorInv, Mirrors, LiveMirrorsRun
<1>2. QED
  BY <1>1, MirrorAlways, PTL

(* While a retry has the slot no status changes but those of its URLs.      *)
THEOREM OthersKept == Spec => RetryKeepsOthers
<1> DEFINE Rest(m, r) == {e \in m : e[1] \notin target[r]}
<1>1. ASSUME Typed, SlotInv, MirrorInv, [Next]_vars,
             NEW r \in Runs, kind[r] = "retry", wpc[r] \in Active,
             wpc'[r] # "lost"
      PROVE  Rest(live', r) = Rest(live, r)
  <2>1. ASSUME NEW q \in Requests, HandlerStep(q) \/ UserStep(q)
        PROVE  live' = live
    BY <1>1, <2>1, HandlerFrame, ClaimEffect
  <2>2. ASSUME NEW s \in Runs, WorkerStep(s)
        PROVE  Rest(live', r) = Rest(live, r)
    <3>1. s = r
      BY <1>1, <2>2, WorkerFrame DEF SlotInv
    <3>2. ~ResetLive(s)
      BY <1>1, <3>1 DEF ResetLive, Move, MirrorInv, RunInv
    <3>3. CASE ReplaceLive(s)
      <4>1. live' = Rest(live, r) \cup results[r]
        BY <1>1, <3>1, <3>3 DEF ReplaceLive, Merged
      <4>2. \A e \in results[r] : e[1] \in target[r]
        BY <1>1 DEF MirrorInv, RunInv
      <4>3. QED
        BY <4>1, <4>2
    <3>4. QED
      BY <1>1, <2>2, <3>2, <3>3, WorkerFrame
  <2>3. ASSUME NEW s \in Runs, NEW u \in Urls, TaskStep(s, u)
        PROVE  Rest(live', r) = Rest(live, r)
    <3>1. CASE Record(s, u)
      <4>1. task[s][u].stage # "out"
        BY <1>1, <2>3, TaskFrame
      <4>2. wpc[s] \in Active /\ u \in target[s]
        BY <1>1, <4>1 DEF MirrorInv, RunInv, Active, WorkerPC
      <4>3. s = r
        BY <1>1, <4>2 DEF SlotInv
      <4>4. live' = Put(live, u, task[s][u].status)
        BY <3>1 DEF Record
      <4>5. QED
        BY <4>2, <4>3, <4>4 DEF Put
    <3>2. QED
      BY <1>1, <2>3, <3>1, TaskFrame
  <2>4. ~Restart
    BY <1>1 DEF Restart
  <2>5. CASE UNCHANGED vars
    BY <2>5 DEF vars, reports
  <2>6. QED
    BY <1>1, <2>1, <2>2, <2>3, <2>4, <2>5 DEF Next
<1>2. Typed /\ SlotInv /\ MirrorInv /\ [Next]_vars =>
        [\A r \in Runs :
           kind[r] = "retry" /\ wpc[r] \in Active /\ wpc'[r] # "lost" =>
             {e \in live' : e[1] \notin target[r]}
               = {e \in live : e[1] \notin target[r]}]_vars
  BY <1>1
<1>3. QED
  BY <1>2, TypedAlways, Exclusion, MirrorAlways, PTL
     DEF Spec, RetryKeepsOthers

-----------------------------------------------------------------------------
(* Cancellation.                                                            *)

\* The URLs of a run that occupy a tab.
BusyOf(r) == {u \in Urls : task[r][u].stage \in Busy}

CancelInv ==
  /\ \A r \in Runs : Cardinality(BusyOf(r)) <= Tabs
  /\ due = IF cancel THEN Cardinality(Committed) ELSE 0

\* Fewer URLs do not occupy more tabs.
LEMMA FewerBusy ==
  ASSUME CancelInv, \A r \in Runs : BusyOf(r)' \subseteq BusyOf(r)
  PROVE  \A r \in Runs : Cardinality(BusyOf(r)') <= Tabs
<1> SUFFICES ASSUME NEW r \in Runs
             PROVE  Cardinality(BusyOf(r)') <= Tabs
  OBVIOUS
<1>1. BusyOf(r) \in SUBSET Urls /\ BusyOf(r)' \in SUBSET BusyOf(r)
  BY DEF BusyOf
<1>2. /\ IsFiniteSet(BusyOf(r)) /\ Cardinality(BusyOf(r)) \in Nat
      /\ Cardinality(BusyOf(r)') \in Nat
      /\ Cardinality(BusyOf(r)') <= Cardinality(BusyOf(r))
  BY <1>1, UrlsCountable, FS_Subset
<1>3. Cardinality(BusyOf(r)) <= Tabs /\ Tabs \in Nat
  BY IndexAssumption DEF CancelInv
<1>4. QED
  BY <1>2, <1>3

\* Steps that change neither who is committed nor the flag.
LEMMA CancelKept ==
  ASSUME CancelInv, \A r \in Runs : BusyOf(r)' \subseteq BusyOf(r),
         Committed' = Committed, UNCHANGED <<cancel, due>>
  PROVE  CancelInv'
<1>1. \A r \in Runs : Cardinality(BusyOf(r)') <= Tabs
  BY FewerBusy
<1>2. due' = IF cancel' THEN Cardinality(Committed') ELSE 0
  BY DEF CancelInv
<1>3. QED
  BY <1>1, <1>2 DEF CancelInv

\* The same stages, the same tabs occupied and the same callbacks committed.
LEMMA SameCommitted ==
  ASSUME UNCHANGED kind,
         \A r \in Runs, u \in Urls :
           SameStage(task[r][u].stage, task'[r][u].stage)
  PROVE  /\ Committed' = Committed
         /\ \A r \in Runs : BusyOf(r)' \subseteq BusyOf(r)
<1>1. Committed' = Committed
  BY DEF Committed, SameStage
<1>2. \A r \in Runs : BusyOf(r)' \subseteq BusyOf(r)
  BY DEF BusyOf, SameStage
<1>3. QED
  BY <1>1, <1>2

LEMMA SameStageSelf == \A s : SameStage(s, s)
  BY DEF SameStage

LEMMA CancelHandler ==
  ASSUME Typed, SlotInv, MirrorInv, CancelInv,
         NEW q \in Requests, HandlerStep(q) \/ UserStep(q)
  PROVE  CancelInv'
<1>1. CASE RunClaim(q) \/ RetryClaim(q)
  <2>1. PICK us \in SUBSET Urls :
          /\ ~running /\ running'
          /\ begun' = begun + 1 /\ begun' \in Runs
          /\ \/ kind'[begun'] = "run" /\ wpc'[begun'] = "fetch" /\ us = {}
             \/ kind'[begun'] = "retry" /\ wpc'[begun'] = "check"
          /\ target'[begun'] = us
          /\ \A u \in Urls :
               task'[begun'][u].stage = IF u \in us THEN "queued" ELSE "out"
          /\ \A r \in Runs \ {begun'} :
               /\ kind'[r] = kind[r] /\ wpc'[r] = wpc[r]
               /\ target'[r] = target[r] /\ task'[r] = task[r]
          /\ UNCHANGED <<results, live, cancel, due>>
    BY <1>1, ClaimEffect
  <2>2. wpc[begun'] = "none"
    BY <2>1, IndexAssumption DEF SlotInv, Typed
  <2>3. \A u \in Urls : task[begun'][u].stage = "out"
    BY <2>1, <2>2 DEF MirrorInv, RunInv
  <2>4. \A u \in Urls : task'[begun'][u].stage \in {"queued", "out"}
    BY <2>1
  <2>5. "out" \notin Busy /\ "queued" \notin Busy
    BY DEF Busy
  <2>6. Committed' = Committed
    BY <2>1, <2>3, <2>4 DEF Committed
  <2>7. \A r \in Runs : BusyOf(r)' \subseteq BusyOf(r)
    BY <2>1, <2>4, <2>5 DEF BusyOf
  <2>8. QED
    BY <2>1, <2>6, <2>7, CancelKept
<1>2. CASE ~RunClaim(q) /\ ~RetryClaim(q)
  <2>1. /\ Committed' = Committed
        /\ \A r \in Runs : BusyOf(r)' \subseteq BusyOf(r)
    BY <1>2, HandlerFrame, SameCommitted
  <2>2. CASE CancelSet(q)
    <3>1. /\ cancel' = TRUE
          /\ due' = IF cancel THEN due ELSE Cardinality(Committed)
      BY <2>2 DEF CancelSet
    <3>2. due' = IF cancel' THEN Cardinality(Committed') ELSE 0
      BY <2>1, <3>1 DEF CancelInv
    <3>3. QED
      BY <2>1, <3>2, FewerBusy DEF CancelInv
  <2>3. CASE ~CancelSet(q)
    <3>1. UNCHANGED <<cancel, due>>
      BY <1>2, <2>3 DEF HandlerStep, UserStep, RunRefused, RetryPick,
         RetryRefused, CancelUnpause, CancelSave, PauseClear, RunCheck,
         RetryCheck, PauseCheck, Resume, flags, runVars
    <3>2. QED
      BY <2>1, <3>1, CancelKept
  <2>4. QED
    BY <2>2, <2>3
<1>3. QED
  BY <1>1, <1>2

LEMMA CancelWorker ==
  ASSUME Typed, SlotInv, MirrorInv, CancelInv, NEW r \in Runs, WorkerStep(r)
  PROVE  CancelInv'
<1>0. "out" \notin Busy /\ "queued" \notin Busy
  BY DEF Busy
<1>1. /\ Committed' = Committed
      /\ \A s \in Runs : BusyOf(s)' \subseteq BusyOf(s)
  <2>1. CASE task' = task
    <3>1. kind' = kind
      BY WorkerFrame
    <3>2. QED
      BY <2>1, <3>1, SameStageSelf, SameCommitted
  <2>2. CASE StartCheck(r) \/ CheckRaises(r)
    <3>1. kind' = kind
      BY WorkerFrame
    <3>2. \A u \in Urls : /\ task[r][u].stage \notin Busy
                          /\ task[r][u].stage # "accepted"
      <4>1. CASE StartCheck(r)
        <5>1. wpc[r] = "unpause"
          BY <4>1 DEF StartCheck, Move
        <5>2. QED
          BY <1>0, <5>1 DEF MirrorInv, RunInv
      <4>2. CASE CheckRaises(r)
        <5>1. "accepted" \in Busy
          BY DEF Busy, Stage
        <5>2. QED
          BY <4>2, <5>1 DEF CheckRaises
      <4>3. QED
        BY <2>2, <4>1, <4>2
    <3>3. \A u \in Urls : task'[r][u].stage \in {"queued", "out"}
      <4>1. CASE StartCheck(r)
        <5>1. \A u \in Urls : task'[r][u] \in
                {NoTask, [NoTask EXCEPT !.stage = "queued"]}
          BY <4>1 DEF StartCheck
        <5>2. QED
          BY <5>1, FreshType
      <4>2. CASE CheckRaises(r)
        <5>1. \A u \in Urls : task'[r][u] = NoTask
          BY <4>2 DEF CheckRaises, Typed
        <5>2. QED
          BY <5>1, FreshType
      <4>3. QED
        BY <2>2, <4>1, <4>2
    <3>4. \A s \in Runs, u \in Urls :
            s # r => SameStage(task[s][u].stage, task'[s][u].stage)
      BY WorkerTasks
    <3>5. Committed' = Committed
      BY <3>1, <3>2, <3>3, <3>4 DEF Committed, SameStage
    <3>6. \A s \in Runs : BusyOf(s)' \subseteq BusyOf(s)
      BY <1>0, <3>3, <3>4 DEF BusyOf, SameStage
    <3>7. QED
      BY <3>5, <3>6
  <2>3. QED
    BY <2>1, <2>2, WorkerTasks
<1>2. CASE ClearCancel(r)
  <2>1. cancel' = FALSE /\ due' = 0
    BY <1>2 DEF ClearCancel
  <2>2. QED
    BY <1>1, <2>1, FewerBusy DEF CancelInv
<1>3. CASE ~ClearCancel(r)
  <2>1. UNCHANGED <<cancel, due>>
    BY <1>3 DEF WorkerStep, FetchUrls, FetchFails, ResetLive, StartCheck,
       CheckReturns, CheckRaises, ReplaceLive, AnnounceDone, Finally, flags
  <2>2. QED
    BY <1>1, <2>1, CancelKept
<1>4. QED
  BY <1>2, <1>3

LEMMA CancelTask ==
  ASSUME Typed, CancelInv, NEW r \in Runs, NEW u \in Urls, TaskStep(r, u)
  PROVE  CancelInv'
<1> DEFINE old == task[r][u].stage
           new == task'[r][u].stage
<1>1. /\ kind' = kind /\ cancel' = cancel
      /\ \A s \in Runs, v \in Urls :
           <<s, v>> # <<r, u>> => task'[s][v] = task[s][v]
      /\ Record(r, u) \/ due' = due
  BY TaskFrame
<1>2. \A s \in Stage : s \in Busy <=> s \notin {"queued", "out"}
  BY DEF Busy
<1>3. task[r][u] \in Task /\ old \in Stage
  BY DEF Typed, Task
<1>4. ASSUME new \in Busy => old \in Busy
      PROVE  \A s \in Runs : BusyOf(s)' \subseteq BusyOf(s)
  BY <1>1, <1>4 DEF BusyOf
<1>5. ASSUME kind[r] = "run" => (new = "accepted" <=> old = "accepted")
      PROVE  Committed' = Committed
  BY <1>1, <1>5 DEF Committed
<1>6. CASE Report(r, u)
  <2>1. PICK st \in Status :
          task' = [task EXCEPT ![r][u] =
            [num |-> rows[r] + 1, status |-> st,
             stage |-> IF kind[r] = "run" THEN "reported" ELSE "accepted"]]
    BY <1>6 DEF Report
  <2>2. /\ old = "queued"
        /\ new = IF kind[r] = "run" THEN "reported" ELSE "accepted"
    BY <1>6, <2>1 DEF Report, At, Typed
  <2>3. Committed' = Committed
    BY <1>5, <2>2
  <2>4. BusyOf(r)' \subseteq BusyOf(r) \cup {u}
    BY <1>1 DEF BusyOf
  <2>5. Cardinality(BusyOf(r)) < Tabs
    BY <1>6 DEF Report, BusyOf
  <2>6. /\ IsFiniteSet(BusyOf(r)) /\ Cardinality(BusyOf(r)) \in Nat
        /\ IsFiniteSet(BusyOf(r)') /\ Cardinality(BusyOf(r)') \in Nat
    BY UrlsCountable DEF BusyOf
  <2>7. /\ IsFiniteSet(BusyOf(r) \cup {u})
        /\ Cardinality(BusyOf(r) \cup {u}) <= Cardinality(BusyOf(r)) + 1
        /\ Cardinality(BusyOf(r) \cup {u}) \in Nat
    <3>1. /\ IsFiniteSet(BusyOf(r) \cup {u})
          /\ \/ Cardinality(BusyOf(r) \cup {u}) = Cardinality(BusyOf(r))
             \/ Cardinality(BusyOf(r) \cup {u}) = Cardinality(BusyOf(r)) + 1
      BY <2>6, FS_AddElement
    <3>2. QED
      BY <2>6, <3>1
  <2>8. Cardinality(BusyOf(r)') <= Cardinality(BusyOf(r) \cup {u})
    BY <2>4, <2>7, FS_Subset
  <2>9. Cardinality(BusyOf(r)') <= Tabs
    BY <2>5, <2>6, <2>7, <2>8, IndexAssumption
  <2>10. \A s \in Runs \ {r} : BusyOf(s)' = BusyOf(s)
    BY <1>1 DEF BusyOf
  <2>11. due' = due
    BY <1>6 DEF Report
  <2>12. QED
    BY <1>1, <2>3, <2>9, <2>10, <2>11 DEF CancelInv
<1>7. CASE Skip(r, u)
  <2>1. old = "queued" /\ new = "out" /\ due' = due
    BY <1>7, FreshType DEF Skip, At, Stay, Typed
  <2>2. QED
    BY <1>1, <1>2, <1>3, <1>4, <1>5, <2>1, CancelKept DEF Stage
<1>8. CASE WaitUnpaused(r, u)
  <2>1. /\ old = "reported" /\ new \in {"cleared", "waiting"} /\ due' = due
    <3>1. /\ old = "reported" /\ due' = due
          /\ task'[r][u] = [task[r][u] EXCEPT !.stage =
                              IF unpaused THEN "cleared" ELSE "waiting"]
      BY <1>8 DEF WaitUnpaused, At, Stay, Typed
    <3>2. "cleared" \in Stage /\ "waiting" \in Stage
      BY DEF Stage
    <3>3. QED
      BY <1>3, <3>1, <3>2, StageType
  <2>2. old \in Busy
    BY <2>1 DEF Busy, Stage
  <2>3. QED
    BY <1>1, <1>4, <1>5, <2>1, <2>2, CancelKept
<1>9. CASE LookAtCancel(r, u)
  <2>1. /\ old = "cleared" /\ due' = due
        /\ new = IF cancel THEN "out" ELSE "accepted"
    <3>1. /\ old = "cleared" /\ due' = due
          /\ task'[r][u] = IF cancel THEN NoTask
                           ELSE [task[r][u] EXCEPT !.stage = "accepted"]
      BY <1>9 DEF LookAtCancel, At, Stay, Typed
    <3>2. "accepted" \in Stage
      BY DEF Stage
    <3>3. QED
      BY <1>3, <3>1, <3>2, StageType, FreshType
  <2>2. old \in Busy
    BY <2>1 DEF Busy, Stage
  <2>3. \A s \in Runs : BusyOf(s)' \subseteq BusyOf(s)
    BY <1>4, <2>2
  <2>4. CASE cancel
    BY <1>1, <1>5, <2>1, <2>3, <2>4, CancelKept
  <2>5. CASE ~cancel
    BY <1>1, <2>1, <2>3, <2>5, FewerBusy DEF CancelInv
  <2>6. QED
    BY <2>4, <2>5
<1>10. CASE Record(r, u)
  <2>1. /\ old = "accepted" /\ new = "recorded"
        /\ due' = IF cancel /\ kind[r] = "run" THEN due - 1 ELSE due
    <3>1. /\ old = "accepted"
          /\ due' = IF cancel /\ kind[r] = "run" THEN due - 1 ELSE due
          /\ task'[r][u] = [task[r][u] EXCEPT !.stage = "recorded"]
      BY <1>10 DEF Record, At, Typed
    <3>2. "recorded" \in Stage
      BY DEF Stage
    <3>3. QED
      BY <1>3, <3>1, <3>2, StageType
  <2>2. old \in Busy
    BY <2>1 DEF Busy, Stage
  <2>3. \A s \in Runs : BusyOf(s)' \subseteq BusyOf(s)
    BY <1>4, <2>2
  <2>4. CASE kind[r] = "run"
    <3>1. <<r, u>> \in Committed /\ Committed' = Committed \ {<<r, u>>}
      BY <1>1, <2>1, <2>4 DEF Committed
    <3>2. Cardinality(Committed') = Cardinality(Committed) - 1
      BY <3>1, CommittedCountable, FS_RemoveElement
    <3>3. due' = IF cancel' THEN Cardinality(Committed') ELSE 0
      BY <1>1, <2>1, <2>4, <3>2 DEF CancelInv
    <3>4. QED
      BY <2>3, <3>3, FewerBusy DEF CancelInv
  <2>5. CASE kind[r] # "run"
    BY <1>1, <1>5, <2>1, <2>3, <2>5, CancelKept
  <2>6. QED
    BY <2>4, <2>5
<1>11. CASE Count(r, u)
  <2>1. old = "recorded" /\ new = "out" /\ due' = due
    BY <1>11, FreshType DEF Count, At, runVars, Typed
  <2>2. old \in Busy
    BY <2>1 DEF Busy, Stage
  <2>3. QED
    BY <1>1, <1>4, <1>5, <2>1, <2>2, CancelKept
<1>12. QED
  BY <1>6, <1>7, <1>8, <1>9, <1>10, <1>11 DEF TaskStep

LEMMA CancelInvStep ==
  ASSUME Typed, SlotInv, MirrorInv, CancelInv, [Next]_vars
  PROVE  CancelInv'
<1>1. CASE Restart
  <2>1. /\ cancel' = FALSE /\ due' = 0
        /\ \A r \in Runs, u \in Urls : task'[r][u] = NoTask
    BY <1>1 DEF Restart
  <2>2. "out" \notin Busy
    BY DEF Busy
  <2>3. \A r \in Runs : BusyOf(r)' \subseteq BusyOf(r)
    BY <2>1, <2>2, FreshType DEF BusyOf
  <2>4. QED
    BY <2>1, <2>3, FewerBusy DEF CancelInv
<1>2. CASE UNCHANGED vars
  BY <1>2, SameStageSelf, SameCommitted, CancelKept DEF vars, flags, runVars
<1>3. QED
  BY <1>1, <1>2, CancelHandler, CancelWorker, CancelTask DEF Next

\* The callbacks committed are of the run in progress, which occupies no more
\* tabs than there are.
LEMMA CommittedFits ==
  ASSUME SlotInv, MirrorInv, CancelInv
  PROVE  Cardinality(Committed) <= Tabs
<1>1. CASE Committed = {}
  BY <1>1, FS_EmptySet, IndexAssumption
<1>2. CASE Committed # {}
  <2>1. \A x \in Committed : x[1] \in Runs /\ x[2] \in Urls
                             /\ x = <<x[1], x[2]>>
                             /\ task[x[1]][x[2]].stage = "accepted"
    BY DEF Committed
  <2>2. \A x \in Committed : x[1] = begun /\ begun \in Runs
    BY <2>1 DEF MirrorInv, RunInv, SlotInv, Active, WorkerPC
  <2>3. begun \in Runs
    BY <1>2, <2>2
  <2>4. "accepted" \in Busy
    BY DEF Busy, Stage
  <2> DEFINE f == [x \in Committed |-> x[2]]
  <2>5. f \in [Committed -> BusyOf(begun)]
    BY <2>1, <2>2, <2>4 DEF BusyOf
  <2>6. \A x, y \in Committed : f[x] = f[y] => x = y
    BY <2>1, <2>2
  <2>7. f \in Injection(Committed, BusyOf(begun))
    BY <2>5, <2>6 DEF Injection, IsInjective
  <2>8. IsFiniteSet(BusyOf(begun)) /\ Cardinality(BusyOf(begun)) \in Nat
    BY UrlsCountable DEF BusyOf
  <2>9. Cardinality(Committed) <= Cardinality(BusyOf(begun))
    BY <2>7, <2>8, FS_Injection
  <2>10. Cardinality(BusyOf(begun)) <= Tabs
    BY <2>3 DEF CancelInv
  <2>11. QED
    BY <2>8, <2>9, <2>10, CommittedCountable, IndexAssumption
<1>3. QED
  BY <1>1, <1>2

(* After a cancellation no more results are recorded than there are tabs:   *)
(* those of callbacks that were past their look at the flag.  No callback   *)
(* gets past it while the flag is set, so each one that records leaves one  *)
(* fewer.                                                                   *)
THEOREM PromptCancel == Spec => [](CancelInv /\ CancelWithinTabs)
<1>1. Init => CancelInv
  <2>1. ASSUME Init, NEW r \in Runs
        PROVE  BusyOf(r) = {}
    BY <2>1, FreshType DEF Init, BusyOf, Busy
  <2>2. ASSUME Init, NEW r \in Runs
        PROVE  Cardinality(BusyOf(r)) <= Tabs
    <3>1. Cardinality(BusyOf(r)) = 0
      BY <2>1, <2>2, FS_EmptySet
    <3>2. QED
      BY <3>1, IndexAssumption
  <2>3. Init => due = 0 /\ ~cancel
    BY DEF Init
  <2>4. QED
    BY <2>2, <2>3 DEF CancelInv
<1>2. Typed /\ SlotInv /\ MirrorInv /\ CancelInv /\ [Next]_vars => CancelInv'
  BY CancelInvStep
<1>3. SlotInv /\ MirrorInv /\ CancelInv => CancelWithinTabs
  BY CommittedFits, CommittedCountable, IndexAssumption
     DEF CancelInv, CancelWithinTabs
<1>4. QED
  BY <1>1, <1>2, <1>3, TypedAlways, Exclusion, MirrorAlways, PTL DEF Spec

-----------------------------------------------------------------------------
(* Refinement.                                                              *)

\* What the run slot sees of a state.
Asked  == cancel /\ begun # 0 /\ Heeds(begun)
InHand == IF Asked THEN due ELSE 0

\* The slot sees neither the map nor the callbacks.
LEMMA SlotBlind ==
  ASSUME UNCHANGED <<running, begun>>, Asked' = Asked, InHand' = InHand
  PROVE  [Slot!Next]_(Slot!vars)
  BY DEF Slot!vars, Asked, InHand

\* Being asked for the first time, with so many results in hand.
LEMMA SlotStop ==
  ASSUME UNCHANGED <<running, begun>>, ~Asked, Asked', due' \in 0..Tabs
  PROVE  Slot!Next
<1>1. InHand' \in 0..Tabs
  BY DEF InHand
<1>2. Slot!Stop
  BY <1>1 DEF Slot!Stop, Asked, InHand
<1>3. QED
  BY <1>2 DEF Slot!Next

\* How many callbacks are past their look at the flag.
LEMMA DueFits ==
  ASSUME SlotInv, MirrorInv, CancelInv
  PROVE  Cardinality(Committed) \in 0..Tabs
  BY CommittedFits, CommittedCountable, IndexAssumption

LEMMA SlotHandler ==
  ASSUME Typed, SlotInv, MirrorInv, CancelInv,
         NEW q \in Requests, HandlerStep(q) \/ UserStep(q)
  PROVE  [Slot!Next]_(Slot!vars)
<1>1. CASE RunClaim(q) \/ RetryClaim(q)
  <2>1. /\ ~running /\ running' /\ begun' = begun + 1 /\ begun' \in Runs
        /\ kind'[begun'] = "run" => wpc'[begun'] = "fetch"
    BY <1>1, ClaimEffect
  <2>2. ~Asked' /\ InHand' = 0
    BY <2>1 DEF Asked, InHand, Heeds
  <2>3. begun' # 0
    BY <2>1 DEF Runs
  <2>4. Slot!Begin
    BY <2>1, <2>2, <2>3 DEF Slot!Begin, Asked, InHand
  <2>5. QED
    BY <2>4 DEF Slot!Next
<1>2. CASE ~RunClaim(q) /\ ~RetryClaim(q)
  <2>1. UNCHANGED <<running, begun, kind, wpc>>
    BY <1>2, HandlerFrame
  <2>2. CASE CancelSet(q)
    <3>1. cancel' /\ due' = IF cancel THEN due ELSE Cardinality(Committed)
      BY <2>2 DEF CancelSet
    <3>2. CASE Asked \/ ~Asked'
      <4>1. Asked' = Asked
        BY <2>1, <3>1, <3>2 DEF Asked, Heeds
      <4>2. InHand' = InHand
        BY <3>1, <4>1 DEF InHand, Asked
      <4>3. QED
        BY <2>1, <4>1, <4>2, SlotBlind
    <3>3. CASE ~Asked /\ Asked'
      <4>1. ~cancel
        BY <2>1, <3>3 DEF Asked, Heeds
      <4>2. due' \in 0..Tabs
        BY <3>1, <4>1, DueFits
      <4>3. QED
        BY <2>1, <3>3, <4>2, SlotStop
    <3>4. QED
      BY <3>2, <3>3
  <2>3. CASE ~CancelSet(q)
    <3>1. UNCHANGED <<cancel, due>>
      BY <1>2, <2>3 DEF HandlerStep, UserStep, RunRefused, RetryPick,
         RetryRefused, CancelUnpause, CancelSave, PauseClear, RunCheck,
         RetryCheck, PauseCheck, Resume, flags, runVars
    <3>2. Asked' = Asked
      BY <2>1, <3>1 DEF Asked, Heeds
    <3>3. InHand' = InHand
      BY <3>1, <3>2 DEF InHand
    <3>4. QED
      BY <2>1, <3>2, <3>3, SlotBlind
  <2>4. QED
    BY <2>2, <2>3
<1>3. QED
  BY <1>1, <1>2

LEMMA SlotWorker ==
  ASSUME Typed, SlotInv, MirrorInv, CancelInv, NEW r \in Runs, WorkerStep(r)
  PROVE  [Slot!Next]_(Slot!vars)
<1>1. /\ r = begun /\ running /\ begun # 0
      /\ begun' = begun /\ kind' = kind
      /\ Finally(r) \/ running' = running
  BY WorkerFrame DEF SlotInv, Runs
<1>2. CASE FetchFails(r)
  <2>1. /\ wpc[r] = "fetch" /\ wpc'[r] = "finally"
        /\ UNCHANGED <<running, cancel, due>>
    BY <1>2 DEF FetchFails, Move, Typed, flags
  <2>2. ~Asked
    BY <1>1, <2>1 DEF Asked, Heeds
  <2>3. CASE Asked'
    <3>1. cancel
      BY <2>1, <2>3 DEF Asked
    <3>2. due' \in 0..Tabs
      BY <2>1, <3>1, DueFits DEF CancelInv
    <3>3. QED
      BY <1>1, <2>1, <2>2, <2>3, <3>2, SlotStop
  <2>4. CASE ~Asked'
    <3>1. Asked' = Asked /\ InHand' = InHand
      BY <2>2, <2>4 DEF InHand, Asked
    <3>2. QED
      BY <1>1, <2>1, <3>1, SlotBlind
  <2>5. QED
    BY <2>3, <2>4
<1>3. CASE ClearCancel(r)
  <2>1. wpc[r] = "clear" /\ ~cancel' /\ running' = running
    BY <1>3 DEF ClearCancel, Move
  <2>2. ~Asked /\ ~Asked'
    BY <1>1, <2>1 DEF Asked, Heeds
  <2>3. Asked' = Asked /\ InHand' = InHand
    BY <2>2 DEF InHand, Asked
  <2>4. QED
    BY <1>1, <2>1, <2>3, SlotBlind
<1>4. CASE ~FetchFails(r) /\ ~ClearCancel(r)
  <2>1. UNCHANGED <<cancel, due>>
    BY <1>4 DEF WorkerStep, FetchUrls, ResetLive, StartCheck, CheckReturns,
       CheckRaises, ReplaceLive, AnnounceDone, Finally, flags
  <2>2. wpc'[r] \in {"fetch", "reset", "clear"}
          <=> wpc[r] \in {"fetch", "reset", "clear"}
    BY <1>4 DEF WorkerStep, FetchUrls, ResetLive, StartCheck, CheckReturns,
       CheckRaises, ReplaceLive, AnnounceDone, Finally, Move, Typed
  <2>3. Heeds(begun)' = Heeds(begun)
    BY <1>1, <2>2 DEF Heeds
  <2>4. Asked' = Asked
    BY <1>1, <2>1, <2>3 DEF Asked
  <2>5. InHand' = InHand
    BY <2>1, <2>4 DEF InHand
  <2>6. CASE Finally(r)
    <3>1. ~running'
      BY <2>6 DEF Finally
    <3>2. Slot!End
      BY <1>1, <2>4, <2>5, <3>1 DEF Slot!End, Asked, InHand
    <3>3. QED
      BY <3>2 DEF Slot!Next
  <2>7. QED
    BY <1>1, <2>4, <2>5, <2>6, SlotBlind
<1>5. QED
  BY <1>2, <1>3, <1>4

LEMMA SlotTask ==
  ASSUME Typed, SlotInv, MirrorInv, CancelInv,
         NEW r \in Runs, NEW u \in Urls, TaskStep(r, u)
  PROVE  [Slot!Next]_(Slot!vars)
<1>1. /\ UNCHANGED <<running, begun, cancel, kind, wpc>>
      /\ task[r][u].stage # "out"
      /\ Record(r, u) \/ due' = due
  BY TaskFrame
<1>2. Asked' = Asked
  BY <1>1 DEF Asked, Heeds
<1>3. CASE due' = due
  <2>1. InHand' = InHand
    BY <1>2, <1>3 DEF InHand
  <2>2. QED
    BY <1>1, <1>2, <2>1, SlotBlind
<1>4. CASE due' # due
  <2>1. /\ cancel /\ kind[r] = "run" /\ due' = due - 1
        /\ task[r][u].stage = "accepted"
    BY <1>1, <1>4 DEF Record, At
  <2>2. wpc[r] = "check"
    BY <1>1 DEF MirrorInv, RunInv
  <2>3. r = begun /\ running /\ begun # 0
    BY <2>2 DEF SlotInv, Active, WorkerPC, Runs
  <2>4. Asked
    BY <2>1, <2>2, <2>3 DEF Asked, Heeds
  <2>5. due \in Nat /\ due > 0
    <3>1. <<r, u>> \in Committed
      BY <2>1 DEF Committed
    <3>2. Cardinality(Committed) # 0
      BY <3>1, CommittedCountable, FS_EmptySet
    <3>3. QED
      BY <2>1, <3>2, CommittedCountable DEF CancelInv
  <2>6. InHand > 0 /\ InHand' = InHand - 1
    BY <1>2, <2>1, <2>4, <2>5 DEF InHand
  <2>7. {} \in SUBSET {<<begun, u>>} /\ {} = {} \cup {}
    OBVIOUS
  <2>8. Slot!Collect(u)
    BY <1>1, <1>2, <2>3, <2>4, <2>6, <2>7 DEF Slot!Collect, Asked, InHand
  <2>9. QED
    BY <2>8 DEF Slot!Next
<1>5. QED
  BY <1>3, <1>4

\* Every step of the threads is a step of the run slot, or changes nothing
\* the slot can see.
LEMMA SlotStep ==
  ASSUME Typed, SlotInv, MirrorInv, CancelInv, [Next]_vars
  PROVE  [Slot!Next]_(Slot!vars)
<1>1. CASE Restart
  <2>1. ~running' /\ ~cancel' /\ begun' = begun
    BY <1>1 DEF Restart
  <2>2. ~Asked' /\ InHand' = 0
    BY <2>1 DEF Asked, InHand
  <2>3. Slot!Restart
    BY <2>1, <2>2 DEF Slot!Restart, Asked, InHand
  <2>4. QED
    BY <2>3 DEF Slot!Next
<1>2. CASE UNCHANGED vars
  <2>1. UNCHANGED <<running, begun, cancel, due, kind, wpc>>
    BY <1>2 DEF vars, flags, runVars
  <2>2. Asked' = Asked
    BY <2>1 DEF Asked, Heeds
  <2>3. InHand' = InHand
    BY <2>1, <2>2 DEF InHand
  <2>4. QED
    BY <2>1, <2>2, <2>3, SlotBlind
<1>3. QED
  BY <1>1, <1>2, SlotHandler, SlotWorker, SlotTask DEF Next

(* The indexing threads implement the run slot, too: a run or a retry       *)
(* begins on a free slot only; a run that was asked to stop after its       *)
(* worker cleared the flag remains so until the next claim, and records no  *)
(* more results than callbacks were past their look at the flag, one to a   *)
(* tab at most.                                                             *)
THEOREM Refinement == Spec => ImplementsRunSlot
<1>1. Init => Slot!Init
  BY DEF Init, Slot!Init
<1>2. Typed /\ SlotInv /\ MirrorInv /\ CancelInv /\ [Next]_vars
        => [Slot!Next]_(Slot!vars)
  BY SlotStep
<1>3. QED
  BY <1>1, <1>2, TypedAlways, Exclusion, MirrorAlways, PromptCancel, PTL
     DEF Spec, ImplementsRunSlot, Slot!Spec
=============================================================================
