------------------------------ MODULE Checker ------------------------------
(***************************************************************************)
(* The index checker, core/checker.py: run_check with its progress file,   *)
(* and execute_and_save around it.                                         *)
(*                                                                         *)
(* One check at a time (the slot of IndexRun).  Its URLs are spread over   *)
(* browser tabs, or asked of Search Console first, or visited in a single  *)
(* tab with a second pass over failures.  Results are entered in a section *)
(* under _result_lock and saved every SaveEvery results, so that a check   *)
(* that was killed, or that raised, can be resumed.                        *)
(*                                                                         *)
(* URLs are numbers, ordered as the strings they stand for.  The list given*)
(* to a check is in any order and may name a URL twice: nothing on the way *)
(* from a sitemap or a form removes duplicates.  What is still to be done  *)
(* is told by positions of the list.                                       *)
(***************************************************************************)
EXTENDS Naturals, Sequences, FiniteSets, SequencesExt

CONSTANTS
  Urls,             \* the URLs that can be checked, a set of numbers
  Lists,            \* the lists of them that a check can be given
  MaxTabs,          \* the largest parallel_tabs of config.json
  SaveEvery,        \* results between two saves of progress (10)
  KeyLength,        \* how many URLs name the progress file (3)
  HistoryLength,    \* entries kept in history.json (30)
  HasXlsx,          \* openpyxl is installed
  MaxChecks         \* bound of the model on the number of checks

ASSUME CheckerAssumption ==
  /\ Urls \subseteq Nat /\ IsFiniteSet(Urls)
  /\ Lists \subseteq Seq(Urls) /\ <<>> \notin Lists
  /\ MaxTabs \in Nat \ {0} /\ SaveEvery \in Nat \ {0}
  /\ KeyLength \in Nat \ {0} /\ HistoryLength \in Nat \ {0}
  /\ MaxChecks \in Nat \ {0} /\ HasXlsx \in BOOLEAN

\* What a URL can turn out to be.  "Error" stands for time-outs and browser
\* errors, "GscFailed" for the text of a failed inspection, which the code
\* takes for neither a verdict nor a failure.
Verdict == {"Indexed", "NotIndexed"}
Status  == Verdict \cup {"Error", "GscFailed"}
Failure == {"Error"}
Unknown == "none"

VARIABLES
  saved,            \* the progress files: what each says of each URL
  disk,             \* the report files of each check
  history,          \* history.json
  checks,           \* number of checks begun
  killed,           \* checks that were killed or failed in the browser
  pc,               \* control point of the check in progress
  urls,             \* its list of URLs
  fullSaved,        \* what the progress file said when it began
  batch,            \* positions of urls still to be checked, by tab
  deferred,         \* positions Search Console could not resolve
  again,            \* failed URLs the second pass has still to visit
  died,             \* a tab ended before its batch did
  failed,           \* failed_urls
  rows,             \* all_rows
  counts,           \* counts
  byType,           \* type_summary, its types added up
  results,          \* current_results
  saves             \* _save_counter

disks == <<saved, disk, history, checks, killed>>
work  == <<urls, fullSaved>>
queue == <<batch, deferred, again, died>>
found == <<failed, rows, counts, byType, results, saves>>
vars  == <<disks, pc, work, queue, found>>

Tabs   == 0..(MaxTabs - 1)
Checks == 1..MaxChecks
File   == {"csv", "xlsx", "html"}
Row    == [url : Urls, status : Status]
Known  == [Urls -> Status \cup {Unknown}]
Tally  == [Status -> Nat]
Entry  == [total : Nat, indexed : Nat, notIndexed : Nat]

PC == {"idle", "gsc", "tabs", "single", "surface", "fallback", "retry",
       "unlink", "csv", "compare", "history", "xlsx", "html"}

\* The progress file is named after the first KeyLength URLs of the sorted list.
Key(l) ==
  SubSeq(SortSeq(l, LAMBDA u, v : u < v), 1, IF Len(l) < KeyLength THEN Len(l) ELSE KeyLength)
Keys == {Key(l) : l \in Lists}

urls_set == ToSet(urls)

Nothing  == [u \in Urls |-> Unknown]
NoCounts == [s \in Status |-> 0]
NoBatch  == [t \in Tabs |-> {}]

TypeOK ==
  /\ saved \in [Keys -> Known]
  /\ disk \in [Checks -> SUBSET File]
  /\ history \in Seq(Entry) /\ Len(history) <= HistoryLength
  /\ checks \in 0..MaxChecks /\ killed \subseteq Checks
  /\ pc \in PC
  /\ urls \in Seq(Urls) /\ fullSaved \in Known
  /\ batch \in [Tabs -> SUBSET DOMAIN urls]
  /\ deferred \subseteq DOMAIN urls /\ again \in Seq(Urls) /\ died \in BOOLEAN
  /\ failed \in Seq(Urls) /\ rows \in Seq(Row)
  /\ counts \in Tally /\ byType \in Tally /\ results \in Known /\ saves \in Nat

Init ==
  /\ saved = [k \in Keys |-> Nothing]
  /\ disk = [c \in Checks |-> {}] /\ history = <<>>
  /\ checks = 0 /\ killed = {}
  /\ pc = "idle" /\ urls = <<>> /\ fullSaved = Nothing
  /\ batch = NoBatch /\ deferred = {} /\ again = <<>> /\ died = FALSE
  /\ failed = <<>> /\ rows = <<>> /\ counts = NoCounts /\ byType = NoCounts
  /\ results = Nothing /\ saves = 0

Forget ==
  /\ pc' = "idle" /\ urls' = <<>> /\ fullSaved' = Nothing
  /\ batch' = NoBatch /\ deferred' = {} /\ again' = <<>> /\ died' = FALSE
  /\ failed' = <<>> /\ rows' = <<>> /\ counts' = NoCounts /\ byType' = NoCounts
  /\ results' = Nothing /\ saves' = 0

-----------------------------------------------------------------------------
(* Beginning, perhaps where an earlier check stopped.                       *)

TallyOf(rs) ==
  [s \in Status |-> Cardinality({i \in DOMAIN rs : rs[i].status = s})]

\* What the file says of the URLs of this check.
Seed(l) == [u \in Urls |-> IF u \in ToSet(l) THEN saved[Key(l)][u] ELSE Unknown]

\* A row for each position of these, in an order that nothing depends on.
SeedRows(l) ==
  LET known == SetToSeq({i \in DOMAIN l : saved[Key(l)][l[i]] # Unknown})
  IN  [i \in DOMAIN known |->
         [url |-> l[known[i]], status |-> saved[Key(l)][l[known[i]]]]]

\* Mutant of Remaining: nothing is taken from the file.
RemainingAll(l) == DOMAIN l

\* Only definite verdicts are not asked for again.
Remaining(l) == {i \in DOMAIN l : saved[Key(l)][l[i]] \notin Verdict}

\* Every n-th of the remaining positions goes to the same tab.
Spread(left, n) ==
  [t \in Tabs |-> {i \in left : Cardinality({j \in left : j < i}) % n = t}]

\* How the remaining URLs are checked: Search Console if it is configured and
\* can be reached, else one tab or several.
Begin(l, gsc, tabs) ==
  LET left == Remaining(l)
      n    == IF tabs < Cardinality(left) THEN tabs ELSE Cardinality(left)
  IN  /\ pc = "idle" /\ checks < MaxChecks
      /\ checks' = checks + 1
      /\ urls' = l /\ fullSaved' = saved[Key(l)]
      /\ rows' = SeedRows(l) /\ counts' = TallyOf(SeedRows(l)) /\ byType' = counts'
      /\ results' = Seed(l)
      /\ failed' = <<>> /\ saves' = 0
      /\ deferred' = {} /\ again' = <<>> /\ died' = FALSE
      /\ IF gsc \/ n <= 1
           THEN /\ batch' = [NoBatch EXCEPT ![0] = left]
                /\ pc' = IF gsc THEN "gsc" ELSE "single"
           ELSE /\ batch' = Spread(left, n)
                /\ pc' = "tabs"
      /\ UNCHANGED <<saved, disk, history, killed>>

-----------------------------------------------------------------------------
(* Entering a result.                                                       *)

\* Mutant of Merged: what the file says of other URLs is not kept.
MergedAlone(full, new) == new

\* {**full_saved, **current_results}
Merged(full, new) ==
  [u \in Urls |-> IF new[u] = Unknown THEN full[u] ELSE new[u]]

\* Mutant of Save: the counter is compared one too late.
SaveLate(new) ==
  saved' = IF saves' % SaveEvery = 0 /\ saves > 1
             THEN [saved EXCEPT ![Key(urls)] = Merged(fullSaved, new)]
             ELSE saved

Save(new) ==
  saved' = IF saves' % SaveEvery = 0
             THEN [saved EXCEPT ![Key(urls)] = Merged(fullSaved, new)]
             ELSE saved

\* on_result, the section under _result_lock.
OnResult(u, s) ==
  /\ failed' = IF s \in Failure THEN Append(failed, u) ELSE failed
  /\ counts' = [counts EXCEPT ![s] = @ + 1]
  /\ byType' = [byType EXCEPT ![s] = @ + 1]
  /\ results' = [results EXCEPT ![u] = s]
  /\ rows' = Append(rows, [url |-> u, status |-> s])
  /\ saves' = saves + 1
  /\ Save(results')
  /\ UNCHANGED <<disk, history, checks, killed, work>>

\* google_check.
SerpStatus == Verdict \cup Failure

\* The queues are worked through in the order of the list.
Foremost(i, positions) == i \in positions /\ \A j \in positions : i <= j

\* A tab has an answer for the next of its URLs.
CheckUrl(t, i) ==
  /\ pc \in {"single", "tabs"}
  /\ Foremost(i, batch[t])
  /\ batch' = [batch EXCEPT ![t] = @ \ {i}]
  /\ \E s \in SerpStatus : OnResult(urls[i], s)
  /\ UNCHANGED <<pc, deferred, again, died>>

\* A tab thread raises, at its start or later; nobody notices.
TabDies(t) ==
  /\ pc = "tabs"
  /\ batch[t] # {}
  /\ batch' = [batch EXCEPT ![t] = {}]
  /\ died' = TRUE
  /\ UNCHANGED <<disks, pc, work, deferred, again, found>>

\* Search Console has an answer, or after its retries none.
AskGsc(i) ==
  /\ pc = "gsc"
  /\ Foremost(i, batch[0])
  /\ batch' = [batch EXCEPT ![0] = @ \ {i}]
  /\ \/ /\ \E s \in Verdict : OnResult(urls[i], s)
        /\ UNCHANGED deferred
     \/ /\ deferred' = deferred \cup {i}
        /\ UNCHANGED <<disks, work, found>>
  /\ UNCHANGED <<pc, again, died>>

\* What Search Console left: the failure is reported where there is no
\* browser, else a tab is opened.
GscThrough ==
  /\ pc = "gsc"
  /\ batch[0] = {}
  /\ pc' \in IF deferred = {} THEN {"unlink"} ELSE {"surface", "fallback"}
  /\ UNCHANGED <<disks, work, queue, found>>

Defer(i) ==
  /\ pc \in {"surface", "fallback"}
  /\ Foremost(i, deferred)
  /\ deferred' = deferred \ {i}
  /\ \E s \in IF pc = "surface" THEN {"GscFailed"} ELSE SerpStatus :
       OnResult(urls[i], s)
  /\ UNCHANGED <<pc, batch, again, died>>

\* The tabs are through.  Only the single tab has a second pass.
Through ==
  /\ \/ pc \in {"single", "tabs"} /\ \A t \in Tabs : batch[t] = {}
     \/ pc \in {"surface", "fallback"} /\ deferred = {}
  /\ pc' = IF pc = "single" /\ failed # <<>> THEN "retry" ELSE "unlink"
  /\ again' = IF pc = "single" THEN failed ELSE <<>>
  /\ UNCHANGED <<disks, work, batch, deferred, died, found>>

FirstRow(u) == CHOOSE i \in DOMAIN rows :
  rows[i].url = u /\ \A j \in 1..(i - 1) : rows[j].url # u

\* Mutant of Recount: the old status keeps its count.
RecountNew(old, new) == [counts EXCEPT ![new] = @ + 1]

Recount(old, new) ==
  [[counts EXCEPT ![old] = IF @ > 0 THEN @ - 1 ELSE 0] EXCEPT ![new] = @ + 1]

\* The second pass: the first row of the URL takes the new status; the summary
\* by type keeps the old one.
Retry(s) ==
  LET u == Head(again)
      i == FirstRow(u)
  IN  /\ pc = "retry" /\ again # <<>>
      /\ again' = Tail(again)
      /\ counts' = Recount(rows[i].status, s)
      /\ rows' = [rows EXCEPT ![i].status = s]
      /\ results' = [results EXCEPT ![u] = s]
      /\ saves' = saves + 1
      /\ Save(results')
      /\ UNCHANGED <<disk, history, checks, killed, pc, work, batch, deferred,
                     died, failed, byType>>

\* The second pass is over, or its browser failed: a warning.
RetryOver ==
  /\ pc = "retry"
  /\ pc' = "unlink" /\ again' = <<>>
  /\ UNCHANGED <<disks, work, batch, deferred, died, found>>

Unlink ==
  /\ pc = "unlink"
  /\ pc' = "csv"
  /\ saved' = [saved EXCEPT ![Key(urls)] = Nothing]
  /\ UNCHANGED <<disk, history, checks, killed, work, queue, found>>

-----------------------------------------------------------------------------
(* execute_and_save, after run_check has returned.                          *)

WriteCsv ==
  /\ pc = "csv"
  /\ pc' = "compare"
  /\ disk' = [disk EXCEPT ![checks] = @ \cup {"csv"}]
  /\ UNCHANGED <<saved, history, checks, killed, work, queue, found>>

\* The previous report is read, if the user asked for it; it may be gone.
Compare ==
  /\ pc = "compare"
  /\ \/ /\ pc' = "history"
        /\ UNCHANGED <<work, queue, found>>
     \/ Forget
  /\ UNCHANGED disks

LastOf(h) ==
  IF Len(h) <= HistoryLength THEN h
  ELSE SubSeq(h, Len(h) - HistoryLength + 1, Len(h))

SaveHistory ==
  /\ pc = "history"
  /\ pc' = "xlsx"
  /\ history' = LastOf(Append(history,
       [total |-> Len(rows), indexed |-> counts["Indexed"],
        notIndexed |-> counts["NotIndexed"]]))
  /\ UNCHANGED <<saved, disk, checks, killed, work, queue, found>>

\* Without openpyxl there is no workbook.
WriteExcel ==
  /\ pc = "xlsx"
  /\ pc' = "html"
  /\ disk' = [disk EXCEPT ![checks] = @ \cup IF HasXlsx THEN {"xlsx"} ELSE {}]
  /\ UNCHANGED <<saved, history, checks, killed, work, queue, found>>

WriteHtml ==
  /\ pc = "html"
  /\ disk' = [disk EXCEPT ![checks] = @ \cup {"html"}]
  /\ Forget
  /\ UNCHANGED <<saved, history, checks, killed>>

\* Writing the workbook or the HTML page raises: both are removed.
ReportFails ==
  /\ pc = "html" \/ (pc = "xlsx" /\ HasXlsx)
  /\ disk' = [disk EXCEPT ![checks] = @ \ {"xlsx", "html"}]
  /\ Forget
  /\ UNCHANGED <<saved, history, checks, killed>>

-----------------------------------------------------------------------------
\* The process is killed at any moment, or the browser can not be started: the
\* check is gone, files stay.
Abandon ==
  /\ pc # "idle"
  /\ killed' = killed \cup {checks}
  /\ Forget
  /\ UNCHANGED <<saved, disk, history, checks>>

Step ==
  \/ \E t \in Tabs, i \in DOMAIN urls : CheckUrl(t, i)
  \/ \E i \in DOMAIN urls : AskGsc(i) \/ Defer(i)
  \/ \E t \in Tabs : TabDies(t)
  \/ GscThrough \/ Through
  \/ \E s \in SerpStatus : Retry(s)
  \/ RetryOver \/ Unlink
  \/ WriteCsv \/ Compare \/ SaveHistory \/ WriteExcel \/ WriteHtml
  \/ ReportFails

Next ==
  \/ \E l \in Lists, gsc \in BOOLEAN, tabs \in 1..MaxTabs : Begin(l, gsc, tabs)
  \/ Step
  \/ Abandon

Spec == Init /\ [][Next]_vars
-----------------------------------------------------------------------------
(* The counters shown in reports, notifications and the history are those   *)
(* of the rows, whatever was resumed and whatever the second pass changed.  *)
(* The summary by type of URL agrees with them as long as nothing failed:   *)
(* what failed at first it counts as failed for good.                       *)
CountsMatchRows ==
  /\ counts = TallyOf(rows)
  /\ failed = <<>> => byType = counts

(* A check that no tab let down has a row and a result for each of its      *)
(* URLs when it returns, those that Search Console could not resolve        *)
(* included.                                                                *)
EveryUrlHasRow ==
  pc \in {"unlink", "csv", "compare", "history", "xlsx", "html"} /\ ~died =>
    /\ {rows[i].url : i \in DOMAIN rows} = urls_set
    /\ \A u \in urls_set : results[u] # Unknown

(* A check that was not killed leaves the CSV alone or with all of its      *)
(* siblings.                                                                *)
Whole == IF HasXlsx THEN File ELSE {"csv", "html"}

NoStraySibling ==
  pc = "idle" => \A c \in Checks \ killed : disk[c] \in {{}, {"csv"}, Whole}

(* The reports of a check are whole: the counters are those of the rows, no *)
(* URL is left out, and no file is left alone.                              *)
ReportsWhole == CountsMatchRows /\ EveryUrlHasRow /\ NoStraySibling

(* Killing a check before it deletes its progress file loses fewer than     *)
(* SaveEvery results: all others are in the file.  Killing it once the CSV  *)
(* is written leaves that.  In between, from the deletion to the CSV, the   *)
(* results are in memory alone, and a kill there loses every one of them.   *)
Unsaved == {u \in urls_set : results[u] # saved[Key(urls)][u]}

LossBounded ==
  /\ pc \in {"gsc", "tabs", "single", "surface", "fallback", "retry", "unlink"} =>
       Cardinality(Unsaved) < SaveEvery
  /\ pc \in {"compare", "history", "xlsx", "html"} => "csv" \in disk[checks]

(* A definite verdict, found or resumed, is not asked for again and does    *)
(* not change while the check lasts.  Only of a URL that the list names     *)
(* twice, and that was not resumed with a verdict, may a second answer      *)
(* replace the verdict of the first.                                        *)
NamedTwice(u) == \E i, j \in DOMAIN urls : i # j /\ urls[i] = u /\ urls[j] = u

VerdictsAreFinal ==
  [][pc # "idle" /\ pc' # "idle" =>
       \A u \in Urls : results[u] \in Verdict /\ results'[u] # results[u] =>
         NamedTwice(u) /\ fullSaved[u] \notin Verdict]_vars

(* Two checks whose first URLs agree share a progress file.  Saving one     *)
(* does not touch what the file says of URLs of the other alone: that only  *)
(* goes when a check whose URLs are through deletes the whole file.         *)
OthersProgressKept ==
  [][\A k \in Keys, u \in Urls :
       saved'[k][u] # saved[k][u] /\ u \notin urls_set =>
         pc = "unlink" /\ k = Key(urls) /\ saved'[k] = Nothing]_vars

=============================================================================
