------------------------------ MODULE Reports ------------------------------
(***************************************************************************)
(* The report files of audits under app/blueprints/reports.py: deletion by *)
(* stem, file after file, while a run writes or another request deletes,   *)
(* the list with its cap, and the PDF export with its semaphore.           *)
(* AuditRun models in what order a run writes its files; here they are     *)
(* only what the others act on.                                            *)
(***************************************************************************)
EXTENDS Naturals, FiniteSets, Sequences

CONSTANTS
  Threads,          \* request threads
  Stems,            \* names of reports without their extension, one for each run
  None,             \* no stem
  MaxPdf,           \* _pdf_semaphore
  MaxListed         \* how many reports of a kind api_reports lists

ASSUME ReportsAssumption == None \notin Stems /\ MaxPdf \in Nat \ {0} /\ MaxListed \in Nat

VARIABLES
  files,            \* REPORTS_DIR
  run,              \* the stem a run is writing, and the extension it writes next
  stems,            \* the stems runs have had, oldest first: they are timestamps
  req,              \* each thread's request
  permits,          \* of _pdf_semaphore
  torn              \* history: stems of which a deletion was interfered with

reportsVars == <<files, run, stems, req, permits, torn>>

Exts == {"html", "xlsx", "json"}
ReportFile == Stems \X Exts
NoRun == [stem |-> None, next |-> "html"]

\* delete: left are the stems still to delete, pend what the glob of the present
\* one found; pdf: between acquire and release, for stem.
Request == [stage : {"idle", "delete", "pdf"}, left : SUBSET Stems, pend : SUBSET ReportFile,
            stem : Stems \cup {None}]
Idle == [stage |-> "idle", left |-> {}, pend |-> {}, stem |-> None]
DeletingAll(left, pend) == [stage |-> "delete", left |-> left, pend |-> pend, stem |-> None]

ReportsTypeOK ==
  /\ files \in SUBSET ReportFile
  /\ run \in [stem : Stems \cup {None}, next : Exts] /\ stems \in Seq(Stems)
  /\ req \in [Threads -> Request]
  /\ permits \in 0..MaxPdf /\ torn \in SUBSET Stems

ReportsInit ==
  /\ files = {} /\ run = NoRun /\ stems = <<>>
  /\ req = [t \in Threads |-> Idle]
  /\ permits = MaxPdf /\ torn = {}

-----------------------------------------------------------------------------
IsAt(t, s) == req[t].stage = s
Of(s) == {f \in files : f[1] = s}
NewStems == {s \in Stems : \A i \in DOMAIN stems : stems[i] # s}
Deleting(s) == \E t \in Threads : \E f \in req[t].pend : f[1] = s

BeginRun(s) ==
  /\ run = NoRun /\ s \in NewStems
  /\ run' = [stem |-> s, next |-> "html"]
  /\ stems' = Append(stems, s)
  /\ UNCHANGED <<files, req, permits, torn>>

\* The run writes a file, or fails to: without the HTML there are no companions.
\* It may do so after, or in the middle of, the deletion of what it wrote before.
WriteFile ==
  /\ run # NoRun
  /\ \/ files' = files \cup {<<run.stem, run.next>>}
     \/ UNCHANGED files
  /\ run' = CASE run.next = "html" /\ files' # files -> [run EXCEPT !.next = "xlsx"]
              [] run.next = "xlsx" -> [run EXCEPT !.next = "json"]
              [] OTHER -> NoRun
  /\ torn' = IF Deleting(run.stem) THEN torn \cup {run.stem} ELSE torn
  /\ UNCHANGED <<stems, req, permits>>

\* api_reports_delete, delete_bulk and delete_all: one, some or all stems.
BeginDelete(t, S) ==
  /\ IsAt(t, "idle") /\ S # {}
  /\ req' = [req EXCEPT ![t] = DeletingAll(S, {})]
  /\ UNCHANGED <<files, run, stems, permits, torn>>

\* Mutant of Glob: the workbook is not among the files of a report.
GlobListed(t, s) ==
  /\ IsAt(t, "delete") /\ req[t].pend = {} /\ s \in req[t].left
  /\ req' = [req EXCEPT ![t] = DeletingAll(req[t].left \ {s}, Of(s) \ {<<s, "xlsx">>})]
  /\ torn' = IF run.stem = s THEN torn \cup {s} ELSE torn
  /\ UNCHANGED <<files, run, stems, permits>>

\* _delete_report_stem: the directory is read once.
Glob(t, s) ==
  /\ IsAt(t, "delete") /\ req[t].pend = {} /\ s \in req[t].left
  /\ req' = [req EXCEPT ![t] = DeletingAll(req[t].left \ {s}, Of(s))]
  /\ torn' = IF run.stem = s THEN torn \cup {s} ELSE torn
  /\ UNCHANGED <<files, run, stems, permits>>

\* unlink, of which failures are logged: it may have been deleted meanwhile, or be
\* in use.
UnlinkFile(t, f) ==
  /\ IsAt(t, "delete") /\ f \in req[t].pend
  /\ req' = [req EXCEPT ![t] = DeletingAll(req[t].left, req[t].pend \ {f})]
  /\ \/ files' = files \ {f} /\ UNCHANGED torn
     \/ f \in files /\ torn' = torn \cup {f[1]} /\ UNCHANGED files
  /\ UNCHANGED <<run, stems, permits>>

EndDelete(t) ==
  /\ IsAt(t, "delete") /\ req[t].pend = {} /\ req[t].left = {}
  /\ req' = [req EXCEPT ![t] = Idle]
  /\ UNCHANGED <<files, run, stems, permits, torn>>

\* api_reports_pdf: 404 without the HTML, 503 without a permit.
BeginPdf(t, s) ==
  /\ IsAt(t, "idle") /\ <<s, "html">> \in files /\ permits > 0
  /\ permits' = permits - 1
  /\ req' = [req EXCEPT ![t] = [stage |-> "pdf", left |-> {}, pend |-> {}, stem |-> s]]
  /\ UNCHANGED <<files, run, stems, torn>>

\* Rendered or not, for the HTML may be gone when the browser opens it: finally.
EndPdf(t) ==
  /\ IsAt(t, "pdf")
  /\ permits' = permits + 1
  /\ req' = [req EXCEPT ![t] = Idle]
  /\ UNCHANGED <<files, run, stems, torn>>

\* The process is killed and started.
RestartReports ==
  /\ run' = NoRun
  /\ torn' = torn \cup {s \in Stems : Deleting(s)}
  /\ req' = [t \in Threads |-> Idle]
  /\ permits' = MaxPdf
  /\ UNCHANGED <<files, stems>>

RequestStep(t) ==
  \/ \E S \in SUBSET Stems : BeginDelete(t, S)
  \/ \E s \in Stems : Glob(t, s) \/ BeginPdf(t, s)
  \/ \E f \in ReportFile : UnlinkFile(t, f)
  \/ EndDelete(t) \/ EndPdf(t)

ReportsNext ==
  \/ \E s \in Stems : BeginRun(s)
  \/ WriteFile
  \/ \E t \in Threads : RequestStep(t)
  \/ RestartReports

ReportsSpec == ReportsInit /\ [][ReportsNext]_reportsVars

-----------------------------------------------------------------------------
(* The list.                                                                *)

Newer(r, s) == \E i, j \in DOMAIN stems : stems[i] = s /\ stems[j] = r /\ i < j

WithHtml == {s \in Stems : <<s, "html">> \in files}
SidecarOnly == {s \in Stems : <<s, "json">> \in files} \ WithHtml

\* sorted(..., reverse=True)[:20]
Latest(K) == {s \in K : Cardinality({r \in K : Newer(r, s)}) < MaxListed}

\* api_reports: the audits it shows.
Listed == Latest(WithHtml) \cup Latest(SidecarOnly)

-----------------------------------------------------------------------------
(* Properties.                                                              *)

\* So many newer reports of the same kind are there that the list stops before s.
Displaced(s) ==
  \E K \in {WithHtml, SidecarOnly} :
    s \in K /\ Cardinality({r \in K : Newer(r, s)}) >= MaxListed

\* A file that is left is of a report that api_reports lists, which it does for the
\* HTML or the sidecar only, or of one that it will list once newer ones of its
\* kind are deleted, so that it can be seen and deleted at last; except where a
\* deletion met the run that writes the report, was killed, or could not unlink.
\* Up to then nothing shows a displaced report, although its files stay.
LeftoversListed ==
  \A f \in files :
    f[1] \in Listed \/ Displaced(f[1]) \/ Deleting(f[1]) \/ f[1] \in torn

\* The permits and the exports under way are as many as the semaphore began with,
\* also when a report is deleted while it is rendered: api_reports_pdf.
PermitsAccounted == permits + Cardinality({t \in Threads : IsAt(t, "pdf")}) = MaxPdf

\* Reports can be managed whatever meets: no leftover is hidden for good
\* and no permit is lost.
ReportsManaged == LeftoversListed /\ PermitsAccounted
=============================================================================
