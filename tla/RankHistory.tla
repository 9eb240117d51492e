---------------------------- MODULE RankHistory ----------------------------
(***************************************************************************)
(* data/rank_history.json under rank_change of tools/phase4.py: the ranks  *)
(* of each domain are read, looked up anew and written back, all domains   *)
(* in one file, by the audits that run in parallel and without a lock.     *)
(***************************************************************************)
EXTENDS FiniteSets

CONSTANTS
  Rankers,          \* threads that audit
  Domains,
  Broken            \* a file that is empty or two documents in one another: no set

ASSUME RankAssumption == \A D \in SUBSET Domains : Broken # D

VARIABLES
  ranks,            \* the file: the domains of which it holds ranks
  ranking,          \* what each thread is doing
  owed,             \* history: the domains whose last audit found ranks
  met               \* history: two audits overlapped, or one was killed as it wrote

rankVars == <<ranks, ranking, owed, met>>

\* read: while the keywords are looked up; open: past the truncation.
NoRanking == [stage |-> "idle", domain |-> "none", doc |-> {}]
Busy(t) == ranking[t].stage # "idle"

RankInit ==
  /\ ranks = {} /\ owed = {}
  /\ ranking = [t \in Rankers |-> NoRanking]
  /\ met = FALSE

\* Mutant of ReadRanks: the document starts with this domain.
ReadRanksOwn(t, d) ==
  /\ ~Busy(t)
  /\ ranking' = [ranking EXCEPT ![t] = [stage |-> "read", domain |-> d, doc |-> {}]]
  /\ met' = (met \/ \E u \in Rankers : Busy(u))
  /\ UNCHANGED <<ranks, owed>>

\* A file that cannot be read counts as none.
ReadRanks(t, d) ==
  /\ ~Busy(t)
  /\ ranking' = [ranking EXCEPT ![t] =
       [stage |-> "read", domain |-> d, doc |-> IF ranks = Broken THEN {} ELSE ranks]]
  /\ met' = (met \/ \E u \in Rankers : Busy(u))
  /\ UNCHANGED <<ranks, owed>>

\* found: a keyword has a rank.  A lookup that fails finds none, and what the file
\* held of the domain is dropped.
OpenRanks(t, found) ==
  LET r == ranking[t]
  IN  /\ r.stage = "read"
      /\ ranking' = [ranking EXCEPT ![t] = [stage |-> "open", domain |-> r.domain,
           doc |-> IF found THEN r.doc \cup {r.domain} ELSE r.doc \ {r.domain}]]
      /\ ranks' = Broken
      /\ owed' = IF found THEN owed \cup {r.domain} ELSE owed \ {r.domain}
      /\ UNCHANGED met

\* The write may fail, which is only logged; it does not before the truncation.
WriteRanks(t) ==
  LET alone == \A u \in Rankers \ {t} : ranking[u].stage # "open"
  IN  /\ ranking[t].stage = "open"
      /\ \/ ranks' = ranking[t].doc
         \/ ~alone /\ ranks' = Broken
      /\ ranking' = [ranking EXCEPT ![t] = NoRanking]
      /\ UNCHANGED <<owed, met>>

KillRankers ==
  /\ \E t \in Rankers : Busy(t)
  /\ met' = (met \/ \E t \in Rankers : ranking[t].stage = "open")
  /\ ranking' = [t \in Rankers |-> NoRanking]
  /\ UNCHANGED <<ranks, owed>>

RankNext ==
  \/ \E t \in Rankers :
       \/ \E d \in Domains : ReadRanks(t, d)
       \/ \E found \in BOOLEAN : OpenRanks(t, found)
       \/ WriteRanks(t)
  \/ KillRankers

RankSpec == RankInit /\ [][RankNext]_rankVars

-----------------------------------------------------------------------------
\* Audits that do not overlap lose no domain's ranks: between them the file holds
\* exactly those of the domains whose last audit found any.
HistoryKept ==
  ~met /\ (\A t \in Rankers : ranking[t].stage # "open") => ranks = owed
=============================================================================
