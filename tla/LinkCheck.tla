----------------------------- MODULE LinkCheck -----------------------------
(***************************************************************************)
(* broken_link_checker of tools/quick_tools.py: a pool of threads probes   *)
(* the links of a page (_check_link), the request thread collects the      *)
(* answers as they come, and after a time gives up what is not done.       *)
(***************************************************************************)
EXTENDS Naturals, Sequences, FiniteSets, FiniteSetsExt

CONSTANTS
  PageLinks,        \* numbers of links, in the order in which a page has them
  MaxProbed,        \* _MAX_LINKS
  PoolSize,         \* _MAX_WORKERS_LH
  Pythons,          \* versions it runs on: 310 or later
  Replies       \* what the other side of a link may do

ASSUME LinkAssumption ==
  PageLinks \subseteq Nat /\ MaxProbed \in Nat /\ PoolSize \in Nat \ {0} /\ Pythons \subseteq Nat

VARIABLES
  linkStage,        \* of the request thread
  probe,            \* of each link, its future
  told,             \* of each link that was probed, what _check_link returned
  linkRows,         \* of each link, the rows that results has of it
  timedOut,
  turn,             \* the links the loop over the futures has not come to
  early             \* history: the links that were done when the time was up

linkVars == <<linkStage, probe, told, linkRows, timedOut, turn, early>>

LinkRow(type, status, ok, moved) == [type |-> type, status |-> status, ok |-> ok, moved |-> moved]
SkippedLink == LinkRow("skip", 0, TRUE, FALSE)
LinkFailure == LinkRow("link", 0, FALSE, FALSE)

\* _check_link: HEAD, then GET if that is not allowed.  A status is a number, 0 if the
\* request fails.  A redirect that is refused raises, which its future keeps.
CheckLink(a) ==
  LET status == IF a.head = 405 THEN a.get ELSE a.head
  IN  IF ~a.public THEN SkippedLink
      ELSE IF status = 0 \/ a.refused THEN LinkFailure
      ELSE LinkRow("link", status, status \notin 400..599, a.moved)

NoLinks == [l \in PageLinks |-> <<>>]

LinkInit ==
  /\ linkStage = "idle"
  /\ probe = [l \in PageLinks |-> "none"]
  /\ told = [l \in PageLinks |-> SkippedLink]
  /\ linkRows = NoLinks
  /\ timedOut = FALSE
  /\ turn = {} /\ early = {}

-----------------------------------------------------------------------------
\* The page was fetched; each of its links is submitted once, up to the cap.
SubmitLinks(links) ==
  /\ linkStage = "idle"
  /\ linkStage' = "collect"
  /\ probe' = [l \in PageLinks |->
       IF l \in links /\ Cardinality({k \in links : k < l}) < MaxProbed THEN "queued" ELSE "none"]
  /\ UNCHANGED <<told, linkRows, timedOut, turn, early>>

Probed == {l \in PageLinks : probe[l] # "none"}
InState(state) == {l \in PageLinks : probe[l] = state}

\* A thread of the pool takes the link that has waited longest.
BeginProbe ==
  /\ InState("queued") # {} /\ Cardinality(InState("running")) < PoolSize
  /\ probe' = [probe EXCEPT ![Min(InState("queued"))] = "running"]
  /\ UNCHANGED <<linkStage, told, linkRows, timedOut, turn, early>>

EndProbe(l, a) ==
  /\ probe[l] = "running"
  /\ probe' = [probe EXCEPT ![l] = "done"]
  /\ told' = [told EXCEPT ![l] = CheckLink(a)]
  /\ UNCHANGED <<linkStage, linkRows, timedOut, turn, early>>

\* as_completed yields a future that is done.
Collect(l) ==
  /\ linkStage = "collect"
  /\ probe[l] = "done" /\ linkRows[l] = <<>>
  /\ linkRows' = [linkRows EXCEPT ![l] = Append(@, told[l])]
  /\ UNCHANGED <<linkStage, probe, told, timedOut, turn, early>>

\* as_completed raises while it has not yielded all: one may be done.  Before Python
\* 3.11 its TimeoutError is not the one that is handled here, and goes on.
WallClock(python) ==
  /\ linkStage = "collect" /\ \E l \in Probed : linkRows[l] = <<>>
  /\ IF python < 311 THEN linkStage' = "raised" /\ UNCHANGED <<timedOut, turn, early>>
     ELSE linkStage' = "expired" /\ timedOut' = TRUE /\ turn' = Probed /\ early' = InState("done")
  /\ UNCHANGED <<probe, told, linkRows>>

\* Mutant of GiveUp: without fut.done().
GiveUpAll(l) ==
  /\ linkStage = "expired" /\ turn # {} /\ l = Min(turn)
  /\ turn' = turn \ {l}
  /\ linkRows' = [linkRows EXCEPT ![l] = Append(@, SkippedLink)]
  /\ probe' = IF probe[l] = "queued" THEN [probe EXCEPT ![l] = "cancelled"] ELSE probe
  /\ UNCHANGED <<linkStage, told, timedOut, early>>

\* The loop over the futures.  What is running cannot be cancelled; what was done but
\* not yielded is not looked at.
GiveUp(l) ==
  /\ linkStage = "expired" /\ turn # {} /\ l = Min(turn)
  /\ turn' = turn \ {l}
  /\ linkRows' = IF probe[l] = "done" THEN linkRows
                 ELSE [linkRows EXCEPT ![l] = Append(@, SkippedLink)]
  /\ probe' = IF probe[l] = "queued" THEN [probe EXCEPT ![l] = "cancelled"] ELSE probe
  /\ UNCHANGED <<linkStage, told, timedOut, early>>

\* The pool is left when all of it is done or cancelled, also by an exception; then
\* the rows are sorted and sent.
LeavePool ==
  /\ \/ linkStage = "collect" /\ \A l \in Probed : linkRows[l] # <<>>
     \/ linkStage = "expired" /\ turn = {}
     \/ linkStage = "raised"
  /\ InState("queued") \cup InState("running") = {}
  /\ linkStage' = IF linkStage = "raised" THEN "failed" ELSE "sent"
  /\ UNCHANGED <<probe, told, linkRows, timedOut, turn, early>>

NextPage ==
  /\ linkStage \in {"sent", "failed"}
  /\ linkStage' = "idle"
  /\ probe' = [l \in PageLinks |-> "none"]
  /\ told' = [l \in PageLinks |-> SkippedLink]
  /\ linkRows' = NoLinks
  /\ timedOut' = FALSE /\ early' = {}
  /\ UNCHANGED turn

LinkNext ==
  \/ \E links \in SUBSET PageLinks : SubmitLinks(links)
  \/ BeginProbe \/ LeavePool \/ NextPage
  \/ \E python \in Pythons : WallClock(python)
  \/ \E l \in PageLinks :
       \/ \E a \in Replies : EndProbe(l, a)
       \/ Collect(l) \/ GiveUp(l)

LinkSpec == LinkInit /\ [][LinkNext]_linkVars

-----------------------------------------------------------------------------
\* What is sent of the links of a page has each link that was probed once, as it was
\* found to be.  Only where the time was up, a link may be told as skipped, also
\* one that was found while the others were given up; and then a link is missing
\* for one reason alone, that its probe was done and not collected.
LinksReported ==
  linkStage = "sent" =>
    \A l \in PageLinks :
      IF l \notin Probed THEN linkRows[l] = <<>>
      ELSE \/ linkRows[l] = <<told[l]>>
           \/ timedOut /\ linkRows[l] = <<SkippedLink>>
           \/ timedOut /\ linkRows[l] = <<>> /\ probe[l] = "done"

\* What the comment in the handler of the time-out says (quick_tools.py:1017):
\* what was completed before the time was up is collected.  But the handler looks
\* only at what is not done, and as_completed, once it has raised, yields nothing
\* more.
CompletedCollected ==
  linkStage = "sent" => \A l \in early : linkRows[l] = <<told[l]>>

-----------------------------------------------------------------------------
(* A strengthening under which the property above is inductive.             *)

LinkStages == {"idle", "collect", "expired", "raised", "sent", "failed"}
ProbeStates == {"none", "queued", "running", "done", "cancelled"}
Answers == {SkippedLink} \cup {CheckLink(a) : a \in Replies}

LinkTypeOK ==
  /\ linkStage \in LinkStages /\ timedOut \in BOOLEAN
  /\ probe \in [PageLinks -> ProbeStates] /\ told \in [PageLinks -> Answers]
  /\ linkRows \in [PageLinks -> Seq(Answers)] /\ turn \subseteq PageLinks
  /\ early \subseteq PageLinks

\* A row is of a probe that has ended and says what it was told, or of one that was
\* given up; a link whose turn to be given up is to come has not been given up.
RowOf(l) ==
  linkRows[l] # <<>> =>
    \/ probe[l] = "done" /\ linkRows[l] = <<told[l]>>
    \/ timedOut /\ l \notin turn /\ probe[l] # "none" /\ linkRows[l] = <<SkippedLink>>

LinkInv ==
  /\ LinkTypeOK
  /\ \A l \in PageLinks : RowOf(l)
  /\ timedOut => linkStage \in {"expired", "sent"}
  /\ linkStage = "expired" => timedOut /\ turn \subseteq Probed
  /\ linkStage = "idle" => Probed = {}
  /\ linkStage = "sent" => IF timedOut THEN turn = {} ELSE \A l \in Probed : linkRows[l] # <<>>
  /\ timedOut => \A l \in Probed \ turn : linkRows[l] # <<>> \/ probe[l] = "done"
=============================================================================
