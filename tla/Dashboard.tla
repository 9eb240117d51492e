----------------------------- MODULE Dashboard -----------------------------
(***************************************************************************)
(* The dashboard's tabs, app/static/js/dashboard.js, together with the     *)
(* progress streams of SseHub and the run slot: what a tab is told of the  *)
(* run it started.  A run is reduced to its messages: progress, then one   *)
(* terminal message, then the flag comes down (AuditRun).                  *)
(*                                                                         *)
(* A tab posts the run and opens its stream when the answer is there; a    *)
(* stream that fails is closed and not opened again.                       *)
(***************************************************************************)
EXTENDS SseHub

CONSTANTS
  Tabs,             \* open dashboards
  None,             \* no connection
  MaxRuns,          \* bound of the model: runs
  MaxProgress,      \* bound of the model: progress messages
  MaxCancels        \* bound of the model: cancellations

\* MaxMessages is never reached.
ASSUME DashboardAssumption ==
  /\ None \notin Conns
  /\ {MaxRuns, MaxProgress, MaxCancels} \subseteq Nat
  /\ MaxMessages >= MaxRuns + MaxProgress + MaxCancels

VARIABLES
  slot,             \* the run, its phase; left: progress messages still to send
  tab,              \* the tabs
  handler,          \* the run each tab's cancel request found, 0 without one
  cancels,          \* cancellations so far
  origin            \* history: of each message, its run and who sent it

hub == <<log, subs, queue, joined, got, conn>>
allVars == <<hub, slot, tab, handler, cancels, origin>>

Runs == 0..MaxRuns

\* told: the terminal message was sent, the flag is still up.
Slot == [run : Runs, phase : {"idle", "working", "told"}, left : 0..MaxProgress]

\* posting: the request is under way; answered: before the EventSource; watching:
\* it is open; stuck: the button says "Running" and nothing listens.
Tab == [ui : {"idle", "posting", "answered", "watching", "stuck"},
        conn : Conns \cup {None}, run : Runs]
FreshTab == [ui |-> "idle", conn |-> None, run |-> 0]

DashboardTypeOK ==
  /\ slot \in Slot /\ tab \in [Tabs -> Tab] /\ handler \in [Tabs -> Runs]
  /\ cancels \in 0..MaxCancels
  /\ origin \in Seq([run : Runs, by : {"run", "cancel"}]) /\ Len(origin) = Len(log)

DashboardInit ==
  /\ Init
  /\ slot = [run |-> 0, phase |-> "idle", left |-> MaxProgress]
  /\ tab = [t \in Tabs |-> FreshTab]
  /\ handler = [t \in Tabs |-> 0] /\ cancels = 0 /\ origin = <<>>

-----------------------------------------------------------------------------
Ui(t) == tab[t].ui
Show(t, u) == tab' = [tab EXCEPT ![t].ui = u]
Stick(t) == tab' = [tab EXCEPT ![t] = [FreshTab EXCEPT !.ui = "stuck"]]

\* startAudit; the button of a running audit is disabled.
Click(t) ==
  /\ Ui(t) = "idle"
  /\ tab' = [tab EXCEPT ![t] = [FreshTab EXCEPT !.ui = "posting"]]
  /\ UNCHANGED <<hub, slot, handler, cancels, origin>>

\* withServerCheck reports that the server is gone, and leaves the button.
ServerGone(t) ==
  /\ Ui(t) = "posting"
  /\ Stick(t)
  /\ UNCHANGED <<hub, slot, handler, cancels, origin>>

\* /api/audit/run
PostOk(t) ==
  /\ Ui(t) = "posting" /\ slot.phase = "idle" /\ slot.run < MaxRuns
  /\ slot' = [slot EXCEPT !.run = @ + 1, !.phase = "working"]
  /\ tab' = [tab EXCEPT ![t].ui = "answered", ![t].run = slot'.run]
  /\ UNCHANGED <<hub, handler, cancels, origin>>

\* An error, and the bound of the model: audDone.
PostBusy(t) ==
  /\ Ui(t) = "posting" /\ (slot.phase # "idle" \/ slot.run = MaxRuns)
  /\ Show(t, "idle")
  /\ UNCHANGED <<hub, slot, handler, cancels, origin>>

\* Mutant of Connect: the stream is opened along with the request.
ConnectAtOnce(t, c) ==
  /\ Ui(t) = "posting" /\ tab[t].conn = None
  /\ Subscribe(c)
  /\ tab' = [tab EXCEPT ![t].conn = c]
  /\ UNCHANGED <<slot, handler, cancels, origin>>

\* streamAudit, on the server subscribed.
Connect(t, c) ==
  /\ Ui(t) = "answered"
  /\ Subscribe(c)
  /\ tab' = [tab EXCEPT ![t].ui = "watching", ![t].conn = c]
  /\ UNCHANGED <<slot, handler, cancels, origin>>

\* Too many streams, or no connection: onerror closes the EventSource, and that is
\* all.
Refused(t) ==
  /\ Ui(t) = "answered"
  /\ Stick(t)
  /\ UNCHANGED <<hub, slot, handler, cancels, origin>>

\* onmessage: done, error and cancelled call audDone.
Receive(t, c) ==
  /\ tab[t].conn = c
  /\ Deliver(c)
  /\ IF log[Head(queue[c])] = "terminal" /\ Ui(t) = "watching"
     THEN tab' = [tab EXCEPT ![t] = FreshTab] ELSE UNCHANGED tab
  /\ UNCHANGED <<slot, handler, cancels, origin>>

\* The connection breaks, before or while the generator runs, as it does when the
\* page is closed: onerror again.
Drop(t, c) ==
  /\ tab[t].conn = c /\ Ui(t) = "watching"
  /\ Leave(c) \/ Abandon(c)
  /\ Stick(t)
  /\ UNCHANGED <<slot, handler, cancels, origin>>

\* The page is loaded again.  It does not look for a run under way.
Reload(t) ==
  /\ Ui(t) = "stuck"
  /\ tab' = [tab EXCEPT ![t] = FreshTab]
  /\ UNCHANGED <<hub, slot, handler, cancels, origin>>

Send(kind, n, who) ==
  /\ Put(kind)
  /\ origin' = Append(origin, [run |-> n, by |-> who])

Progress ==
  /\ slot.phase = "working" /\ slot.left > 0
  /\ Send("progress", slot.run, "run")
  /\ slot' = [slot EXCEPT !.left = @ - 1]
  /\ UNCHANGED <<tab, handler, cancels>>

\* Done, an error, or done although it was cancelled.
EndRun ==
  /\ slot.phase = "working"
  /\ Send("terminal", slot.run, "run")
  /\ slot' = [slot EXCEPT !.phase = "told"]
  /\ UNCHANGED <<tab, handler, cancels>>

FreeSlot ==
  /\ slot.phase = "told"
  /\ slot' = [slot EXCEPT !.phase = "idle"]
  /\ UNCHANGED <<hub, tab, handler, cancels, origin>>

\* cancelAudit: the handler asks neither whether a run is active nor which.
Cancel(t) ==
  /\ Ui(t) # "idle" /\ handler[t] = 0
  /\ slot.run > 0 /\ cancels < MaxCancels
  /\ handler' = [handler EXCEPT ![t] = slot.run]
  /\ cancels' = cancels + 1
  /\ UNCHANGED <<hub, slot, tab, origin>>

\* It has saved the partial report, however long that took.
Announce(t) ==
  /\ handler[t] # 0
  /\ Send("terminal", handler[t], "cancel")
  /\ handler' = [handler EXCEPT ![t] = 0]
  /\ UNCHANGED <<slot, tab, cancels>>

\* Steps of SseHub that the tabs do not see.
HubStep(c) ==
  /\ Start(c) \/ Finish(c) \/ Reap(c)
  /\ UNCHANGED <<slot, tab, handler, cancels, origin>>

Sweep == Cleanup /\ UNCHANGED <<slot, tab, handler, cancels, origin>>

TabStep(t) ==
  \/ Click(t) \/ ServerGone(t) \/ PostOk(t) \/ PostBusy(t) \/ Refused(t) \/ Reload(t)
  \/ Cancel(t) \/ Announce(t)
  \/ \E c \in Conns : Connect(t, c) \/ Receive(t, c) \/ Drop(t, c)

DashboardNext ==
  \/ \E t \in Tabs : TabStep(t)
  \/ Progress \/ EndRun \/ FreeSlot
  \/ \E c \in Conns : HubStep(c)
  \/ Sweep

DashboardSpec == DashboardInit /\ [][DashboardNext]_allVars

\* Runs end (AuditRun), threads run, a browser that is there reads its streams.
\* Nobody has to click, to cancel or to load the page again.
DashboardFair ==
  /\ DashboardSpec
  /\ WF_allVars(EndRun) /\ WF_allVars(FreeSlot) /\ WF_allVars(Sweep)
  /\ \A c \in Conns : WF_allVars(HubStep(c))
  /\ \A t \in Tabs, c \in Conns : WF_allVars(Receive(t, c))

-----------------------------------------------------------------------------
(* Properties.                                                              *)

\* What a tab shows is of its own run or, if it was slow, of a later one, for the
\* stream is opened after the answer and the flag comes down after the last
\* message.  Only the cancellation of an earlier run may reach it: its handler is
\* not tied to a run.
EndIsOwn ==
  [][\A t \in Tabs, c \in Conns :
       Receive(t, c) => LET i == Head(queue[c])
                        IN  origin[i].run >= tab[t].run \/ origin[i].by = "cancel"]_allVars

\* A tab whose stream was opened before its run ended learns that it ended, unless
\* its stream is dropped or evicted (then it shows a running audit until the page
\* is loaded again).
TabSettles ==
  \A t \in Tabs :
    /\ Ui(t) = "watching" /\ slot.run = tab[t].run /\ slot.phase = "working"
    /\ tab[t].conn \in subs
    ~> Ui(t) # "watching" \/ tab[t].conn \notin subs
=============================================================================
