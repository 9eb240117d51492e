------------------------------- MODULE SseHub -------------------------------
(***************************************************************************)
(* Progress streams: the subscriber queues of app/state.py and the stream  *)
(* generators of app/blueprints/audit.py (indexing.py has the same code).  *)
(*                                                                         *)
(* A connection subscribes once; a browser that reconnects is another      *)
(* connection.  Registration, broadcast and clean-up each run in one       *)
(* section under _sub_lock, so each is one step.  Messages are the numbers *)
(* under which they were broadcast; the producers (worker threads and      *)
(* request handlers) are any sequence of messages, of which some are       *)
(* terminal.  The ping a generator sends after 30 quiet seconds matters    *)
(* only where writing it fails: see Reap.                                  *)
(***************************************************************************)
EXTENDS Naturals, Sequences, FiniteSets

CONSTANTS
  Conns,            \* connections to /api/audit/stream
  MaxSubs,          \* _MAX_SSE_SUBSCRIBERS
  QueueSize,        \* maxsize of a subscriber's queue
  MaxMessages       \* bound of the model on the number of messages

ASSUME HubAssumption ==
  /\ IsFiniteSet(Conns)
  /\ MaxSubs \in Nat \ {0}
  /\ QueueSize \in Nat \ {0}
  /\ MaxMessages \in Nat

VARIABLES
  log,              \* the kinds of the messages broadcast so far
  subs,             \* _audit_subscribers, by connection
  queue,            \* the queue of each connection
  joined,           \* number of messages broadcast before it subscribed
  got,              \* what the browser received
  conn              \* state of the connection

vars == <<log, subs, queue, joined, got, conn>>

Kind == {"progress", "terminal"}
Numbers == 1..MaxMessages

\* new: no request yet; subscribed: the view has returned its response, whose
\* body has not been asked for; streaming: the generator runs; ending: a
\* terminal message was passed on; left: the browser is gone, the generator
\* has not noticed; abandoned: the body was never asked for; closed: the
\* generator has finished.
Conn == {"new", "subscribed", "streaming", "ending", "left", "abandoned",
         "closed"}

TypeOK ==
  /\ log \in Seq(Kind) /\ Len(log) <= MaxMessages
  /\ subs \subseteq Conns
  /\ queue \in [Conns -> Seq(Numbers)]
  /\ \A c \in Conns : Len(queue[c]) <= QueueSize
  /\ joined \in [Conns -> 0..MaxMessages]
  /\ got \in [Conns -> Seq(Numbers)]
  /\ conn \in [Conns -> Conn]

Init ==
  /\ log = <<>>
  /\ subs = {}
  /\ queue = [c \in Conns |-> <<>>]
  /\ joined = [c \in Conns |-> 0]
  /\ got = [c \in Conns |-> <<>>]
  /\ conn = [c \in Conns |-> "new"]

Full(c) == Len(queue[c]) = QueueSize

\* The subscribers that cannot take a message.
Stale == {c \in subs : Full(c)}

-----------------------------------------------------------------------------
\* Mutant of Put: a message that does not fit is dropped, the subscriber kept.
PutOrDrop(kind) ==
  /\ Len(log) < MaxMessages
  /\ log' = Append(log, kind)
  /\ queue' = [c \in Conns |-> IF c \in subs \ Stale
                                 THEN Append(queue[c], Len(log) + 1)
                                 ELSE queue[c]]
  /\ UNCHANGED <<subs, joined, got, conn>>

\* _BroadcastQueue.put: every queue takes the message, and a full one is
\* dropped from the list.
Put(kind) ==
  /\ Len(log) < MaxMessages
  /\ log' = Append(log, kind)
  /\ queue' = [c \in Conns |-> IF c \in subs \ Stale
                                 THEN Append(queue[c], Len(log) + 1)
                                 ELSE queue[c]]
  /\ subs' = subs \ Stale
  /\ UNCHANGED <<joined, got, conn>>

\* _subscribe; over the bound the request fails with 503 and nothing changes.
Subscribe(c) ==
  /\ conn[c] = "new"
  /\ Cardinality(subs) < MaxSubs
  /\ subs' = subs \cup {c}
  /\ joined' = [joined EXCEPT ![c] = Len(log)]
  /\ conn' = [conn EXCEPT ![c] = "subscribed"]
  /\ UNCHANGED <<log, queue, got>>

Start(c) ==
  /\ conn[c] = "subscribed"
  /\ conn' = [conn EXCEPT ![c] = "streaming"]
  /\ UNCHANGED <<log, subs, queue, joined, got>>

\* The response is dropped before its body was asked for: the generator never
\* started, and its finally clause does not run.
Abandon(c) ==
  /\ conn[c] = "subscribed"
  /\ conn' = [conn EXCEPT ![c] = "abandoned"]
  /\ UNCHANGED <<log, subs, queue, joined, got>>

\* The generator takes a message from its queue and yields it; a terminal
\* message is the last.
Deliver(c) ==
  /\ conn[c] = "streaming"
  /\ queue[c] # <<>>
  /\ got' = [got EXCEPT ![c] = Append(@, Head(queue[c]))]
  /\ queue' = [queue EXCEPT ![c] = Tail(@)]
  /\ conn' = [conn EXCEPT ![c] =
                IF log[Head(queue[c])] = "terminal" THEN "ending" ELSE @]
  /\ UNCHANGED <<log, subs, joined>>

Leave(c) ==
  /\ conn[c] = "streaming"
  /\ conn' = [conn EXCEPT ![c] = "left"]
  /\ UNCHANGED <<log, subs, queue, joined, got>>

\* The finally clause of the generator.
Unsubscribe(c) ==
  /\ subs' = subs \ {c}
  /\ queue' = [queue EXCEPT ![c] = <<>>]
  /\ conn' = [conn EXCEPT ![c] = "closed"]
  /\ UNCHANGED <<log, joined, got>>

\* After the loop was left.
Finish(c) ==
  /\ conn[c] = "ending"
  /\ Unsubscribe(c)

\* Writing the next message, or the next ping, to a browser that is gone fails
\* and closes the generator.
Reap(c) ==
  /\ conn[c] = "left"
  /\ Unsubscribe(c)

\* Mutant of Cleanup: the sweep looks for empty queues.
CleanupEmpty ==
  /\ subs' = {c \in subs : queue[c] # <<>>}
  /\ UNCHANGED <<log, queue, joined, got, conn>>

\* One turn of _cleanup_subscribers.
Cleanup ==
  /\ Stale # {}
  /\ subs' = subs \ Stale
  /\ UNCHANGED <<log, queue, joined, got, conn>>

-----------------------------------------------------------------------------
ConnStep(c) == Start(c) \/ Deliver(c) \/ Finish(c) \/ Reap(c)

Next ==
  \/ \E kind \in Kind : Put(kind)
  \/ \E c \in Conns : Subscribe(c) \/ Abandon(c) \/ Leave(c) \/ ConnStep(c)
  \/ Cleanup

Spec == Init /\ [][Next]_vars

\* The server's threads run, a browser that is there reads its stream, and the
\* sweep comes round every five minutes.  Nothing is assumed of the producers.
FairSpec ==
  /\ Spec
  /\ \A c \in Conns : WF_vars(ConnStep(c))
  /\ WF_vars(Cleanup)
-----------------------------------------------------------------------------
(* No more subscribers than the bound, leaked ones included.                *)
SubscribersBounded == Cardinality(subs) <= MaxSubs

(* A stream has no gap: what the browser received followed by what waits    *)
(* for it is a run of consecutive messages from the moment it subscribed,   *)
(* complete as long as it is registered.  A subscriber that cannot take a   *)
(* message gets nothing after it, rather than everything but it.            *)
GapFree ==
  \A c \in Conns :
    LET seen == got[c] \o queue[c]
    IN  /\ \A i \in 1..Len(seen) : seen[i] = joined[c] + i
        /\ c \in subs => joined[c] + Len(seen) = Len(log)

(* A terminal message is the last one a stream delivers.                    *)
NothingAfterEnd ==
  \A c \in Conns : \A i \in 1..Len(got[c]) :
    log[got[c][i]] = "terminal" => i = Len(got[c])

(* The slot of a subscriber that does not read is reclaimed once its queue  *)
(* is full, without another message having to be sent.                      *)
FullQueueReclaimed ==
  \A c \in Conns :
    (conn[c] = "abandoned" /\ Full(c)) ~> c \notin subs
=============================================================================
