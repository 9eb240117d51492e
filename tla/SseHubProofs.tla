---------------------------- MODULE SseHubProofs ----------------------------
(***************************************************************************)
(* Proofs about SseHub, for any number of connections, any bound on        *)
(* subscribers, any size of their queues and any number of messages; and   *)
(* about Dashboard, whose tabs use those streams, for any number of tabs   *)
(* and runs.                                                               *)
(***************************************************************************)
EXTENDS Dashboard, SequenceTheorems, FiniteSetTheorems, TLAPS

-----------------------------------------------------------------------------
(* Types.                                                                   *)

\* A queue with room takes one more number.
LEMMA AppendFits ==
  ASSUME TypeOK, NEW c \in Conns, ~Full(c), Len(log) < MaxMessages
  PROVE  /\ Append(queue[c], Len(log) + 1) \in Seq(Numbers)
         /\ Len(Append(queue[c], Len(log) + 1)) = Len(queue[c]) + 1
         /\ Len(queue[c]) + 1 <= QueueSize
  BY HubAssumption DEF TypeOK, Full, Numbers

LEMMA PutType ==
  ASSUME TypeOK, NEW kind \in Kind, Put(kind)
  PROVE  TypeOK'
<1>1. log' \in Seq(Kind) /\ Len(log') = Len(log) + 1 /\ Len(log') <= MaxMessages
  BY HubAssumption DEF TypeOK, Put
<1>2. ASSUME NEW c \in Conns
      PROVE  queue'[c] \in Seq(Numbers) /\ Len(queue'[c]) <= QueueSize
  <2>1. CASE c \in subs \ Stale
    BY <2>1, AppendFits DEF Put, Stale, TypeOK
  <2>2. CASE c \notin subs \ Stale
    <3>1. queue'[c] = queue[c]
      BY <2>2 DEF Put
    <3>2. QED
      BY <3>1 DEF TypeOK
  <2>3. QED
    BY <2>1, <2>2
<1>3. queue' \in [Conns -> Seq(Numbers)]
  BY <1>2 DEF Put
<1>4. QED
  BY <1>1, <1>2, <1>3 DEF Put, TypeOK

LEMMA TypingStep ==
  ASSUME TypeOK, [Next]_vars
  PROVE  TypeOK'
<1> USE HubAssumption DEF TypeOK
<1>1. ASSUME NEW kind \in Kind, Put(kind)
      PROVE  TypeOK'
  BY <1>1, PutType
<1>2. ASSUME NEW c \in Conns, Subscribe(c)
      PROVE  TypeOK'
  BY <1>2 DEF Subscribe, Conn
<1>3. ASSUME NEW c \in Conns, Start(c) \/ Abandon(c) \/ Leave(c)
      PROVE  TypeOK'
  BY <1>3 DEF Start, Abandon, Leave, Conn
<1>4. ASSUME NEW c \in Conns, Deliver(c)
      PROVE  TypeOK'
  <2>1. /\ Head(queue[c]) \in Numbers
        /\ Tail(queue[c]) \in Seq(Numbers)
        /\ Len(Tail(queue[c])) <= QueueSize
    BY <1>4, HeadTailProperties DEF Deliver
  <2>2. Append(got[c], Head(queue[c])) \in Seq(Numbers)
    BY <2>1
  <2>3. QED
    BY <1>4, <2>1, <2>2 DEF Deliver, Conn
<1>5. ASSUME NEW c \in Conns, Finish(c) \/ Reap(c)
      PROVE  TypeOK'
  <2>1. <<>> \in Seq(Numbers) /\ Len(<<>>) = 0
    OBVIOUS
  <2>2. Unsubscribe(c)
    BY <1>5 DEF Finish, Reap
  <2>3. queue' \in [Conns -> Seq(Numbers)]
        /\ \A d \in Conns : Len(queue'[d]) <= QueueSize
    BY <2>1, <2>2 DEF Unsubscribe
  <2>4. QED
    BY <2>2, <2>3 DEF Unsubscribe, Conn
<1>6. CASE Cleanup
  BY <1>6 DEF Cleanup, Stale
<1>7. CASE UNCHANGED vars
  BY <1>7 DEF vars
<1>8. QED
  BY <1>1, <1>2, <1>3, <1>4, <1>5, <1>6, <1>7 DEF Next, ConnStep

(* Every variable keeps its type; in particular no queue outgrows its bound *)
(* and no connection but a known one is registered.                         *)
THEOREM Typing == Spec => []TypeOK
<1>1. Init => TypeOK
  BY HubAssumption DEF Init, TypeOK, Conn
<1>2. TypeOK /\ [Next]_vars => TypeOK'
  BY TypingStep
<1>3. QED
  BY <1>1, <1>2, PTL DEF Spec

-----------------------------------------------------------------------------
(* The number of subscribers.                                               *)

(* Registration is refused at the bound, whoever leaked a place: the list   *)
(* is counted in the section that extends it.                               *)
THEOREM Bounded == Spec => []SubscribersBounded
<1> USE HubAssumption DEF SubscribersBounded
<1>1. Init => SubscribersBounded
  BY FS_EmptySet DEF Init
<1>2. ASSUME TypeOK, SubscribersBounded, [Next]_vars
      PROVE  SubscribersBounded'
  <2>1. IsFiniteSet(subs) /\ Cardinality(subs) \in Nat
    BY <1>2, FS_Subset, FS_CardinalityType DEF TypeOK
  <2>2. ASSUME NEW c \in Conns, Subscribe(c)
        PROVE  SubscribersBounded'
    <3>1. subs' = subs \cup {c} /\ Cardinality(subs) < MaxSubs
      BY <2>2 DEF Subscribe
    <3>2. \/ Cardinality(subs') = Cardinality(subs)
          \/ Cardinality(subs') = Cardinality(subs) + 1
      BY <2>1, <3>1, FS_AddElement
    <3>3. QED
      BY <2>1, <3>1, <3>2
  <2>3. CASE subs' \subseteq subs
    <3>1. Cardinality(subs') <= Cardinality(subs) /\ Cardinality(subs') \in Nat
      BY <2>1, <2>3, FS_Subset, FS_CardinalityType
    <3>2. QED
      BY <1>2, <2>1, <3>1
  <2>4. subs' \subseteq subs \/ \E c \in Conns : Subscribe(c)
    BY <1>2 DEF Next, ConnStep, Put, Start, Abandon, Leave, Deliver, Finish,
                Reap, Unsubscribe, Cleanup, vars
  <2>5. QED
    BY <2>2, <2>3, <2>4
<1>3. QED
  BY <1>1, <1>2, Typing, PTL DEF Spec

-----------------------------------------------------------------------------
(* What a stream delivers.                                                  *)

\* The numbers from n + 1 on, without a gap.
Run(s, n) == \A i \in 1..Len(s) : s[i] = n + i

\* The next number prolongs a run.
LEMMA RunAppend ==
  ASSUME NEW s \in Seq(Nat), NEW n \in Nat, Run(s, n)
  PROVE  Run(Append(s, n + Len(s) + 1), n)
<1>1. /\ Len(s) \in Nat
      /\ Len(Append(s, n + Len(s) + 1)) = Len(s) + 1
      /\ \A i \in 1..Len(s) : Append(s, n + Len(s) + 1)[i] = s[i]
      /\ Append(s, n + Len(s) + 1)[Len(s) + 1] = n + Len(s) + 1
  OBVIOUS
<1>2. QED
  BY <1>1 DEF Run

\* A run is its first number and a run.
LEMMA RunTail ==
  ASSUME NEW s \in Seq(Nat), s # <<>>, NEW n \in Nat, Run(s, n)
  PROVE  Head(s) = n + 1 /\ Run(Tail(s), n + 1)
<1>1. /\ Len(s) \in Nat \ {0}
      /\ Head(s) = s[1]
      /\ Len(Tail(s)) = Len(s) - 1
      /\ \A i \in 1..Len(Tail(s)) : Tail(s)[i] = s[i + 1]
  BY EmptySeq, HeadTailProperties
<1>2. QED
  BY <1>1 DEF Run

\* A connection has in hand, then in its queue, the messages after the one it
\* joined at; while it is registered, all of them.
StreamOK(c) ==
  /\ conn[c] = "new" => got[c] = <<>> /\ queue[c] = <<>> /\ c \notin subs
  /\ joined[c] + Len(got[c]) + Len(queue[c]) <= Len(log)
  /\ c \in subs => joined[c] + Len(got[c]) + Len(queue[c]) = Len(log)
  /\ Run(got[c], joined[c])
  /\ Run(queue[c], joined[c] + Len(got[c]))

StreamInv == \A c \in Conns : StreamOK(c)

LEMMA StreamTypes ==
  ASSUME TypeOK, NEW c \in Conns
  PROVE  /\ Len(log) \in Nat /\ Len(got[c]) \in Nat /\ Len(queue[c]) \in Nat
         /\ joined[c] \in Nat
         /\ got[c] \in Seq(Nat) /\ queue[c] \in Seq(Nat)
<1>1. got[c] \in Seq(Numbers) /\ queue[c] \in Seq(Numbers)
  BY DEF TypeOK
<1>2. Numbers \subseteq Nat
  BY HubAssumption DEF Numbers
<1>3. got[c] \in Seq(Nat) /\ queue[c] \in Seq(Nat)
  BY <1>1, <1>2, SeqMonotonic
<1>4. Len(log) \in Nat /\ joined[c] \in Nat
  BY HubAssumption DEF TypeOK
<1>5. QED
  BY <1>3, <1>4

\* The connections a step leaves alone stay as they should be.
LEMMA StreamKept ==
  ASSUME NEW c \in Conns, StreamOK(c), c \in subs' => c \in subs,
         conn'[c] = "new" => conn[c] = "new",
         UNCHANGED <<log, joined[c], got[c], queue[c]>>
  PROVE  StreamOK(c)'
  BY DEF StreamOK, Run

LEMMA StreamInvStep ==
  ASSUME TypeOK, StreamInv, [Next]_vars
  PROVE  StreamInv'
<1> SUFFICES ASSUME NEW d \in Conns
             PROVE  StreamOK(d)'
  BY DEF StreamInv
<1>0. StreamOK(d)
  BY DEF StreamInv
<1>1. ASSUME NEW kind \in Kind, Put(kind)
      PROVE  StreamOK(d)'
  <2>1. Len(log') = Len(log) + 1
    BY <1>1 DEF Put, TypeOK
  <2>2. UNCHANGED <<joined, got, conn>> /\ subs' = subs \ Stale
    BY <1>1 DEF Put
  <2>3. CASE d \in subs \ Stale
    <3>1. Len(log) = joined[d] + Len(got[d]) + Len(queue[d])
      BY <1>0, <2>3 DEF StreamOK
    <3>2. queue'[d] = Append(queue[d], joined[d] + Len(got[d]) + Len(queue[d]) + 1)
      BY <1>1, <2>3, <3>1 DEF Put
    <3>3. joined[d] + Len(got[d]) \in Nat
      BY StreamTypes
    <3>4. Run(queue'[d], joined[d] + Len(got[d]))
      BY <1>0, <3>2, <3>3, RunAppend, StreamTypes DEF StreamOK
    <3>5. Len(queue'[d]) = Len(queue[d]) + 1
      BY <3>2, <3>3, StreamTypes
    <3>6. joined[d] + Len(got[d]) + Len(queue'[d]) = Len(log')
      <4>1. /\ joined[d] \in Nat /\ Len(got[d]) \in Nat
            /\ Len(queue[d]) \in Nat
        BY StreamTypes
      <4>2. QED
        BY <2>1, <3>1, <3>5, <4>1
    <3>7. Len(log') \in Nat /\ conn[d] # "new"
      BY <1>0, <2>1, <2>3, StreamTypes DEF StreamOK
    <3>8. QED
      BY <1>0, <2>2, <3>4, <3>6, <3>7 DEF StreamOK, Run
  <2>4. CASE d \notin subs \ Stale
    <3>1. queue'[d] = queue[d]
      BY <1>1, <2>4 DEF Put
    <3>2. joined[d] + Len(got[d]) + Len(queue[d]) <= Len(log')
      BY <1>0, <2>1, StreamTypes DEF StreamOK
    <3>3. QED
      BY <1>0, <2>2, <2>4, <3>1, <3>2 DEF StreamOK, Run
  <2>5. QED
    BY <2>3, <2>4
<1>2. ASSUME NEW c \in Conns, Subscribe(c)
      PROVE  StreamOK(d)'
  <2>1. CASE d = c
    <3>1. /\ got'[d] = <<>> /\ queue'[d] = <<>> /\ log' = log
          /\ joined'[d] = Len(log) /\ conn'[d] = "subscribed"
      BY <1>0, <1>2, <2>1 DEF Subscribe, StreamOK, TypeOK
    <3>2. Len(<<>>) = 0 /\ Len(log) \in Nat
      BY StreamTypes
    <3>3. Len(got'[d]) = 0 /\ Len(queue'[d]) = 0
      BY <3>1
    <3>4. joined'[d] + Len(got'[d]) + Len(queue'[d]) = Len(log')
      BY <3>1, <3>2, <3>3
    <3>5. Len(log') \in Nat /\ conn'[d] # "new"
      BY <3>1, <3>2
    <3>6. Run(got'[d], joined'[d]) /\ Run(queue'[d], joined'[d] + Len(got'[d]))
      BY <3>3 DEF Run
    <3>7. QED
      BY <3>4, <3>5, <3>6 DEF StreamOK, Run
  <2>2. CASE d # c
    <3>1. /\ UNCHANGED <<log, got, queue>> /\ subs' = subs \cup {c}
          /\ joined'[d] = joined[d] /\ conn'[d] = conn[d]
      BY <1>2, <2>2 DEF Subscribe, TypeOK
    <3>2. QED
      BY <1>0, <2>2, <3>1, StreamKept
  <2>3. QED
    BY <2>1, <2>2
<1>3. ASSUME NEW c \in Conns, Start(c) \/ Abandon(c) \/ Leave(c)
      PROVE  StreamOK(d)'
  <2>1. /\ UNCHANGED <<log, subs, queue, joined, got>>
        /\ conn'[d] = "new" => conn[d] = "new"
    BY <1>3 DEF Start, Abandon, Leave, TypeOK
  <2>2. QED
    BY <1>0, <2>1, StreamKept
<1>4. ASSUME NEW c \in Conns, Deliver(c)
      PROVE  StreamOK(d)'
  <2>1. /\ UNCHANGED <<log, subs, joined>>
        /\ conn[c] # "new" /\ conn'[c] # "new"
        /\ d # c => /\ got'[d] = got[d] /\ queue'[d] = queue[d]
                    /\ conn'[d] = conn[d]
    BY <1>4 DEF Deliver, TypeOK
  <2>2. CASE d = c
    <3>1. /\ got'[d] = Append(got[d], Head(queue[d]))
          /\ queue'[d] = Tail(queue[d]) /\ queue[d] # <<>>
      BY <1>4, <2>2 DEF Deliver, TypeOK
    <3>2. joined[d] + Len(got[d]) \in Nat
      BY StreamTypes
    <3>3. /\ Head(queue[d]) = joined[d] + Len(got[d]) + 1
          /\ Run(queue'[d], joined[d] + Len(got[d]) + 1)
      BY <1>0, <3>1, <3>2, RunTail, StreamTypes DEF StreamOK
    <3>4. Run(got'[d], joined[d])
      BY <1>0, <3>1, <3>3, RunAppend, StreamTypes DEF StreamOK
    <3>5. Len(got'[d]) = Len(got[d]) + 1
      BY <3>1, <3>2, <3>3, StreamTypes
    <3>6. Len(queue'[d]) \in Nat /\ Len(queue[d]) = Len(queue'[d]) + 1
      BY <3>1, StreamTypes, HeadTailProperties
    <3>7. /\ joined[d] + Len(got'[d]) = joined[d] + Len(got[d]) + 1
          /\ joined[d] + Len(got'[d]) + Len(queue'[d])
               = joined[d] + Len(got[d]) + Len(queue[d])
      <4>1. /\ joined[d] \in Nat /\ Len(got[d]) \in Nat
            /\ Len(queue[d]) \in Nat
        BY StreamTypes
      <4>2. joined[d] + Len(got'[d]) = joined[d] + Len(got[d]) + 1
        BY <3>5, <4>1
      <4>3. \A n \in Nat : (joined[d] + Len(got[d]) + 1) + n
                            = joined[d] + Len(got[d]) + (n + 1)
        BY <4>1
      <4>4. QED
        BY <3>6, <4>2, <4>3
    <3>8. QED
      BY <1>0, <2>1, <2>2, <3>3, <3>4, <3>7 DEF StreamOK, Run
  <2>3. CASE d # c
    BY <1>0, <2>1, <2>3, StreamKept
  <2>4. QED
    BY <2>2, <2>3
<1>5. ASSUME NEW c \in Conns, Finish(c) \/ Reap(c)
      PROVE  StreamOK(d)'
  <2>1. /\ UNCHANGED <<log, joined, got>> /\ subs' = subs \ {c}
        /\ queue'[d] = IF d = c THEN <<>> ELSE queue[d]
        /\ conn'[d] = IF d = c THEN "closed" ELSE conn[d]
    BY <1>5 DEF Finish, Reap, Unsubscribe, TypeOK
  <2>2. CASE d = c
    <3>1. Len(queue'[d]) = 0
      BY <2>1, <2>2
    <3>2. joined[d] + Len(got[d]) + 0 <= Len(log)
      BY <1>0, StreamTypes DEF StreamOK
    <3>3. Run(queue'[d], joined[d] + Len(got[d]))
      BY <3>1 DEF Run
    <3>4. QED
      BY <1>0, <2>1, <2>2, <3>1, <3>2, <3>3 DEF StreamOK, Run
  <2>3. CASE d # c
    BY <1>0, <2>1, <2>3, StreamKept
  <2>4. QED
    BY <2>2, <2>3
<1>6. CASE Cleanup
  BY <1>0, <1>6, StreamKept DEF Cleanup
<1>7. CASE UNCHANGED vars
  BY <1>0, <1>7, StreamKept DEF vars
<1>8. QED
  BY <1>1, <1>2, <1>3, <1>4, <1>5, <1>6, <1>7 DEF Next, ConnStep

(* No stream has a gap.  A queue that can not take a message loses its      *)
(* registration in the same section, so it never takes a later one.         *)
THEOREM NoGap == Spec => [](StreamInv /\ GapFree)
<1>1. Init => StreamInv
  <2>1. Len(<<>>) = 0
    OBVIOUS
  <2>2. QED
    BY <2>1 DEF Init, StreamInv, StreamOK, Run
<1>2. TypeOK /\ StreamInv /\ [Next]_vars => StreamInv'
  BY StreamInvStep
<1>3. ASSUME TypeOK, StreamInv
      PROVE  GapFree
  <2> SUFFICES ASSUME NEW c \in Conns
               PROVE  LET seen == got[c] \o queue[c]
                      IN  /\ \A i \in 1..Len(seen) : seen[i] = joined[c] + i
                          /\ c \in subs => joined[c] + Len(seen) = Len(log)
    BY DEF GapFree
  <2> DEFINE seen == got[c] \o queue[c]
             m == Len(got[c])
             n == Len(queue[c])
  <2>1. /\ m \in Nat /\ n \in Nat /\ joined[c] \in Nat
        /\ Run(got[c], joined[c]) /\ Run(queue[c], joined[c] + m)
        /\ c \in subs => joined[c] + m + n = Len(log)
    BY <1>3, StreamTypes DEF StreamInv, StreamOK
  <2>2. /\ Len(seen) = m + n
        /\ \A i \in 1..(m + n) :
             seen[i] = IF i <= m THEN got[c][i] ELSE queue[c][i - m]
    BY <1>3, StreamTypes, ConcatProperties
  <2>3. ASSUME NEW i \in 1..(m + n)
        PROVE  seen[i] = joined[c] + i
    <3>1. CASE i <= m
      BY <2>1, <2>2, <3>1 DEF Run
    <3>2. CASE i > m
      <4>1. i - m \in 1..n
        <5> HIDE DEF m, n
        <5>1. QED
          BY <2>1, <3>2
      <4>2. queue[c][i - m] = joined[c] + m + (i - m)
        BY <2>1, <4>1 DEF Run
      <4>3. seen[i] = joined[c] + m + (i - m)
        BY <2>1, <2>2, <3>2, <4>2
      <4>4. QED
        BY <2>1, <4>3
    <3>3. QED
      BY <2>1, <3>1, <3>2
  <2>4. \A i \in 1..Len(seen) : seen[i] = joined[c] + i
    BY <2>2, <2>3
  <2>5. c \in subs => joined[c] + Len(seen) = Len(log)
    <3> HIDE DEF m, n, seen
    <3>1. QED
      BY <2>1, <2>2
  <2>6. QED
    BY <2>4, <2>5
<1>4. QED
  BY <1>1, <1>2, <1>3, Typing, PTL DEF Spec

\* A generator that goes on has delivered no terminal message.
EndInv ==
  \A c \in Conns :
    conn[c] \notin {"ending", "closed"} =>
      \A i \in 1..Len(got[c]) : log[got[c][i]] # "terminal"

LEMMA EndInvStep ==
  ASSUME TypeOK, StreamInv, EndInv, NothingAfterEnd, [Next]_vars
  PROVE  EndInv' /\ NothingAfterEnd'
<1> USE DEF EndInv, NothingAfterEnd
<1> DEFINE Goal == EndInv' /\ NothingAfterEnd'
<1>1. ASSUME NEW c \in Conns, NEW i \in 1..Len(got[c])
      PROVE  got[c][i] \in 1..Len(log)
  <2>1. /\ got[c][i] = joined[c] + i
        /\ joined[c] + Len(got[c]) + Len(queue[c]) <= Len(log)
    BY DEF StreamInv, StreamOK, Run
  <2>2. QED
    BY <2>1, StreamTypes
<1>2. ASSUME NEW kind \in Kind, Put(kind)
      PROVE  Goal
  <2>1. \A n \in 1..Len(log) : log'[n] = log[n]
    BY <1>2 DEF Put, TypeOK
  <2>2. UNCHANGED <<got, conn>>
    BY <1>2 DEF Put
  <2>3. \A c \in Conns : \A i \in 1..Len(got[c]) :
          log'[got'[c][i]] = log[got[c][i]]
    BY <1>1, <2>1, <2>2
  <2>4. QED
    BY <2>2, <2>3
<1>3. ASSUME NEW c \in Conns, Deliver(c)
      PROVE  Goal
  <2>1. /\ log' = log
        /\ conn[c] = "streaming"
        /\ \A d \in Conns \ {c} : got'[d] = got[d] /\ conn'[d] = conn[d]
    BY <1>3 DEF Deliver, TypeOK
  <2>2. log[Head(queue[c])] = "terminal" => conn'[c] = "ending"
    BY <1>3 DEF Deliver, TypeOK
  <2>3. \A i \in 1..Len(got[c]) : log[got[c][i]] # "terminal"
    BY <2>1
  <2>4. got[c] \in Seq(Nat) /\ Len(got[c]) \in Nat /\ Head(queue[c]) \in Nat
    BY <1>3, StreamTypes, HeadTailProperties DEF Deliver
  <2>5. got'[c] = Append(got[c], Head(queue[c]))
    BY <1>3 DEF Deliver, TypeOK
  <2>6. /\ Len(got'[c]) = Len(got[c]) + 1
        /\ \A i \in 1..Len(got[c]) : got'[c][i] = got[c][i]
        /\ got'[c][Len(got[c]) + 1] = Head(queue[c])
    BY <2>4, <2>5
  <2>7. ASSUME NEW i \in 1..Len(got'[c]), log'[got'[c][i]] = "terminal"
        PROVE  i = Len(got'[c]) /\ conn'[c] = "ending"
    <3>1. i \notin 1..Len(got[c])
      BY <2>1, <2>3, <2>6, <2>7
    <3>2. i = Len(got[c]) + 1
      BY <2>4, <2>6, <3>1
    <3>3. QED
      BY <2>1, <2>2, <2>6, <2>7, <3>2
  <2>8. QED
    BY <2>1, <2>7
<1>4. CASE /\ UNCHANGED <<got, log>>
           /\ \A c \in Conns : conn[c] \in {"ending", "closed"}
                                 => conn'[c] \in {"ending", "closed"}
  BY <1>4
<1>5. \/ \E kind \in Kind : Put(kind)
      \/ \E c \in Conns : Deliver(c)
      \/ /\ UNCHANGED <<got, log>>
         /\ \A c \in Conns : conn[c] \in {"ending", "closed"}
                               => conn'[c] \in {"ending", "closed"}
  BY DEF Next, ConnStep, Subscribe, Start, Abandon, Leave, Finish, Reap,
         Unsubscribe, Cleanup, vars, TypeOK
<1>6. QED
  BY <1>2, <1>3, <1>4, <1>5

(* A terminal message is the last a stream delivers: the generator leaves   *)
(* its loop with it.                                                        *)
THEOREM LastWord == Spec => [](EndInv /\ NothingAfterEnd)
<1>1. Init => EndInv /\ NothingAfterEnd
  BY DEF Init, EndInv, NothingAfterEnd
<1>2. TypeOK /\ StreamInv /\ EndInv /\ NothingAfterEnd /\ [Next]_vars
        => EndInv' /\ NothingAfterEnd'
  BY EndInvStep
<1>3. QED
  BY <1>1, <1>2, Typing, NoGap, PTL DEF Spec

-----------------------------------------------------------------------------
(* The dashboard's tabs.                                                    *)

\* What the tabs, the runs and the cancellations do to the streams is what SseHub
\* lets connections and producers do.
LEMMA TabsUseHub ==
  ASSUME [DashboardNext]_allVars
  PROVE  [Next]_vars
<1>1. ASSUME NEW t \in Tabs, TabStep(t)
      PROVE  [Next]_vars
  <2>1. CASE UNCHANGED hub
    BY <2>1 DEF hub, vars
  <2>2. ASSUME NEW c \in Conns, Connect(t, c)
        PROVE  [Next]_vars
    BY <2>2 DEF Connect, Next
  <2>3. ASSUME NEW c \in Conns, Receive(t, c)
        PROVE  [Next]_vars
    BY <2>3 DEF Receive, Next, ConnStep
  <2>4. ASSUME NEW c \in Conns, Drop(t, c)
        PROVE  [Next]_vars
    BY <2>4 DEF Drop, Next
  <2>5. CASE Announce(t)
    BY <2>5 DEF Announce, Send, Next, Kind
  <2>6. CASE Click(t) \/ ServerGone(t) \/ PostOk(t) \/ PostBusy(t) \/ Refused(t) \/ Reload(t) \/ Cancel(t)
    BY <2>1, <2>6 DEF Click, ServerGone, PostOk, PostBusy, Refused, Reload, Cancel
  <2>7. QED
    BY <1>1, <2>2, <2>3, <2>4, <2>5, <2>6 DEF TabStep
<1>2. CASE Progress
  BY <1>2 DEF Progress, Send, Next, Kind
<1>3. CASE EndRun
  BY <1>3 DEF EndRun, Send, Next, Kind
<1>4. CASE FreeSlot
  BY <1>4 DEF FreeSlot, hub, vars
<1>5. ASSUME NEW c \in Conns, HubStep(c)
      PROVE  [Next]_vars
  BY <1>5 DEF HubStep, Next, ConnStep
<1>6. CASE Sweep
  BY <1>6 DEF Sweep, Next
<1>7. CASE UNCHANGED allVars
  BY <1>7 DEF allVars, hub, vars
<1>8. QED
  BY <1>1, <1>2, <1>3, <1>4, <1>5, <1>6, <1>7 DEF DashboardNext

(* The dashboard and the runs use the progress streams as any connections   *)
(* and any producers would: what is proved of SseHub holds of them.         *)
THEOREM HubImplemented == DashboardSpec => Spec
<1>1. DashboardInit => Init
  BY DEF DashboardInit
<1>2. [DashboardNext]_allVars => [Next]_vars
  BY TabsUseHub
<1>3. QED
  BY <1>1, <1>2, PTL DEF DashboardSpec, Spec

\* The one tab that a step changes, what it becomes, and the others.
Becomes(t, ui, c, n) ==
  /\ tab'[t] = [ui |-> ui, conn |-> c, run |-> n]
  /\ \A u \in Tabs \ {t} : tab'[u] = tab[u]
  /\ tab' \in [Tabs -> Tab]

LEMMA TabsBecome ==
  ASSUME DashboardTypeOK, NEW t \in Tabs
  PROVE  /\ Click(t) => Becomes(t, "posting", None, 0)
         /\ PostOk(t) => Becomes(t, "answered", tab[t].conn, slot'.run) /\ slot'.run = slot.run + 1
                         /\ slot'.phase = "working" /\ slot'.left = slot.left /\ slot' \in Slot
         /\ PostBusy(t) => Becomes(t, "idle", tab[t].conn, tab[t].run)
         /\ \A c \in Conns : Connect(t, c) => Becomes(t, "watching", c, tab[t].run)
         /\ Stick(t) => Becomes(t, "stuck", None, 0)
         /\ tab' = [tab EXCEPT ![t] = FreshTab] => Becomes(t, "idle", None, 0)
<1> USE DashboardAssumption
<1> DEFINE ui == tab[t].ui
           c == tab[t].conn
           n == tab[t].run
<1>1. tab[t] = [ui |-> ui, conn |-> c, run |-> n] /\ c \in Conns \cup {None} /\ n \in Runs /\ 0 \in Runs
  BY DEF DashboardTypeOK, Tab, Runs
<1>2. FreshTab = [ui |-> "idle", conn |-> None, run |-> 0]
  BY DEF FreshTab
<1>3. ASSUME NEW r \in Tab, tab' = [tab EXCEPT ![t] = r]
      PROVE  /\ tab'[t] = r /\ \A u \in Tabs \ {t} : tab'[u] = tab[u]
             /\ tab' \in [Tabs -> Tab]
  BY <1>3 DEF DashboardTypeOK
<1>4. ASSUME NEW v \in {"idle", "posting", "answered", "watching", "stuck"},
             NEW d \in Conns \cup {None}, NEW m \in Runs
      PROVE  [ui |-> v, conn |-> d, run |-> m] \in Tab
  BY DEF Tab
<1>5. ASSUME Click(t)
      PROVE  Becomes(t, "posting", None, 0)
  <2>1. tab' = [tab EXCEPT ![t] = [ui |-> "posting", conn |-> None, run |-> 0]]
    <3>1. [FreshTab EXCEPT !.ui = "posting"] = [ui |-> "posting", conn |-> None, run |-> 0]
      BY <1>2
    <3>2. QED
      BY <1>5, <3>1, Zenon DEF Click
  <2>2. QED
    BY <1>1, <1>3, <1>4, <2>1 DEF Becomes
<1>6. ASSUME Stick(t)
      PROVE  Becomes(t, "stuck", None, 0)
  <2>1. tab' = [tab EXCEPT ![t] = [ui |-> "stuck", conn |-> None, run |-> 0]]
    <3>1. [FreshTab EXCEPT !.ui = "stuck"] = [ui |-> "stuck", conn |-> None, run |-> 0]
      BY <1>2
    <3>2. QED
      BY <1>6, <3>1, Zenon DEF Stick
  <2>2. QED
    BY <1>1, <1>3, <1>4, <2>1 DEF Becomes
<1>7. ASSUME tab' = [tab EXCEPT ![t] = FreshTab]
      PROVE  Becomes(t, "idle", None, 0)
  BY <1>1, <1>2, <1>3, <1>4, <1>7 DEF Becomes
<1>8. ASSUME PostBusy(t)
      PROVE  Becomes(t, "idle", c, n)
  <2>1. tab' = [tab EXCEPT ![t] = [ui |-> "idle", conn |-> c, run |-> n]]
    <3>1. [tab[t] EXCEPT !.ui = "idle"] = [ui |-> "idle", conn |-> c, run |-> n]
      BY <1>1
    <3>2. QED
      BY <1>8, <3>1, Zenon DEF PostBusy, Show
  <2>2. QED
    BY <1>1, <1>3, <1>4, <2>1 DEF Becomes
<1>9. ASSUME NEW d \in Conns, Connect(t, d)
      PROVE  Becomes(t, "watching", d, n)
  <2>1. tab' = [tab EXCEPT ![t] = [ui |-> "watching", conn |-> d, run |-> n]]
    <3>1. [[tab[t] EXCEPT !.ui = "watching"] EXCEPT !.conn = d] = [ui |-> "watching", conn |-> d, run |-> n]
      <4>1. PICK r : r = [tab[t] EXCEPT !.ui = "watching"]
        OBVIOUS
      <4>2. r = [ui |-> "watching", conn |-> c, run |-> n]
        BY <1>1, <4>1
      <4>3. [r EXCEPT !.conn = d] = [ui |-> "watching", conn |-> d, run |-> n]
        BY <4>2
      <4>4. QED
        BY <4>1, <4>3, Zenon
    <3>2. QED
      BY <1>9, <3>1, Zenon DEF Connect
  <2>2. QED
    BY <1>1, <1>3, <1>4, <2>1 DEF Becomes
<1>10. ASSUME PostOk(t)
       PROVE  Becomes(t, "answered", c, slot'.run) /\ slot'.run = slot.run + 1
              /\ slot'.phase = "working" /\ slot'.left = slot.left /\ slot' \in Slot
  <2>1. slot' = [run |-> slot.run + 1, phase |-> "working", left |-> slot.left]
    BY <1>10 DEF PostOk, DashboardTypeOK, Slot
  <2>2. slot.run + 1 \in Runs
    BY <1>10 DEF PostOk, DashboardTypeOK, Slot, Runs
  <2>3. slot' \in Slot /\ slot'.run \in Runs
    BY <2>1, <2>2 DEF DashboardTypeOK, Slot
  <2>4. tab' = [tab EXCEPT ![t] = [ui |-> "answered", conn |-> c, run |-> slot'.run]]
    <3>1. [[tab[t] EXCEPT !.ui = "answered"] EXCEPT !.run = slot'.run]
            = [ui |-> "answered", conn |-> c, run |-> slot'.run]
      <4>1. PICK r : r = [tab[t] EXCEPT !.ui = "answered"]
        OBVIOUS
      <4>2. r = [ui |-> "answered", conn |-> c, run |-> n]
        BY <1>1, <4>1
      <4>3. [r EXCEPT !.run = slot'.run] = [ui |-> "answered", conn |-> c, run |-> slot'.run]
        BY <4>2
      <4>4. QED
        BY <4>1, <4>3, Zenon
    <3>2. QED
      BY <1>10, <3>1, Zenon DEF PostOk
  <2>5. QED
    BY <1>1, <1>3, <1>4, <2>1, <2>3, <2>4 DEF Becomes
<1>11. QED
  BY <1>5, <1>6, <1>7, <1>8, <1>9, <1>10

\* A message is appended with its sender.
LEMMA Sent ==
  ASSUME TypeOK, DashboardTypeOK, NEW kind \in Kind, NEW n \in Runs,
         NEW who \in {"run", "cancel"}, Send(kind, n, who)
  PROVE  /\ origin' \in Seq([run : Runs, by : {"run", "cancel"}]) /\ Len(origin') = Len(log')
         /\ Len(origin') = Len(origin) + 1 /\ joined' = joined
         /\ origin'[Len(origin) + 1].run = n /\ origin'[Len(origin) + 1].by = who
         /\ \A i \in 1..Len(origin) : origin'[i] = origin[i]
<1> DEFINE Sender == [run : Runs, by : {"run", "cancel"}]
           x == [run |-> n, by |-> who]
<1>1. origin \in Seq(Sender) /\ Len(origin) = Len(log) /\ x \in Sender
  BY DEF DashboardTypeOK
<1>2. origin' = Append(origin, x) /\ log' = Append(log, kind) /\ log \in Seq(Kind) /\ joined' = joined
  BY DEF Send, Put, TypeOK
<1>3. x.run = n /\ x.by = who
  OBVIOUS
<1> HIDE DEF Sender, x
<1>4. /\ Append(origin, x) \in Seq(Sender) /\ Len(Append(origin, x)) = Len(origin) + 1
      /\ Append(origin, x)[Len(origin) + 1] = x
      /\ \A i \in 1..Len(origin) : Append(origin, x)[i] = origin[i]
  BY <1>1
<1>5. Len(log') = Len(log) + 1
  BY <1>2
<1>6. QED
  BY <1>1, <1>2, <1>3, <1>4, <1>5 DEF Sender

LEMMA DashboardTypingStep ==
  ASSUME TypeOK, DashboardTypeOK, [DashboardNext]_allVars
  PROVE  DashboardTypeOK'
<1> USE DashboardAssumption
<1>1. ASSUME NEW t \in Tabs, NEW ui, NEW c, NEW n, Becomes(t, ui, c, n),
             UNCHANGED <<log, slot, handler, cancels, origin>>
      PROVE  DashboardTypeOK'
  BY <1>1 DEF DashboardTypeOK, Becomes
<1>2. ASSUME NEW t \in Tabs, TabStep(t)
      PROVE  DashboardTypeOK'
  <2>1. CASE Click(t)
    BY <1>1, <2>1, TabsBecome DEF Click, hub
  <2>2. CASE ServerGone(t)
    BY <1>1, <2>2, TabsBecome DEF ServerGone, hub
  <2>3. CASE PostOk(t)
    BY <2>3, TabsBecome DEF PostOk, hub, Becomes, DashboardTypeOK
  <2>4. CASE PostBusy(t)
    BY <1>1, <2>4, TabsBecome DEF PostBusy, hub
  <2>5. CASE Refused(t)
    BY <1>1, <2>5, TabsBecome DEF Refused, hub
  <2>6. CASE Reload(t)
    BY <1>1, <2>6, TabsBecome DEF Reload, hub
  <2>7. CASE Cancel(t)
    BY <2>7 DEF Cancel, hub, DashboardTypeOK, Slot
  <2>8. CASE Announce(t)
    <3>1. handler[t] \in Runs /\ Send("terminal", handler[t], "cancel") /\ 0 \in Runs
      BY <2>8 DEF Announce, DashboardTypeOK, Runs
    <3>2. /\ origin' \in Seq([run : Runs, by : {"run", "cancel"}]) /\ Len(origin') = Len(log')
      BY <3>1, Sent DEF Kind
    <3>3. UNCHANGED <<slot, tab, cancels>> /\ handler' \in [Tabs -> Runs]
      BY <2>8, <3>1 DEF Announce, DashboardTypeOK
    <3>4. QED
      BY <3>2, <3>3 DEF DashboardTypeOK
  <2>9. ASSUME NEW c \in Conns, Connect(t, c)
        PROVE  DashboardTypeOK'
    BY <1>1, <2>9, TabsBecome DEF Connect, Subscribe
  <2>10. ASSUME NEW c \in Conns, Receive(t, c)
         PROVE  DashboardTypeOK'
    <3>1. UNCHANGED <<log, slot, handler, cancels, origin>>
      BY <2>10 DEF Receive, Deliver
    <3>2. CASE tab' = [tab EXCEPT ![t] = FreshTab]
      BY <1>1, <3>1, <3>2, TabsBecome
    <3>3. CASE UNCHANGED tab
      BY <3>1, <3>3 DEF DashboardTypeOK
    <3>4. QED
      BY <2>10, <3>2, <3>3 DEF Receive
  <2>11. ASSUME NEW c \in Conns, Drop(t, c)
         PROVE  DashboardTypeOK'
    BY <1>1, <2>11, TabsBecome DEF Drop, Leave, Abandon
  <2>12. QED
    BY <1>2, <2>1, <2>2, <2>3, <2>4, <2>5, <2>6, <2>7, <2>8, <2>9, <2>10, <2>11 DEF TabStep
<1>3. CASE Progress
  <2>1. slot.run \in Runs /\ Send("progress", slot.run, "run")
    BY <1>3 DEF Progress, DashboardTypeOK, Slot
  <2>2. origin' \in Seq([run : Runs, by : {"run", "cancel"}]) /\ Len(origin') = Len(log')
    BY <2>1, Sent DEF Kind
  <2>3. slot' \in Slot /\ UNCHANGED <<tab, handler, cancels>>
    BY <1>3 DEF Progress, DashboardTypeOK, Slot
  <2>4. QED
    BY <2>2, <2>3 DEF DashboardTypeOK
<1>4. CASE EndRun
  <2>1. slot.run \in Runs /\ Send("terminal", slot.run, "run")
    BY <1>4 DEF EndRun, DashboardTypeOK, Slot
  <2>2. origin' \in Seq([run : Runs, by : {"run", "cancel"}]) /\ Len(origin') = Len(log')
    BY <2>1, Sent DEF Kind
  <2>3. slot' \in Slot /\ UNCHANGED <<tab, handler, cancels>>
    BY <1>4 DEF EndRun, DashboardTypeOK, Slot
  <2>4. QED
    BY <2>2, <2>3 DEF DashboardTypeOK
<1>5. CASE FreeSlot
  BY <1>5 DEF FreeSlot, hub, DashboardTypeOK, Slot
<1>6. ASSUME NEW c \in Conns, HubStep(c)
      PROVE  DashboardTypeOK'
  BY <1>6 DEF HubStep, Start, Finish, Reap, Unsubscribe, DashboardTypeOK
<1>7. CASE Sweep
  BY <1>7 DEF Sweep, Cleanup, DashboardTypeOK
<1>8. CASE UNCHANGED allVars
  BY <1>8 DEF allVars, hub, DashboardTypeOK
<1>9. QED
  BY <1>2, <1>3, <1>4, <1>5, <1>6, <1>7, <1>8 DEF DashboardNext

(* Every variable of the dashboard keeps its type: in particular each       *)
(* message has its sender.                                                  *)
THEOREM DashboardTyping == DashboardSpec => []DashboardTypeOK
<1>1. DashboardInit => DashboardTypeOK
  <2>1. SUFFICES ASSUME DashboardInit PROVE DashboardTypeOK
    OBVIOUS
  <2>2. FreshTab \in Tab /\ 0 \in Runs
    BY DashboardAssumption DEF FreshTab, Tab, Runs
  <2>3. slot \in Slot /\ tab \in [Tabs -> Tab] /\ handler \in [Tabs -> Runs]
    BY <2>1, <2>2, DashboardAssumption DEF DashboardInit, Slot
  <2>4. cancels \in 0..MaxCancels
    BY <2>1, DashboardAssumption DEF DashboardInit
  <2>5. origin = <<>> /\ log = <<>>
    BY <2>1 DEF DashboardInit, Init
  <2>6. QED
    BY <2>3, <2>4, <2>5 DEF DashboardTypeOK
<1>2. TypeOK /\ DashboardTypeOK /\ [DashboardNext]_allVars => DashboardTypeOK'
  BY DashboardTypingStep
<1>3. QED
  BY <1>1, <1>2, HubImplemented, Typing, PTL DEF DashboardSpec

\* A tab has a stream only while it watches it, and a run no later than the last;
\* messages since its stream was opened are of its run or a later one, unless a
\* cancellation sent them.
OwnMessage(t, i) == origin[i].run >= tab[t].run \/ origin[i].by = "cancel"
OwnTab(t) ==
  /\ tab[t].run <= slot.run
  /\ Ui(t) # "watching" => tab[t].conn = None
  /\ tab[t].conn # None =>
       \A i \in 1..Len(origin) : i > joined[tab[t].conn] => OwnMessage(t, i)
OwnInv == \A t \in Tabs : OwnTab(t)

\* A tab that a step leaves alone.
LEMMA OwnKept ==
  ASSUME TypeOK, TypeOK', DashboardTypeOK, DashboardTypeOK', NEW t \in Tabs, OwnTab(t),
         tab'[t] = tab[t], slot'.run >= slot.run, UNCHANGED <<log, origin>>,
         \A c \in Conns : joined'[c] = joined[c] \/ joined'[c] = Len(log)
  PROVE  OwnTab(t)'
<1>1. tab[t].run \in Nat /\ slot.run \in Nat /\ slot'.run \in Nat /\ tab[t].conn \in Conns \cup {None}
  BY DashboardAssumption DEF DashboardTypeOK, Tab, Slot, Runs
<1>2. tab'[t].run <= slot'.run
  BY <1>1 DEF OwnTab
<1>3. Ui(t)' # "watching" => tab'[t].conn = None
  BY DEF OwnTab, Ui
<1>4. ASSUME tab'[t].conn # None, NEW i \in 1..Len(origin), i > joined'[tab'[t].conn]
      PROVE  OwnMessage(t, i)'
  <2>1. PICK c \in Conns : tab[t].conn = c
    BY <1>1, <1>4
  <2>2. Len(log) = Len(origin) /\ joined[c] \in Nat /\ joined'[c] \in Nat /\ Len(origin) \in Nat
    BY DashboardAssumption, HubAssumption DEF TypeOK, DashboardTypeOK
  <2>3. joined'[c] = joined[c]
    BY <1>4, <2>1, <2>2
  <2>4. OwnMessage(t, i)
    BY <1>4, <2>1, <2>3 DEF OwnTab
  <2>5. QED
    BY <2>4 DEF OwnMessage
<1>5. QED
  BY <1>2, <1>3, <1>4 DEF OwnTab

\* A tab when a message is sent, of the run or for a cancellation.
LEMMA OwnSent ==
  ASSUME TypeOK, DashboardTypeOK, DashboardTypeOK', NEW t \in Tabs, OwnTab(t),
         NEW kind \in Kind, NEW n \in Runs, NEW who \in {"run", "cancel"}, Send(kind, n, who),
         who = "run" => n = slot.run, UNCHANGED tab, slot'.run = slot.run
  PROVE  OwnTab(t)'
<1>1. tab[t].run \in Nat /\ slot.run \in Nat /\ tab[t].conn \in Conns \cup {None} /\ Len(origin) \in Nat
  BY DashboardAssumption DEF DashboardTypeOK, Tab, Slot, Runs
<1>2. /\ Len(origin') = Len(origin) + 1 /\ joined' = joined
      /\ origin'[Len(origin) + 1].run = n /\ origin'[Len(origin) + 1].by = who
      /\ \A i \in 1..Len(origin) : origin'[i] = origin[i]
  BY Sent
<1>3. ASSUME tab'[t].conn # None, NEW i \in 1..Len(origin'), i > joined'[tab'[t].conn]
      PROVE  OwnMessage(t, i)'
  <2>1. CASE i = Len(origin) + 1
    <3>1. origin'[i].run = n /\ origin'[i].by = who
      BY <1>2, <2>1
    <3>2. CASE who = "run"
      BY <1>1, <3>1, <3>2 DEF OwnMessage, OwnTab
    <3>3. CASE who = "cancel"
      BY <3>1, <3>3 DEF OwnMessage
    <3>4. QED
      BY <3>2, <3>3
  <2>2. CASE i \in 1..Len(origin)
    <3>1. OwnMessage(t, i)
      BY <1>2, <1>3, <2>2 DEF OwnTab
    <3>2. QED
      BY <1>2, <2>2, <3>1 DEF OwnMessage
  <2>3. QED
    BY <1>1, <1>2, <2>1, <2>2
<1>4. QED
  BY <1>3 DEF OwnTab, Ui

\* A tab that gives up its stream, or has none.
LEMMA OwnAlone ==
  ASSUME NEW t \in Tabs, NEW ui, NEW n \in Nat, Becomes(t, ui, None, n), n <= slot'.run
  PROVE  OwnTab(t)'
BY DEF OwnTab, Becomes, Ui

LEMMA OwnStep ==
  ASSUME TypeOK, TypeOK', DashboardTypeOK, DashboardTypeOK', OwnInv, [DashboardNext]_allVars
  PROVE  OwnInv'
<1> USE DashboardAssumption
<1>1. slot.run \in Nat /\ slot'.run \in Nat
  BY DEF DashboardTypeOK, Slot, Runs
<1>2. ASSUME NEW t \in Tabs, NEW ui, NEW n \in Nat, Becomes(t, ui, None, n), n <= slot'.run,
             slot'.run >= slot.run, UNCHANGED <<log, origin>>,
             \A c \in Conns : joined'[c] = joined[c] \/ joined'[c] = Len(log)
      PROVE  OwnInv'
  <2>1. OwnTab(t)'
    BY <1>2, OwnAlone
  <2>2. ASSUME NEW u \in Tabs, u # t
        PROVE  OwnTab(u)'
    <3>1. tab'[u] = tab[u] /\ OwnTab(u)
      BY <1>2, <2>2 DEF Becomes, OwnInv
    <3>2. QED
      BY <1>2, <3>1, OwnKept
  <2>3. QED
    BY <2>1, <2>2 DEF OwnInv
<1>3. ASSUME UNCHANGED <<tab, log, origin>>, slot'.run = slot.run,
             \A c \in Conns : joined'[c] = joined[c] \/ joined'[c] = Len(log)
      PROVE  OwnInv'
  BY <1>1, <1>3, OwnKept DEF OwnInv
<1>4. ASSUME NEW kind \in Kind, NEW n \in Runs, NEW who \in {"run", "cancel"}, Send(kind, n, who),
             who = "run" => n = slot.run, UNCHANGED tab, slot'.run = slot.run
      PROVE  OwnInv'
  BY <1>4, OwnSent DEF OwnInv
<1>5. ASSUME NEW t \in Tabs, TabStep(t)
      PROVE  OwnInv'
  <2>1. OwnTab(t) /\ tab[t].run \in Nat /\ tab[t].conn \in Conns \cup {None}
    BY DEF OwnInv, DashboardTypeOK, Tab, Runs
  <2>2. CASE Click(t)
    <3>1. Becomes(t, "posting", None, 0) /\ UNCHANGED <<log, origin, joined, slot>>
      BY <2>2, TabsBecome DEF Click, hub
    <3>2. QED
      BY <1>1, <1>2, <3>1
  <2>3. CASE ServerGone(t)
    BY <1>1, <1>2, <2>3, TabsBecome DEF ServerGone, hub
  <2>4. CASE PostOk(t)
    <3>1. tab[t].conn = None
      BY <2>1, <2>4 DEF PostOk, OwnTab
    <3>2. Becomes(t, "answered", None, slot'.run) /\ slot'.run = slot.run + 1
      BY <2>4, <3>1, TabsBecome
    <3>3. UNCHANGED <<log, origin, joined>>
      BY <2>4 DEF PostOk, hub
    <3>4. QED
      BY <1>1, <1>2, <3>2, <3>3
  <2>5. CASE PostBusy(t)
    <3>1. tab[t].conn = None /\ tab[t].run <= slot.run
      BY <2>1, <2>5 DEF PostBusy, OwnTab
    <3>2. Becomes(t, "idle", None, tab[t].run)
      BY <2>5, <3>1, TabsBecome
    <3>3. UNCHANGED <<log, origin, joined, slot>>
      BY <2>5 DEF PostBusy, hub
    <3>4. QED
      BY <1>1, <1>2, <2>1, <3>1, <3>2, <3>3
  <2>6. CASE Refused(t)
    BY <1>1, <1>2, <2>6, TabsBecome DEF Refused, hub
  <2>7. CASE Reload(t)
    <3>1. Becomes(t, "idle", None, 0) /\ UNCHANGED <<log, origin, joined, slot>>
      BY <2>7, TabsBecome DEF Reload, hub
    <3>2. QED
      BY <1>1, <1>2, <3>1
  <2>8. CASE Cancel(t)
    BY <1>3, <2>8 DEF Cancel, hub
  <2>9. CASE Announce(t)
    <3>1. handler[t] \in Runs
      BY DEF DashboardTypeOK
    <3>2. QED
      BY <1>4, <2>9, <3>1 DEF Announce, Kind
  <2>10. ASSUME NEW c \in Conns, Connect(t, c)
         PROVE  OwnInv'
    <3>1. /\ Becomes(t, "watching", c, tab[t].run)
          /\ UNCHANGED <<log, origin, slot>> /\ joined'[c] = Len(log)
          /\ \A d \in Conns : joined'[d] = joined[d] \/ joined'[d] = Len(log)
      BY <2>10, TabsBecome DEF Connect, Subscribe, TypeOK
    <3>2. Len(log) = Len(origin) /\ Len(origin) \in Nat
      BY DEF DashboardTypeOK
    <3>3. OwnTab(t)'
      BY <2>1, <3>1, <3>2 DEF Becomes, OwnTab, Ui
    <3>4. ASSUME NEW u \in Tabs, u # t
          PROVE  OwnTab(u)'
      <4>1. tab'[u] = tab[u] /\ OwnTab(u)
        BY <3>1, <3>4 DEF Becomes, OwnInv
      <4>2. QED
        BY <1>1, <3>1, <4>1, OwnKept
    <3>5. QED
      BY <3>3, <3>4 DEF OwnInv
  <2>11. ASSUME NEW c \in Conns, Receive(t, c)
         PROVE  OwnInv'
    <3>1. UNCHANGED <<log, slot, joined, origin>>
      BY <2>11 DEF Receive, Deliver
    <3>2. CASE tab' = [tab EXCEPT ![t] = FreshTab]
      <4>1. Becomes(t, "idle", None, 0)
        BY <3>2, TabsBecome
      <4>2. QED
        BY <1>1, <1>2, <3>1, <4>1
    <3>3. CASE UNCHANGED tab
      BY <1>3, <3>1, <3>3
    <3>4. QED
      BY <2>11, <3>2, <3>3 DEF Receive
  <2>12. ASSUME NEW c \in Conns, Drop(t, c)
         PROVE  OwnInv'
    BY <1>1, <1>2, <2>12, TabsBecome DEF Drop, Leave, Abandon
  <2>13. QED
    BY <1>5, <2>2, <2>3, <2>4, <2>5, <2>6, <2>7, <2>8, <2>9, <2>10, <2>11, <2>12 DEF TabStep
<1>6. CASE Progress
  <2>1. Send("progress", slot.run, "run") /\ slot.run \in Runs /\ UNCHANGED tab /\ slot'.run = slot.run
    BY <1>6 DEF Progress, DashboardTypeOK, Slot
  <2>2. QED
    BY <1>4, <2>1 DEF Kind
<1>7. CASE EndRun
  <2>1. Send("terminal", slot.run, "run") /\ slot.run \in Runs /\ UNCHANGED tab /\ slot'.run = slot.run
    BY <1>7 DEF EndRun, DashboardTypeOK, Slot
  <2>2. QED
    BY <1>4, <2>1 DEF Kind
<1>8. CASE FreeSlot
  BY <1>3, <1>8 DEF FreeSlot, hub, DashboardTypeOK, Slot
<1>9. ASSUME NEW c \in Conns, HubStep(c)
      PROVE  OwnInv'
  BY <1>3, <1>9 DEF HubStep, Start, Finish, Reap, Unsubscribe
<1>10. CASE Sweep
  BY <1>3, <1>10 DEF Sweep, Cleanup
<1>11. CASE UNCHANGED allVars
  BY <1>3, <1>11 DEF allVars, hub
<1>12. QED
  BY <1>5, <1>6, <1>7, <1>8, <1>9, <1>10, <1>11 DEF DashboardNext

\* The message a stream passes on came after it was opened.
LEMMA Delivered ==
  ASSUME TypeOK, StreamInv, DashboardTypeOK, NEW c \in Conns, Deliver(c)
  PROVE  Head(queue[c]) \in 1..Len(origin) /\ Head(queue[c]) > joined[c]
<1>1. /\ Len(log) \in Nat /\ Len(got[c]) \in Nat /\ Len(queue[c]) \in Nat
      /\ joined[c] \in Nat /\ queue[c] \in Seq(Nat)
  BY StreamTypes
<1>2. queue[c] # <<>>
  BY DEF Deliver
<1>3. /\ joined[c] + Len(got[c]) + Len(queue[c]) <= Len(log)
      /\ Run(queue[c], joined[c] + Len(got[c]))
  BY DEF StreamInv, StreamOK
<1>4. Head(queue[c]) = joined[c] + Len(got[c]) + 1
  BY <1>1, <1>2, <1>3, RunTail
<1>5. Len(queue[c]) >= 1
  BY <1>1, <1>2, EmptySeq
<1>6. Len(origin) = Len(log)
  BY DEF DashboardTypeOK
<1>7. QED
  BY <1>1, <1>3, <1>4, <1>5, <1>6

(* What a tab is shown is of the run it started or of a later one, except   *)
(* that the cancellation of an earlier run may reach it: the stream is      *)
(* opened after the answer to the request that started the run.             *)
THEOREM OwnEnd == DashboardSpec => EndIsOwn
<1>1. DashboardInit => OwnInv
  BY DashboardAssumption DEF DashboardInit, OwnInv, OwnTab, FreshTab, Ui
<1>2. /\ TypeOK /\ TypeOK' /\ DashboardTypeOK /\ DashboardTypeOK' /\ OwnInv
      /\ [DashboardNext]_allVars
      => OwnInv'
  BY OwnStep
<1>3. ASSUME TypeOK, StreamInv, DashboardTypeOK, OwnInv
      PROVE  \A t \in Tabs, c \in Conns :
               Receive(t, c) => LET i == Head(queue[c])
                                IN  origin[i].run >= tab[t].run \/ origin[i].by = "cancel"
  <2>1. SUFFICES ASSUME NEW t \in Tabs, NEW c \in Conns, Receive(t, c)
                 PROVE  OwnMessage(t, Head(queue[c]))
    BY DEF OwnMessage
  <2>2. tab[t].conn = c /\ c # None /\ Deliver(c)
    BY <2>1, DashboardAssumption DEF Receive
  <2>3. Head(queue[c]) \in 1..Len(origin) /\ Head(queue[c]) > joined[c]
    BY <1>3, <2>2, Delivered
  <2>4. QED
    BY <1>3, <2>2, <2>3 DEF OwnInv, OwnTab
<1>4. QED
  BY <1>1, <1>2, <1>3, HubImplemented, Typing, NoGap, DashboardTyping, PTL DEF DashboardSpec, EndIsOwn
=============================================================================
