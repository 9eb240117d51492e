--------------------------- MODULE AccountsProofs ---------------------------
(***************************************************************************)
(* Proofs about Accounts, for any number of users, requests and links, with *)
(* or without an administrator in the environment.                          *)
(***************************************************************************)
EXTENDS Accounts, TLAPS

-----------------------------------------------------------------------------
(* Types.                                                                   *)

\* A link has an owner once it is issued.
Owned(x) ==
  /\ x.state = "new" => x.owner = Nobody
  /\ x.state = "live" => x.owner \in Users

\* A request under way has a user, and from its peek on a link; exactly the
\* requests between a locked check and its write hold the lock.
Shape ==
  /\ \A r \in Requests :
       /\ req[r].stage # "idle" => req[r].user \in Users
       /\ req[r].stage \in {"issue", "consume", "spend", "apply"}
            => req[r].link \in Links
       /\ req[r].stage \in Locked <=> lock = r
  /\ \A l \in Links : Owned(link[l])

Typed == TypeOK /\ Shape

LEMMA RecordTypes ==
  /\ Idle \in Request /\ Idle.stage = "idle"
  /\ \A st \in Stage, u \in Users, a \in BOOLEAN :
       LET x == Doing(st, u, a)
       IN  x \in Request /\ x.stage = st /\ x.user = u /\ x.admin = a
  /\ \A st \in Stage, u \in Users, l \in Links, k \in Kind :
       LET x == Using(st, u, l, k)
       IN  /\ x \in Request /\ x.stage = st /\ x.user = u
           /\ x.link = l /\ x.kind = k /\ x.stale = FALSE
<1>1. "password_reset" \in Kind /\ "idle" \in Stage
  BY DEF Kind, Stage
<1>2. QED
  BY <1>1 DEF Idle, Doing, Using, Request

\* What a step of r does to the requests.
LEMMA Continued ==
  ASSUME TypeOK, NEW r \in Requests, NEW x \in Request, Continue(r, x)
  PROVE  /\ req' \in [Requests -> Request]
         /\ req'[r] = x
         /\ \A s \in Requests \ {r} : req'[s] = req[s]
  BY DEF TypeOK, Continue

Alike(x, y) ==
  /\ x.stage = y.stage /\ x.user = y.user /\ x.admin = y.admin
  /\ x.link = y.link /\ x.kind = y.kind
  /\ x.stale \in BOOLEAN /\ (y.stale => x.stale)

LEMMA Staled ==
  ASSUME NEW y \in Request
  PROVE  LET x == [y EXCEPT !.stale = @ \/ y.stage = "spend"]
         IN  /\ x \in Request /\ Alike(x, y)
             /\ y.stage = "spend" => x.stale
  BY DEF Request, Alike

LEMMA Written ==
  ASSUME TypeOK, NEW r \in Requests, NEW x \in Request, Wrote(r, x)
  PROVE  /\ req' \in [Requests -> Request]
         /\ req'[r] = x
         /\ \A s \in Requests \ {r} :
              /\ Alike(req'[s], req[s])
              /\ req[s].stage = "spend" => req'[s].stale
<1>1. req'[r] = x
  BY DEF Wrote
<1>2. ASSUME NEW s \in Requests \ {r}
      PROVE  /\ req'[s] \in Request /\ Alike(req'[s], req[s])
             /\ req[s].stage = "spend" => req'[s].stale
  <2>1. req'[s] = [req[s] EXCEPT !.stale = @ \/ req[s].stage = "spend"]
    BY DEF Wrote
  <2>2. req[s] \in Request
    BY DEF TypeOK
  <2>3. QED
    BY <2>1, <2>2, Staled
<1>3. req' = [s \in Requests |-> req'[s]]
  BY DEF Wrote
<1>4. QED
  BY <1>1, <1>2, <1>3

\* A request that r does not take a step of keeps its shape; so does the store
\* when r's new state has the right shape.
LEMMA ShapeStep ==
  ASSUME Typed, NEW r \in Requests,
         \A s \in Requests \ {r} : Alike(req'[s], req[s]),
         req'[r].stage # "idle" => req'[r].user \in Users,
         req'[r].stage \in {"issue", "consume", "spend", "apply"}
           => req'[r].link \in Links,
         req'[r].stage \in Locked <=> lock' = r,
         lock' # lock => lock' = r \/ (lock = r /\ lock' = Nobody),
         lock' = r => lock \in {r, Nobody},
         \A l \in Links : Owned(link'[l])
  PROVE  Shape'
<1>1. Nobody \notin Requests
  BY AccountsAssumption
<1>2. ASSUME NEW s \in Requests \ {r}
      PROVE  /\ req'[s].stage # "idle" => req'[s].user \in Users
             /\ req'[s].stage \in {"issue", "consume", "spend", "apply"}
                  => req'[s].link \in Links
             /\ req'[s].stage \in Locked <=> lock' = s
  <2>1. Alike(req'[s], req[s])
    OBVIOUS
  <2>2. lock' = s <=> lock = s
    BY <1>1
  <2>3. QED
    BY <2>1, <2>2 DEF Alike, Typed, Shape
<1>3. QED
  BY <1>2 DEF Shape

LEMMA LinkTypes ==
  ASSUME TypeOK, NEW l \in Links
  PROVE  /\ link[l].owner \in Users \cup {Nobody}
         /\ link[l].kind \in Kind
         /\ link[l].state \in LinkState
         /\ \A st \in LinkState :
              /\ [link[l] EXCEPT !.state = st] \in Link
              /\ [link[l] EXCEPT !.state = st].state = st
              /\ [link[l] EXCEPT !.state = st].owner = link[l].owner
              /\ [link[l] EXCEPT !.state = st].kind = link[l].kind
  BY DEF TypeOK, Link

LEMMA ReqTypes ==
  ASSUME TypeOK, NEW r \in Requests
  PROVE  /\ req[r] \in Request
         /\ req[r].stage \in Stage
         /\ req[r].user \in Users \cup {Nobody}
         /\ req[r].admin \in BOOLEAN
         /\ req[r].kind \in Kind
         /\ req[r].stale \in BOOLEAN
         /\ \A st \in Stage :
              /\ [req[r] EXCEPT !.stage = st] \in Request
              /\ [req[r] EXCEPT !.stage = st].stage = st
              /\ [req[r] EXCEPT !.stage = st].user = req[r].user
              /\ [req[r] EXCEPT !.stage = st].link = req[r].link
              /\ [req[r] EXCEPT !.stage = st].kind = req[r].kind
              /\ [req[r] EXCEPT !.stage = st].stale = req[r].stale
  BY DEF TypeOK, Request

LEMMA SameAlike == ASSUME NEW x \in Request PROVE Alike(x, x)
  BY DEF Alike, Request

LEMMA EnterTyped ==
  ASSUME Typed, NEW r \in Requests, NEW stage \in Locked, NEW u \in Users,
         NEW admin \in BOOLEAN, Enter(r, stage, u, admin)
  PROVE  Typed'
<1>1. Doing(stage, u, admin) \in Request
      /\ Doing(stage, u, admin).stage = stage
      /\ Doing(stage, u, admin).user = u
  BY RecordTypes DEF Stage
<1>2. /\ req' \in [Requests -> Request] /\ req'[r] = Doing(stage, u, admin)
      /\ \A s \in Requests \ {r} : req'[s] = req[s]
  BY <1>1, Continued DEF Enter, Typed
<1>3. \A s \in Requests \ {r} : Alike(req'[s], req[s])
  BY <1>2, SameAlike DEF Typed, TypeOK
<1>4. TypeOK'
  BY <1>2 DEF Enter, Typed, TypeOK, table
<1>5. stage \notin {"issue", "consume", "spend", "apply"}
  BY DEF Locked
<1>6. lock = Nobody /\ lock' = r /\ link' = link
  BY DEF Enter
<1>7. Shape'
  BY <1>1, <1>2, <1>3, <1>5, <1>6, ShapeStep DEF Typed, Shape
<1>8. QED
  BY <1>4, <1>7 DEF Typed

LEMMA ExitTyped ==
  ASSUME Typed, NEW r \in Requests, req[r].stage \in Locked, Exit(r),
         accounts' \subseteq Users, admins' \subseteq accounts',
         verified' \subseteq accounts', overlapped' \in BOOLEAN
  PROVE  Typed'
<1>1. Idle \in Request /\ Idle.stage = "idle"
  BY RecordTypes
<1>2. /\ req' \in [Requests -> Request] /\ req'[r] = Idle
      /\ \A s \in Requests \ {r} : Alike(req'[s], req[s])
  BY <1>1, Written DEF Exit, Typed
<1>3. TypeOK'
  BY <1>2 DEF Exit, Typed, TypeOK
<1>4. lock = r /\ lock' = Nobody /\ link' = link /\ Nobody \notin Requests
  BY AccountsAssumption DEF Exit, Typed, Shape
<1>5. "idle" \notin Locked
  BY DEF Locked
<1>6. Shape'
  BY <1>1, <1>2, <1>4, <1>5, ShapeStep DEF Typed, Shape
<1>7. QED
  BY <1>3, <1>6 DEF Typed

\* A step of r that leaves the accounts and the lock alone.
LEMMA FreeTyped ==
  ASSUME Typed, NEW r \in Requests, NEW x \in Request,
         Continue(r, x) \/ Wrote(r, x),
         accounts' = accounts, admins' = admins, verified' \subseteq accounts,
         overlapped' \in BOOLEAN, lock' = lock,
         req[r].stage \notin Locked, x.stage \notin Locked,
         x.stage # "idle" => x.user \in Users,
         x.stage \in {"issue", "consume", "spend", "apply"}
           => x.link \in Links,
         link' \in [Links -> Link], used' \in [Links -> Nat],
         \A l \in Links : Owned(link'[l])
  PROVE  Typed'
<1>1. /\ req' \in [Requests -> Request] /\ req'[r] = x
      /\ \A s \in Requests \ {r} : Alike(req'[s], req[s])
  BY Continued, Written, SameAlike DEF Typed, TypeOK
<1>2. TypeOK'
  BY <1>1 DEF Typed, TypeOK
<1>3. lock # r
  BY DEF Typed, Shape
<1>4. Shape'
  BY <1>1, <1>3, ShapeStep DEF Typed, Shape
<1>5. QED
  BY <1>2, <1>4 DEF Typed

LEMMA CreateTyped ==
  ASSUME Typed, NEW r \in Requests
  PROVE  /\ \A u \in Users, asked \in BOOLEAN :
              BeginCreate(r, u, asked) \/ BeginBlindly(r, u, asked) => Typed'
         /\ \A u \in Users : BeginDelete(r, u) \/ BeginChange(r, u) => Typed'
         /\ FinishCreate(r) \/ FinishDelete(r) \/ FinishChange(r) => Typed'
<1>1. {"insert", "blind", "remove", "update"} \subseteq Locked
  BY DEF Locked
<1>2. ASSUME NEW u \in Users, NEW asked \in BOOLEAN,
             BeginCreate(r, u, asked) \/ BeginBlindly(r, u, asked)
      PROVE  Typed'
  <2>1. /\ (asked \/ (accounts = {} /\ ~EnvAdmin)) \in BOOLEAN
        /\ (asked \/ ~EnvAdmin) \in BOOLEAN
    OBVIOUS
  <2>2. QED
    BY <1>1, <1>2, <2>1, EnterTyped DEF BeginCreate, BeginBlindly
<1>3. ASSUME NEW u \in Users, BeginDelete(r, u) \/ BeginChange(r, u)
      PROVE  Typed'
  <2>1. (u \in admins) \in BOOLEAN /\ FALSE \in BOOLEAN
    OBVIOUS
  <2>2. QED
    BY <1>1, <1>3, <2>1, EnterTyped DEF BeginDelete, BeginChange
<1>4. ASSUME FinishCreate(r) \/ FinishChange(r)
      PROVE  Typed'
  <2>1. /\ req[r].stage \in Locked /\ Exit(r)
        /\ Upsert(req[r].user, req[r].admin)
    BY <1>1, <1>4 DEF FinishCreate, FinishChange, At
  <2>2. req[r].user \in Users
    BY <2>1 DEF Typed, Shape, Locked
  <2>3. /\ accounts' \subseteq Users /\ admins' \subseteq accounts'
        /\ verified' \subseteq accounts' /\ overlapped' \in BOOLEAN
    BY <2>1, <2>2 DEF Upsert, Typed, TypeOK
  <2>4. QED
    BY <2>1, <2>3, ExitTyped
<1>5. ASSUME FinishDelete(r)
      PROVE  Typed'
  <2>1. /\ req[r].stage \in Locked /\ Exit(r) /\ Remove(r, req[r].user)
    BY <1>1, <1>5 DEF FinishDelete, At
  <2>2. /\ accounts' \subseteq Users /\ admins' \subseteq accounts'
        /\ verified' \subseteq accounts' /\ overlapped' \in BOOLEAN
    BY <2>1 DEF Remove, Typed, TypeOK
  <2>3. QED
    BY <2>1, <2>2, ExitTyped
<1>6. QED
  BY <1>2, <1>3, <1>4, <1>5

LEMMA WipeTyped ==
  ASSUME Typed, NEW r \in Requests
  PROVE  /\ \A u \in Users : BeginWipe(r, u) => Typed'
         /\ FinishWipe(r) => Typed'
<1>1. "wipe" \notin Locked /\ "idle" \notin Locked /\ "wipe" \in Stage
  BY DEF Locked, Stage
<1>2. ASSUME NEW u \in Users, BeginWipe(r, u)
      PROVE  Typed'
  <2>1. /\ Doing("wipe", u, FALSE) \in Request
        /\ Doing("wipe", u, FALSE).stage = "wipe"
        /\ Doing("wipe", u, FALSE).user = u
    BY <1>1 DEF Doing, Request, Kind
  <2>2. Continue(r, Doing("wipe", u, FALSE)) /\ req[r].stage = "idle"
    BY <1>2 DEF BeginWipe, At
  <2>3. UNCHANGED <<accounts, admins, verified, link, used, lock, overlapped>>
    BY <1>2 DEF BeginWipe, table
  <2>4. /\ overlapped' \in BOOLEAN /\ verified' \subseteq accounts
        /\ link' \in [Links -> Link] /\ used' \in [Links -> Nat]
        /\ \A l \in Links : Owned(link'[l])
    BY <2>3 DEF Typed, TypeOK, Shape
  <2>5. QED
    BY <1>1, <2>1, <2>2, <2>3, <2>4, FreeTyped
<1>3. ASSUME FinishWipe(r)
      PROVE  Typed'
  <2>1. /\ req' \in [Requests -> Request] /\ req'[r] = Idle
        /\ \A s \in Requests \ {r} : Alike(req'[s], req[s])
    BY <1>3, RecordTypes, Written DEF FinishWipe, Typed
  <2>2. /\ accounts' \subseteq Users /\ admins' \subseteq accounts'
        /\ verified' \subseteq accounts' /\ overlapped' \in BOOLEAN
    BY <1>3 DEF FinishWipe, Remove, Typed, TypeOK
  <2>3. req[r].user # Nobody
    BY <1>3, AccountsAssumption DEF FinishWipe, At, Typed, Shape
  <2>4. ASSUME NEW l \in Links
        PROVE  /\ link'[l] \in Link
               /\ Owned(link'[l])
    <3>1. "gone" \in LinkState /\ "gone" # "new"
      BY DEF LinkState
    <3>2. link'[l] = IF link[l].owner = req[r].user
                     THEN [link[l] EXCEPT !.state = "gone"] ELSE link[l]
      BY <1>3 DEF FinishWipe
    <3>3. Owned(link[l])
      BY DEF Typed, Shape
    <3>4. link[l] \in Link
      BY DEF Typed, TypeOK
    <3>5. CASE link'[l] = [link[l] EXCEPT !.state = "gone"]
      BY <3>1, <3>5, LinkTypes DEF Typed, Owned
    <3>6. QED
      BY <3>2, <3>3, <3>4, <3>5
  <2>5. link' \in [Links -> Link]
    BY <1>3, <2>4 DEF FinishWipe
  <2>6. used' = used /\ lock' = lock
    BY <1>3 DEF FinishWipe
  <2>7. TypeOK'
    BY <2>1, <2>2, <2>5, <2>6 DEF Typed, TypeOK
  <2>8. lock # r
    BY <1>1, <1>3 DEF FinishWipe, At, Typed, Shape
  <2>9. Shape'
    BY <1>1, <2>1, <2>4, <2>6, <2>8, ShapeStep, RecordTypes DEF Typed, Shape
  <2>10. QED
    BY <2>7, <2>9 DEF Typed
<1>4. QED
  BY <1>2, <1>3

LEMMA IssueTyped ==
  ASSUME Typed, NEW r \in Requests
  PROVE  /\ \A u \in Users, k \in Kind, l \in Links :
              BeginIssue(r, u, k, l) => Typed'
         /\ Issue(r) => Typed'
<1>1. /\ {"issue", "idle"} \subseteq Stage
      /\ "issue" \notin Locked /\ "idle" \notin Locked
  BY DEF Locked, Stage
<1>2. ASSUME NEW u \in Users, NEW k \in Kind, NEW l \in Links,
             BeginIssue(r, u, k, l)
      PROVE  Typed'
  <2>1. /\ Using("issue", u, l, k) \in Request
        /\ Using("issue", u, l, k).stage = "issue"
        /\ Using("issue", u, l, k).user = u
        /\ Using("issue", u, l, k).link = l
    BY <1>1, RecordTypes
  <2>2. Continue(r, Using("issue", u, l, k)) /\ req[r].stage = "idle"
    BY <1>2 DEF BeginIssue, At
  <2>3. UNCHANGED <<accounts, admins, verified, link, used, lock, overlapped>>
    BY <1>2 DEF BeginIssue, table
  <2>4. /\ overlapped' \in BOOLEAN /\ verified' \subseteq accounts
        /\ link' \in [Links -> Link] /\ used' \in [Links -> Nat]
        /\ \A m \in Links : Owned(link'[m])
    BY <2>3 DEF Typed, TypeOK, Shape
  <2>5. QED
    BY <1>1, <2>1, <2>2, <2>3, <2>4, FreeTyped
<1>3. ASSUME Issue(r)
      PROVE  Typed'
  <2>1. /\ Idle \in Request /\ Idle.stage = "idle" /\ Wrote(r, Idle)
        /\ req[r].stage = "issue"
    BY <1>3, RecordTypes DEF Issue, At
  <2>2. UNCHANGED <<accounts, admins, verified, used, lock, overlapped>>
    BY <1>3 DEF Issue, table
  <2>3. req[r].user \in Users /\ req[r].user # Nobody /\ req[r].kind \in Kind
    BY <2>1, ReqTypes, AccountsAssumption DEF Typed, Shape
  <2>4. ASSUME NEW l \in Links
        PROVE  /\ link'[l] \in Link
               /\ Owned(link'[l])
    <3>1. {"live", "spent"} \subseteq LinkState
      BY DEF LinkState
    <3>2. \/ link'[l] = [owner |-> req[r].user, kind |-> req[r].kind,
                         state |-> "live"]
          \/ /\ link'[l] = [link[l] EXCEPT !.state = "spent"]
             /\ link[l].state = "live"
          \/ link'[l] = link[l]
      BY <1>3 DEF Issue
    <3>3. Owned(link[l])
      BY DEF Typed, Shape
    <3>4. link[l] \in Link
      BY DEF Typed, TypeOK
    <3>5. CASE link'[l] = [owner |-> req[r].user, kind |-> req[r].kind,
                           state |-> "live"]
      BY <2>3, <3>1, <3>5 DEF Link, Owned
    <3>6. CASE /\ link'[l] = [link[l] EXCEPT !.state = "spent"]
               /\ link[l].state = "live"
      BY <3>1, <3>6, LinkTypes DEF Typed, Owned
    <3>7. QED
      BY <3>2, <3>3, <3>4, <3>5, <3>6
  <2>5. link' \in [Links -> Link]
    BY <1>3, <2>4 DEF Issue
  <2>6. /\ overlapped' \in BOOLEAN /\ verified' \subseteq accounts
        /\ used' \in [Links -> Nat]
    BY <2>2 DEF Typed, TypeOK
  <2>7. QED
    BY <1>1, <2>1, <2>2, <2>4, <2>5, <2>6, FreeTyped
<1>4. QED
  BY <1>2, <1>3

LEMMA UseTyped ==
  ASSUME Typed, NEW r \in Requests
  PROVE  /\ \A l \in Links : Peek(r, l) \/ VerifyRead(r, l) => Typed'
         /\ ConsumeRead(r) \/ Spend(r) \/ Apply(r) => Typed'
<1>1. /\ {"consume", "spend", "apply", "idle"} \subseteq Stage
      /\ {"consume", "spend", "apply", "idle"} \cap Locked = {}
  BY DEF Locked, Stage
<1>2. /\ overlapped \in BOOLEAN /\ verified \subseteq accounts
      /\ link \in [Links -> Link] /\ used \in [Links -> Nat]
      /\ \A m \in Links : Owned(link[m])
  BY DEF Typed, TypeOK, Shape
<1>3. Idle \in Request /\ Idle.stage = "idle"
  BY RecordTypes
<1>4. ASSUME NEW l \in Links, NEW st \in {"consume", "spend"},
             At(r, "idle"), link[l].state = "live",
             Continue(r, Using(st, link[l].owner, l, link[l].kind)),
             UNCHANGED <<table, link, used, lock, overlapped>>
      PROVE  Typed'
  <2>1. link[l].owner \in Users /\ link[l].kind \in Kind
    BY <1>4, LinkTypes DEF Typed, Shape, Owned
  <2>2. LET x == Using(st, link[l].owner, l, link[l].kind)
        IN  /\ x \in Request /\ x.stage = st /\ x.user \in Users
            /\ x.link = l
    BY <1>1, <2>1, RecordTypes
  <2>3. UNCHANGED <<accounts, admins, verified, link, used, lock, overlapped>>
    BY <1>4 DEF table
  <2>4. QED
    BY <1>1, <1>2, <1>4, <2>2, <2>3, FreeTyped DEF At
<1>5. ASSUME NEW l \in Links, Peek(r, l) \/ VerifyRead(r, l)
      PROVE  Typed'
  BY <1>4, <1>5 DEF Peek, VerifyRead
<1>6. ASSUME NEW st \in {"spend", "apply"},
             req[r].stage \in {"consume", "spend"}
      PROVE  LET x == [req[r] EXCEPT !.stage = st]
             IN  /\ x \in Request /\ x.stage = st
                 /\ x.user \in Users /\ x.link \in Links
  <2>1. req[r].user \in Users /\ req[r].link \in Links
    BY <1>6 DEF Typed, Shape
  <2>2. QED
    BY <1>1, <2>1, ReqTypes DEF Typed
<1>7. ASSUME ConsumeRead(r)
      PROVE  Typed'
  <2>1. UNCHANGED <<accounts, admins, verified, link, used, lock, overlapped>>
    BY <1>7 DEF ConsumeRead, table
  <2>2. req[r].stage = "consume"
    BY <1>7 DEF ConsumeRead, At
  <2>3. CASE Continue(r, Idle)
    BY <1>1, <1>2, <1>3, <2>1, <2>2, <2>3, FreeTyped
  <2>4. CASE Continue(r, [req[r] EXCEPT !.stage = "spend"])
    BY <1>1, <1>2, <1>6, <2>1, <2>2, <2>4, FreeTyped
  <2>5. QED
    BY <1>7, <2>3, <2>4 DEF ConsumeRead
<1>8. ASSUME Spend(r)
      PROVE  Typed'
  <2>1. UNCHANGED <<accounts, admins, verified, used, lock, overlapped>>
    BY <1>8 DEF Spend, table
  <2>2. /\ req[r].stage = "spend" /\ req[r].link \in Links
        /\ Wrote(r, [req[r] EXCEPT !.stage = "apply"])
        /\ link' = [link EXCEPT ![req[r].link].state = "spent"]
    BY <1>8 DEF Spend, At, Typed, Shape
  <2>3. "spent" \in LinkState /\ "spent" # "new"
    BY DEF LinkState
  <2>4. ASSUME NEW l \in Links
        PROVE  /\ link'[l] \in Link
               /\ l # req[r].link => link'[l] = link[l]
               /\ l = req[r].link => link'[l] = [link[l] EXCEPT !.state = "spent"]
    BY <1>2, <2>2, <2>3, LinkTypes DEF Typed
  <2>5. QED
    <3>1. link' \in [Links -> Link]
      BY <1>2, <2>2, <2>4
    <3>2. req[r].user \in Users
      BY <2>2 DEF Typed, Shape
    <3>3. PICK z : z = [req[r] EXCEPT !.stage = "apply"]
      OBVIOUS
    <3>4. z \in Request /\ z.stage = "apply" /\ z.user \in Users /\ z.link \in Links
      BY <1>6, <2>2, <3>3
    <3>5. TypeOK'
      BY <1>2, <2>1, <2>2, <3>1, <3>3, <3>4, Written DEF Typed, TypeOK
    <3>6. /\ req'[r] = z /\ \A s \in Requests \ {r} : Alike(req'[s], req[s])
      BY <2>2, <3>3, <3>4, Written DEF Typed
    <3>7. lock # r /\ lock' = lock
      BY <1>1, <2>1, <2>2 DEF Typed, Shape
    <3>8. ASSUME NEW l \in Links
          PROVE  Owned(link'[l])
      <4>1. CASE l # req[r].link
        BY <1>2, <2>4, <4>1
      <4>2. CASE l = req[r].link
        <5>1. link'[l] = [link[l] EXCEPT !.state = "spent"]
          BY <2>4, <4>2
        <5>2. link'[l].state = "spent"
          BY <2>3, <5>1, LinkTypes DEF Typed
        <5>3. QED
          BY <5>2 DEF Owned
      <4>3. QED
        BY <4>1, <4>2
    <3>9. QED
      BY <1>1, <3>4, <3>5, <3>6, <3>7, <3>8, ShapeStep DEF Typed, Shape
<1>9. ASSUME Apply(r)
      PROVE  Typed'
  <2>1. /\ UNCHANGED <<accounts, admins, link, lock, overlapped>>
        /\ Wrote(r, Idle) /\ req[r].stage = "apply"
    BY <1>9 DEF Apply, At
  <2>2. verified' \subseteq accounts
    BY <1>2, <1>9 DEF Apply
  <2>3. used' \in [Links -> Nat]
    <3>1. used' = used \/ used' = [used EXCEPT ![req[r].link] = @ + 1]
      BY <1>9 DEF Apply
    <3>2. req[r].link \in Links
      BY <2>1 DEF Typed, Shape
    <3>3. used[req[r].link] + 1 \in Nat
      BY <1>2, <3>2
    <3>4. QED
      BY <1>2, <3>1, <3>2, <3>3
  <2>4. QED
    BY <1>1, <1>2, <1>3, <2>1, <2>2, <2>3, FreeTyped
<1>10. QED
  BY <1>5, <1>7, <1>8, <1>9

LEMMA OtherTyped ==
  ASSUME Typed
  PROVE  /\ \A r \in Requests : WriteFails(r) => Typed'
         /\ \A l \in Links : Expire(l) => Typed'
         /\ OtherWrite \/ Restart => Typed'
<1>1. Idle \in Request /\ Idle.stage = "idle" /\ "idle" \notin Locked
      /\ Nobody \notin Requests
  BY RecordTypes, AccountsAssumption DEF Locked
<1>2. ASSUME NEW r \in Requests, WriteFails(r)
      PROVE  Typed'
  <2>1. /\ req' \in [Requests -> Request] /\ req'[r] = Idle
        /\ \A s \in Requests \ {r} : Alike(req'[s], req[s])
    BY <1>1, <1>2, Continued, SameAlike DEF WriteFails, Typed, TypeOK
  <2>2. UNCHANGED <<accounts, admins, verified, link, used, overlapped>>
        /\ lock' = IF lock = r THEN Nobody ELSE lock
    BY <1>2 DEF WriteFails, table
  <2>3. TypeOK'
    BY <2>1, <2>2 DEF Typed, TypeOK
  <2>4. lock' # r
    BY <1>1, <2>2
  <2>5. Shape'
    BY <1>1, <2>1, <2>2, <2>4, ShapeStep DEF Typed, Shape
  <2>6. QED
    BY <2>3, <2>5 DEF Typed
<1>3. ASSUME NEW l \in Links, Expire(l)
      PROVE  Typed'
  <2>1. /\ UNCHANGED <<accounts, admins, verified, used, lock, req, overlapped>>
        /\ link' = [link EXCEPT ![l].state = "expired"]
    BY <1>3 DEF Expire, table
  <2>2. "expired" \in LinkState
    BY DEF LinkState
  <2>3. ASSUME NEW m \in Links
        PROVE  link'[m] \in Link /\ Owned(link'[m])
    <3>1. CASE m = l
      <4>1. link'[m] = [link[m] EXCEPT !.state = "expired"]
        BY <2>1, <3>1 DEF Typed, TypeOK
      <4>2. link'[m] \in Link /\ link'[m].state = "expired"
        BY <2>2, <4>1, LinkTypes DEF Typed
      <4>3. QED
        BY <4>2 DEF Owned
    <3>2. CASE m # l
      BY <2>1, <3>2 DEF Typed, TypeOK, Shape
    <3>3. QED
      BY <3>1, <3>2
  <2>4. link' \in [Links -> Link]
    BY <2>1, <2>3 DEF Typed, TypeOK
  <2>5. QED
    BY <2>1, <2>3, <2>4 DEF Typed, TypeOK, Shape
<1>4. ASSUME OtherWrite
      PROVE  Typed'
  <2>1. ASSUME NEW s \in Requests
        PROVE  req'[s] \in Request /\ Alike(req'[s], req[s])
    BY <1>4, Staled DEF OtherWrite, Typed, TypeOK
  <2>2. req' \in [Requests -> Request]
    BY <1>4, <2>1 DEF OtherWrite
  <2>3. UNCHANGED <<accounts, admins, verified, link, used, lock, overlapped>>
    BY <1>4 DEF OtherWrite, table
  <2>4. QED
    BY <2>1, <2>2, <2>3 DEF Typed, TypeOK, Shape, Alike
<1>5. ASSUME Restart
      PROVE  Typed'
  <2>1. /\ UNCHANGED <<accounts, admins, verified, link, used, overlapped>>
        /\ lock' = Nobody /\ req' = [r \in Requests |-> Idle]
    BY <1>5 DEF Restart, table
  <2>2. "idle" \notin {"issue", "consume", "spend", "apply"}
    OBVIOUS
  <2>3. TypeOK'
    BY <1>1, <2>1 DEF Typed, TypeOK
  <2>4. Shape'
    BY <1>1, <2>1, <2>2 DEF Typed, Shape
  <2>5. QED
    BY <2>3, <2>4 DEF Typed
<1>6. QED
  BY <1>2, <1>3, <1>4, <1>5

LEMMA TypedStep ==
  ASSUME Typed, [Next]_vars
  PROVE  Typed'
<1>1. CASE UNCHANGED vars
  BY <1>1 DEF vars, Typed, TypeOK, Shape, Owned
<1>2. ASSUME NEW r \in Requests, Step(r)
      PROVE  Typed'
  BY <1>2, CreateTyped, WipeTyped, IssueTyped, UseTyped, OtherTyped DEF Step
<1>3. QED
  BY <1>1, <1>2, OtherTyped DEF Next

LEMMA TypedInit == Init => Typed
<1>1. SUFFICES ASSUME Init PROVE Typed
  OBVIOUS
<1>2. Idle \in Request /\ Idle.stage = "idle" /\ "idle" \notin Locked
      /\ Nobody \notin Requests
  BY RecordTypes, AccountsAssumption DEF Locked
<1>3. [owner |-> Nobody, kind |-> "password_reset", state |-> "new"] \in Link
  BY DEF Link, Kind, LinkState
<1>4. TypeOK
  BY <1>1, <1>2, <1>3 DEF Init, TypeOK
<1>5. "idle" \notin {"issue", "consume", "spend", "apply"}
  OBVIOUS
<1>6. Shape
  BY <1>1, <1>2, <1>5 DEF Init, Shape, Owned
<1>7. QED
  BY <1>4, <1>6 DEF Typed

LEMMA TypedAlways == Spec => []Typed
  BY TypedInit, TypedStep, PTL DEF Spec

(* Variables keep their types, ranks belong to accounts, and the lock is    *)
(* held by the one request between its check and its write.                 *)
THEOREM Typing == Spec => []TypeOK
<1>1. Typed => TypeOK
  BY DEF Typed
<1>2. QED
  BY <1>1, TypedAlways, PTL

-----------------------------------------------------------------------------
(* Accounts and their ranks.                                                *)

Pending == Locked \cup {"wipe"}

Removing == {"remove", "wipe"}

\* Steps that neither change an account nor look at one to change it.
Quiet ==
  /\ UNCHANGED <<accounts, admins, overlapped>>
  /\ \A s \in Requests :
       req'[s].stage \in Pending => Alike(req'[s], req[s])

\* The check of r: it takes the lock, or is about to delete its own account.
Begins(r, u) ==
  \/ \E asked \in BOOLEAN :
       BeginCreate(r, u, asked) \/ BeginBlindly(r, u, asked)
  \/ BeginDelete(r, u) \/ BeginChange(r, u) \/ BeginWipe(r, u)

Ends(r) == FinishCreate(r) \/ FinishDelete(r) \/ FinishChange(r) \/ FinishWipe(r)

LEMMA StepKinds ==
  ASSUME Typed, [Next]_vars
  PROVE  \/ Quiet
         \/ \E r \in Requests :
              Ends(r) \/ \E u \in Users : Begins(r, u)
<1>1. Idle \in Request /\ Idle.stage = "idle"
  BY RecordTypes
<1>2. {"idle", "issue", "consume", "spend", "apply"} \cap Pending = {}
  BY DEF Pending, Locked
<1>3. ASSUME NEW r \in Requests, NEW x \in Request, x.stage \notin Pending,
             Continue(r, x) \/ Wrote(r, x),
             UNCHANGED <<accounts, admins, overlapped>>
      PROVE  Quiet
  <2>1. req'[r] = x /\ \A s \in Requests \ {r} : Alike(req'[s], req[s])
    BY <1>3, Continued, Written, SameAlike DEF Typed, TypeOK
  <2>2. QED
    BY <1>3, <2>1 DEF Quiet
<1>4. ASSUME NEW r \in Requests, NEW u \in Users, NEW k \in Kind,
             NEW l \in Links, BeginIssue(r, u, k, l)
      PROVE  Quiet
  <2>1. "issue" \in Stage
    BY DEF Stage
  <2>2. /\ Using("issue", u, l, k) \in Request
        /\ Using("issue", u, l, k).stage = "issue"
    BY <2>1, RecordTypes
  <2>3. QED
    BY <1>2, <1>3, <1>4, <2>2 DEF BeginIssue, table
<1>5. ASSUME NEW r \in Requests, Issue(r) \/ Apply(r) \/ WriteFails(r)
      PROVE  Quiet
  BY <1>1, <1>2, <1>3, <1>5 DEF Issue, Apply, WriteFails, table
<1>6. ASSUME NEW r \in Requests, NEW l \in Links, Peek(r, l) \/ VerifyRead(r, l)
      PROVE  Quiet
  <2>1. {"consume", "spend"} \subseteq Stage
    BY DEF Stage
  <2>2. PICK st \in {"consume", "spend"} :
          Continue(r, Using(st, link[l].owner, l, link[l].kind))
    BY <1>6 DEF Peek, VerifyRead
  <2>3. link[l].owner \in Users /\ link[l].kind \in Kind
    BY <1>6, LinkTypes DEF Peek, VerifyRead, Typed, Shape, Owned
  <2>4. LET x == Using(st, link[l].owner, l, link[l].kind)
        IN  x \in Request /\ x.stage = st
    BY <2>1, <2>3, RecordTypes
  <2>5. UNCHANGED <<accounts, admins, overlapped>>
    BY <1>6 DEF Peek, VerifyRead, table
  <2>6. QED
    BY <1>2, <1>3, <2>2, <2>4, <2>5
<1>7. ASSUME NEW r \in Requests, ConsumeRead(r) \/ Spend(r)
      PROVE  Quiet
  <2>1. {"spend", "apply"} \subseteq Stage
    BY DEF Stage
  <2>2. \A st \in {"spend", "apply"} :
          LET x == [req[r] EXCEPT !.stage = st]
          IN  x \in Request /\ x.stage = st
    BY <2>1, ReqTypes DEF Typed
  <2>3. UNCHANGED <<accounts, admins, overlapped>>
    BY <1>7 DEF ConsumeRead, Spend, table
  <2>4. \/ Continue(r, Idle)
        \/ Continue(r, [req[r] EXCEPT !.stage = "spend"])
        \/ Wrote(r, [req[r] EXCEPT !.stage = "apply"])
    BY <1>7 DEF ConsumeRead, Spend
  <2>5. QED
    BY <1>1, <1>2, <1>3, <2>2, <2>3, <2>4
<1>8. ASSUME (\E l \in Links : Expire(l)) \/ UNCHANGED vars
      PROVE  Quiet
  BY <1>8, SameAlike DEF Expire, vars, table, Quiet, Typed, TypeOK
<1>9. ASSUME OtherWrite
      PROVE  Quiet
  BY <1>9, Staled DEF OtherWrite, table, Quiet, Typed, TypeOK
<1>10. ASSUME Restart
       PROVE  Quiet
  BY <1>1, <1>2, <1>10 DEF Restart, table, Quiet
<1>11. ASSUME NEW r \in Requests, Step(r)
       PROVE  \/ Quiet
              \/ \E s \in Requests : Ends(s) \/ \E u \in Users : Begins(s, u)
  BY <1>4, <1>5, <1>6, <1>7, <1>11 DEF Step, Begins, Ends
<1>12. QED
  BY <1>8, <1>9, <1>10, <1>11 DEF Next

\* What a check does to the requests and leaves of the store.
LEMMA BeginEffect ==
  ASSUME Typed, NEW r \in Requests, NEW u \in Users, Begins(r, u)
  PROVE  /\ UNCHANGED <<accounts, admins, overlapped>>
         /\ req'[r].user = u
         /\ \A s \in Requests \ {r} : req'[s] = req[s]
         /\ \/ /\ req'[r].stage = "insert" /\ u \notin accounts
               /\ accounts = {} /\ ~EnvAdmin => req'[r].admin
            \/ req'[r].stage = "blind" /\ (~EnvAdmin => req'[r].admin)
            \/ /\ req'[r].stage \in Removing
               /\ u \in accounts /\ Removable(u)
            \/ /\ req'[r].stage = "update" /\ u \in accounts
               /\ req'[r].admin <=> u \in admins
<1>1. ASSUME NEW st \in Stage, NEW a \in BOOLEAN, Continue(r, Doing(st, u, a))
      PROVE  /\ req'[r].stage = st /\ req'[r].user = u /\ req'[r].admin = a
             /\ \A s \in Requests \ {r} : req'[s] = req[s]
  <2>1. LET x == Doing(st, u, a)
        IN  x \in Request /\ x.stage = st /\ x.user = u /\ x.admin = a
    BY RecordTypes
  <2>2. QED
    BY <1>1, <2>1, Continued DEF Typed
<1>2. {"insert", "blind", "remove", "update", "wipe"} \subseteq Stage
  BY DEF Stage, Locked
<1>3. ASSUME NEW asked \in BOOLEAN, BeginCreate(r, u, asked)
      PROVE  /\ UNCHANGED <<accounts, admins, overlapped>>
             /\ req'[r].user = u
             /\ \A s \in Requests \ {r} : req'[s] = req[s]
             /\ req'[r].stage = "insert" /\ u \notin accounts
             /\ accounts = {} /\ ~EnvAdmin => req'[r].admin
  <2>1. PICK a \in BOOLEAN : a = (asked \/ (accounts = {} /\ ~EnvAdmin))
    OBVIOUS
  <2>2. Continue(r, Doing("insert", u, a))
    BY <1>3, <2>1 DEF BeginCreate, Enter
  <2>3. QED
    BY <1>1, <1>2, <1>3, <2>1, <2>2 DEF BeginCreate, Enter, table
<1>4. ASSUME NEW asked \in BOOLEAN, BeginBlindly(r, u, asked)
      PROVE  /\ UNCHANGED <<accounts, admins, overlapped>>
             /\ req'[r].user = u
             /\ \A s \in Requests \ {r} : req'[s] = req[s]
             /\ req'[r].stage = "blind" /\ (~EnvAdmin => req'[r].admin)
  <2>1. PICK a \in BOOLEAN : a = (asked \/ ~EnvAdmin)
    OBVIOUS
  <2>2. Continue(r, Doing("blind", u, a))
    BY <1>4, <2>1 DEF BeginBlindly, Enter
  <2>3. QED
    BY <1>1, <1>2, <1>4, <2>1, <2>2 DEF BeginBlindly, Enter, table
<1>5. ASSUME BeginDelete(r, u) \/ BeginWipe(r, u)
      PROVE  /\ UNCHANGED <<accounts, admins, overlapped>>
             /\ req'[r].user = u
             /\ \A s \in Requests \ {r} : req'[s] = req[s]
             /\ req'[r].stage \in Removing
             /\ u \in accounts /\ Removable(u)
  <2>1. PICK st \in {"remove", "wipe"} : Continue(r, Doing(st, u, FALSE))
    BY <1>5 DEF BeginDelete, BeginWipe, Enter
  <2>2. QED
    BY <1>1, <1>2, <1>5, <2>1 DEF BeginDelete, BeginWipe, Enter, table, Removing
<1>6. ASSUME BeginChange(r, u)
      PROVE  /\ UNCHANGED <<accounts, admins, overlapped>>
             /\ req'[r].user = u
             /\ \A s \in Requests \ {r} : req'[s] = req[s]
             /\ req'[r].stage = "update" /\ u \in accounts
             /\ req'[r].admin <=> u \in admins
  <2>1. PICK a \in BOOLEAN : a <=> u \in admins
    OBVIOUS
  <2>2. Continue(r, Doing("update", u, a))
    BY <1>6, <2>1 DEF BeginChange, Enter
  <2>3. QED
    BY <1>1, <1>2, <1>6, <2>1, <2>2 DEF BeginChange, Enter, table
<1>7. QED
  BY <1>3, <1>4, <1>5, <1>6 DEF Begins

\* What a write does.
LEMMA EndEffect ==
  ASSUME Typed, NEW r \in Requests, Ends(r)
  PROVE  LET u == req[r].user
         IN  /\ u \in Users
             /\ req'[r].stage = "idle"
             /\ \A s \in Requests \ {r} : Alike(req'[s], req[s])
             /\ \/ /\ req[r].stage \in {"insert", "blind", "update"}
                   /\ \A s \in Requests \ {r} : req[s].stage \notin Locked
                   /\ Upsert(u, req[r].admin)
                \/ /\ req[r].stage \in Removing
                   /\ Remove(r, u)
<1>1. Idle \in Request /\ Idle.stage = "idle"
  BY RecordTypes
<1>2. Wrote(r, Idle)
  BY DEF Ends, FinishCreate, FinishDelete, FinishChange, FinishWipe, Exit
<1>3. req'[r].stage = "idle" /\ \A s \in Requests \ {r} : Alike(req'[s], req[s])
  BY <1>1, <1>2, Written DEF Typed
<1>4. \/ /\ req[r].stage \in {"insert", "blind", "update"}
         /\ Upsert(req[r].user, req[r].admin)
      \/ /\ req[r].stage \in Removing
         /\ Remove(r, req[r].user)
  BY DEF Ends, FinishCreate, FinishDelete, FinishChange, FinishWipe, At, Removing
<1>5. req[r].user \in Users
  BY <1>4 DEF Typed, Shape, Removing
<1>6. ASSUME req[r].stage \in {"insert", "blind", "update"}
      PROVE  \A s \in Requests \ {r} : req[s].stage \notin Locked
  <2>1. lock = r
    BY <1>6 DEF Typed, Shape, Locked
  <2>2. QED
    BY <2>1 DEF Typed, Shape
<1>7. QED
  BY <1>3, <1>4, <1>5, <1>6

\* Between check and write, a name to be created stays free, and a row to be
\* written back keeps its rank, if it is not deleted.
AccountInv ==
  \A r \in Requests :
    /\ At(r, "insert") => req[r].user \notin accounts
    /\ At(r, "update") /\ req[r].user \in accounts
         => (req[r].user \in admins <=> req[r].admin)

LEMMA AccountInvStep ==
  ASSUME Typed, AccountInv, [Next]_vars
  PROVE  AccountInv'
<1>1. CASE Quiet
  BY <1>1 DEF Quiet, AccountInv, At, Alike, Pending, Locked
<1>2. ASSUME NEW r \in Requests, NEW u \in Users, Begins(r, u)
      PROVE  AccountInv'
  BY <1>2, BeginEffect DEF AccountInv, At, Removing
<1>3. ASSUME NEW r \in Requests, Ends(r)
      PROVE  AccountInv'
  <2>1. CASE req[r].stage \in {"insert", "blind", "update"}
    <3>1. \A s \in Requests : req'[s].stage \notin Locked
      BY <1>3, <2>1, EndEffect DEF Alike, Locked, Removing
    <3>2. QED
      BY <3>1 DEF AccountInv, At, Locked
  <2>2. CASE req[r].stage \in Removing
    <3>1. Remove(r, req[r].user)
      BY <1>3, <2>2, EndEffect DEF Removing
    <3>2. \A s \in Requests : req'[s].stage \in Locked => Alike(req'[s], req[s])
      BY <1>3, EndEffect DEF Locked
    <3>3. accounts' \subseteq accounts /\ \A w \in accounts' : w \in admins' <=> w \in admins
      BY <3>1 DEF Remove
    <3>4. QED
      BY <3>2, <3>3 DEF AccountInv, At, Alike, Locked
  <2>3. QED
    BY <1>3, <2>1, <2>2, EndEffect
<1>4. QED
  BY <1>1, <1>2, <1>3, StepKinds

LEMMA AccountAlways == Spec => []AccountInv
<1>1. Init => AccountInv
  BY RecordTypes DEF Init, AccountInv, At
<1>2. QED
  BY <1>1, AccountInvStep, TypedAlways, PTL DEF Spec

(* create_user writes under a name that is still free, because nobody else  *)
(* adds a row without the lock.                                             *)
THEOREM CreateIsFresh == Spec => CreateOverwritesNobody
<1>1. AccountInv /\ [Next]_vars =>
        [\A r \in Requests :
           FinishCreate(r) /\ At(r, "insert") => req[r].user \notin accounts]_vars
  BY DEF AccountInv, FinishCreate, At
<1>2. QED
  BY <1>1, AccountAlways, PTL DEF CreateOverwritesNobody, Spec

\* The one step that may change a rank.
Overwrites(u) ==
  \E r \in Requests : FinishCreate(r) /\ At(r, "blind") /\ req[r].user = u

(* No step but that of a blind create_user changes the rank of an account   *)
(* that is there before and after.                                          *)
THEOREM RankIsKept == Spec => RankKept
<1>1. ASSUME Typed, AccountInv, [Next]_vars, NEW u \in accounts \cap accounts'
      PROVE  (u \in admins <=> u \in admins') \/ Overwrites(u)
  <2>1. CASE Quiet
    BY <2>1 DEF Quiet
  <2>2. ASSUME NEW r \in Requests, NEW w \in Users, Begins(r, w)
        PROVE  admins' = admins
    BY <1>1, <2>2, BeginEffect
  <2>3. ASSUME NEW r \in Requests, Ends(r)
        PROVE  (u \in admins <=> u \in admins') \/ Overwrites(u)
    <3>1. CASE req[r].stage \in {"insert", "blind", "update"}
      <4>1. Upsert(req[r].user, req[r].admin)
        BY <1>1, <2>3, <3>1, EndEffect DEF Removing
      <4>2. CASE u = req[r].user /\ req[r].stage # "blind"
        BY <1>1, <3>1, <4>1, <4>2 DEF AccountInv, At, Upsert
      <4>3. CASE u # req[r].user
        BY <4>1, <4>3 DEF Upsert
      <4>4. CASE u = req[r].user /\ req[r].stage = "blind"
        BY <2>3, <4>4 DEF Overwrites, Ends, FinishCreate, FinishDelete,
             FinishChange, FinishWipe, At
      <4>5. QED
        BY <4>2, <4>3, <4>4
    <3>2. CASE req[r].stage \in Removing
      <4>1. Remove(r, req[r].user)
        BY <1>1, <2>3, <3>2, EndEffect DEF Removing
      <4>2. QED
        BY <1>1, <4>1 DEF Remove
    <3>3. QED
      BY <1>1, <2>3, <3>1, <3>2, EndEffect
  <2>4. QED
    BY <1>1, <2>1, <2>2, <2>3, StepKinds
<1>2. Typed /\ AccountInv /\ [Next]_vars =>
        [\A u \in accounts \cap accounts' :
           (u \in admins) # (u \in admins') =>
             \E r \in Requests :
               FinishCreate(r) /\ At(r, "blind") /\ req[r].user = u]_vars
  BY <1>1 DEF Overwrites
<1>3. QED
  BY <1>2, TypedAlways, AccountAlways, PTL DEF RankKept, Spec

\* As long as removals do not overlap: accounts have an administrator, who
\* stays while a request is between its check and its write.
AdminInv ==
  EnvAdmin \/ overlapped \/
    /\ accounts # {} => admins # {}
    /\ \A r \in Requests :
         /\ At(r, "insert") => req[r].admin \/ admins # {}
         /\ At(r, "blind") => req[r].admin
         /\ At(r, "update") => admins # {}
         /\ req[r].stage \in Removing =>
              /\ req[r].user \in accounts
              /\ req[r].user \in admins => admins \ {req[r].user} # {}

LEMMA AdminInvStep ==
  ASSUME Typed, AccountInv, AdminInv, [Next]_vars
  PROVE  AdminInv'
<1>1. CASE EnvAdmin
  BY <1>1 DEF AdminInv
<1>2. CASE Quiet
  BY <1>2 DEF Quiet, AdminInv, At, Alike, Pending, Locked, Removing
<1>3. ASSUME NEW r \in Requests, NEW u \in Users, Begins(r, u), ~EnvAdmin
      PROVE  AdminInv'
  <2>1. CASE overlapped
    BY <1>3, <2>1, BeginEffect DEF AdminInv
  <2>2. CASE ~overlapped
    <3>1. /\ UNCHANGED <<accounts, admins, overlapped>>
          /\ \A s \in Requests \ {r} : req'[s] = req[s]
      BY <1>3, BeginEffect
    <3>2. accounts # {} => admins # {}
      BY <1>3, <2>2 DEF AdminInv
    <3>3. /\ req'[r].stage = "insert" => req'[r].admin \/ admins # {}
          /\ req'[r].stage = "blind" => req'[r].admin
          /\ req'[r].stage = "update" => admins # {}
          /\ req'[r].stage \in Removing =>
               /\ req'[r].user \in accounts
               /\ req'[r].user \in admins => admins \ {req'[r].user} # {}
      BY <1>3, <3>2, BeginEffect DEF Removing, Removable
    <3>4. QED
      BY <1>3, <2>2, <3>1, <3>2, <3>3 DEF AdminInv, At
  <2>3. QED
    BY <2>1, <2>2
<1>4. ASSUME NEW r \in Requests, Ends(r), ~EnvAdmin
      PROVE  AdminInv'
  <2> DEFINE u == req[r].user
  <2>1. /\ req'[r].stage = "idle"
        /\ \A s \in Requests \ {r} : Alike(req'[s], req[s])
    BY <1>4, EndEffect
  <2>2. CASE req[r].stage \in {"insert", "blind", "update"}
    <3>1. Upsert(u, req[r].admin)
      BY <1>4, <2>2, EndEffect DEF Removing
    <3>2. overlapped' = overlapped
      BY <3>1 DEF Upsert
    <3>3. CASE overlapped
      BY <3>2, <3>3 DEF AdminInv
    <3>4. CASE ~overlapped
      <4>1. req[r].admin \/ admins # {}
        BY <1>4, <2>2, <3>4 DEF AdminInv, At
      <4>2. accounts' = accounts \cup {u}
            /\ admins' = IF req[r].admin THEN admins \cup {u} ELSE admins \ {u}
        BY <3>1 DEF Upsert
      <4>3. u \in admins => u \in admins'
        BY <1>4, <2>2, <3>4, <4>2 DEF AccountInv, AdminInv, At, Typed, TypeOK
      <4>4. accounts # {} => admins # {}
        BY <1>4, <3>4 DEF AdminInv
      <4>5. admins \subseteq admins' /\ admins' \ {u} = admins \ {u}
        BY <4>2, <4>3
      <4>6. admins' # {}
        BY <4>1, <4>2, <4>5
      <4>7. ASSUME NEW s \in Requests, req'[s].stage \in Removing
            PROVE  /\ req'[s].user \in accounts'
                   /\ req'[s].user \in admins' => admins' \ {req'[s].user} # {}
        <5>1. s # r /\ req[s].stage \in Removing /\ req'[s].user = req[s].user
          BY <2>1, <4>7 DEF Alike, Removing
        <5>2. /\ req[s].user \in accounts
              /\ req[s].user \in admins => admins \ {req[s].user} # {}
          BY <1>4, <3>4, <5>1 DEF AdminInv
        <5>3. CASE req[s].user \in admins
          BY <4>2, <4>5, <5>1, <5>2, <5>3
        <5>4. CASE req[s].user \notin admins
          <6>1. PICK a \in admins : a # req[s].user
            BY <4>4, <5>2, <5>4
          <6>2. a \in admins' \ {req[s].user}
            BY <4>5, <6>1
          <6>3. QED
            BY <4>2, <5>1, <5>2, <6>2
        <5>5. QED
          BY <5>3, <5>4
      <4>8. \A s \in Requests : req'[s].stage \notin {"insert", "blind", "update"}
        BY <1>4, <2>1, <2>2, EndEffect DEF Alike, Locked, Removing
      <4>9. QED
        BY <4>6, <4>7, <4>8 DEF AdminInv, At
    <3>5. QED
      BY <3>3, <3>4
  <2>3. CASE req[r].stage \in Removing
    <3>1. Remove(r, u)
      BY <1>4, <2>3, EndEffect DEF Removing
    <3>2. CASE overlapped'
      BY <3>2 DEF AdminInv
    <3>3. CASE ~overlapped'
      <4>1. ~overlapped /\ \A s \in Requests \ {r} : req[s].stage \notin Removing
        BY <3>1, <3>3 DEF Remove, Removing
      <4>2. accounts' = accounts \ {u} /\ admins' = admins \ {u}
        BY <3>1 DEF Remove
      <4>3. u \in admins => admins \ {u} # {}
        BY <1>4, <2>3, <4>1 DEF AdminInv
      <4>4. admins # {} => admins' # {}
        BY <4>2, <4>3
      <4>5. /\ accounts # {} => admins # {}
            /\ \A s \in Requests :
                 /\ req[s].stage = "insert" => req[s].admin \/ admins # {}
                 /\ req[s].stage = "blind" => req[s].admin
                 /\ req[s].stage = "update" => admins # {}
        BY <1>4, <4>1 DEF AdminInv, At
      <4>6. \A s \in Requests : req'[s].stage \notin Removing
        BY <2>1, <4>1 DEF Alike, Removing
      <4>7. ASSUME NEW s \in Requests
            PROVE  /\ req'[s].stage = "insert" => req'[s].admin \/ admins' # {}
                   /\ req'[s].stage = "blind" => req'[s].admin
                   /\ req'[s].stage = "update" => admins' # {}
        BY <2>1, <4>4, <4>5 DEF Alike
      <4>8. accounts' # {} => admins' # {}
        BY <4>2, <4>4, <4>5
      <4>9. QED
        BY <4>6, <4>7, <4>8 DEF AdminInv, At
    <3>4. QED
      BY <3>2, <3>3
  <2>4. QED
    BY <1>4, <2>2, <2>3, EndEffect
<1>5. QED
  BY <1>1, <1>2, <1>3, <1>4, StepKinds

LEMMA AdminAlways == Spec => []AdminInv
<1>1. Init => AdminInv
  BY RecordTypes DEF Init, AdminInv, At, Removing
<1>2. QED
  BY <1>1, AdminInvStep, TypedAlways, AccountAlways, PTL DEF Spec

(* If no removal ends while another is between its check and its write, a   *)
(* store with accounts has an administrator.                                *)
THEOREM AdminRemains == Spec => []LastAdminKept
<1>1. AdminInv => LastAdminKept
  BY DEF AdminInv, LastAdminKept
<1>2. QED
  BY <1>1, AdminAlways, PTL

-----------------------------------------------------------------------------
(* Links.                                                                   *)

(* Of the links of one kind mailed to a user, one at most is live: minting  *)
(* one marks the older ones consumed.                                       *)
THEOREM OneLive == Spec => []OneLiveLink
<1>1. Init => OneLiveLink
  BY DEF Init, OneLiveLink
<1>2. ASSUME Typed, OneLiveLink, [Next]_vars
      PROVE  OneLiveLink'
  <2>1. ASSUME \A l \in Links : link'[l] = link[l] \/ link'[l].state # "live"
        PROVE  OneLiveLink'
    BY <1>2, <2>1 DEF OneLiveLink
  <2>2. ASSUME NEW r \in Requests, Issue(r)
        PROVE  OneLiveLink'
    <3>1. \A l \in Links :
            \/ /\ l = req[r].link
               /\ link'[l].owner = req[r].user /\ link'[l].kind = req[r].kind
            \/ link'[l].state # "live"
            \/ /\ l # req[r].link /\ link'[l] = link[l]
               /\ ~(/\ link[l].owner = req[r].user /\ link[l].kind = req[r].kind
                    /\ link[l].state = "live")
      <4>1. ASSUME NEW l \in Links, link[l].state = "live"
            PROVE  [link[l] EXCEPT !.state = "spent"].state # "live"
        BY <1>2, LinkTypes DEF Typed, LinkState
      <4>2. QED
        BY <2>2, <4>1 DEF Issue
    <3>2. QED
      BY <1>2, <3>1 DEF OneLiveLink
  <2>3. ASSUME NEW r \in Requests, FinishWipe(r)
        PROVE  \A l \in Links : link'[l] = link[l] \/ link'[l].state # "live"
    <3>1. \A l \in Links : [link[l] EXCEPT !.state = "gone"].state # "live"
      BY <1>2, LinkTypes DEF Typed, LinkState
    <3>2. QED
      BY <2>3, <3>1 DEF FinishWipe
  <2>4. ASSUME NEW l \in Links, NEW st \in {"spent", "expired"},
               link' = [link EXCEPT ![l].state = st]
        PROVE  \A m \in Links : link'[m] = link[m] \/ link'[m].state # "live"
    <3>1. [link[l] EXCEPT !.state = st].state # "live"
      BY <1>2, LinkTypes DEF Typed, LinkState
    <3>2. QED
      BY <1>2, <2>4, <3>1 DEF Typed, TypeOK
  <2>5. ASSUME NEW r \in Requests, Spend(r)
        PROVE  OneLiveLink'
    <3>1. req[r].link \in Links
      BY <1>2, <2>5 DEF Spend, At, Typed, Shape
    <3>2. QED
      BY <2>1, <2>4, <2>5, <3>1 DEF Spend
  <2>6. ASSUME NEW l \in Links, Expire(l)
        PROVE  OneLiveLink'
    BY <2>1, <2>4, <2>6 DEF Expire
  <2>7. CASE link' = link
    BY <2>1, <2>7
  <2>8. \/ link' = link
        \/ \E r \in Requests : Issue(r) \/ FinishWipe(r) \/ Spend(r)
        \/ \E l \in Links : Expire(l)
    <3>1. ASSUME NEW r \in Requests, Step(r)
          PROVE  link' = link \/ Issue(r) \/ FinishWipe(r) \/ Spend(r)
      BY <3>1 DEF Step, BeginCreate, BeginBlindly, BeginDelete, BeginChange,
           BeginWipe, BeginIssue, Enter, FinishCreate, FinishDelete, FinishChange, Exit,
           Peek, VerifyRead, ConsumeRead, Apply, WriteFails
    <3>2. QED
      BY <1>2, <3>1 DEF Next, OtherWrite, Restart, vars
  <2>9. QED
    BY <2>1, <2>2, <2>3, <2>5, <2>6, <2>7, <2>8
<1>3. QED
  BY <1>1, <1>2, TypedAlways, PTL DEF Spec

Touching == {"issue", "consume", "spend", "apply"}

Unused == {"new", "live", "expired"}

\* What a request may rely on about the link it holds.
Claim(r) ==
  LET l == req[r].link
  IN  /\ At(r, "issue") => link[l].state = "new"
      /\ At(r, "consume") => link[l].state # "new"
      /\ At(r, "spend") => /\ link[l].state # "new"
                           /\ req[r].stale \/ link[l].state \in {"live", "expired"}
      /\ At(r, "apply") => link[l].state \in {"spent", "gone"} /\ used[l] = 0

\* Two requests with one link: neither is minting it, and one at most has
\* consumed it and not yet changed the account.
Apart(r, s) ==
  r # s /\ req[r].link \in Links /\ req[s].link = req[r].link
    => ~At(r, "issue") /\ ~(At(r, "apply") /\ At(s, "apply"))

UseInv ==
  /\ \A l \in Links :
       used[l] <= 1 /\ (link[l].state \in Unused => used[l] = 0)
  /\ \A r \in Requests : Claim(r)
  /\ \A r, s \in Requests : Apart(r, s)

\* Steps that touch no link: requests go on as they were, or hold none.
LEMMA UntouchedUse ==
  ASSUME Typed, UseInv, UNCHANGED <<link, used>>,
         \A s \in Requests :
           \/ Alike(req'[s], req[s])
           \/ req'[s].stage \notin Touching /\ req'[s].link \notin Links
  PROVE  UseInv'
<1>1. ASSUME NEW r \in Requests
      PROVE  Claim(r)'
  BY DEF UseInv, Claim, At, Alike, Touching
<1>2. ASSUME NEW r \in Requests, NEW s \in Requests
      PROVE  Apart(r, s)'
  BY DEF UseInv, Apart, At, Alike, Touching
<1>3. QED
  BY <1>1, <1>2 DEF UseInv

LEMMA UntouchedSteps ==
  ASSUME Typed, UseInv
  PROVE  /\ \A r \in Requests :
              /\ FinishCreate(r) \/ FinishDelete(r) \/ FinishChange(r) => UseInv'
              /\ WriteFails(r) => UseInv'
              /\ \A u \in Users : Begins(r, u) => UseInv'
         /\ OtherWrite \/ Restart => UseInv'
<1>1. /\ Idle \in Request /\ Idle.stage \notin Touching
      /\ Idle.link \notin Links
  BY RecordTypes, AccountsAssumption DEF Idle, Doing, Touching
<1>2. \A s \in Requests : Alike(req[s], req[s])
  BY SameAlike DEF Typed, TypeOK
<1>3. ASSUME NEW r \in Requests,
             FinishCreate(r) \/ FinishDelete(r) \/ FinishChange(r) \/ WriteFails(r)
      PROVE  UseInv'
  <2>1. Wrote(r, Idle) \/ Continue(r, Idle)
    BY <1>3 DEF FinishCreate, FinishDelete, FinishChange, Exit, WriteFails
  <2>2. req'[r] = Idle /\ \A s \in Requests \ {r} : Alike(req'[s], req[s])
    BY <1>1, <1>2, <2>1, Written, Continued DEF Typed
  <2>3. UNCHANGED <<link, used>>
    BY <1>3 DEF FinishCreate, FinishDelete, FinishChange, Exit, WriteFails
  <2>4. QED
    BY <1>1, <2>2, <2>3, UntouchedUse
<1>4. ASSUME NEW r \in Requests, NEW u \in Users, Begins(r, u)
      PROVE  UseInv'
  <2>1. PICK st \in Pending, a \in BOOLEAN : Continue(r, Doing(st, u, a))
    <3>1. ASSUME NEW asked \in BOOLEAN, BeginCreate(r, u, asked)
          PROVE  \E st \in Pending, a \in BOOLEAN : Continue(r, Doing(st, u, a))
      <4>1. PICK a \in BOOLEAN : a = (asked \/ (accounts = {} /\ ~EnvAdmin))
        OBVIOUS
      <4>2. QED
        BY <3>1, <4>1 DEF BeginCreate, Enter, Pending, Locked
    <3>2. ASSUME NEW asked \in BOOLEAN, BeginBlindly(r, u, asked)
          PROVE  \E st \in Pending, a \in BOOLEAN : Continue(r, Doing(st, u, a))
      <4>1. PICK a \in BOOLEAN : a = (asked \/ ~EnvAdmin)
        OBVIOUS
      <4>2. QED
        BY <3>2, <4>1 DEF BeginBlindly, Enter, Pending, Locked
    <3>3. ASSUME BeginChange(r, u)
          PROVE  \E st \in Pending, a \in BOOLEAN : Continue(r, Doing(st, u, a))
      <4>1. PICK a \in BOOLEAN : a <=> u \in admins
        OBVIOUS
      <4>2. QED
        BY <3>3, <4>1 DEF BeginChange, Enter, Pending, Locked
    <3>4. ASSUME BeginDelete(r, u) \/ BeginWipe(r, u)
          PROVE  \E st \in Pending, a \in BOOLEAN : Continue(r, Doing(st, u, a))
      BY <3>4 DEF BeginDelete, BeginWipe, Enter, Pending, Locked
    <3>5. QED
      BY <1>4, <3>1, <3>2, <3>3, <3>4 DEF Begins
  <2>2. /\ Doing(st, u, a) \in Request /\ Doing(st, u, a).stage = st
        /\ Doing(st, u, a).link \notin Links
    BY RecordTypes, AccountsAssumption DEF Doing, Pending, Stage
  <2>3. req'[r] = Doing(st, u, a) /\ \A s \in Requests \ {r} : req'[s] = req[s]
    BY <2>1, <2>2, Continued DEF Typed
  <2>4. UNCHANGED <<link, used>>
    BY <1>4 DEF Begins, BeginCreate, BeginBlindly, BeginDelete, BeginChange,
         BeginWipe, Enter
  <2>5. st \notin Touching
    BY DEF Pending, Locked, Touching
  <2>6. QED
    BY <1>2, <2>2, <2>3, <2>4, <2>5, UntouchedUse
<1>5. ASSUME OtherWrite
      PROVE  UseInv'
  BY <1>5, Staled, UntouchedUse DEF OtherWrite, Typed, TypeOK
<1>6. ASSUME Restart
      PROVE  UseInv'
  BY <1>1, <1>6, UntouchedUse DEF Restart
<1>7. QED
  BY <1>3, <1>4, <1>5, <1>6

\* A step of r onto the link l, which no other request is minting.
LEMMA TakenUse ==
  ASSUME Typed, UseInv, UNCHANGED <<link, used>>, NEW r \in Requests,
         NEW l \in Links, NEW k \in Kind, NEW u \in Users,
         NEW st \in {"issue", "consume", "spend"},
         Continue(r, Using(st, u, l, k)),
         st = "issue" => /\ link[l].state = "new"
                         /\ \A s \in Requests : req[s].link # l,
         st # "issue" => link[l].state = "live"
  PROVE  UseInv'
<1>1. /\ Using(st, u, l, k) \in Request /\ Using(st, u, l, k).stage = st
      /\ Using(st, u, l, k).link = l
  BY RecordTypes DEF Stage
<1>2. /\ req'[r].stage = st /\ req'[r].link = l
      /\ \A s \in Requests \ {r} : req'[s] = req[s]
  BY <1>1, Continued DEF Typed
<1>3. Claim(r)'
  BY <1>2 DEF Claim, At
<1>4. ASSUME NEW s \in Requests \ {r}
      PROVE  Claim(s)' /\ Apart(r, s)' /\ Apart(s, r)'
  <2>1. Claim(s)'
    BY <1>2 DEF UseInv, Claim, At
  <2>2. req[s].link = l => ~At(s, "issue") /\ st # "issue"
    <3>1. ASSUME At(s, "issue"), req[s].link = l
          PROVE  FALSE
      BY <3>1 DEF UseInv, Claim
    <3>2. QED
      BY <3>1
  <2>3. QED
    BY <1>2, <2>1, <2>2 DEF Apart, At
<1>5. \A s, t \in Requests \ {r} : Apart(s, t)'
  BY <1>2 DEF UseInv, Apart, At
<1>6. \A s \in Requests : Apart(s, s)'
  BY DEF Apart
<1>7. QED
  BY <1>3, <1>4, <1>5, <1>6 DEF UseInv

LEMMA TakingSteps ==
  ASSUME Typed, UseInv, NEW r \in Requests
  PROVE  /\ \A u \in Users, k \in Kind, l \in Links :
              BeginIssue(r, u, k, l) => UseInv'
         /\ \A l \in Links : Peek(r, l) \/ VerifyRead(r, l) => UseInv'
         /\ ConsumeRead(r) => UseInv'
<1>1. ASSUME NEW u \in Users, NEW k \in Kind, NEW l \in Links,
             BeginIssue(r, u, k, l)
      PROVE  UseInv'
  BY <1>1, TakenUse DEF BeginIssue
<1>2. ASSUME NEW l \in Links, Peek(r, l) \/ VerifyRead(r, l)
      PROVE  UseInv'
  <2>1. link[l].state = "live" /\ link[l].owner \in Users /\ link[l].kind \in Kind
    BY <1>2, LinkTypes DEF Peek, VerifyRead, Typed, Shape, Owned
  <2>2. UNCHANGED <<link, used>>
    BY <1>2 DEF Peek, VerifyRead
  <2>3. PICK st \in {"consume", "spend"} :
          Continue(r, Using(st, link[l].owner, l, link[l].kind))
    BY <1>2 DEF Peek, VerifyRead
  <2>4. QED
    BY <2>1, <2>2, <2>3, TakenUse
<1>3. ASSUME ConsumeRead(r)
      PROVE  UseInv'
  <2>1. UNCHANGED <<link, used>> /\ req[r].stage = "consume"
    BY <1>3 DEF ConsumeRead, At
  <2>2. CASE Continue(r, Idle)
    <3>1. /\ Idle \in Request /\ Idle.stage \notin Touching
          /\ Idle.link \notin Links
      BY RecordTypes, AccountsAssumption DEF Idle, Doing, Touching
    <3>2. req'[r] = Idle /\ \A s \in Requests \ {r} : Alike(req'[s], req[s])
      BY <2>2, <3>1, Continued, SameAlike DEF Typed, TypeOK
    <3>3. QED
      BY <2>1, <3>1, <3>2, UntouchedUse
  <2>3. CASE /\ link[req[r].link].state = "live"
             /\ Continue(r, [req[r] EXCEPT !.stage = "spend"])
    <3>1. "spend" \in Stage
      BY DEF Stage
    <3>2. PICK x : x = [req[r] EXCEPT !.stage = "spend"]
      OBVIOUS
    <3>3. x \in Request /\ x.stage = "spend" /\ x.link = req[r].link
      BY <3>1, <3>2, ReqTypes DEF Typed
    <3>4. /\ req'[r].stage = "spend" /\ req'[r].link = req[r].link
          /\ \A s \in Requests \ {r} : req'[s] = req[s]
      BY <2>3, <3>2, <3>3, Continued DEF Typed
    <3>5. ASSUME NEW s \in Requests
          PROVE  Claim(s)'
      BY <2>1, <2>3, <3>4 DEF UseInv, Claim, At
    <3>6. ASSUME NEW s \in Requests, NEW t \in Requests
          PROVE  Apart(s, t)'
      BY <2>1, <3>4 DEF UseInv, Apart, At
    <3>7. QED
      BY <2>1, <3>5, <3>6 DEF UseInv
  <2>4. QED
    BY <1>3, <2>2, <2>3 DEF ConsumeRead
<1>4. QED
  BY <1>1, <1>2, <1>3

\* A write that leaves the other requests' links as they may rely on them.
LEMMA WrittenUse ==
  ASSUME Typed, UseInv, NEW r \in Requests, Wrote(r, Idle),
         \A l \in Links :
           used'[l] <= 1 /\ (link'[l].state \in Unused => used'[l] = 0),
         \A l \in Links : link[l].state # "new" => link'[l].state # "new",
         \A s \in Requests \ {r} :
           LET l == req[s].link
           IN  /\ At(s, "issue") => link'[l] = link[l]
               /\ At(s, "apply") => /\ link'[l].state \in {"spent", "gone"}
                                    /\ used'[l] = 0
  PROVE  UseInv'
<1>1. /\ Idle \in Request /\ Idle.stage = "idle" /\ Idle.link \notin Links
  BY RecordTypes, AccountsAssumption DEF Idle, Doing
<1>2. /\ req'[r] = Idle
      /\ \A s \in Requests \ {r} :
           Alike(req'[s], req[s]) /\ (req[s].stage = "spend" => req'[s].stale)
  BY <1>1, Written DEF Typed
<1>3. Claim(r)'
  BY <1>1, <1>2 DEF Claim, At
<1>4. ASSUME NEW s \in Requests \ {r}
      PROVE  Claim(s)'
  <2>1. req[s].stage \in Touching => req[s].link \in Links
    BY DEF Typed, Shape, Touching
  <2>2. QED
    BY <1>2, <2>1 DEF UseInv, Claim, At, Alike, Touching
<1>5. ASSUME NEW s \in Requests, NEW t \in Requests
      PROVE  Apart(s, t)'
  BY <1>1, <1>2 DEF UseInv, Apart, At, Alike
<1>6. QED
  BY <1>3, <1>4, <1>5 DEF UseInv

LEMMA IssueUse ==
  ASSUME Typed, UseInv, NEW r \in Requests, Issue(r)
  PROVE  UseInv'
<1>1. /\ Wrote(r, Idle) /\ used' = used /\ At(r, "issue")
      /\ req[r].link \in Links /\ link[req[r].link].state = "new"
  BY DEF Issue, At, Typed, Shape, UseInv, Claim
<1>2. \A l \in Links :
        \/ /\ l = req[r].link /\ link'[l].state = "live"
        \/ /\ l # req[r].link /\ link[l].state = "live"
           /\ link'[l].state = "spent"
        \/ /\ l # req[r].link /\ link'[l] = link[l]
  <2>1. \A l \in Links : [link[l] EXCEPT !.state = "spent"].state = "spent"
    BY LinkTypes DEF Typed, LinkState
  <2>2. QED
    BY <2>1 DEF Issue
<1>3. \A l \in Links :
        used'[l] <= 1 /\ (link'[l].state \in Unused => used'[l] = 0)
  BY <1>1, <1>2 DEF UseInv, Unused
<1>4. ASSUME NEW s \in Requests \ {r}
      PROVE  LET l == req[s].link
             IN  /\ At(s, "issue") => link'[l] = link[l]
                 /\ At(s, "apply") => /\ link'[l].state \in {"spent", "gone"}
                                      /\ used'[l] = 0
  <2>1. At(s, "issue") \/ At(s, "apply") => req[s].link \in Links
    BY DEF At, Typed, Shape
  <2>2. req[s].link # req[r].link \/ ~(At(s, "issue") \/ At(s, "apply"))
    BY <1>1, <2>1 DEF UseInv, Apart
  <2>3. Claim(s)
    BY DEF UseInv
  <2>4. QED
    BY <1>1, <1>2, <2>1, <2>2, <2>3 DEF Claim
<1>5. \A l \in Links : link[l].state # "new" => link'[l].state # "new"
  BY <1>2
<1>6. QED
  BY <1>1, <1>3, <1>4, <1>5, WrittenUse

LEMMA WipeUse ==
  ASSUME Typed, UseInv, NEW r \in Requests, FinishWipe(r)
  PROVE  UseInv'
<1>1. Wrote(r, Idle) /\ used' = used
  BY DEF FinishWipe
<1>2. req[r].user \in Users /\ req[r].user # Nobody
  BY AccountsAssumption DEF FinishWipe, At, Typed, Shape
<1>3. \A l \in Links :
        \/ link'[l] = link[l]
        \/ link[l].state # "new" /\ link'[l].state = "gone"
  <2>1. \A l \in Links : [link[l] EXCEPT !.state = "gone"].state = "gone"
    BY LinkTypes DEF Typed, LinkState
  <2>2. \A l \in Links : link[l].state = "new" => link[l].owner # req[r].user
    BY <1>2 DEF Typed, Shape, Owned
  <2>3. QED
    BY <2>1, <2>2 DEF FinishWipe
<1>4. \A l \in Links :
        used'[l] <= 1 /\ (link'[l].state \in Unused => used'[l] = 0)
  BY <1>1, <1>3 DEF UseInv, Unused
<1>5. ASSUME NEW s \in Requests \ {r}
      PROVE  LET l == req[s].link
             IN  /\ At(s, "issue") => link'[l] = link[l]
                 /\ At(s, "apply") => /\ link'[l].state \in {"spent", "gone"}
                                      /\ used'[l] = 0
  <2>1. At(s, "issue") \/ At(s, "apply") => req[s].link \in Links
    BY DEF At, Typed, Shape
  <2>2. Claim(s)
    BY DEF UseInv
  <2>3. QED
    BY <1>1, <1>3, <2>1, <2>2 DEF Claim
<1>6. \A l \in Links : link[l].state # "new" => link'[l].state # "new"
  BY <1>3
<1>7. QED
  BY <1>1, <1>4, <1>5, <1>6, WrittenUse

LEMMA ApplyUse ==
  ASSUME Typed, UseInv, NEW r \in Requests, Apply(r)
  PROVE  UseInv'
<1>1. Wrote(r, Idle) /\ link' = link /\ At(r, "apply")
  BY DEF Apply
<1>2. /\ req[r].link \in Links /\ used[req[r].link] = 0
      /\ link[req[r].link].state \in {"spent", "gone"}
  BY <1>1 DEF At, Typed, Shape, UseInv, Claim
<1>3. /\ \A l \in Links \ {req[r].link} : used'[l] = used[l]
      /\ used'[req[r].link] \in {0, 1}
  BY <1>2 DEF Apply, Typed, TypeOK
<1>4. \A l \in Links :
        used'[l] <= 1 /\ (link'[l].state \in Unused => used'[l] = 0)
  <2>1. ASSUME NEW l \in Links, l # req[r].link
        PROVE  used'[l] <= 1 /\ (link'[l].state \in Unused => used'[l] = 0)
    BY <1>1, <1>3, <2>1 DEF UseInv
  <2>2. used'[req[r].link] <= 1
    BY <1>3
  <2>3. link'[req[r].link].state \notin Unused
    BY <1>1, <1>2 DEF Unused
  <2>4. QED
    BY <2>1, <2>2, <2>3
<1>5. ASSUME NEW s \in Requests \ {r}
      PROVE  LET l == req[s].link
             IN  /\ At(s, "issue") => link'[l] = link[l]
                 /\ At(s, "apply") => /\ link'[l].state \in {"spent", "gone"}
                                      /\ used'[l] = 0
  <2>1. At(s, "apply") => req[s].link \in Links
    BY DEF At, Typed, Shape
  <2>2. At(s, "apply") => req[s].link # req[r].link
    BY <1>1, <1>2 DEF UseInv, Apart
  <2>3. Claim(s)
    BY DEF UseInv
  <2>4. QED
    BY <1>1, <1>3, <2>1, <2>2, <2>3 DEF Claim
<1>6. QED
  BY <1>1, <1>4, <1>5, WrittenUse

LEMMA SpendUse ==
  ASSUME Typed, UseInv, NEW r \in Requests, Spend(r)
  PROVE  UseInv'
<1>1. "apply" \in Stage /\ "spent" \in LinkState
  BY DEF Stage, LinkState
<1>2. PICK x : x = [req[r] EXCEPT !.stage = "apply"]
  OBVIOUS
<1>3. x \in Request /\ x.stage = "apply" /\ x.link = req[r].link
  BY <1>1, <1>2, ReqTypes DEF Typed
<1>4. /\ req'[r] = x
      /\ \A s \in Requests \ {r} :
           Alike(req'[s], req[s]) /\ (req[s].stage = "spend" => req'[s].stale)
  BY <1>2, <1>3, Written DEF Spend, Typed
<1>5. req[r].link \in Links /\ used' = used /\ At(r, "spend") /\ ~req[r].stale
  BY DEF Spend, At, Typed, Shape
<1>6. link[req[r].link].state \in {"live", "expired"} /\ used[req[r].link] = 0
  BY <1>5 DEF UseInv, Claim, Unused
<1>7. /\ link'[req[r].link].state = "spent"
      /\ \A l \in Links \ {req[r].link} : link'[l] = link[l]
  <2>1. [link[req[r].link] EXCEPT !.state = "spent"].state = "spent"
    BY <1>1, <1>5, LinkTypes DEF Typed
  <2>2. QED
    BY <1>5, <2>1 DEF Spend, Typed, TypeOK
<1>8. \A l \in Links :
        used'[l] <= 1 /\ (link'[l].state \in Unused => used'[l] = 0)
  BY <1>5, <1>7 DEF UseInv, Unused
<1>9. Claim(r)'
  BY <1>3, <1>4, <1>5, <1>6, <1>7 DEF Claim, At
<1>10. ASSUME NEW s \in Requests \ {r}
       PROVE  Claim(s)' /\ Apart(r, s)' /\ Apart(s, r)'
  <2>1. Claim(s)
    BY DEF UseInv
  <2>2. req[s].stage \in Touching => req[s].link \in Links
    BY DEF Typed, Shape, Touching
  <2>3. req[s].link = req[r].link => ~At(s, "issue") /\ ~At(s, "apply")
    BY <1>6, <2>1 DEF Claim
  <2>4. Claim(s)'
    <3>1. CASE req[s].link = req[r].link
      BY <1>4, <1>7, <2>3, <3>1 DEF Claim, At, Alike
    <3>2. CASE req[s].link # req[r].link
      BY <1>4, <1>5, <1>7, <2>1, <2>2, <3>2 DEF Claim, At, Alike, Touching
    <3>3. QED
      BY <3>1, <3>2
  <2>5. QED
    BY <1>3, <1>4, <2>3, <2>4 DEF Apart, At, Alike
<1>11. \A s, t \in Requests \ {r} : Apart(s, t)'
  BY <1>4 DEF UseInv, Apart, At, Alike
<1>12. \A s \in Requests : Apart(s, s)'
  BY DEF Apart
<1>13. QED
  BY <1>8, <1>9, <1>10, <1>11, <1>12 DEF UseInv

LEMMA ExpireUse ==
  ASSUME Typed, UseInv, NEW l \in Links, Expire(l)
  PROVE  UseInv'
<1>1. /\ req' = req /\ used' = used /\ link[l].state = "live"
      /\ link'[l].state = "expired"
      /\ \A m \in Links \ {l} : link'[m] = link[m]
  <2>1. [link[l] EXCEPT !.state = "expired"].state = "expired"
    BY LinkTypes DEF Typed, LinkState
  <2>2. QED
    BY <2>1 DEF Expire, Typed, TypeOK
<1>2. \A m \in Links :
        used'[m] <= 1 /\ (link'[m].state \in Unused => used'[m] = 0)
  BY <1>1 DEF UseInv, Unused
<1>3. ASSUME NEW s \in Requests
      PROVE  Claim(s)'
  <2>1. Claim(s)
    BY DEF UseInv
  <2>2. req[s].stage \in Touching => req[s].link \in Links
    BY DEF Typed, Shape, Touching
  <2>3. CASE req[s].link = l
    BY <1>1, <2>1, <2>3 DEF Claim, At
  <2>4. CASE req[s].link # l
    BY <1>1, <2>1, <2>2, <2>4 DEF Claim, At, Touching
  <2>5. QED
    BY <2>3, <2>4
<1>4. \A s, t \in Requests : Apart(s, t)'
  BY <1>1 DEF UseInv, Apart, At
<1>5. QED
  BY <1>2, <1>3, <1>4 DEF UseInv

LEMMA UseInvStep ==
  ASSUME Typed, UseInv, [Next]_vars
  PROVE  UseInv'
<1>1. CASE UNCHANGED vars
  BY <1>1 DEF vars, UseInv, Claim, Apart, At
<1>2. ASSUME NEW r \in Requests, Step(r)
      PROVE  UseInv'
  <2>1. CASE Issue(r) \/ FinishWipe(r) \/ Apply(r) \/ Spend(r)
    BY <2>1, IssueUse, WipeUse, ApplyUse, SpendUse
  <2>2. CASE \/ FinishCreate(r) \/ FinishDelete(r) \/ FinishChange(r)
             \/ WriteFails(r) \/ \E u \in Users : Begins(r, u)
    BY <2>2, UntouchedSteps
  <2>3. CASE \/ \E u \in Users, k \in Kind, l \in Links : BeginIssue(r, u, k, l)
             \/ \E l \in Links : Peek(r, l) \/ VerifyRead(r, l)
             \/ ConsumeRead(r)
    BY <2>3, TakingSteps
  <2>4. QED
    BY <1>2, <2>1, <2>2, <2>3 DEF Step, Begins
<1>3. ASSUME NEW l \in Links, Expire(l)
      PROVE  UseInv'
  BY <1>3, ExpireUse
<1>4. ASSUME OtherWrite \/ Restart
      PROVE  UseInv'
  BY <1>4, UntouchedSteps
<1>5. QED
  BY <1>1, <1>2, <1>3, <1>4 DEF Next

LEMMA UseAlways == Spec => []UseInv
<1>1. Init => UseInv
  BY RecordTypes DEF Init, UseInv, Claim, Apart, At
<1>2. QED
  BY <1>1, UseInvStep, TypedAlways, PTL DEF Spec

(* However many requests present a link, and whatever is killed, refused or *)
(* deleted meanwhile, it changes an account at most once.                   *)
THEOREM SingleUse == Spec => []UsedOnce
<1>1. UseInv => UsedOnce
  BY DEF UseInv, UsedOnce
<1>2. QED
  BY <1>1, UseAlways, PTL


-----------------------------------------------------------------------------
(* Refinement.                                                              *)

\* A link keeps whom it was mailed to and what for.
SameLetter(l) ==
  /\ link'[l].state = "new" <=> link[l].state = "new"
  /\ link'[l].owner = link[l].owner /\ link'[l].kind = link[l].kind

LEMMA LetterSteps ==
  ASSUME Typed, NEW l \in Links
  PROVE  /\ link'[l] = link[l] => SameLetter(l)
         /\ \A st \in {"spent", "expired", "gone"} :
              link[l].state # "new" /\ link'[l] = [link[l] EXCEPT !.state = st]
                => SameLetter(l)
<1>1. link'[l] = link[l] => SameLetter(l)
  BY DEF SameLetter
<1>2. ASSUME NEW st \in {"spent", "expired", "gone"}, link[l].state # "new",
             link'[l] = [link[l] EXCEPT !.state = st]
      PROVE  SameLetter(l)
  <2>1. st \in LinkState /\ st # "new"
    BY DEF LinkState
  <2>2. QED
    BY <1>2, <2>1, LinkTypes DEF Typed, SameLetter
<1>3. QED
  BY <1>1, <1>2

LEMMA IssueLetters ==
  ASSUME Typed, NEW l \in Links, NEW r \in Requests, Issue(r), l # req[r].link
  PROVE  SameLetter(l)
<1> DEFINE Older == /\ link[l].owner = req[r].user /\ link[l].kind = req[r].kind
                    /\ link[l].state = "live"
<1>1. CASE Older
  <2>1. link'[l] = [link[l] EXCEPT !.state = "spent"] /\ link[l].state # "new"
    BY <1>1 DEF Issue
  <2>2. QED
    BY <2>1, LetterSteps
<1>2. CASE ~Older
  <2>1. link'[l] = link[l]
    BY <1>2 DEF Issue
  <2>2. QED
    BY <2>1, LetterSteps
<1>3. QED
  BY <1>1, <1>2

LEMMA LettersKept ==
  ASSUME Typed, UseInv, [Next]_vars, NEW l \in Links
  PROVE  SameLetter(l) \/ \E r \in Requests : Issue(r) /\ l = req[r].link
<1>1. \A st \in {"spent", "expired", "gone"} :
        link[l].state # "new" /\ link'[l] = [link[l] EXCEPT !.state = st]
          => SameLetter(l)
  BY LetterSteps
<1>2. link'[l] = link[l] => SameLetter(l)
  BY DEF SameLetter
<1>3. ASSUME NEW r \in Requests, Issue(r), l # req[r].link
      PROVE  SameLetter(l)
  BY <1>3, IssueLetters
<1>4. ASSUME NEW r \in Requests, FinishWipe(r)
      PROVE  SameLetter(l)
  <2>1. req[r].user \in Users /\ req[r].user # Nobody
    BY <1>4, AccountsAssumption DEF FinishWipe, At, Typed, Shape
  <2>2. link[l].owner = req[r].user => link[l].state # "new"
    BY <2>1 DEF Typed, Shape, Owned
  <2>3. CASE link[l].owner = req[r].user
    <3>1. link'[l] = [link[l] EXCEPT !.state = "gone"]
      BY <1>4, <2>3 DEF FinishWipe
    <3>2. QED
      BY <1>1, <2>2, <2>3, <3>1
  <2>4. CASE link[l].owner # req[r].user
    <3>1. link'[l] = link[l]
      BY <1>4, <2>4 DEF FinishWipe
    <3>2. QED
      BY <1>2, <3>1
  <2>5. QED
    BY <2>3, <2>4
<1>5. ASSUME NEW r \in Requests, Spend(r)
      PROVE  SameLetter(l)
  <2>1. /\ req[r].link \in Links
        /\ link' = [link EXCEPT ![req[r].link].state = "spent"]
    BY <1>5 DEF Spend, At, Typed, Shape
  <2>2. link[req[r].link].state # "new"
    BY <1>5 DEF Spend, At, UseInv, Claim
  <2>3. CASE l = req[r].link
    <3>1. link'[l] = [link[l] EXCEPT !.state = "spent"]
      BY <2>1, <2>3 DEF Typed, TypeOK
    <3>2. QED
      BY <1>1, <2>2, <2>3, <3>1
  <2>4. CASE l # req[r].link
    <3>1. link'[l] = link[l]
      BY <2>1, <2>4 DEF Typed, TypeOK
    <3>2. QED
      BY <1>2, <3>1
  <2>5. QED
    BY <2>3, <2>4
<1>6. ASSUME NEW m \in Links, Expire(m)
      PROVE  SameLetter(l)
  <2>1. CASE l = m
    <3>1. link'[l] = [link[l] EXCEPT !.state = "expired"]
      BY <1>6, <2>1 DEF Expire, Typed, TypeOK
    <3>2. QED
      BY <1>1, <1>6, <2>1, <3>1 DEF Expire
  <2>2. CASE l # m
    <3>1. link'[l] = link[l]
      BY <1>6, <2>2 DEF Expire, Typed, TypeOK
    <3>2. QED
      BY <1>2, <3>1
  <2>3. QED
    BY <2>1, <2>2
<1>7. ASSUME NEW r \in Requests, Step(r)
      PROVE  link' = link \/ Issue(r) \/ FinishWipe(r) \/ Spend(r)
  BY <1>7 DEF Step, BeginCreate, BeginBlindly, BeginDelete, BeginChange,
     BeginWipe, BeginIssue, Enter, FinishCreate, FinishDelete, FinishChange,
     Exit, Peek, VerifyRead, ConsumeRead, Apply, WriteFails
<1>8. \/ link' = link
      \/ \E r \in Requests : Issue(r) \/ FinishWipe(r) \/ Spend(r)
      \/ \E m \in Links : Expire(m)
  BY <1>7 DEF Next, OtherWrite, Restart, vars
<1>9. QED
  <2>1. link' = link => SameLetter(l)
    BY <1>2
  <2>2. QED
    BY <1>3, <1>4, <1>5, <1>6, <1>8, <2>1

\* What a request is about to do it does for whom its link was mailed to.
HeldInv ==
  \A r \in Requests :
    req[r].stage \in {"consume", "spend", "apply"} =>
      LET l == link[req[r].link]
      IN  l.state # "new" /\ l.owner = req[r].user /\ l.kind = req[r].kind

LEMMA HeldInvStep ==
  ASSUME Typed, UseInv, HeldInv, [Next]_vars
  PROVE  HeldInv'
<1> DEFINE Holding == {"consume", "spend", "apply"}
           Held(r) == LET l == link[req[r].link]
                      IN  /\ l.state # "new" /\ l.owner = req[r].user
                          /\ l.kind = req[r].kind
\* A request that goes on with its link.
<1>1. ASSUME NEW r \in Requests, req[r].stage \in Holding,
             req'[r].link = req[r].link, req'[r].user = req[r].user,
             req'[r].kind = req[r].kind
      PROVE  Held(r)'
  <2>1. Held(r) /\ req[r].link \in Links
    BY <1>1 DEF HeldInv, Typed, Shape
  <2>2. ~ \E s \in Requests : Issue(s) /\ req[s].link = req[r].link
    BY <2>1 DEF Issue, UseInv, Claim
  <2>3. SameLetter(req[r].link)
    BY <2>1, <2>2, LettersKept
  <2>4. QED
    BY <1>1, <2>1, <2>3 DEF SameLetter
<1>2. ASSUME NEW r \in Requests, Alike(req'[r], req[r])
      PROVE  req'[r].stage \in Holding => Held(r)'
  BY <1>1, <1>2 DEF Alike
<1>3. ASSUME NEW r \in Requests, NEW x \in Request,
             Continue(r, x) \/ Wrote(r, x)
      PROVE  req'[r] = x /\ \A s \in Requests \ {r} : Alike(req'[s], req[s])
  BY <1>3, Continued, Written, SameAlike DEF Typed, TypeOK
<1>4. ASSUME NEW r \in Requests, NEW x \in Request,
             Continue(r, x) \/ Wrote(r, x),
             x.stage \in Holding => Held(r)'
      PROVE  HeldInv'
  BY <1>2, <1>3, <1>4 DEF HeldInv
<1>5. ASSUME NEW r \in Requests, NEW x \in Request,
             Continue(r, x) \/ Wrote(r, x), x.stage \notin Holding
      PROVE  HeldInv'
  BY <1>4, <1>5
<1>6. ASSUME NEW r \in Requests, Step(r)
      PROVE  HeldInv'
  <2>1. Idle \in Request /\ Idle.stage \notin Holding
    BY RecordTypes
  <2>2. CASE Continue(r, Idle) \/ Wrote(r, Idle)
    BY <1>5, <2>1, <2>2
  <2>3. ASSUME NEW u \in Users, Begins(r, u)
        PROVE  HeldInv'
    <3>1. /\ \A s \in Requests \ {r} : req'[s] = req[s]
          /\ req'[r].stage \notin Holding
      BY <2>3, BeginEffect DEF Removing
    <3>2. \A s \in Requests \ {r} : Alike(req'[s], req[s])
      BY <3>1, SameAlike DEF Typed, TypeOK
    <3>3. QED
      BY <1>2, <3>1, <3>2 DEF HeldInv
  <2>4. ASSUME NEW u \in Users, NEW k \in Kind, NEW l \in Links,
               BeginIssue(r, u, k, l)
        PROVE  HeldInv'
    <3>1. "issue" \in Stage
      BY DEF Stage
    <3>2. /\ Using("issue", u, l, k) \in Request
          /\ Using("issue", u, l, k).stage = "issue"
      BY <3>1, RecordTypes
    <3>3. QED
      BY <1>5, <2>4, <3>2 DEF BeginIssue
  <2>5. ASSUME NEW l \in Links, Peek(r, l) \/ VerifyRead(r, l)
        PROVE  HeldInv'
    <3>1. /\ link[l].state = "live" /\ link' = link
          /\ link[l].owner \in Users /\ link[l].kind \in Kind
      BY <2>5, LinkTypes DEF Peek, VerifyRead, Typed, Shape, Owned
    <3>2. PICK st \in {"consume", "spend"} :
            Continue(r, Using(st, link[l].owner, l, link[l].kind))
      BY <2>5 DEF Peek, VerifyRead
    <3>3. st \in Stage
      BY DEF Stage
    <3>4. PICK x : x = Using(st, link[l].owner, l, link[l].kind)
      OBVIOUS
    <3>5. /\ x \in Request /\ x.link = l /\ x.user = link[l].owner
          /\ x.kind = link[l].kind
      BY <3>1, <3>3, <3>4, RecordTypes
    <3>6. req'[r] = x
      BY <1>3, <3>2, <3>4, <3>5
    <3>7. Held(r)'
      BY <3>1, <3>5, <3>6
    <3>8. QED
      BY <1>4, <3>2, <3>4, <3>5, <3>7
  <2>6. ASSUME NEW st \in {"spend", "apply"},
               req[r].stage \in {"consume", "spend"},
               \/ Continue(r, [req[r] EXCEPT !.stage = st])
               \/ Wrote(r, [req[r] EXCEPT !.stage = st])
        PROVE  HeldInv'
    <3>1. st \in Stage
      BY DEF Stage
    <3>2. PICK x : x = [req[r] EXCEPT !.stage = st]
      OBVIOUS
    <3>3. /\ x \in Request /\ x.link = req[r].link /\ x.user = req[r].user
          /\ x.kind = req[r].kind
      BY <3>1, <3>2, ReqTypes DEF Typed
    <3>4. req'[r] = x
      BY <1>3, <2>6, <3>2, <3>3
    <3>5. Held(r)'
      BY <1>1, <2>6, <3>3, <3>4
    <3>6. QED
      BY <1>4, <2>6, <3>2, <3>3, <3>5
  <2>7. \/ Continue(r, Idle) \/ Wrote(r, Idle)
        \/ \E u \in Users : Begins(r, u)
        \/ \E u \in Users, k \in Kind, l \in Links : BeginIssue(r, u, k, l)
        \/ \E l \in Links : Peek(r, l) \/ VerifyRead(r, l)
        \/ \E st \in {"spend", "apply"} :
             /\ req[r].stage \in {"consume", "spend"}
             /\ \/ Continue(r, [req[r] EXCEPT !.stage = st])
                \/ Wrote(r, [req[r] EXCEPT !.stage = st])
    BY <1>6 DEF Step, Begins, FinishCreate, FinishDelete, FinishChange,
       FinishWipe, Exit, Issue, ConsumeRead, Spend, Apply, WriteFails, At
  <2>8. QED
    BY <2>2, <2>3, <2>4, <2>5, <2>6, <2>7
<1>7. CASE OtherWrite \/ UNCHANGED vars \/ \E l \in Links : Expire(l)
  <2>1. \A s \in Requests : Alike(req'[s], req[s])
    BY <1>7, Staled, SameAlike DEF OtherWrite, Expire, vars, Typed, TypeOK
  <2>2. QED
    BY <1>2, <2>1 DEF HeldInv
<1>8. CASE Restart
  BY <1>8, RecordTypes DEF Restart, HeldInv
<1>9. QED
  BY <1>6, <1>7, <1>8 DEF Next

LEMMA HeldAlways == Spec => []HeldInv
<1>1. Init => HeldInv
  BY RecordTypes DEF Init, HeldInv
<1>2. QED
  BY <1>1, HeldInvStep, TypedAlways, UseAlways, PTL DEF Spec

\* The rows that requests in a stage may write, of any state of the requests.
RowsOf(rq, st) == {<<rq[r].user, rq[r].admin>> : r \in {r \in Requests : rq[r].stage = st}}

LEMMA RowsKept ==
  ASSUME NEW x, NEW y, NEW st,
         \A s \in Requests : y[s].stage = st =>
           x[s].stage = st /\ x[s].user = y[s].user /\ x[s].admin = y[s].admin
  PROVE  /\ RowsOf(y, st) \subseteq RowsOf(x, st)
         /\ (\A s \in Requests : x[s].stage = st => y[s].stage = st)
              => RowsOf(y, st) = RowsOf(x, st)
  BY DEF RowsOf

LEMMA OneRow ==
  ASSUME NEW x, NEW st, NEW r \in Requests,
         \A s \in Requests \ {r} : x[s].stage # st
  PROVE  RowsOf(x, st) = IF x[r].stage = st THEN {<<x[r].user, x[r].admin>>} ELSE {}
  BY DEF RowsOf

LEMMA RowsAre ==
  /\ Blind = RowsOf(req, "blind") /\ Blind' = RowsOf(req', "blind")
  /\ Returning = {x \in RowsOf(req, "update") : x[1] \notin accounts}
  /\ Returning' = {x \in RowsOf(req', "update") : x[1] \notin accounts'}
  BY DEF Blind, Returning, Rows, RowsOf, At

LEMMA MailedKept ==
  ASSUME \A l \in Links : SameLetter(l)
  PROVE  Mailed' = Mailed
  BY DEF Mailed, SameLetter

\* Steps that write nothing may give up what was about to be written.
LEMMA QuietBook ==
  ASSUME Quiet, UNCHANGED <<verified, used, Mailed>>
  PROVE  Book!Forget
<1>1. \A st \in {"blind", "update"} : RowsOf(req', st) \subseteq RowsOf(req, st)
  BY RowsKept DEF Quiet, Pending, Locked, Alike
<1>2. Blind' \subseteq Blind /\ Returning' \subseteq Returning
  BY <1>1, RowsAre DEF Quiet
<1>3. QED
  BY <1>2 DEF Book!Forget, Book!links, Quiet

LEMMA BeginBook ==
  ASSUME Typed, NEW r \in Requests, NEW u \in Users, Begins(r, u),
         UNCHANGED Mailed
  PROVE  Book!Forget \/ \E admin \in BOOLEAN : Book!LookFails(u, admin)
<1>1. /\ UNCHANGED <<accounts, admins, overlapped>>
      /\ req'[r].user = u
      /\ \A s \in Requests \ {r} : req'[s] = req[s]
  BY BeginEffect
<1>2. UNCHANGED <<verified, used>>
  BY DEF Begins, BeginCreate, BeginBlindly, BeginDelete, BeginChange, BeginWipe,
     Enter, table
<1>3. Returning' \subseteq Returning
  <2>1. ASSUME NEW s \in Requests, req'[s].stage = "update",
               req'[s].user \notin accounts
        PROVE  req[s].stage = "update" /\ req'[s] = req[s]
    <3>1. s # r
      BY <1>1, <2>1, BeginEffect DEF Removing
    <3>2. QED
      BY <1>1, <2>1, <3>1
  <2>2. QED
    BY <1>1, <2>1, RowsAre DEF RowsOf
<1>4. CASE req'[r].stage # "blind"
  <2>1. Blind' \subseteq Blind
    BY <1>1, <1>4, RowsKept, RowsAre
  <2>2. QED
    BY <1>1, <1>2, <1>3, <2>1 DEF Book!Forget, Book!links
<1>5. CASE req'[r].stage = "blind"
  <2>1. /\ EnvAdmin \/ req'[r].admin
        /\ lock = Nobody /\ req[r].stage = "idle"
    <3>1. ASSUME BeginWipe(r, u)
          PROVE  FALSE
      <4>1. "wipe" \in Stage
        BY DEF Stage
      <4>2. PICK a \in BOOLEAN : a = FALSE
        OBVIOUS
      <4>3. Doing("wipe", u, a) \in Request /\ Doing("wipe", u, a).stage = "wipe"
        BY <4>1, RecordTypes
      <4>4. Continue(r, Doing("wipe", u, a))
        BY <3>1, <4>2 DEF BeginWipe
      <4>5. QED
        BY <1>5, <4>3, <4>4, Continued DEF Typed
    <3>2. EnvAdmin \/ req'[r].admin
      BY <1>5, BeginEffect DEF Removing
    <3>3. QED
      BY <3>1, <3>2 DEF Begins, BeginCreate, BeginBlindly, BeginDelete,
         BeginChange, Enter, At
  <2>2. \A s \in Requests \ {r} : req'[s].stage # "blind"
    BY <1>1, <2>1, AccountsAssumption DEF Typed, Shape, Locked
  <2>3. Blind' = {<<u, req'[r].admin>>}
    BY <1>1, <1>5, <2>2, OneRow, RowsAre
  <2>4. RowsOf(req', "update") = RowsOf(req, "update")
    BY <1>1, <1>5, <2>1, RowsKept
  <2>5. Returning' = Returning
    BY <1>1, <2>4, RowsAre
  <2>6. req'[r].admin \in BOOLEAN
    BY TypedStep, ReqTypes DEF Next, Step, Begins, Typed, TypeOK, Request
  <2>7. QED
    BY <1>1, <1>2, <2>1, <2>3, <2>5, <2>6 DEF Book!LookFails, Book!links
<1>6. QED
  BY <1>4, <1>5

LEMMA EndBook ==
  ASSUME Typed, AccountInv, AdminInv, NEW r \in Requests, Ends(r),
         UNCHANGED Mailed
  PROVE  LET u == req[r].user
             a == req[r].admin
         IN  \/ Book!SignUp(u, a) \/ Book!TakeOver(u, a) \/ Book!Return(u, a)
             \/ Book!Remove(u) \/ Book!Forget
<1> DEFINE u == req[r].user
           a == req[r].admin
<1>1. /\ u \in Users /\ a \in BOOLEAN /\ overlapped \in BOOLEAN
      /\ req'[r].stage = "idle" /\ used' = used
      /\ \A s \in Requests \ {r} : Alike(req'[s], req[s])
  BY EndEffect, ReqTypes DEF Ends, FinishCreate, FinishDelete, FinishChange,
     FinishWipe, Exit, Typed, TypeOK
<1>2. ASSUME req[r].stage \in Locked
      PROVE  /\ \A st \in Locked : RowsOf(req', st) = {}
             /\ \A st \in Locked : RowsOf(req, st) =
                  IF req[r].stage = st THEN {<<u, a>>} ELSE {}
  <2>1. \A s \in Requests \ {r} : req[s].stage \notin Locked
    BY <1>2 DEF Typed, Shape
  <2>2. \A s \in Requests : req'[s].stage \notin Locked
    BY <1>1, <2>1 DEF Alike, Locked
  <2>3. \A st \in Locked : RowsOf(req', st) = {}
    BY <2>2 DEF RowsOf
  <2>4. \A st \in Locked : RowsOf(req, st) =
          IF req[r].stage = st THEN {<<u, a>>} ELSE {}
    BY <2>1, OneRow
  <2>5. QED
    BY <2>3, <2>4
<1>3. admins \subseteq accounts
  BY DEF Typed, TypeOK
<1>4. CASE req[r].stage \in {"insert", "blind", "update"}
  <2>1. Blind' = {} /\ Returning' = {}
    BY <1>2, <1>4, RowsAre DEF Locked
  <2>2. Upsert(u, a)
    BY <1>4, EndEffect DEF Removing
  <2>3. Book!Put(u, a)
    BY <1>1, <2>2 DEF Upsert, Book!Put, Book!links
  <2>4. CASE req[r].stage = "insert"
    <3>1. Blind = {} /\ Returning = {}
      BY <1>2, <2>4, RowsAre DEF Locked
    <3>2. u \notin accounts
      BY <2>4 DEF AccountInv, At
    <3>3. Book!Founds(a)
      BY <1>3, <2>4 DEF AdminInv, At, Book!Founds, Book!Excused
    <3>4. QED
      BY <2>1, <2>3, <3>1, <3>2, <3>3 DEF Book!SignUp
  <2>5. CASE req[r].stage = "blind"
    <3>1. Blind = {<<u, a>>} /\ Returning = {}
      BY <1>2, <2>5, RowsAre DEF Locked
    <3>2. QED
      BY <2>1, <2>3, <3>1 DEF Book!TakeOver
  <2>6. CASE req[r].stage = "update" /\ u \in accounts
    <3>1. u \in admins <=> a
      BY <2>6 DEF AccountInv, At
    <3>2. accounts' = accounts /\ admins' = admins
      BY <2>2, <2>6, <3>1 DEF Upsert
    <3>3. QED
      BY <1>1, <2>1, <2>2, <3>2 DEF Upsert, Book!Forget, Book!links
  <2>7. CASE req[r].stage = "update" /\ u \notin accounts
    <3>1. Blind = {} /\ RowsOf(req, "update") = {<<u, a>>}
      BY <1>2, <2>7, RowsAre DEF Locked
    <3>2. <<u, a>> \in Returning
      BY <2>7, <3>1, RowsAre
    <3>3. Book!Founds(a)
      BY <1>3, <2>7 DEF AdminInv, At, Book!Founds, Book!Excused
    <3>4. QED
      BY <2>1, <2>3, <3>1, <3>2, <3>3 DEF Book!Return
  <2>8. QED
    BY <1>4, <2>4, <2>5, <2>6, <2>7
<1>5. CASE req[r].stage \in Removing
  <2>1. Remove(r, u)
    BY <1>5, EndEffect DEF Removing
  <2>2. Book!Removable(u)
    BY <1>5 DEF AdminInv, Book!Removable, Book!Excused
  <2>3. overlapped' \in {overlapped, TRUE}
    BY <1>1, <2>1 DEF Remove
  <2>4. \A s \in Requests : req[s].stage \in {"blind", "update"} => s # r
    BY <1>5 DEF Removing
  <2>5. \A st \in {"blind", "update"} : RowsOf(req', st) = RowsOf(req, st)
    BY <1>1, <2>4, RowsKept DEF Alike
  <2>6. Blind' = Blind
    BY <2>5, RowsAre
  <2>7. ASSUME NEW x \in Returning'
        PROVE  x \in Returning \cup {<<w, w \in admins>> : w \in {u} \cap accounts}
    <3>1. x \in RowsOf(req, "update") /\ x[1] \notin accounts'
      BY <2>5, RowsAre
    <3>2. PICK s \in Requests : req[s].stage = "update"
                                /\ x = <<req[s].user, req[s].admin>>
      BY <3>1 DEF RowsOf
    <3>3. CASE req[s].user \in accounts
      <4>1. req[s].user = u
        BY <2>1, <3>1, <3>2, <3>3 DEF Remove
      <4>2. req[s].admin \in BOOLEAN /\ (req[s].user \in admins <=> req[s].admin)
        BY <3>2, <3>3, ReqTypes DEF AccountInv, At, Typed
      <4>3. req[s].admin = (u \in admins)
        BY <4>1, <4>2, SMT
      <4>4. QED
        BY <3>2, <3>3, <4>1, <4>3
    <3>4. CASE req[s].user \notin accounts
      BY <3>1, <3>2, <3>4, RowsAre
    <3>5. QED
      BY <3>3, <3>4
  <2>8. QED
    BY <1>1, <2>1, <2>2, <2>3, <2>6, <2>7 DEF Remove, Book!Remove, Book!links
<1>6. QED
  BY <1>4, <1>5, EndEffect

LEMMA IssueBook ==
  ASSUME Typed, UseInv, NEW r \in Requests, Issue(r)
  PROVE  /\ req[r].user \in Users /\ req[r].link \in Links /\ req[r].kind \in Kind
         /\ Book!Mail(req[r].link, req[r].user, req[r].kind)
<1> DEFINE u == req[r].user
           k == req[r].kind
           n == req[r].link
<1>1. u \in Users /\ n \in Links /\ k \in Kind
  BY ReqTypes DEF Issue, At, Typed, Shape
<1>2. link[n].state = "new"
  BY DEF Issue, UseInv, Claim
<1>3. /\ link'[n].owner = u /\ link'[n].kind = k /\ link'[n].state = "live"
      /\ UNCHANGED <<table, used, overlapped>>
  BY <1>1 DEF Issue
<1>4. \A l \in Links \ {n} : SameLetter(l)
  BY IssueLetters
<1>5. \A x \in Mailed : x[1] # n
  BY <1>2 DEF Mailed
<1>6. Mailed' = Mailed \cup {<<n, u, k>>}
  BY <1>1, <1>2, <1>3, <1>4 DEF Mailed, SameLetter
<1>7. Idle \in Request /\ Idle.stage = "idle"
  BY RecordTypes
<1>8. req'[r].stage = "idle" /\ \A s \in Requests \ {r} : Alike(req'[s], req[s])
  BY <1>7, Written DEF Issue, Typed
<1>9. \A st \in {"blind", "update"} : RowsOf(req', st) = RowsOf(req, st)
  BY <1>8, RowsKept DEF Alike, Issue, At
<1>10. Blind' = Blind /\ Returning' = Returning
  BY <1>3, <1>9, RowsAre DEF table
<1>11. QED
  BY <1>1, <1>3, <1>5, <1>6, <1>10 DEF Book!Mail, table

LEMMA ApplyBook ==
  ASSUME Typed, UseInv, HeldInv, NEW r \in Requests, Apply(r),
         req[r].user \in accounts
  PROVE  /\ req[r].user \in Users /\ req[r].link \in Links /\ req[r].kind \in Kind
         /\ Book!Redeem(req[r].link, req[r].user, req[r].kind)
<1> DEFINE u == req[r].user
           k == req[r].kind
           n == req[r].link
<1>1. u \in Users /\ n \in Links /\ k \in Kind
  BY ReqTypes DEF Apply, At, Typed, Shape
<1>2. <<n, u, k>> \in Mailed
  BY <1>1 DEF Apply, At, HeldInv, Mailed
<1>3. used[n] = 0
  BY DEF Apply, UseInv, Claim
<1>4. /\ used' = [used EXCEPT ![n] = 1]
      /\ verified' = IF k = "email_verify" THEN verified \cup {u} ELSE verified
      /\ UNCHANGED <<accounts, admins, link, overlapped>>
  <2>1. used' = [used EXCEPT ![n] = used[n] + 1]
    BY DEF Apply
  <2>2. used[n] + 1 = 1
    BY <1>3
  <2>3. QED
    BY <2>1, <2>2 DEF Apply
<1>5. Idle \in Request /\ Idle.stage = "idle"
  BY RecordTypes
<1>6. req'[r].stage = "idle" /\ \A s \in Requests \ {r} : Alike(req'[s], req[s])
  BY <1>5, Written DEF Apply, Typed
<1>7. \A st \in {"blind", "update"} : RowsOf(req', st) = RowsOf(req, st)
  BY <1>6, RowsKept DEF Alike, Apply, At
<1>8. UNCHANGED <<Mailed, Blind, Returning>>
  BY <1>4, <1>7, RowsAre DEF Mailed
<1>9. QED
  BY <1>1, <1>2, <1>3, <1>4, <1>8 DEF Book!Redeem

LEMMA BookStep ==
  ASSUME Typed, AccountInv, AdminInv, UseInv, HeldInv, [Next]_vars
  PROVE  Book!Next
<1>1. ASSUME NEW r \in Requests, Issue(r)
      PROVE  Book!Next
  BY <1>1, IssueBook DEF Book!Next, Kind, Book!Kind
<1>2. ASSUME ~ \E r \in Requests : Issue(r)
      PROVE  Mailed' = Mailed
  BY <1>2, LettersKept, MailedKept
<1>3. ASSUME ~ \E r \in Requests : Issue(r),
             NEW r \in Requests, NEW u \in Users, Begins(r, u)
      PROVE  Book!Next
  <2>1. Book!Forget \/ \E admin \in BOOLEAN : Book!LookFails(u, admin)
    BY <1>2, <1>3, BeginBook
  <2>2. QED
    BY <2>1 DEF Book!Next
<1>4. ASSUME ~ \E r \in Requests : Issue(r), NEW r \in Requests, Ends(r)
      PROVE  Book!Next
  <2>1. PICK u, a : u = req[r].user /\ a = req[r].admin
    OBVIOUS
  <2>2. u \in Users /\ a \in BOOLEAN
    BY <1>4, <2>1, EndEffect, ReqTypes DEF Typed
  <2>3. \/ Book!SignUp(u, a) \/ Book!TakeOver(u, a) \/ Book!Return(u, a)
        \/ Book!Remove(u) \/ Book!Forget
    BY <1>2, <1>4, <2>1, EndBook
  <2>4. QED
    BY <2>2, <2>3 DEF Book!Next
<1>5. ASSUME NEW r \in Requests, Apply(r), req[r].user \in accounts
      PROVE  Book!Next
  BY <1>5, ApplyBook DEF Book!Next, Kind, Book!Kind
<1>6. \/ UNCHANGED <<verified, used>>
      \/ \E r \in Requests : Apply(r) \/ Ends(r)
  <2>1. ASSUME NEW r \in Requests, Step(r)
        PROVE  UNCHANGED <<verified, used>> \/ Apply(r) \/ Ends(r)
    BY <2>1 DEF Step, BeginCreate, BeginBlindly, BeginDelete, BeginChange,
       BeginWipe, BeginIssue, Enter, Issue, Peek, VerifyRead, ConsumeRead, Spend,
       WriteFails, Ends, table
  <2>2. QED
    BY <2>1 DEF Next, Expire, OtherWrite, Restart, vars, table
<1>7. ASSUME NEW r \in Requests, Apply(r), req[r].user \notin accounts
      PROVE  UNCHANGED <<verified, used>>
  BY <1>7 DEF Apply
<1>8. CASE ~ \E r \in Requests : \/ Issue(r) \/ Ends(r)
                                 \/ Apply(r) /\ req[r].user \in accounts
                                 \/ \E u \in Users : Begins(r, u)
  <2>1. Quiet
    BY <1>8, StepKinds
  <2>2. UNCHANGED <<verified, used, Mailed>>
    BY <1>2, <1>6, <1>7, <1>8
  <2>3. Book!Forget
    BY <2>1, <2>2, QuietBook
  <2>4. QED
    BY <2>3 DEF Book!Next
<1>9. QED
  BY <1>1, <1>3, <1>4, <1>5, <1>8

(* The account store with its lock, its unlocked requests and its mailed    *)
(* links implements AccountBook: a step of a request is a step of the store *)
(* as a whole, or none that the store shows.                                *)
THEOREM Refinement == Spec => ImplementsBook
<1>1. Init => Book!Init
  <2>1. ASSUME Init
        PROVE  Mailed = {} /\ RowsOf(req, "blind") = {} /\ RowsOf(req, "update") = {}
    BY <2>1, RecordTypes DEF Init, Mailed, RowsOf
  <2>2. QED
    BY <2>1, RowsAre DEF Init, Book!Init
<1>2. Typed /\ AccountInv /\ AdminInv /\ UseInv /\ HeldInv /\ [Next]_vars
        => [Book!Next]_Book!vars
  BY BookStep
<1>3. QED
  BY <1>1, <1>2, TypedAlways, AccountAlways, AdminAlways, UseAlways, HeldAlways,
     PTL DEF Spec, ImplementsBook, Book!Spec
=============================================================================
