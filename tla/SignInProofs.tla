---------------------------- MODULE SignInProofs ----------------------------
(***************************************************************************)
(* Proofs about SignIn, for any number of browsers, sessions, secrets,     *)
(* backup codes and passwords.                                             *)
(***************************************************************************)
EXTENDS SignIn, TLAPS

-----------------------------------------------------------------------------
(* Requests and cookies.                                                    *)

\* x is y, perhaps marked as late or as stale since.
Marked(x, y) ==
  /\ x \in DeviceRequest
  /\ x.stage = y.stage /\ x.since = y.since /\ x.key = y.key
  /\ (y.late => x.late) /\ (y.stale => x.stale)

\* d's request becomes x; those of the others are marked at most.
Becomes(d, x) ==
  /\ inflight' \in [Devices -> DeviceRequest] /\ inflight'[d] = x
  /\ \A e \in Devices \ {d} : Marked(inflight'[e], inflight[e])

\* The requests a handler starts with, and the cookies it leaves.
LEMMA Made ==
  /\ NoRequest \in DeviceRequest /\ NoRequest.stage = "idle"
  /\ \A st \in DeviceStage, n \in 0..MaxPassword, l \in BOOLEAN,
        k \in Secrets \cup Codes \cup {None} :
       LET x == Asking(st, n, k, l)
       IN  /\ x \in DeviceRequest /\ x.stage = st /\ x.since = n /\ x.late = l
           /\ x.key = k
  /\ NoCookie \in Cookie /\ NoCookie.level = "none" /\ NoCookie.sid = None
  /\ \A v \in {"half", "full"}, s \in Sids \cup {None},
        n \in 0..MaxPassword, l \in BOOLEAN :
       LET x == Holding(v, s, n, l)
       IN  /\ x \in Cookie /\ x.level = v /\ x.sid = s /\ x.since = n
           /\ x.late = l
  BY SignInAssumption
     DEF NoRequest, Asking, DeviceRequest, DeviceStage, NoCookie, Holding, Cookie

\* A request that goes on to another stage.
LEMMA GoesOn ==
  ASSUME NEW y \in DeviceRequest, NEW st \in DeviceStage
  PROVE  LET x == [y EXCEPT !.stage = st]
         IN  /\ x \in DeviceRequest /\ x.stage = st /\ x.since = y.since
             /\ x.late = y.late /\ x.key = y.key
  BY DEF DeviceRequest

LEMMA Fields ==
  ASSUME SignInTypeOK, NEW d \in Devices
  PROVE  /\ inflight[d] \in DeviceRequest /\ inflight[d].stage \in DeviceStage
         /\ inflight[d].since \in 0..MaxPassword /\ inflight[d].late \in BOOLEAN
         /\ inflight[d].key \in Secrets \cup Codes \cup {None}
         /\ inflight[d].stale \in BOOLEAN
         /\ cookie[d] \in Cookie /\ cookie[d].since \in 0..MaxPassword
         /\ cookie[d].late \in BOOLEAN /\ cookie[d].sid \in Sids \cup {None}
         /\ Marked(inflight[d], inflight[d])
  BY DEF SignInTypeOK, DeviceRequest, Cookie, Marked

LEMMA Begun ==
  ASSUME SignInTypeOK, NEW d \in Devices, NEW x \in DeviceRequest, Begin(d, x)
  PROVE  /\ Becomes(d, x)
         /\ \A e \in Devices \ {d} : inflight'[e] = inflight[e]
<1>1. inflight' = [inflight EXCEPT ![d] = x]
  BY DEF Begin
<1>2. /\ inflight' \in [Devices -> DeviceRequest] /\ inflight'[d] = x
      /\ \A e \in Devices \ {d} : inflight'[e] = inflight[e]
  BY <1>1 DEF SignInTypeOK
<1>3. QED
  BY <1>2, Fields DEF Becomes

\* A step that leaves the requests as they are.
LEMMA Unmoved ==
  ASSUME SignInTypeOK, NEW d \in Devices, UNCHANGED inflight
  PROVE  Becomes(d, inflight[d])
  BY Fields DEF Becomes, SignInTypeOK

\* What a write to totp_secrets does to the requests r.
LEMMA Staled ==
  ASSUME NEW r \in [Devices -> DeviceRequest], NEW d \in Devices
  PROVE  /\ Staling(d, r) \in [Devices -> DeviceRequest]
         /\ Staling(d, r)[d] = r[d]
         /\ \A e \in Devices \ {d} :
              /\ Marked(Staling(d, r)[e], r[e])
              /\ r[e].stage = "spend" => Staling(d, r)[e].stale
<1>1. ASSUME NEW y \in DeviceRequest
      PROVE  Marked(y, y) /\ Marked([y EXCEPT !.stale = TRUE], y)
             /\ [y EXCEPT !.stale = TRUE].stale
  BY DEF Marked, DeviceRequest
<1>2. ASSUME NEW e \in Devices
      PROVE  /\ Staling(d, r)[e] \in DeviceRequest
             /\ e = d => Staling(d, r)[e] = r[e]
             /\ e # d => /\ Marked(Staling(d, r)[e], r[e])
                         /\ r[e].stage = "spend" => Staling(d, r)[e].stale
  <2>1. r[e] \in DeviceRequest
    OBVIOUS
  <2>2. Staling(d, r)[e] = IF e # d /\ r[e].stage = "spend"
                           THEN [r[e] EXCEPT !.stale = TRUE] ELSE r[e]
    BY DEF Staling
  <2>3. CASE e # d /\ r[e].stage = "spend"
    BY <1>1, <2>1, <2>2, <2>3 DEF Marked
  <2>4. CASE ~(e # d /\ r[e].stage = "spend")
    BY <1>1, <2>1, <2>2, <2>4
  <2>5. QED
    BY <2>3, <2>4
<1>3. Staling(d, r) = [e \in Devices |-> Staling(d, r)[e]]
  BY DEF Staling
<1>4. QED
  BY <1>2, <1>3

\* A handler that writes totp_secrets and whose request becomes x.
LEMMA Wrote ==
  ASSUME SignInTypeOK, NEW d \in Devices, NEW x \in DeviceRequest,
         inflight' = Staling(d, [inflight EXCEPT ![d] = x])
  PROVE  /\ Becomes(d, x)
         /\ \A e \in Devices \ {d} : inflight[e].stage = "spend" => inflight'[e].stale
<1> DEFINE r == [inflight EXCEPT ![d] = x]
<1>1. /\ r \in [Devices -> DeviceRequest] /\ r[d] = x
      /\ \A e \in Devices \ {d} : r[e] = inflight[e]
  BY DEF SignInTypeOK
<1>2. inflight' = Staling(d, r)
  OBVIOUS
<1> HIDE DEF r
<1>3. /\ inflight' \in [Devices -> DeviceRequest] /\ inflight'[d] = r[d]
      /\ \A e \in Devices \ {d} :
           /\ Marked(inflight'[e], r[e])
           /\ r[e].stage = "spend" => inflight'[e].stale
  BY <1>1, <1>2, Staled
<1>4. QED
  BY <1>1, <1>3 DEF Becomes

\* The same for a handler whose request stays what it is.
LEMMA WroteOn ==
  ASSUME SignInTypeOK, NEW d \in Devices, inflight' = Staling(d, inflight)
  PROVE  /\ Becomes(d, inflight[d])
         /\ \A e \in Devices \ {d} : inflight[e].stage = "spend" => inflight'[e].stale
<1>1. inflight \in [Devices -> DeviceRequest]
  BY DEF SignInTypeOK
<1>2. QED
  BY <1>1, Staled DEF Becomes

\* What deleting the other sessions does to those who are signing in.
LEMMA Overtaken ==
  ASSUME SignInTypeOK, NEW d \in Devices, NEW stages, NEW own \in Cookie,
         Overtake(d, stages, own)
  PROVE  /\ Becomes(d, NoRequest)
         /\ \A e \in Devices \ {d} :
              /\ inflight[e].stage = "spend" => inflight'[e].stale
              /\ inflight[e].stage \in stages => inflight'[e].late
         /\ cookie' \in [Devices -> Cookie] /\ cookie'[d] = own
         /\ \A e \in Devices \ {d} :
              /\ cookie'[e].level = cookie[e].level
              /\ cookie'[e].sid = cookie[e].sid
              /\ cookie'[e].since = cookie[e].since
              /\ cookie[e].late => cookie'[e].late
              /\ cookie[e].level = "half" => cookie'[e].late
<1> DEFINE r == [e \in Devices |->
                   IF e = d THEN NoRequest
                   ELSE IF inflight[e].stage \in stages THEN [inflight[e] EXCEPT !.late = TRUE]
                   ELSE inflight[e]]
<1>1. inflight' = Staling(d, r)
  BY DEF Overtake
<1>2. ASSUME NEW e \in Devices
      PROVE  /\ r[e] \in DeviceRequest
             /\ e = d => r[e] = NoRequest
             /\ e # d => /\ Marked(r[e], inflight[e])
                         /\ inflight[e].stage \in stages => r[e].late
  <2>1. inflight[e] \in DeviceRequest
    BY DEF SignInTypeOK
  <2>2. Marked(inflight[e], inflight[e]) /\ Marked([inflight[e] EXCEPT !.late = TRUE], inflight[e])
        /\ [inflight[e] EXCEPT !.late = TRUE].late
    BY <2>1 DEF Marked, DeviceRequest
  <2>3. CASE e = d
    BY <2>3, Made
  <2>4. CASE e # d /\ inflight[e].stage \in stages
    BY <2>2, <2>4 DEF Marked
  <2>5. CASE e # d /\ inflight[e].stage \notin stages
    BY <2>1, <2>2, <2>5
  <2>6. QED
    BY <2>3, <2>4, <2>5
<1>3. r \in [Devices -> DeviceRequest]
  BY <1>2
<1>4. /\ inflight' \in [Devices -> DeviceRequest] /\ inflight'[d] = r[d]
      /\ \A e \in Devices \ {d} :
           /\ Marked(inflight'[e], r[e])
           /\ r[e].stage = "spend" => inflight'[e].stale
  BY <1>1, <1>3, Staled
<1>5. ASSUME NEW e \in Devices \ {d}
      PROVE  /\ Marked(inflight'[e], inflight[e])
             /\ inflight[e].stage = "spend" => inflight'[e].stale
             /\ inflight[e].stage \in stages => inflight'[e].late
  <2> HIDE DEF r
  <2>1. Marked(r[e], inflight[e]) /\ Marked(inflight'[e], r[e])
    BY <1>2, <1>4
  <2>2. QED
    BY <1>2, <1>4, <2>1 DEF Marked
<1>6. Becomes(d, NoRequest)
  BY <1>2, <1>4, <1>5 DEF Becomes
<1>7. ASSUME NEW e \in Devices
      PROVE  /\ cookie'[e] \in Cookie
             /\ e = d => cookie'[e] = own
             /\ e # d => /\ cookie'[e].level = cookie[e].level
                         /\ cookie'[e].sid = cookie[e].sid
                         /\ cookie'[e].since = cookie[e].since
                         /\ cookie[e].late => cookie'[e].late
                         /\ cookie[e].level = "half" => cookie'[e].late
  <2>1. cookie[e] \in Cookie
    BY DEF SignInTypeOK
  <2>2. cookie'[e] = IF e = d THEN own
                     ELSE IF cookie[e].level = "half"
                     THEN [cookie[e] EXCEPT !.late = TRUE] ELSE cookie[e]
    BY DEF Overtake
  <2>3. LET x == [cookie[e] EXCEPT !.late = TRUE]
        IN  /\ x \in Cookie /\ x.level = cookie[e].level /\ x.sid = cookie[e].sid
            /\ x.since = cookie[e].since /\ x.late
    BY <2>1 DEF Cookie
  <2>4. QED
    BY <2>1, <2>2, <2>3
<1>8. cookie' = [e \in Devices |-> cookie'[e]]
  BY DEF Overtake
<1>9. cookie' \in [Devices -> Cookie]
  BY <1>7, <1>8
<1>10. QED
  BY <1>5, <1>6, <1>7, <1>9

LEMMA RevokedRows ==
  ASSUME SignInTypeOK, NEW keep, RevokeBut(keep)
  PROVE  /\ row' \in [Sids -> RowState]
         /\ \A s \in Sids : /\ row'[s] = "new" <=> row[s] = "new"
                            /\ row'[s] = "live" => row[s] = "live" /\ s \in keep
  BY DEF SignInTypeOK, RevokeBut, RowState

-----------------------------------------------------------------------------
(* Types.                                                                   *)

\* What a step of d does to requests and cookies is of the right type.
LEMMA LoginTyped ==
  ASSUME SignInTypeOK, NEW d \in Devices
  PROVE  /\ VerifyRight(d) \/ Gate(d) \/ CreateSession(d) \/ SignUp(d) => SignInTypeOK'
         /\ EnterCode(d) => SignInTypeOK'
         /\ \A c \in Codes : BeginSpend(d, c) => SignInTypeOK'
<1>1. /\ {"gate", "create", "spend"} \subseteq DeviceStage /\ password \in 0..MaxPassword
      /\ None \in Secrets \cup Codes \cup {None}
  BY DEF DeviceStage, LoggingIn, SignInTypeOK
<1>2. ASSUME VerifyRight(d) PROVE SignInTypeOK'
  <2>1. Begin(d, Asking("gate", password, None, FALSE))
        /\ UNCHANGED <<account, row, totp, mutex, cookie, hist>>
    BY <1>2 DEF VerifyRight
  <2>2. inflight' \in [Devices -> DeviceRequest]
    BY <1>1, <2>1, Made, Begun DEF Becomes
  <2>3. QED
    BY <2>1, <2>2 DEF SignInTypeOK, account
<1>3. ASSUME Gate(d) PROVE SignInTypeOK'
  <2>1. UNCHANGED <<account, row, totp, mutex, hist>>
    BY <1>3 DEF Gate
  <2>2. CASE /\ Done(d)
             /\ cookie' = [cookie EXCEPT ![d] =
                  Holding("half", None, inflight[d].since, inflight[d].late)]
    <3>1. Holding("half", None, inflight[d].since, inflight[d].late) \in Cookie
      BY Made, Fields
    <3>2. cookie' \in [Devices -> Cookie]
      BY <2>2, <3>1 DEF SignInTypeOK
    <3>3. inflight' \in [Devices -> DeviceRequest]
      BY <2>2, Made, Begun DEF Done, Becomes
    <3>4. QED
      BY <2>1, <3>2, <3>3 DEF SignInTypeOK, account
  <2>3. CASE Go(d, "create") /\ UNCHANGED cookie
    <3>1. [inflight[d] EXCEPT !.stage = "create"] \in DeviceRequest
      BY <1>1, Fields, GoesOn
    <3>2. inflight' \in [Devices -> DeviceRequest]
      BY <2>3, <3>1 DEF SignInTypeOK, Go
    <3>3. QED
      BY <2>1, <2>3, <3>2 DEF SignInTypeOK, account
  <2>4. QED
    BY <1>3, <2>2, <2>3 DEF Gate
<1>4. ASSUME CreateSession(d) PROVE SignInTypeOK'
  <2>1. Done(d) /\ UNCHANGED <<account, totp, mutex, hist>>
    BY <1>4 DEF CreateSession
  <2>2. PICK s \in Sids \cup {None} : cookie' = [cookie EXCEPT ![d] = FullCookie(d, s)]
    BY <1>4 DEF CreateSession
  <2>3. FullCookie(d, s) \in Cookie
    BY Made, Fields DEF FullCookie
  <2>4. cookie' \in [Devices -> Cookie]
    BY <2>2, <2>3 DEF SignInTypeOK
  <2>5. row' \in [Sids -> RowState]
    BY <1>4 DEF CreateSession, SignInTypeOK, RowState
  <2>6. inflight' \in [Devices -> DeviceRequest]
    BY <2>1, Made, Begun DEF Done, Becomes
  <2>7. QED
    BY <2>1, <2>4, <2>5, <2>6 DEF SignInTypeOK, account
<1>5. ASSUME SignUp(d) PROVE SignInTypeOK'
  <2>1. /\ exists' = TRUE /\ password' = password + 1 /\ password < MaxPassword
        /\ UNCHANGED <<row, totp, mutex, inflight, hist>>
    BY <1>5 DEF SignUp
  <2>2. password' \in 0..MaxPassword
    BY <1>1, <2>1, SignInAssumption
  <2>3. Holding("full", None, password', FALSE) \in Cookie /\ NoCookie \in Cookie
    BY <2>2, Made
  <2>4. cookie' \in [Devices -> Cookie]
    BY <1>5, <2>3 DEF SignUp, SignInTypeOK
  <2>5. QED
    BY <2>1, <2>2, <2>4 DEF SignInTypeOK
<1>6. ASSUME EnterCode(d) PROVE SignInTypeOK'
  <2>1. UNCHANGED <<account, row, totp, mutex, cookie, hist>>
        /\ (Begin(d, Asking("create", cookie[d].since, None, cookie[d].late)) \/ UNCHANGED inflight)
    BY <1>6 DEF EnterCode
  <2>2. Asking("create", cookie[d].since, None, cookie[d].late) \in DeviceRequest
    BY <1>1, Fields, Made
  <2>3. inflight' \in [Devices -> DeviceRequest]
    BY <2>1, <2>2, Begun DEF Becomes, SignInTypeOK
  <2>4. QED
    BY <2>1, <2>3 DEF SignInTypeOK, account
<1>7. ASSUME NEW c \in Codes, BeginSpend(d, c) PROVE SignInTypeOK'
  <2>1. UNCHANGED <<account, row, totp, mutex, cookie, hist>>
        /\ Begin(d, Asking("spend", cookie[d].since, c, cookie[d].late))
    BY <1>7 DEF BeginSpend
  <2>2. Asking("spend", cookie[d].since, c, cookie[d].late) \in DeviceRequest
    BY <1>1, Fields, Made
  <2>3. inflight' \in [Devices -> DeviceRequest]
    BY <2>1, <2>2, Begun DEF Becomes, SignInTypeOK
  <2>4. QED
    BY <2>1, <2>3 DEF SignInTypeOK, account
<1>8. QED
  BY <1>2, <1>3, <1>4, <1>5, <1>6, <1>7

LEMMA FactorTyped ==
  ASSUME SignInTypeOK, NEW d \in Devices
  PROVE  /\ FinishSpend(d) \/ Enroll(d) \/ Disable(d) => SignInTypeOK'
         /\ BeginActivate(d) \/ FinishActivate(d) => SignInTypeOK'
<1>1. /\ {"create", "activate"} \subseteq DeviceStage /\ 0 \in 0..MaxPassword
      /\ totp \in Totp /\ hist \in History /\ NoTotp \in Totp
      /\ totp.secret \in Secrets \cup {None} /\ totp.codes \subseteq Codes
  BY SignInAssumption DEF DeviceStage, LoggingIn, SignInTypeOK, Totp, NoTotp
<1>2. ASSUME FinishSpend(d) PROVE SignInTypeOK'
  <2>1. UNCHANGED <<account, row, mutex, cookie>>
    BY <1>2 DEF FinishSpend
  <2>2. CASE Spent(d)
    <3>1. totp' \in Totp
      BY <1>1, <2>2 DEF Spent, Totp
    <3>2. hist' \in History
      BY <1>1, <2>2 DEF Spent, History
    <3>3. Asking("create", inflight[d].since, None, inflight[d].late) \in DeviceRequest
      BY <1>1, Fields, Made
    <3>4. inflight' \in [Devices -> DeviceRequest]
      BY <2>2, <3>3, Wrote DEF Spent, Becomes
    <3>5. QED
      BY <2>1, <3>1, <3>2, <3>4 DEF SignInTypeOK, account
  <2>3. CASE Done(d) /\ UNCHANGED <<totp, hist>>
    <3>1. inflight' \in [Devices -> DeviceRequest]
      BY <2>3, Made, Begun DEF Done, Becomes
    <3>2. QED
      BY <2>1, <2>3, <3>1 DEF SignInTypeOK, account
  <2>4. QED
    BY <1>2, <2>2, <2>3 DEF FinishSpend
<1>3. ASSUME Enroll(d) PROVE SignInTypeOK'
  <2>1. PICK k \in Secrets : totp' = [NoTotp EXCEPT !.secret = k]
    BY <1>3 DEF Enroll
  <2>2. totp' \in Totp
    BY <1>1, <2>1 DEF Totp
  <2>3. PICK b \in BOOLEAN : hist' = [hist EXCEPT !.crossed = b]
    <3>1. (hist.crossed \/ \E e \in Devices : Handling(e, "activate")) \in BOOLEAN
      OBVIOUS
    <3>2. QED
      BY <1>3, <3>1 DEF Enroll
  <2>4. hist' \in History
    BY <1>1, <2>3 DEF History
  <2>5. inflight' \in [Devices -> DeviceRequest]
    BY <1>3, WroteOn DEF Enroll, Becomes
  <2>6. QED
    BY <1>3, <2>2, <2>4, <2>5 DEF Enroll, SignInTypeOK, account
<1>4. ASSUME Disable(d) PROVE SignInTypeOK'
  <2>1. inflight' \in [Devices -> DeviceRequest]
    BY <1>4, WroteOn DEF Disable, Becomes
  <2>2. QED
    BY <1>1, <1>4, <2>1 DEF Disable, SignInTypeOK, account
<1>5. ASSUME BeginActivate(d) PROVE SignInTypeOK'
  <2>1. Asking("activate", 0, totp.secret, FALSE) \in DeviceRequest
    BY <1>1, Made
  <2>2. inflight' \in [Devices -> DeviceRequest]
    BY <1>5, <2>1, Begun DEF BeginActivate, Becomes
  <2>3. totp.secret \in Secrets
    BY <1>1, <1>5 DEF BeginActivate
  <2>4. hist' \in History
    BY <1>1, <1>5, <2>3 DEF BeginActivate, History
  <2>5. QED
    BY <1>5, <2>2, <2>4 DEF BeginActivate, SignInTypeOK, account
<1>6. ASSUME FinishActivate(d) PROVE SignInTypeOK'
  <2>1. totp' \in Totp
    <3>1. CASE totp' = totp
      BY <1>1, <3>1
    <3>2. CASE \E c \in Codes :
                 totp' = [secret |-> totp.secret, enabled |-> TRUE, codes |-> {c}]
      BY <1>1, <3>2 DEF Totp
    <3>3. QED
      BY <1>6, <3>1, <3>2 DEF FinishActivate
  <2>2. inflight' \in [Devices -> DeviceRequest]
    BY <1>6, Made, Wrote DEF FinishActivate, Becomes
  <2>3. QED
    BY <1>6, <2>1, <2>2 DEF FinishActivate, SignInTypeOK, account
<1>7. QED
  BY <1>2, <1>3, <1>4, <1>5, <1>6

LEMMA PasswordTyped ==
  ASSUME SignInTypeOK, NEW d \in Devices
  PROVE  /\ ChangePassword(d) \/ WriteChange(d) \/ ChangeFails(d) => SignInTypeOK'
         /\ RevokeOld(d) \/ Reset(d) \/ DeleteMe(d) => SignInTypeOK'
<1>1. /\ {"change", "revoke"} \subseteq DeviceStage
      /\ password \in 0..MaxPassword /\ password \in Nat /\ MaxPassword \in Nat
      /\ hist \in History /\ hist.cut \in 0..MaxPassword + 1 /\ NoTotp \in Totp
  BY SignInAssumption DEF DeviceStage, SignInTypeOK, History, Totp, NoTotp
<1>2. ASSUME ChangePassword(d) PROVE SignInTypeOK'
  <2>1. inflight' \in [Devices -> DeviceRequest]
    BY <1>1, <1>2, Made, Begun DEF ChangePassword, Becomes
  <2>2. QED
    BY <1>2, <2>1 DEF ChangePassword, SignInTypeOK, account
<1>3. ASSUME WriteChange(d) PROVE SignInTypeOK'
  <2>1. password' \in 0..MaxPassword /\ exists' = TRUE
    BY <1>1, <1>3 DEF WriteChange
  <2>2. Asking("revoke", password', None, FALSE) \in DeviceRequest
    BY <1>1, <2>1, Made
  <2>3. inflight' \in [Devices -> DeviceRequest]
    BY <1>3, <2>2 DEF WriteChange, SignInTypeOK
  <2>4. mutex' \in Devices \cup {None}
    BY <1>3 DEF WriteChange, SignInTypeOK
  <2>5. QED
    BY <1>3, <2>1, <2>3, <2>4 DEF WriteChange, SignInTypeOK
<1>4. ASSUME ChangeFails(d) PROVE SignInTypeOK'
  <2>1. inflight' \in [Devices -> DeviceRequest]
    BY <1>4, Made, Begun DEF ChangeFails, Done, Becomes
  <2>2. mutex' \in Devices \cup {None}
    BY <1>4 DEF ChangeFails, SignInTypeOK
  <2>3. QED
    BY <1>4, <2>1, <2>2 DEF ChangeFails, SignInTypeOK, account
<1>5. ASSUME RevokeOld(d) PROVE SignInTypeOK'
  <2>1. UNCHANGED <<account, totp, mutex>>
    BY <1>5 DEF RevokeOld
  <2>2. CASE Done(d) /\ UNCHANGED <<row, hist, cookie>>
    <3>1. inflight' \in [Devices -> DeviceRequest]
      BY <2>2, Made, Begun DEF Done, Becomes
    <3>2. QED
      BY <2>1, <2>2, <3>1 DEF SignInTypeOK, account
  <2>3. CASE /\ RevokeBut({cookie[d].sid})
             /\ hist' = [hist EXCEPT !.cut = IF @ > inflight[d].since THEN @ ELSE inflight[d].since]
             /\ Overtake(d, LoggingIn, [cookie[d] EXCEPT !.since = inflight[d].since])
    <3>1. [cookie[d] EXCEPT !.since = inflight[d].since] \in Cookie
      BY Fields DEF Cookie
    <3>2. inflight' \in [Devices -> DeviceRequest] /\ cookie' \in [Devices -> Cookie]
      BY <2>3, <3>1, Overtaken DEF Becomes
    <3>3. (IF hist.cut > inflight[d].since THEN hist.cut ELSE inflight[d].since)
            \in 0..MaxPassword + 1
      BY <1>1, Fields
    <3>4. hist' \in History
      BY <1>1, <2>3, <3>3 DEF History
    <3>5. QED
      BY <2>1, <2>3, <3>2, <3>4, RevokedRows DEF SignInTypeOK, account
  <2>4. QED
    BY <1>5, <2>2, <2>3 DEF RevokeOld
<1>6. ASSUME Reset(d) PROVE SignInTypeOK'
  <2>1. password' \in 0..MaxPassword
    BY <1>1, <1>6 DEF Reset
  <2>2. \A x \in DeviceRequest : [x EXCEPT !.late = TRUE] \in DeviceRequest
    BY DEF DeviceRequest
  <2>3. inflight' \in [Devices -> DeviceRequest]
    BY <1>6, <2>2 DEF Reset, SignInTypeOK
  <2>4. QED
    BY <1>6, <2>1, <2>3 DEF Reset, SignInTypeOK
<1>7. ASSUME DeleteMe(d) PROVE SignInTypeOK'
  <2>1. inflight' \in [Devices -> DeviceRequest] /\ cookie' \in [Devices -> Cookie]
    BY <1>7, Made, Overtaken DEF DeleteMe, Becomes
  <2>2. password + 1 \in 0..MaxPassword + 1
    BY <1>1
  <2>3. hist' \in History
    BY <1>1, <1>7, <2>2 DEF DeleteMe, History
  <2>4. QED
    BY <1>1, <1>7, <2>1, <2>3, RevokedRows DEF DeleteMe, SignInTypeOK
<1>8. QED
  BY <1>2, <1>3, <1>4, <1>5, <1>6, <1>7

LEMMA SessionTyped ==
  ASSUME SignInTypeOK
  PROVE  /\ \A d \in Devices : Logout(d) \/ Revoke(d) \/ Dropped(d) => SignInTypeOK'
         /\ \A s \in Sids : SessionExpires(s) => SignInTypeOK'
         /\ AdminDelete \/ ServerRestart => SignInTypeOK'
<1>1. ASSUME NEW d \in Devices, Logout(d) PROVE SignInTypeOK'
  <2>1. row' \in [Sids -> RowState]
    BY <1>1, RevokedRows DEF Logout, SignInTypeOK
  <2>2. QED
    BY <1>1, <2>1, Made DEF Logout, SignInTypeOK, account
<1>2. ASSUME NEW d \in Devices, Revoke(d) PROVE SignInTypeOK'
  <2>1. row' \in [Sids -> RowState]
    BY <1>2, RevokedRows DEF Revoke
  <2>2. QED
    BY <1>2, <2>1 DEF Revoke, SignInTypeOK, account
<1>3. ASSUME NEW d \in Devices, Dropped(d) PROVE SignInTypeOK'
  BY <1>3, Made DEF Dropped, SignInTypeOK, account
<1>4. ASSUME NEW s \in Sids, SessionExpires(s) PROVE SignInTypeOK'
  BY <1>4 DEF SessionExpires, SignInTypeOK, account, RowState
<1>5. ASSUME AdminDelete PROVE SignInTypeOK'
  BY <1>5 DEF AdminDelete, SignInTypeOK
<1>6. ASSUME ServerRestart PROVE SignInTypeOK'
  <2>1. cookie' \in [Devices -> Cookie] /\ inflight' \in [Devices -> DeviceRequest]
    BY <1>6, Made DEF ServerRestart, SignInTypeOK
  <2>2. QED
    BY <1>6, <2>1 DEF ServerRestart, SignInTypeOK, account
<1>7. QED
  BY <1>1, <1>2, <1>3, <1>4, <1>5, <1>6

LEMMA TypeOKInit == SignInInit => SignInTypeOK
<1>1. ASSUME SignInInit PROVE SignInTypeOK
  <2>1. /\ password \in 0..MaxPassword /\ exists \in BOOLEAN
        /\ row \in [Sids -> RowState] /\ totp \in Totp /\ mutex \in Devices \cup {None}
    BY <1>1, SignInAssumption DEF SignInInit, RowState, Totp, NoTotp
  <2>2. hist \in History
    BY <1>1, SignInAssumption DEF SignInInit, History
  <2>3. cookie \in [Devices -> Cookie] /\ inflight \in [Devices -> DeviceRequest]
    BY <1>1, Made DEF SignInInit
  <2>4. QED
    BY <2>1, <2>2, <2>3 DEF SignInTypeOK
<1>2. QED
  BY <1>1

LEMMA TypeOKNext == SignInTypeOK /\ [SignInNext]_signInVars => SignInTypeOK'
<1> SUFFICES ASSUME SignInTypeOK, [SignInNext]_signInVars PROVE SignInTypeOK'
  OBVIOUS
<1>1. ASSUME NEW d \in Devices, DeviceStep(d) PROVE SignInTypeOK'
  BY <1>1, LoginTyped, FactorTyped, PasswordTyped, SessionTyped DEF DeviceStep
<1>2. CASE UNCHANGED signInVars
  BY <1>2 DEF signInVars, SignInTypeOK
<1>3. QED
  BY <1>1, <1>2, SessionTyped DEF SignInNext

\* Every variable keeps its type.
THEOREM Typing == SignInSpec => []SignInTypeOK
  BY TypeOKInit, TypeOKNext, PTL DEF SignInSpec

-----------------------------------------------------------------------------
(* Handlers.                                                                *)

\* What a step of d makes of d's request, stage by stage; a write to
\* totp_secrets makes the open transactions of the others stale.
Handled(d, x) ==
  /\ Becomes(d, x)
  /\ x.stage = "spend" => \E c \in Codes : BeginSpend(d, c) /\ x.key = c
  /\ x.stage = "activate" => BeginActivate(d) /\ x.key = totp.secret
  /\ x.stage = "change" => ChangePassword(d) /\ x.since = password
  /\ x.stage = "revoke" => WriteChange(d) /\ x.since = password'
  /\ x.stage \in LoggingIn =>
       \/ VerifyRight(d) /\ x.since = password
       \/ /\ cookie[d].level = "half"
          /\ x.since = cookie[d].since /\ x.late = cookie[d].late
       \/ /\ inflight[d].stage \in LoggingIn
          /\ x.since = inflight[d].since /\ x.late = inflight[d].late
  /\ totp' # totp =>
       \A e \in Devices \ {d} : inflight[e].stage = "spend" => inflight'[e].stale

LEMMA StepHandled ==
  ASSUME SignInTypeOK, NEW d \in Devices, DeviceStep(d)
  PROVE  \E x \in DeviceRequest : Handled(d, x)
<1>1. /\ NoRequest \in DeviceRequest /\ NoRequest.stage = "idle"
      /\ {"idle", "gate", "create", "spend", "activate", "change", "revoke"} \subseteq DeviceStage
      /\ password \in 0..MaxPassword /\ 0 \in 0..MaxPassword
      /\ {totp.secret, None} \subseteq Secrets \cup Codes \cup {None}
  BY Made, SignInAssumption DEF DeviceStage, LoggingIn, SignInTypeOK, Totp
<1>2. "idle" \notin LoggingIn
  BY DEF LoggingIn
<1>3. ASSUME VerifyRight(d) PROVE \E x \in DeviceRequest : Handled(d, x)
  <2>1. LET x == Asking("gate", password, None, FALSE)
        IN  x \in DeviceRequest /\ x.stage = "gate" /\ x.since = password
    BY <1>1 DEF Asking, DeviceRequest
  <2>2. Becomes(d, Asking("gate", password, None, FALSE)) /\ totp' = totp
    BY <1>3, <2>1, Begun DEF VerifyRight
  <2>3. QED
    BY <1>3, <2>1, <2>2 DEF Handled
<1>4. ASSUME Gate(d) PROVE \E x \in DeviceRequest : Handled(d, x)
  <2>1. totp' = totp /\ inflight[d].stage \in LoggingIn
    BY <1>4 DEF Gate, Handling, LoggingIn
  <2>2. CASE Done(d)
    BY <1>1, <1>2, <2>1, <2>2, Begun DEF Done, Handled
  <2>3. CASE Go(d, "create")
    <3> DEFINE x == [inflight[d] EXCEPT !.stage = "create"]
    <3>1. x \in DeviceRequest /\ x.stage = "create" /\ x.since = inflight[d].since
          /\ x.late = inflight[d].late
      BY <1>1, Fields, GoesOn
    <3>2. Becomes(d, x)
      BY <2>3, <3>1, Begun DEF Go, Begin
    <3> HIDE DEF x
    <3>3. QED
      BY <2>1, <3>1, <3>2 DEF Handled
  <2>4. QED
    BY <1>4, <2>2, <2>3 DEF Gate
<1>5. ASSUME UNCHANGED <<inflight, totp>>, Handling(d, "idle")
      PROVE  \E x \in DeviceRequest : Handled(d, x)
  BY <1>2, <1>5, Unmoved, Fields DEF Handled, Handling
<1>6. ASSUME UNCHANGED totp, Done(d) PROVE \E x \in DeviceRequest : Handled(d, x)
  BY <1>1, <1>2, <1>6, Begun DEF Done, Handled
<1>7. ASSUME EnterCode(d) PROVE \E x \in DeviceRequest : Handled(d, x)
  <2> DEFINE x == Asking("create", cookie[d].since, None, cookie[d].late)
  <2>1. /\ Handling(d, "idle") /\ totp' = totp /\ cookie[d].level = "half"
        /\ UNCHANGED inflight \/ Begin(d, x)
    BY <1>7 DEF EnterCode
  <2>2. x \in DeviceRequest /\ x.stage = "create" /\ x.since = cookie[d].since
        /\ x.late = cookie[d].late
    BY <1>1, Fields, Made
  <2> HIDE DEF x
  <2>3. QED
    BY <1>5, <2>1, <2>2, Begun DEF Handled
<1>8. ASSUME NEW c \in Codes, BeginSpend(d, c)
      PROVE  \E x \in DeviceRequest : Handled(d, x)
  <2> DEFINE x == Asking("spend", cookie[d].since, c, cookie[d].late)
  <2>1. totp' = totp /\ cookie[d].level = "half" /\ Begin(d, x)
    BY <1>8 DEF BeginSpend
  <2>2. x \in DeviceRequest /\ x.stage = "spend" /\ x.since = cookie[d].since
        /\ x.late = cookie[d].late /\ x.key = c
    BY <1>1, Fields, Made
  <2> HIDE DEF x
  <2>3. QED
    BY <1>8, <2>1, <2>2, Begun DEF Handled
<1>9. ASSUME FinishSpend(d) PROVE \E x \in DeviceRequest : Handled(d, x)
  <2> DEFINE x == Asking("create", inflight[d].since, None, inflight[d].late)
  <2>1. x \in DeviceRequest /\ x.stage = "create" /\ x.since = inflight[d].since
        /\ x.late = inflight[d].late
    BY <1>1, Fields, Made
  <2>2. inflight[d].stage \in LoggingIn
    BY <1>9 DEF FinishSpend, Handling, LoggingIn
  <2>3. ASSUME Spent(d) PROVE Handled(d, x)
    <3>1. /\ Becomes(d, x)
          /\ \A e \in Devices \ {d} : inflight[e].stage = "spend" => inflight'[e].stale
      BY <2>1, <2>3, Wrote DEF Spent
    <3> HIDE DEF x
    <3>2. QED
      BY <2>1, <2>2, <3>1 DEF Handled
  <2>4. QED
    BY <1>6, <1>9, <2>1, <2>3 DEF FinishSpend
<1>10. ASSUME Handling(d, "idle"), inflight' = Staling(d, inflight)
       PROVE  \E x \in DeviceRequest : Handled(d, x)
  BY <1>2, <1>10, WroteOn, Fields DEF Handled, Handling
<1>11. ASSUME BeginActivate(d) PROVE \E x \in DeviceRequest : Handled(d, x)
  <2> DEFINE x == Asking("activate", 0, totp.secret, FALSE)
  <2>1. x \in DeviceRequest /\ x.stage = "activate" /\ x.key = totp.secret
    BY <1>1 DEF Asking, DeviceRequest
  <2>2. "activate" \notin LoggingIn
    BY DEF LoggingIn
  <2>3. Begin(d, x) /\ totp' = totp
    BY <1>11 DEF BeginActivate
  <2> HIDE DEF x
  <2>4. QED
    BY <1>11, <2>1, <2>2, <2>3, Begun DEF Handled
<1>12. ASSUME FinishActivate(d) PROVE \E x \in DeviceRequest : Handled(d, x)
  BY <1>1, <1>2, <1>12, Wrote DEF FinishActivate, Handled
<1>13. ASSUME ChangePassword(d) PROVE \E x \in DeviceRequest : Handled(d, x)
  <2> DEFINE x == Asking("change", password, None, FALSE)
  <2>1. x \in DeviceRequest /\ x.stage = "change" /\ x.since = password
    BY <1>1 DEF Asking, DeviceRequest
  <2>2. "change" \notin LoggingIn
    BY DEF LoggingIn
  <2>3. Begin(d, x) /\ totp' = totp
    BY <1>13 DEF ChangePassword
  <2> HIDE DEF x
  <2>4. QED
    BY <1>13, <2>1, <2>2, <2>3, Begun DEF Handled
<1>14. ASSUME WriteChange(d) PROVE \E x \in DeviceRequest : Handled(d, x)
  <2> DEFINE x == Asking("revoke", password', None, FALSE)
  <2>1. password' \in 0..MaxPassword
    BY <1>1, <1>14, SignInAssumption DEF WriteChange
  <2>2. x \in DeviceRequest /\ x.stage = "revoke" /\ x.since = password'
    BY <1>1, <2>1 DEF Asking, DeviceRequest
  <2>3. "revoke" \notin LoggingIn
    BY DEF LoggingIn
  <2>4. Begin(d, x) /\ totp' = totp
    BY <1>14 DEF WriteChange, Begin
  <2> HIDE DEF x
  <2>5. QED
    BY <1>14, <2>2, <2>3, <2>4, Begun DEF Handled
<1>15. ASSUME NEW stages, NEW own \in Cookie, Overtake(d, stages, own)
       PROVE  \E x \in DeviceRequest : Handled(d, x)
  BY <1>1, <1>2, <1>15, Overtaken DEF Handled
<1>16. ASSUME RevokeOld(d) PROVE \E x \in DeviceRequest : Handled(d, x)
  <2>1. [cookie[d] EXCEPT !.since = inflight[d].since] \in Cookie
    BY Fields DEF Cookie
  <2>2. QED
    BY <1>6, <1>15, <1>16, <2>1 DEF RevokeOld
<1>17. ASSUME Reset(d) PROVE \E x \in DeviceRequest : Handled(d, x)
  <2>1. \A y \in DeviceRequest : Marked(y, y) /\ Marked([y EXCEPT !.late = TRUE], y)
    BY DEF DeviceRequest, Marked
  <2>2. \A e \in Devices : inflight'[e] \in DeviceRequest /\ Marked(inflight'[e], inflight[e])
    BY <1>17, <2>1, Fields DEF Reset, Marked
  <2>3. inflight' \in [Devices -> DeviceRequest] /\ inflight'[d] = inflight[d] /\ Handling(d, "idle")
        /\ totp' = totp
    BY <1>17, <2>2 DEF Reset, Handling
  <2>4. Becomes(d, inflight[d])
    BY <2>2, <2>3 DEF Becomes
  <2>5. QED
    BY <1>2, <2>3, <2>4, Fields DEF Handled, Handling
<1>18. ASSUME CreateSession(d) \/ ChangeFails(d) PROVE \E x \in DeviceRequest : Handled(d, x)
  BY <1>6, <1>18 DEF CreateSession, ChangeFails
<1>19. ASSUME SignUp(d) \/ Logout(d) \/ Revoke(d) \/ Dropped(d)
       PROVE  \E x \in DeviceRequest : Handled(d, x)
  BY <1>5, <1>19 DEF SignUp, Logout, Revoke, Dropped, Ready
<1>20. ASSUME Enroll(d) \/ Disable(d) PROVE \E x \in DeviceRequest : Handled(d, x)
  BY <1>10, <1>20 DEF Enroll, Disable, Ready
<1>21. ASSUME DeleteMe(d) PROVE \E x \in DeviceRequest : Handled(d, x)
  BY <1>15, <1>21, Made DEF DeleteMe
<1>22. QED
  BY <1>3, <1>4, <1>7, <1>8, <1>9, <1>11, <1>12, <1>13, <1>14, <1>16, <1>17,
     <1>18, <1>19, <1>20, <1>21 DEF DeviceStep

-----------------------------------------------------------------------------
(* Password changes.                                                        *)

\* Exactly the request between the check of the current password and the write
\* of the new one holds the lock; what it checked is still the newest hash,
\* unless it was marked.
Serial ==
  \A d \in Devices :
    /\ Handling(d, "change") <=> mutex = d
    /\ Handling(d, "change") => inflight[d].since = password \/ inflight[d].late

LEMMA SerialStep ==
  ASSUME SignInTypeOK, Serial, NEW d \in Devices, NEW x, Becomes(d, x),
         x.stage = "change" <=> mutex' = d,
         x.stage = "change" => x.since = password' \/ x.late,
         \A e \in Devices \ {d} :
           /\ mutex' = e <=> mutex = e
           /\ mutex = e => password' = password \/ inflight'[e].late
  PROVE  Serial'
<1>1. ASSUME NEW e \in Devices \ {d}
      PROVE  /\ inflight'[e].stage = "change" <=> mutex' = e
             /\ inflight'[e].stage = "change"
                  => inflight'[e].since = password' \/ inflight'[e].late
  <2>1. Marked(inflight'[e], inflight[e])
    BY DEF Becomes
  <2>2. QED
    BY <2>1 DEF Marked, Serial, Handling
<1>2. inflight'[d] = x
  BY DEF Becomes
<1>3. QED
  BY <1>1, <1>2 DEF Serial, Handling

LEMMA SerialSteps ==
  ASSUME SignInTypeOK, Serial, NEW d \in Devices, DeviceStep(d)
  PROVE  Serial'
<1>1. PICK x \in DeviceRequest : Handled(d, x)
  BY StepHandled
<1>2. /\ Becomes(d, x)
      /\ x.stage = "change" => ChangePassword(d) /\ x.since = password
  BY <1>1 DEF Handled
<1>3. None \notin Devices
  BY SignInAssumption
<1>4. CASE ChangePassword(d)
  <2>1. mutex = None /\ mutex' = d /\ password' = password
    BY <1>4 DEF ChangePassword, account
  <2>2. x.stage = "change"
    <3>1. Asking("change", password, None, FALSE).stage = "change"
      BY DEF Asking
    <3>2. QED
      BY <1>2, <1>4, <3>1 DEF ChangePassword, Begin, Becomes, SignInTypeOK
  <2>3. QED
    BY <1>2, <1>3, <2>1, <2>2, SerialStep
<1>5. CASE WriteChange(d) \/ ChangeFails(d)
  <2>1. mutex = d /\ mutex' = None
    BY <1>5 DEF WriteChange, ChangeFails, Serial
  <2>2. x.stage # "change"
    BY <1>2, <1>3, <2>1 DEF ChangePassword
  <2>3. QED
    BY <1>2, <1>3, <2>1, <2>2, SerialStep
<1>6. CASE Reset(d)
  <2>1. mutex' = mutex /\ mutex # d /\ ~ChangePassword(d)
    BY <1>6, SignInAssumption
       DEF Reset, Handling, Serial, ChangePassword, account, SignInTypeOK
  <2>2. ASSUME NEW e \in Devices \ {d}, mutex = e
        PROVE  inflight'[e].late
    <3>1. inflight'[e] = [inflight[e] EXCEPT !.late = TRUE]
      BY <1>6, <2>2 DEF Reset, Serial
    <3>2. QED
      BY <3>1, Fields DEF DeviceRequest
  <2>3. QED
    BY <1>2, <2>1, <2>2, SerialStep
<1>7. CASE SignUp(d)
  <2>1. mutex = None /\ mutex' = mutex
    BY <1>7 DEF SignUp
  <2>2. x.stage # "change"
    BY <1>2, <1>3, <2>1 DEF ChangePassword
  <2>3. QED
    BY <1>2, <1>3, <2>1, <2>2, SerialStep
<1>8. CASE ~(\/ ChangePassword(d) \/ WriteChange(d) \/ ChangeFails(d)
             \/ Reset(d) \/ SignUp(d))
  <2>1. mutex' = mutex /\ password' = password /\ ~Handling(d, "change")
    BY <1>8 DEF DeviceStep, VerifyRight, Gate, CreateSession, EnterCode, BeginSpend,
       FinishSpend, Enroll, BeginActivate, FinishActivate, Disable, RevokeOld,
       Logout, Revoke, Dropped, DeleteMe, Ready, Handling, account
  <2>2. mutex # d /\ x.stage # "change"
    BY <1>2, <1>8, <2>1 DEF Serial
  <2>3. QED
    BY <1>2, <2>1, <2>2, SerialStep
<1>9. QED
  BY <1>4, <1>5, <1>6, <1>7, <1>8

LEMMA SerialNext == SignInTypeOK /\ Serial /\ [SignInNext]_signInVars => Serial'
<1> SUFFICES ASSUME SignInTypeOK, Serial, [SignInNext]_signInVars PROVE Serial'
  OBVIOUS
<1>1. ASSUME ServerRestart PROVE Serial'
  <2>1. \A d \in Devices : inflight'[d] = NoRequest /\ mutex' = None
    BY <1>1 DEF ServerRestart
  <2>2. NoRequest.stage = "idle" /\ None \notin Devices
    BY Made, SignInAssumption
  <2>3. QED
    BY <2>1, <2>2 DEF Serial, Handling
<1>2. CASE UNCHANGED signInVars
  BY <1>2 DEF signInVars, Serial, Handling
<1>3. ASSUME NEW s \in Sids, SessionExpires(s) PROVE Serial'
  BY <1>3 DEF SessionExpires, account, Serial, Handling
<1>4. ASSUME AdminDelete PROVE Serial'
  BY <1>4 DEF AdminDelete, Serial, Handling
<1>5. QED
  BY <1>1, <1>2, <1>3, <1>4, SerialSteps DEF SignInNext

LEMMA SerialInit == SignInInit => Serial
  BY Made, SignInAssumption DEF SignInInit, Serial, Handling

\* The password that change_password replaces is the one it verified, unless a
\* mailed link or a deletion came between.
THEOREM SerialChanges == SignInSpec => ChangeIsSerial
<1>1. SignInTypeOK /\ Serial /\ [SignInNext]_signInVars
        => [\A d \in Devices : WriteChange(d) => inflight[d].since = password \/ inflight[d].late]_signInVars
  BY DEF Serial, WriteChange
<1>2. SignInSpec => []Serial
  BY SerialInit, SerialNext, Typing, PTL DEF SignInSpec
<1>3. QED
  BY <1>1, <1>2, Typing, PTL DEF SignInSpec, ChangeIsSerial

-----------------------------------------------------------------------------
(* Backup codes.                                                            *)

\* A code that is still stored has signed nobody in, and a transaction that
\* nobody made stale will find its code.
Unspent ==
  /\ \A c \in totp.codes : hist.uses[c] = 0
  /\ \A d \in Devices : Handling(d, "spend") => /\ inflight[d].key \in Codes
                                                /\ inflight[d].stale \/ inflight[d].key \in totp.codes
  /\ CodeOnce

LEMMA UnspentSteps ==
  ASSUME SignInTypeOK, Unspent, NEW d \in Devices, DeviceStep(d)
  PROVE  Unspent'
<1>1. PICK x \in DeviceRequest : Handled(d, x)
  BY StepHandled
<1>2. /\ \A e \in Devices \ {d} : Marked(inflight'[e], inflight[e])
      /\ inflight'[d] = x
      /\ totp' # totp =>
           \A e \in Devices \ {d} : inflight[e].stage = "spend" => inflight'[e].stale
      /\ x.stage = "spend" => x.key \in totp.codes /\ totp' = totp
  BY <1>1 DEF Handled, Becomes, BeginSpend
<1>3. ASSUME NEW e \in Devices, inflight'[e].stage = "spend"
      PROVE  inflight'[e].key \in Codes /\ (inflight'[e].stale \/ inflight'[e].key \in totp'.codes)
  <2>1. CASE e = d
    BY <1>2, <1>3, <2>1 DEF SignInTypeOK, Totp
  <2>2. CASE e # d
    <3>1. inflight[e].stage = "spend" /\ inflight'[e].key = inflight[e].key
          /\ (inflight[e].stale => inflight'[e].stale)
      BY <1>2, <1>3, <2>2 DEF Marked
    <3>2. QED
      BY <1>2, <2>2, <3>1 DEF Unspent, Handling
  <2>3. QED
    BY <2>1, <2>2
<1>4. CASE Spent(d) /\ FinishSpend(d)
  <2> DEFINE k == inflight[d].key
  <2>1. CASE ~inflight[d].stale
    <3>1. k \in Codes /\ k \in totp.codes /\ hist.uses[k] = 0
      BY <1>4, <2>1 DEF FinishSpend, Unspent, Handling
    <3>2. totp'.codes = totp.codes \ {k}
      BY <1>4 DEF Spent, SignInTypeOK, Totp
    <3>3. hist.uses \in [Codes -> Nat]
      BY DEF SignInTypeOK, History
    <3>4. hist'.uses = [hist.uses EXCEPT ![k] = @ + 1]
      BY <1>4 DEF Spent, SignInTypeOK, History
    <3>5. \A c \in Codes : c # k => hist'.uses[c] = hist.uses[c]
      BY <3>3, <3>4
    <3>6. hist'.uses[k] = 1
      BY <3>1, <3>3, <3>4
    <3>7. \A c \in Codes : hist'.uses[c] <= 1
      BY <3>5, <3>6 DEF Unspent, CodeOnce
    <3>8. \A c \in totp'.codes : hist'.uses[c] = 0
      BY <3>2, <3>5 DEF Unspent, SignInTypeOK, Totp
    <3>9. QED
      BY <1>3, <3>7, <3>8 DEF Unspent, CodeOnce, Handling
  <2>2. CASE inflight[d].stale
    <3>1. UNCHANGED <<totp, hist>>
      BY <1>4, <2>2 DEF FinishSpend
    <3>2. QED
      BY <1>3, <3>1 DEF Unspent, CodeOnce, Handling
  <2>3. QED
    BY <2>1, <2>2
<1>5. ASSUME totp'.codes \subseteq totp.codes, hist'.uses = hist.uses
      PROVE  Unspent'
  BY <1>3, <1>5 DEF Unspent, CodeOnce, Handling
<1>6. CASE FinishActivate(d)
  <2>1. hist' = hist
    BY <1>6 DEF FinishActivate
  <2>2. CASE totp' = totp
    BY <1>5, <2>1, <2>2
  <2>3. CASE \E c \in Codes :
               /\ hist.uses[c] = 0
               /\ totp' = [secret |-> totp.secret, enabled |-> TRUE, codes |-> {c}]
    <3>1. \A c \in totp'.codes : hist'.uses[c] = 0
      BY <2>1, <2>3
    <3>2. QED
      BY <1>3, <2>1, <3>1 DEF Unspent, CodeOnce, Handling
  <2>4. QED
    BY <1>6, <2>2, <2>3 DEF FinishActivate
<1>7. CASE Enroll(d) \/ Disable(d) \/ DeleteMe(d)
  <2>1. totp'.codes = {}
    <3>1. NoTotp.codes = {} /\ \A k : [NoTotp EXCEPT !.secret = k].codes = {}
      BY DEF NoTotp
    <3>2. QED
      BY <1>7, <3>1 DEF Enroll, Disable, DeleteMe
  <2>2. hist'.uses = hist.uses
    BY <1>7 DEF Enroll, Disable, DeleteMe, SignInTypeOK, History
  <2>3. QED
    BY <1>5, <2>1, <2>2
<1>8. CASE BeginActivate(d) \/ RevokeOld(d)
  <2>1. totp' = totp /\ hist'.uses = hist.uses
    BY <1>8 DEF BeginActivate, RevokeOld, SignInTypeOK, History
  <2>2. QED
    BY <1>5, <2>1
<1>9. CASE UNCHANGED <<totp, hist>>
  BY <1>5, <1>9
<1>10. UNCHANGED <<totp, hist>> \/ (Spent(d) /\ FinishSpend(d)) \/ FinishActivate(d)
       \/ Enroll(d) \/ Disable(d) \/ DeleteMe(d) \/ BeginActivate(d) \/ RevokeOld(d)
  BY DEF DeviceStep, VerifyRight, Gate, CreateSession, SignUp, EnterCode, BeginSpend,
     FinishSpend, ChangePassword, WriteChange, ChangeFails, Reset, Logout, Revoke,
     Dropped
<1>11. QED
  BY <1>4, <1>6, <1>7, <1>8, <1>9, <1>10

\* The steps that are nobody's in particular.
LEMMA Others ==
  ASSUME SignInTypeOK, [SignInNext]_signInVars, \A d \in Devices : ~DeviceStep(d)
  PROVE  /\ UNCHANGED <<totp, hist, password>>
         /\ inflight' = inflight \/ inflight' = [d \in Devices |-> NoRequest]
         /\ cookie' = cookie \/ cookie' = [d \in Devices |-> NoCookie]
         /\ exists' => exists
         /\ \A s \in Sids : /\ row'[s] = "new" <=> row[s] = "new"
                            /\ row'[s] = "live" => row[s] = "live"
<1>1. CASE \E s \in Sids : SessionExpires(s)
  BY <1>1 DEF SessionExpires, account, SignInTypeOK
<1>2. CASE AdminDelete
  BY <1>2 DEF AdminDelete
<1>3. CASE ServerRestart
  BY <1>3 DEF ServerRestart, account
<1>4. CASE UNCHANGED signInVars
  BY <1>4 DEF signInVars
<1>5. QED
  BY <1>1, <1>2, <1>3, <1>4 DEF SignInNext

LEMMA UnspentNext == SignInTypeOK /\ Unspent /\ [SignInNext]_signInVars => Unspent'
<1> SUFFICES ASSUME SignInTypeOK, Unspent, [SignInNext]_signInVars PROVE Unspent'
  OBVIOUS
<1>1. CASE \A d \in Devices : ~DeviceStep(d)
  BY <1>1, Others, Made DEF Unspent, CodeOnce, Handling
<1>2. QED
  BY <1>1, UnspentSteps

LEMMA UnspentInit == SignInInit => Unspent
  BY Made DEF SignInInit, NoTotp, Unspent, CodeOnce, Handling

\* A backup code signs in once, however many transactions present it.
THEOREM CodesOnce == SignInSpec => []CodeOnce
<1>1. Unspent => CodeOnce
  BY DEF Unspent
<1>2. QED
  BY <1>1, UnspentInit, UnspentNext, Typing, PTL DEF SignInSpec

-----------------------------------------------------------------------------
(* The second factor.                                                       *)

\* A request that activates has seen a code of its secret; the secret stored
\* is that one, if any, unless it was replaced meanwhile.
Proved ==
  /\ totp.enabled => totp.secret # None
  /\ totp.enabled => totp.secret \in hist.proved \/ hist.crossed
  /\ \A d \in Devices :
       Handling(d, "activate") =>
         /\ inflight[d].key \in hist.proved
         /\ hist.crossed \/ totp.secret \in {inflight[d].key, None}

LEMMA ProvedSteps ==
  ASSUME SignInTypeOK, Proved, NEW d \in Devices, DeviceStep(d)
  PROVE  Proved'
<1>1. PICK x \in DeviceRequest : Handled(d, x)
  BY StepHandled
<1>2. /\ inflight'[d] = x
      /\ \A e \in Devices \ {d} : inflight'[e].stage = inflight[e].stage /\ inflight'[e].key = inflight[e].key
      /\ x.stage = "activate" => BeginActivate(d) /\ x.key = totp.secret
  BY <1>1 DEF Handled, Becomes, Marked
<1>3. ASSUME totp'.enabled => /\ totp.enabled
                              /\ totp'.secret = totp.secret,
             totp'.secret \in {totp.secret, None},
             hist'.proved = hist.proved, hist'.crossed = hist.crossed,
             x.stage # "activate"
      PROVE  Proved'
  BY <1>2, <1>3 DEF Proved, Handling
<1>4. CASE BeginActivate(d)
  <2>1. /\ hist'.proved = hist.proved \cup {totp.secret}
        /\ hist'.crossed = hist.crossed /\ totp' = totp
    BY <1>4 DEF BeginActivate, SignInTypeOK, History
  <2>2. QED
    BY <1>2, <2>1 DEF Proved, Handling
<1>5. CASE Enroll(d)
  <2>1. ~totp'.enabled
    BY <1>5 DEF Enroll, NoTotp
  <2>2. /\ hist'.proved = hist.proved
        /\ hist.crossed => hist'.crossed
        /\ (\E e \in Devices : Handling(e, "activate")) => hist'.crossed
    BY <1>5 DEF Enroll, SignInTypeOK, History
  <2>3. x.stage # "activate"
    <3>1. Handling(d, "idle") /\ inflight'[d] = inflight[d]
      BY <1>5, WroteOn DEF Enroll, Ready, Becomes
    <3>2. QED
      BY <1>2, <3>1 DEF Handling
  <2>4. QED
    BY <1>2, <2>1, <2>2, <2>3 DEF Proved, Handling
<1>6. CASE FinishActivate(d)
  <2>1. hist' = hist /\ Handling(d, "activate") /\ x.stage # "activate"
    BY <1>2, <1>6 DEF FinishActivate, BeginActivate, Ready, Handling
  <2>2. CASE totp' = totp
    BY <1>3, <2>1, <2>2
  <2>3. CASE /\ totp.secret # None
             /\ \E c \in Codes :
                  totp' = [secret |-> totp.secret, enabled |-> TRUE, codes |-> {c}]
    <3>1. totp'.secret = totp.secret
      BY <2>3
    <3>2. totp.secret \in hist.proved \/ hist.crossed
      BY <2>1, <2>3 DEF Proved
    <3>3. QED
      BY <1>2, <2>1, <2>3, <3>1, <3>2 DEF Proved, Handling
  <2>4. QED
    BY <1>6, <2>2, <2>3 DEF FinishActivate
<1>7. CASE Disable(d) \/ DeleteMe(d)
  <2>1. ~totp'.enabled /\ totp'.secret = None
    BY <1>7 DEF Disable, DeleteMe, NoTotp
  <2>2. hist'.proved = hist.proved /\ hist'.crossed = hist.crossed
    BY <1>7 DEF Disable, DeleteMe, SignInTypeOK, History
  <2>3. x.stage # "activate"
    BY <1>2, <2>1, <1>7 DEF BeginActivate, Disable, DeleteMe
  <2>4. QED
    BY <1>3, <2>1, <2>2, <2>3
<1>8. CASE FinishSpend(d) \/ RevokeOld(d)
  <2>1. totp'.secret = totp.secret /\ totp'.enabled = totp.enabled
    BY <1>8 DEF FinishSpend, Spent, RevokeOld, SignInTypeOK, Totp
  <2>2. hist'.proved = hist.proved /\ hist'.crossed = hist.crossed
    BY <1>8 DEF FinishSpend, Spent, RevokeOld, SignInTypeOK, History
  <2>3. x.stage # "activate"
    BY <1>2, <1>8 DEF FinishSpend, RevokeOld, BeginActivate, Ready, Handling
  <2>4. QED
    BY <1>3, <2>1, <2>2, <2>3
<1>9. CASE UNCHANGED <<totp, hist>> /\ ~BeginActivate(d)
  BY <1>2, <1>3, <1>9
<1>10. (UNCHANGED <<totp, hist>> /\ ~BeginActivate(d)) \/ FinishSpend(d)
       \/ FinishActivate(d) \/ Enroll(d) \/ Disable(d) \/ DeleteMe(d)
       \/ BeginActivate(d) \/ RevokeOld(d)
  BY DEF DeviceStep, VerifyRight, Gate, CreateSession, SignUp, EnterCode, BeginSpend,
     ChangePassword, WriteChange, ChangeFails, Reset, Logout, Revoke, Dropped
<1>11. QED
  BY <1>4, <1>5, <1>6, <1>7, <1>8, <1>9, <1>10

LEMMA ProvedNext == SignInTypeOK /\ Proved /\ [SignInNext]_signInVars => Proved'
<1> SUFFICES ASSUME SignInTypeOK, Proved, [SignInNext]_signInVars PROVE Proved'
  OBVIOUS
<1>1. CASE \A d \in Devices : ~DeviceStep(d)
  BY <1>1, Others, Made DEF Proved, Handling
<1>2. QED
  BY <1>1, ProvedSteps

LEMMA ProvedInit == SignInInit => Proved
  BY Made DEF SignInInit, NoTotp, Proved, Handling

\* A secret that is asked for at sign-in was proved with a code of its own,
\* unless it was replaced during an activation.
THEOREM SecretsProved == SignInSpec => []EnabledSecretProved
<1>1. Proved => EnabledSecretProved
  BY DEF Proved, EnabledSecretProved
<1>2. QED
  BY <1>1, ProvedInit, ProvedNext, Typing, PTL DEF SignInSpec

-----------------------------------------------------------------------------
(* Old sessions.                                                            *)

\* x was opened with a password since which nobody revoked the sessions, or is
\* marked as having been opened meanwhile.
Fresh(x) == x.since < hist.cut => x.late

Cuts ==
  /\ hist.cut <= password + 1
  /\ exists => hist.cut <= password

\* A session that a cookie names was created, and no other cookie names it.
Owned ==
  \A d, e \in Devices :
    cookie[d].sid # None =>
      /\ row[cookie[d].sid] # "new"
      /\ cookie[e].sid = cookie[d].sid => e = d

\* A cookie that is still good, or that waits for its second factor, is fresh,
\* and so is a request that will make a cookie.  The session of a request that
\* will revoke the others for the sake of an outdated password is itself gone.
Guarded ==
  \A d \in Devices :
    /\ cookie[d].sid # None /\ row[cookie[d].sid] = "live" => Fresh(cookie[d])
    /\ cookie[d].level = "half" => Fresh(cookie[d])
    /\ inflight[d].stage \in LoggingIn => Fresh(inflight[d])
    /\ inflight[d].stage \in {"change", "revoke"} => cookie[d].level # "half"
    /\ Handling(d, "revoke") =>
         /\ inflight[d].since <= password
         /\ inflight[d].since < hist.cut /\ cookie[d].sid # None
              => row[cookie[d].sid] # "live"

Sessions == SignInTypeOK /\ Cuts /\ Owned /\ Guarded

LEMMA CutsSteps ==
  ASSUME Sessions, NEW d \in Devices, DeviceStep(d)
  PROVE  Cuts' /\ password <= password' /\ password \in Nat /\ password' \in Nat
<1>1. /\ password \in Nat /\ hist.cut \in Nat /\ inflight[d].since \in Nat
      /\ hist \in History /\ exists \in BOOLEAN
  BY Fields, SignInAssumption DEF Sessions, SignInTypeOK, History
<1>2. CASE RevokeOld(d)
  <2>1. exists' = exists /\ password' = password
    BY <1>2 DEF RevokeOld, account
  <2>2. inflight[d].since <= password
    BY <1>2 DEF RevokeOld, Sessions, Guarded
  <2>3. CASE hist' = hist
    BY <1>1, <2>1, <2>3 DEF Cuts, Sessions
  <2>4. CASE hist' = [hist EXCEPT !.cut = IF @ > inflight[d].since THEN @ ELSE inflight[d].since]
    <3>1. hist'.cut = IF hist.cut > inflight[d].since THEN hist.cut ELSE inflight[d].since
      BY <1>1, <2>4 DEF History
    <3>2. QED
      BY <1>1, <2>1, <2>2, <3>1 DEF Cuts, Sessions
  <2>5. QED
    BY <1>2, <2>3, <2>4 DEF RevokeOld
<1>3. CASE DeleteMe(d)
  <2>1. exists' = FALSE /\ password' = password /\ hist'.cut = password + 1
    BY <1>1, <1>3 DEF DeleteMe, History
  <2>2. QED
    BY <1>1, <2>1 DEF Cuts
<1>4. CASE SignUp(d) \/ WriteChange(d) \/ Reset(d)
  <2>1. /\ hist' = hist /\ password' = password + 1
    BY <1>4 DEF SignUp, WriteChange, Reset
  <2>2. QED
    BY <1>1, <2>1 DEF Cuts, Sessions
<1>5. CASE UNCHANGED account /\ hist'.cut = hist.cut
  BY <1>1, <1>5 DEF account, Cuts, Sessions
<1>6. \/ UNCHANGED account /\ hist'.cut = hist.cut
      \/ RevokeOld(d) \/ DeleteMe(d) \/ SignUp(d) \/ WriteChange(d) \/ Reset(d)
  BY <1>1 DEF DeviceStep, VerifyRight, Gate, CreateSession, EnterCode, BeginSpend,
     FinishSpend, Spent, Enroll, BeginActivate, FinishActivate, Disable,
     ChangePassword, ChangeFails, Logout, Revoke, Dropped, History
<1>7. QED
  BY <1>2, <1>3, <1>4, <1>5, <1>6

\* The steps but the two that revoke because of a password: they leave the
\* others' cookies alone, and their own cookie is fresh if it is new.
LEMMA QuietSteps ==
  ASSUME Sessions, NEW d \in Devices, DeviceStep(d), ~RevokeOld(d), ~DeleteMe(d)
  PROVE  /\ hist'.cut = hist.cut
         /\ \A e \in Devices \ {d} : cookie'[e] = cookie[e]
         /\ \A s \in Sids : row'[s] = "live" =>
              row[s] = "live" \/ (row[s] = "new" /\ cookie'[d].sid = s)
         /\ \A s \in Sids : row'[s] = "new" => row[s] = "new"
         /\ \/ cookie'[d] = cookie[d]
            \/ /\ inflight'[d].stage \notin {"change", "revoke"}
               /\ cookie'[d].sid # None =>
                    row[cookie'[d].sid] = "new" /\ row'[cookie'[d].sid] = "live"
               /\ Fresh(cookie'[d]) \/ (cookie'[d].sid = None /\ cookie'[d].level # "half")
<1>1. /\ SignInTypeOK /\ hist \in History /\ "idle" \notin {"change", "revoke"}
      /\ None \notin Sids
  BY SignInAssumption DEF Sessions, SignInTypeOK
<1>2. CASE UNCHANGED cookie /\ hist'.cut = hist.cut
           /\ (row' = row \/ \E keep : RevokeBut(keep))
  BY <1>1, <1>2, RevokedRows
<1>3. CASE Gate(d)
  <2>1. hist' = hist /\ row' = row /\ inflight[d].stage \in LoggingIn
    BY <1>3 DEF Gate, Handling, LoggingIn
  <2>2. CASE /\ Done(d)
             /\ cookie' = [cookie EXCEPT ![d] =
                  Holding("half", None, inflight[d].since, inflight[d].late)]
    <3>1. LET x == Holding("half", None, inflight[d].since, inflight[d].late)
          IN  x.sid = None /\ x.since = inflight[d].since /\ x.late = inflight[d].late
      BY DEF Holding
    <3>2. cookie'[d] = Holding("half", None, inflight[d].since, inflight[d].late)
          /\ \A e \in Devices \ {d} : cookie'[e] = cookie[e]
      BY <1>1, <2>2 DEF SignInTypeOK
    <3>3. Fresh(cookie'[d])
      BY <2>1, <3>1, <3>2 DEF Sessions, Guarded, Fresh
    <3>4. inflight'[d].stage = "idle"
      BY <1>1, <2>2, Made DEF Done, Begin, SignInTypeOK
    <3>5. QED
      BY <2>1, <3>1, <3>2, <3>3, <3>4
  <2>3. CASE UNCHANGED cookie
    BY <1>2, <2>1, <2>3
  <2>4. QED
    BY <1>3, <2>2, <2>3 DEF Gate
<1>4. CASE CreateSession(d)
  <2>1. hist' = hist /\ Done(d) /\ inflight[d].stage \in LoggingIn
    BY <1>4 DEF CreateSession, Handling, LoggingIn
  <2>2. PICK s \in Sids \cup {None} :
          /\ cookie' = [cookie EXCEPT ![d] = FullCookie(d, s)]
          /\ s = None => row' = row
          /\ s # None => row[s] = "new" /\ row' = [row EXCEPT ![s] = "live"]
    BY <1>1, <1>4 DEF CreateSession
  <2>3. /\ FullCookie(d, s).sid = s /\ FullCookie(d, s).since = inflight[d].since
        /\ FullCookie(d, s).late = inflight[d].late
    BY DEF FullCookie, Holding
  <2>4. /\ cookie'[d] = FullCookie(d, s)
        /\ \A e \in Devices \ {d} : cookie'[e] = cookie[e]
    BY <1>1, <2>2 DEF SignInTypeOK
  <2>5. Fresh(cookie'[d])
    BY <2>1, <2>3, <2>4 DEF Sessions, Guarded, Fresh
  <2>6. inflight'[d].stage = "idle"
    BY <1>1, <2>1, Made DEF Done, Begin, SignInTypeOK
  <2>7. CASE s = None
    BY <2>1, <2>2, <2>3, <2>4, <2>5, <2>6, <2>7
  <2>8. CASE s # None
    <3>1. /\ row'[s] = "live" /\ row[s] = "new"
          /\ \A t \in Sids : t # s => row'[t] = row[t]
      BY <1>1, <2>2, <2>8 DEF SignInTypeOK
    <3>2. QED
      BY <2>1, <2>3, <2>4, <2>5, <2>6, <2>8, <3>1
  <2>9. QED
    BY <2>7, <2>8
<1>5. CASE SignUp(d) \/ Logout(d) \/ Dropped(d)
  <2>1. /\ hist' = hist /\ inflight' = inflight /\ Handling(d, "idle")
        /\ row' = row \/ \E keep : RevokeBut(keep)
    BY <1>5 DEF SignUp, Logout, Dropped
  <2>2. /\ \A e \in Devices \ {d} : cookie'[e] = cookie[e]
        /\ cookie'[d] \in {NoCookie, Holding("full", None, password', FALSE)}
    BY <1>1, <1>5 DEF SignUp, Logout, Dropped, SignInTypeOK
  <2>3. cookie'[d].sid = None /\ cookie'[d].level # "half"
    BY <2>2, Made DEF Holding
  <2>4. QED
    BY <1>1, <2>1, <2>2, <2>3, RevokedRows DEF Handling
<1>6. CASE VerifyRight(d) \/ EnterCode(d) \/ (\E c \in Codes : BeginSpend(d, c))
  BY <1>2, <1>6 DEF VerifyRight, EnterCode, BeginSpend
<1>7. CASE FinishSpend(d) \/ Enroll(d) \/ BeginActivate(d) \/ FinishActivate(d) \/ Disable(d)
  BY <1>1, <1>2, <1>7
     DEF FinishSpend, Spent, Enroll, BeginActivate, FinishActivate, Disable, History
<1>8. CASE ChangePassword(d) \/ WriteChange(d) \/ ChangeFails(d) \/ Reset(d) \/ Revoke(d)
  BY <1>2, <1>8 DEF ChangePassword, WriteChange, ChangeFails, Reset, Revoke
<1>9. QED
  BY <1>3, <1>4, <1>5, <1>6, <1>7, <1>8 DEF DeviceStep

LEMMA QuietSessions ==
  ASSUME Sessions, NEW d \in Devices, DeviceStep(d), ~RevokeOld(d), ~DeleteMe(d)
  PROVE  Owned' /\ Guarded'
<1>1. PICK x \in DeviceRequest : Handled(d, x)
  BY StepHandled DEF Sessions
<1>2. /\ inflight'[d] = x
      /\ \A e \in Devices \ {d} : Marked(inflight'[e], inflight[e])
  BY <1>1 DEF Handled, Becomes
<1>3. /\ SignInTypeOK /\ SignInTypeOK' /\ None \notin Sids
      /\ \A e \in Devices : cookie[e].sid \in Sids \cup {None}
      /\ \A e \in Devices : cookie'[e].sid \in Sids \cup {None}
  <2>1. SignInTypeOK'
    BY TypeOKNext DEF SignInNext, Sessions
  <2>2. QED
    BY <2>1, SignInAssumption DEF Sessions, SignInTypeOK, Cookie
<1>4. Owned'
  <2>1. ASSUME NEW e \in Devices, cookie'[e].sid # None
        PROVE  \/ cookie'[e] = cookie[e]
               \/ e = d /\ row[cookie'[e].sid] = "new"
    BY <2>1, QuietSteps
  <2>2. ASSUME NEW e \in Devices, cookie'[e].sid # None
        PROVE  row'[cookie'[e].sid] # "new"
    BY <1>3, <2>1, <2>2, QuietSteps DEF Sessions, Owned
  <2>3. ASSUME NEW e \in Devices, NEW f \in Devices, cookie'[e].sid # None,
               cookie'[f].sid = cookie'[e].sid
        PROVE  f = e
    BY <2>1, <2>3 DEF Sessions, Owned
  <2>4. QED
    BY <2>2, <2>3 DEF Owned
<1>5. ASSUME NEW e \in Devices, cookie'[e] = cookie[e]
      PROVE  /\ cookie'[e].sid # None /\ row'[cookie'[e].sid] = "live"
                  => row[cookie[e].sid] = "live"
  <2>1. SUFFICES ASSUME cookie[e].sid # None, row'[cookie[e].sid] = "live"
                 PROVE  row[cookie[e].sid] = "live"
    BY <1>5
  <2>2. row[cookie[e].sid] # "new" /\ cookie[e].sid \in Sids
    BY <1>3, <2>1 DEF Sessions, Owned
  <2>3. QED
    BY <2>1, <2>2, QuietSteps
<1>6. hist'.cut = hist.cut
  BY QuietSteps
<1>7. ASSUME NEW e \in Devices
      PROVE  /\ cookie'[e].sid # None /\ row'[cookie'[e].sid] = "live" => Fresh(cookie[e])'
             /\ cookie'[e].level = "half" => Fresh(cookie[e])'
  <2>1. CASE cookie'[e] = cookie[e]
    BY <1>5, <1>6, <2>1 DEF Sessions, Guarded, Fresh
  <2>2. CASE cookie'[e] # cookie[e]
    BY <1>6, <2>2, QuietSteps DEF Fresh
  <2>3. QED
    BY <2>1, <2>2
<1>8. ASSUME NEW e \in Devices, inflight'[e].stage \in LoggingIn
      PROVE  Fresh(inflight[e])'
  <2>1. CASE e # d
    BY <1>2, <1>6, <1>8, <2>1 DEF Marked, Sessions, Guarded, Fresh
  <2>2. CASE e = d
    <3>1. \/ VerifyRight(d) /\ x.since = password
          \/ /\ cookie[d].level = "half"
             /\ x.since = cookie[d].since /\ x.late = cookie[d].late
          \/ /\ inflight[d].stage \in LoggingIn
             /\ x.since = inflight[d].since /\ x.late = inflight[d].late
      BY <1>1, <1>2, <1>8, <2>2 DEF Handled
    <3>2. CASE VerifyRight(d) /\ x.since = password
      <4>1. hist.cut <= password /\ hist.cut \in Nat /\ password \in Nat
        BY <1>3, <3>2, SignInAssumption
           DEF VerifyRight, Sessions, Cuts, SignInTypeOK, History
      <4>2. QED
        BY <1>2, <1>6, <2>2, <3>2, <4>1 DEF Fresh
    <3>3. QED
      BY <1>2, <1>6, <2>2, <3>1, <3>2 DEF Sessions, Guarded, Fresh
  <2>3. QED
    BY <2>1, <2>2
<1>9. password <= password' /\ password \in Nat /\ password' \in Nat /\ Cuts'
  BY CutsSteps
<1>10. ASSUME NEW e \in Devices \ {d}, inflight'[e].stage \in {"change", "revoke"}
       PROVE  /\ cookie'[e].level # "half"
              /\ inflight'[e].stage = "revoke" =>
                   /\ inflight'[e].since <= password'
                   /\ inflight'[e].since < hist'.cut /\ cookie'[e].sid # None
                        => row'[cookie'[e].sid] # "live"
  <2>1. /\ inflight'[e].stage = inflight[e].stage /\ inflight'[e].since = inflight[e].since
        /\ cookie'[e] = cookie[e]
    BY <1>2, QuietSteps DEF Marked
  <2>2. inflight[e].since \in Nat
    BY <1>3, Fields, SignInAssumption
  <2>3. inflight'[e].stage = "revoke" => inflight'[e].since <= password'
    <3>1. inflight[e].stage = "revoke" => inflight[e].since <= password
      BY DEF Sessions, Guarded, Handling
    <3>2. QED
      BY <1>9, <2>1, <2>2, <3>1
  <2>4. QED
    BY <1>5, <1>6, <1>10, <2>1, <2>3 DEF Sessions, Guarded, Handling
<1>11. ASSUME inflight'[d].stage \in {"change", "revoke"}
       PROVE  /\ cookie'[d].level # "half"
              /\ inflight'[d].stage = "revoke" =>
                   /\ inflight'[d].since = password'
                   /\ hist'.cut <= password'
  <2>1. CASE ChangePassword(d) /\ x.stage = "change"
    BY <1>2, <2>1 DEF ChangePassword, Ready, SignedIn
  <2>2. CASE WriteChange(d) /\ x.since = password'
    <3>1. cookie'[d].level # "half" /\ exists'
      BY <2>2 DEF WriteChange, Handling, Sessions, Guarded
    <3>2. QED
      BY <1>2, <1>9, <2>2, <3>1 DEF Cuts
  <2>3. QED
    BY <1>1, <1>2, <1>11, <2>1, <2>2 DEF Handled
<1>12. hist'.cut \in Nat
  BY <1>3, SignInAssumption DEF SignInTypeOK, History
<1>13. Guarded'
  BY <1>7, <1>8, <1>9, <1>10, <1>11, <1>12 DEF Guarded, Handling
<1>14. QED
  BY <1>4, <1>13

\* The revocation that a new password brings, from its cut on: of the sessions
\* that cookies name it leaves the changer's own.
LEMMA RevokingSessions ==
  ASSUME Sessions, NEW d \in Devices, NEW stages, NEW own \in Cookie,
         LoggingIn \subseteq stages,
         Overtake(d, stages, own), RevokeBut({own.sid}),
         own.sid \in {cookie[d].sid, None},
         SignInTypeOK', password' = password,
         own.level # "half",
         own.sid # None /\ row[own.sid] = "live" => own.since >= hist'.cut
  PROVE  Owned' /\ Guarded'
<1>1. /\ SignInTypeOK /\ None \notin Sids
      /\ \A e \in Devices : cookie[e].sid \in Sids \cup {None}
  BY SignInAssumption DEF Sessions, SignInTypeOK, Cookie
<1>2. /\ inflight'[d] = NoRequest /\ NoRequest.stage = "idle"
      /\ \A e \in Devices \ {d} :
           /\ Marked(inflight'[e], inflight[e])
           /\ inflight[e].stage \in LoggingIn => inflight'[e].late
      /\ cookie'[d] = own
      /\ \A e \in Devices \ {d} :
           /\ cookie'[e].level = cookie[e].level
           /\ cookie'[e].sid = cookie[e].sid
           /\ cookie[e].level = "half" => cookie'[e].late
  BY <1>1, Overtaken, Made DEF Becomes
<1>3. \A t \in Sids : /\ row'[t] = "new" <=> row[t] = "new"
                      /\ row'[t] = "live" => row[t] = "live" /\ t = own.sid
  BY <1>1, RevokedRows
<1>4. Owned'
  <2>1. \A e \in Devices : cookie'[e].sid # None => cookie'[e].sid = cookie[e].sid
    BY <1>2
  <2>2. \A e \in Devices : cookie'[e].sid # None => row'[cookie'[e].sid] # "new"
    BY <1>1, <1>3, <2>1 DEF Sessions, Owned
  <2>3. \A e, f \in Devices :
          cookie'[e].sid # None /\ cookie'[f].sid = cookie'[e].sid => f = e
    BY <2>1 DEF Sessions, Owned
  <2>4. QED
    BY <2>2, <2>3 DEF Owned
<1>5. ASSUME NEW e \in Devices \ {d}, cookie'[e].sid # None
      PROVE  row'[cookie'[e].sid] # "live"
  <2>1. cookie'[e].sid = cookie[e].sid /\ cookie[e].sid \in Sids
    BY <1>1, <1>2, <1>5
  <2>2. cookie[e].sid # own.sid
    BY <1>5, <2>1 DEF Sessions, Owned
  <2>3. QED
    BY <1>3, <2>1, <2>2
<1>6. ASSUME own.sid # None, row'[own.sid] = "live"
      PROVE  own.since >= hist'.cut
  BY <1>1, <1>3, <1>6
<1>7. hist'.cut \in Nat /\ own.since \in Nat /\ password \in Nat
  BY <1>1, SignInAssumption DEF SignInTypeOK, History, Cookie
<1>8. ASSUME NEW e \in Devices
      PROVE  /\ cookie'[e].sid # None /\ row'[cookie'[e].sid] = "live" => Fresh(cookie[e])'
             /\ cookie'[e].level = "half" => Fresh(cookie[e])'
             /\ inflight'[e].stage \in LoggingIn => Fresh(inflight[e])'
             /\ inflight'[e].stage \in {"change", "revoke"} => cookie'[e].level # "half"
             /\ inflight'[e].stage = "revoke" =>
                  /\ inflight'[e].since <= password'
                  /\ inflight'[e].since < hist'.cut /\ cookie'[e].sid # None
                       => row'[cookie'[e].sid] # "live"
  <2>1. CASE e = d
    <3>1. "idle" \notin LoggingIn \cup {"change", "revoke"}
      BY DEF LoggingIn
    <3>2. cookie'[e].sid # None /\ row'[cookie'[e].sid] = "live" => Fresh(cookie[e])'
      BY <1>2, <1>6, <1>7, <2>1 DEF Fresh
    <3>3. QED
      BY <1>2, <2>1, <3>1, <3>2
  <2>2. CASE e # d
    <3>1. inflight'[e].stage = inflight[e].stage /\ inflight'[e].since = inflight[e].since
      BY <1>2, <2>2 DEF Marked
    <3>2. QED
      BY <1>2, <1>5, <2>2, <3>1 DEF Sessions, Guarded, Handling, Fresh
  <2>3. QED
    BY <2>1, <2>2
<1>9. QED
  BY <1>4, <1>8 DEF Guarded, Handling

LEMMA LoudSessions ==
  ASSUME Sessions, NEW d \in Devices, DeviceStep(d), RevokeOld(d) \/ DeleteMe(d)
  PROVE  Owned' /\ Guarded'
<1>1. /\ SignInTypeOK /\ SignInTypeOK' /\ hist \in History /\ None \notin Sids
      /\ hist.cut \in Nat /\ inflight[d].since \in Nat /\ cookie[d] \in Cookie
  BY TypeOKNext, Fields, SignInAssumption
     DEF SignInNext, Sessions, SignInTypeOK, History
<1>2. CASE DeleteMe(d)
  <2>1. RevokeBut({NoCookie.sid})
    BY <1>1, <1>2, Made DEF DeleteMe, RevokeBut
  <2>2. Overtake(d, LoggingIn \cup {"change"}, NoCookie) /\ password' = password
    BY <1>2 DEF DeleteMe
  <2>3. QED
    BY <1>1, <2>1, <2>2, Made, RevokingSessions
<1>3. CASE RevokeOld(d)
  <2>1. Handling(d, "revoke") /\ UNCHANGED account
    BY <1>3 DEF RevokeOld
  <2>2. CASE Done(d) /\ UNCHANGED <<row, hist, cookie>>
    <3>1. inflight' = [inflight EXCEPT ![d] = NoRequest] /\ NoRequest.stage = "idle"
      BY <2>2, Made DEF Done, Begin
    <3>2. "idle" \notin LoggingIn \cup {"change", "revoke"}
      BY DEF LoggingIn
    <3>3. \A e \in Devices : e # d => inflight'[e] = inflight[e]
      BY <1>1, <3>1 DEF SignInTypeOK
    <3>4. inflight'[d].stage = "idle"
      BY <1>1, <3>1 DEF SignInTypeOK
    <3>5. QED
      BY <2>1, <2>2, <3>2, <3>3, <3>4
         DEF Sessions, Owned, Guarded, Fresh, Handling, account
  <2>3. CASE /\ RevokeBut({cookie[d].sid})
             /\ hist' = [hist EXCEPT !.cut = IF @ > inflight[d].since THEN @ ELSE inflight[d].since]
             /\ Overtake(d, LoggingIn, [cookie[d] EXCEPT !.since = inflight[d].since])
    <3> DEFINE own == [cookie[d] EXCEPT !.since = inflight[d].since]
    <3>1. /\ own \in Cookie /\ own.sid = cookie[d].sid
          /\ own.level = cookie[d].level /\ own.since = inflight[d].since
      BY <1>1, Fields DEF Cookie
    <3>2. hist'.cut = IF hist.cut > inflight[d].since THEN hist.cut ELSE inflight[d].since
      BY <1>1, <2>3 DEF History
    <3>3. RevokeBut({own.sid}) /\ Overtake(d, LoggingIn, own)
      BY <2>3, <3>1
    <3>4. own.level # "half"
      BY <2>1, <3>1 DEF Sessions, Guarded, Handling
    <3>5. ASSUME own.sid # None, row[own.sid] = "live"
          PROVE  own.since >= hist'.cut
      <4>1. ~(inflight[d].since < hist.cut)
        BY <2>1, <3>1, <3>5 DEF Sessions, Guarded
      <4>2. QED
        BY <1>1, <3>1, <3>2, <4>1
    <3>6. password' = password
      BY <2>1 DEF account
    <3> HIDE DEF own
    <3>7. QED
      BY <1>1, <3>1, <3>3, <3>4, <3>5, <3>6, RevokingSessions
  <2>4. QED
    BY <1>3, <2>2, <2>3 DEF RevokeOld
<1>4. QED
  BY <1>2, <1>3

LEMMA SessionsNext == Sessions /\ [SignInNext]_signInVars => Sessions'
<1> SUFFICES ASSUME Sessions, [SignInNext]_signInVars PROVE Sessions'
  OBVIOUS
<1>1. SignInTypeOK'
  BY TypeOKNext DEF Sessions
<1>2. CASE \E d \in Devices : DeviceStep(d)
  BY <1>1, <1>2, CutsSteps, QuietSessions, LoudSessions DEF Sessions
<1>3. CASE \A d \in Devices : ~DeviceStep(d)
  <2>1. /\ UNCHANGED <<hist, password>>
        /\ inflight' = inflight \/ inflight' = [d \in Devices |-> NoRequest]
        /\ cookie' = cookie \/ cookie' = [d \in Devices |-> NoCookie]
        /\ exists' => exists
        /\ \A s \in Sids : /\ row'[s] = "new" <=> row[s] = "new"
                           /\ row'[s] = "live" => row[s] = "live"
    BY <1>3, Others DEF Sessions
  <2>2. Cuts'
    BY <2>1 DEF Sessions, Cuts
  <2>3. \A d \in Devices : cookie[d].sid \in Sids \cup {None}
    BY Fields DEF Sessions
  <2>4. ASSUME NEW d \in Devices
        PROVE  /\ cookie'[d].level = "half" => cookie'[d] = cookie[d]
               /\ cookie'[d].sid # None => cookie'[d] = cookie[d]
               /\ inflight'[d].stage # "idle" => inflight'[d] = inflight[d]
               /\ cookie'[d].level = cookie[d].level \/ cookie'[d].level # "half"
    BY <2>1, Made
  <2>5. Owned'
    BY <2>1, <2>3, <2>4 DEF Sessions, Owned
  <2>6. "idle" \notin LoggingIn \cup {"change", "revoke"}
    BY DEF LoggingIn
  <2>7. Guarded'
    BY <2>1, <2>3, <2>4, <2>6 DEF Sessions, Guarded, Fresh, Handling
  <2>8. QED
    BY <1>1, <2>2, <2>5, <2>7 DEF Sessions
<1>4. QED
  BY <1>2, <1>3

LEMMA SessionsInit == SignInInit => Sessions
<1> SUFFICES ASSUME SignInInit PROVE Sessions
  OBVIOUS
<1>1. SignInTypeOK /\ password = 1 /\ hist.cut = 0
  BY TypeOKInit DEF SignInInit
<1>2. \A d \in Devices : cookie[d] = NoCookie /\ inflight[d] = NoRequest
  BY DEF SignInInit
<1>3. "idle" \notin LoggingIn \cup {"change", "revoke"}
  BY DEF LoggingIn
<1>4. QED
  BY <1>1, <1>2, <1>3, Made DEF Sessions, Cuts, Owned, Guarded, Handling

\* After a password change that revoked the other sessions, none of those that
\* were there and had been opened with an older password is of any use.
THEOREM OldSessionsOut == SignInSpec => []OldPasswordOut
<1>1. Sessions => OldPasswordOut
  BY DEF Sessions, Guarded, Fresh, OldPasswordOut, SignedIn
<1>2. QED
  BY <1>1, SessionsInit, SessionsNext, PTL DEF SignInSpec
=============================================================================
