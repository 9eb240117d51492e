------------------------------- MODULE SignIn -------------------------------
(***************************************************************************)
(* Signing in to one account: authenticate and change_password of          *)
(* core/auth.py, core/totp.py, the sessions table of core/db.py and the    *)
(* handlers of app/blueprints/auth_views.py that use them.  All of that    *)
(* state is kept per user name; Accounts models the accounts among         *)
(* themselves, and Lockout what refuses a login after too many failures:   *)
(* here a login may be refused at any time.                                *)
(*                                                                         *)
(* A device is a browser with its cookie, which sends one request at a     *)
(* time.  A password is the number of the hash it was stored as, so a      *)
(* later password has a higher number; a wrong one matches no hash.        *)
(***************************************************************************)
EXTENDS FiniteSets, Naturals

CONSTANTS
  Devices,          \* browsers
  Sids,             \* bound of the model: sessions created in its lifetime
  Secrets,          \* bound of the model: secrets enrolled in its lifetime
  Codes,            \* bound of the model: backup codes minted in its lifetime
  None,             \* no session, secret or code
  MaxPassword       \* bound of the model: passwords stored in its lifetime

ASSUME SignInAssumption ==
  /\ None \notin Devices \cup Sids \cup Secrets \cup Codes
  /\ MaxPassword \in Nat \ {0}

VARIABLES
  exists,           \* the users table has a row for the account
  password,         \* number of the newest hash
  row,              \* sessions
  totp,             \* the row of totp_secrets
  mutex,            \* _users_lock
  cookie,           \* the devices' cookies
  inflight,         \* the devices' requests
  hist              \* history, see History

signInVars == <<exists, password, row, totp, mutex, cookie, inflight, hist>>

account == <<exists, password>>

RowState == {"new", "live", "gone"}
Totp == [secret : Secrets \cup {None}, enabled : BOOLEAN, codes : SUBSET Codes]
NoTotp == [secret |-> None, enabled |-> FALSE, codes |-> {}]

\* level: none, half (pending_username) or full (authed); since: the password
\* it was opened with; late: it was being opened while sessions were revoked.
Cookie == [level : {"none", "half", "full"}, sid : Sids \cup {None},
           since : 0..MaxPassword, late : BOOLEAN]
Holding(level, sid, since, late) ==
  [level |-> level, sid |-> sid, since |-> since, late |-> late]
NoCookie == Holding("none", None, 0, FALSE)

\* gate, create: login with the right password, before is_enabled and before
\* create_session; spend: inside the transaction of consume_backup_code;
\* activate, change: past the check of a code or a password; revoke: past the
\* new hash.
LoggingIn == {"gate", "create", "spend"}
DeviceStage == {"idle", "activate", "change", "revoke"} \cup LoggingIn
DeviceRequest == [stage : DeviceStage, since : 0..MaxPassword, key : Secrets \cup Codes \cup {None},
                  late : BOOLEAN, stale : BOOLEAN]
Asking(stage, since, key, late) ==
  [stage |-> stage, since |-> since, key |-> key, late |-> late, stale |-> FALSE]
NoRequest == Asking("idle", 0, None, FALSE)

\* cut: the password since which all sessions were revoked; proved: secrets a
\* code was seen for; crossed: a secret was replaced while its activation was
\* under way; uses: sign-ins each backup code was good for.
History == [cut : 0..MaxPassword + 1,
            proved : SUBSET Secrets, crossed : BOOLEAN, uses : [Codes -> Nat]]

SignInTypeOK ==
  /\ exists \in BOOLEAN /\ password \in 0..MaxPassword
  /\ row \in [Sids -> RowState] /\ totp \in Totp
  /\ mutex \in Devices \cup {None}
  /\ cookie \in [Devices -> Cookie] /\ inflight \in [Devices -> DeviceRequest]
  /\ hist \in History

SignInInit ==
  /\ exists = TRUE /\ password = 1
  /\ row = [s \in Sids |-> "new"] /\ totp = NoTotp /\ mutex = None
  /\ cookie = [d \in Devices |-> NoCookie] /\ inflight = [d \in Devices |-> NoRequest]
  /\ hist = [cut |-> 0, proved |-> {},
             crossed |-> FALSE, uses |-> [c \in Codes |-> 0]]

-----------------------------------------------------------------------------
(* Steps.                                                                   *)

Handling(d, s) == inflight[d].stage = s
Go(d, s) == inflight' = [inflight EXCEPT ![d].stage = s]
Begin(d, x) == inflight' = [inflight EXCEPT ![d] = x]
Done(d) == Begin(d, NoRequest)

\* What before_app_request lets through: the row is asked only for a cookie
\* that names one.
SignedIn(d) ==
  /\ cookie[d].level = "full"
  /\ cookie[d].sid # None => row[cookie[d].sid] = "live"

\* d may begin a request that needs a session.
Ready(d) == Handling(d, "idle") /\ SignedIn(d)

\* A write to the row of totp_secrets makes the open transactions of the others
\* stale.  (So does one to another table; any write may fail, see FinishSpend.)
Staling(d, r) ==
  [e \in Devices |-> IF e # d /\ r[e].stage = "spend"
                     THEN [r[e] EXCEPT !.stale = TRUE] ELSE r[e]]

\* The session rows of the account but those in keep are deleted.
RevokeBut(keep) ==
  row' = [s \in Sids |-> IF row[s] = "live" /\ s \notin keep THEN "gone" ELSE row[s]]

-----------------------------------------------------------------------------
(* The password.                                                            *)

\* login, up to the comparison with the stored hash; a refusal changes nothing.
VerifyRight(d) ==
  /\ Handling(d, "idle") /\ exists
  /\ Begin(d, Asking("gate", password, None, FALSE))
  /\ UNCHANGED <<account, row, totp, mutex, cookie, hist>>

\* is_enabled, for which an unreadable row is none.  The cookie is emptied; with
\* two factors it only names the user, until login_totp.
Gate(d) ==
  /\ Handling(d, "gate")
  /\ \/ /\ totp.enabled
        /\ cookie' = [cookie EXCEPT ![d] =
             Holding("half", None, inflight[d].since, inflight[d].late)]
        /\ Done(d)
     \/ Go(d, "create") /\ UNCHANGED cookie
  /\ UNCHANGED <<account, row, totp, mutex, hist>>

FullCookie(d, s) ==
  Holding("full", s, inflight[d].since, inflight[d].late)

\* create_session; if it fails the cookie alone is good.
CreateSession(d) ==
  /\ Handling(d, "create")
  /\ \/ \E s \in Sids :
          /\ row[s] = "new"
          /\ row' = [row EXCEPT ![s] = "live"]
          /\ cookie' = [cookie EXCEPT ![d] = FullCookie(d, s)]
     \/ cookie' = [cookie EXCEPT ![d] = FullCookie(d, None)] /\ UNCHANGED row
  /\ Done(d)
  /\ UNCHANGED <<account, totp, mutex, hist>>

\* signup: create_user, then authenticate, and a cookie without a session row.
\* If the name is locked out authenticate answers None, on which the handler
\* raises after it has emptied the cookie.
SignUp(d) ==
  /\ Handling(d, "idle") /\ ~exists /\ mutex = None /\ password < MaxPassword
  /\ exists' = TRUE /\ password' = password + 1
  /\ \/ cookie' = [cookie EXCEPT ![d] = NoCookie]
     \/ cookie' = [cookie EXCEPT ![d] =
          Holding("full", None, password', FALSE)]
  /\ UNCHANGED <<row, totp, mutex, inflight, hist>>

-----------------------------------------------------------------------------
(* The second factor.                                                       *)

\* login_totp with a code of the authenticator, right or wrong.
EnterCode(d) ==
  /\ Handling(d, "idle") /\ cookie[d].level = "half"
  /\ \/ /\ totp.enabled
        /\ Begin(d, Asking("create", cookie[d].since, None, cookie[d].late))
     \/ UNCHANGED inflight
  /\ UNCHANGED <<account, row, totp, mutex, cookie, hist>>

\* login_totp with a backup code: consume_backup_code, up to its SELECT inside
\* BEGIN.  A code that is not there changes nothing.
BeginSpend(d, c) ==
  /\ Handling(d, "idle") /\ cookie[d].level = "half"
  /\ totp.enabled /\ c \in totp.codes
  /\ Begin(d, Asking("spend", cookie[d].since, c, cookie[d].late))
  /\ UNCHANGED <<account, row, totp, mutex, cookie, hist>>

\* Its UPDATE and COMMIT: refused if somebody wrote since the SELECT.
Spent(d) ==
  /\ totp' = [totp EXCEPT !.codes = @ \ {inflight[d].key}]
  /\ hist' = [hist EXCEPT !.uses[inflight[d].key] = @ + 1]
  /\ inflight' = Staling(d, [inflight EXCEPT ![d] =
       Asking("create", inflight[d].since, None, inflight[d].late)])

\* Mutant of FinishSpend: no BEGIN before the SELECT.
FinishSpendUnchecked(d) ==
  /\ Handling(d, "spend")
  /\ Spent(d)
  /\ UNCHANGED <<account, row, mutex, cookie>>

FinishSpend(d) ==
  /\ Handling(d, "spend")
  /\ \/ ~inflight[d].stale /\ Spent(d)
     \/ Done(d) /\ UNCHANGED <<totp, hist>>
  /\ UNCHANGED <<account, row, mutex, cookie>>

\* enroll: a new secret replaces the row, enabled or not.
Enroll(d) ==
  /\ Ready(d)
  /\ \E k \in Secrets :
       /\ k # totp.secret /\ k \notin hist.proved
       /\ totp' = [NoTotp EXCEPT !.secret = k]
  /\ hist' = [hist EXCEPT !.crossed = @ \/ \E e \in Devices : Handling(e, "activate")]
  /\ inflight' = Staling(d, inflight)
  /\ UNCHANGED <<account, row, mutex, cookie>>

\* Mutant of BeginActivate: the code is not checked.
BeginActivateUnproved(d) ==
  /\ Ready(d)
  /\ totp.secret # None /\ ~totp.enabled
  /\ Begin(d, Asking("activate", 0, totp.secret, FALSE))
  /\ UNCHANGED <<account, row, totp, mutex, cookie, hist>>

\* activate: the row is read, and the code is one of its secret.
BeginActivate(d) ==
  /\ Ready(d)
  /\ totp.secret # None /\ ~totp.enabled
  /\ Begin(d, Asking("activate", 0, totp.secret, FALSE))
  /\ hist' = [hist EXCEPT !.proved = @ \cup {totp.secret}]
  /\ UNCHANGED <<account, row, totp, mutex, cookie>>

\* Its UPDATE, whose WHERE names the user only.
FinishActivate(d) ==
  /\ Handling(d, "activate")
  /\ \/ totp.secret = None /\ UNCHANGED totp
     \/ /\ totp.secret # None
        /\ \E c \in Codes :
             /\ hist.uses[c] = 0 /\ c \notin totp.codes
             /\ totp' = [secret |-> totp.secret, enabled |-> TRUE, codes |-> {c}]
  /\ inflight' = Staling(d, [inflight EXCEPT ![d] = NoRequest])
  /\ UNCHANGED <<account, row, mutex, cookie, hist>>

\* disable, after the password.
Disable(d) ==
  /\ Ready(d) /\ exists
  /\ totp' = NoTotp
  /\ inflight' = Staling(d, inflight)
  /\ UNCHANGED <<account, row, mutex, cookie, hist>>

-----------------------------------------------------------------------------
(* The password and the sessions.                                           *)

\* Mutant of ChangePassword: without the lock.
ChangePasswordUnlocked(d) ==
  /\ Ready(d) /\ exists /\ password < MaxPassword
  /\ Begin(d, Asking("change", password, None, FALSE))
  /\ UNCHANGED <<account, row, totp, mutex, cookie, hist>>

\* change_password: the current password is verified under the lock.
ChangePassword(d) ==
  /\ Ready(d) /\ exists /\ mutex = None /\ password < MaxPassword
  /\ mutex' = d
  /\ Begin(d, Asking("change", password, None, FALSE))
  /\ UNCHANGED <<account, row, totp, cookie, hist>>

\* The new hash is written over whatever is there, and the lock released.
WriteChange(d) ==
  /\ Handling(d, "change") /\ password < MaxPassword
  /\ exists' = TRUE /\ password' = password + 1
  /\ mutex' = IF mutex = d THEN None ELSE mutex
  /\ inflight' = [inflight EXCEPT ![d] = Asking("revoke", password', None, FALSE)]
  /\ UNCHANGED <<row, totp, cookie, hist>>

\* The database stays locked: upsert_user raises.
ChangeFails(d) ==
  /\ Handling(d, "change")
  /\ mutex' = IF mutex = d THEN None ELSE mutex
  /\ Done(d)
  /\ UNCHANGED <<account, row, totp, cookie, hist>>

\* What d's deletion of the other sessions overtakes: the requests at the given
\* stages, and the cookies that wait for their second factor.
Overtake(d, stages, own) ==
  /\ inflight' = Staling(d, [e \in Devices |->
       IF e = d THEN NoRequest
       ELSE IF inflight[e].stage \in stages THEN [inflight[e] EXCEPT !.late = TRUE]
       ELSE inflight[e]])
  /\ cookie' = [e \in Devices |->
       IF e = d THEN own
       ELSE IF cookie[e].level = "half" THEN [cookie[e] EXCEPT !.late = TRUE]
       ELSE cookie[e]]

\* Mutant of RevokeOld: the other sessions stay.
RevokeOldOwn(d) ==
  /\ Handling(d, "revoke")
  /\ RevokeBut(Sids \ {cookie[d].sid})
  /\ hist' = [hist EXCEPT !.cut = IF @ > inflight[d].since THEN @ ELSE inflight[d].since]
  /\ Overtake(d, LoggingIn, [cookie[d] EXCEPT !.since = inflight[d].since])
  /\ UNCHANGED <<account, totp, mutex>>

\* api_change_password: delete_sessions_for_user, except this one's.  If that
\* fails the answer is the same.
RevokeOld(d) ==
  /\ Handling(d, "revoke")
  /\ \/ /\ RevokeBut({cookie[d].sid})
        /\ hist' = [hist EXCEPT !.cut = IF @ > inflight[d].since THEN @ ELSE inflight[d].since]
        /\ Overtake(d, LoggingIn, [cookie[d] EXCEPT !.since = inflight[d].since])
     \/ Done(d) /\ UNCHANGED <<row, hist, cookie>>
  /\ UNCHANGED <<account, totp, mutex>>

\* reset_password_hash, for a mailed link: it takes no lock, and revokes
\* nothing.
Reset(d) ==
  /\ Handling(d, "idle") /\ exists /\ password < MaxPassword
  /\ password' = password + 1
  /\ inflight' = [e \in Devices |->
       IF Handling(e, "change") THEN [inflight[e] EXCEPT !.late = TRUE] ELSE inflight[e]]
  /\ UNCHANGED <<exists, row, totp, mutex, cookie, hist>>

\* logout: the row is deleted, if the database lets it, and the cookie emptied.
Logout(d) ==
  /\ Handling(d, "idle") /\ cookie[d].level = "full"
  /\ \/ RevokeBut(Sids \ {cookie[d].sid})
     \/ UNCHANGED row
  /\ cookie' = [cookie EXCEPT ![d] = NoCookie]
  /\ UNCHANGED <<account, totp, mutex, inflight, hist>>

\* api_revoke_session and api_revoke_other_sessions: the user's own sessions.
Revoke(d) ==
  /\ Ready(d)
  /\ \/ \E s \in Sids : row[s] = "live" /\ RevokeBut(Sids \ {s})
     \/ RevokeBut({cookie[d].sid})
  /\ UNCHANGED <<account, totp, mutex, cookie, inflight, hist>>

\* _enforce_server_side_session: the cookie is emptied when its row is gone, or
\* cannot be read.
Dropped(d) ==
  /\ Handling(d, "idle") /\ cookie[d].level = "full" /\ cookie[d].sid # None
  /\ cookie' = [cookie EXCEPT ![d] = NoCookie]
  /\ UNCHANGED <<account, row, totp, mutex, inflight, hist>>

\* api_delete_my_account wipes whatever names the user, in one transaction.
DeleteMe(d) ==
  /\ Ready(d) /\ exists
  /\ exists' = FALSE
  /\ totp' = NoTotp
  /\ RevokeBut({})
  /\ hist' = [hist EXCEPT !.cut = password + 1]
  /\ Overtake(d, LoggingIn \cup {"change"}, NoCookie)
  /\ UNCHANGED <<password, mutex>>

\* delete_user, by an administrator, deletes the user's row and no other.
AdminDelete ==
  /\ exists /\ mutex = None
  /\ exists' = FALSE
  /\ UNCHANGED <<password, row, totp, mutex, cookie, inflight, hist>>

-----------------------------------------------------------------------------
(* Time and failure.                                                        *)

SessionExpires(s) ==
  /\ row[s] = "live"
  /\ row' = [row EXCEPT ![s] = "gone"]
  /\ UNCHANGED <<account, totp, mutex, cookie, inflight, hist>>

\* The process is killed.  The cookies are lost with it unless SEO_SUITE_SECRET
\* is set.
ServerRestart ==
  /\ mutex' = None
  /\ inflight' = [d \in Devices |-> NoRequest]
  /\ cookie' \in {cookie, [d \in Devices |-> NoCookie]}
  /\ UNCHANGED <<account, row, totp, hist>>

DeviceStep(d) ==
  \/ VerifyRight(d) \/ Gate(d) \/ CreateSession(d) \/ SignUp(d)
  \/ EnterCode(d) \/ \E c \in Codes : BeginSpend(d, c)
  \/ FinishSpend(d) \/ Enroll(d) \/ BeginActivate(d) \/ FinishActivate(d)
  \/ Disable(d) \/ ChangePassword(d) \/ WriteChange(d) \/ ChangeFails(d)
  \/ RevokeOld(d) \/ Reset(d) \/ Logout(d) \/ Revoke(d) \/ Dropped(d) \/ DeleteMe(d)

SignInNext ==
  \/ \E d \in Devices : DeviceStep(d)
  \/ \E s \in Sids : SessionExpires(s)
  \/ AdminDelete \/ ServerRestart

SignInSpec == SignInInit /\ [][SignInNext]_signInVars
-----------------------------------------------------------------------------
(* Properties.                                                              *)

\* A session that was there when a password change revoked the others, and was
\* opened with an older password, is of no use any more: api_change_password
\* and api_delete_my_account.  Excepted are those who were signing in at that
\* moment, and cookies without a session row, which nobody can revoke.
OldPasswordOut ==
  \A d \in Devices :
    SignedIn(d) /\ cookie[d].sid # None /\ cookie[d].since < hist.cut => cookie[d].late

\* The password that change_password replaces is the one it verified, unless a
\* mailed link or a deletion, neither of which takes the lock, came between.
ChangeIsSerial ==
  [][\A d \in Devices : WriteChange(d) => inflight[d].since = password \/ inflight[d].late]_signInVars

\* A backup code presented twice, also at the same time, signs in once:
\* consume_backup_code.
CodeOnce == \A c \in Codes : hist.uses[c] <= 1

\* The secret that is asked for at sign-in is one the user has entered a code
\* of, unless it was replaced while it was being activated: activate.
EnabledSecretProved ==
  totp.enabled /\ totp.secret \notin hist.proved => hist.crossed
=============================================================================
