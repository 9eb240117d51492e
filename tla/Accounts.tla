------------------------------ MODULE Accounts ------------------------------
(***************************************************************************)
(* The account store: core/auth.py, the users and auth_tokens tables of    *)
(* core/db.py and the handlers of app/blueprints/auth_views.py that change *)
(* them.  Each request is a process; signing up, deleting by an            *)
(* administrator and changing a password hold _users_lock between their    *)
(* check and their write, deleting oneself and using a mailed link do not. *)
(*                                                                         *)
(* SQLite runs in WAL mode: a transaction that has read fails when it      *)
(* writes after somebody else did (stale).  Passwords are not told apart:  *)
(* a request whose password is wrong or too weak changes nothing here.     *)
(***************************************************************************)
EXTENDS FiniteSets, Naturals

CONSTANTS
  Users,            \* names of accounts; the environment's is not one
  Requests,         \* requests in flight at a time
  Links,            \* bound of the model: links mailed in its lifetime
  Nobody,           \* no request, no user, no link
  EnvAdmin          \* whether SEO_SUITE_PASSWORD_HASH names an administrator

ASSUME AccountsAssumption ==
  /\ Nobody \notin Users \cup Requests \cup Links
  /\ EnvAdmin \in BOOLEAN

VARIABLES
  accounts,         \* users with a row
  admins,           \* those whose row has is_admin
  verified,         \* those whose row has email_verified
  link,             \* auth_tokens
  used,             \* history: how often each link changed an account
  lock,             \* _users_lock
  req,              \* the requests
  overlapped        \* history: a removal ended while another was under way

vars == <<accounts, admins, verified, link, used, lock, req, overlapped>>

table == <<accounts, admins, verified>>

Kind == {"password_reset", "email_verify"}
LinkState == {"new", "live", "spent", "expired", "gone"}
Link == [owner : Users \cup {Nobody}, kind : Kind, state : LinkState]

\* idle: no request; insert, remove, update: create_user, delete_user and
\* change_password past their check, with the lock; blind: create_user whose
\* check could not read the users; wipe: self-deletion past its check; issue: about to mint a link; consume: a reset past its peek;
\* spend: in the transaction of consume_auth_token, past its read; apply: the
\* link is consumed, the account not yet changed.
Locked == {"insert", "blind", "remove", "update"}
Stage == Locked \cup {"idle", "wipe", "issue", "consume", "spend", "apply"}

Request == [stage : Stage, user : Users \cup {Nobody}, admin : BOOLEAN,
            link : Links \cup {Nobody}, kind : Kind, stale : BOOLEAN]

\* What a request is doing to the account u, and with the link l.
Doing(stage, u, admin) ==
  [stage |-> stage, user |-> u, admin |-> admin,
   link |-> Nobody, kind |-> "password_reset", stale |-> FALSE]

Using(stage, u, l, k) ==
  [stage |-> stage, user |-> u, admin |-> FALSE,
   link |-> l, kind |-> k, stale |-> FALSE]

Idle == Doing("idle", Nobody, FALSE)

TypeOK ==
  /\ accounts \subseteq Users
  /\ admins \subseteq accounts
  /\ verified \subseteq accounts
  /\ link \in [Links -> Link]
  /\ used \in [Links -> Nat]
  /\ lock \in Requests \cup {Nobody}
  /\ req \in [Requests -> Request]
  /\ overlapped \in BOOLEAN

Init ==
  /\ accounts = {} /\ admins = {} /\ verified = {}
  /\ link = [l \in Links |->
       [owner |-> Nobody, kind |-> "password_reset", state |-> "new"]]
  /\ used = [l \in Links |-> 0]
  /\ lock = Nobody
  /\ req = [r \in Requests |-> Idle]
  /\ overlapped = FALSE

-----------------------------------------------------------------------------
(* Steps of a request.                                                      *)

At(r, s) == req[r].stage = s

\* r goes on as x without having written.
Continue(r, x) == req' = [req EXCEPT ![r] = x]

\* r goes on as x after a write, which makes every open read stale.
Wrote(r, x) ==
  req' = [s \in Requests |->
            IF s = r THEN x
            ELSE [req[s] EXCEPT !.stale = @ \/ req[s].stage = "spend"]]

\* Mutant of Enter: the check is made without the lock.
EnterUnlocked(r, stage, u, admin) ==
  /\ At(r, "idle")
  /\ Continue(r, Doing(stage, u, admin))
  /\ UNCHANGED <<table, link, used, lock, overlapped>>

\* Check made under the lock: r keeps it, and its user, until it has written.
Enter(r, stage, u, admin) ==
  /\ At(r, "idle") /\ lock = Nobody
  /\ lock' = r
  /\ Continue(r, Doing(stage, u, admin))
  /\ UNCHANGED <<table, link, used, overlapped>>

Exit(r) ==
  /\ lock' = Nobody
  /\ Wrote(r, Idle)
  /\ UNCHANGED <<link, used>>

\* The row of u is written with this is_admin.
Upsert(u, admin) ==
  /\ accounts' = accounts \cup {u}
  /\ admins' = IF admin THEN admins \cup {u} ELSE admins \ {u}
  /\ UNCHANGED <<verified, overlapped>>

\* The row of u is deleted by r.
Remove(r, u) ==
  /\ accounts' = accounts \ {u}
  /\ admins' = admins \ {u}
  /\ verified' = verified \ {u}
  /\ overlapped' = (overlapped \/ \E s \in Requests \ {r} :
                                    req[s].stage \in {"remove", "wipe"})

\* Mutant of Removable: administrators are counted without leaving out the
\* one to be deleted.
RemovableCountsSelf(u) == EnvAdmin \/ u \notin admins \/ admins # {}

\* The guard of both deletions.
Removable(u) == EnvAdmin \/ u \notin admins \/ admins \ {u} # {}

-----------------------------------------------------------------------------
(* Accounts.                                                                *)

\* create_user.  The first account becomes an administrator's if the
\* environment has none; only /api/users asks for one.
BeginCreate(r, u, asked) ==
  /\ u \notin accounts
  /\ Enter(r, "insert", u, asked \/ (accounts = {} /\ ~EnvAdmin))

\* load_users answers a SELECT that fails with no users: create_user takes the
\* name for free and the store for empty.
BeginBlindly(r, u, asked) == Enter(r, "blind", u, asked \/ ~EnvAdmin)

FinishCreate(r) ==
  /\ At(r, "insert") \/ At(r, "blind")
  /\ Upsert(req[r].user, req[r].admin)
  /\ Exit(r)

\* delete_user, called by /api/users/<username>.
BeginDelete(r, u) ==
  /\ u \in accounts /\ Removable(u)
  /\ Enter(r, "remove", u, FALSE)

FinishDelete(r) ==
  /\ At(r, "remove")
  /\ Remove(r, req[r].user)
  /\ Exit(r)

\* Mutant of BeginChange: the row written back is built anew, without rank.
BeginChangeNewRow(r, u) ==
  /\ u \in accounts
  /\ Enter(r, "update", u, FALSE)

\* change_password: the row read under the lock is written back with a new
\* hash.
BeginChange(r, u) ==
  /\ u \in accounts
  /\ Enter(r, "update", u, u \in admins)

FinishChange(r) ==
  /\ At(r, "update")
  /\ Upsert(req[r].user, req[r].admin)
  /\ Exit(r)

\* api_delete_my_account takes no lock.
BeginWipe(r, u) ==
  /\ At(r, "idle")
  /\ u \in accounts /\ Removable(u)
  /\ Continue(r, Doing("wipe", u, FALSE))
  /\ UNCHANGED <<table, link, used, lock, overlapped>>

\* One transaction, which begins with a write.
FinishWipe(r) ==
  /\ At(r, "wipe")
  /\ Remove(r, req[r].user)
  /\ link' = [l \in Links |->
                IF link[l].owner = req[r].user
                THEN [link[l] EXCEPT !.state = "gone"] ELSE link[l]]
  /\ Wrote(r, Idle)
  /\ UNCHANGED <<used, lock>>

-----------------------------------------------------------------------------
(* Links.                                                                   *)

\* api_request_password_reset and api_send_verification, up to
\* issue_auth_token.  A reset is for an account that was looked up; a session
\* outlives its account, and can still ask for a verification.
BeginIssue(r, u, k, l) ==
  /\ At(r, "idle")
  /\ IF k = "password_reset" THEN u \in accounts ELSE u \notin verified
  /\ link[l].state = "new" /\ \A s \in Requests : req[s].link # l
  /\ Continue(r, Using("issue", u, l, k))
  /\ UNCHANGED <<table, link, used, lock, overlapped>>

\* issue_auth_token: older links of the user and kind are marked consumed.
Issue(r) ==
  LET u == req[r].user
      k == req[r].kind
      Older(l) == link[l].owner = u /\ link[l].kind = k /\ link[l].state = "live"
  IN  /\ At(r, "issue")
      /\ link' = [l \in Links |->
                    IF l = req[r].link
                    THEN [owner |-> u, kind |-> k, state |-> "live"]
                    ELSE IF Older(l) THEN [link[l] EXCEPT !.state = "spent"]
                    ELSE link[l]]
      /\ Wrote(r, Idle)
      /\ UNCHANGED <<table, used, lock, overlapped>>

\* Its ttl_seconds have passed.
Expire(l) ==
  /\ link[l].state = "live"
  /\ link' = [link EXCEPT ![l].state = "expired"]
  /\ UNCHANGED <<table, used, lock, req, overlapped>>

\* api_reset_password looks at the link before it checks the new password.
Peek(r, l) ==
  /\ At(r, "idle")
  /\ link[l].state = "live" /\ link[l].kind = "password_reset"
  /\ Continue(r, Using("consume", link[l].owner, l, link[l].kind))
  /\ UNCHANGED <<table, link, used, lock, overlapped>>

\* consume_auth_token: BEGIN and SELECT.  The new password may also have been
\* refused, or the link have died since the peek.
ConsumeRead(r) ==
  /\ At(r, "consume")
  /\ \/ /\ link[req[r].link].state = "live"
        /\ Continue(r, [req[r] EXCEPT !.stage = "spend"])
     \/ Continue(r, Idle)
  /\ UNCHANGED <<table, link, used, lock, overlapped>>

\* api_verify_email consumes at once.
VerifyRead(r, l) ==
  /\ At(r, "idle")
  /\ link[l].state = "live" /\ link[l].kind = "email_verify"
  /\ Continue(r, Using("spend", link[l].owner, l, link[l].kind))
  /\ UNCHANGED <<table, link, used, lock, overlapped>>

\* Mutant of Spend: no BEGIN, so that the UPDATE does not depend on what was
\* read.
SpendUnchecked(r) ==
  /\ At(r, "spend")
  /\ link' = [link EXCEPT ![req[r].link].state = "spent"]
  /\ Wrote(r, [req[r] EXCEPT !.stage = "apply"])
  /\ UNCHANGED <<table, used, lock, overlapped>>

\* consume_auth_token: UPDATE and COMMIT.
Spend(r) ==
  /\ At(r, "spend") /\ ~req[r].stale
  /\ link' = [link EXCEPT ![req[r].link].state = "spent"]
  /\ Wrote(r, [req[r] EXCEPT !.stage = "apply"])
  /\ UNCHANGED <<table, used, lock, overlapped>>

\* reset_password_hash and set_email_verified: no row, no change.
Apply(r) ==
  LET u == req[r].user
  IN  /\ At(r, "apply")
      /\ used' = IF u \in accounts
                 THEN [used EXCEPT ![req[r].link] = @ + 1] ELSE used
      /\ verified' = IF req[r].kind = "email_verify"
                     THEN verified \cup ({u} \cap accounts) ELSE verified
      /\ Wrote(r, Idle)
      /\ UNCHANGED <<accounts, admins, link, lock, overlapped>>

\* The write of r is refused: the UPDATE of a stale transaction at once, any
\* write when the database stays locked for five seconds.
WriteFails(r) ==
  /\ req[r].stage \notin {"idle", "consume"}
  /\ lock' = IF lock = r THEN Nobody ELSE lock
  /\ Continue(r, Idle)
  /\ UNCHANGED <<table, link, used, overlapped>>

-----------------------------------------------------------------------------

\* Sessions, login attempts and the like are written to the same database.
OtherWrite ==
  /\ req' = [s \in Requests |->
               [req[s] EXCEPT !.stale = @ \/ req[s].stage = "spend"]]
  /\ UNCHANGED <<table, link, used, lock, overlapped>>

\* The process is killed; SQLite keeps what was committed.
Restart ==
  /\ req' = [r \in Requests |-> Idle]
  /\ lock' = Nobody
  /\ UNCHANGED <<table, link, used, overlapped>>

Step(r) ==
  \/ \E u \in Users :
       \/ \E asked \in BOOLEAN :
            BeginCreate(r, u, asked) \/ BeginBlindly(r, u, asked)
       \/ BeginDelete(r, u) \/ BeginChange(r, u) \/ BeginWipe(r, u)
       \/ \E k \in Kind, l \in Links : BeginIssue(r, u, k, l)
  \/ FinishCreate(r) \/ FinishDelete(r) \/ FinishChange(r) \/ FinishWipe(r)
  \/ Issue(r)
  \/ \E l \in Links : Peek(r, l) \/ VerifyRead(r, l)
  \/ ConsumeRead(r) \/ Spend(r) \/ Apply(r) \/ WriteFails(r)

Next ==
  \/ \E r \in Requests : Step(r)
  \/ \E l \in Links : Expire(l)
  \/ OtherWrite \/ Restart

Spec == Init /\ [][Next]_vars

-----------------------------------------------------------------------------
(* Properties.                                                              *)

\* Unless two removals overlapped, the store that has accounts has an
\* administrator, who can be the only one to make another: the guards of
\* delete_user and api_delete_my_account, and the bootstrap of create_user.
LastAdminKept ==
  ~EnvAdmin /\ ~overlapped /\ accounts # {} => admins # {}

\* create_user writes under a name nobody has taken since it looked: of two
\* people who sign up under one name, one is refused.  (Who could not look may
\* take over an account.)
CreateOverwritesNobody ==
  [][\A r \in Requests :
       FinishCreate(r) /\ At(r, "insert") => req[r].user \notin accounts]_vars

\* Nothing changes the rank of an account that exists: the row that
\* change_password writes back has the is_admin of the row it replaces.  The
\* exception is the blind create_user, which takes its row for the first.
RankKept ==
  [][\A u \in accounts \cap accounts' :
       (u \in admins) # (u \in admins') =>
         \E r \in Requests : FinishCreate(r) /\ At(r, "blind") /\ req[r].user = u]_vars

\* Two requests that present the same link, or one that presents it again,
\* change an account once: consume_auth_token.
UsedOnce == \A l \in Links : used[l] <= 1

\* Of the links of one kind mailed to a user, one at most can be used:
\* issue_auth_token.
OneLiveLink ==
  \A l, m \in Links :
    /\ link[l].state = "live" /\ link[m].state = "live"
    /\ link[l].owner = link[m].owner /\ link[l].kind = link[m].kind
    => l = m

\* The rows that requests may write although the store has changed since they
\* looked at it: create_user could not look, and change_password holds a row
\* that was deleted without the lock.
Rows(stage) == {<<req[r].user, req[r].admin>> : r \in {r \in Requests : At(r, stage)}}

\* Whom which link was mailed to, and what for.
Mailed ==
  {<<l, link[l].owner, link[l].kind>> : l \in {l \in Links : link[l].state # "new"}}

Blind == Rows("blind")

Returning == {x \in Rows("update") : x[1] \notin accounts}

\* The requests implement a store that is changed in single steps, each right
\* about the store it changes: whatever they looked at, from a check without
\* the lock to a link that was live, is still as good when they write.  Beside
\* these steps there are only the three exceptions AccountBook has.
Book == INSTANCE AccountBook WITH
  mailed <- Mailed, blind <- Blind, returning <- Returning

ImplementsBook == Book!Spec
=============================================================================
