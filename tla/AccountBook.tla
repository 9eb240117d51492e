---------------------------- MODULE AccountBook ----------------------------
(***************************************************************************)
(* What the account store promises, with no requests in it: every change   *)
(* of an account is one step, and what may go into that step is only what  *)
(* is true of the store when it is taken.  The promise is that of the      *)
(* checks in create_user, change_password and delete_user of core/auth.py  *)
(* and of the docstring of consume_auth_token in core/db.py; Accounts is   *)
(* its implementation.                                                     *)
(*                                                                         *)
(* Three things the store does beside it are written down as such: a       *)
(* sign-up that could not read the accounts, a password change that brings *)
(* back an account deleted under its hands, and removals that overlap.     *)
(***************************************************************************)
EXTENDS Naturals

CONSTANTS
  Users,            \* names of accounts
  Links,            \* links that are mailed
  EnvAdmin          \* whether the environment names an administrator

VARIABLES
  accounts,         \* the accounts there are
  admins,           \* those of administrators
  verified,         \* those whose address is verified
  mailed,           \* <<link, user, kind>>: whom a link was mailed to, for what
  used,             \* how often each link changed an account
  blind,            \* <<user, rank>> of a sign-up that could not look
  returning,        \* <<user, rank>> of a deleted account that may come back
  overlapped        \* two removals have overlapped

vars == <<accounts, admins, verified, mailed, used, blind, returning,
          overlapped>>

links == <<mailed, used>>

Kind == {"password_reset", "email_verify"}

Init ==
  /\ accounts = {} /\ admins = {} /\ verified = {}
  /\ mailed = {} /\ used = [l \in Links |-> 0]
  /\ blind = {} /\ returning = {}
  /\ overlapped = FALSE

Put(u, admin) ==
  /\ accounts' = accounts \cup {u}
  /\ admins' = IF admin THEN admins \cup {u} ELSE admins \ {u}
  /\ UNCHANGED <<verified, links, overlapped>>

\* Unless the environment or a mishap provides for it, the first account is an
\* administrator's, and an administrator is left.
Excused == EnvAdmin \/ overlapped
Founds(admin) == Excused \/ accounts # {} \/ admin
Removable(u) == Excused \/ u \notin admins \/ admins \ {u} # {}

(* An account is created under a free name.                                 *)
SignUp(u, admin) ==
  /\ u \notin accounts /\ Founds(admin)
  /\ Put(u, admin)
  /\ UNCHANGED <<blind, returning>>

(* The accounts could not be read: the name is taken for free and the store *)
(* for empty, so that an account that is there may be taken over.           *)
LookFails(u, admin) ==
  /\ EnvAdmin \/ admin
  /\ blind' = {<<u, admin>>}
  /\ UNCHANGED <<accounts, admins, verified, links, returning, overlapped>>

TakeOver(u, admin) ==
  /\ <<u, admin>> \in blind
  /\ Put(u, admin)
  /\ blind' = {}
  /\ UNCHANGED returning

(* An account is deleted, with its rank; somebody may be about to write it  *)
(* back.                                                                    *)
Remove(u) ==
  /\ Removable(u)
  /\ accounts' = accounts \ {u}
  /\ admins' = admins \ {u}
  /\ verified' = verified \ {u}
  /\ returning' \in
       SUBSET (returning \cup {<<w, w \in admins>> : w \in {u} \cap accounts})
  /\ overlapped' \in {overlapped, TRUE}
  /\ UNCHANGED <<links, blind>>

(* It comes back as it was, but for its address.                            *)
Return(u, admin) ==
  /\ <<u, admin>> \in returning /\ Founds(admin)
  /\ Put(u, admin)
  /\ returning' = {}
  /\ UNCHANGED blind

(* What was about to be written is given up.                                *)
Forget ==
  /\ blind' \subseteq blind /\ returning' \subseteq returning
  /\ UNCHANGED <<accounts, admins, verified, links, overlapped>>

(* A link is mailed to one user, for one purpose.                           *)
Mail(l, u, k) ==
  /\ \A x \in mailed : x[1] # l
  /\ mailed' = mailed \cup {<<l, u, k>>}
  /\ UNCHANGED <<accounts, admins, verified, used, blind, returning, overlapped>>

(* It changes that user's account, for that purpose, once.                  *)
Redeem(l, u, k) ==
  /\ <<l, u, k>> \in mailed /\ u \in accounts /\ used[l] = 0
  /\ used' = [used EXCEPT ![l] = 1]
  /\ verified' = IF k = "email_verify" THEN verified \cup {u} ELSE verified
  /\ UNCHANGED <<accounts, admins, mailed, blind, returning, overlapped>>

Next ==
  \/ \E u \in Users :
       \/ \E admin \in BOOLEAN :
            \/ SignUp(u, admin) \/ Return(u, admin)
            \/ LookFails(u, admin) \/ TakeOver(u, admin)
       \/ Remove(u)
       \/ \E l \in Links, k \in Kind : Mail(l, u, k) \/ Redeem(l, u, k)
  \/ Forget

Spec == Init /\ [][Next]_vars
=============================================================================
