------------------------------ MODULE Lockout ------------------------------
(***************************************************************************)
(* The lockout of one user name after failed logins: _record_failed_login, *)
(* _is_locked_out, _clear_failed_logins and authenticate in core/auth.py,  *)
(* and the login_attempts table of core/db.py.  Failures are counted in    *)
(* memory and in the table; a success clears the former only, a restart    *)
(* loses the former only, and a busy database loses the latter.  A table   *)
(* that cannot be read counts as one without failures.                     *)
(*                                                                         *)
(* Each client sends one request at a time, and requests overlap.  Time    *)
(* passes in ticks; a failure is known by its age, and forgotten when the  *)
(* age is Window.                                                          *)
(***************************************************************************)
EXTENDS FiniteSets, Naturals

CONSTANTS
  Clients,          \* who sends requests
  Threshold,        \* _LOCKOUT_THRESHOLD
  Window,           \* _LOCKOUT_WINDOW, in ticks
  MaxAttempts,      \* bound of the model: failures of one age; counting goes
                    \* on at least until the name is locked
  MaxLost,          \* bound of the model: of those, lost to the table
  MaxBlind          \* bound of the model: looks of one age that let a locked
                    \* name through, for the table could not be read

ASSUME LockoutAssumption ==
  /\ IsFiniteSet(Clients)
  /\ Threshold \in Nat \ {0} /\ Window \in Nat \ {0}
  /\ MaxAttempts \in Nat /\ MaxAttempts >= Threshold
  /\ MaxLost \in Nat /\ MaxBlind \in Nat

VARIABLES
  failed,           \* _failed_attempts: how many of each age
  attempts,         \* login_attempts without success: how many of each age
  stage,            \* where each client's request is
  guesses,          \* history: passwords refused, by age
  lost,             \* history: of these, the failures the table does not have
  blind,            \* history: requests let through though the table locks the
                    \* name, for it could not be read
  recent            \* history: passwords refused since the memory was emptied

lockoutVars == <<failed, attempts, stage, guesses, lost, blind, recent>>

Ages == 0..Window - 1
Counts == [Ages -> 0..MaxAttempts]

\* entered: the login handler has looked, slipped: and could not see that the
\* table locks the name; checked: authenticate has looked, too;
\* failed, counted: the password was wrong, before and after it is counted in
\* memory; code, noted: the same for a code of login_totp; verified: it was right.
LockoutStage == {"idle", "entered", "slipped", "checked", "failed", "counted", "code", "noted",
                 "verified"}

LockoutTypeOK ==
  /\ failed \in Counts /\ attempts \in Counts
  /\ stage \in [Clients -> LockoutStage]
  /\ guesses \in [Ages -> Nat] /\ lost \in [Ages -> Nat]
  /\ blind \in [Ages -> Nat] /\ recent \in [Ages -> Nat]

Nothing == [a \in Ages |-> 0]

LockoutInit ==
  /\ failed = Nothing /\ attempts = Nothing
  /\ stage = [c \in Clients |-> "idle"]
  /\ guesses = Nothing /\ lost = Nothing
  /\ blind = Nothing /\ recent = Nothing

-----------------------------------------------------------------------------

\* How many are younger than k ticks, for each k.
Younger(f) ==
  LET sum[k \in 0..Window] == IF k = 0 THEN 0 ELSE sum[k - 1] + f[k - 1]
  IN  sum

Total(f) == Younger(f)[Window]
More(f, n) == [f EXCEPT ![0] = @ + n]
Add(f) == More(f, 1)

\* A failure more; the model stops counting at its bound.
Capped(f) == IF f[0] < MaxAttempts THEN Add(f) ELSE f

Stands(c, s) == stage[c] = s
Go(c, s) == stage' = [stage EXCEPT ![c] = s]

\* Mutant of Locked: the table is not asked, as if it were only a trail.
LockedInMemory(readable) == Total(failed) >= Threshold

\* _is_locked_out: count_recent_failures answers 0 when the query fails, and
\* any other error is only logged.
Locked(readable) ==
  \/ Total(failed) >= Threshold
  \/ readable /\ Total(attempts) >= Threshold

\* What it answers when the table can be read.
LockedOut == Locked(TRUE)

\* Mutant of Enter: authenticate alone looks, and notes what it refuses.
EnterKnocking(c) ==
  /\ Stands(c, "idle")
  /\ Go(c, "entered")
  /\ UNCHANGED <<failed, attempts, guesses, lost, blind, recent>>

\* login, before authenticate: who is locked out is refused with 429, and that
\* is not an attempt.
Enter(c) ==
  /\ Stands(c, "idle")
  /\ \E readable \in BOOLEAN :
       ~Locked(readable) /\ Go(c, IF LockedOut THEN "slipped" ELSE "entered")
  /\ UNCHANGED <<failed, attempts, guesses, lost, blind, recent>>

\* authenticate looks again; what it refuses is an attempt in the table.
Refuse(c) ==
  /\ Go(c, "idle")
  /\ attempts' \in {attempts, Capped(attempts)}
  /\ UNCHANGED blind

LetPass(c) ==
  /\ Go(c, "checked")
  /\ blind' = IF LockedOut THEN Add(blind) ELSE blind
  /\ blind'[0] <= MaxBlind
  /\ UNCHANGED attempts

Check(c) ==
  /\ Stands(c, "entered") \/ Stands(c, "slipped")
  /\ \E readable \in BOOLEAN :
       IF Locked(readable) THEN Refuse(c) ELSE LetPass(c)
  /\ UNCHANGED <<failed, guesses, lost, recent>>

\* The hash does not match, or there is no such user and a dummy is compared.
VerifyWrong(c) ==
  /\ Stands(c, "checked")
  /\ Go(c, "failed")
  /\ guesses' = Add(guesses) /\ recent' = Add(recent)
  /\ UNCHANGED <<failed, attempts, lost, blind>>

VerifyRight(c) ==
  /\ Stands(c, "checked")
  /\ Go(c, "verified")
  /\ UNCHANGED <<failed, attempts, guesses, lost, blind, recent>>

\* login_totp, which does not look: a wrong code.
WrongCode(c) ==
  /\ Stands(c, "idle")
  /\ Go(c, "code")
  /\ UNCHANGED <<failed, attempts, guesses, lost, blind, recent>>

\* _record_failed_login
CountFailure(c) ==
  /\ \/ Stands(c, "failed") /\ Go(c, "counted")
     \/ Stands(c, "code") /\ Go(c, "noted")
  /\ failed' = Capped(failed)
  /\ UNCHANGED <<attempts, guesses, lost, blind, recent>>

\* _record_attempt and record_login_attempt, which swallow the error of a
\* database that stays locked.
RecordFailure(c) ==
  /\ Stands(c, "counted") \/ Stands(c, "noted")
  /\ \/ attempts' = Capped(attempts) /\ UNCHANGED lost
     \/ /\ lost' = IF Stands(c, "counted") THEN Add(lost) ELSE lost
        /\ lost'[0] <= MaxLost
        /\ UNCHANGED attempts
  /\ Go(c, "idle")
  /\ UNCHANGED <<failed, guesses, blind, recent>>

\* After a success: _clear_failed_logins.  Its row is not a failure.
ClearFailures(c) ==
  /\ Stands(c, "verified")
  /\ Go(c, "idle")
  /\ failed' = Nothing /\ recent' = Nothing
  /\ UNCHANGED <<attempts, guesses, lost, blind>>

\* change_password clears the failures in memory, and so does, for a name it
\* happens on, the sweep of a dict of more than 10000 names.
Forget ==
  /\ failed' = Nothing /\ recent' = Nothing
  /\ UNCHANGED <<attempts, stage, guesses, lost, blind>>

\* api_delete_my_account deletes the user's attempts; who takes the name next
\* starts afresh in the table.
DeleteAttempts ==
  /\ attempts' = Nothing /\ guesses' = Nothing
  /\ lost' = Nothing /\ blind' = Nothing
  /\ UNCHANGED <<failed, stage, recent>>

\* Everything gets older.
Older(f) == [a \in Ages |-> IF a = 0 THEN 0 ELSE f[a - 1]]

Tick ==
  /\ failed' = Older(failed) /\ attempts' = Older(attempts)
  /\ guesses' = Older(guesses) /\ lost' = Older(lost)
  /\ blind' = Older(blind) /\ recent' = Older(recent)
  /\ UNCHANGED stage

\* Requests whose password was refused and that have not got to the table.
Unrecorded == {c \in Clients : stage[c] \in {"failed", "counted"}}

\* The process is killed: requests vanish, and what is in memory.
Killed ==
  /\ lost' = More(lost, Cardinality(Unrecorded))
  /\ lost'[0] <= MaxLost
  /\ stage' = [c \in Clients |-> "idle"]
  /\ failed' = Nothing /\ recent' = Nothing
  /\ UNCHANGED <<attempts, guesses, blind>>

Step(c) ==
  \/ Enter(c) \/ Check(c) \/ VerifyWrong(c) \/ VerifyRight(c) \/ WrongCode(c)
  \/ CountFailure(c) \/ RecordFailure(c) \/ ClearFailures(c)

LockoutNext ==
  \/ \E c \in Clients : Step(c)
  \/ Forget \/ DeleteAttempts \/ Tick \/ Killed

LockoutSpec == LockoutInit /\ [][LockoutNext]_lockoutVars

\* A request that began is answered, and time goes on.
LockoutFairness ==
  /\ WF_lockoutVars(Tick)
  /\ \A c \in Clients :
       WF_lockoutVars(Check(c) \/ VerifyWrong(c) \/ VerifyRight(c)
                      \/ CountFailure(c) \/ RecordFailure(c) \/ ClearFailures(c))

-----------------------------------------------------------------------------
(* Properties.                                                              *)

\* Within any window as many passwords are refused as the threshold lets
\* through, one for each request that had already looked, those whose failure
\* never reached the table, and those let through because the table could not
\* be read: neither a restart nor a success in between starts the count afresh
\* while the table answers (the docstring of _is_locked_out).  Where it does
\* not, what is in memory still locks: between two times the memory is emptied,
\* only the threshold and the requests under way count.
GuessesBounded ==
  /\ Total(guesses) <= Threshold - 1 + Cardinality(Clients) + Total(lost)
                         + Total(blind)
  /\ Total(recent) <= Threshold - 1 + Cardinality(Clients)

\* The strengthening under which the bounds are inductive, for the last k ticks.
\* A refused password is in the table, or lost, or on its way, until the table
\* has as many as the threshold; a request gets past both looks only before, or
\* when the table cannot be read.
Passing == {c \in Clients : stage[c] = "checked"}

Covered(k) ==
  \/ Younger(guesses)[k] <= Younger(attempts)[k] + Younger(lost)[k]
                              + Cardinality(Unrecorded)
  \/ Younger(attempts)[k] >= Threshold

Bounded(k) ==
  Younger(guesses)[k] + Cardinality(Passing)
    <= Threshold - 1 + Cardinality(Clients) + Younger(lost)[k]
         + Younger(blind)[k]

\* The same of the memory, which no failing database empties.
Uncounted == {c \in Clients : stage[c] = "failed"}

Remembered(k) ==
  \/ Younger(recent)[k] <= Younger(failed)[k] + Cardinality(Uncounted)
  \/ Younger(failed)[k] >= Threshold

RecentBounded(k) ==
  Younger(recent)[k] + Cardinality(Passing)
    <= Threshold - 1 + Cardinality(Clients)

GuessInv ==
  \A k \in 0..Window :
    Covered(k) /\ Bounded(k) /\ Remembered(k) /\ RecentBounded(k)

\* A name that is locked out is free again unless somebody goes on entering
\* wrong codes, deletes accounts or gets past the login handler while the table
\* cannot be read: knocking does not prolong it, for the login handler turns the
\* knocking away before it is an attempt.
LockoutEnds ==
  LockedOut ~> \/ ~LockedOut
               \/ \E c \in Clients : stage[c] \in {"slipped", "code", "noted"}
=============================================================================
