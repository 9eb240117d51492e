---------------------------- MODULE RateLimiter ----------------------------
(***************************************************************************)
(* _RateLimiter of core/checker.py, the token bucket in front of the URL   *)
(* inspections of Search Console: threads of a process share one bucket,   *)
(* whose lock makes a turn of acquire's loop atomic; a thread that finds   *)
(* no token sleeps outside the lock and looks again, maybe in vain.        *)
(***************************************************************************)
EXTENDS Naturals, FiniteSets

CONSTANTS
  Callers,          \* threads that ask Search Console
  Unit,             \* a token, in the parts that the clock adds
  Rate,             \* parts added in one tick
  Burst,            \* parts that fit the bucket
  MaxTicks          \* bound of the clock

ASSUME RateAssumption ==
  {Unit, Rate} \subseteq Nat \ {0} /\ Burst \in Nat /\ Burst >= Unit /\ MaxTicks \in Nat

VARIABLES
  tick,
  tokens,           \* _tokens
  last,             \* _last
  wake,             \* of each caller, when its sleep ends
  granted           \* how many times acquire has returned

rateVars == <<tick, tokens, last, wake, granted>>

RateTypeOK ==
  /\ {tick, last} \subseteq 0..MaxTicks /\ tokens \in 0..Burst
  /\ wake \in [Callers -> Nat] /\ granted \in Nat

\* The bucket is full when the module is loaded.
RateInit ==
  /\ tick = 0 /\ last = 0
  /\ tokens = Burst
  /\ wake = [c \in Callers |-> 0]
  /\ granted = 0

Filled == IF tokens + (tick - last) * Rate > Burst THEN Burst ELSE tokens + (tick - last) * Rate

\* How many ticks until a token is there: (1 - _tokens) / _rate.
Lacking == (Unit - Filled + Rate - 1) \div Rate

\* Mutant of Refilled: _last stays when there is no token.
RefilledLate(left) ==
  /\ tokens' = left
  /\ last' = IF left = Filled THEN last ELSE tick

Refilled(left) == tokens' = left /\ last' = tick

\* A caller comes, or wakes up, and there is a token.
Grant(c) ==
  /\ wake[c] <= tick /\ Filled >= Unit
  /\ Refilled(Filled - Unit)
  /\ wake' = [wake EXCEPT ![c] = 0]
  /\ granted' = granted + 1
  /\ UNCHANGED tick

Sleep(c) ==
  /\ wake[c] <= tick /\ Filled < Unit
  /\ Refilled(Filled)
  /\ wake' = [wake EXCEPT ![c] = tick + Lacking]
  /\ UNCHANGED <<tick, granted>>

RateTick ==
  /\ tick < MaxTicks
  /\ tick' = tick + 1
  /\ UNCHANGED <<tokens, last, wake, granted>>

RateNext == RateTick \/ \E c \in Callers : Grant(c) \/ Sleep(c)

RateSpec == RateInit /\ [][RateNext]_rateVars

-----------------------------------------------------------------------------
\* However the callers meet, Search Console is asked no more often than the full
\* bucket and the time that has passed allow ("comfortably under" the quota), and
\* what the bucket holds is not more than what is left of that.
QuotaKept == granted * Unit + tokens <= Burst + last * Rate
=============================================================================
