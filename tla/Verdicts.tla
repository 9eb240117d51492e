------------------------------ MODULE Verdicts ------------------------------
(***************************************************************************)
(* What a check answers, and the arithmetic the checks share.  A check is  *)
(* an operator on a record of what it finds; it reads only its own fields. *)
(***************************************************************************)
EXTENDS Naturals, Sequences, FiniteSets

\* "crash" is an exception that the check does not handle itself.
CheckStatus == {"pass", "warning", "fail", "error", "crash"}

\* The usual last lines of a check.
Graded(bad, poor) == IF bad THEN "fail" ELSE IF poor THEN "warning" ELSE "pass"

\* A check that needs a page, a record or a service and did not get it.
Having(got, verdict) == IF got THEN verdict ELSE "error"

\* How many of the conditions hold: of the issues a check lists.
HowMany(conditions) == Cardinality({i \in DOMAIN conditions : conditions[i]})

\* Python's round(n / d): to the nearest, from the middle to the even one.
Rounded(n, d) ==
  LET q == n \div d
      r == 2 * (n % d)
  IN  IF r < d \/ (r = d /\ q % 2 = 0) THEN q ELSE q + 1
=============================================================================
