---------------------------- MODULE SafeRequests ----------------------------
(***************************************************************************)
(* safe_requests_get, _head and _post of core/security.py: every request   *)
(* to a site is made with allow_redirects=False, whatever the caller asked *)
(* for, and redirects are followed here, each target being validated.      *)
(*                                                                         *)
(* A network says what each URL does: "page" answers with a status code;   *)
(* "move" answers with a redirect and a Location; "dead" does not answer;  *)
(* "blocked" is not public, or its host does not resolve.                  *)
(***************************************************************************)
EXTENDS Naturals, Sequences

CONSTANT MaxRedirects       \* 5

ASSUME RedirectsAssumption == MaxRedirects \in Nat

\* history is what requests itself followed.  A caller sees no other redirect.
Answer(url, code) == [got |-> "answer", url |-> url, code |-> code, history |-> <<>>]
Failed == [got |-> "failed"]           \* RequestException or OSError
Refused == [got |-> "refused"]          \* ValueError

\* Where the request is after k redirects: the target counts though the hop is refused.
Visited(net, url) ==
  LET at[k \in 0..(MaxRedirects + 1)] ==
        IF k = 0 THEN url
        ELSE IF net[at[k - 1]].kind = "move" THEN net[at[k - 1]].to ELSE at[k - 1]
  IN  at

\* safe_requests_get(url).  Too many redirects, a loop included, raise ValueError too.
Fetch(net, url) ==
  LET at == Visited(net, url)
      last == at[MaxRedirects]
  IN  CASE net[last].kind = "page" -> Answer(last, net[last].code)
        [] net[last].kind = "dead" -> Failed
        [] OTHER -> Refused
=============================================================================
