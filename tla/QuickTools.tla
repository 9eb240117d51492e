----------------------------- MODULE QuickTools -----------------------------
(***************************************************************************)
(* The stand-alone tools of tools/quick_tools.py that judge one URL, as    *)
(* the worst level of the issues they list: an error is a "fail", a "warn" *)
(* or "warning" a "warning", and information is a "pass".  The URLs judged *)
(* here passed validate_public_url: one that does not is an error in each  *)
(* tool, before anything is asked.  The broken link checker, which has     *)
(* threads of its own, is module LinkCheck.                                *)
(***************************************************************************)
EXTENDS Verdicts, SafeRequests, SequencesExt

CONSTANTS
  MaxTries,            \* of fetch_html: 3
  MaxHreflang,         \* _HREFLANG_MAX: 100
  MaxHreflangAsked     \* 15

ASSUME QuickAssumption ==
  MaxTries \in Nat \ {0} /\ {MaxHreflang, MaxHreflangAsked} \subseteq Nat

\* fetch_html: "busy" is a 5xx, a connection that fails or a timeout.  A page may be
\* too large, and safe_requests_get may refuse a redirect.
FetchHtml(tries) ==
  LET told == {i \in DOMAIN tries : i <= MaxTries /\ tries[i] # "busy"}
  IN  IF told = {} THEN "ToolFetchError"
      ELSE LET last == tries[CHOOSE i \in told : \A j \in told : i <= j]
           IN  IF last = "large" THEN "ToolFetchError" ELSE last

\* What becomes of a tool whose page cannot be had is up to its except clause.
OfHtml(p, handled, verdict) ==
  LET got == FetchHtml(p.tries)
  IN  IF got = "ok" THEN verdict ELSE IF got \in handled THEN "error" ELSE "crash"

serp_snippet_preview(p) ==
  OfHtml(p, {"failed", "refused"},
         Graded(FALSE, p.title \notin 30..60 \/ p.description \notin 70..160))

\* cache: "none", "no-store" or another Cache-Control.
http_headers(p) ==
  OfHtml(p, {"failed"},
         Graded("noindex" \in p.flags, "nofollow" \in p.flags \/ p.cache \in {"none", "no-store"}))

\* In tenths of a percent.
code_to_text_ratio(p) ==
  LET ratio == IF p.html = 0 THEN 0 ELSE Rounded(1000 * p.text, p.html)
  IN  OfHtml(p, {"failed", "refused", "ToolFetchError"}, Graded(ratio < 100, ratio < 250))

-----------------------------------------------------------------------------
(* redirect_chain asks for each hop itself, without safe_requests_get.      *)

\* Where the chain is after k hops, and the first that repeats or does not move on.
Hop(net, url) ==
  LET at[k \in 0..Cardinality(DOMAIN net)] ==
        IF k = 0 THEN url
        ELSE IF net[at[k - 1]].kind = "move" THEN net[at[k - 1]].to ELSE at[k - 1]
  IN  at
ChainEnd(net, url) ==
  LET at == Hop(net, url)
      over == {k \in 0..Cardinality(DOMAIN net) :
                 net[at[k]].kind # "move" \/ \E j \in 0..(k - 1) : at[j] = at[k]}
  IN  CHOOSE k \in over : \A j \in over : k <= j

\* A target that is not public ends the chain before it; the page that repeats is
\* listed again.  A URL is [kind, code, to], and secure if it is https.
Looped(p) ==
  LET at == Hop(p.net, p.url)
      end == ChainEnd(p.net, p.url)
  IN  \E j \in 0..(end - 1) : at[j] = at[end]
ChainLast(p) ==
  LET end == ChainEnd(p.net, p.url)
  IN  IF p.net[Hop(p.net, p.url)[end]].kind = "blocked" THEN end - 1 ELSE end
ChainCodes(p) ==
  [k \in 0..ChainLast(p) |->
     IF k = ChainEnd(p.net, p.url) /\ Looped(p) THEN 0 ELSE p.net[Hop(p.net, p.url)[k]].code]

redirect_chain(p) ==
  LET at == Hop(p.net, p.url)
      last == ChainLast(p)
      codes == ChainCodes(p)
      issues == \/ last + 1 > 3
                \/ \E k \in 0..(last - 1) : codes[k] = 302
                \/ /\ ~(last > 0 /\ at[0] \notin p.secure /\ at[last] \in p.secure)
                   /\ last > 1 /\ \E k \in 0..last : codes[k] = 301
      dead == p.net[at[ChainEnd(p.net, p.url)]].kind = "dead"
  IN  IF last < 0 \/ (dead /\ ~Looped(p)) THEN "error" ELSE Graded(FALSE, issues)

-----------------------------------------------------------------------------
(* robots_tester.  A line is a key and a value; others are skipped.         *)

NoGroup == [names |-> <<>>, disallows |-> <<>>, allows |-> <<>>, delay |-> ""]

\* _flush: each agent of the group gets its directives.
Flush(read) ==
  [read EXCEPT !.agents = @ \o [i \in DOMAIN read.group.names |->
    [read.group EXCEPT !.names = read.group.names[i]]]]

\* A group ends where a user-agent follows a directive.
ReadLine(read, line) ==
  LET g == read.group
      begun == g.disallows # <<>> \/ g.allows # <<>> \/ g.delay # ""
      next == IF begun THEN [Flush(read) EXCEPT !.group = NoGroup] ELSE read
  IN  CASE line.key = "user-agent" -> [next EXCEPT !.group.names = Append(@, line.value)]
        [] line.key = "disallow" -> [read EXCEPT !.group.disallows = Append(@, line.value)]
        [] line.key = "allow" -> [read EXCEPT !.group.allows = Append(@, line.value)]
        [] line.key = "crawl-delay" -> [read EXCEPT !.group.delay = line.value]
        [] line.key = "sitemap" -> [read EXCEPT !.sitemaps = Append(@, line.value)]

Agents(lines) ==
  Flush(FoldLeft(ReadLine, [agents |-> <<>>, group |-> NoGroup, sitemaps |-> <<>>], lines))

\* Of several groups that name an agent, ua_map holds the last.
GroupOf(agents, names) ==
  LET named == {i \in DOMAIN agents : agents[i].names \in names}
  IN  {agents[i] : i \in {j \in named : \A k \in named : agents[k].names = agents[j].names => k <= j}}
Shut(agents) ==
  \E a \in agents : (\E i \in DOMAIN a.disallows : a.disallows[i] = "/") /\ a.allows = <<>>

\* long: the delays above 10 seconds, or not numbers; web: the sitemaps with a scheme.
RobotsFaults(p) ==
  LET read == Agents(p.lines)
      star == GroupOf(read.agents, {"*"})
      googles == GroupOf(read.agents, {"googlebot", "google", "googlebot-image", "googlebot-mobile"})
      names == [i \in DOMAIN read.agents |-> read.agents[i].names]
      Fault(name, found) == IF found THEN {name} ELSE {}
  IN  UNION {Fault("all shut", Shut(star)), Fault("google shut", Shut(googles)),
             Fault("sitemap", \E s \in ToSet(read.sitemaps) : s \notin p.web),
             Fault("no sitemap", read.sitemaps = <<>>), Fault("repeated", ~IsInjective(names)),
             Fault("slow", \E a \in star : a.delay \in p.long)}

robots_tester(p) ==
  OfHtml(p, {"failed"},
    IF p.code = 404 THEN "warning" ELSE IF p.code >= 400 THEN "error"
    ELSE Graded(RobotsFaults(p) \cap {"all shut", "google shut", "sitemap"} # {}, RobotsFaults(p) # {}))

-----------------------------------------------------------------------------
Capped(s, n) == SubSeq(s, 1, IF n < Len(s) THEN n ELSE Len(s))

\* An entry: its language, whether its resolved address is a web address or the
\* page itself, and what asking for it finds: "up", "moved" or "down"; only the
\* first ones are asked for.
hreflang_validator(p) ==
  LET entries == Capped(p.entries, MaxHreflang)
      asked == Capped(entries, MaxHreflangAsked)
      langs == [i \in DOMAIN entries |-> entries[i].lang]
      errors == \/ ~IsInjective(langs)
                \/ \E e \in ToSet(asked) : e.found = "down"
                \/ \E e \in ToSet(entries) : ~e.web
      warnings == \/ "x-default" \notin ToSet(langs)
                  \/ \A e \in ToSet(entries) : ~e.itself
                  \/ \E e \in ToSet(asked) : e.found = "moved"
                  \/ Len(p.entries) > MaxHreflang
  IN  CASE p.answer.got = "failed" -> "error"
        [] p.answer.got = "answer" ->
             IF p.answer.code >= 400 THEN "error"
             ELSE IF p.entries = <<>> THEN "pass" ELSE Graded(errors, warnings)
        [] OTHER -> "crash"
=============================================================================
