----------------------------- MODULE PageChecks -----------------------------
(***************************************************************************)
(* The checks of tools/phase1.py, which need no API: the verdict of each   *)
(* from what it finds.  Names of checks are those of the result's "tool";  *)
(* p.fetched is what fetch_page gave: "html", "none" (it failed, or is not *)
(* HTML) or "refused", an exception that no check of a page handles.       *)
(***************************************************************************)
EXTENDS Verdicts, SafeRequests, Integers

CONSTANTS
  MaxHops,          \* of canonical_loop_check: 5
  MaxLinks          \* of broken_link_check: 30

ASSUME ChecksAssumption == {MaxHops, MaxLinks} \subseteq Nat \ {0}

Elements(s) == {s[i] : i \in DOMAIN s}
Repeats(s) == Cardinality(Elements(s)) < Len(s)

OnPage(p, verdict) ==
  IF p.fetched = "refused" THEN "crash" ELSE Having(p.fetched = "html", verdict)

-----------------------------------------------------------------------------
(* Crawling.                                                                *)

robots(p) ==
  CASE p.robots = "unreadable" -> "warning"
    [] p.robots = "absent" -> "pass"
    [] p.robots = "read" -> IF p.all /\ p.googlebot THEN "pass" ELSE "fail"

Seen(code) ==
  IF code = 200 THEN "pass" ELSE IF code \in {404, 410} \/ code >= 500 THEN "fail" ELSE "warning"

\* What an answer, a failure or a refusal of safe_requests_get comes to.
Upon(answer, verdict) ==
  CASE answer.got = "answer" -> verdict
    [] answer.got = "failed" -> "error"
    [] OTHER -> "crash"

\* net, url: module SafeRequests; a 5xx is asked again once, then the network is later.
http_status(p) ==
  LET first == Fetch(p.net, p.url)
      again == Fetch(p.later, p.url)
      code == IF first.code >= 500 /\ again.got = "answer" /\ again.code < 500
                THEN again.code ELSE first.code
  IN  Upon(first, Seen(code))

\* The hops are those of resp.history.
redirect(p) ==
  LET answer == Fetch(p.net, p.url)
      chain == Append(answer.history, answer.url)
      hops == Len(answer.history)
  IN  Upon(answer, Graded(Repeats(chain) \/ hops > 1, hops = 1))

\* The header is asked only without a tag; a trailing slash makes no difference.
canonical(p) ==
  LET target == IF p.tag # "none" THEN p.tag ELSE p.header
  IN  OnPage(p, IF target \in {"self", "slash"} THEN "pass" ELSE "warning")

\* Mutant of Repeated: only a way back to the start is a loop.
RepeatedStart(hop, k) == hop[k] \in {hop[0], hop[k - 1]}

Repeated(hop, k) == \E j \in 0..(k - 1) : hop[k] = hop[j]

\* next: what each page that can be fetched declares: a page, or "none".  The first
\* hop that says something decides; the page the last hop names is not fetched.
canonical_loop(p) ==
  LET hop[k \in 0..MaxHops] ==
        IF k = 0 THEN p.page
        ELSE IF hop[k - 1] \in DOMAIN p.next THEN p.next[hop[k - 1]] ELSE hop[k - 1]
      ends == {k \in 1..MaxHops : hop[k] = "none" \/ Repeated(hop, k)}
      first == CHOOSE k \in ends : \A j \in ends : k <= j
      before == hop[first - 1]
  IN  CASE ends = {} -> "warning"
        [] ends # {} /\ before \notin DOMAIN p.next -> "error"
        [] ends # {} /\ hop[first] = "none" -> IF first = 1 THEN "warning" ELSE "pass"
        [] ends # {} /\ before \in DOMAIN p.next /\ hop[first] = before ->
             IF first = 1 THEN "pass" ELSE "warning"
        [] OTHER -> "fail"

\* anchors: the links of the page in order, those skipped marked; answer: of each
\* link, its status code, 0 when the request fails, -1 when it is refused.
Tried(anchors) ==
  LET kept == SelectSeq(anchors, LAMBDA a : ~a.skip)
  IN  {kept[i].link : i \in 1..(IF Len(kept) < MaxLinks THEN Len(kept) ELSE MaxLinks)}

broken_links(p) ==
  LET links == Tried(p.anchors)
      broken == {l \in links : p.answer[l] \in {0, 400, 403, 404, 410}}
  IN  IF p.fetched = "html" /\ \E l \in links : p.answer[l] = -1 THEN "crash"
      ELSE OnPage(p, Graded(broken # {}, FALSE))

internal_links(p) == OnPage(p, Graded(FALSE, p.internal < 3))

\* public: the address given is; a redirect that leads elsewhere is refused later.
\* xml: how the answer was parsed: strictly, by lxml's recovery, which raises on
\* what has no document, or without lxml by a pattern.
sitemap(p) ==
  LET issues == p.xml # "strict" \/ Repeats(p.urls) \/ p.plain \/ Len(p.urls) > 50000
  IN  IF ~p.public THEN "error"
      ELSE Upon(p.answer,
             IF p.answer.code >= 400 THEN "error"
             ELSE IF p.xml = "nothing" THEN "crash"
             ELSE IF p.xml = "pattern" /\ p.urls = <<>> /\ p.html THEN "warning"
             ELSE Graded(issues, FALSE))

hreflang(p) ==
  OnPage(p, Graded(p.langs # <<>> /\ (Repeats(p.langs) \/ "x-default" \notin Elements(p.langs)),
                        p.langs = <<>>))

ttfb(p) == Upon(p.answer, Graded(p.ms >= 800, p.ms >= 500))

\* The page is not asked for.
url_structure(p) ==
  LET issues == HowMany(<<p.length > 115, p.uppercase, p.params > 3, p.session,
                        p.digits >= 8, p.underscore /\ ~p.hyphen>>)
  IN  Graded(issues > 2, issues > 0)

meta_robots(p) == OnPage(p, Graded("noindex" \in p.flags, p.flags # {}))

-----------------------------------------------------------------------------
(* On the page.                                                             *)

title(p) == OnPage(p, Graded(p.length = 0, p.length \notin 30..60))

\* _meta_desc_px: 14 for a wide character, 7.5 for another.
meta_description(p) ==
  LET px == Rounded(28 * p.wide + 15 * p.narrow, 2)
  IN  OnPage(p, Graded(p.wide + p.narrow = 0, px \notin 430..920))

headings(p) == OnPage(p, Graded(p.h1 = 0, p.h1 > 1 \/ p.h2 = 0))

\* In tenths of a percent.
image_alt(p) ==
  LET pct == IF p.images = 0 THEN 0 ELSE Rounded(1000 * p.missing, p.images)
  IN  OnPage(p, Graded(pct > 300, pct > 0))

word_count(p) == OnPage(p, Graded(p.words < 300, p.words \notin 600..2500))

\* grade: tenths of a school year.
readability(p) ==
  IF ~p.lib THEN "error"
  ELSE OnPage(p, Graded(p.words >= 50 /\ p.grade > 140, p.words < 50 \/ p.grade > 100))

\* Invalid JSON-LD is counted, not found.
schema(p) == OnPage(p, Graded(p.found = 0, p.invalid > 0))

\* og: the properties with a content; tags: those present.
og_tags(p) ==
  LET complete == {"title", "description", "image", "url", "type"} \subseteq p.og /\ p.card
  IN  OnPage(p, Graded(~complete /\ p.tags < 3, ~complete))

viewport(p) == OnPage(p, Graded(p.viewport = "none", p.viewport = "fixed"))

lang_attr(p) == OnPage(p, Graded(~p.lang, FALSE))

\* date: from the header or else from the page.  A date that cannot be parsed is
\* as good as a recent one.
content_freshness(p) ==
  OnPage(p, Graded(p.date = "parsed" /\ p.days > 730,
                        p.date = "none" \/ (p.date = "parsed" /\ p.days > 365)))

\* scripts: the attribute of each external script of the head.  BeautifulSoup gives
\* a bare async or defer the value "", which counts as none.
render_blocking(p) ==
  LET js == HowMany([i \in DOMAIN p.scripts |-> p.scripts[i] \in {"none", "bare"}])
  IN  OnPage(p, Graded(js > 2 \/ p.css > 12, js > 0 \/ p.css > 6))

\* content: the images that are neither inline nor decorative.
image_optimization(p) ==
  LET issues == HowMany(<<p.content > 3 /\ 2 * p.lazy < p.content,
                        p.content > 0 /\ 10 * p.undimensioned > 3 * p.content,
                        p.content > 3 /\ 10 * p.modern < 3 * p.content,
                        p.content > 0 /\ ~p.priority>>)
  IN  OnPage(p, Graded(issues > 2, issues > 0))

-----------------------------------------------------------------------------
(* The site.                                                                *)

\* A certificate without a date is as good as a fresh one.
ssl(p) ==
  CASE ~p.https \/ p.handshake = "invalid" -> "fail"
    [] p.https /\ p.handshake = "unreachable" -> "error"
    [] OTHER -> Graded(p.dated /\ p.days < 14, p.dated /\ p.days < 30)

\* In tenths of a year.
domain_age(p) ==
  LET age == Rounded(10 * p.days, 365)
  IN  Having(p.lib /\ p.whois, Graded(p.dated /\ age < 10, ~p.dated \/ age < 20))

mixed_content(p) ==
  IF ~p.https THEN "warning" ELSE OnPage(p, Graded(p.insecure > 3, p.insecure > 0))

https_enforcement(p) == Upon(p.answer, Graded(~p.secure, FALSE))

security_headers(p) == Upon(p.answer, Graded(p.missing > 2, p.missing > 0))

\* A lookup that finds no record of the type raises like one that fails: "failed";
\* "none": records, but not this one.
Looked(found, good) == Having(found # "failed", IF good THEN "pass" ELSE "fail")
spf(p) == IF ~p.lib THEN "warning" ELSE Looked(p.spf, p.spf = "found")
mx_records(p) == IF ~p.lib THEN "warning" ELSE Looked(p.mx, p.mx = "found")
dmarc(p) ==
  IF ~p.lib \/ p.dmarc \in {"quarantine", "monitor"} THEN "warning"
  ELSE Looked(p.dmarc, p.dmarc = "reject")

\* Mutant of dns_health: more than two issues are none.
dns_health_exact(p) ==
  LET lost == {"none", "failed"}
      issues == HowMany(<<p.mx \in lost, p.spf \in lost, p.dmarc \in lost>>)
  IN  Having(p.lib, Graded(issues = 2, issues = 1))

\* Here a lookup that fails is a record that is missing.
dns_health(p) ==
  LET lost == {"none", "failed"}
      issues == HowMany(<<p.mx \in lost, p.spf \in lost, p.dmarc \in lost>>)
  IN  Having(p.lib, Graded(issues >= 2, issues = 1))

favicon(p) ==
  OnPage(p, Graded(~p.icon /\ ~p.apple, ~p.icon \/ ~p.apple))

\* alt: where the request for the other host ended.  Nothing there is good.
www_redirect(p) == Graded(FALSE, p.alt = "itself")

http2(p) == Having(p.lib /\ p.answered, Graded(FALSE, ~p.modern))
=============================================================================
