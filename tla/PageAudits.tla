----------------------------- MODULE PageAudits -----------------------------
(***************************************************************************)
(* Pages, answers of services and audits, one at a time, put to the checks *)
(* (PageChecks, ServiceChecks), to the stand-alone tools (QuickTools) and  *)
(* to the audit that runs the checks (SeoAudit).                           *)
(***************************************************************************)
EXTENDS PageChecks, ServiceChecks, SeoAudit, QuickTools, Worsening

CONSTANTS
  Ladder(_),        \* of a check: what it may find, each worse than those before
  LadderChecks,     \* the checks that have one
  Rungs,            \* indices of ladders
  CanonPages,       \* pages that name canonical pages
  Urls301,          \* of a network with redirects
  ScoredTools,      \* of audits that are scored and compared
  UseCaseSets,      \* use cases asked for
  Filters           \* tasks asked for, {} for all

ASSUME AuditsAssumption ==
  /\ "none" \notin CanonPages /\ IsFiniteSet(ScoredTools) /\ UseCaseSets \subseteq SUBSET UseCases
  /\ \A c \in LadderChecks : \A i, j \in Rungs :
       i < j /\ j <= Len(Ladder(c)) => Worse(c, Ladder(c)[i], Ladder(c)[j])

VARIABLE case       \* what is put to them

NoCase == [kind |-> "none"]

\* The check functions by the tool of their results, and the stand-alone tools.
VerdictOf(check, p) ==
  CASE check = "robots" -> robots(p) [] check = "http_status" -> http_status(p)
    [] check = "redirect" -> redirect(p) [] check = "canonical" -> canonical(p)
    [] check = "canonical_loop" -> canonical_loop(p) [] check = "broken_links" -> broken_links(p)
    [] check = "internal_links" -> internal_links(p) [] check = "sitemap" -> sitemap(p)
    [] check = "hreflang" -> hreflang(p) [] check = "ttfb" -> ttfb(p)
    [] check = "url_structure" -> url_structure(p) [] check = "meta_robots" -> meta_robots(p)
    [] check = "title" -> title(p) [] check = "meta_description" -> meta_description(p)
    [] check = "headings" -> headings(p) [] check = "image_alt" -> image_alt(p)
    [] check = "word_count" -> word_count(p) [] check = "readability" -> readability(p)
    [] check = "schema" -> schema(p) [] check = "og_tags" -> og_tags(p)
    [] check = "viewport" -> viewport(p) [] check = "lang_attr" -> lang_attr(p)
    [] check = "content_freshness" -> content_freshness(p)
    [] check = "render_blocking" -> render_blocking(p)
    [] check = "image_optimization" -> image_optimization(p)
    [] check = "ssl" -> ssl(p) [] check = "domain_age" -> domain_age(p)
    [] check = "mixed_content" -> mixed_content(p) [] check = "https_enforcement" -> https_enforcement(p)
    [] check = "security_headers" -> security_headers(p) [] check = "spf" -> spf(p)
    [] check = "dmarc" -> dmarc(p) [] check = "mx_records" -> mx_records(p)
    [] check = "dns_health" -> dns_health(p) [] check = "favicon" -> favicon(p)
    [] check = "www_redirect" -> www_redirect(p) [] check = "http2" -> http2(p)
    [] check \in {"pagespeed_mobile", "pagespeed_desktop"} -> pagespeed(p)
    [] check = "mobile" -> mobile(p) [] check \in {"lcp", "cls", "fcp", "inp"} -> web_vital(p)
    [] check = "performance_opportunities" -> performance_opportunities(p)
    [] check = "gsc_crawl_inspection" -> gsc_crawl_inspection(p)
    [] check = "clicks_impressions" -> clicks_impressions(p)
    [] check = "position_tracker" -> position_tracker(p) [] check = "ctr_analyzer" -> ctr_analyzer(p)
    [] check = "coverage_errors" -> coverage_errors(p) [] check = "top_queries" -> top_queries(p)
    [] check = "sitemaps_status" -> sitemaps_status(p) [] check = "manual_actions" -> manual_actions(p)
    [] check = "opportunity_pages" -> opportunity_pages(p) [] check = "position_decay" -> position_decay(p)
    [] check = "keyword_cannibalization" -> keyword_cannibalization(p)
    [] check = "backlinks" -> backlinks(p) [] check = "referring_domains" -> referring_domains(p)
    [] check = "domain_rank" -> domain_rank(p) [] check = "broken_backlinks" -> broken_backlinks(p)
    [] check = "nofollow_ratio" -> nofollow_ratio(p) [] check = "domain_authority" -> domain_authority(p)
    [] check = "page_authority" -> page_authority(p) [] check = "spam_score" -> spam_score(p)
    [] check = "rank_tracker" -> rank_tracker(p) [] check = "competitor" -> competitor(p)
    [] check = "serp_features" -> serp_features(p) [] check = "traffic_share" -> traffic_share(p)
    [] check = "serp_snippet_preview" -> serp_snippet_preview(p)
    [] check = "http_headers" -> http_headers(p) [] check = "code_to_text_ratio" -> code_to_text_ratio(p)
    [] check = "redirect_chain" -> redirect_chain(p) [] check = "robots_tester" -> robots_tester(p)
    [] check = "hreflang_validator" -> hreflang_validator(p)

-----------------------------------------------------------------------------
CaseInit == case = NoCase

\* Two rungs of a ladder, the second the worse.
PutLadder ==
  \E c \in LadderChecks, i, j \in Rungs :
    /\ i < j /\ j <= Len(Ladder(c))
    /\ case' = [kind |-> "ladder", check |-> c, better |-> i, worse |-> j]

\* Pages that name each other as canonical, or no page.
PutCanonicals ==
  \E next \in [CanonPages -> CanonPages \cup {"none"}], page \in CanonPages :
    case' = [kind |-> "canonical", next |-> next, page |-> page, fetched |-> "html"]

\* Two audits of a URL.
PutAudits ==
  \E S, T \in SUBSET ScoredTools : \E prev \in [S -> CheckStatus \ {"crash"}], curr \in [T -> CheckStatus \ {"crash"}] :
    case' = [kind |-> "audits", prev |-> prev, curr |-> curr]

\* An audit to run, with a verdict in which all its checks end.
PutRequest ==
  \E cases \in UseCaseSets, filter \in Filters,
     keys \in SUBSET {"pagespeed_api_key", "gsc", "serpapi_key"},
     service, keywords \in BOOLEAN, verdict \in CheckStatus :
    /\ service => "gsc" \in keys
    /\ case' = [kind |-> "request", public |-> TRUE, cases |-> cases, filter |-> filter, keys |-> keys,
                service |-> service, keywords |-> keywords,
                verdict |-> [t \in UNION {Tasks[c] : c \in DOMAIN Tasks} |->
                               IF t = "pagespeed_mobile" /\ verdict = "crash" THEN "error" ELSE verdict]]

\* A network in which each URL is a page, leads to another URL or is down.
PutNetwork ==
  \E net \in [Urls301 -> [kind : {"page"}, code : {200, 404}] \cup [kind : {"move"}, to : Urls301]
                         \cup [kind : {"dead", "blocked"}]], url \in Urls301 :
    case' = [kind |-> "network", net |-> net, later |-> net, url |-> url]

CaseNext ==
  \/ case = NoCase /\ (PutLadder \/ PutCanonicals \/ PutAudits \/ PutRequest \/ PutNetwork)
  \/ case # NoCase /\ case' = NoCase

CaseSpec == CaseInit /\ [][CaseNext]_case

-----------------------------------------------------------------------------
Worth == [pass |-> 3, warning |-> 2, fail |-> 1]
Rank == [pass |-> 3, warning |-> 2, fail |-> 1, good |-> 4, fair |-> 3, needs_work |-> 2, critical |-> 1]

\* A page, a site or an answer of a service that is worse in what a check looks at
\* gets no better verdict: the thresholds are in order, and no case between them
\* falls through.
WorseIsNotBetter ==
  case.kind = "ladder" =>
    LET verdict(i) == VerdictOf(case.check, Ladder(case.check)[i])
    IN  {verdict(case.better), verdict(case.worse)} \subseteq DOMAIN Rank =>
          Rank[verdict(case.worse)] <= Rank[verdict(case.better)]

\* canonical_loop_check fails a page exactly when it runs into a cycle of at least
\* two pages early enough, that is, after a page more than there are hops at most.
CyclesFound ==
  case.kind = "canonical" =>
    LET step[k \in 0..(MaxHops + 1)] ==
          IF k = 0 THEN case.page
          ELSE IF step[k - 1] = "none" THEN "none" ELSE case.next[step[k - 1]]
        cyclic == \E i, j \in 0..MaxHops : i < j /\ step[i] = step[j] /\ step[i] \notin {"none", step[i + 1]}
    IN  (canonical_loop(case) = "fail") <=> cyclic

Entries(audit) == {[tool |-> t, status |-> audit[t]] : t \in DOMAIN audit}

\* The score of an audit is between 0 and 100, a check that could not run does not
\* change it, and a result that is better does not lower it.
ScoreFair ==
  case.kind \in {"audits", "request"} =>
    LET rs == IF case.kind = "audits" THEN Entries(case.curr) ELSE Audit(case)
    IN  /\ Score(rs) \in 0..100
        /\ \A r \in rs : r.status = "error" => Score(rs \ {r}) = Score(rs)
        /\ \A r \in rs, s \in DOMAIN Worth :
             r.status \in DOMAIN Worth /\ Worth[s] >= Worth[r.status]
               => Score((rs \ {r}) \cup {[r EXCEPT !.status = s]}) >= Score(rs)

\* What one audit reports as resolved since another is what the other would report
\* as new since the one, and nothing is both.
ComparisonSymmetric ==
  case.kind = "audits" =>
    /\ Resolved(case.prev, case.curr) = NewIssues(case.curr, case.prev)
    /\ Resolved(case.prev, case.curr) \cap NewIssues(case.prev, case.curr) = {}

\* What an audit makes of its results, alone and beside another one, is consistent.
AuditsFair == ScoreFair /\ ComparisonSymmetric

\* "Surface use-cases that were selected but couldn't run because a required
\* credential/service is missing.  Previously these silently produced an empty
\* section; now the user gets an explicit, actionable notice": a use case that was
\* asked for with all its tasks leaves a result or a notice.
NoSilentSection ==
  case.kind = "request" /\ case.filter = {} =>
    \A c \in Active(case) : \E r \in Audit(case) : r.of \in Tasks[c] \cup {c}

\* "safe_requests_head with allow_redirects=False": the checks of status and
\* redirects see that a page redirects, and do not pass it.
RedirectsSeen ==
  case.kind = "network" /\ case.net[case.url].kind = "move" =>
    "pass" \notin {http_status(case), redirect(case)}
=============================================================================
