------------------------------ MODULE SeoAudit ------------------------------
(***************************************************************************)
(* core/seo_audit.py: which checks the audit of one URL runs, what becomes *)
(* of them, the score, and the comparison with an earlier audit.  The      *)
(* checks of a use case run in a pool of their own and their results are   *)
(* collected in order, so that the order in which they end shows nowhere:  *)
(* an audit is an operator.                                                *)
(***************************************************************************)
EXTENDS Verdicts, FiniteSetsExt

Tasks == [
  crawlability |-> {"robots", "http_status", "redirect", "broken_links", "internal_links", "sitemap",
    "canonical", "meta_robots", "hreflang", "ttfb", "url_structure", "canonical_loop"},
  on_page |-> {"title", "meta_description", "headings", "image_alt", "word_count", "readability",
    "schema", "og_tags", "viewport", "lang_attr", "content_freshness"},
  site_health |-> {"ssl", "domain_age", "mixed_content", "https_enforcement", "security_headers",
    "spf", "dmarc", "mx_records", "favicon", "dns_health", "www_redirect", "http2"},
  performance |-> {"render_blocking", "image_optimization", "pagespeed_mobile", "pagespeed_desktop",
    "mobile", "gsc_crawl_inspection", "lcp", "cls", "fcp", "inp"},
  search_console |-> {"clicks_impressions", "top_queries", "position_tracker", "ctr_analyzer",
    "coverage_errors", "sitemaps_status", "manual_actions"},
  authority |-> {"backlinks", "domain_authority", "page_authority", "referring_domains",
    "domain_rank", "broken_backlinks", "nofollow_ratio", "spam_score"},
  rankings |-> {"rank_tracker", "serp_features", "competitor", "rank_change", "traffic_share"}]

UseCases == DOMAIN Tasks \cup {"technical_seo"}
Technical == {"crawlability", "on_page", "site_health"}

\* What a use case needs in the configuration.
Requires == [performance |-> "pagespeed_api_key", search_console |-> "gsc", rankings |-> "serpapi_key"]

Weighing ==
  <<{"mx_records"},
    {"favicon", "domain_age", "hreflang", "spf", "dmarc"},
    {"dns_health", "lang_attr", "http2", "sitemap", "security_headers", "page_authority", "spam_score",
     "serp_features"},
    {"internal_links", "og_tags", "readability", "content_freshness", "url_structure", "www_redirect",
     "gsc_crawl_inspection", "fcp", "mobile", "referring_domains"},
    {"schema", "ttfb", "redirect", "broken_links", "mixed_content", "render_blocking",
     "image_optimization", "https_enforcement"},
    {"image_alt", "ssl", "viewport", "canonical_loop", "pagespeed_desktop", "cls", "inp", "domain_authority"},
    {"canonical", "word_count"},
    {"meta_description", "headings", "lcp", "backlinks", "rank_tracker"},
    {},
    {"robots", "meta_robots", "title"},
    {}, {"pagespeed_mobile"}, {}, {}, {"http_status"}>>

Weight(tool) ==
  LET at == {w \in DOMAIN Weighing : tool \in Weighing[w]}
  IN  IF at = {} THEN 2 ELSE CHOOSE w \in at : TRUE

Excluded == {"clicks_impressions", "top_queries", "position_tracker", "ctr_analyzer", "coverage_errors",
  "sitemaps_status", "manual_actions", "competitor", "rank_change", "traffic_share", "domain_rank",
  "broken_backlinks", "nofollow_ratio"}

\* Mutant of Scored: an error counts as a check that earned nothing.
ScoredErrors(results) == {r \in results : r.tool \notin Excluded}

Scored(results) == {r \in results : r.tool \notin Excluded /\ r.status # "error"}

\* calc_seo_score.  Warnings earn half: twice the weights, to stay whole.
Score(results) ==
  LET weights(s) == MapThenSumSet(LAMBDA r : Weight(r.tool), s)
      total == weights(Scored(results))
      earned == 2 * weights({r \in Scored(results) : r.status = "pass"})
                + weights({r \in Scored(results) : r.status = "warning"})
  IN  IF total = 0 THEN 0 ELSE Rounded(100 * earned, 2 * total)

-----------------------------------------------------------------------------
\* What becomes of a check: one that raises is an entry without its name.  of is
\* the check, for the properties.
ResultOf(tool, verdict) ==
  IF verdict = "crash" THEN [tool |-> "check_error", of |-> tool, status |-> "error"]
  ELSE [tool |-> tool, of |-> tool, status |-> verdict]

\* The checks that run.  r.filter: the tasks asked for, {} for all; r.keys: what is
\* configured: pagespeed_api_key, gsc, serpapi_key; r.service: Search Console is
\* connected; r.keywords: there are any; r.cases: the use cases.
Active(r) ==
  IF "technical_seo" \in r.cases THEN (r.cases \ {"technical_seo"}) \cup Technical ELSE r.cases

Kept(r, tools) == IF r.filter = {} THEN tools ELSE tools \cap r.filter

\* lcp and its like come with an answer of the mobile lookup only.
Performed(r) ==
  LET basic == {"render_blocking", "image_optimization"}
      inspection == IF r.service THEN {} ELSE {"gsc_crawl_inspection"}
      vitals == IF r.verdict["pagespeed_mobile"] = "error" THEN {"lcp", "cls", "fcp", "inp"} ELSE {}
  IN  IF "pagespeed_api_key" \in r.keys THEN Tasks.performance \ (inspection \cup vitals) ELSE basic

Run(r, case) ==
  Kept(r, CASE case = "performance" -> Performed(r)
            [] case = "search_console" -> IF r.service THEN Tasks[case] ELSE {}
            [] case = "rankings" -> IF r.keywords THEN Tasks[case] ELSE {}
            [] OTHER -> Tasks[case])

\* Without a keyword rank_tracker, when it is kept, is a warning.
Unranked(r) ==
  IF "rankings" \in Active(r) /\ ~r.keywords THEN Kept(r, {"rank_tracker"}) ELSE {}

\* r.verdict: of each check, were it run.
Checked(r) ==
  {ResultOf(t, r.verdict[t]) : t \in UNION {Run(r, c) : c \in Active(r)}}
  \cup {ResultOf(t, "warning") : t \in Unranked(r)}

\* gsc is a section of config.json, which is there though Search Console is off.
Missing(r) ==
  {c \in Active(r) \cap DOMAIN Requires :
     /\ Requires[c] \notin r.keys
     /\ ~(c = "search_console" /\ r.service)
     /\ \A e \in Checked(r) : e.tool \notin Tasks[c]}

\* audit_single_url: the results.
Audit(r) ==
  IF ~r.public THEN {[tool |-> "url_validation", of |-> "url_validation", status |-> "error"]}
  ELSE Checked(r) \cup {[tool |-> "setup", of |-> c, status |-> "error"] : c \in Missing(r)}

-----------------------------------------------------------------------------
(* Two audits of a URL: functions from tools to statuses.                   *)

Bad == {"fail", "warning"}
StatusIn(audit, tool) == IF tool \in DOMAIN audit THEN audit[tool] ELSE "pass"

\* Mutant of Resolved: a check that could not run is a problem solved.
ResolvedUnlessBad(prev, curr) == {t \in DOMAIN prev : prev[t] \in Bad /\ StatusIn(curr, t) \notin Bad}

\* compare_audits.  A check that was not run counts as passed, one in error as neither.
Resolved(prev, curr) == {t \in DOMAIN prev : prev[t] \in Bad /\ StatusIn(curr, t) = "pass"}
NewIssues(prev, curr) == {t \in DOMAIN curr : curr[t] \in Bad /\ StatusIn(prev, t) = "pass"}
=============================================================================
