----------------------------- MODULE Worsening -----------------------------
(***************************************************************************)
(* When one finding of a check is worse than another, or as good: what the *)
(* two have in common and in which direction the rest differs.  Nothing is *)
(* said of verdicts or thresholds here; PageAudits asks whether those keep *)
(* to this order.                                                          *)
(***************************************************************************)
EXTENDS PageChecks, ServiceChecks, QuickTools

\* A number that is higher or lower in q, a good thing that q may lack, a bad one
\* that q may have, and values listed from the best to the worst.
Up(x, y) == x \in Nat /\ y \in Nat /\ x <= y
Down(x, y) == Up(y, x)
Lost(x, y) == y => x
Gained(x, y) == x => y
Later(x, y, values) ==
  \E i, j \in DOMAIN values : i <= j /\ x = values[i] /\ y = values[j]

\* A rank in search results, where 0 is none.
Behind(x, y) == {x, y} \subseteq Nat /\ (y = 0 \/ (x # 0 /\ x <= y))

WorseSite(check, p, q) ==
  CASE check = "robots" ->
         \/ p.robots = "absent" /\ q.robots \in {"absent", "read", "unreadable"}
         \/ p.robots = "read" /\ q.robots = "read" /\ Lost(p.all, q.all) /\ Lost(p.googlebot, q.googlebot)
    [] check = "http_status" ->
         LET x == Fetch(p.net, p.url)
             y == Fetch(q.net, q.url)
         IN  /\ p.net = p.later /\ q.net = q.later /\ x.got = "answer" /\ y.got = "answer"
             /\ {x.code, y.code} \subseteq Nat
             /\ x.code = 200 \/ y.code \in {404, 410} \/ y.code >= 500
    [] check = "sitemap" ->
         /\ p.public = q.public /\ p.answer = q.answer /\ p.xml = q.xml /\ p.html = q.html /\ Gained(p.plain, q.plain)
         /\ Up(Len(p.urls), Len(q.urls)) /\ Gained(Repeats(p.urls), Repeats(q.urls))
         /\ q.urls = <<>> => p.urls = <<>>
    [] check = "ttfb" -> p.answer = q.answer /\ Up(p.ms, q.ms)
    [] check = "url_structure" ->
         /\ Up(p.length, q.length) /\ Up(p.params, q.params) /\ Up(p.digits, q.digits)
         /\ Gained(p.uppercase, q.uppercase) /\ Gained(p.session, q.session)
         /\ Gained(p.underscore, q.underscore) /\ Lost(p.hyphen, q.hyphen)
    [] check = "ssl" ->
         Lost(p.https, q.https) /\ p.handshake = q.handshake /\ p.dated = q.dated /\ Down(p.days, q.days)
    [] check = "domain_age" ->
         p.lib = q.lib /\ p.whois = q.whois /\ p.dated = q.dated /\ Down(p.days, q.days)
    [] check = "https_enforcement" -> p.answer = q.answer /\ Lost(p.secure, q.secure)
    [] check = "security_headers" -> p.answer = q.answer /\ Up(p.missing, q.missing)
    [] check = "spf" -> p.lib = q.lib /\ Later(p.spf, q.spf, <<"found", "none">>)
    [] check = "mx_records" -> p.lib = q.lib /\ Later(p.mx, q.mx, <<"found", "none">>)
    [] check = "dmarc" ->
         p.lib = q.lib /\ Later(p.dmarc, q.dmarc, <<"reject", "quarantine", "monitor", "none">>)
    [] check = "dns_health" ->
         /\ p.lib = q.lib
         /\ \/ p.mx = q.mx \/ q.mx \in {"none", "failed"}
         /\ \/ p.spf = q.spf \/ q.spf \in {"none", "failed"}
         /\ \/ p.dmarc = q.dmarc \/ q.dmarc \in {"none", "failed"}
    [] check = "www_redirect" -> Later(p.alt, q.alt, <<"away", "itself">>)
    [] check = "http2" -> p.lib = q.lib /\ p.answered = q.answered /\ Lost(p.modern, q.modern)

WorsePage(check, p, q) ==
  /\ p.fetched = q.fetched
  /\ CASE check = "canonical" ->
            /\ p.header = "none" /\ q.header = "none"
            /\ Later(p.tag, q.tag, <<"self", "slash", "other", "none">>)
       [] check = "broken_links" ->
            p.anchors = q.anchors /\ \A l \in Tried(p.anchors) : q.answer[l] \in {p.answer[l], 404}
       [] check = "internal_links" -> Down(p.internal, q.internal)
       [] check = "hreflang" ->
            /\ p.langs # <<>> /\ q.langs # <<>> /\ Gained(Repeats(p.langs), Repeats(q.langs))
            /\ Lost("x-default" \in Elements(p.langs), "x-default" \in Elements(q.langs))
       [] check = "meta_robots" -> p.flags \subseteq q.flags
       [] check = "title" -> p.length >= 30 /\ Up(p.length, q.length)
       [] check = "meta_description" ->
            28 * p.wide + 15 * p.narrow <= 2 * 920 /\ Down(p.wide, q.wide) /\ Down(p.narrow, q.narrow)
       [] check = "headings" -> p.h1 > 0 /\ Up(p.h1, q.h1) /\ Down(p.h2, q.h2)
       [] check = "image_alt" -> p.images = q.images /\ p.images \in Nat /\ Up(p.missing, q.missing)
       [] check = "word_count" -> p.words <= 2500 /\ Down(p.words, q.words)
       [] check = "readability" -> p.lib = q.lib /\ p.words = q.words /\ Up(p.grade, q.grade)
       [] check = "schema" -> Down(p.found, q.found) /\ Up(p.invalid, q.invalid)
       [] check = "og_tags" -> q.og \subseteq p.og /\ Lost(p.card, q.card) /\ Down(p.tags, q.tags)
       [] check = "viewport" -> Later(p.viewport, q.viewport, <<"device", "fixed", "none">>)
       [] check = "lang_attr" -> Lost(p.lang, q.lang)
       [] check = "content_freshness" -> p.date = "parsed" /\ q.date = "parsed" /\ Up(p.days, q.days)
       [] check = "render_blocking" ->
            /\ Up(p.css, q.css)
            /\ IsFiniteSet(DOMAIN q.scripts) /\ DOMAIN p.scripts \subseteq DOMAIN q.scripts
            /\ \A i \in DOMAIN p.scripts : q.scripts[i] \in {p.scripts[i], "none"}
       [] check = "image_optimization" ->
            /\ p.content = q.content /\ p.content \in Nat /\ Down(p.lazy, q.lazy)
            /\ Up(p.undimensioned, q.undimensioned)
            /\ Down(p.modern, q.modern) /\ Lost(p.priority, q.priority)
       [] check = "mixed_content" -> p.https = q.https /\ Up(p.insecure, q.insecure)
       [] check = "favicon" -> Lost(p.icon, q.icon) /\ Lost(p.apple, q.apple)

\* The rows of p are among those of q.
MoreRows(p, q) == DOMAIN p.rows \subseteq DOMAIN q.rows

WorseMetrics(f, g) == DOMAIN f = DOMAIN g /\ \A n \in DOMAIN f : Up(f[n], g[n])

\* An impression more, a click or a place less.
WorseRow(x, y) ==
  Up(x.impressions, y.impressions) /\ Down(x.ctr, y.ctr) /\ Down(x.position, y.position)

\* Of what a sitemap holds less is indexed; of the pages of the web still something.
WorseIndex(x, y) ==
  Up(x.errors, y.errors) /\ Up(x.submitted, y.submitted) /\ Down(x.indexed, y.indexed)
WorseMap(x, y) ==
  x.web = y.web /\ Up(x.submitted, y.submitted) /\ Down(x.indexed, y.indexed) /\ y.indexed > 0

WorseAnswer(check, p, q) ==
  /\ p.service = q.service
  /\ CASE check \in {"pagespeed_mobile", "mobile"} -> Down(p.score, q.score)
       [] check = "performance_opportunities" ->
            /\ Down(p.score, q.score)
            /\ WorseMetrics(p.mobile, q.mobile) /\ WorseMetrics(p.desktop, q.desktop)
       [] check = "gsc_crawl_inspection" -> Later(p.verdict, q.verdict, <<"PASS", "NEUTRAL", "FAIL">>)
       [] check = "clicks_impressions" ->
            \/ q.rows = <<>>
            \/ p.rows # <<>> /\ q.rows # <<>> /\ Down(p.rows[1].clicks, q.rows[1].clicks)
       [] check = "position_tracker" ->
            /\ p.rows # <<>> /\ q.rows # <<>> /\ Len(p.rows) = Len(q.rows)
            /\ Len(p.rows) \in Nat \ {0} /\ Up(Sum(p.rows), Sum(q.rows))
       [] check \in {"ctr_analyzer", "opportunity_pages"} ->
            MoreRows(p, q) /\ \A i \in DOMAIN p.rows : WorseRow(p.rows[i], q.rows[i])
       [] check = "coverage_errors" ->
            MoreRows(p, q) /\ \A i \in DOMAIN p.rows : WorseMap(p.rows[i], q.rows[i])
       [] check = "top_queries" -> q.rows = <<>> \/ p.rows # <<>>
       [] check = "sitemaps_status" ->
            /\ p.rows # <<>> /\ q.rows # <<>> /\ MoreRows(p, q)
            /\ \A i \in DOMAIN p.rows : WorseIndex(p.rows[i], q.rows[i])
       [] check = "manual_actions" -> p.verdict = q.verdict /\ (p.rows = <<>> \/ q.rows # <<>>)
       [] check = "position_decay" ->
            \A i \in DOMAIN p.pages :
              i \in DOMAIN q.pages /\ Decay(p.pages[i]) <= Decay(q.pages[i])
              /\ Decay(p.pages[i]) \in Int /\ Decay(q.pages[i]) \in Int
       [] check = "keyword_cannibalization" ->
            /\ MoreRows(p, q)
            /\ \A i \in DOMAIN p.rows :
                 p.rows[i].query = q.rows[i].query /\ Up(p.rows[i].impressions, q.rows[i].impressions)

WorseLinks(check, p, q) ==
  /\ p.dfs = q.dfs /\ p.tries = q.tries
  /\ CASE check = "backlinks" -> Down(p.backlinks, q.backlinks)
       [] check = "referring_domains" -> Down(p.domains, q.domains)
       [] check = "domain_rank" -> Down(p.rank, q.rank)
       [] check = "broken_backlinks" -> Up(p.broken, q.broken)
       [] check = "nofollow_ratio" ->
            /\ Down(p.follow, q.follow) /\ Up(p.nofollow, q.nofollow)
            /\ p.follow + p.nofollow = q.follow + q.nofollow

WorseAuthority(check, p, q) ==
  /\ p.moz = q.moz /\ p.answered = q.answered
  /\ IF check = "spam_score" THEN Up(p.spam, q.spam) ELSE Down(p.authority, q.authority)

WorseRanks(check, p, q) ==
  /\ p.serp = q.serp /\ p.dfs = q.dfs
  /\ CASE check = "rank_tracker" ->
            /\ ~p.serp => p.answered = q.answered
            /\ p.ranks # <<>> /\ q.ranks # <<>> /\ DOMAIN p.ranks = DOMAIN q.ranks
            /\ \A i \in DOMAIN p.ranks : Behind(p.ranks[i], q.ranks[i])
       [] check = "competitor" -> p.answered = q.answered /\ Behind(p.rank, q.rank)
       [] check = "serp_features" ->
            p.answered = q.answered /\ p.ranks = q.ranks /\ q.features \subseteq p.features
       [] check = "traffic_share" ->
            /\ p.answered = q.answered
            /\ Len(Shown(p.ranks)) = Len(Shown(q.ranks)) /\ Len(Shown(p.ranks)) \in Nat \ {0}
            /\ Down(Clicks(p.ranks), Clicks(q.ranks))

WorseTool(tool, p, q) ==
  /\ p.tries = q.tries
  /\ CASE tool = "serp_snippet_preview" ->
            p.description = q.description /\ p.title <= 60 /\ Down(p.title, q.title)
       [] tool = "http_headers" -> p.cache = q.cache /\ p.flags \subseteq q.flags
       [] tool = "code_to_text_ratio" -> p.html = q.html /\ p.html \in Nat /\ Down(p.text, q.text)
       [] tool = "robots_tester" -> p.code = q.code /\ RobotsFaults(p) \subseteq RobotsFaults(q)

\* The second chain goes on where the first ends, and is never upgraded to https.
WorseChain(p, q) ==
  LET before == ChainCodes(p)
      after == ChainCodes(q)
  IN  /\ q.secure = {} /\ Up(ChainLast(p), ChainLast(q))
      /\ \A k \in DOMAIN before : before[k] \in {301, 302} => after[k] = before[k]

WorseAlternates(p, q) ==
  /\ p.answer = q.answer /\ Len(p.entries) = Len(q.entries)
  /\ {p.entries, q.entries} \subseteq Seq(ToSet(p.entries) \cup ToSet(q.entries))
  /\ \A i \in DOMAIN p.entries :
       LET x == p.entries[i]
           y == q.entries[i]
       IN  /\ x.lang = y.lang /\ Lost(x.itself, y.itself) /\ Lost(x.web, y.web)
           /\ Later(x.found, y.found, <<"up", "moved", "down">>)

SiteChecks == {"robots", "http_status", "sitemap", "ttfb", "url_structure", "ssl", "domain_age",
  "https_enforcement", "security_headers", "spf", "mx_records", "dmarc", "dns_health", "www_redirect", "http2"}
PageCheckNames == {"canonical", "broken_links", "internal_links", "hreflang", "meta_robots", "title",
  "meta_description", "headings", "image_alt", "word_count", "readability", "schema", "og_tags", "viewport",
  "lang_attr", "content_freshness", "render_blocking", "image_optimization", "mixed_content", "favicon"}
AnswerChecks == {"pagespeed_mobile", "mobile", "performance_opportunities", "gsc_crawl_inspection",
  "clicks_impressions", "position_tracker", "ctr_analyzer", "coverage_errors", "top_queries",
  "sitemaps_status", "manual_actions", "opportunity_pages", "position_decay", "keyword_cannibalization"}
LinkChecks == {"backlinks", "referring_domains", "domain_rank", "broken_backlinks", "nofollow_ratio"}
AuthorityChecks == {"domain_authority", "page_authority", "spam_score"}
RankChecks == {"rank_tracker", "competitor", "serp_features", "traffic_share"}
HtmlTools == {"serp_snippet_preview", "http_headers", "code_to_text_ratio", "robots_tester"}

Worse(check, p, q) ==
  \/ check \in SiteChecks /\ WorseSite(check, p, q)
  \/ check \in PageCheckNames /\ WorsePage(check, p, q)
  \/ check \in AnswerChecks /\ WorseAnswer(check, p, q)
  \/ check = "lcp" /\ Down(p.rating, q.rating)
  \/ check \in LinkChecks /\ WorseLinks(check, p, q)
  \/ check \in AuthorityChecks /\ WorseAuthority(check, p, q)
  \/ check \in RankChecks /\ WorseRanks(check, p, q)
  \/ check \in HtmlTools /\ WorseTool(check, p, q)
  \/ check = "redirect_chain" /\ WorseChain(p, q)
  \/ check = "hreflang_validator" /\ WorseAlternates(p, q)
=============================================================================
