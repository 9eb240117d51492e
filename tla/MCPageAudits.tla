---------------------------- MODULE MCPageAudits ----------------------------
(***************************************************************************)
(* Instance of PageAudits for TLC: ladders around the thresholds of each   *)
(* check, small graphs of canonical pages and redirects, and audits of a   *)
(* few tools of different weights.                                         *)
(***************************************************************************)
EXTENDS PageAudits, TLC

Html(p) == [fetched |-> "html"] @@ p
Rising(from, to, rung(_)) == [i \in 1..(to - from + 1) |-> rung(from + i - 1)]
Falling(from, to, rung(_)) == [i \in 1..(from - to + 1) |-> rung(from - i + 1)]
Each(values, rung(_)) == [i \in DOMAIN values |-> rung(values[i])]

Answered == Answer("u1", 200)
Serves(code) == [u \in {"u1"} |-> [kind |-> "page", code |-> code]]
LinkAnswers(n) == [l \in 1..6 |-> IF l <= n THEN 404 ELSE 200]
Repeat(n, v) == [i \in 1..n |-> v]
Rows(n, row) == [i \in 1..n |-> row]

SiteLadder(check) ==
  CASE check = "robots" ->
         Each(<<[robots |-> "absent"], [robots |-> "read", all |-> TRUE, googlebot |-> TRUE],
                [robots |-> "read", all |-> TRUE, googlebot |-> FALSE],
                [robots |-> "read", all |-> FALSE, googlebot |-> FALSE]>>, LAMBDA p : p)
    [] check = "http_status" ->
         Each(<<200, 204, 404, 410, 500, 503>>, LAMBDA c : [net |-> Serves(c), later |-> Serves(c), url |-> "u1"])
    [] check = "sitemap" ->
         Each(<<<<>>, <<1, 1>>>>, LAMBDA us :
           [public |-> TRUE, answer |-> Answered, xml |-> "strict", urls |-> us, plain |-> FALSE, html |-> FALSE])
    [] check = "ttfb" -> Each(<<0, 499, 500, 799, 800>>, LAMBDA n : [answer |-> Answered, ms |-> n])
    [] check = "url_structure" ->
         Rising(0, 6, LAMBDA n : [length |-> IF n > 0 THEN 116 ELSE 115, uppercase |-> n > 1,
           params |-> IF n > 2 THEN 4 ELSE 3, session |-> n > 3, digits |-> IF n > 4 THEN 8 ELSE 7,
           underscore |-> n > 5, hyphen |-> FALSE])
    [] check = "ssl" ->
         Each(<<31, 30, 29, 14, 13, 12>>, LAMBDA n : [https |-> n > 12, handshake |-> "done", dated |-> TRUE, days |-> n])
    [] check = "domain_age" ->
         Each(<<730, 712, 711, 348, 346, 0>>, LAMBDA n : [lib |-> TRUE, whois |-> TRUE, dated |-> TRUE, days |-> n])
    [] check = "https_enforcement" -> Each(<<TRUE, FALSE>>, LAMBDA b : [answer |-> Answered, secure |-> b])
    [] check = "security_headers" -> Rising(0, 5, LAMBDA n : [answer |-> Answered, missing |-> n])
    [] check \in {"spf", "mx_records"} ->
         Each(<<"found", "none">>, LAMBDA r : [lib |-> TRUE, spf |-> r, mx |-> r])
    [] check = "dmarc" -> Each(<<"reject", "quarantine", "monitor", "none">>, LAMBDA r : [lib |-> TRUE, dmarc |-> r])
    [] check = "dns_health" ->
         Rising(0, 3, LAMBDA n : [lib |-> TRUE, mx |-> IF n > 0 THEN "failed" ELSE "found",
           spf |-> IF n > 1 THEN "none" ELSE "found", dmarc |-> IF n > 2 THEN "none" ELSE "reject"])
    [] check = "www_redirect" -> Each(<<"away", "itself">>, LAMBDA a : [alt |-> a])
    [] check = "http2" -> Each(<<TRUE, FALSE>>, LAMBDA b : [lib |-> TRUE, answered |-> TRUE, modern |-> b])

PageLadder(check) ==
  CASE check = "canonical" ->
         Each(<<"self", "slash", "other", "none">>, LAMBDA t : Html([tag |-> t, header |-> "none"]))
    [] check = "broken_links" ->
         Rising(0, 6, LAMBDA n : Html([anchors |-> [l \in 1..6 |-> [link |-> l, skip |-> l = 1]], answer |-> LinkAnswers(n)]))
    [] check = "internal_links" -> Falling(4, 0, LAMBDA n : Html([internal |-> n]))
    [] check = "hreflang" ->
         Each(<<<<"en", "x-default">>, <<"en">>, <<"en", "en">>>>, LAMBDA l : Html([langs |-> l]))
    [] check = "meta_robots" ->
         Each(<<{}, {"nofollow"}, {"nofollow", "noindex"}>>, LAMBDA f : Html([flags |-> f]))
    [] check = "title" -> Each(<<60, 61, 200>>, LAMBDA n : Html([length |-> n]))
    [] check = "meta_description" -> Each(<<60, 58, 57, 56, 1, 0>>, LAMBDA n : Html([wide |-> 0, narrow |-> n]))
    [] check = "headings" -> Each(<<1, 2, 3>>, LAMBDA n : Html([h1 |-> n, h2 |-> 1]))
    [] check = "image_alt" -> Rising(0, 20, LAMBDA n : Html([images |-> 20, missing |-> n]))
    [] check = "word_count" -> Each(<<600, 599, 300, 299, 0>>, LAMBDA n : Html([words |-> n]))
    [] check = "readability" -> Each(<<98, 100, 101, 140, 141>>, LAMBDA n : Html([lib |-> TRUE, words |-> 50, grade |-> n]))
    [] check = "schema" ->
         Each(<<<<2, 0>>, <<1, 1>>, <<0, 2>>>>, LAMBDA n : Html([found |-> n[1], invalid |-> n[2]]))
    [] check = "og_tags" ->
         Each(<<{"title", "description", "image", "url", "type"}, {"title", "description", "image"}, {"title"}, {}>>,
              LAMBDA s : Html([og |-> s, card |-> Cardinality(s) > 2, tags |-> Cardinality(s)]))
    [] check = "viewport" -> Each(<<"device", "fixed", "none">>, LAMBDA v : Html([viewport |-> v]))
    [] check = "lang_attr" -> Each(<<TRUE, FALSE>>, LAMBDA b : Html([lang |-> b]))
    [] check = "content_freshness" ->
         Each(<<0, 365, 366, 730, 731>>, LAMBDA n : Html([date |-> "parsed", days |-> n]))
    [] check = "render_blocking" ->
         Rising(0, 9, LAMBDA n : Html([scripts |-> Repeat(n \div 3, "none"), css |-> 2 * n]))
    [] check = "image_optimization" ->
         Rising(0, 4, LAMBDA n : Html([content |-> 10, lazy |-> IF n > 0 THEN 4 ELSE 5,
           undimensioned |-> IF n > 1 THEN 4 ELSE 3, modern |-> IF n > 2 THEN 2 ELSE 3, priority |-> n < 4]))
    [] check = "mixed_content" -> Rising(0, 5, LAMBDA n : Html([https |-> TRUE, insecure |-> n]))
    [] check = "favicon" ->
         Rising(0, 2, LAMBDA n : Html([icon |-> n = 0, apple |-> n < 2]))

ServiceLadder(check) ==
  LET asked(p) == [service |-> TRUE] @@ p
      links(p) == [dfs |-> TRUE, tries |-> <<"busy", "ok">>] @@ p
  IN
  CASE check = "pagespeed_mobile" -> Each(<<95, 90, 89, 50, 49, 0>>, LAMBDA n : asked([score |-> n]))
    [] check = "mobile" -> Each(<<75, 70, 69, 50, 49>>, LAMBDA n : asked([score |-> n]))
    [] check = "lcp" -> Each(<<95, 90, 89, 50, 49, 0>>, LAMBDA n : [rating |-> n])
    [] check = "performance_opportunities" ->
         Each(<<95, 90, 89, 50, 40>>, LAMBDA n :
           asked([score |-> n, mobile |-> [speed_index |-> 100 * (96 - n)], desktop |-> [speed_index |-> 900]]))
    [] check = "gsc_crawl_inspection" ->
         Each(<<"PASS", "NEUTRAL", "FAIL">>, LAMBDA v : asked([verdict |-> v]))
    [] check = "clicks_impressions" ->
         Each(<<<<[clicks |-> 1]>>, <<[clicks |-> 0]>>, <<>>>>, LAMBDA r : asked([rows |-> r]))
    [] check = "position_tracker" -> Each(<<95, 100, 101, 299, 300, 301>>, LAMBDA n : asked([rows |-> <<n, n, n + 1>>]))
    [] check = "ctr_analyzer" ->
         Each(<<200, 199, 0>>, LAMBDA n : asked([rows |-> <<[impressions |-> 100, ctr |-> n, position |-> 200]>>]))
    [] check = "coverage_errors" ->
         Falling(5, 1, LAMBDA n : asked([rows |-> <<[web |-> TRUE, submitted |-> 5, indexed |-> n]>>]))
    [] check = "top_queries" -> Each(<<<<"q">>, <<>>>>, LAMBDA r : asked([rows |-> r]))
    [] check = "sitemaps_status" ->
         Falling(5, 0, LAMBDA n : asked([rows |-> <<[errors |-> 0, submitted |-> 5, indexed |-> n]>>]))
    [] check = "manual_actions" ->
         Each(<<<<>>, <<"spam">>>>, LAMBDA r : asked([verdict |-> "FAIL", rows |-> r]))
    [] check = "opportunity_pages" ->
         Rising(199, 201, LAMBDA n : asked([rows |-> <<[impressions |-> n, ctr |-> 299, position |-> 200]>>]))
    [] check = "position_decay" ->
         Rising(0, 12, LAMBDA n : asked([pages |-> <<Repeat(5, 1) \o Repeat(5, 1 + n)>>]))
    [] check = "keyword_cannibalization" ->
         Rising(1, 3, LAMBDA n : asked([rows |-> Rows(n, [query |-> "q", impressions |-> 50])]))
    [] check = "backlinks" -> Each(<<102, 101, 100, 11, 10, 9>>, LAMBDA n : links([backlinks |-> n]))
    [] check = "referring_domains" -> Each(<<51, 50, 49, 10, 9>>, LAMBDA n : links([domains |-> n]))
    [] check = "domain_rank" -> Each(<<51, 50, 49, 20, 19>>, LAMBDA n : links([rank |-> n]))
    [] check = "broken_backlinks" -> Rising(0, 11, LAMBDA n : links([broken |-> n]))
    [] check = "nofollow_ratio" -> Rising(0, 10, LAMBDA n : links([follow |-> 10 - n, nofollow |-> n]))
    [] check \in {"domain_authority", "page_authority"} ->
         Each(<<41, 40, 39, 30, 29, 20, 19, 15, 14>>, LAMBDA n : [moz |-> TRUE, answered |-> TRUE, authority |-> n])
    [] check = "spam_score" -> Rising(0, 17, LAMBDA n : [moz |-> TRUE, answered |-> TRUE, spam |-> n])
    [] check = "rank_tracker" ->
         Each(<<<<10, 11>>, <<11, 0>>, <<0, 0>>>>, LAMBDA r : [serp |-> TRUE, dfs |-> FALSE, ranks |-> r])
    [] check = "competitor" ->
         Each(<<3, 4, 10, 0>>, LAMBDA n : [serp |-> TRUE, dfs |-> FALSE, answered |-> TRUE, rank |-> n])
    [] check = "serp_features" ->
         Each(<<{"paa"}, {}>>, LAMBDA f : [serp |-> TRUE, dfs |-> FALSE, answered |-> TRUE, ranks |-> <<1>>, features |-> f])
    [] check = "traffic_share" ->
         Rising(1, 10, LAMBDA n : [serp |-> TRUE, dfs |-> FALSE, answered |-> TRUE, ranks |-> <<n, 10, 0>>])

Hosts == <<"u1", "u2", "u3", "u4">>
Chain(n) == [k \in {Hosts[i] : i \in 1..n} |->
  IF k = Hosts[n] THEN [kind |-> "page", code |-> 200]
  ELSE [kind |-> "move", code |-> 301, to |-> Hosts[1 + CHOOSE i \in 1..n : Hosts[i] = k]]]
Line(key, value) == [key |-> key, value |-> value]
Open == <<Line("user-agent", "*"), Line("allow", "/"), Line("sitemap", "s")>>
Alternate(lang, found, web) == [lang |-> lang, itself |-> lang = "x-default", found |-> found, web |-> web]

ToolLadder(tool) ==
  LET got(p) == [tries |-> <<"busy", "ok">>] @@ p
      rules(lines) == got([code |-> 200, lines |-> lines, web |-> {"s"}, long |-> {"99"}])
      alternates(es) == [answer |-> Answered, entries |-> es]
  IN
  CASE tool = "serp_snippet_preview" -> Each(<<30, 29, 0>>, LAMBDA n : got([title |-> n, description |-> 160]))
    [] tool = "http_headers" ->
         Each(<<{}, {"nofollow"}, {"nofollow", "noindex"}>>, LAMBDA f : got([flags |-> f, cache |-> "max-age"]))
    [] tool = "code_to_text_ratio" -> Each(<<251, 250, 249, 100, 99>>, LAMBDA n : got([text |-> n, html |-> 1000]))
    [] tool = "redirect_chain" ->
         Rising(1, 4, LAMBDA n : [net |-> Chain(n), url |-> "u1", secure |-> {}])
    [] tool = "robots_tester" ->
         Each(<<Open, Open \o <<Line("user-agent", "*"), Line("allow", "/")>>,
                Open \o <<Line("user-agent", "googlebot"), Line("user-agent", "*"), Line("disallow", "/")>>>>,
              LAMBDA ls : rules(ls))
    [] tool = "hreflang_validator" ->
         Each(<<<<"up", TRUE>>, <<"moved", TRUE>>, <<"moved", FALSE>>, <<"down", FALSE>>>>, LAMBDA f :
           alternates(<<Alternate("x-default", "up", TRUE), Alternate("en", f[1], TRUE),
                        Alternate("de", "up", f[2])>>))

Tools == HtmlTools \cup {"redirect_chain", "hreflang_validator"}
MCLadder(check) ==
  IF check \in SiteChecks THEN SiteLadder(check)
  ELSE IF check \in Tools THEN ToolLadder(check)
  ELSE IF check \in PageCheckNames THEN PageLadder(check) ELSE ServiceLadder(check)
MCLadderChecks == Tools \cup SiteChecks \cup PageCheckNames \cup AnswerChecks \cup {"lcp"}
  \cup LinkChecks \cup AuthorityChecks \cup RankChecks

\* The longest ladder, of image_alt, has 21 rungs.
MCRungs == 1..21

MCUseCaseSets == {{c} : c \in UseCases} \cup {{"technical_seo", "on_page"}, UseCases}
MCFilters == {{}, {"title", "lcp", "rank_change"}}
=============================================================================
