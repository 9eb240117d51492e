--------------------------- MODULE ServiceChecks ---------------------------
(***************************************************************************)
(* The checks that ask a service: PageSpeed and URL inspection of          *)
(* tools/phase2.py, Search Console of phase3.py, and backlinks, authority  *)
(* and rankings of phase4.py: the verdict of each from what the service    *)
(* answered.  Thresholds are those of the config.json that is shipped.     *)
(***************************************************************************)
EXTENDS Verdicts, Integers, SequencesExt

Sum(s) == FoldLeft(LAMBDA x, y : x + y, 0, s)
AtLeast(good, fair, n) == Graded(n < fair, n < good)

-----------------------------------------------------------------------------
(* PageSpeed.                                                               *)

pagespeed(p) == Having(p.service, AtLeast(90, 50, p.score))

\* desktop: its lookup failed and counts 0; the verdict is the mobile score's.
mobile(p) == Having(p.service, AtLeast(70, 50, p.score))

\* rating: of the metric in percent, -1 for null; a metric that is missing counts 0.
web_vital(p) == IF p.rating < 0 THEN "warning" ELSE AtLeast(90, 50, p.rating)

\* The metrics of performance_opportunities by the names pagespeed_check keeps, and
\* the names they are asked by.
Impact == [lcp |-> "high", cls |-> "medium", inp |-> "medium", tbt |-> "medium",
           fcp |-> "low", speed_index |-> "low"]
AskedBy == [lcp |-> {"largest_contentful_paint", "largest-contentful-paint"},
            cls |-> {"cumulative_layout_shift", "cumulative-layout-shift"},
            inp |-> {"interaction_to_next_paint", "interaction-to-next-paint"},
            tbt |-> {"total_blocking_time", "total-blocking-time"},
            fcp |-> {"first_contentful_paint", "first-contentful-paint"},
            speed_index |-> {"speed_index", "speed-index"}]

\* Thresholds in thousandths of the unit of _CWV, which for inp and tbt is ms.
Good == [lcp |-> 2500, cls |-> 100, inp |-> 200000, tbt |-> 200000, fcp |-> 1800, speed_index |-> 3400]
Fair == [lcp |-> 4000, cls |-> 250, inp |-> 500000, tbt |-> 600000, fcp |-> 3000, speed_index |-> 5800]

\* _parse_metric_value: thousandths of a second, or of 1.  0 is no value.
Grade(metric, value) ==
  CASE value = 0 -> "unknown"
    [] value \in 1..Good[metric] -> "good"
    [] value > Good[metric] /\ value <= Fair[metric] -> "needs_improvement"
    [] value > Fair[metric] -> "poor"

\* shown: what each metric is displayed as.
Found(metric, shown) ==
  LET names == AskedBy[metric] \cap DOMAIN shown
  IN  IF names = {} THEN 0 ELSE shown[CHOOSE n \in names : TRUE]

Worst(metric, p) ==
  LET grades == {Grade(metric, Found(metric, p.mobile)), Grade(metric, Found(metric, p.desktop))}
  IN  IF "poor" \in grades THEN "poor"
      ELSE IF "needs_improvement" \in grades THEN "needs_improvement" ELSE "good"

performance_opportunities(p) ==
  LET graded(impact, grades) == {m \in DOMAIN Impact : Impact[m] = impact /\ Worst(m, p) \in grades}
  IN  IF ~p.service THEN "error"
      ELSE IF graded("high", {"poor"}) # {} THEN "critical"
      ELSE IF graded("medium", {"poor", "needs_improvement"}) # {} THEN "needs_work"
      ELSE IF p.score >= 90 THEN "good" ELSE "fair"

-----------------------------------------------------------------------------
(* Search Console.  p.rows are those the query gives; a call that raises is *)
(* an error.  Positions are in tenths.                                      *)

gsc_crawl_inspection(p) == Having(p.service, Graded(p.verdict \notin {"PASS", "NEUTRAL"}, p.verdict = "NEUTRAL"))

clicks_impressions(p) == Having(p.service, Graded(FALSE, p.rows = <<>> \/ p.rows[1].clicks = 0))

position_tracker(p) ==
  LET average == Rounded(Sum(p.rows), Len(p.rows))
  IN  Having(p.service, IF p.rows = <<>> THEN "warning" ELSE Graded(average > 300, average > 100))

\* ctr: in hundredths of a percent.
ctr_analyzer(p) ==
  Having(p.service, Graded(FALSE, \E i \in DOMAIN p.rows :
    p.rows[i].impressions >= 100 /\ p.rows[i].ctr < 200 /\ p.rows[i].position <= 200))

\* A sitemap of which nothing is indexed has no gap.
coverage_errors(p) ==
  Having(p.service, Graded(FALSE, \E i \in DOMAIN p.rows :
    p.rows[i].web /\ p.rows[i].indexed > 0 /\ p.rows[i].submitted > p.rows[i].indexed))

top_queries(p) == Having(p.service, Graded(FALSE, p.rows = <<>>))

sitemaps_status(p) ==
  Having(p.service, Graded(\E i \in DOMAIN p.rows :
    p.rows[i].errors > 0 \/ 2 * p.rows[i].indexed < p.rows[i].submitted, p.rows = <<>>))

manual_actions(p) == Having(p.service, Graded(p.verdict # "NO_MANUAL_ACTIONS" /\ p.rows # <<>>, FALSE))

opportunity_pages(p) ==
  Having(p.service, Graded(FALSE, \E i \in DOMAIN p.rows :
    p.rows[i].impressions >= 200 /\ p.rows[i].ctr < 300 /\ p.rows[i].position <= 200))

\* pages: of each page its positions by date.  In thousandths, rounded down.
Decay(positions) ==
  LET n == Len(positions)
      half == n \div 2
      average(s) == (1000 * Sum(s)) \div Len(s)
  IN  IF half < 5 THEN 0
      ELSE average(SubSeq(positions, half + 1, n)) - average(SubSeq(positions, 1, half))

position_decay(p) ==
  LET worst(d) == \E i \in DOMAIN p.pages : Decay(p.pages[i]) >= d
  IN  Having(p.service, Graded(worst(10000), worst(3000)))

keyword_cannibalization(p) ==
  Having(p.service, Graded(FALSE, \E i, j \in DOMAIN p.rows :
    /\ i # j /\ p.rows[i].query = p.rows[j].query
    /\ p.rows[i].impressions >= 50 /\ p.rows[j].impressions >= 50))

-----------------------------------------------------------------------------
(* Backlinks and authority.  p.moz, p.dfs: the credentials are there.       *)

\* _fetch_with_backoff over its attempts: a 429 ends it with no answer, and so do
\* 5xx to the end; an exception is raised only by the last attempt.
Backoff(tries) ==
  LET said == {i \in DOMAIN tries : tries[i] \in {"ok", "limited"}}
      first == CHOOSE i \in said : \A j \in said : i <= j
  IN  IF said # {} THEN IF tries[first] = "ok" THEN "answer" ELSE "none"
      ELSE IF tries[Len(tries)] = "raises" THEN "raised" ELSE "none"

\* No answer is None, which has no json: AttributeError, that nothing here catches.
Asked(tries, verdict, otherwise) ==
  CASE Backoff(tries) = "answer" -> verdict
    [] Backoff(tries) = "raised" -> otherwise
    [] Backoff(tries) = "none" -> "crash"

backlinks(p) ==
  IF p.dfs THEN Asked(p.tries, Graded(p.backlinks <= 10, p.backlinks <= 100), "warning") ELSE "warning"

\* What two more checks read from backlink_check: a lookup that failed is 0 of them.
Summary(p, n) == IF Backoff(p.tries) = "answer" THEN n ELSE 0
referring_domains(p) ==
  IF p.dfs THEN Asked(p.tries, AtLeast(50, 10, p.domains), AtLeast(50, 10, Summary(p, p.domains)))
  ELSE "warning"
domain_rank(p) ==
  IF p.dfs THEN Asked(p.tries, AtLeast(50, 20, p.rank), AtLeast(50, 20, Summary(p, p.rank)))
  ELSE "warning"

broken_backlinks(p) ==
  IF p.dfs THEN Asked(p.tries, Graded(p.broken > 10, p.broken > 0), "error") ELSE "warning"

\* In tenths of a percent; no link at all counts as one that is not followed.
nofollow_ratio(p) ==
  LET all == p.follow + p.nofollow
      pct == Rounded(1000 * p.follow, IF all = 0 THEN 1 ELSE all)
  IN  IF p.dfs THEN Asked(p.tries, AtLeast(700, 500, pct), "error") ELSE "warning"

domain_authority(p) ==
  IF p.moz /\ p.answered THEN AtLeast(40, 20, p.authority) ELSE "warning"

\* Of domain_authority's result, which has no value when its lookup failed.
page_authority(p) ==
  IF p.moz THEN AtLeast(30, 15, IF p.answered THEN p.authority ELSE 0) ELSE "warning"

spam_score(p) ==
  IF p.moz THEN Having(p.answered, Graded(p.spam > 7, p.spam > 3)) ELSE "warning"

-----------------------------------------------------------------------------
(* Rankings.  ranks: of each keyword, 0 for none.                           *)

Among(ranks, n) == \E i \in DOMAIN ranks : ranks[i] \in 1..n

\* With SerpAPI a lookup that fails is a keyword without a rank.
rank_tracker(p) ==
  IF p.ranks = <<>> \/ ~(p.serp \/ p.dfs) THEN "warning"
  ELSE Having(p.serp \/ p.answered,
              Graded(\A i \in DOMAIN p.ranks : p.ranks[i] = 0, ~Among(p.ranks, 10)))

competitor(p) ==
  IF ~(p.serp \/ p.dfs) THEN "warning"
  ELSE Having(p.answered, Graded(p.rank \notin 1..10, p.rank \notin 1..3))

\* Features are read only from SerpAPI.
serp_features(p) ==
  IF p.ranks = <<>> \/ ~(p.serp \/ p.dfs) THEN "warning"
  ELSE Having(~p.serp \/ p.answered, Graded(FALSE, ~p.serp \/ p.features = {}))

\* Click-through rates by position, in tenths of a percent.
CTR == <<285, 157, 110, 80, 72, 51, 40, 32, 28, 25>>
Shown(ranks) == SelectSeq(ranks, LAMBDA r : r \in 1..10)
Clicks(ranks) == Sum([i \in DOMAIN Shown(ranks) |-> CTR[Shown(ranks)[i]]])
traffic_share(p) ==
  LET top == Shown(p.ranks)
      average == Rounded(Clicks(p.ranks), Len(top))
  IN  IF ~(p.serp \/ (p.dfs /\ p.answered)) \/ top = <<>> THEN "warning" ELSE AtLeast(100, 50, average)
=============================================================================
