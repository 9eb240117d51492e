----------------------------- MODULE UrlSources -----------------------------
(***************************************************************************)
(* Where runs get their URLs from, in core/checker.py: crawl_site goes     *)
(* through a site in the order of its queue; fetch_sitemap_urls through    *)
(* nested sitemaps, the first one first; fetch_from_domain tries the usual *)
(* places of a sitemap.  The recursion is a stack of what is left to do.   *)
(***************************************************************************)
EXTENDS Naturals, Sequences, FiniteSets, SequencesExt

CONSTANTS
  SitePages,        \* pages of a site
  SiteNets,         \* what the pages of a site may link to
  StartPages,
  CrawlLimits,      \* max_pages and max_depth that are asked for
  Maps,             \* sitemaps
  MapNets,          \* what sitemaps may hold
  FirstMaps,        \* the sitemaps that are asked for
  UsualMaps,        \* the sequence of places where fetch_from_domain looks
  MaxMapDepth       \* 5

\* No page but one that answers with HTML and status 200 has links.
Dead == {"dead"}

\* A sitemap is dead, lists URLs, or lists sitemaps.
MapKinds == {"dead", "urls", "index"}

ASSUME SourcesAssumption ==
  /\ IsFiniteSet(SitePages) /\ "dead" \notin SitePages
  /\ SiteNets \subseteq [SitePages -> {Dead} \cup SUBSET SitePages] /\ StartPages \subseteq SitePages
  /\ CrawlLimits \subseteq [pages : Nat \ {0}, depth : Nat]
  /\ \A net \in MapNets, m \in Maps :
       net[m].kind \in MapKinds /\ (net[m].kind = "index" => net[m].of \in Seq(Maps))
  /\ FirstMaps \subseteq Maps /\ UsualMaps \in Seq(Maps) /\ UsualMaps # <<>> /\ MaxMapDepth \in Nat

VARIABLES
  job,              \* "idle", "crawl", "maps", or which of them has ended
  limits,
  web,              \* the links of each page, or what each sitemap holds
  ahead,            \* what the job has to go to: a page or sitemap, and its depth
  seen,
  gathered,         \* the pages, or the sitemaps whose URLs were taken, in order
  places,           \* where fetch_from_domain looks next
  cut               \* something was left out for being too deep or too much

sourceVars == <<job, limits, web, ahead, seen, gathered, places, cut>>

SourcesInit ==
  /\ job = "idle" /\ limits = [pages |-> 1, depth |-> 0] /\ web = <<>>
  /\ ahead = <<>> /\ seen = {} /\ gathered = <<>> /\ places = <<>> /\ cut = FALSE

Starts(kind, at) ==
  /\ job = "idle" /\ job' = kind
  /\ ahead' = <<[at |-> at, depth |-> 0]>>
  /\ UNCHANGED <<seen, gathered, cut>>

-----------------------------------------------------------------------------
BeginCrawl(start, max, site) ==
  /\ Starts("crawl", start)
  /\ limits' = max /\ web' = site
  /\ UNCHANGED places

\* Mutant of Queued: what was gathered last is next.
Stacked(q, e) == <<e>> \o q

Queued(q, e) == Append(q, e)

\* A link is queued unless it was visited or the queue is long.
Fits(q, room, p, visited) == p \notin visited /\ Len(q) < room
Enqueue(q, links, depth, visited, room) ==
  LET after[i \in 0..Len(links)] ==
        IF i = 0 THEN q
        ELSE IF Fits(after[i - 1], room, links[i], visited)
             THEN Queued(after[i - 1], [at |-> links[i], depth |-> depth]) ELSE after[i - 1]
  IN  after[Len(links)]

\* One turn of the loop.  What a page links to is looked at above the depth only.
Crawl ==
  LET e == Head(ahead)
      live == e.at \notin seen /\ web[e.at] # Dead
      links == IF live /\ e.depth < limits.depth THEN SetToSeq(web[e.at]) ELSE <<>>
      visited == seen \cup {e.at}
      listed == Len(gathered) + 1
      next == Enqueue(Tail(ahead), links, e.depth + 1, visited, 3 * limits.pages - listed)
  IN  /\ job = "crawl" /\ ahead # <<>> /\ Len(gathered) < limits.pages
      /\ seen' = visited
      /\ gathered' = IF live THEN Append(gathered, e.at) ELSE gathered
      /\ ahead' = next
      /\ cut' = (cut \/ \E p \in ToSet(links) \ visited : p \notin {next[i].at : i \in DOMAIN next})
      /\ UNCHANGED <<job, limits, web, places>>

EndCrawl ==
  /\ job = "crawl" /\ (ahead = <<>> \/ Len(gathered) >= limits.pages)
  /\ job' = "crawled"
  /\ UNCHANGED <<limits, web, ahead, seen, gathered, places, cut>>

-----------------------------------------------------------------------------
\* A list of sitemaps is given, or a domain.
BeginMaps(first, rest, maps) ==
  /\ Starts("maps", first)
  /\ web' = maps /\ places' = rest
  /\ UNCHANGED limits

\* A call of fetch_sitemap_urls: too deep, known, dead, a list, or an index.
FetchMap ==
  LET e == Head(ahead)
      deep == e.depth > MaxMapDepth
      fresh == ~deep /\ e.at \notin seen
      map == web[e.at]
  IN  /\ job = "maps" /\ ahead # <<>>
      /\ seen' = IF fresh THEN seen \cup {e.at} ELSE seen
      /\ gathered' = IF fresh /\ map.kind = "urls" THEN Append(gathered, e.at) ELSE gathered
      /\ ahead' = (IF fresh /\ map.kind = "index"
                     THEN [i \in DOMAIN map.of |-> [at |-> map.of[i], depth |-> e.depth + 1]]
                     ELSE <<>>) \o Tail(ahead)
      /\ cut' = (cut \/ deep)
      /\ UNCHANGED <<job, limits, web, places>>

UrlsOf(maps) == {m \in ToSet(maps) : web[m].of # <<>>}

\* Without a URL the next place is tried, with nothing seen; in the end there is the
\* homepage.
TryNext ==
  /\ job = "maps" /\ ahead = <<>> /\ UrlsOf(gathered) = {} /\ places # <<>>
  /\ ahead' = <<[at |-> Head(places), depth |-> 0]>>
  /\ places' = Tail(places)
  /\ seen' = {} /\ gathered' = <<>> /\ cut' = FALSE
  /\ UNCHANGED <<job, limits, web>>

EndMaps ==
  /\ job = "maps" /\ ahead = <<>> /\ (UrlsOf(gathered) # {} \/ places = <<>>)
  /\ job' = "listed"
  /\ UNCHANGED <<limits, web, ahead, seen, gathered, places, cut>>

NextSource ==
  /\ job \in {"crawled", "listed"}
  /\ job' = "idle" /\ limits' = [pages |-> 1, depth |-> 0] /\ web' = <<>>
  /\ ahead' = <<>> /\ seen' = {} /\ gathered' = <<>> /\ places' = <<>> /\ cut' = FALSE

SourcesNext ==
  \/ /\ job = "idle"
     /\ \/ \E p \in StartPages, max \in CrawlLimits, site \in SiteNets : BeginCrawl(p, max, site)
        \/ \E maps \in MapNets, m \in FirstMaps : BeginMaps(m, <<>>, maps)
        \/ \E maps \in MapNets : BeginMaps(Head(UsualMaps), Tail(UsualMaps), maps)
  \/ Crawl \/ EndCrawl \/ FetchMap \/ TryNext \/ EndMaps \/ NextSource

SourcesSpec == SourcesInit /\ [][SourcesNext]_sourceVars

-----------------------------------------------------------------------------
\* Pages within each number of links, up to k, of a page of a site, through pages
\* that answer.
Near(site, start, k) ==
  LET near[i \in 0..k] ==
        IF i = 0 THEN {start}
        ELSE near[i - 1] \cup UNION {site[p] : p \in {q \in near[i - 1] : site[q] # Dead}}
  IN  near

Within(start, k) == {p \in Near(web, start, k)[k] : web[p] # Dead}

\* A crawl that neither reached its number of pages nor its cap of the queue has gathered
\* each page that is within its depth and no other, none twice: that a page was met on
\* a long way first does not hide what it leads to.
CrawlComplete ==
  job = "crawled" =>
    /\ IsInjective(gathered)
    /\ ~cut /\ Len(gathered) < limits.pages /\ gathered # <<>> =>
         ToSet(gathered) = Within(gathered[1], limits.depth)

\* Sitemaps that lead to each other are each read once, and end; if none was too deep,
\* the lists of all that can be reached from the first are taken.
MapsComplete ==
  job = "listed" =>
    /\ IsInjective(gathered)
    /\ ~cut => \A m \in seen : /\ web[m].kind = "index" => ToSet(web[m].of) \subseteq seen
                               /\ web[m].kind = "urls" => m \in ToSet(gathered)

SourcesComplete == CrawlComplete /\ MapsComplete

-----------------------------------------------------------------------------
(* Strengthenings under which the properties above are inductive.           *)

Live(S) == {p \in S : web[p] # Dead}
InQueue(p, depth) == \E i \in DOMAIN ahead : ahead[i].at = p /\ ahead[i].depth <= depth

\* Before the first page is looked at, after a first page that is dead, and then.
CrawlBegins ==
  gathered = <<>> => \/ ahead = <<>>
                     \/ seen = {} /\ \E p \in SitePages : ahead = <<[at |-> p, depth |-> 0]>>

\* The queue is in the order of depth, and spans two of them.
QueueSorted ==
  \A i, j \in DOMAIN ahead :
    /\ i < j => ahead[i].depth <= ahead[j].depth
    /\ ahead[j].depth <= ahead[1].depth + 1

\* What is seen or queued is as near as it is believed to be; and what a page that is
\* seen leads to is seen, or queued at no greater depth than it has.
Explored ==
  gathered # <<>> =>
    LET near == Near(web, gathered[1], limits.depth)
    IN  /\ gathered[1] \in seen
        /\ \A i \in DOMAIN ahead : ahead[i].at \in near[ahead[i].depth]
        /\ seen \subseteq near[limits.depth]
        /\ ~cut => \A d \in 0..limits.depth - 1 : \A p \in Live(seen \cap near[d]) :
                      \A x \in web[p] : x \in seen \/ InQueue(x, d + 1)

CrawlInv ==
  job \in {"crawl", "crawled"} =>
    /\ web \in SiteNets /\ limits \in CrawlLimits
    /\ ahead \in Seq([at : SitePages, depth : 0..limits.depth])
    /\ seen \subseteq SitePages /\ gathered \in Seq(SitePages) /\ IsInjective(gathered)
    /\ ToSet(gathered) = Live(seen)
    /\ CrawlBegins /\ QueueSorted /\ Explored
    /\ job = "crawled" => ahead = <<>> \/ Len(gathered) >= limits.pages

MapsInv ==
  /\ job \in {"maps", "listed"} =>
       /\ web \in MapNets /\ ahead \in Seq([at : Maps, depth : Nat]) /\ places \in Seq(Maps)
       /\ seen \subseteq Maps /\ gathered \in Seq(seen) /\ IsInjective(gathered)
       /\ \A m \in seen :
            /\ ~cut /\ web[m].kind = "index" =>
                 \A x \in ToSet(web[m].of) : x \in seen \/ \E i \in DOMAIN ahead : ahead[i].at = x
            /\ web[m].kind = "urls" => m \in ToSet(gathered)
  /\ job = "listed" => ahead = <<>>
  /\ job = "idle" => seen = {} /\ gathered = <<>> /\ ~cut
=============================================================================
