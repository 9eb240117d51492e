----------------------------- MODULE PageCache -----------------------------
(***************************************************************************)
(* The two caches of tools/phase1.py, of pages and of robots.txt files,    *)
(* under the checks that run in parallel: fetch_page, robots_check and     *)
(* their _cache_get and _cache_set.  Only get and set hold the lock, so    *)
(* that several checks may fetch one page at once, and one that was slow   *)
(* replaces what a later one stored.  Failures are stored like answers.    *)
(***************************************************************************)
EXTENDS Naturals, Sequences

CONSTANTS
  CheckThreads,     \* threads of the pools of audits
  Sites,            \* keys of the caches
  NotCached,        \* no entry
  PageTtl, RobotsTtl,
  CacheMax,         \* _CACHE_MAX, of each cache
  MaxCheckTime,     \* a check takes at most so long
  MaxClock

ASSUME CacheAssumption ==
  /\ {PageTtl, RobotsTtl, CacheMax} \subseteq Nat \ {0} /\ {MaxCheckTime, MaxClock} \subseteq Nat

VARIABLES
  clock,
  cache,            \* of each kind, its entries in the order of insertion
  check,            \* what each thread is doing
  report            \* how old what the last check in each thread said was as it said it

cacheVars == <<clock, cache, check, report>>

Kinds == {"page", "robots"}

\* taken: when the site gave it; stamp: when it was stored.
CacheEntry == [site : Sites, taken : 0..MaxClock, stamp : 0..MaxClock]

\* fetch: before the answer; store: before _cache_set; again: before the second
\* _cache_get of robots_check.  since: when the check began.
NoCheck == [stage |-> "idle", kind |-> "page", site |-> NotCached, since |-> 0, taken |-> 0]
NoReport == [kind |-> "page", age |-> 0]

CacheInit ==
  /\ clock = 0
  /\ cache = [k \in Kinds |-> <<>>]
  /\ check = [t \in CheckThreads |-> NoCheck]
  /\ report = [t \in CheckThreads |-> NoReport]

-----------------------------------------------------------------------------
Places(k, s) == {i \in DOMAIN cache[k] : cache[k][i].site = s}

\* _cache_get.
CacheGet(k, s) ==
  IF Places(k, s) = {} THEN NotCached ELSE cache[k][CHOOSE i \in Places(k, s) : TRUE]

\* _cache_set: an entry keeps its place in the dict when it is replaced, so that
\* the one evicted is the one inserted first.
CacheSet(k, e) ==
  cache' = [cache EXCEPT ![k] =
    IF Places(k, e.site) # {} THEN [i \in DOMAIN @ |-> IF @[i].site = e.site THEN e ELSE @[i]]
    ELSE Append(IF Len(@) >= CacheMax THEN Tail(@) ELSE @, e)]

\* Mutant of Fresh: an entry serves until it is evicted.
FreshUntilEvicted(k, e) == e # NotCached

Fresh(k, e) ==
  /\ e # NotCached
  /\ IF k = "page" THEN clock - e.stamp < PageTtl ELSE clock - e.stamp <= RobotsTtl

Says(t, k, taken) == report' = [report EXCEPT ![t] = [kind |-> k, age |-> clock - taken]]
Ends(t) == check' = [check EXCEPT ![t] = NoCheck]

\* A check looks for its page.  robots_check looks a second time for what it says.
Lookup(t, k, s) ==
  LET e == CacheGet(k, s)
  IN  /\ check[t].stage = "idle"
      /\ IF Fresh(k, e) /\ k = "page" THEN Says(t, k, e.taken) /\ UNCHANGED check
         ELSE /\ check' = [check EXCEPT ![t] =
                   [stage |-> IF Fresh(k, e) THEN "again" ELSE "fetch",
                    kind |-> k, site |-> s, since |-> clock, taken |-> 0]]
              /\ report' = [report EXCEPT ![t] = NoReport]
      /\ UNCHANGED <<clock, cache>>

\* The site answers, or fails to.
SiteAnswers(t) ==
  /\ check[t].stage = "fetch"
  /\ LET c == check[t]
     IN  check' = [check EXCEPT ![t] = [stage |-> "store", kind |-> c.kind, site |-> c.site,
                                        since |-> c.since, taken |-> clock]]
  /\ UNCHANGED <<clock, cache, report>>

\* A URL that is refused raises past fetch_page and is not cached; robots_check
\* stores that as a failure.
SiteRefused(t) ==
  /\ check[t].stage = "fetch" /\ check[t].kind = "page"
  /\ Ends(t)
  /\ UNCHANGED <<clock, cache, report>>

\* fetch_page returns what it fetched itself.
Store(t) ==
  LET c == check[t]
  IN  /\ c.stage = "store"
      /\ CacheSet(c.kind, [site |-> c.site, taken |-> c.taken, stamp |-> clock])
      /\ IF c.kind = "page" THEN Says(t, c.kind, c.taken) /\ Ends(t)
         ELSE check' = [check EXCEPT ![t].stage = "again"] /\ UNCHANGED report
      /\ UNCHANGED clock

\* By then the entry may be another's, or evicted: "could not fetch robots.txt".
LookAgain(t) ==
  LET c == check[t]
      e == CacheGet(c.kind, c.site)
  IN  /\ c.stage = "again"
      /\ Says(t, c.kind, IF e = NotCached THEN clock ELSE e.taken)
      /\ Ends(t)
      /\ UNCHANGED <<clock, cache>>

TimePasses ==
  /\ clock < MaxClock
  /\ \A t \in CheckThreads : check[t].stage = "idle" \/ clock - check[t].since < MaxCheckTime
  /\ clock' = clock + 1
  /\ UNCHANGED <<cache, check, report>>

CacheNext ==
  \/ \E t \in CheckThreads :
       \/ \E k \in Kinds, s \in Sites : Lookup(t, k, s)
       \/ SiteAnswers(t) \/ SiteRefused(t) \/ Store(t) \/ LookAgain(t)
  \/ TimePasses

CacheSpec == CacheInit /\ [][CacheNext]_cacheVars

-----------------------------------------------------------------------------
\* What a check says of a page was so at most the time to live ago, and the time
\* that the check that fetched it, and for robots.txt the check itself, may take:
\* whatever was stored late, replaced or evicted in the meantime.
StaleBound ==
  \A t \in CheckThreads :
    report[t].age <= IF report[t].kind = "page" THEN PageTtl - 1 + MaxCheckTime
                                                ELSE RobotsTtl + 2 * MaxCheckTime
=============================================================================
