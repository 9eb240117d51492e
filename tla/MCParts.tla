------------------------------ MODULE MCParts ------------------------------
(***************************************************************************)
(* Instance for TLC of the parts that share no state: the index checker,   *)
(* settings, reports, the caches of pages, the ranks kept, the link        *)
(* checker, the crawl, the rate limiter and the page audits.  No           *)
(* interleaving of two of them adds a behaviour to either, so a behaviour  *)
(* of this instance is one of one of them.                                 *)
(***************************************************************************)
EXTENDS MCPageAudits, MCLinkCheck, Settings, Reports, RankHistory, PageCache, Checker,
        UrlSources, RateLimiter

CONSTANTS t1, t2, v1, v2, n1, n2      \* model values

VARIABLE part       \* the one that takes steps

\* Lists of up to three, some of which name a URL twice.
MCLists == UNION {[1..n -> Urls] : n \in 1..3}

MCSitePages == {"a", "b", "c", "d"}
MCSiteNets ==
  {f \in [MCSitePages -> {Dead} \cup {L \in SUBSET MCSitePages : Cardinality(L) <= 2}] :
     \A p \in MCSitePages : p \notin f[p]}
MCCrawlLimits == {[pages |-> 4, depth |-> 2], [pages |-> 2, depth |-> 2], [pages |-> 1, depth |-> 1]}
MCMaps == {"m1", "m2", "m3"}
MCMapNets ==
  [MCMaps -> [kind : {"dead"}, of : {<<>>}] \cup [kind : {"urls"}, of : {<<>>, <<"url">>}]
             \cup [kind : {"index"}, of : {<<m>> : m \in MCMaps} \cup {<<"m2", m>> : m \in MCMaps}]]
MCUsualMaps == <<"m1", "m2", "m3">>

tools == <<sourceVars, rateVars, linkVars>>
stores == <<settingsVars, reportsVars, cacheVars, rankVars>>
others == <<vars, stores, case>>

MCInit ==
  /\ Init /\ SettingsInit /\ ReportsInit /\ CacheInit /\ RankInit /\ CaseInit
  /\ LinkInit /\ SourcesInit /\ RateInit
  /\ part \in {"checker", "settings", "reports", "cache", "ranks", "links", "sources", "rate", "audits"}
  /\ part # "settings" => config.plain = Absent /\ profiles = {}    \* no matter which

MCNext ==
  /\ \/ part = "checker" /\ Next /\ UNCHANGED <<stores, case, tools>>
     \/ part = "audits" /\ CaseNext /\ UNCHANGED <<vars, stores, tools>>
     \/ /\ UNCHANGED <<vars, case, tools>>
        /\ \/ part = "settings" /\ SettingsNext /\ UNCHANGED <<reportsVars, cacheVars, rankVars>>
           \/ part = "reports" /\ ReportsNext /\ UNCHANGED <<settingsVars, cacheVars, rankVars>>
           \/ part = "cache" /\ CacheNext /\ UNCHANGED <<settingsVars, reportsVars, rankVars>>
           \/ part = "ranks" /\ RankNext /\ UNCHANGED <<settingsVars, reportsVars, cacheVars>>
     \/ /\ UNCHANGED others
        /\ \/ part = "links" /\ LinkNext /\ UNCHANGED <<sourceVars, rateVars>>
           \/ part = "sources" /\ SourcesNext /\ UNCHANGED <<linkVars, rateVars>>
           \/ part = "rate" /\ RateNext /\ UNCHANGED <<linkVars, sourceVars>>
  /\ UNCHANGED part

MCSpec == MCInit /\ [][MCNext]_<<others, tools, part>>

\* Threads of every kind are t1 and t2; profiles, reports, cached sites and
\* domains n1 and n2: one permutation for all of them.
Symmetry == Permutations({t1, t2}) \cup Permutations({v1, v2}) \cup Permutations({n1, n2})
=============================================================================
