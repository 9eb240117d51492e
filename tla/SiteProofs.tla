----------------------------- MODULE SiteProofs -----------------------------
(***************************************************************************)
(* Proofs about UrlSources, LinkCheck and PageAudits: how a site is crawled*)
(* and nested sitemaps are read, how the links of a page are probed, what  *)
(* canonical_loop_check makes of a chain of pages, the score of an audit,  *)
(* and that a worse finding gets no better verdict from any check; for any *)
(* sites, sitemaps, links, pages, audits, findings and bounds.             *)
(*                                                                         *)
(* What is defined by recursion is proved to be what it says by induction  *)
(* in the form of a set that contains zero and every successor, from the   *)
(* fact that every non-empty set of natural numbers has a least element.   *)
(***************************************************************************)
EXTENDS PageAudits, UrlSources, LinkCheck, FiniteSetTheorems, SequenceTheorems,
        WellFoundedInduction, TLAPS

-----------------------------------------------------------------------------
(* Induction, functions defined by recursion, and sequences.                *)

\* Every set of natural numbers has a least element.
LEMMA Least ==
  ASSUME NEW S \in SUBSET Nat, S # {}
  PROVE  \E n \in S : \A m \in S : n <= m
<1> DEFINE R == {ss \in Nat \X Nat : ss[1] < ss[2]}
<1>1. IsWellFoundedOn(R, Nat)
  BY NatLessThanWellFounded, Zenon DEF OpToRel
<1>2. \A m, n \in Nat : <<m, n>> \in R <=> m < n
  OBVIOUS
<1> HIDE DEF R
<1>3. PICK x \in S : \A y \in S : ~ (<<y, x>> \in R)
  BY <1>1, WFMin
<1>4. \A y \in S : ~ (y < x)
  BY <1>2, <1>3
<1>5. \A y \in S : x <= y
  BY <1>4
<1>6. QED
  BY <1>5

\* A set with zero and, below n, the successor of each of its elements has
\* every number up to n.
LEMMA UpTo ==
  ASSUME NEW n \in Nat, NEW S, 0 \in S,
         \A k \in 0..n - 1 : k \in S => k + 1 \in S
  PROVE  \A k \in 0..n : k \in S
<1> DEFINE Gaps == {k \in 0..n : k \notin S}
<1>1. SUFFICES ASSUME Gaps # {} PROVE FALSE
  OBVIOUS
<1>2. Gaps \in SUBSET Nat
  OBVIOUS
<1> HIDE DEF Gaps
<1>3. PICK m \in Gaps : \A k \in Gaps : m <= k
  BY <1>1, <1>2, Least
<1>4. m \in 0..n /\ m \notin S
  BY DEF Gaps
<1>5. m - 1 \in 0..n - 1
  BY <1>4
<1>6. m - 1 \in S
  BY <1>3, <1>4, <1>5 DEF Gaps
<1>7. QED
  BY <1>4, <1>5, <1>6

\* Steps can be taken one after the other as often as one likes.
Iterates(g, n, S, b, F) ==
  /\ g \in [0..n -> S] /\ g[0] = b
  /\ \A k \in 1..n : g[k] = F[k][g[k - 1]]

LEMMA Recursion ==
  ASSUME NEW n \in Nat, NEW S, NEW b \in S, NEW F \in [1..n -> [S -> S]]
  PROVE  \E g : Iterates(g, n, S, b, F)
<1> DEFINE Part(m) == {g \in [0..m -> S] : g[0] = b /\ \A k \in 1..m : g[k] = F[k][g[k - 1]]}
           T == {m \in Nat : Part(m) # {}}
<1>1. 0 \in T
  <2>1. [j \in 0..0 |-> b] \in Part(0)
    OBVIOUS
  <2>2. QED
    BY <2>1
<1>2. ASSUME NEW m \in 0..n - 1, m \in T
      PROVE  m + 1 \in T
  <2>1. PICK g : g \in Part(m)
    BY <1>2
  <2> DEFINE h == [j \in 0..m + 1 |-> IF j = m + 1 THEN F[m + 1][g[m]] ELSE g[j]]
  <2>2. g[m] \in S /\ F[m + 1][g[m]] \in S
    BY <2>1
  <2>3. h \in [0..m + 1 -> S]
    BY <2>1, <2>2
  <2>4. h[0] = b
    BY <2>1
  <2>5. ASSUME NEW k \in 1..m + 1
        PROVE  h[k] = F[k][h[k - 1]]
    <3>1. CASE k = m + 1
      BY <2>1, <3>1
    <3>2. CASE k \in 1..m
      BY <2>1, <3>2
    <3>3. QED
      BY <3>1, <3>2
  <2> HIDE DEF h
  <2>6. h \in Part(m + 1)
    BY <2>3, <2>4, <2>5
  <2>7. m + 1 \in Nat
    OBVIOUS
  <2> HIDE DEF Part
  <2>8. QED
    BY <2>6, <2>7
<1>3. n \in T
  <2> HIDE DEF T
  <2>1. \A k \in 0..n : k \in T
    BY <1>1, <1>2, UpTo
  <2>2. QED
    BY <2>1
<1>4. QED
  BY <1>3 DEF Iterates

\* A set as a sequence: all of it, nothing else, nothing twice.
LEMMA Listed ==
  ASSUME NEW S, IsFiniteSet(S)
  PROVE  /\ SetToSeq(S) \in Seq(S)
         /\ \A x \in S : \E i \in DOMAIN SetToSeq(S) : SetToSeq(S)[i] = x
         /\ \A i, j \in DOMAIN SetToSeq(S) : SetToSeq(S)[i] = SetToSeq(S)[j] => i = j
<1> DEFINE n == Cardinality(S)
           f == SetToSeq(S)
<1>1. n \in Nat /\ IsFiniteSet(1..n) /\ Cardinality(1..n) = n
  BY FS_CardinalityType, FS_Interval
<1>2. PICK g : g \in Bijection(1..n, S)
  BY <1>1, FS_SameCardinalityBij DEF ExistsBijection
<1>3. g \in [1..n -> S] /\ IsInjective(g)
  BY <1>2 DEF Bijection, Injection
<1>4. f \in [1..n -> S] /\ IsInjective(f)
  BY <1>3 DEF SetToSeq
<1>5. f \in Surjection(1..n, S)
  BY <1>1, <1>4, FS_Injection DEF Injection
<1>6. QED
  BY <1>1, <1>4, <1>5 DEF IsInjective, Surjection

\* A sequence over a set is one over a larger one.
LEMMA Wider ==
  ASSUME NEW S, NEW T, S \subseteq T, NEW s \in Seq(S)
  PROVE  s \in Seq(T)
<1>1. /\ Len(s) \in Nat /\ s = [i \in 1..Len(s) |-> s[i]]
      /\ \A i \in 1..Len(s) : s[i] \in T
  OBVIOUS
<1>2. QED
  BY <1>1

\* The first of a queue, and the others.
LEMMA QueueParts ==
  ASSUME NEW E, NEW q \in Seq(E), q # <<>>
  PROVE  /\ Len(q) \in Nat \ {0} /\ DOMAIN q = 1..Len(q)
         /\ Head(q) = q[1] /\ Head(q) \in E
         /\ Tail(q) \in Seq(E) /\ Len(Tail(q)) = Len(q) - 1
         /\ \A i \in 1..Len(q) - 1 : Tail(q)[i] = q[i + 1]
         /\ \A i \in 1..Len(q) : q[i] \in E
OBVIOUS

\* A sequence with one element more.
LEMMA OneAppended ==
  ASSUME NEW S, NEW s \in Seq(S), NEW x \in S
  PROVE  /\ Append(s, x) \in Seq(S)
         /\ ToSet(Append(s, x)) = ToSet(s) \cup {x}
         /\ IsInjective(s) /\ x \notin ToSet(s) => IsInjective(Append(s, x))
<1> DEFINE a == Append(s, x)
           n == Len(s)
<1>1. /\ n \in Nat /\ DOMAIN s = 1..n /\ a \in Seq(S) /\ DOMAIN a = 1..n + 1
      /\ a[n + 1] = x /\ \A i \in 1..n : a[i] = s[i]
  OBVIOUS
<1> HIDE DEF a, n
<1>2. ToSet(a) = ToSet(s) \cup {x}
  <2>1. \A y : y \in ToSet(a) <=> \E i \in 1..n + 1 : y = a[i]
    BY <1>1 DEF ToSet
  <2>2. \A y : y \in ToSet(s) <=> \E i \in 1..n : y = s[i]
    BY <1>1 DEF ToSet
  <2>3. ASSUME NEW y \in ToSet(a) PROVE y \in ToSet(s) \cup {x}
    <3>1. PICK i \in 1..n + 1 : y = a[i]
      BY <2>1
    <3>2. i = n + 1 \/ i \in 1..n
      BY <1>1
    <3>3. QED
      BY <1>1, <2>2, <3>1, <3>2
  <2>4. ASSUME NEW y \in ToSet(s) PROVE y \in ToSet(a)
    <3>1. PICK i \in 1..n : y = s[i]
      BY <2>2
    <3>2. i \in 1..n + 1 /\ y = a[i]
      BY <1>1, <3>1
    <3>3. QED
      BY <2>1, <3>2
  <2>5. x \in ToSet(a)
    <3>1. n + 1 \in 1..n + 1
      BY <1>1
    <3>2. QED
      BY <1>1, <2>1, <3>1
  <2>6. QED
    BY <2>3, <2>4, <2>5
<1>3. ASSUME IsInjective(s), x \notin ToSet(s)
      PROVE  IsInjective(a)
  <2>1. \A i \in 1..n : s[i] # x
    BY <1>1, <1>3 DEF ToSet
  <2>2. ASSUME NEW i \in 1..n + 1, NEW j \in 1..n + 1, a[i] = a[j] PROVE i = j
    <3>1. (i = n + 1 \/ i \in 1..n) /\ (j = n + 1 \/ j \in 1..n)
      BY <1>1
    <3>2. QED
      BY <1>1, <1>3, <2>1, <2>2, <3>1 DEF IsInjective
  <2>3. QED
    BY <1>1, <2>2 DEF IsInjective
<1>4. QED
  BY <1>1, <1>2, <1>3 DEF a

-----------------------------------------------------------------------------
(* Where URLs come from: functions that are defined by recursion.           *)

\* What is near a page: itself, and what the pages before it lead to.
Onwards(site, S) == S \cup UNION {site[p] : p \in {q \in S : site[q] # Dead}}

LEMMA NearDef ==
  ASSUME NEW site \in SiteNets, NEW start \in SitePages, NEW k \in Nat
  PROVE  /\ Near(site, start, k) \in [0..k -> SUBSET SitePages]
         /\ Near(site, start, k)[0] = {start}
         /\ \A i \in 1..k : Near(site, start, k)[i] = Onwards(site, Near(site, start, k)[i - 1])
<1> DEFINE S == SUBSET SitePages
           F == [i \in 1..k |-> [s \in S |-> Onwards(site, s)]]
           y == Near(site, start, k)
<1>1. \A s \in S : Onwards(site, s) \in S
  BY SourcesAssumption DEF Onwards
<1>2. F \in [1..k -> [S -> S]]
  BY <1>1
<1> HIDE DEF F
<1>3. PICK g \in [0..k -> S] : g[0] = {start} /\ \A i \in 1..k : g[i] = F[i][g[i - 1]]
  <2> DEFINE b == {start}
  <2>1. b \in S
    OBVIOUS
  <2> HIDE DEF S, b
  <2>2. PICK g : Iterates(g, k, S, b, F)
    BY <1>2, <2>1, Recursion
  <2>3. QED
    BY <2>2, Zenon DEF b, Iterates
<1>4. ASSUME NEW i \in 1..k PROVE g[i] = Onwards(site, g[i - 1])
  <2>1. g[i - 1] \in S /\ g[i] = F[i][g[i - 1]]
    <3> HIDE DEF S
    <3>1. QED
      BY <1>3
  <2> HIDE DEF S
  <2>2. F[i] = [s \in S |-> Onwards(site, s)]
    BY Zenon DEF F
  <2>3. F[i][g[i - 1]] = Onwards(site, g[i - 1])
    BY <2>1, <2>2, Zenon
  <2>4. QED
    BY <2>1, <2>3
<1>5. g = [i \in 0..k |-> IF i = 0 THEN {start} ELSE Onwards(site, g[i - 1])]
  BY <1>3, <1>4
<1>6. g = [i \in 0..k |-> IF i = 0 THEN {start}
                          ELSE g[i - 1] \cup UNION {site[p] : p \in {q \in g[i - 1] : site[q] # Dead}}]
  BY <1>5 DEF Onwards
<1>7. y = [i \in 0..k |-> IF i = 0 THEN {start}
                          ELSE y[i - 1] \cup UNION {site[p] : p \in {q \in y[i - 1] : site[q] # Dead}}]
  BY <1>6 DEF Near
<1>8. y = [i \in 0..k |-> IF i = 0 THEN {start} ELSE Onwards(site, y[i - 1])]
  BY <1>7 DEF Onwards
<1> HIDE DEF y
<1>9. y[0] = {start} /\ \A i \in 1..k : y[i] = Onwards(site, y[i - 1])
  <2> DEFINE b == {start}
             O(s) == Onwards(site, s)
  <2>1. y = [i \in 0..k |-> IF i = 0 THEN b ELSE O(y[i - 1])]
    BY <1>8
  <2> HIDE DEF b, O
  <2>2. y[0] = b /\ \A i \in 1..k : y[i] = O(y[i - 1])
    BY <2>1
  <2>3. QED
    BY <2>2 DEF b, O
<1> DEFINE T == {i \in Nat : y[i] \in S}
<1>10. \A i \in 0..k : i \in T
  <2>1. 0 \in T
    BY <1>9
  <2>2. ASSUME NEW i \in 0..k - 1, i \in T
        PROVE  i + 1 \in T
    <3>1. y[i + 1] = Onwards(site, y[i])
      BY <1>9
    <3>2. QED
      BY <1>1, <2>2, <3>1
  <2> HIDE DEF T
  <2>3. QED
    BY <2>1, <2>2, UpTo
<1>11. y \in [0..k -> S]
  <2>1. y = [i \in 0..k |-> y[i]]
    BY <1>8
  <2>2. \A i \in 0..k : y[i] \in S
    BY <1>10
  <2>3. QED
    BY <2>1, <2>2
<1>12. QED
  BY <1>9, <1>11 DEF y

\* What is near is near within more links too.
LEMMA NearGrows ==
  ASSUME NEW site \in SiteNets, NEW start \in SitePages, NEW k \in Nat,
         NEW i \in 0..k, NEW j \in 0..k, i <= j
  PROVE  Near(site, start, k)[i] \subseteq Near(site, start, k)[j]
<1> DEFINE y == Near(site, start, k)
           T == {m \in Nat : y[i] \subseteq y[i + m]}
<1>1. \A m \in 1..k : y[m] = Onwards(site, y[m - 1])
  BY NearDef
<1> HIDE DEF y
<1>2. 0 \in T
  OBVIOUS
<1>3. ASSUME NEW m \in 0..(j - i) - 1, m \in T
      PROVE  m + 1 \in T
  <2>1. i + m + 1 \in 1..k /\ (i + m + 1) - 1 = i + m /\ i + (m + 1) = i + m + 1
    OBVIOUS
  <2>2. y[i + m + 1] = Onwards(site, y[i + m])
    BY <1>1, <2>1
  <2>3. QED
    BY <1>3, <2>1, <2>2 DEF Onwards
<1>4. j - i \in T
  <2> HIDE DEF T
  <2>1. \A m \in 0..j - i : m \in T
    BY <1>2, <1>3, UpTo
  <2>2. QED
    BY <2>1
<1>5. i + (j - i) = j
  OBVIOUS
<1>6. QED
  BY <1>4, <1>5 DEF y

\* The queue after the links of a page: what was in it, and then new ones among the
\* links, one deeper than the page.
Items(P, N) == [at : P, depth : N]
Extends(P, r, q, links, depth, visited) ==
  /\ r \in Seq(Items(P, Nat)) /\ (links = <<>> => r = q)
  /\ Len(q) <= Len(r)
  /\ \A i \in DOMAIN q : r[i] = q[i]
  /\ \A i \in DOMAIN r : i > Len(q) => r[i].depth = depth /\ r[i].at \in ToSet(links) \ visited

LEMMA EnqueueExtends ==
  ASSUME NEW P, NEW q \in Seq(Items(P, Nat)), NEW links \in Seq(P), NEW depth \in Nat,
         NEW visited, NEW room
  PROVE  Extends(P, Enqueue(q, links, depth, visited, room), q, links, depth, visited)
<1> DEFINE n == Len(links)
           E == Items(P, Nat)
           Fine == {r \in Seq(E) : Extends(P, r, q, links, depth, visited)}
           On(i, r) == IF Fits(r, room, links[i], visited)
                       THEN Queued(r, [at |-> links[i], depth |-> depth]) ELSE r
           F == [i \in 1..n |-> [r \in Fine |-> On(i, r)]]
<1>1. n \in Nat /\ q \in Fine
  BY DEF Extends
<1>2. ASSUME NEW i \in 1..n, NEW r \in Fine
      PROVE  On(i, r) \in Fine
  <2>1. CASE ~Fits(r, room, links[i], visited)
    BY <2>1
  <2>2. CASE Fits(r, room, links[i], visited)
    <3> DEFINE e == [at |-> links[i], depth |-> depth]
    <3>1. links[i] \in P /\ links[i] \in ToSet(links) \ visited
      BY <2>2 DEF Fits, ToSet
    <3>2. e \in E /\ e.at = links[i] /\ e.depth = depth
      BY <3>1 DEF Items
    <3> HIDE DEF e
    <3>3. Append(r, e) \in Seq(E) /\ Len(Append(r, e)) = Len(r) + 1
      BY <3>2
    <3>4. \A j \in 1..Len(r) : Append(r, e)[j] = r[j]
      BY <3>2
    <3>5. Append(r, e)[Len(r) + 1] = e
      BY <3>2
    <3>6. Extends(P, Append(r, e), q, links, depth, visited)
      <4> DEFINE a == Append(r, e)
      <4>1. Extends(P, r, q, links, depth, visited) /\ DOMAIN r = 1..Len(r) /\ Len(r) \in Nat
        OBVIOUS
      <4>2. Len(q) \in Nat /\ DOMAIN q = 1..Len(q) /\ DOMAIN a = 1..Len(r) + 1
        BY <3>3
      <4> HIDE DEF a
      <4>3. Len(q) <= Len(a)
        BY <3>3, <4>1, <4>2 DEF Extends, a
      <4>4. ASSUME NEW k \in DOMAIN q PROVE a[k] = q[k]
        BY <3>4, <4>1, <4>2 DEF Extends, a
      <4>5. ASSUME NEW k \in DOMAIN a, k > Len(q)
            PROVE  a[k].depth = depth /\ a[k].at \in ToSet(links) \ visited
        <5>1. CASE k = Len(r) + 1
          BY <3>1, <3>2, <3>5, <5>1 DEF a
        <5>2. CASE k \in 1..Len(r)
          BY <3>4, <4>1, <4>5, <5>2 DEF Extends, a
        <5>3. k = Len(r) + 1 \/ k \in 1..Len(r)
          BY <4>1, <4>2
        <5>4. QED
          BY <5>1, <5>2, <5>3
      <4>6. links # <<>>
        OBVIOUS
      <4>7. QED
        BY <3>3, <4>3, <4>4, <4>5, <4>6 DEF Extends, a
    <3>7. QED
      BY <2>2, <3>3, <3>6 DEF Queued, e
  <2>3. QED
    BY <2>1, <2>2
<1>3. F \in [1..n -> [Fine -> Fine]]
  <2> HIDE DEF Fine, On
  <2>1. QED
    BY <1>2
<1> DEFINE y == CHOOSE f : f = [i \in 0..n |-> IF i = 0 THEN q ELSE On(i, f[i - 1])]
<1>4. PICK g \in [0..n -> Fine] : g[0] = q /\ \A i \in 1..n : g[i] = F[i][g[i - 1]]
  <2> HIDE DEF F, Fine, n
  <2>1. n \in Nat /\ q \in Fine /\ F \in [1..n -> [Fine -> Fine]]
    BY <1>1, <1>3
  <2>2. PICK g : Iterates(g, n, Fine, q, F)
    BY <2>1, Recursion
  <2>3. QED
    BY <2>2, Zenon DEF Iterates
<1>5. g = [i \in 0..n |-> IF i = 0 THEN q ELSE On(i, g[i - 1])]
  <2>1. ASSUME NEW i \in 1..n PROVE g[i] = On(i, g[i - 1])
    <3>1. g[i - 1] \in Fine /\ g[i] = F[i][g[i - 1]]
      <4> HIDE DEF Fine, F, n
      <4>1. i - 1 \in 0..n
        BY <1>1
      <4>2. QED
        BY <1>4, <4>1, Zenon
    <3> HIDE DEF Fine, On, n
    <3>2. F[i] = [r \in Fine |-> On(i, r)]
      BY Zenon DEF F
    <3>3. F[i][g[i - 1]] = On(i, g[i - 1])
      BY <3>1, <3>2, Zenon
    <3>4. QED
      BY <3>1, <3>3
  <2> HIDE DEF On, Fine, n
  <2>2. QED
    BY <1>1, <1>4, <2>1
<1>6. y = [i \in 0..n |-> IF i = 0 THEN q ELSE On(i, y[i - 1])]
  <2> HIDE DEF On
  <2>1. QED
    BY <1>5
<1>7. Enqueue(q, links, depth, visited, room) = y[n]
  BY DEF Enqueue
<1> HIDE DEF y, On, Fine
<1>8. y[0] = q /\ \A i \in 1..n : y[i] = On(i, y[i - 1])
  <2> HIDE DEF n
  <2>1. QED
    BY <1>1, <1>6
<1> DEFINE T == {i \in Nat : y[i] \in Fine}
<1>9. \A i \in 0..n : i \in T
  <2>1. 0 \in T
    BY <1>1, <1>8
  <2>2. ASSUME NEW i \in 0..n - 1, i \in T
        PROVE  i + 1 \in T
    <3>1. i + 1 \in 1..n /\ y[i + 1] = On(i + 1, y[i])
      BY <1>1, <1>8
    <3>2. QED
      BY <1>2, <2>2, <3>1
  <2> HIDE DEF T, n
  <2>3. QED
    BY <1>1, <2>1, <2>2, UpTo
<1>10. y[n] \in Fine
  BY <1>1, <1>9
<1>11. QED
  BY <1>7, <1>10 DEF Fine

-----------------------------------------------------------------------------
(* The crawl.                                                               *)

\* What is nearer than anything in the queue has been seen.
LEMMA NearSeen ==
  ASSUME CrawlInv, job \in {"crawl", "crawled"}, gathered # <<>>, ~cut,
         NEW d \in 0..limits.depth, \A i \in DOMAIN ahead : ahead[i].depth > d
  PROVE  Near(web, gathered[1], limits.depth)[d] \subseteq seen
<1> DEFINE near == Near(web, gathered[1], limits.depth)
           T == {i \in Nat : near[i] \subseteq seen}
<1>1. /\ web \in SiteNets /\ limits.depth \in Nat /\ gathered[1] \in SitePages
      /\ ahead \in Seq(Items(SitePages, 0..limits.depth))
  BY SourcesAssumption DEF CrawlInv, Items
<1>2. gathered[1] \in seen /\ d \in Nat /\ \A i \in DOMAIN ahead : ahead[i].depth \in Nat
  <2>1. \A i \in DOMAIN ahead : ahead[i] \in Items(SitePages, 0..limits.depth)
    BY <1>1
  <2>2. QED
    BY <1>1, <2>1 DEF CrawlInv, Explored, Items
<1>3. ASSUME NEW i \in 0..limits.depth - 1, NEW p \in seen, p \in near[i], web[p] # Dead,
             NEW x \in web[p]
      PROVE  x \in seen \/ InQueue(x, i + 1)
  BY <1>3 DEF CrawlInv, Explored, Live
<1>4. near[0] = {gathered[1]} /\ \A i \in 1..limits.depth : near[i] = Onwards(web, near[i - 1])
  BY <1>1, NearDef
<1> HIDE DEF near
<1>5. 0 \in T
  BY <1>2, <1>4
<1>6. ASSUME NEW i \in 0..d - 1, i \in T
      PROVE  i + 1 \in T
  <2>1. near[i + 1] = Onwards(web, near[i])
    BY <1>1, <1>4
  <2>2. ASSUME NEW x \in near[i + 1] PROVE x \in seen
    <3>1. CASE x \in near[i]
      BY <1>6, <3>1
    <3>2. CASE x \notin near[i]
      <4>1. PICK p \in near[i] : web[p] # Dead /\ x \in web[p]
        BY <2>1, <3>2 DEF Onwards
      <4>2. x \in seen \/ InQueue(x, i + 1)
        BY <1>1, <1>3, <1>6, <4>1
      <4>3. ~InQueue(x, i + 1)
        BY <1>1, <1>2, <1>6 DEF InQueue
      <4>4. QED
        BY <4>2, <4>3
    <3>3. QED
      BY <3>1, <3>2
  <2>3. QED
    BY <2>2
<1>7. d \in T
  <2> HIDE DEF T
  <2>1. \A i \in 0..d : i \in T
    BY <1>2, <1>5, <1>6, UpTo
  <2>2. QED
    BY <1>2, <2>1
<1>8. QED
  BY <1>7 DEF near

\* A crawl that ends has what it promises.
LEMMA CrawlEnds ==
  ASSUME CrawlInv
  PROVE  CrawlComplete
<1>1. SUFFICES ASSUME job = "crawled", ~cut, Len(gathered) < limits.pages, gathered # <<>>
      PROVE  ToSet(gathered) = Within(gathered[1], limits.depth)
  BY DEF CrawlInv, CrawlComplete
<1> DEFINE near == Near(web, gathered[1], limits.depth)
<1>2. limits.depth \in Nat /\ limits.pages \in Nat /\ gathered \in Seq(SitePages)
  BY <1>1, SourcesAssumption DEF CrawlInv
<1>3. ahead = <<>>
  BY <1>1, <1>2 DEF CrawlInv
<1>4. near[limits.depth] \subseteq seen
  BY <1>1, <1>2, <1>3, NearSeen
<1>5. seen \subseteq near[limits.depth]
  BY <1>1 DEF CrawlInv, Explored
<1>6. ToSet(gathered) = Live(seen)
  BY <1>1 DEF CrawlInv
<1> HIDE DEF near
<1>7. ToSet(gathered) = Live(near[limits.depth])
  BY <1>4, <1>5, <1>6 DEF Live
<1>8. QED
  BY <1>7 DEF Within, Live, near

\* One turn of the loop.  What a page leads to is queued one deeper than the page; a page
\* that has not been seen is, by NearSeen, met at its least depth first.
LEMMA CrawlStep ==
  ASSUME CrawlInv, Crawl
  PROVE  CrawlInv'
<1> DEFINE D == limits.depth
           e == Head(ahead)
           live == e.at \notin seen /\ web[e.at] # Dead
           links == IF live /\ e.depth < limits.depth THEN SetToSeq(web[e.at]) ELSE <<>>
           visited == seen \cup {e.at}
           listed == Len(gathered) + 1
           next == Enqueue(Tail(ahead), links, e.depth + 1, visited, 3 * limits.pages - listed)
           n == Len(ahead)
<1>1. /\ job = "crawl" /\ ahead # <<>> /\ Len(gathered) < limits.pages
      /\ seen' = visited
      /\ gathered' = IF live THEN Append(gathered, e.at) ELSE gathered
      /\ ahead' = next
      /\ cut' = (cut \/ \E p \in ToSet(links) \ visited : p \notin {next[i].at : i \in DOMAIN next})
      /\ UNCHANGED <<job, limits, web, places>>
  BY DEF Crawl
<1>2. /\ web \in SiteNets /\ limits \in CrawlLimits
      /\ ahead \in Seq(Items(SitePages, 0..D))
      /\ seen \subseteq SitePages /\ gathered \in Seq(SitePages) /\ IsInjective(gathered)
      /\ ToSet(gathered) = Live(seen)
      /\ CrawlBegins /\ QueueSorted /\ Explored
  BY <1>1 DEF CrawlInv, Items
<1>3. D \in Nat /\ web \in [SitePages -> {Dead} \cup SUBSET SitePages]
  BY <1>2, SourcesAssumption
<1>4. /\ n \in Nat \ {0} /\ DOMAIN ahead = 1..n /\ e = ahead[1]
      /\ e \in Items(SitePages, 0..D)
      /\ Tail(ahead) \in Seq(Items(SitePages, 0..D)) /\ Len(Tail(ahead)) = n - 1
      /\ \A i \in 1..n - 1 : Tail(ahead)[i] = ahead[i + 1]
      /\ \A i \in 1..n : ahead[i] \in Items(SitePages, 0..D)
  BY <1>1, <1>2, QueueParts
<1>5. e.at \in SitePages /\ e.depth \in 0..D
  BY <1>4 DEF Items
<1>6. /\ links \in Seq(SitePages)
      /\ \A x : x \in ToSet(links) <=> live /\ e.depth < D /\ x \in web[e.at]
  <2>1. CASE live /\ e.depth < D
    <3> DEFINE S == web[e.at]
    <3>1. S \in SUBSET SitePages /\ IsFiniteSet(S)
      BY <1>3, <1>5, <2>1, SourcesAssumption, FS_Subset
    <3>2. links = SetToSeq(S)
      BY <2>1
    <3> HIDE DEF S
    <3>3. SetToSeq(S) \in Seq(S) /\ \A x \in S : \E i \in DOMAIN SetToSeq(S) : SetToSeq(S)[i] = x
      BY <3>1, Listed
    <3>4. SetToSeq(S) \in Seq(SitePages)
      BY <3>1, <3>3
    <3>5. \A x : x \in ToSet(SetToSeq(S)) <=> x \in S
      BY <3>3 DEF ToSet
    <3> HIDE DEF links, live, D
    <3>6. QED
      BY <2>1, <3>2, <3>4, <3>5 DEF S
  <2>2. CASE ~(live /\ e.depth < D)
    <3>1. links = <<>>
      BY <2>2
    <3>2. <<>> \in Seq(SitePages) /\ \A x : x \notin ToSet(<<>>)
      BY DEF ToSet
    <3> HIDE DEF links, live, D
    <3>3. QED
      BY <2>2, <3>1, <3>2
  <2>3. QED
    BY <2>1, <2>2
<1>7. Extends(SitePages, next, Tail(ahead), links, e.depth + 1, visited)
  <2>1. Tail(ahead) \in Seq(Items(SitePages, Nat)) /\ e.depth + 1 \in Nat
    <3>1. Items(SitePages, 0..D) \subseteq Items(SitePages, Nat)
      BY <1>3 DEF Items
    <3>2. Tail(ahead) \in Seq(Items(SitePages, Nat))
      BY <1>4, <3>1, Wider
    <3>3. QED
      BY <1>5, <3>2
  <2> DEFINE q == Tail(ahead)
             room == 3 * limits.pages - listed
             deeper == e.depth + 1
  <2>2. next = Enqueue(q, links, deeper, visited, room)
    OBVIOUS
  <2>3. q \in Seq(Items(SitePages, Nat)) /\ deeper \in Nat
    BY <2>1
  <2>4. SUFFICES Extends(SitePages, next, q, links, deeper, visited)
    OBVIOUS
  <2>5. links \in Seq(SitePages)
    BY <1>6
  <2> HIDE DEF q, links, deeper, visited, room, next, n, e, live, listed
  <2>6. Extends(SitePages, Enqueue(q, links, deeper, visited, room), q, links, deeper, visited)
    BY <2>3, <2>5, EnqueueExtends
  <2>7. QED
    BY <2>2, <2>6
<1> HIDE DEF next, links, n, e, live, visited, listed, D
<1>8. /\ Len(next) \in Nat /\ DOMAIN next = 1..Len(next) /\ n - 1 <= Len(next)
      /\ \A i \in 1..n - 1 : next[i] = ahead[i + 1]
      /\ \A i \in n..Len(next) : next[i].depth = e.depth + 1 /\ next[i].at \in ToSet(links) \ visited
  <2>1. DOMAIN Tail(ahead) = 1..n - 1 /\ Len(next) \in Nat /\ DOMAIN next = 1..Len(next)
    BY <1>4, <1>7
  <2>2. QED
    BY <1>4, <1>7, <2>1 DEF Extends
<1>9. ASSUME NEW i \in 1..Len(next)
      PROVE  next[i] \in Items(SitePages, 0..D)
  <2>1. CASE i \in 1..n - 1
    <3>1. i + 1 \in 1..n
      BY <1>4, <2>1
    <3>2. QED
      BY <1>2, <1>4, <1>8, <2>1, <3>1
  <2>2. CASE i \in n..Len(next)
    <3>1. next[i] \in Items(SitePages, Nat)
      BY <1>4, <1>7, <1>8, <2>2 DEF Extends
    <3>2. next[i].depth = e.depth + 1 /\ e.depth < D
      BY <1>6, <1>8, <2>2
    <3>3. QED
      BY <1>3, <1>5, <3>1, <3>2 DEF Items
  <2>3. QED
    BY <1>4, <1>8, <2>1, <2>2
<1>10. next \in Seq(Items(SitePages, 0..D))
  <2>1. next = [i \in 1..Len(next) |-> next[i]]
    BY <1>7, <1>8 DEF Extends
  <2>2. QED
    BY <1>8, <1>9, <2>1
<1>11. \A i \in 1..n : ahead[i].depth \in 0..D /\ ahead[i].at \in SitePages
  BY <1>4 DEF Items
<1>12. QueueSorted'
  <2>1. \A i, j \in 1..n : /\ i < j => ahead[i].depth <= ahead[j].depth
                           /\ ahead[j].depth <= e.depth + 1
    BY <1>2, <1>4 DEF QueueSorted
  <2>2. ASSUME NEW i \in 1..n PROVE e.depth <= ahead[i].depth
    BY <1>3, <1>4, <1>5, <1>11, <2>1
  <2>3. ASSUME NEW i \in 1..Len(next)
        PROVE  e.depth <= next[i].depth /\ next[i].depth <= e.depth + 1
    <3>1. CASE i \in 1..n - 1
      <4>1. i + 1 \in 1..n
        BY <1>4, <3>1
      <4>2. QED
        BY <1>8, <2>1, <2>2, <3>1, <4>1
    <3>2. CASE i \in n..Len(next)
      BY <1>5, <1>8, <3>2
    <3>3. QED
      BY <1>4, <1>8, <3>1, <3>2
  <2>4. ASSUME NEW i \in 1..Len(next), NEW j \in 1..Len(next), i < j
        PROVE  next[i].depth <= next[j].depth
    <3>1. CASE j \in 1..n - 1
      <4>1. i \in 1..n - 1 /\ i + 1 \in 1..n /\ j + 1 \in 1..n /\ i + 1 < j + 1
        BY <1>4, <2>4, <3>1
      <4>2. QED
        BY <1>8, <2>1, <3>1, <4>1
    <3>2. CASE j \in n..Len(next)
      BY <1>8, <2>3, <3>2
    <3>3. QED
      BY <1>4, <1>8, <3>1, <3>2
  <2>5. ASSUME NEW j \in 1..Len(next) PROVE next[j].depth <= next[1].depth + 1
    <3>1. 1 \in 1..Len(next)
      BY <1>8
    <3>2. next[1].depth \in Nat /\ next[j].depth \in Nat /\ e.depth \in Nat
      BY <1>3, <1>5, <1>9, <3>1 DEF Items
    <3>3. QED
      BY <2>3, <3>1, <3>2
  <2>6. QED
    BY <1>1, <1>8, <2>4, <2>5 DEF QueueSorted
<1>13. /\ gathered' \in Seq(SitePages) /\ IsInjective(gathered')
       /\ ToSet(gathered') = Live(seen)'
  <2>1. CASE live
    <3>1. gathered' = Append(gathered, e.at)
      BY <1>1, <2>1
    <3>2. e.at \notin seen /\ web[e.at] # Dead
      BY <2>1 DEF live
    <3>3. e.at \notin ToSet(gathered)
      BY <1>2, <3>2 DEF Live
    <3>4. Live(seen)' = Live(seen) \cup {e.at}
      BY <1>1, <3>2 DEF Live, visited
    <3>5. QED
      BY <1>2, <1>5, <3>1, <3>3, <3>4, OneAppended
  <2>2. CASE ~live
    <3>1. gathered' = gathered
      BY <1>1, <2>2
    <3>2. Live(seen)' = Live(seen)
      BY <1>1, <2>2 DEF Live, visited, live
    <3>3. QED
      BY <1>2, <3>1, <3>2
  <2>3. QED
    BY <2>1, <2>2
<1>14. CrawlBegins'
  <2>1. SUFFICES ASSUME gathered' = <<>> PROVE ahead' = <<>>
    BY DEF CrawlBegins
  <2>2. ~live /\ gathered = <<>>
    BY <1>1, <1>2, <1>5, <2>1
  <2>3. next = Tail(ahead)
    BY <1>7, <2>2 DEF links, Extends
  <2>4. PICK p \in SitePages : ahead = <<[at |-> p, depth |-> 0]>>
    BY <1>1, <1>2, <2>2 DEF CrawlBegins
  <2>5. QED
    BY <1>1, <2>3, <2>4

<1>15. ASSUME NEW i \in 2..n
       PROVE  i - 1 \in 1..Len(next) /\ next[i - 1] = ahead[i]
  <2>1. i - 1 \in 1..n - 1 /\ (i - 1) + 1 = i
    BY <1>4
  <2>2. QED
    BY <1>4, <1>8, <2>1
<1>16. ASSUME NEW x, NEW d \in Nat, InQueue(x, d)
       PROVE  x \in seen' \/ InQueue(x, d)'
  <2>1. PICK i \in 1..n : ahead[i].at = x /\ ahead[i].depth <= d
    BY <1>4, <1>16 DEF InQueue
  <2>2. CASE i = 1
    BY <1>1, <1>4, <2>1, <2>2 DEF visited
  <2>3. CASE i \in 2..n
    <3>1. i - 1 \in DOMAIN ahead' /\ ahead'[i - 1] = ahead[i]
      BY <1>1, <1>8, <1>15, <2>3
    <3>2. QED
      BY <2>1, <3>1 DEF InQueue
  <2>4. QED
    BY <1>4, <2>2, <2>3
<1>17. ASSUME live, ~cut', e.depth < D, NEW x \in web[e.at], NEW k \in Nat, k = e.depth + 1
       PROVE  x \in seen' \/ InQueue(x, k)'
  <2>1. x \in ToSet(links)
    BY <1>6, <1>17
  <2>2. SUFFICES ASSUME x \notin visited PROVE InQueue(x, k)'
    BY <1>1
  <2>3. PICK i \in 1..Len(next) : next[i].at = x
    <3>1. \A p \in ToSet(links) \ visited : p \in {next[i].at : i \in DOMAIN next}
      BY <1>1, <1>17
    <3>2. x \in {next[i].at : i \in DOMAIN next}
      BY <2>1, <2>2, <3>1
    <3>3. QED
      BY <1>8, <3>2
  <2>4. next[i].depth <= e.depth + 1
    <3>1. CASE i \in 1..n - 1
      <4>1. 1 \in DOMAIN ahead /\ i + 1 \in DOMAIN ahead
        BY <1>4, <3>1
      <4>2. ahead[i + 1].depth <= e.depth + 1
        BY <1>2, <1>4, <4>1 DEF QueueSorted
      <4>3. QED
        BY <1>8, <3>1, <4>2
    <3>2. CASE i \in n..Len(next)
      BY <1>5, <1>8, <3>2
    <3>3. QED
      BY <1>4, <1>8, <3>1, <3>2
  <2>5. QED
    BY <1>1, <1>8, <1>17, <2>3, <2>4 DEF InQueue
<1>18. ~cut' => ~cut
  BY <1>1
<1>19. Explored'
  <2>1. SUFFICES ASSUME gathered' # <<>>
        PROVE  LET near == Near(web, gathered'[1], D)
               IN  /\ gathered'[1] \in seen'
                   /\ \A i \in 1..Len(next) : next[i].at \in near[next[i].depth]
                   /\ seen' \subseteq near[D]
                   /\ ~cut' => \A d \in 0..D - 1 : \A p \in seen' \cap near[d] : web[p] # Dead =>
                                 \A x \in web[p] : x \in seen' \/ InQueue(x, d + 1)'
    BY <1>1, <1>8 DEF Explored, Live, D
  <2> DEFINE near == Near(web, gathered'[1], D)
  <2>2. gathered'[1] \in SitePages
    BY <1>13, <2>1
  <2>3. /\ near \in [0..D -> SUBSET SitePages] /\ near[0] = {gathered'[1]}
        /\ \A i \in 1..D : near[i] = Onwards(web, near[i - 1])
    BY <1>2, <1>3, <2>2, NearDef
  <2>4. \A i, j \in 0..D : i <= j => near[i] \subseteq near[j]
    BY <1>2, <1>3, <2>2, NearGrows
  <2>5. CASE gathered = <<>>
    <3>1. live /\ gathered' = Append(gathered, e.at)
      BY <1>1, <2>1, <2>5
    <3>2. gathered'[1] = e.at
      BY <2>5, <3>1
    <3>3. PICK p \in SitePages : seen = {} /\ ahead = <<[at |-> p, depth |-> 0]>>
      BY <1>1, <1>2, <2>5 DEF CrawlBegins
    <3>4. n = 1 /\ e.depth = 0 /\ seen' = {e.at}
      BY <1>1, <1>4, <3>3 DEF n, visited
    <3>5. \A i \in 1..Len(next) : next[i].depth = 1 /\ next[i].at \in ToSet(links)
      BY <1>8, <3>4
    <3>6. ASSUME NEW i \in 1..Len(next) PROVE next[i].at \in near[1] /\ next[i].depth = 1
      <4>1. 0 < D /\ next[i].at \in web[e.at]
        BY <1>6, <3>4, <3>5
      <4>2. near[1] = Onwards(web, near[0])
        <5>1. 1 \in 1..D /\ 1 - 1 = 0
          BY <1>3, <4>1
        <5>2. QED
          BY <2>3, <5>1
      <4>3. web[e.at] # Dead /\ e.at \in near[0]
        BY <2>3, <3>1, <3>2 DEF live
      <4>4. QED
        BY <3>5, <4>1, <4>2, <4>3 DEF Onwards
    <3>7. e.at \in near[D]
      BY <1>3, <2>3, <2>4, <3>2
    <3>8. ASSUME ~cut', NEW d \in 0..D - 1, NEW x \in web[e.at]
          PROVE  x \in seen' \/ InQueue(x, d + 1)'
      <4>1. x \in seen' \/ InQueue(x, 1)'
        <5>1. e.depth < D /\ 1 \in Nat /\ 1 = e.depth + 1
          BY <1>3, <3>4, <3>8
        <5>2. QED
          BY <1>17, <3>1, <3>8, <5>1
      <4>2. InQueue(x, 1)' => InQueue(x, d + 1)'
        BY <1>1, <1>3, <1>8, <3>5, <3>8 DEF InQueue
      <4>3. QED
        BY <4>1, <4>2
    <3> HIDE DEF near
    <3>9. QED
      BY <3>2, <3>4, <3>6, <3>7, <3>8 DEF near
  <2>6. CASE gathered # <<>>
    <3>1. gathered'[1] = gathered[1]
      BY <1>1, <1>2, <1>5, <2>6
    <3>2. /\ gathered[1] \in seen
          /\ \A i \in 1..n : ahead[i].at \in near[ahead[i].depth]
          /\ seen \subseteq near[D]
          /\ ~cut => \A d \in 0..D - 1 : \A p \in seen \cap near[d] : web[p] # Dead =>
                        \A x \in web[p] : x \in seen \/ InQueue(x, d + 1)
      BY <1>2, <1>4, <2>6, <3>1 DEF Explored, Live, D
    <3> HIDE DEF near
    <3>3. e.at \in near[e.depth]
      BY <1>4, <3>2
    <3>4. e.at \in near[D]
      BY <1>3, <1>5, <2>4, <3>3
    <3>5. ASSUME NEW i \in 1..Len(next) PROVE next[i].at \in near[next[i].depth]
      <4>1. CASE i \in 1..n - 1
        <5>1. i + 1 \in 1..n
          BY <1>4, <4>1
        <5>2. QED
          BY <1>8, <3>2, <4>1, <5>1
      <4>2. CASE i \in n..Len(next)
        <5>1. next[i].depth = e.depth + 1 /\ next[i].at \in web[e.at] /\ live /\ e.depth < D
          BY <1>6, <1>8, <4>2
        <5>2. near[e.depth + 1] = Onwards(web, near[e.depth])
          BY <1>3, <1>5, <2>3, <5>1
        <5>3. web[e.at] # Dead
          BY <5>1 DEF live
        <5>4. QED
          BY <3>3, <5>1, <5>2, <5>3 DEF Onwards
      <4>3. QED
        BY <1>4, <1>8, <4>1, <4>2
    <3>6. seen' \subseteq near[D]
      BY <1>1, <3>2, <3>4 DEF visited
    <3>7. ASSUME ~cut', NEW d \in 0..D - 1, NEW p \in seen' \cap near[d], web[p] # Dead,
                 NEW x \in web[p]
          PROVE  x \in seen' \/ InQueue(x, d + 1)'
      <4>1. d \in Nat /\ d + 1 \in Nat
        BY <1>3
      <4>2. CASE p \in seen
        <5>1. x \in seen \/ InQueue(x, d + 1)
          BY <1>18, <3>2, <3>7, <4>2
        <5>2. QED
          BY <1>1, <1>16, <4>1, <5>1 DEF visited
      <4>3. CASE p = e.at /\ p \notin seen
        <5>1. live
          BY <3>7, <4>3 DEF live
        <5>2. e.depth <= d
          <6>1. SUFFICES ASSUME ~(e.depth <= d) PROVE FALSE
            OBVIOUS
          <6>2. \A i \in DOMAIN ahead : ahead[i].depth > d
            <7>1. ASSUME NEW i \in 1..n PROVE ahead[i].depth > d
              <8>1. e.depth <= ahead[i].depth
                <9>1. CASE i = 1
                  BY <1>3, <1>4, <1>5, <9>1
                <9>2. CASE i \in 2..n
                  <10>1. 1 \in DOMAIN ahead /\ i \in DOMAIN ahead /\ 1 < i
                    BY <1>4, <9>2
                  <10>2. QED
                    BY <1>2, <1>4, <10>1 DEF QueueSorted
                <9>3. QED
                  BY <1>4, <9>1, <9>2
              <8>2. QED
                BY <1>3, <1>5, <1>11, <4>1, <6>1, <8>1
            <7>2. QED
              BY <1>4, <7>1
          <6>3. d \in 0..limits.depth
            BY <1>3 DEF D
          <6>4. Near(web, gathered[1], limits.depth)[d] \subseteq seen
            BY <1>1, <1>18, <2>6, <3>7, <6>2, <6>3, NearSeen
          <6>5. QED
            BY <3>1, <3>7, <4>3, <6>4 DEF near, D
        <5> PICK k \in Nat : k = e.depth + 1
          BY <1>3, <1>5
        <5>3. x \in seen' \/ InQueue(x, k)'
          BY <1>3, <1>5, <1>17, <3>7, <4>3, <5>1, <5>2
        <5>4. InQueue(x, k)' => InQueue(x, d + 1)'
          <6>1. \A i \in 1..Len(next) : next[i].depth \in Nat
            BY <1>3, <1>9 DEF Items
          <6>2. QED
            BY <1>1, <1>3, <1>5, <1>8, <4>1, <5>2, <6>1 DEF InQueue
        <5>5. QED
          BY <5>3, <5>4
      <4>4. QED
        BY <1>1, <4>2, <4>3 DEF visited
    <3>8. QED
      BY <1>1, <3>1, <3>2, <3>5, <3>6, <3>7 DEF near, visited
  <2>7. QED
    BY <2>5, <2>6
<1>20. ahead' \in Seq([at : SitePages, depth : 0..limits'.depth])
  BY <1>1, <1>10 DEF Items, D
<1>21. seen' \subseteq SitePages /\ web' \in SiteNets /\ limits' \in CrawlLimits /\ job' = "crawl"
  BY <1>1, <1>2, <1>5 DEF visited
<1>22. QED
  BY <1>12, <1>13, <1>14, <1>19, <1>20, <1>21 DEF CrawlInv

\* The other steps of a crawl.
LEMMA CrawlFrame ==
  ASSUME CrawlInv, UNCHANGED <<limits, web, ahead, seen, gathered, cut>>,
         job' = job \/ job' \notin {"crawl", "crawled"}
                    \/ (job = "crawl" /\ (ahead = <<>> \/ Len(gathered) >= limits.pages))
  PROVE  CrawlInv'
BY DEF CrawlInv, CrawlBegins, QueueSorted, Explored, Live, InQueue

\* A crawl begins with nothing seen.
LEMMA CrawlStarts ==
  ASSUME MapsInv, NEW start \in StartPages, NEW max \in CrawlLimits, NEW site \in SiteNets,
         BeginCrawl(start, max, site)
  PROVE  CrawlInv'
<1>1. /\ job = "idle" /\ job' = "crawl" /\ web' = site /\ limits' = max
      /\ ahead' = <<[at |-> start, depth |-> 0]>>
      /\ UNCHANGED <<seen, gathered, cut>>
  BY DEF BeginCrawl, Starts
<1>2. seen = {} /\ gathered = <<>>
  BY <1>1 DEF MapsInv
<1>3. start \in SitePages /\ max.depth \in Nat
  BY SourcesAssumption
<1>4. ahead' \in Seq([at : SitePages, depth : 0..limits'.depth])
  BY <1>1, <1>3
<1>5. gathered' \in Seq(SitePages) /\ IsInjective(gathered') /\ ToSet(gathered') = {}
  BY <1>1, <1>2 DEF IsInjective, ToSet
<1>6. CrawlBegins' /\ Explored' /\ QueueSorted' /\ Live(seen)' = {}
  BY <1>1, <1>2, <1>3 DEF CrawlBegins, Explored, QueueSorted, Live
<1>7. QED
  BY <1>1, <1>2, <1>4, <1>5, <1>6 DEF CrawlInv

-----------------------------------------------------------------------------
(* Sitemaps.                                                                *)

\* A job that is not one over sitemaps.
LEMMA MapsElsewhere ==
  ASSUME job' \in {"crawl", "crawled"}
  PROVE  MapsInv'
BY DEF MapsInv

\* So does a job over sitemaps.
LEMMA MapsStart ==
  ASSUME MapsInv, NEW first \in Maps, NEW rest \in Seq(Maps), NEW maps \in MapNets,
         BeginMaps(first, rest, maps)
  PROVE  MapsInv'
<1>1. /\ job = "idle" /\ job' = "maps" /\ web' = maps /\ places' = rest
      /\ ahead' = <<[at |-> first, depth |-> 0]>>
      /\ UNCHANGED <<seen, gathered, cut>>
  BY DEF BeginMaps, Starts
<1>2. seen = {} /\ gathered = <<>>
  BY <1>1 DEF MapsInv
<1>3. gathered' \in Seq(seen') /\ IsInjective(gathered') /\ seen' = {}
  BY <1>1, <1>2 DEF IsInjective
<1>4. ahead' \in Seq([at : Maps, depth : Nat])
  BY <1>1
<1>5. QED
  BY <1>1, <1>3, <1>4 DEF MapsInv

\* One sitemap, or what is too deep, known or dead.
LEMMA MapFetched ==
  ASSUME MapsInv, FetchMap
  PROVE  MapsInv'
<1> DEFINE e == Head(ahead)
           deep == e.depth > MaxMapDepth
           fresh == ~deep /\ e.at \notin seen
           map == web[e.at]
           more == IF fresh /\ map.kind = "index"
                     THEN [i \in DOMAIN map.of |-> [at |-> map.of[i], depth |-> e.depth + 1]]
                     ELSE <<>>
           n == Len(ahead)
           E == Items(Maps, Nat)
<1>1. /\ job = "maps" /\ ahead # <<>>
      /\ seen' = IF fresh THEN seen \cup {e.at} ELSE seen
      /\ gathered' = IF fresh /\ map.kind = "urls" THEN Append(gathered, e.at) ELSE gathered
      /\ ahead' = more \o Tail(ahead)
      /\ cut' = (cut \/ deep)
      /\ UNCHANGED <<job, limits, web, places>>
  BY DEF FetchMap
<1>2. /\ web \in MapNets /\ ahead \in Seq(E) /\ places \in Seq(Maps)
      /\ seen \subseteq Maps /\ gathered \in Seq(seen) /\ IsInjective(gathered)
      /\ \A m \in seen :
           /\ ~cut /\ web[m].kind = "index" =>
                \A x \in ToSet(web[m].of) : x \in seen \/ \E i \in DOMAIN ahead : ahead[i].at = x
           /\ web[m].kind = "urls" => m \in ToSet(gathered)
  BY <1>1 DEF MapsInv, Items
<1>3. /\ n \in Nat \ {0} /\ DOMAIN ahead = 1..n /\ e = ahead[1] /\ e \in E
      /\ Tail(ahead) \in Seq(E) /\ Len(Tail(ahead)) = n - 1
      /\ \A i \in 1..n - 1 : Tail(ahead)[i] = ahead[i + 1]
  <2> HIDE DEF E
  <2>1. QED
    BY <1>1, <1>2, QueueParts
<1>4. e.at \in Maps /\ e.depth \in Nat
  BY <1>3 DEF Items
<1> HIDE DEF e, E
<1>5. /\ more \in Seq(E)
      /\ fresh /\ map.kind = "index" =>
           \A x \in ToSet(map.of) : \E i \in 1..Len(more) : more[i].at = x
  <2>1. CASE ~(fresh /\ map.kind = "index")
    BY <2>1
  <2>2. CASE fresh /\ map.kind = "index"
    <3>1. map.of \in Seq(Maps)
      BY <1>2, <1>4, <2>2, SourcesAssumption
    <3> DEFINE of == map.of
               next == [i \in 1..Len(of) |-> [at |-> of[i], depth |-> e.depth + 1]]
    <3>2. more = next
      BY <2>2, <3>1
    <3>3. of \in Seq(Maps)
      BY <3>1
    <3> HIDE DEF of, more
    <3>4. Len(of) \in Nat /\ \A i \in 1..Len(of) : of[i] \in Maps
      BY <3>3
    <3>5. \A i \in 1..Len(of) : next[i] \in E
      BY <1>4, <3>4 DEF E, Items
    <3>6. \A i \in 1..Len(of) : next[i].at = of[i]
      OBVIOUS
    <3> HIDE DEF next
    <3>7. next \in Seq(E) /\ Len(next) = Len(of)
      BY <3>4, <3>5 DEF next
    <3>8. \A x \in ToSet(of) : \E i \in 1..Len(of) : of[i] = x
      BY <3>3 DEF ToSet
    <3>9. QED
      BY <3>2, <3>6, <3>7, <3>8 DEF of
  <2>3. QED
    BY <2>1, <2>2
<1> HIDE DEF more, n
<1>6. /\ ahead' \in Seq(E) /\ Len(ahead') = Len(more) + (n - 1) /\ Len(more) \in Nat
      /\ \A i \in 1..Len(more) : ahead'[i] = more[i]
      /\ \A i \in 1..n - 1 : ahead'[Len(more) + i] = ahead[i + 1]
  BY <1>1, <1>3, <1>5
<1>7. DOMAIN ahead' = 1..Len(more) + (n - 1)
  BY <1>6
<1>8. ASSUME NEW i \in 2..n PROVE \E j \in DOMAIN ahead' : ahead'[j] = ahead[i]
  <2>1. i - 1 \in 1..n - 1 /\ (i - 1) + 1 = i /\ Len(more) + (i - 1) \in DOMAIN ahead'
    BY <1>3, <1>6, <1>7
  <2>2. QED
    BY <1>6, <2>1
<1>9. gathered' \in Seq(seen') /\ IsInjective(gathered')
  <2>1. gathered \in Seq(seen')
    <3>1. seen \subseteq seen'
      BY <1>1
    <3>2. QED
      BY <1>2, <3>1, Wider
  <2>2. CASE fresh /\ map.kind = "urls"
    <3>1. ToSet(gathered) \subseteq seen
      BY <1>2 DEF ToSet
    <3>2. gathered' = Append(gathered, e.at) /\ e.at \in seen' /\ e.at \notin ToSet(gathered)
      BY <1>1, <2>2, <3>1
    <3>3. QED
      BY <1>2, <2>1, <3>2, OneAppended
  <2>3. CASE ~(fresh /\ map.kind = "urls")
    BY <1>1, <1>2, <2>1, <2>3
  <2>4. QED
    BY <2>2, <2>3
<1>10. ToSet(gathered) \subseteq ToSet(gathered')
  <2>1. gathered \in Seq(Maps)
    BY <1>2, Wider
  <2>2. ToSet(gathered) \subseteq ToSet(Append(gathered, e.at))
    BY <1>4, <2>1, OneAppended
  <2>3. QED
    BY <1>1, <2>2
<1>11. ASSUME NEW m \in seen', web[m].kind = "urls"
       PROVE  m \in ToSet(gathered')
  <2>1. CASE m \in seen
    BY <1>2, <1>10, <1>11, <2>1
  <2>2. CASE m \notin seen
    <3>1. m = e.at /\ fresh
      BY <1>1, <2>2
    <3>2. gathered' = Append(gathered, e.at)
      BY <1>1, <1>11, <3>1
    <3>3. gathered \in Seq(Maps)
      BY <1>2, Wider
    <3>4. QED
      BY <1>4, <3>1, <3>2, <3>3, OneAppended
  <2>3. QED
    BY <2>1, <2>2
<1>12. ASSUME NEW m \in seen', ~cut', web[m].kind = "index", NEW x \in ToSet(web[m].of)
       PROVE  x \in seen' \/ \E i \in DOMAIN ahead' : ahead'[i].at = x
  <2>1. CASE m \in seen
    <3>1. x \in seen \/ \E i \in 1..n : ahead[i].at = x
      BY <1>1, <1>2, <1>3, <1>12, <2>1
    <3>2. CASE x \in seen
      BY <1>1, <3>2
    <3>3. ASSUME NEW i \in 1..n, ahead[i].at = x
          PROVE  x \in seen' \/ \E j \in DOMAIN ahead' : ahead'[j].at = x
      <4>1. CASE i = 1
        BY <1>1, <1>3, <1>12, <3>3, <4>1
      <4>2. CASE i \in 2..n
        BY <1>8, <3>3, <4>2
      <4>3. QED
        BY <1>3, <4>1, <4>2
    <3>4. QED
      BY <3>1, <3>2, <3>3
  <2>2. CASE m \notin seen
    <3>1. m = e.at /\ fresh /\ map.kind = "index" /\ x \in ToSet(map.of)
      BY <1>1, <1>12, <2>2
    <3>2. PICK i \in 1..Len(more) : more[i].at = x
      BY <1>5, <3>1
    <3>3. i \in DOMAIN ahead' /\ ahead'[i].at = x
      BY <1>3, <1>6, <1>7, <3>2
    <3>4. QED
      BY <3>3
  <2>3. QED
    BY <2>1, <2>2
<1>13. ahead' \in Seq([at : Maps, depth : Nat])
  BY <1>6 DEF E, Items
<1>14. seen' \subseteq Maps /\ web' \in MapNets /\ places' \in Seq(Maps) /\ job' = "maps" /\ web' = web
  BY <1>1, <1>2, <1>4
<1>15. QED
  BY <1>9, <1>11, <1>12, <1>13, <1>14 DEF MapsInv

\* The next of the usual places.
LEMMA NextTried ==
  ASSUME MapsInv, TryNext
  PROVE  MapsInv'
<1>1. /\ job = "maps" /\ job' = "maps" /\ places # <<>> /\ web' = web
      /\ ahead' = <<[at |-> Head(places), depth |-> 0]>>
      /\ places' = Tail(places) /\ seen' = {} /\ gathered' = <<>> /\ cut' = FALSE
  BY DEF TryNext
<1>2. web \in MapNets /\ places \in Seq(Maps)
  BY <1>1 DEF MapsInv
<1>3. Head(places) \in Maps /\ Tail(places) \in Seq(Maps)
  BY <1>1, <1>2, QueueParts
<1>4. ahead' \in Seq([at : Maps, depth : Nat])
  BY <1>1, <1>3
<1>5. gathered' \in Seq(seen') /\ IsInjective(gathered')
  BY <1>1 DEF IsInjective
<1>6. QED
  BY <1>1, <1>2, <1>3, <1>4, <1>5 DEF MapsInv

\* The other steps.
LEMMA MapsFrame ==
  ASSUME MapsInv, UNCHANGED <<web, ahead, seen, gathered, places, cut>>,
         job' = job \/ (job = "maps" /\ job' = "listed" /\ ahead = <<>>) \/ job' \in {"crawl", "crawled"}
  PROVE  MapsInv'
BY DEF MapsInv

\* A job over sitemaps that ends has what it promises.
LEMMA MapsEnd ==
  ASSUME MapsInv
  PROVE  MapsComplete
<1>1. SUFFICES ASSUME job = "listed"
      PROVE  /\ IsInjective(gathered)
             /\ ~cut => \A m \in seen : /\ web[m].kind = "index" => ToSet(web[m].of) \subseteq seen
                                        /\ web[m].kind = "urls" => m \in ToSet(gathered)
  BY DEF MapsComplete
<1>2. ahead = <<>> /\ DOMAIN ahead = {}
  BY <1>1 DEF MapsInv
<1>3. QED
  BY <1>1, <1>2 DEF MapsInv

-----------------------------------------------------------------------------
\* A crawl that was not cut off has gathered exactly what is within its depth, none
\* twice, and nested sitemaps, also ones that lead to each other, are read once and
\* in full: for any site, any sitemaps and any bounds.
THEOREM Sources == SourcesSpec => []SourcesComplete
<1> DEFINE Inv == CrawlInv /\ MapsInv
<1>1. SourcesInit => Inv
  BY DEF SourcesInit, CrawlInv, MapsInv
<1>2. ASSUME Inv, [SourcesNext]_sourceVars PROVE Inv'
  <2>1. CASE UNCHANGED sourceVars
    BY <1>2, <2>1, CrawlFrame, MapsFrame DEF sourceVars
  <2>2. ASSUME NEW p \in StartPages, NEW max \in CrawlLimits, NEW site \in SiteNets,
               BeginCrawl(p, max, site)
        PROVE  Inv'
    <3>1. job' = "crawl"
      BY <2>2 DEF BeginCrawl, Starts
    <3>2. QED
      BY <1>2, <2>2, <3>1, CrawlStarts, MapsElsewhere
  <2>3. ASSUME NEW first \in Maps, NEW rest \in Seq(Maps), NEW maps \in MapNets,
               BeginMaps(first, rest, maps)
        PROVE  Inv'
    <3>1. job' = "maps"
      BY <2>3 DEF BeginMaps, Starts
    <3>2. CrawlInv'
      BY <3>1 DEF CrawlInv
    <3>3. QED
      BY <1>2, <2>3, <3>2, MapsStart
  <2>4. CASE Crawl
    <3>1. job' = "crawl"
      BY <2>4 DEF Crawl
    <3>2. QED
      BY <1>2, <2>4, <3>1, CrawlStep, MapsElsewhere
  <2>5. CASE EndCrawl
    BY <1>2, <2>5, CrawlFrame, MapsFrame DEF EndCrawl
  <2>6. CASE FetchMap
    <3>1. CrawlInv'
      BY <2>6 DEF FetchMap, CrawlInv
    <3>2. QED
      BY <1>2, <2>6, <3>1, MapFetched
  <2>7. CASE TryNext
    <3>1. CrawlInv'
      BY <2>7 DEF TryNext, CrawlInv
    <3>2. QED
      BY <1>2, <2>7, <3>1, NextTried
  <2>8. CASE EndMaps
    BY <1>2, <2>8, CrawlFrame, MapsFrame DEF EndMaps
  <2>9. CASE NextSource
    BY <2>9 DEF NextSource, CrawlInv, MapsInv
  <2>10. /\ \A m \in FirstMaps : m \in Maps
         /\ Head(UsualMaps) \in Maps /\ Tail(UsualMaps) \in Seq(Maps) /\ <<>> \in Seq(Maps)
    BY SourcesAssumption, QueueParts
  <2>11. QED
    BY <1>2, <2>1, <2>2, <2>3, <2>4, <2>5, <2>6, <2>7, <2>8, <2>9, <2>10 DEF SourcesNext
<1>3. Inv => SourcesComplete
  BY CrawlEnds, MapsEnd DEF SourcesComplete
<1>4. QED
  BY <1>1, <1>2, <1>3, PTL DEF SourcesSpec

-----------------------------------------------------------------------------
(* The link checker.                                                        *)

\* The least of a set of numbers is one of them.
LEMMA MinIsOne ==
  ASSUME NEW S \in SUBSET Nat, S # {}
  PROVE  Min(S) \in S
BY Least DEF Min

\* The steps keep the types.
LEMMA LinkTypes ==
  ASSUME LinkTypeOK, LinkNext
  PROVE  LinkTypeOK'
<1> USE LinkAssumption DEF LinkTypeOK
<1>1. SkippedLink \in Answers
  BY DEF Answers
<1>2. ASSUME NEW links \in SUBSET PageLinks, SubmitLinks(links)
      PROVE  LinkTypeOK'
  BY <1>2 DEF SubmitLinks, LinkStages, ProbeStates
<1>3. CASE BeginProbe
  BY <1>3 DEF BeginProbe, ProbeStates
<1>4. ASSUME NEW l \in PageLinks, NEW a \in Replies, EndProbe(l, a)
      PROVE  LinkTypeOK'
  <2>1. CheckLink(a) \in Answers
    BY DEF Answers
  <2>2. QED
    BY <1>4, <2>1 DEF EndProbe, ProbeStates
<1>5. ASSUME NEW l \in PageLinks, Collect(l)
      PROVE  LinkTypeOK'
  <2>1. Append(linkRows[l], told[l]) \in Seq(Answers)
    OBVIOUS
  <2>2. QED
    BY <1>5, <2>1 DEF Collect
<1>6. ASSUME NEW python \in Pythons, WallClock(python)
      PROVE  LinkTypeOK'
  BY <1>6 DEF WallClock, LinkStages, Probed, InState
<1>7. ASSUME NEW l \in PageLinks, GiveUp(l)
      PROVE  LinkTypeOK'
  <2>1. Append(linkRows[l], SkippedLink) \in Seq(Answers)
    BY <1>1
  <2>2. linkRows' \in [PageLinks -> Seq(Answers)]
    BY <1>7, <2>1 DEF GiveUp
  <2>3. probe' \in [PageLinks -> ProbeStates]
    BY <1>7 DEF GiveUp, ProbeStates
  <2>4. QED
    BY <1>7, <2>2, <2>3 DEF GiveUp
<1>8. CASE LeavePool
  BY <1>8 DEF LeavePool, LinkStages
<1>9. CASE NextPage
  <2>1. <<>> \in Seq(Answers)
    OBVIOUS
  <2>2. QED
    BY <1>1, <1>9, <2>1 DEF NextPage, LinkStages, ProbeStates, NoLinks
<1>10. QED
  BY <1>2, <1>3, <1>4, <1>5, <1>6, <1>7, <1>8, <1>9 DEF LinkNext

\* The steps keep what ties the rows to the probes.
LEMMA LinkStep ==
  ASSUME LinkInv, LinkNext
  PROVE  LinkInv'
<1> USE LinkAssumption
<1>1. LinkTypeOK'
  BY LinkTypes DEF LinkInv
<1>2. LinkTypeOK
  BY DEF LinkInv
<1> DEFINE Rest == /\ \A l \in PageLinks : RowOf(l)
                   /\ timedOut => linkStage \in {"expired", "sent"}
                   /\ linkStage = "expired" => timedOut /\ turn \subseteq Probed
                   /\ linkStage = "idle" => Probed = {}
                   /\ linkStage = "sent" => IF timedOut THEN turn = {} ELSE \A l \in Probed : linkRows[l] # <<>>
                   /\ timedOut => \A l \in Probed \ turn : linkRows[l] # <<>> \/ probe[l] = "done"
<1>3. Rest
  BY DEF LinkInv
<1>4. SUFFICES Rest'
  BY <1>1 DEF LinkInv
<1> USE <1>2, <1>3 DEF RowOf, Probed
<1>5. ASSUME NEW links \in SUBSET PageLinks, SubmitLinks(links)
      PROVE  Rest'
  BY <1>5 DEF SubmitLinks, LinkTypeOK
<1>6. CASE BeginProbe
  <2>1. PICK m \in PageLinks : probe[m] = "queued" /\ probe' = [probe EXCEPT ![m] = "running"]
    <3>1. InState("queued") \in SUBSET Nat /\ InState("queued") # {}
      BY <1>6 DEF BeginProbe, InState
    <3>2. QED
      BY <1>6, <3>1, MinIsOne DEF BeginProbe, InState
  <2>2. QED
    BY <1>6, <2>1 DEF BeginProbe, LinkTypeOK
<1>7. ASSUME NEW l \in PageLinks, NEW a \in Replies, EndProbe(l, a)
      PROVE  Rest'
  BY <1>7 DEF EndProbe, LinkTypeOK
<1>8. ASSUME NEW l \in PageLinks, Collect(l)
      PROVE  Rest'
  <2>1. Append(linkRows[l], told[l]) = <<told[l]>>
    BY <1>8 DEF Collect, LinkTypeOK
  <2>2. QED
    BY <1>8, <2>1 DEF Collect, LinkTypeOK
<1>9. ASSUME NEW python \in Pythons, WallClock(python)
      PROVE  Rest'
  BY <1>9 DEF WallClock, LinkTypeOK
<1>10. ASSUME NEW l \in PageLinks, GiveUp(l)
       PROVE  Rest'
  <2>1. l \in turn
    BY <1>10, MinIsOne DEF GiveUp, LinkTypeOK
  <2>2. probe[l] # "done" => Append(linkRows[l], SkippedLink) = <<SkippedLink>>
    <3>1. probe[l] # "done" => linkRows[l] = <<>>
      BY <2>1
    <3>2. Append(<<>>, SkippedLink) = <<SkippedLink>>
      OBVIOUS
    <3>3. QED
      BY <3>1, <3>2
  <2>3. Probed' = Probed
    BY <1>10 DEF GiveUp, LinkTypeOK
  <2>4. \A k \in PageLinks : RowOf(k)'
    <3>1. ASSUME NEW k \in PageLinks PROVE RowOf(k)'
      <4>1. CASE k = l /\ probe[l] = "done"
        BY <1>10, <4>1 DEF GiveUp, LinkTypeOK
      <4>2. CASE k = l /\ probe[l] # "done"
        BY <1>10, <2>1, <2>2, <4>2 DEF GiveUp, LinkTypeOK
      <4>3. CASE k # l
        BY <1>10, <4>3 DEF GiveUp, LinkTypeOK
      <4>4. QED
        BY <4>1, <4>2, <4>3
    <3>2. QED
      BY <3>1
  <2>5. ASSUME NEW k \in Probed, k \notin turn'
        PROVE  linkRows'[k] # <<>> \/ probe'[k] = "done"
    <3>1. CASE k = l
      BY <1>10, <2>2, <2>5, <3>1 DEF GiveUp, LinkTypeOK
    <3>2. CASE k # l
      <4>1. k \notin turn /\ timedOut
        BY <1>10, <2>5, <3>2 DEF GiveUp
      <4>2. linkRows[k] # <<>> \/ probe[k] = "done"
        BY <2>5, <4>1
      <4>3. QED
        BY <1>10, <2>5, <3>2, <4>2 DEF GiveUp, LinkTypeOK
    <3>3. QED
      BY <3>1, <3>2
  <2>6. (timedOut => \A k \in Probed \ turn : linkRows[k] # <<>> \/ probe[k] = "done")'
    BY <2>3, <2>5
  <2>7. QED
    BY <1>10, <2>3, <2>4, <2>6 DEF GiveUp
<1>11. CASE LeavePool
  BY <1>11 DEF LeavePool
<1>12. CASE NextPage
  BY <1>12 DEF NextPage, NoLinks
<1>13. QED
  BY <1>5, <1>6, <1>7, <1>8, <1>9, <1>10, <1>11, <1>12 DEF LinkNext

\* What is sent of the links of a page has each at most once, as it was found or,
\* when the time was up, as skipped; a link that was probed is missing only if its
\* probe was done, and not collected, when the time was up: for any links, any
\* replies and any number of threads.
THEOREM Links == LinkSpec => []LinksReported
<1>1. LinkInit => LinkInv
  <2>1. SkippedLink \in Answers
    BY DEF Answers
  <2>2. <<>> \in Seq(Answers)
    OBVIOUS
  <2>3. LinkInit => LinkTypeOK
    BY <2>1, <2>2 DEF LinkInit, LinkTypeOK, NoLinks, LinkStages, ProbeStates
  <2>4. QED
    BY <2>3 DEF LinkInit, LinkInv, RowOf, Probed, NoLinks
<1>2. LinkInv /\ [LinkNext]_linkVars => LinkInv'
  <2>1. ASSUME LinkInv, UNCHANGED linkVars PROVE LinkInv'
    BY <2>1 DEF LinkInv, LinkTypeOK, RowOf, Probed, linkVars
  <2>2. QED
    BY <2>1, LinkStep
<1>3. LinkInv => LinksReported
  <2>1. SUFFICES ASSUME LinkInv, linkStage = "sent", NEW l \in PageLinks
        PROVE  IF l \notin Probed THEN linkRows[l] = <<>>
               ELSE \/ linkRows[l] = <<told[l]>>
                    \/ timedOut /\ linkRows[l] = <<SkippedLink>>
                    \/ timedOut /\ linkRows[l] = <<>> /\ probe[l] = "done"
    BY DEF LinksReported
  <2>2. RowOf(l) /\ timedOut \in BOOLEAN /\ (l \in Probed <=> probe[l] # "none")
    BY <2>1 DEF LinkInv, LinkTypeOK, Probed
  <2>3. l \in Probed /\ linkRows[l] = <<>> => timedOut /\ probe[l] = "done"
    BY <2>1, <2>2 DEF LinkInv
  <2>4. QED
    BY <2>2, <2>3 DEF RowOf
<1>4. QED
  BY <1>1, <1>2, <1>3, PTL DEF LinkSpec

-----------------------------------------------------------------------------
(* Canonical pages.                                                         *)

\* A walk from page to page, as long as there is a next one.
Declared == CanonPages \cup {"none"}
IsWalk(h, n, next, page) ==
  /\ h \in [0..n -> Declared] /\ h[0] = page
  /\ \A k \in 1..n : h[k] = IF h[k - 1] = "none" THEN "none" ELSE next[h[k - 1]]

LEMMA WalkExists ==
  ASSUME NEW n \in Nat, NEW next \in [CanonPages -> Declared], NEW page \in CanonPages
  PROVE  \E g : IsWalk(g, n, next, page)
<1> DEFINE F == [k \in 1..n |-> [s \in Declared |-> IF s = "none" THEN "none" ELSE next[s]]]
<1>1. F \in [1..n -> [Declared -> Declared]]
  BY DEF Declared
<1>2. page \in Declared
  BY DEF Declared
<1> HIDE DEF F
<1>3. PICK g : Iterates(g, n, Declared, page, F)
  BY <1>1, <1>2, Recursion
<1>4. ASSUME NEW k \in 1..n PROVE g[k] = IF g[k - 1] = "none" THEN "none" ELSE next[g[k - 1]]
  <2>1. g[k - 1] \in Declared /\ g[k] = F[k][g[k - 1]]
    BY <1>3 DEF Iterates
  <2>2. F[k] = [s \in Declared |-> IF s = "none" THEN "none" ELSE next[s]]
    BY Zenon DEF F
  <2>3. F[k][g[k - 1]] = IF g[k - 1] = "none" THEN "none" ELSE next[g[k - 1]]
    BY <2>1, <2>2, Zenon
  <2>4. QED
    BY <2>1, <2>3
<1>5. QED
  BY <1>3, <1>4 DEF Iterates, IsWalk

\* A function that goes on as a walk does is one.
LEMMA WalkIs ==
  ASSUME NEW n \in Nat, NEW next \in [CanonPages -> Declared], NEW page \in CanonPages, NEW h,
         h = [k \in 0..n |-> IF k = 0 THEN page
                             ELSE IF h[k - 1] = "none" THEN "none" ELSE next[h[k - 1]]]
  PROVE  IsWalk(h, n, next, page)
<1>1. h[0] = page /\ \A k \in 1..n : h[k] = IF h[k - 1] = "none" THEN "none" ELSE next[h[k - 1]]
  OBVIOUS
<1> DEFINE T == {k \in Nat : h[k] \in Declared}
<1>2. 0 \in T
  BY <1>1 DEF Declared
<1>3. ASSUME NEW k \in 0..n - 1, k \in T
      PROVE  k + 1 \in T
  <2>1. h[k + 1] = IF h[k] = "none" THEN "none" ELSE next[h[k]]
    BY <1>1
  <2>2. QED
    BY <1>3, <2>1 DEF Declared
<1>4. \A k \in 0..n : k \in T
  <2> HIDE DEF T
  <2>1. QED
    BY <1>2, <1>3, UpTo
<1>5. h = [k \in 0..n |-> h[k]]
  OBVIOUS
<1>6. h \in [0..n -> Declared]
  BY <1>4, <1>5
<1>7. QED
  BY <1>1, <1>6 DEF IsWalk

\* Walks from the same page are the same as far as both go.
LEMMA WalksAgree ==
  ASSUME NEW n \in Nat, NEW m \in Nat, n <= m, NEW next, NEW page, NEW g, NEW h,
         IsWalk(g, n, next, page), IsWalk(h, m, next, page)
  PROVE  \A k \in 0..n : g[k] = h[k]
<1> DEFINE T == {k \in Nat : g[k] = h[k]}
<1>1. 0 \in T
  BY DEF IsWalk
<1>2. ASSUME NEW k \in 0..n - 1, k \in T
      PROVE  k + 1 \in T
  <2>1. k + 1 \in 1..n /\ k + 1 \in 1..m /\ (k + 1) - 1 = k
    OBVIOUS
  <2>2. QED
    BY <1>2, <2>1 DEF IsWalk
<1>3. \A k \in 0..n : k \in T
  <2> HIDE DEF T
  <2>1. QED
    BY <1>1, <1>2, UpTo
<1>4. QED
  BY <1>3

\* Without a next page, or at a page that names itself, a walk stays.
LEMMA WalkStays ==
  ASSUME NEW n \in Nat, NEW next, NEW page, NEW h, IsWalk(h, n, next, page),
         NEW i \in 0..n, NEW m \in i..n,
         h[i] = "none" \/ (i < n /\ h[i + 1] = h[i])
  PROVE  h[m] = h[i]
<1> DEFINE T == {k \in Nat : h[i + k] = h[i]}
<1>1. 0 \in T
  OBVIOUS
<1>2. ASSUME NEW k \in 0..(n - i) - 1, k \in T
      PROVE  k + 1 \in T
  <2>1. i + k + 1 \in 1..n /\ (i + k + 1) - 1 = i + k /\ i + (k + 1) = i + k + 1
    OBVIOUS
  <2>2. h[i + k + 1] = IF h[i + k] = "none" THEN "none" ELSE next[h[i + k]]
    BY <2>1 DEF IsWalk
  <2>3. CASE h[i] = "none"
    BY <1>2, <2>1, <2>2, <2>3
  <2>4. CASE h[i] # "none" /\ i < n /\ h[i + 1] = h[i]
    <3>1. i + 1 \in 1..n /\ (i + 1) - 1 = i
      BY <2>4
    <3>2. h[i + 1] = next[h[i]]
      BY <2>4, <3>1 DEF IsWalk
    <3>3. QED
      BY <1>2, <2>1, <2>2, <2>4, <3>2
  <2>5. QED
    BY <2>3, <2>4
<1>3. \A k \in 0..n - i : k \in T
  <2> HIDE DEF T
  <2>1. n - i \in Nat
    OBVIOUS
  <2>2. QED
    BY <1>1, <1>2, <2>1, UpTo
<1>4. m - i \in 0..n - i /\ i + (m - i) = m
  OBVIOUS
<1>5. QED
  BY <1>3, <1>4

Cyclic(h) == \E i, j \in 0..MaxHops : i < j /\ h[i] = h[j] /\ h[i] \notin {"none", h[i + 1]}

\* The first hop that says something says fail exactly if the walk goes in a cycle.
LEMMA FirstRepeats ==
  ASSUME NEW next \in [CanonPages -> Declared], NEW page \in CanonPages, NEW h,
         IsWalk(h, MaxHops + 1, next, page),
         NEW first \in 1..MaxHops, h[first] = "none" \/ Repeated(h, first),
         \A k \in 1..MaxHops : h[k] = "none" \/ Repeated(h, k) => first <= k
  PROVE  Cyclic(h) <=> h[first] \notin {"none", h[first - 1]}
<1> USE ChecksAssumption
<1>1. MaxHops \in Nat /\ MaxHops + 1 \in Nat
  OBVIOUS
<1>2. ASSUME h[first] \notin {"none", h[first - 1]}
      PROVE  Cyclic(h)
  <2>1. PICK i \in 0..(first - 1) : h[first] = h[i]
    BY <1>2 DEF Repeated
  <2>2. h[i] # h[i + 1]
    <3>1. SUFFICES ASSUME h[i] = h[i + 1] PROVE FALSE
      OBVIOUS
    <3>2. i \in 0..MaxHops + 1 /\ first - 1 \in i..MaxHops + 1 /\ i < MaxHops + 1
      BY <1>1
    <3>3. h[first - 1] = h[i]
      BY <1>1, <3>1, <3>2, WalkStays
    <3>4. QED
      BY <1>2, <2>1, <3>3
  <2>3. i \in 0..MaxHops /\ first \in 0..MaxHops /\ i < first
    BY <1>1
  <2>4. QED
    BY <1>2, <2>1, <2>2, <2>3 DEF Cyclic
<1>3. ASSUME Cyclic(h)
      PROVE  h[first] \notin {"none", h[first - 1]}
  <2>1. PICK i, j \in 0..MaxHops : i < j /\ h[i] = h[j] /\ h[i] \notin {"none", h[i + 1]}
    BY <1>3 DEF Cyclic
  <2>2. first <= j
    <3>1. j \in 1..MaxHops /\ i \in 0..(j - 1)
      BY <1>1, <2>1
    <3>2. QED
      BY <2>1, <3>1 DEF Repeated
  <2>3. h[first] # "none"
    <3>1. first \in 0..MaxHops + 1 /\ j \in first..MaxHops + 1
      BY <1>1, <2>2
    <3>2. h[first] = "none" => h[j] = h[first]
      BY <1>1, <3>1, WalkStays
    <3>3. QED
      BY <2>1, <3>2
  <2>4. ASSUME h[first] = h[first - 1] PROVE FALSE
    <3> DEFINE b == first - 1
    <3>1. b \in 0..MaxHops + 1 /\ b < MaxHops + 1 /\ b + 1 = first /\ b \in Nat
      BY <1>1
    <3>2. \A m \in b..MaxHops + 1 : h[m] = h[b]
      BY <1>1, <2>4, <3>1, WalkStays
    <3>3. CASE i >= b
      <4>1. i \in b..MaxHops + 1 /\ i + 1 \in b..MaxHops + 1
        BY <1>1, <3>1, <3>3
      <4>2. QED
        BY <2>1, <3>2, <4>1
    <3>4. CASE i < b
      <4>1. j \in b..MaxHops + 1
        BY <1>1, <2>2, <3>1
      <4>2. h[b] = h[i]
        BY <2>1, <3>2, <4>1
      <4>3. b \in 1..MaxHops /\ i \in 0..(b - 1)
        BY <1>1, <3>1, <3>4
      <4>4. first <= b
        BY <4>2, <4>3 DEF Repeated
      <4>5. QED
        BY <3>1, <4>4
    <3>5. QED
      BY <1>1, <3>1, <3>3, <3>4
  <2>5. QED
    BY <2>3, <2>4
<1>4. QED
  BY <1>2, <1>3

\* Nor does it matter that canonical_loop_check, instead, stays at what is no page.
LEMMA HopsIs ==
  ASSUME NEW next \in [CanonPages -> Declared], NEW page \in CanonPages, NEW hop,
         hop = [k \in 0..MaxHops |->
                  IF k = 0 THEN page
                  ELSE IF hop[k - 1] \in DOMAIN next THEN next[hop[k - 1]] ELSE hop[k - 1]]
  PROVE  IsWalk(hop, MaxHops, next, page)
<1> USE ChecksAssumption, AuditsAssumption
<1> DEFINE T == {k \in Nat : hop[k] \in Declared}
<1>1. hop[0] = page
  OBVIOUS
<1>2. 0 \in T
  BY <1>1 DEF Declared
<1>3. \A k \in 1..MaxHops : hop[k] = IF hop[k - 1] \in DOMAIN next THEN next[hop[k - 1]] ELSE hop[k - 1]
  OBVIOUS
<1>4. ASSUME NEW k \in 0..MaxHops - 1, k \in T
      PROVE  k + 1 \in T
  <2>1. k + 1 \in 1..MaxHops /\ (k + 1) - 1 = k
    OBVIOUS
  <2>2. hop[k + 1] = IF hop[k] \in DOMAIN next THEN next[hop[k]] ELSE hop[k]
    BY <1>3, <2>1
  <2>3. QED
    BY <1>4, <2>2 DEF Declared
<1>5. \A k \in 0..MaxHops : k \in T
  <2> HIDE DEF T
  <2>1. QED
    BY <1>2, <1>4, UpTo
<1>6. hop \in [0..MaxHops -> Declared]
  <2>1. hop = [k \in 0..MaxHops |-> hop[k]]
    OBVIOUS
  <2>2. QED
    BY <1>5, <2>1
<1>7. ASSUME NEW k \in 1..MaxHops
      PROVE  hop[k] = IF hop[k - 1] = "none" THEN "none" ELSE next[hop[k - 1]]
  <2>1. k - 1 \in 0..MaxHops
    OBVIOUS
  <2>2. hop[k - 1] \in CanonPages \cup {"none"}
    BY <1>5, <2>1 DEF Declared
  <2>3. QED
    BY <1>3, <2>2
<1>8. QED
  BY <1>1, <1>6, <1>7 DEF IsWalk

\* The hops of canonical_loop_check, as it fetches them: no page has the name of
\* what a page without a canonical page declares.
LEMMA HopsWalk ==
  ASSUME NEW next \in [CanonPages -> Declared], NEW page \in CanonPages
  PROVE  IsWalk(CHOOSE h : h = [k \in 0..MaxHops |->
                  IF k = 0 THEN page
                  ELSE IF h[k - 1] \in DOMAIN next THEN next[h[k - 1]] ELSE h[k - 1]],
                MaxHops, next, page)
<1> USE ChecksAssumption, AuditsAssumption
<1> DEFINE IsHop(h) == h = [k \in 0..MaxHops |->
                              IF k = 0 THEN page
                              ELSE IF h[k - 1] \in DOMAIN next THEN next[h[k - 1]] ELSE h[k - 1]]
<1>1. PICK g : IsWalk(g, MaxHops, next, page)
  BY WalkExists
<1>2. IsHop(g)
  <2>1. ASSUME NEW k \in 1..MaxHops
        PROVE  g[k] = IF g[k - 1] \in DOMAIN next THEN next[g[k - 1]] ELSE g[k - 1]
    <3>1. k - 1 \in 0..MaxHops
      OBVIOUS
    <3>2. g[k - 1] \in CanonPages \cup {"none"}
      BY <1>1, <3>1 DEF IsWalk, Declared
    <3>3. QED
      BY <1>1, <3>2 DEF IsWalk
  <2>2. g = [k \in 0..MaxHops |-> g[k]] /\ g[0] = page
    BY <1>1 DEF IsWalk
  <2>3. \A k \in 0..MaxHops : k = 0 \/ k \in 1..MaxHops
    OBVIOUS
  <2>4. QED
    BY <2>1, <2>2, <2>3
<1>3. ASSUME NEW h, IsHop(h) PROVE IsWalk(h, MaxHops, next, page)
  BY <1>3, HopsIs
<1>4. IsHop(CHOOSE h : IsHop(h))
  BY <1>2, Zenon
<1>5. QED
  BY <1>3, <1>4, Zenon

\* The walk CyclesFound looks at.
LEMMA StepsWalk ==
  ASSUME NEW next \in [CanonPages -> Declared], NEW page \in CanonPages
  PROVE  IsWalk(CHOOSE h : h = [k \in 0..(MaxHops + 1) |->
                  IF k = 0 THEN page ELSE IF h[k - 1] = "none" THEN "none" ELSE next[h[k - 1]]],
                MaxHops + 1, next, page)
<1> USE ChecksAssumption
<1> DEFINE n == MaxHops + 1
           IsStep(h) == h = [k \in 0..n |->
                               IF k = 0 THEN page
                               ELSE IF h[k - 1] = "none" THEN "none" ELSE next[h[k - 1]]]
<1>1. n \in Nat
  OBVIOUS
<1>2. PICK g : IsWalk(g, n, next, page)
  BY <1>1, WalkExists
<1>3. \A k \in 0..n : k = 0 \/ k \in 1..n
  OBVIOUS
<1>4. IsStep(g)
  BY <1>2, <1>3 DEF IsWalk
<1>5. ASSUME NEW h, IsStep(h) PROVE IsWalk(h, n, next, page)
  <2> HIDE DEF n
  <2>1. QED
    BY <1>1, <1>5, WalkIs
<1>6. IsStep(CHOOSE h : IsStep(h))
  BY <1>4, Zenon
<1>7. QED
  BY <1>5, <1>6, Zenon

Ends(hop) == {k \in 1..MaxHops : hop[k] = "none" \/ Repeated(hop, k)}
First(ends) == CHOOSE k \in ends : \A j \in ends : k <= j
Told(next, hop, step, ends, first) ==
  /\ ends = {} => ~Cyclic(step)
  /\ ends # {} => /\ hop[first - 1] \in DOMAIN next
                  /\ Cyclic(step) <=> hop[first] \notin {"none", hop[first - 1]}

\* What canonical_loop_check makes of hops that all agree with a longer walk.
LEMMA FailsOnCycles ==
  ASSUME NEW next \in [CanonPages -> Declared], NEW page \in CanonPages, NEW hop, NEW step,
         IsWalk(hop, MaxHops, next, page), IsWalk(step, MaxHops + 1, next, page)
  PROVE  Told(next, hop, step, Ends(hop), First(Ends(hop)))
<1> USE ChecksAssumption, AuditsAssumption
<1> DEFINE ends == Ends(hop)
           first == First(ends)
<1>1. \A k \in 0..MaxHops : hop[k] = step[k]
  BY WalksAgree
<1>2. ends = {k \in 1..MaxHops : step[k] = "none" \/ Repeated(step, k)}
  BY <1>1 DEF Repeated, Ends
<1>3. ends \in SUBSET Nat /\ ends \subseteq 1..MaxHops
  BY DEF Ends
<1>4. \A k \in 1..MaxHops : hop[k] = "none" => k \in ends
  BY DEF Ends
<1> HIDE DEF ends
<1>5. ASSUME ends = {} PROVE ~Cyclic(step)
  <2>1. SUFFICES ASSUME NEW i \in 0..MaxHops, NEW j \in 0..MaxHops, i < j, step[i] = step[j]
                 PROVE  FALSE
    BY DEF Cyclic
  <2>2. j \in 1..MaxHops /\ i \in 0..(j - 1)
    BY <2>1
  <2>3. j \in ends
    BY <1>2, <2>1, <2>2 DEF Repeated
  <2>4. QED
    BY <1>5, <2>3
<1>6. ASSUME ends # {}
      PROVE  /\ hop[first - 1] \in DOMAIN next
             /\ Cyclic(step) <=> hop[first] \notin {"none", hop[first - 1]}
  <2>1. \E k \in ends : \A j \in ends : k <= j
    BY <1>6, <1>3, Least
  <2>2. first \in ends /\ \A j \in ends : first <= j
    BY <2>1, Zenon DEF First
  <2> HIDE DEF first
  <2>3. first \in 1..MaxHops /\ first \in 0..MaxHops /\ first - 1 \in 0..MaxHops
    BY <1>3, <2>2
  <2>4. hop[first] = step[first] /\ hop[first - 1] = step[first - 1]
    BY <1>1, <2>3
  <2>5. hop[first - 1] # "none"
    <3>1. SUFFICES ASSUME hop[first - 1] = "none" PROVE FALSE
      OBVIOUS
    <3>2. first # 1
      <4>1. hop[0] = page /\ page # "none"
        BY DEF IsWalk
      <4>2. SUFFICES ASSUME first = 1 PROVE FALSE
        OBVIOUS
      <4>3. first - 1 = 0
        BY <4>2
      <4>4. hop[0] = "none"
        BY <3>1, <4>3
      <4>5. QED
        BY <4>1, <4>4
    <3>3. first - 1 \in ends
      BY <1>4, <2>3, <3>1, <3>2
    <3>4. QED
      BY <2>2, <2>3, <3>3
  <2>6. hop[first - 1] \in DOMAIN next
    BY <2>3, <2>5 DEF IsWalk, Declared
  <2>7. Cyclic(step) <=> step[first] \notin {"none", step[first - 1]}
    <3>1. first \in 1..MaxHops /\ (step[first] = "none" \/ Repeated(step, first))
      BY <1>2, <2>2
    <3>2. \A k \in 1..MaxHops : step[k] = "none" \/ Repeated(step, k) => first <= k
      BY <1>2, <2>2
    <3>3. QED
      BY <3>1, <3>2, FirstRepeats
  <2>8. QED
    BY <2>4, <2>6, <2>7
<1>7. QED
  BY <1>5, <1>6, Zenon DEF Told, ends

\* The canonical pages put to canonical_loop_check are pages or none.
CanonicalCase(c) == c.next \in [CanonPages -> Declared] /\ c.page \in CanonPages
CaseInv == case.kind = "canonical" => CanonicalCase(case)

LEMMA LoopVerdict ==
  ASSUME NEW c, CanonicalCase(c), NEW step,
         step = CHOOSE h : h = [k \in 0..(MaxHops + 1) |->
                  IF k = 0 THEN c.page ELSE IF h[k - 1] = "none" THEN "none" ELSE c.next[h[k - 1]]]
  PROVE  (canonical_loop(c) = "fail") <=> Cyclic(step)
<1> DEFINE hop == CHOOSE h : h = [k \in 0..MaxHops |->
                    IF k = 0 THEN c.page
                    ELSE IF h[k - 1] \in DOMAIN c.next THEN c.next[h[k - 1]] ELSE h[k - 1]]
           ends == Ends(hop)
           first == First(ends)
           before == hop[first - 1]
<1>1. canonical_loop(c) =
        CASE ends = {} -> "warning"
          [] ends # {} /\ before \notin DOMAIN c.next -> "error"
          [] ends # {} /\ hop[first] = "none" -> IF first = 1 THEN "warning" ELSE "pass"
          [] ends # {} /\ before \in DOMAIN c.next /\ hop[first] = before ->
               IF first = 1 THEN "pass" ELSE "warning"
          [] OTHER -> "fail"
  BY Zenon DEF canonical_loop, Ends, First
<1>2. IsWalk(hop, MaxHops, c.next, c.page)
  BY HopsWalk, Zenon DEF CanonicalCase
<1>3. IsWalk(step, MaxHops + 1, c.next, c.page)
  BY StepsWalk, Zenon DEF CanonicalCase
<1>4. Told(c.next, hop, step, ends, first)
  <2> HIDE DEF hop
  <2>1. QED
    BY <1>2, <1>3, FailsOnCycles, Zenon DEF CanonicalCase
<1> HIDE DEF hop, ends, first
<1>5. QED
  BY <1>1, <1>4 DEF Told

LEMMA CaseStep ==
  ASSUME CaseInv, [CaseNext]_case
  PROVE  CaseInv'
<1>1. CASE PutCanonicals
  BY <1>1 DEF PutCanonicals, CaseInv, CanonicalCase, Declared
<1>2. CASE PutLadder
  BY <1>2 DEF PutLadder, CaseInv
<1>3. CASE PutAudits
  BY <1>3 DEF PutAudits, CaseInv
<1>4. CASE PutRequest
  <2>1. case'.kind = "request"
    BY <1>4 DEF PutRequest
  <2>2. QED
    BY <2>1 DEF CaseInv
<1>5. CASE PutNetwork
  BY <1>5 DEF PutNetwork, CaseInv
<1>6. CASE case' = NoCase
  BY <1>6 DEF NoCase, CaseInv
<1>7. CASE UNCHANGED case
  BY <1>7 DEF CaseInv, CanonicalCase
<1>8. QED
  BY <1>1, <1>2, <1>3, <1>4, <1>5, <1>6, <1>7 DEF CaseNext

LEMMA CaseFound ==
  ASSUME CaseInv
  PROVE  CyclesFound
<1>1. SUFFICES ASSUME case.kind = "canonical"
               PROVE  CyclesFound
  BY DEF CyclesFound
<1> DEFINE step == CHOOSE h : h = [k \in 0..(MaxHops + 1) |->
                     IF k = 0 THEN case.page
                     ELSE IF h[k - 1] = "none" THEN "none" ELSE case.next[h[k - 1]]]
<1>2. CanonicalCase(case)
  BY <1>1 DEF CaseInv
<1>3. (canonical_loop(case) = "fail") <=> Cyclic(step)
  BY <1>2, LoopVerdict, Zenon
<1>4. QED
  BY <1>3, Zenon DEF CyclesFound, Cyclic

\* canonical_loop_check fails a page exactly when the chain of canonical pages from
\* it runs into a cycle of at least two within the hops it follows, whatever the
\* pages, whatever they declare, and for any number of hops.
THEOREM Cycles == CaseSpec => []CyclesFound
<1>1. CaseInit => CaseInv
  BY DEF CaseInit, CaseInv, NoCase
<1>2. CaseInv /\ [CaseNext]_case => CaseInv'
  BY CaseStep
<1>3. CaseInv => CyclesFound
  BY CaseFound
<1>4. QED
  BY <1>1, <1>2, <1>3, PTL DEF CaseSpec

-----------------------------------------------------------------------------
(* Scores.                                                                  *)

\* What holds of a set when it holds of the set less any one element holds of
\* every subset of a finite set.
LEMMA ByRemoval ==
  ASSUME NEW S, IsFiniteSet(S), NEW P,
         \A T \in SUBSET S : (\A x \in T : T \ {x} \in P) => T \in P
  PROVE  \A T \in SUBSET S : T \in P
<1> DEFINE n == Cardinality(S)
           K == {k \in Nat : \A T \in SUBSET S : Cardinality(T) <= k => T \in P}
<1>1. n \in Nat
  BY FS_CardinalityType
<1>2. \A T \in SUBSET S : IsFiniteSet(T) /\ Cardinality(T) \in Nat /\ Cardinality(T) <= n
  BY FS_Subset, FS_CardinalityType
<1>3. 0 \in K
  <2>1. \A T \in SUBSET S : Cardinality(T) <= 0 => T = {}
    BY <1>2, FS_EmptySet
  <2>2. {} \in P
    OBVIOUS
  <2>3. QED
    BY <2>1, <2>2
<1>4. ASSUME NEW k \in 0..n - 1, k \in K
      PROVE  k + 1 \in K
  <2>1. SUFFICES ASSUME NEW T \in SUBSET S, Cardinality(T) <= k + 1
                 PROVE  T \in P
    BY <1>1
  <2>2. ASSUME NEW x \in T PROVE T \ {x} \in P
    <3>1. Cardinality(T \ {x}) = Cardinality(T) - 1 /\ T \ {x} \in SUBSET S
      BY <1>2, FS_RemoveElement
    <3>2. Cardinality(T \ {x}) <= k
      BY <1>1, <1>2, <2>1, <3>1
    <3>3. QED
      BY <1>4, <3>1, <3>2
  <2>3. QED
    BY <2>2
<1>5. \A k \in 0..n : k \in K
  <2> HIDE DEF K
  <2>1. QED
    BY <1>1, <1>3, <1>4, UpTo
<1>6. QED
  BY <1>1, <1>2, <1>5

\* The weights of results, as MapThenSumSet adds them: of one it picks, and of the
\* others.
Picked(s) == CHOOSE x \in s : TRUE
Summed(g, S) ==
  [s \in SUBSET S |-> IF s = {} THEN 0 ELSE Weight(Picked(s).tool) + g[s \ {Picked(s)}]]
Total(S) == MapThenSumSet(LAMBDA r : Weight(r.tool), S)

LEMMA Weights ==
  ASSUME NEW tool
  PROVE  Weight(tool) \in Nat
<1> DEFINE at == {w \in DOMAIN Weighing : tool \in Weighing[w]}
           c == CHOOSE w \in at : TRUE
<1>1. DOMAIN Weighing = 1..15
  BY DEF Weighing
<1>2. at \subseteq Nat
  BY <1>1
<1>3. Weight(tool) = IF at = {} THEN 2 ELSE c
  BY Zenon DEF Weight
<1> HIDE DEF at
<1>4. at # {} => c \in at
  BY Zenon
<1> HIDE DEF c
<1>5. CASE at = {}
  BY <1>3, <1>5
<1>6. CASE at # {}
  <2>1. c \in Nat
    BY <1>2, <1>4, <1>6
  <2>2. Weight(tool) = c
    BY <1>3, <1>6
  <2>3. QED
    BY <2>1, <2>2
<1>7. QED
  BY <1>5, <1>6

LEMMA SummedAt ==
  ASSUME NEW S, NEW g \in [SUBSET S -> Nat], NEW s \in SUBSET S, s # {}
  PROVE  /\ Picked(s) \in s
         /\ Weight(Picked(s).tool) + g[s \ {Picked(s)}] \in Nat
         /\ Summed(g, S)[s] = Weight(Picked(s).tool) + g[s \ {Picked(s)}]
<1>1. Picked(s) \in s
  BY DEF Picked
<1>2. Weight(Picked(s).tool) \in Nat
  BY Weights
<1>3. g[s \ {Picked(s)}] \in Nat
  OBVIOUS
<1>4. Weight(Picked(s).tool) + g[s \ {Picked(s)}] \in Nat
  BY <1>2, <1>3
<1>5. QED
  BY <1>1, <1>4 DEF Summed

LEMMA SummedIs ==
  ASSUME NEW S, NEW g \in [SUBSET S -> Nat]
  PROVE  Summed(g, S) \in [SUBSET S -> Nat] /\ Summed(g, S)[{}] = 0
<1>1. ASSUME NEW s \in SUBSET S, s # {}
      PROVE  Weight(Picked(s).tool) + g[s \ {Picked(s)}] \in Nat
  BY <1>1, SummedAt
<1>2. QED
  BY <1>1 DEF Summed

LEMMA SumExists ==
  ASSUME NEW S, IsFiniteSet(S)
  PROVE  \E g \in [SUBSET S -> Nat] : g = Summed(g, S)
<1> DEFINE n == Cardinality(S)
           G == [SUBSET S -> Nat]
           zero == [s \in SUBSET S |-> 0]
           F == [k \in 1..n + 1 |-> [g \in G |-> Summed(g, S)]]
<1>1. n \in Nat /\ n + 1 \in Nat
  BY FS_CardinalityType
<1>2. \A s \in SUBSET S : IsFiniteSet(s) /\ Cardinality(s) \in Nat /\ Cardinality(s) <= n
  BY FS_Subset, FS_CardinalityType
<1>3. \A g \in G : Summed(g, S) \in G
  BY SummedIs
<1>4. F \in [1..n + 1 -> [G -> G]]
  <2> HIDE DEF G
  <2>1. QED
    BY <1>3
<1>5. zero \in G
  OBVIOUS
<1>6. PICK h : Iterates(h, n + 1, G, zero, F)
  <2> HIDE DEF G, F, zero, n
  <2>1. QED
    BY <1>1, <1>4, <1>5, Recursion
<1>7. /\ h[0] = zero /\ \A k \in 0..n + 1 : h[k] \in G
      /\ \A k \in 0..n : h[k + 1] = Summed(h[k], S)
  <2>1. h[0] = zero /\ \A k \in 0..n + 1 : h[k] \in G
    BY <1>6, Zenon DEF Iterates
  <2>2. ASSUME NEW k \in 0..n
        PROVE  h[k + 1] = Summed(h[k], S)
    <3> HIDE DEF G
    <3>1. k + 1 \in 1..n + 1 /\ (k + 1) - 1 = k /\ k \in 0..n + 1
      BY <1>1
    <3>2. h[k + 1] = F[k + 1][h[k]]
      BY <1>6, <3>1 DEF Iterates
    <3>3. F[k + 1] = [g \in G |-> Summed(g, S)]
      BY <3>1
    <3>4. h[k] \in G
      BY <2>1, <3>1
    <3>5. QED
      BY <3>2, <3>3, <3>4, Zenon
  <2>3. QED
    BY <2>1, <2>2
<1> HIDE DEF F, zero, G
<1> DEFINE T == {k \in Nat : \A s \in SUBSET S : Cardinality(s) <= k => h[k][s] = h[k + 1][s]}
<1>8. 0 \in T
  <2>1. SUFFICES ASSUME NEW s \in SUBSET S, Cardinality(s) <= 0
                 PROVE  h[0][s] = h[0 + 1][s]
    OBVIOUS
  <2>2. s = {}
    BY <1>2, <2>1, FS_EmptySet
  <2>3. 0 \in 0..n /\ 0 \in 0..n + 1
    BY <1>1
  <2>4. h[0 + 1][{}] = 0
    <3>1. PICK a, b : a = h[0] /\ b = h[0 + 1]
      OBVIOUS
    <3>2. a \in G /\ b = Summed(a, S)
      BY <1>7, <2>3, <3>1, Zenon
    <3>3. b[{}] = 0
      BY <3>2, SummedIs, Zenon DEF G
    <3>4. QED
      BY <3>1, <3>3
  <2>5. h[0][{}] = 0
    BY <1>7 DEF zero
  <2>6. QED
    BY <2>2, <2>4, <2>5
<1>9. ASSUME NEW k \in 0..n - 1, k \in T
      PROVE  k + 1 \in T
  <2>1. k \in 0..n /\ k + 1 \in 0..n /\ k + 1 \in Nat
    BY <1>1
  <2>2. SUFFICES ASSUME NEW s \in SUBSET S, Cardinality(s) <= k + 1
                 PROVE  h[k + 1][s] = h[(k + 1) + 1][s]
    BY <2>1
  <2>3. PICK a, b, c : a = h[k] /\ b = h[k + 1] /\ c = h[(k + 1) + 1]
    OBVIOUS
  <2>4. a \in G /\ b \in G /\ b = Summed(a, S) /\ c = Summed(b, S)
    <3>1. k \in 0..n + 1 /\ k + 1 \in 0..n + 1
      BY <1>1
    <3>2. QED
      BY <1>7, <2>1, <2>3, <3>1, Zenon
  <2>5. a \in [SUBSET S -> Nat] /\ b \in [SUBSET S -> Nat]
    BY <2>4 DEF G
  <2>6. b[s] = c[s]
    <3>1. CASE s = {}
      BY <2>4, <2>5, <3>1, SummedIs, Zenon
    <3>2. CASE s # {}
      <4>1. Picked(s) \in s /\ Summed(a, S)[s] = Weight(Picked(s).tool) + a[s \ {Picked(s)}]
        <5>1. a \in [SUBSET S -> Nat]
          BY <2>5
        <5>2. QED
          BY <3>2, <5>1, SummedAt
      <4>2. Summed(b, S)[s] = Weight(Picked(s).tool) + b[s \ {Picked(s)}]
        BY <2>5, <3>2, SummedAt
      <4>3. s \ {Picked(s)} \in SUBSET S /\ Cardinality(s \ {Picked(s)}) = Cardinality(s) - 1
        BY <1>2, <4>1, FS_RemoveElement
      <4>4. Cardinality(s \ {Picked(s)}) <= k
        BY <1>2, <2>1, <2>2, <4>3
      <4>5. a[s \ {Picked(s)}] = b[s \ {Picked(s)}]
        BY <1>9, <2>3, <4>3, <4>4
      <4>6. QED
        BY <2>4, <4>1, <4>2, <4>5, Zenon
    <3>3. QED
      BY <3>1, <3>2
  <2>7. QED
    BY <2>3, <2>6
<1>10. n \in T
  <2> HIDE DEF T
  <2>1. \A k \in 0..n : k \in T
    BY <1>1, <1>8, <1>9, UpTo
  <2>2. QED
    BY <1>1, <2>1
<1>11. \A s \in SUBSET S : h[n][s] = h[n + 1][s]
  BY <1>2, <1>10
<1>12. n \in 0..n /\ n \in 0..n + 1 /\ n + 1 \in 0..n + 1
  BY <1>1
<1>13. h[n] \in [SUBSET S -> Nat] /\ h[n + 1] \in [SUBSET S -> Nat]
  BY <1>7, <1>12 DEF G
<1>14. h[n] = h[n + 1]
  BY <1>11, <1>13
<1>15. QED
  BY <1>7, <1>12, <1>13, <1>14

LEMMA SumsAgree ==
  ASSUME NEW T, IsFiniteSet(T), NEW S \in SUBSET T,
         NEW g \in [SUBSET S -> Nat], g = Summed(g, S),
         NEW h, h = Summed(h, T)
  PROVE  \A s \in SUBSET S : h[s] = g[s]
<1> DEFINE P == {s \in SUBSET S : h[s] = g[s]}
<1>1. IsFiniteSet(S)
  BY FS_Subset
<1>2. ASSUME NEW s \in SUBSET S, \A x \in s : s \ {x} \in P
      PROVE  s \in P
  <2>1. CASE s = {}
    BY <2>1 DEF Summed
  <2>2. CASE s # {}
    <3>1. Picked(s) \in s
      BY <2>2 DEF Picked
    <3>2. h[s \ {Picked(s)}] = g[s \ {Picked(s)}]
      BY <1>2, <3>1
    <3>3. /\ h[s] = Weight(Picked(s).tool) + h[s \ {Picked(s)}]
          /\ g[s] = Weight(Picked(s).tool) + g[s \ {Picked(s)}]
      BY <2>2 DEF Summed
    <3>4. QED
      BY <3>2, <3>3
  <2>3. QED
    BY <2>1, <2>2
<1>3. \A s \in SUBSET S : s \in P
  <2> HIDE DEF P
  <2>1. QED
    BY <1>1, <1>2, ByRemoval
<1>4. QED
  BY <1>3

LEMMA TotalIs ==
  ASSUME NEW S, IsFiniteSet(S), NEW g \in [SUBSET S -> Nat], g = Summed(g, S)
  PROVE  Total(S) = g[S]
<1> DEFINE iter == CHOOSE h : h = Summed(h, S)
<1>1. iter = Summed(iter, S)
  BY Zenon
<1>2. Total(S) = iter[S]
  BY Zenon DEF Total, MapThenSumSet, MapThenFoldSet, Summed, Picked
<1> HIDE DEF iter
<1>3. QED
  BY <1>1, <1>2, SumsAgree

\* The weight of the results in all is that of any one and that of the others.
LEMMA TotalPicked ==
  ASSUME NEW S, IsFiniteSet(S)
  PROVE  /\ Total(S) \in Nat
         /\ Total({}) = 0
         /\ S # {} => /\ Picked(S) \in S
                      /\ Total(S) = Weight(Picked(S).tool) + Total(S \ {Picked(S)})
<1>1. PICK g \in [SUBSET S -> Nat] : g = Summed(g, S)
  BY SumExists
<1>2. ASSUME NEW T \in SUBSET S
      PROVE  Total(T) = g[T]
  <2>1. IsFiniteSet(T)
    BY FS_Subset
  <2>2. PICK h \in [SUBSET T -> Nat] : h = Summed(h, T)
    BY <2>1, SumExists
  <2>3. Total(T) = h[T]
    BY <2>1, <2>2, TotalIs
  <2>4. g[T] = h[T]
    BY <1>1, <2>2, SumsAgree
  <2>5. QED
    BY <2>3, <2>4
<1>3. Total(S) \in Nat /\ Total({}) = g[{}]
  BY <1>2
<1>4. g[{}] = 0
  BY <1>1, SummedIs
<1>5. ASSUME S # {}
      PROVE  Picked(S) \in S /\ g[S] = Weight(Picked(S).tool) + g[S \ {Picked(S)}]
  <2>1. S \in SUBSET S
    OBVIOUS
  <2>2. QED
    BY <1>1, <1>5, <2>1, SummedAt
<1>6. QED
  BY <1>2, <1>3, <1>4, <1>5

LEMMA TotalParts ==
  ASSUME NEW S, IsFiniteSet(S), NEW x \in S
  PROVE  Total(S) = Weight(x.tool) + Total(S \ {x})
<1> DEFINE P == {T \in SUBSET S : \A y \in T : Total(T) = Weight(y.tool) + Total(T \ {y})}
<1>1. ASSUME NEW T \in SUBSET S, \A y \in T : T \ {y} \in P
      PROVE  T \in P
  <2>1. SUFFICES ASSUME NEW y \in T
                 PROVE  Total(T) = Weight(y.tool) + Total(T \ {y})
    OBVIOUS
  <2> DEFINE c == Picked(T)
             U == T \ {c}
             V == T \ {y}
             R == U \ {y}
  <2>2. IsFiniteSet(T) /\ IsFiniteSet(R)
    <3>1. T \in SUBSET S /\ R \in SUBSET S
      OBVIOUS
    <3>2. QED
      BY <3>1, FS_Subset
  <2>3. c \in T /\ Total(T) = Weight(c.tool) + Total(U)
    BY <2>2, TotalPicked
  <2> HIDE DEF c
  <2>4. CASE c = y
    BY <2>3, <2>4
  <2>5. CASE c # y
    <3>1. U \in P /\ V \in P /\ y \in U /\ c \in V
      BY <1>1, <2>3, <2>5
    <3>2. Total(U) = Weight(y.tool) + Total(R)
      BY <3>1
    <3>3. V \ {c} = R
      OBVIOUS
    <3>4. Total(V) = Weight(c.tool) + Total(R)
      BY <3>1, <3>3
    <3>5. Weight(c.tool) \in Nat /\ Weight(y.tool) \in Nat /\ Total(R) \in Nat
      BY <2>2, Weights, TotalPicked
    <3> HIDE DEF P, U, V, R
    <3>6. QED
      BY <2>3, <3>2, <3>4, <3>5 DEF V
  <2>6. QED
    BY <2>4, <2>5
<1>2. \A T \in SUBSET S : T \in P
  <2> HIDE DEF P
  <2>1. QED
    BY <1>1, ByRemoval
<1>3. QED
  BY <1>2

\* What results earn: twice the weight of one that passed, once that of a warning.
WithStatus(S, status) == {r \in S : r.status = status}
Earned(S) == 2 * Total(WithStatus(S, "pass")) + Total(WithStatus(S, "warning"))
Credit(r) ==
  IF r.status = "pass" THEN 2 * Weight(r.tool)
  ELSE IF r.status = "warning" THEN Weight(r.tool) ELSE 0

LEMMA StatusParts ==
  ASSUME NEW S, IsFiniteSet(S), NEW x \in S, NEW status
  PROVE  /\ Total(WithStatus(S, status)) \in Nat
         /\ Total(WithStatus(S, status)) =
              Total(WithStatus(S \ {x}, status)) + (IF x.status = status THEN Weight(x.tool) ELSE 0)
<1> DEFINE A == WithStatus(S, status)
           B == WithStatus(S \ {x}, status)
<1>1. IsFiniteSet(A) /\ IsFiniteSet(B)
  <2>1. A \in SUBSET S /\ B \in SUBSET S
    BY DEF WithStatus
  <2>2. QED
    BY <2>1, FS_Subset
<1>2. Total(A) \in Nat /\ Total(B) \in Nat /\ Weight(x.tool) \in Nat
  BY <1>1, TotalPicked, Weights
<1>3. CASE x.status = status
  <2>1. x \in A /\ B = A \ {x}
    BY <1>3 DEF WithStatus
  <2> HIDE DEF A, B
  <2>2. Total(A) = Weight(x.tool) + Total(B)
    BY <1>1, <2>1, TotalParts
  <2>3. QED
    BY <1>2, <1>3, <2>2 DEF A, B
<1>4. CASE x.status # status
  <2>1. A = B
    BY <1>4 DEF WithStatus
  <2> HIDE DEF A, B
  <2>2. QED
    BY <1>2, <1>4, <2>1 DEF A, B
<1>5. QED
  BY <1>3, <1>4

LEMMA EarnedParts ==
  ASSUME NEW S, IsFiniteSet(S), NEW x \in S
  PROVE  /\ Earned(S) \in Nat /\ Earned(S \ {x}) \in Nat
         /\ Credit(x) \in 0..2 * Weight(x.tool)
         /\ Earned(S) = Earned(S \ {x}) + Credit(x)
<1> DEFINE p == Total(WithStatus(S, "pass"))
           w == Total(WithStatus(S, "warning"))
           pp == Total(WithStatus(S \ {x}, "pass"))
           ww == Total(WithStatus(S \ {x}, "warning"))
           weight == Weight(x.tool)
<1>1. p \in Nat /\ p = pp + (IF x.status = "pass" THEN weight ELSE 0)
  BY StatusParts
<1>2. w \in Nat /\ w = ww + (IF x.status = "warning" THEN weight ELSE 0)
  BY StatusParts
<1>3. weight \in Nat
  BY Weights
<1>4. pp \in Nat /\ ww \in Nat
  <2>1. WithStatus(S \ {x}, "pass") \in SUBSET S /\ WithStatus(S \ {x}, "warning") \in SUBSET S
    BY DEF WithStatus
  <2>2. QED
    BY <2>1, FS_Subset, TotalPicked
<1>5. /\ Earned(S) = 2 * p + w /\ Earned(S \ {x}) = 2 * pp + ww
      /\ Credit(x) = IF x.status = "pass" THEN 2 * weight
                     ELSE IF x.status = "warning" THEN weight ELSE 0
  BY Zenon DEF Earned, Credit
<1> HIDE DEF p, w, pp, ww, weight
<1>6. Credit(x) \in 0..2 * weight
  BY <1>3, <1>5
<1>7. Earned(S) = Earned(S \ {x}) + Credit(x)
  BY <1>1, <1>2, <1>3, <1>4, <1>5
<1>8. Earned(S) \in Nat /\ Earned(S \ {x}) \in Nat
  BY <1>1, <1>2, <1>4, <1>5
<1>9. QED
  BY <1>6, <1>7, <1>8 DEF weight

LEMMA EarnedBound ==
  ASSUME NEW S, IsFiniteSet(S)
  PROVE  Earned(S) \in Nat /\ Total(S) \in Nat /\ Earned(S) <= 2 * Total(S)
<1> DEFINE P == {T \in SUBSET S : Earned(T) \in Nat /\ Total(T) \in Nat /\ Earned(T) <= 2 * Total(T)}
<1>1. ASSUME NEW T \in SUBSET S, \A x \in T : T \ {x} \in P
      PROVE  T \in P
  <2>1. IsFiniteSet(T)
    BY FS_Subset
  <2>2. CASE T = {}
    <3>1. WithStatus(T, "pass") = {} /\ WithStatus(T, "warning") = {}
      BY <2>2 DEF WithStatus
    <3>2. Total({}) = 0
      BY <2>1, TotalPicked
    <3>3. Earned(T) = 0 /\ Total(T) = 0
      BY <2>2, <3>1, <3>2 DEF Earned
    <3>4. QED
      BY <3>3
  <2>3. CASE T # {}
    <3>1. PICK x \in T : TRUE
      BY <2>3
    <3> DEFINE U == T \ {x}
               weight == Weight(x.tool)
    <3>2. Earned(U) \in Nat /\ Total(U) \in Nat /\ Earned(U) <= 2 * Total(U)
      BY <1>1
    <3>3. Earned(T) \in Nat /\ Credit(x) \in 0..2 * weight /\ Earned(T) = Earned(U) + Credit(x)
      BY <2>1, EarnedParts
    <3>4. Total(T) = weight + Total(U)
      BY <2>1, TotalParts
    <3>5. weight \in Nat
      BY Weights
    <3> HIDE DEF U, weight
    <3>6. Total(T) \in Nat /\ Earned(T) <= 2 * Total(T)
      BY <3>2, <3>3, <3>4, <3>5
    <3>7. QED
      BY <3>3, <3>6
  <2>4. QED
    BY <2>2, <2>3
<1>2. \A T \in SUBSET S : T \in P
  <2> HIDE DEF P
  <2>1. QED
    BY <1>1, ByRemoval
<1>3. S \in P
  BY <1>2
<1>4. QED
  BY <1>3

\* Rounding keeps the order, and a whole number is rounded to itself.
LEMMA Division ==
  ASSUME NEW n \in Nat, NEW d \in Nat \ {0}
  PROVE  n \div d \in Nat /\ n % d \in 0..d - 1 /\ n = d * (n \div d) + (n % d)
<1>1. n \div d \in Nat
  OBVIOUS
<1>2. n % d \in 0..d - 1
  OBVIOUS
<1>3. n = d * (n \div d) + (n % d)
  OBVIOUS
<1>4. QED
  BY <1>1, <1>2, <1>3

LEMMA QuotientGrows ==
  ASSUME NEW d \in Nat \ {0}, NEW q \in Nat, NEW p \in Nat, NEW r \in 0..d - 1, NEW s \in 0..d - 1,
         d * q + r <= d * p + s
  PROVE  q < p \/ (q = p /\ r <= s)
<1>1. SUFFICES ASSUME p < q PROVE FALSE
  OBVIOUS
<1>2. PICK k \in Nat : q = p + 1 + k
  <2>1. q - p - 1 \in Nat /\ q = p + 1 + (q - p - 1)
    BY <1>1
  <2>2. QED
    BY <2>1
<1>3. d * q = d * p + d + d * k /\ d * k \in Nat /\ d * p \in Nat
  BY <1>2
<1>4. QED
  BY <1>3

LEMMA RoundedGrows ==
  ASSUME NEW d \in Nat \ {0}, NEW n \in Nat, NEW m \in Nat, n <= m
  PROVE  Rounded(n, d) \in Nat /\ Rounded(n, d) <= Rounded(m, d)
<1> DEFINE q == n \div d
           p == m \div d
           r == n % d
           s == m % d
<1>1. q \in Nat /\ r \in 0..d - 1 /\ n = d * q + r
  BY Division
<1>2. p \in Nat /\ s \in 0..d - 1 /\ m = d * p + s
  BY Division
<1>3. /\ Rounded(n, d) = IF 2 * r < d \/ (2 * r = d /\ q % 2 = 0) THEN q ELSE q + 1
      /\ Rounded(m, d) = IF 2 * s < d \/ (2 * s = d /\ p % 2 = 0) THEN p ELSE p + 1
  BY Zenon DEF Rounded
<1> HIDE DEF q, p, r, s
<1>4. q < p \/ (q = p /\ r <= s)
  BY <1>1, <1>2, QuotientGrows
<1>5. QED
  BY <1>1, <1>2, <1>3, <1>4

LEMMA WholeRounded ==
  ASSUME NEW d \in Nat \ {0}, NEW k \in Nat
  PROVE  Rounded(k * d, d) = k
<1> DEFINE q == (k * d) \div d
           r == (k * d) % d
<1>1. k * d \in Nat /\ k * d = d * k + 0
  OBVIOUS
<1>2. q \in Nat /\ r \in 0..d - 1 /\ k * d = d * q + r
  BY <1>1, Division
<1>3. Rounded(k * d, d) = IF 2 * r < d \/ (2 * r = d /\ q % 2 = 0) THEN q ELSE q + 1
  BY Zenon DEF Rounded
<1> HIDE DEF q, r
<1>4. q < k \/ (q = k /\ r <= 0)
  BY <1>1, <1>2, QuotientGrows
<1>5. k < q \/ (q = k /\ 0 <= r)
  BY <1>1, <1>2, QuotientGrows
<1>6. q = k /\ r = 0
  BY <1>2, <1>4, <1>5
<1>7. QED
  BY <1>3, <1>6

\* Results that are finitely many, none of which is another with a better status.
OnlyOnce(rs, r) ==
  \A status \in DOMAIN Worth :
    LET better == [r EXCEPT !.status = status]
    IN  better.tool = r.tool /\ better.status = status /\ (better \in rs => better = r)
Results(rs) == IsFiniteSet(rs) /\ \A r \in rs : r.status \in DOMAIN Worth => OnlyOnce(rs, r)

LEMMA ScoreIs ==
  ASSUME NEW rs
  PROVE  Score(rs) = IF Total(Scored(rs)) = 0 THEN 0
                     ELSE Rounded(100 * Earned(Scored(rs)), 2 * Total(Scored(rs)))
BY Zenon DEF Score, Total, Earned, WithStatus

LEMMA ScoreBound ==
  ASSUME NEW rs, IsFiniteSet(rs)
  PROVE  Score(rs) \in 0..100
<1> DEFINE total == Total(Scored(rs))
           earned == Earned(Scored(rs))
           d == 2 * total
<1>1. Scored(rs) \in SUBSET rs
  BY DEF Scored
<1>2. earned \in Nat /\ total \in Nat /\ earned <= 2 * total
  BY <1>1, FS_Subset, EarnedBound
<1>3. Score(rs) = IF total = 0 THEN 0 ELSE Rounded(100 * earned, d)
  BY ScoreIs
<1> HIDE DEF total, earned
<1>4. ASSUME total # 0
      PROVE  Rounded(100 * earned, d) \in 0..100
  <2>1. d \in Nat \ {0} /\ 100 * earned \in Nat /\ 100 * d \in Nat /\ 100 * earned <= 100 * d
    BY <1>2, <1>4
  <2> HIDE DEF d
  <2>2. Rounded(100 * d, d) = 100
    BY <2>1, WholeRounded
  <2>3. Rounded(100 * earned, d) \in Nat /\ Rounded(100 * earned, d) <= Rounded(100 * d, d)
    <3> DEFINE n == 100 * earned
               m == 100 * d
    <3>1. n \in Nat /\ m \in Nat /\ n <= m
      BY <2>1
    <3> HIDE DEF n, m
    <3>2. Rounded(n, d) \in Nat /\ Rounded(n, d) <= Rounded(m, d)
      BY <2>1, <3>1, RoundedGrows
    <3>3. QED
      BY <3>2 DEF n, m
  <2>4. QED
    BY <2>2, <2>3
<1>5. QED
  BY <1>3, <1>4

\* More earned of the same weight scores no less.
LEMMA ScoreGrows ==
  ASSUME NEW rs, NEW rt, IsFiniteSet(rs), IsFiniteSet(rt),
         Total(Scored(rs)) = Total(Scored(rt)), Earned(Scored(rs)) <= Earned(Scored(rt))
  PROVE  Score(rt) >= Score(rs)
<1> DEFINE total == Total(Scored(rs))
           n == 100 * Earned(Scored(rs))
           m == 100 * Earned(Scored(rt))
           d == 2 * total
<1>1. Scored(rs) \in SUBSET rs /\ Scored(rt) \in SUBSET rt
  BY DEF Scored
<1>2. total \in Nat /\ Earned(Scored(rs)) \in Nat /\ Earned(Scored(rt)) \in Nat
  BY <1>1, FS_Subset, EarnedBound
<1>3. n \in Nat /\ m \in Nat /\ n <= m
  BY <1>2
<1>4. /\ Score(rs) = IF total = 0 THEN 0 ELSE Rounded(n, d)
      /\ Score(rt) = IF total = 0 THEN 0 ELSE Rounded(m, d)
  BY ScoreIs
<1>5. Score(rs) \in 0..100 /\ Score(rt) \in 0..100
  BY ScoreBound
<1> HIDE DEF total, n, m
<1>6. CASE total = 0
  BY <1>4, <1>6
<1>7. CASE total # 0
  <2>1. d \in Nat \ {0}
    BY <1>2, <1>7
  <2> HIDE DEF d
  <2>2. Rounded(n, d) <= Rounded(m, d)
    BY <1>3, <2>1, RoundedGrows
  <2>3. QED
    BY <1>4, <1>5, <1>7, <2>2
<1>8. QED
  BY <1>6, <1>7

LEMMA BetterScores ==
  ASSUME NEW rs, Results(rs), NEW r \in rs, r.status \in DOMAIN Worth,
         NEW status \in DOMAIN Worth, Worth[status] >= Worth[r.status]
  PROVE  Score((rs \ {r}) \cup {[r EXCEPT !.status = status]}) >= Score(rs)
<1> DEFINE better == [r EXCEPT !.status = status]
           rt == (rs \ {r}) \cup {better}
           others == Scored(rs \ {r})
<1>1. better.tool = r.tool /\ better.status = status /\ (better \in rs => better = r)
  BY DEF Results, OnlyOnce
<1> HIDE DEF better
<1>2. IsFiniteSet(rs) /\ IsFiniteSet(rt)
  BY FS_RemoveElement, FS_AddElement DEF Results
<1>3. {r.status, status} \subseteq {"pass", "warning", "fail"}
  BY DEF Worth
<1>4. Credit(r) <= Credit(better)
  <2>1. Weight(r.tool) \in Nat
    BY Weights
  <2>2. Worth["pass"] = 3 /\ Worth["warning"] = 2 /\ Worth["fail"] = 1
    BY DEF Worth
  <2>3. QED
    BY <1>1, <1>3, <2>1, <2>2 DEF Credit
<1>5. CASE r.tool \in Excluded
  <2>1. Scored(rs) = Scored(rt)
    BY <1>1, <1>5 DEF Scored
  <2>2. IsFiniteSet(Scored(rs))
    <3>1. Scored(rs) \in SUBSET rs
      BY DEF Scored
    <3>2. QED
      BY <1>2, <3>1, FS_Subset
  <2>3. Earned(Scored(rs)) \in Nat
    BY <2>2, EarnedBound
  <2> HIDE DEF rt
  <2>4. QED
    BY <1>2, <2>1, <2>3, ScoreGrows DEF rt, better
<1>6. CASE r.tool \notin Excluded
  <2>1. /\ r \in Scored(rs) /\ Scored(rs) \ {r} = others
        /\ better \in Scored(rt) /\ Scored(rt) \ {better} = others
    BY <1>1, <1>3, <1>6 DEF Scored
  <2>2. IsFiniteSet(Scored(rs)) /\ IsFiniteSet(Scored(rt))
    <3>1. Scored(rs) \in SUBSET rs /\ Scored(rt) \in SUBSET rt
      BY DEF Scored
    <3>2. QED
      BY <1>2, <3>1, FS_Subset
  <2> HIDE DEF rt, others
  <2>3. Total(Scored(rs)) = Weight(r.tool) + Total(others)
    BY <2>1, <2>2, TotalParts
  <2>4. Total(Scored(rt)) = Weight(r.tool) + Total(others)
    BY <1>1, <2>1, <2>2, TotalParts
  <2>5. Earned(Scored(rs)) = Earned(others) + Credit(r) /\ Earned(others) \in Nat /\ Credit(r) \in Nat
    <3>1. Credit(r) \in Nat
      BY Weights DEF Credit
    <3>2. Earned(Scored(rs)) = Earned(Scored(rs) \ {r}) + Credit(r) /\ Earned(Scored(rs) \ {r}) \in Nat
      BY <2>1, <2>2, EarnedParts
    <3>3. QED
      BY <2>1, <3>1, <3>2, Zenon
  <2>6. Earned(Scored(rt)) = Earned(others) + Credit(better) /\ Credit(better) \in Nat
    BY <2>1, <2>2, EarnedParts, Weights
  <2>7. Earned(Scored(rs)) <= Earned(Scored(rt))
    BY <1>4, <2>5, <2>6
  <2>8. Score(rt) >= Score(rs)
    BY <1>2, <2>3, <2>4, <2>7, ScoreGrows
  <2>9. QED
    BY <2>8 DEF rt, better
<1>7. QED
  BY <1>5, <1>6

FairScore(rs) ==
  /\ Score(rs) \in 0..100
  /\ \A r \in rs : r.status = "error" => Score(rs \ {r}) = Score(rs)
  /\ \A r \in rs, s \in DOMAIN Worth :
       r.status \in DOMAIN Worth /\ Worth[s] >= Worth[r.status]
         => Score((rs \ {r}) \cup {[r EXCEPT !.status = s]}) >= Score(rs)

LEMMA ResultsFair ==
  ASSUME NEW rs, Results(rs)
  PROVE  FairScore(rs)
<1>1. Score(rs) \in 0..100
  BY ScoreBound DEF Results
<1>2. ASSUME NEW r \in rs, r.status = "error"
      PROVE  Score(rs \ {r}) = Score(rs)
  <2>1. Scored(rs \ {r}) = Scored(rs)
    BY <1>2 DEF Scored
  <2>2. QED
    BY <2>1, ScoreIs
<1>3. QED
  BY <1>1, <1>2, BetterScores, Zenon DEF FairScore

\* The results of an audit are such results.
LEMMA ValuesFinite ==
  ASSUME NEW S, IsFiniteSet(S), NEW f, DOMAIN f = S
  PROVE  IsFiniteSet({f[x] : x \in S})
<1> DEFINE T == {f[x] : x \in S}
           g == [x \in S |-> f[x]]
<1>1. g \in Surjection(S, T)
  BY DEF Surjection
<1> HIDE DEF g, T
<1>2. QED
  BY <1>1, FS_Surjection DEF T

LEMMA ListFinite ==
  ASSUME NEW n \in Nat, NEW f, DOMAIN f = 1..n,
         NEW S, S \subseteq {f[i] : i \in 1..n}
  PROVE  IsFiniteSet(S)
<1>1. IsFiniteSet(1..n)
  BY FS_Interval
<1>2. IsFiniteSet({f[i] : i \in 1..n})
  BY <1>1, ValuesFinite
<1>3. QED
  BY <1>2, FS_Subset

LEMMA TasksFinite ==
  ASSUME NEW c \in DOMAIN Tasks
  PROVE  IsFiniteSet(Tasks[c])
<1>1. CASE c = "crawlability"
  <2> DEFINE f == <<"robots", "http_status", "redirect", "broken_links", "internal_links", "sitemap",
                    "canonical", "meta_robots", "hreflang", "ttfb", "url_structure", "canonical_loop">>
  <2>1. DOMAIN f = 1..12 /\ Tasks[c] \subseteq {f[i] : i \in 1..12}
    BY <1>1 DEF Tasks
  <2> HIDE DEF f
  <2>2. QED
    BY <2>1, ListFinite
<1>2. CASE c = "on_page"
  <2> DEFINE f == <<"title", "meta_description", "headings", "image_alt", "word_count", "readability",
                    "schema", "og_tags", "viewport", "lang_attr", "content_freshness">>
  <2>1. DOMAIN f = 1..11 /\ Tasks[c] \subseteq {f[i] : i \in 1..11}
    BY <1>2 DEF Tasks
  <2> HIDE DEF f
  <2>2. QED
    BY <2>1, ListFinite
<1>3. CASE c = "site_health"
  <2> DEFINE f == <<"ssl", "domain_age", "mixed_content", "https_enforcement", "security_headers",
                    "spf", "dmarc", "mx_records", "favicon", "dns_health", "www_redirect", "http2">>
  <2>1. DOMAIN f = 1..12 /\ Tasks[c] \subseteq {f[i] : i \in 1..12}
    BY <1>3 DEF Tasks
  <2> HIDE DEF f
  <2>2. QED
    BY <2>1, ListFinite
<1>4. CASE c = "performance"
  <2> DEFINE f == <<"render_blocking", "image_optimization", "pagespeed_mobile", "pagespeed_desktop",
                    "mobile", "gsc_crawl_inspection", "lcp", "cls", "fcp", "inp">>
  <2>1. DOMAIN f = 1..10 /\ Tasks[c] \subseteq {f[i] : i \in 1..10}
    BY <1>4 DEF Tasks
  <2> HIDE DEF f
  <2>2. QED
    BY <2>1, ListFinite
<1>5. CASE c = "search_console"
  <2> DEFINE f == <<"clicks_impressions", "top_queries", "position_tracker", "ctr_analyzer",
                    "coverage_errors", "sitemaps_status", "manual_actions">>
  <2>1. DOMAIN f = 1..7 /\ Tasks[c] \subseteq {f[i] : i \in 1..7}
    BY <1>5 DEF Tasks
  <2> HIDE DEF f
  <2>2. QED
    BY <2>1, ListFinite
<1>6. CASE c = "authority"
  <2> DEFINE f == <<"backlinks", "domain_authority", "page_authority", "referring_domains",
                    "domain_rank", "broken_backlinks", "nofollow_ratio", "spam_score">>
  <2>1. DOMAIN f = 1..8 /\ Tasks[c] \subseteq {f[i] : i \in 1..8}
    BY <1>6 DEF Tasks
  <2> HIDE DEF f
  <2>2. QED
    BY <2>1, ListFinite
<1>7. CASE c = "rankings"
  <2> DEFINE f == <<"rank_tracker", "serp_features", "competitor", "rank_change", "traffic_share">>
  <2>1. DOMAIN f = 1..5 /\ Tasks[c] \subseteq {f[i] : i \in 1..5}
    BY <1>7 DEF Tasks
  <2> HIDE DEF f
  <2>2. QED
    BY <2>1, ListFinite
<1>8. c \in {"crawlability", "on_page", "site_health", "performance", "search_console", "authority", "rankings"}
  BY DEF Tasks
<1>9. QED
  BY <1>1, <1>2, <1>3, <1>4, <1>5, <1>6, <1>7, <1>8

\* What an audit may run, and what it makes of it.
AllTasks == UNION {Tasks[c] : c \in DOMAIN Tasks}
Chosen(c) == UNION {Run(c, u) : u \in Active(c)}

LEMMA AllTasksFinite == IsFiniteSet(AllTasks)
<1>1. AllTasks = Tasks["crawlability"] \cup Tasks["on_page"] \cup Tasks["site_health"]
                 \cup Tasks["performance"] \cup Tasks["search_console"] \cup Tasks["authority"]
                 \cup Tasks["rankings"]
  <2>1. DOMAIN Tasks = {"crawlability", "on_page", "site_health", "performance", "search_console",
                        "authority", "rankings"}
    BY DEF Tasks
  <2>2. QED
    BY <2>1 DEF AllTasks
<1>2. {"crawlability", "on_page", "site_health", "performance", "search_console", "authority",
       "rankings"} \subseteq DOMAIN Tasks
  BY DEF Tasks
<1> DEFINE Finite(u) == IsFiniteSet(Tasks[u])
<1>3. /\ Finite("crawlability") /\ Finite("on_page") /\ Finite("site_health")
      /\ Finite("performance") /\ Finite("search_console") /\ Finite("authority") /\ Finite("rankings")
  BY <1>2, TasksFinite
<1>4. QED
  BY <1>1, <1>3, FS_Union, Zenon

LEMMA RunIs ==
  ASSUME NEW c, NEW u \in DOMAIN Tasks
  PROVE  /\ Run(c, u) \subseteq Tasks[u]
         /\ "rank_tracker" \in Run(c, u) => u = "rankings" /\ c.keywords
<1>1. Performed(c) \subseteq Tasks["performance"]
  BY DEF Performed, Tasks
<1>2. Run(c, u) \subseteq Tasks[u]
  BY <1>1 DEF Run, Kept
<1>3. ASSUME "rank_tracker" \in Tasks[u] PROVE u = "rankings"
  BY <1>3 DEF Tasks
<1>4. ASSUME u = "rankings", "rank_tracker" \in Run(c, u) PROVE c.keywords
  BY <1>4 DEF Run, Kept
<1>5. QED
  BY <1>2, <1>3, <1>4

LEMMA ActiveIs ==
  ASSUME NEW c, c.cases \subseteq UseCases
  PROVE  Active(c) \subseteq DOMAIN Tasks
<1>1. Technical \subseteq DOMAIN Tasks
  BY DEF Technical, Tasks
<1>2. QED
  BY <1>1 DEF Active, UseCases

LEMMA ChosenIs ==
  ASSUME NEW c, c.cases \subseteq UseCases
  PROVE  /\ IsFiniteSet(Chosen(c))
         /\ "rank_tracker" \in Chosen(c) => c.keywords
<1>1. \A u \in Active(c) : u \in DOMAIN Tasks
  BY ActiveIs
<1>2. \A u \in Active(c) : Run(c, u) \subseteq AllTasks
  BY <1>1, RunIs DEF AllTasks
<1>3. Chosen(c) \in SUBSET AllTasks
  BY <1>2 DEF Chosen
<1>4. IsFiniteSet(Chosen(c))
  BY <1>3, AllTasksFinite, FS_Subset
<1>5. ASSUME "rank_tracker" \in Chosen(c) PROVE c.keywords
  <2>1. PICK u \in Active(c) : "rank_tracker" \in Run(c, u)
    BY <1>5 DEF Chosen
  <2>2. QED
    BY <1>1, <2>1, RunIs
<1>6. QED
  BY <1>4, <1>5

LEMMA UnrankedIs ==
  ASSUME NEW c, NEW t \in Unranked(c)
  PROVE  t = "rank_tracker" /\ ~c.keywords
BY DEF Unranked, Kept

\* A result that is no error is that of a check under its name.
LEMMA ResultIs ==
  ASSUME NEW t, NEW v, NEW r, r = ResultOf(t, v), r.status # "error"
  PROVE  r = [tool |-> t, of |-> t, status |-> v]
BY DEF ResultOf

LEMMA AuditIs ==
  ASSUME NEW c, c.public = TRUE, NEW r \in Audit(c), r.status # "error"
  PROVE  \/ \E t \in Chosen(c) : r = [tool |-> t, of |-> t, status |-> c.verdict[t]]
         \/ "rank_tracker" \in Unranked(c) /\ r = [tool |-> "rank_tracker", of |-> "rank_tracker", status |-> "warning"]
<1>1. r \in Checked(c)
  BY DEF Audit
<1>2. CASE \E t \in Chosen(c) : r = ResultOf(t, c.verdict[t])
  BY <1>2, ResultIs
<1>3. CASE \E t \in Unranked(c) : r = ResultOf(t, "warning")
  BY <1>3, ResultIs, UnrankedIs
<1>4. QED
  BY <1>1, <1>2, <1>3 DEF Checked, Chosen

LEMMA AuditFinite ==
  ASSUME NEW c, c.public = TRUE, c.cases \subseteq UseCases
  PROVE  IsFiniteSet(Audit(c))
<1> DEFINE f == [t \in Chosen(c) |-> ResultOf(t, c.verdict[t])]
           g == [t \in Unranked(c) |-> ResultOf(t, "warning")]
           h == [u \in Missing(c) |-> [tool |-> "setup", of |-> u, status |-> "error"]]
<1>1. Audit(c) = ({f[t] : t \in Chosen(c)} \cup {g[t] : t \in Unranked(c)}) \cup {h[u] : u \in Missing(c)}
  BY DEF Audit, Checked, Chosen
<1>2. IsFiniteSet(Chosen(c))
  BY ChosenIs
<1>3. IsFiniteSet(Unranked(c))
  <2>1. IsFiniteSet({"rank_tracker"}) /\ Unranked(c) \in SUBSET {"rank_tracker"}
    BY FS_Singleton, UnrankedIs
  <2>2. QED
    BY <2>1, FS_Subset
<1>4. IsFiniteSet(Missing(c))
  <2> DEFINE k == <<"performance", "search_console", "rankings">>
  <2>1. DOMAIN k = 1..3 /\ Missing(c) \subseteq {k[i] : i \in 1..3}
    BY DEF Missing, Requires
  <2> HIDE DEF k
  <2>2. QED
    BY <2>1, ListFinite
<1>5. DOMAIN f = Chosen(c) /\ DOMAIN g = Unranked(c) /\ DOMAIN h = Missing(c)
  OBVIOUS
<1> HIDE DEF f, g, h
<1>6. /\ IsFiniteSet({f[t] : t \in Chosen(c)}) /\ IsFiniteSet({g[t] : t \in Unranked(c)})
      /\ IsFiniteSet({h[u] : u \in Missing(c)})
  BY <1>2, <1>3, <1>4, <1>5, ValuesFinite
<1>7. QED
  BY <1>1, <1>6, FS_Union

LEMMA AuditResults ==
  ASSUME NEW c, c.public = TRUE, c.cases \subseteq UseCases
  PROVE  Results(Audit(c))
<1>1. ASSUME NEW r \in Audit(c), r.status \in DOMAIN Worth, NEW status \in DOMAIN Worth
      PROVE  /\ [r EXCEPT !.status = status].tool = r.tool
             /\ [r EXCEPT !.status = status].status = status
             /\ [r EXCEPT !.status = status] \in Audit(c) => [r EXCEPT !.status = status] = r
  <2>1. "error" \notin DOMAIN Worth
    BY DEF Worth
  <2>2. PICK t, v : /\ r = [tool |-> t, of |-> t, status |-> v]
                    /\ \/ t \in Chosen(c) /\ v = c.verdict[t]
                       \/ t = "rank_tracker" /\ t \in Unranked(c) /\ v = "warning"
    BY <1>1, <2>1, AuditIs
  <2> DEFINE better == [tool |-> t, of |-> t, status |-> status]
  <2>3. [r EXCEPT !.status = status] = better
    BY <2>2
  <2>4. ASSUME better \in Audit(c) PROVE better = r
    <3>1. better.status # "error"
      BY <2>1
    <3>2. PICK u, w : /\ better = [tool |-> u, of |-> u, status |-> w]
                      /\ \/ u \in Chosen(c) /\ w = c.verdict[u]
                         \/ u = "rank_tracker" /\ u \in Unranked(c) /\ w = "warning"
      BY <2>4, <3>1, AuditIs
    <3>3. u = t /\ w = status
      BY <3>2
    <3>4. v = w
      BY <2>2, <3>2, <3>3, ChosenIs, UnrankedIs
    <3>5. QED
      BY <2>2, <3>3, <3>4
  <2>5. QED
    BY <2>2, <2>3, <2>4
<1>2. IsFiniteSet(Audit(c))
  BY AuditFinite
<1>3. QED
  BY <1>1, <1>2, Zenon DEF Results, OnlyOnce

LEMMA EntriesResults ==
  ASSUME NEW audit, IsFiniteSet(DOMAIN audit)
  PROVE  Results(Entries(audit))
<1> DEFINE f == [t \in DOMAIN audit |-> [tool |-> t, status |-> audit[t]]]
<1>1. IsFiniteSet(Entries(audit))
  <2>1. DOMAIN f = DOMAIN audit /\ Entries(audit) = {f[t] : t \in DOMAIN audit}
    BY DEF Entries
  <2> HIDE DEF f
  <2>2. QED
    BY <2>1, ValuesFinite
<1>2. ASSUME NEW r \in Entries(audit), NEW status
      PROVE  /\ [r EXCEPT !.status = status].tool = r.tool
             /\ [r EXCEPT !.status = status].status = status
             /\ [r EXCEPT !.status = status] \in Entries(audit) => [r EXCEPT !.status = status] = r
  <2>1. PICK t \in DOMAIN audit : r = [tool |-> t, status |-> audit[t]]
    BY DEF Entries
  <2> DEFINE better == [tool |-> t, status |-> status]
  <2>2. [r EXCEPT !.status = status] = better
    BY <2>1
  <2>3. ASSUME better \in Entries(audit) PROVE better = r
    <3>1. PICK u \in DOMAIN audit : better = [tool |-> u, status |-> audit[u]]
      BY <2>3 DEF Entries
    <3>2. u = t /\ audit[u] = status
      BY <3>1
    <3>3. QED
      BY <2>1, <3>2
  <2>4. QED
    BY <2>1, <2>2, <2>3
<1>3. QED
  BY <1>1, <1>2, Zenon DEF Results, OnlyOnce

-----------------------------------------------------------------------------
\* The audits put to the score have finitely many results, the requests name use
\* cases that there are.
AuditsInv ==
  /\ case.kind = "audits" => IsFiniteSet(DOMAIN case.curr)
  /\ case.kind = "request" => case.public = TRUE /\ case.cases \subseteq UseCases

LEMMA AuditsStep ==
  ASSUME AuditsInv, [CaseNext]_case
  PROVE  AuditsInv'
<1>1. CASE PutAudits
  <2>1. PICK T \in SUBSET ScoredTools : \E curr \in [T -> CheckStatus \ {"crash"}] :
          case'.kind = "audits" /\ case'.curr = curr
    BY <1>1 DEF PutAudits
  <2>2. case'.kind = "audits" /\ DOMAIN case'.curr = T
    BY <2>1
  <2>3. IsFiniteSet(T)
    BY AuditsAssumption, FS_Subset
  <2>4. QED
    BY <2>2, <2>3 DEF AuditsInv
<1>2. CASE PutRequest
  <2>1. PICK cases \in UseCaseSets : case'.kind = "request" /\ case'.public = TRUE /\ case'.cases = cases
    BY <1>2 DEF PutRequest
  <2>2. QED
    BY <2>1, AuditsAssumption DEF AuditsInv
<1>3. CASE PutLadder
  BY <1>3 DEF PutLadder, AuditsInv
<1>4. CASE PutCanonicals
  BY <1>4 DEF PutCanonicals, AuditsInv
<1>5. CASE PutNetwork
  BY <1>5 DEF PutNetwork, AuditsInv
<1>6. CASE case' = NoCase
  BY <1>6 DEF NoCase, AuditsInv
<1>7. CASE UNCHANGED case
  BY <1>7 DEF AuditsInv
<1>8. QED
  BY <1>1, <1>2, <1>3, <1>4, <1>5, <1>6, <1>7 DEF CaseNext

LEMMA Symmetric == ComparisonSymmetric
<1>1. Resolved(case.prev, case.curr) = NewIssues(case.curr, case.prev)
  BY DEF Resolved, NewIssues
<1>2. ASSUME NEW t \in Resolved(case.prev, case.curr), t \in NewIssues(case.prev, case.curr)
      PROVE  FALSE
  BY <1>2 DEF Resolved, NewIssues, StatusIn, Bad
<1>3. QED
  BY <1>1, <1>2 DEF ComparisonSymmetric

LEMMA CaseFair ==
  ASSUME AuditsInv
  PROVE  AuditsFair
<1> DEFINE rs == IF case.kind = "audits" THEN Entries(case.curr) ELSE Audit(case)
<1>1. ASSUME case.kind \in {"audits", "request"}
      PROVE  FairScore(rs)
  <2>1. CASE case.kind = "audits"
    <3>1. FairScore(Entries(case.curr))
      BY <2>1, EntriesResults, ResultsFair DEF AuditsInv
    <3>2. QED
      BY <2>1, <3>1
  <2>2. CASE case.kind = "request"
    <3>1. FairScore(Audit(case))
      BY <2>2, AuditResults, ResultsFair DEF AuditsInv
    <3>2. QED
      BY <2>2, <3>1
  <2>3. QED
    BY <1>1, <2>1, <2>2
<1>2. ScoreFair
  BY <1>1, Zenon DEF ScoreFair, FairScore
<1>3. QED
  BY <1>2, Symmetric DEF AuditsFair

\* calc_seo_score is between 0 and 100, ignores a check that could not run, and never
\* falls because a result got better, for every audit of any tools and every request
\* that audit_single_url is given; and compare_audits contradicts itself on no pair.
THEOREM FairAudits == CaseSpec => []AuditsFair
<1>1. CaseInit => AuditsInv
  BY DEF CaseInit, AuditsInv, NoCase
<1>2. AuditsInv /\ [CaseNext]_case => AuditsInv'
  BY AuditsStep
<1>3. AuditsInv => AuditsFair
  BY CaseFair
<1>4. QED
  BY <1>1, <1>2, <1>3, PTL DEF CaseSpec

-----------------------------------------------------------------------------
(* A worse page, answer or file is given no better verdict (module          *)
(* Worsening says what is worse).  A check that compares counts and shares  *)
(* with thresholds is followed to the numbers it compares.                  *)

\* w is not the better verdict; an error is none, and compares with nothing.
NotBetter(v, w) == {v, w} \subseteq DOMAIN Rank => Rank[w] <= Rank[v]

LEMMA Ranked ==
  \A v \in {"pass", "warning", "fail", "error", "crash"} :
    /\ NotBetter("pass", v) /\ NotBetter(v, v) /\ NotBetter(v, "fail")
    /\ \A w \in {"error", "crash"} : NotBetter(v, w) /\ NotBetter(w, v)
  BY DEF NotBetter, Rank

\* No fewer conditions, and each at least as often.
LEMMA HowManyGrows ==
  ASSUME NEW a, NEW b, IsFiniteSet(DOMAIN b), DOMAIN a \subseteq DOMAIN b,
         \A i \in DOMAIN a : a[i] => b[i]
  PROVE  HowMany(a) \in Nat /\ HowMany(b) \in Nat /\ HowMany(a) <= HowMany(b)
<1> DEFINE A == {i \in DOMAIN a : a[i]}
           B == {i \in DOMAIN b : b[i]}
<1>1. A \subseteq B /\ B \subseteq DOMAIN b
  OBVIOUS
<1>2. IsFiniteSet(B)
  BY <1>1, FS_Subset
<1>3. IsFiniteSet(A) /\ Cardinality(A) <= Cardinality(B)
  BY <1>1, <1>2, FS_Subset
<1>4. Cardinality(A) \in Nat /\ Cardinality(B) \in Nat
  BY <1>2, <1>3, FS_CardinalityType
<1>5. QED
  BY <1>3, <1>4 DEF HowMany

LEMMA UpToFinite ==
  ASSUME NEW n \in Nat
  PROVE  IsFiniteSet(1..n)
  BY FS_Interval

\* Of three, four or six conditions.
LEMMA OfThree ==
  ASSUME NEW a, NEW b, NEW c, NEW x, NEW y, NEW z, a => x, b => y, c => z
  PROVE  /\ HowMany(<<a, b, c>>) \in Nat /\ HowMany(<<x, y, z>>) \in Nat
         /\ HowMany(<<a, b, c>>) <= HowMany(<<x, y, z>>)
<1>1. DOMAIN <<a, b, c>> = 1..3 /\ DOMAIN <<x, y, z>> = 1..3
  OBVIOUS
<1>2. \A i \in 1..3 : <<a, b, c>>[i] => <<x, y, z>>[i]
  OBVIOUS
<1>3. PICK n \in Nat : n = 3
  OBVIOUS
<1> QED
  BY <1>1, <1>2, <1>3, UpToFinite, HowManyGrows

LEMMA OfSix ==
  ASSUME NEW a, NEW b, NEW c, NEW d, NEW e, NEW f,
         NEW u, NEW v, NEW w, NEW x, NEW y, NEW z,
         a => u, b => v, c => w, d => x, e => y, f => z
  PROVE  /\ HowMany(<<a, b, c, d, e, f>>) \in Nat /\ HowMany(<<u, v, w, x, y, z>>) \in Nat
         /\ HowMany(<<a, b, c, d, e, f>>) <= HowMany(<<u, v, w, x, y, z>>)
<1>1. DOMAIN <<a, b, c, d, e, f>> = 1..6 /\ DOMAIN <<u, v, w, x, y, z>> = 1..6
  OBVIOUS
<1>2. \A i \in 1..6 : <<a, b, c, d, e, f>>[i] => <<u, v, w, x, y, z>>[i]
  OBVIOUS
<1>3. PICK n \in Nat : n = 6
  OBVIOUS
<1> QED
  BY <1>1, <1>2, <1>3, UpToFinite, HowManyGrows

LEMMA OfFour ==
  ASSUME NEW a, NEW b, NEW c, NEW d, NEW w, NEW x, NEW y, NEW z, a => w, b => x, c => y, d => z
  PROVE  /\ HowMany(<<a, b, c, d>>) \in Nat /\ HowMany(<<w, x, y, z>>) \in Nat
         /\ HowMany(<<a, b, c, d>>) <= HowMany(<<w, x, y, z>>)
<1>1. DOMAIN <<a, b, c, d>> = 1..4 /\ DOMAIN <<w, x, y, z>> = 1..4
  OBVIOUS
<1>2. \A i \in 1..4 : <<a, b, c, d>>[i] => <<w, x, y, z>>[i]
  OBVIOUS
<1>3. PICK n \in Nat : n = 4
  OBVIOUS
<1> QED
  BY <1>1, <1>2, <1>3, UpToFinite, HowManyGrows

-----------------------------------------------------------------------------
(* The checks of a site and of a page.                                      *)

LEMMA UrlWorse ==
  ASSUME NEW p, NEW q, WorseSite("url_structure", p, q)
  PROVE  NotBetter(url_structure(p), url_structure(q))
<1> DEFINE issues(x) ==
             HowMany(<<x.length > 115, x.uppercase, x.params > 3, x.session, x.digits >= 8, x.underscore /\ ~x.hyphen>>)
<1>1. issues(p) \in Nat /\ issues(q) \in Nat /\ issues(p) <= issues(q)
  <2>1. /\ p.length > 115 => q.length > 115
        /\ p.params > 3 => q.params > 3
        /\ p.digits >= 8 => q.digits >= 8
    BY DEF WorseSite, Up
  <2>2. p.uppercase => q.uppercase
    BY DEF WorseSite, Gained
  <2>3. p.session => q.session
    BY DEF WorseSite, Gained
  <2>4. p.underscore /\ ~p.hyphen => q.underscore /\ ~q.hyphen
    BY DEF WorseSite, Gained, Lost
  <2> DEFINE a(x) == x.length > 115
             b(x) == x.params > 3
             c(x) == x.digits >= 8
             d(x) == x.underscore /\ ~x.hyphen
  <2>5. a(p) => a(q)
    BY <2>1
  <2>6. b(p) => b(q)
    BY <2>1
  <2>7. c(p) => c(q)
    BY <2>1
  <2>8. d(p) => d(q)
    BY <2>4
  <2>9. /\ issues(p) = HowMany(<<a(p), p.uppercase, b(p), p.session, c(p), d(p)>>)
        /\ issues(q) = HowMany(<<a(q), q.uppercase, b(q), q.session, c(q), d(q)>>)
    BY Zenon
  <2> HIDE DEF a, b, c, d, issues
  <2>10. QED
    BY <2>2, <2>3, <2>5, <2>6, <2>7, <2>8, <2>9, OfSix
<1>2. /\ url_structure(p) = Graded(issues(p) > 2, issues(p) > 0)
      /\ url_structure(q) = Graded(issues(q) > 2, issues(q) > 0)
  BY Zenon DEF url_structure
<1> HIDE DEF issues
<1>3. PICK k \in Nat, l \in Nat : k = issues(p) /\ l = issues(q) /\ k <= l
  BY <1>1
<1>4. QED
  BY <1>2, <1>3, Ranked DEF Graded

LEMMA AgeWorse ==
  ASSUME NEW p, NEW q, WorseSite("domain_age", p, q)
  PROVE  NotBetter(domain_age(p), domain_age(q))
<1>1. PICK k \in Nat, l \in Nat : p.days = k /\ q.days = l /\ l <= k
  BY DEF WorseSite, Down, Up
<1>2. PICK x \in Nat, y \in Nat : x = Rounded(10 * k, 365) /\ y = Rounded(10 * l, 365) /\ y <= x
  <2>1. 10 * k \in Nat /\ 10 * l \in Nat /\ 10 * l <= 10 * k
    BY <1>1
  <2>2. Rounded(10 * k, 365) \in Nat /\ Rounded(10 * l, 365) \in Nat
    BY <2>1, RoundedGrows
  <2>3. QED
    BY <2>1, <2>2, RoundedGrows
<1>3. p.lib = q.lib /\ p.whois = q.whois /\ p.dated = q.dated
  BY DEF WorseSite
<1>4. QED
  BY <1>1, <1>2, <1>3, Ranked DEF domain_age, Graded, Having

LEMMA DnsWorse ==
  ASSUME NEW p, NEW q, WorseSite("dns_health", p, q)
  PROVE  NotBetter(dns_health(p), dns_health(q))
<1> DEFINE lost == {"none", "failed"}
           issues(x) == HowMany(<<x.mx \in lost, x.spf \in lost, x.dmarc \in lost>>)
<1>1. issues(p) \in Nat /\ issues(q) \in Nat /\ issues(p) <= issues(q)
  <2>1. p.mx \in lost => q.mx \in lost
    BY DEF WorseSite
  <2>2. p.spf \in lost => q.spf \in lost
    BY DEF WorseSite
  <2>3. p.dmarc \in lost => q.dmarc \in lost
    BY DEF WorseSite
  <2>4. QED
    BY <2>1, <2>2, <2>3, OfThree
<1>2. dns_health(p) = Having(p.lib, Graded(issues(p) >= 2, issues(p) = 1))
      /\ dns_health(q) = Having(q.lib, Graded(issues(q) >= 2, issues(q) = 1))
  BY Zenon DEF dns_health
<1>3. p.lib = q.lib
  BY DEF WorseSite
<1> HIDE DEF issues
<1>4. PICK k \in Nat, l \in Nat : k = issues(p) /\ l = issues(q) /\ k <= l
  BY <1>1
<1>5. QED
  BY <1>2, <1>3, <1>4, Ranked DEF Graded, Having

LEMMA SiteVerdicts ==
  ASSUME NEW p
  PROVE
    /\ VerdictOf("robots", p) = robots(p)
    /\ VerdictOf("http_status", p) = http_status(p)
    /\ VerdictOf("sitemap", p) = sitemap(p)
    /\ VerdictOf("ttfb", p) = ttfb(p)
    /\ VerdictOf("url_structure", p) = url_structure(p)
    /\ VerdictOf("ssl", p) = ssl(p)
    /\ VerdictOf("domain_age", p) = domain_age(p)
    /\ VerdictOf("https_enforcement", p) = https_enforcement(p)
    /\ VerdictOf("security_headers", p) = security_headers(p)
    /\ VerdictOf("spf", p) = spf(p)
    /\ VerdictOf("mx_records", p) = mx_records(p)
    /\ VerdictOf("dmarc", p) = dmarc(p)
    /\ VerdictOf("dns_health", p) = dns_health(p)
    /\ VerdictOf("www_redirect", p) = www_redirect(p)
    /\ VerdictOf("http2", p) = http2(p)
  BY DEF VerdictOf

\* A site that is worse in what a check of it reads gets no better verdict.
LEMMA SiteWorse ==
  ASSUME NEW c \in SiteChecks, NEW p, NEW q, WorseSite(c, p, q)
  PROVE  NotBetter(VerdictOf(c, p), VerdictOf(c, q))
<1>1. ASSUME WorseSite("robots", p, q)
      PROVE  NotBetter(robots(p), robots(q))
  BY <1>1, Ranked DEF WorseSite, robots, Lost
<1>2. ASSUME WorseSite("http_status", p, q)
      PROVE  NotBetter(http_status(p), http_status(q))
  BY <1>2, Ranked DEF WorseSite, http_status, Upon, Seen
<1>3. ASSUME WorseSite("sitemap", p, q)
      PROVE  NotBetter(sitemap(p), sitemap(q))
  BY <1>3, Ranked DEF WorseSite, sitemap, Upon, Up, Gained, Graded
<1>4. ASSUME WorseSite("ttfb", p, q)
      PROVE  NotBetter(ttfb(p), ttfb(q))
  BY <1>4, Ranked DEF WorseSite, ttfb, Upon, Up, Graded
<1>5. ASSUME WorseSite("url_structure", p, q)
      PROVE  NotBetter(url_structure(p), url_structure(q))
  BY <1>5, UrlWorse
<1>6. ASSUME WorseSite("ssl", p, q)
      PROVE  NotBetter(ssl(p), ssl(q))
  BY <1>6, Ranked DEF WorseSite, ssl, Graded, Lost, Down, Up
<1>7. ASSUME WorseSite("domain_age", p, q)
      PROVE  NotBetter(domain_age(p), domain_age(q))
  BY <1>7, AgeWorse
<1>8. ASSUME WorseSite("https_enforcement", p, q)
      PROVE  NotBetter(https_enforcement(p), https_enforcement(q))
  BY <1>8, Ranked DEF WorseSite, https_enforcement, Upon, Graded, Lost
<1>9. ASSUME WorseSite("security_headers", p, q)
      PROVE  NotBetter(security_headers(p), security_headers(q))
  BY <1>9, Ranked DEF WorseSite, security_headers, Upon, Graded, Up
<1>10. ASSUME WorseSite("spf", p, q)
      PROVE  NotBetter(spf(p), spf(q))
  BY <1>10, Ranked DEF WorseSite, spf, Looked, Having, Later
<1>11. ASSUME WorseSite("mx_records", p, q)
      PROVE  NotBetter(mx_records(p), mx_records(q))
  BY <1>11, Ranked DEF WorseSite, mx_records, Looked, Having, Later
<1>12. ASSUME WorseSite("dmarc", p, q)
      PROVE  NotBetter(dmarc(p), dmarc(q))
  BY <1>12, Ranked DEF WorseSite, dmarc, Looked, Having, Later
<1>13. ASSUME WorseSite("dns_health", p, q)
      PROVE  NotBetter(dns_health(p), dns_health(q))
  BY <1>13, DnsWorse
<1>14. ASSUME WorseSite("www_redirect", p, q)
      PROVE  NotBetter(www_redirect(p), www_redirect(q))
  BY <1>14, Ranked DEF WorseSite, www_redirect, Graded, Later
<1>15. ASSUME WorseSite("http2", p, q)
      PROVE  NotBetter(http2(p), http2(q))
  BY <1>15, Ranked DEF WorseSite, http2, Having, Graded, Lost
<1>16. QED
  BY <1>1, <1>2, <1>3, <1>4, <1>5, <1>6, <1>7, <1>8, <1>9, <1>10, <1>11, <1>12, <1>13, <1>14,
     <1>15, SiteVerdicts DEF SiteChecks

LEMMA BrokenWorse ==
  ASSUME NEW p, NEW q, WorsePage("broken_links", p, q)
  PROVE  NotBetter(broken_links(p), broken_links(q))
<1>1. /\ p.fetched = q.fetched /\ p.anchors = q.anchors
      /\ \A l \in Tried(p.anchors) : q.answer[l] \in {p.answer[l], 404}
  BY DEF WorsePage
<1>2. PICK T : T = Tried(p.anchors)
  OBVIOUS
<1>3. \A l \in T : q.answer[l] \in {p.answer[l], 404}
  BY <1>1, <1>2
<1>4. QED
  BY <1>1, <1>2, <1>3, Ranked DEF broken_links, OnPage, Having, Graded

LEMMA TitleWorse ==
  ASSUME NEW p, NEW q, WorsePage("title", p, q)
  PROVE  NotBetter(title(p), title(q))
<1>1. PICK k \in Nat, l \in Nat : p.length = k /\ q.length = l /\ k <= l /\ k >= 30
  BY DEF WorsePage, Up
<1>2. p.fetched = q.fetched
  BY DEF WorsePage
<1>3. QED
  BY <1>1, <1>2, Ranked DEF title, OnPage, Having, Graded

LEMMA DescriptionWorse ==
  ASSUME NEW p, NEW q, WorsePage("meta_description", p, q)
  PROVE  NotBetter(meta_description(p), meta_description(q))
<1>1. PICK k \in Nat, l \in Nat, m \in Nat, n \in Nat :
        /\ p.wide = k /\ q.wide = l /\ l <= k /\ p.narrow = m /\ q.narrow = n /\ n <= m
        /\ 28 * k + 15 * m <= 2 * 920
  BY DEF WorsePage, Up, Down
<1>2. PICK x \in Nat, y \in Nat : x = 28 * k + 15 * m /\ y = 28 * l + 15 * n /\ y <= x /\ x <= 920 * 2
  BY <1>1
<1>3. PICK s \in Nat, t \in Nat : s = Rounded(x, 2) /\ t = Rounded(y, 2) /\ t <= s /\ s <= 920
  <2>1. PICK d \in Nat \ {0} : d = 2
    OBVIOUS
  <2>2. Rounded(x, d) \in Nat /\ Rounded(y, d) \in Nat /\ Rounded(y, d) <= Rounded(x, d)
    BY <1>2, RoundedGrows
  <2>3. 920 * d \in Nat /\ x <= 920 * d
    BY <1>2, <2>1
  <2>4. Rounded(x, d) <= Rounded(920 * d, d) /\ Rounded(920 * d, d) = 920
    BY <2>3, RoundedGrows, WholeRounded
  <2>5. QED
    BY <2>1, <2>2, <2>4
<1>4. /\ p.wide + p.narrow = k + m /\ q.wide + q.narrow = l + n /\ l + n <= k + m
      /\ k + m \in Nat /\ l + n \in Nat
  BY <1>1
<1>5. p.fetched = q.fetched
  BY DEF WorsePage
<1>6. /\ meta_description(p) = OnPage(p, Graded(k + m = 0, s \notin 430..920))
      /\ meta_description(q) = OnPage(q, Graded(l + n = 0, t \notin 430..920))
  BY <1>1, <1>2, <1>3, <1>4 DEF meta_description
<1>7. QED
  BY <1>3, <1>4, <1>5, <1>6, Ranked DEF OnPage, Having, Graded

LEMMA AltWorse ==
  ASSUME NEW p, NEW q, WorsePage("image_alt", p, q)
  PROVE  NotBetter(image_alt(p), image_alt(q))
<1>1. PICK k \in Nat, l \in Nat, d \in Nat :
        p.missing = k /\ q.missing = l /\ k <= l /\ p.images = d /\ q.images = d
  BY DEF WorsePage, Up
<1>2. p.fetched = q.fetched
  BY DEF WorsePage
<1>3. CASE d = 0
  BY <1>1, <1>2, <1>3, Ranked DEF image_alt, OnPage, Having, Graded
<1>4. CASE d # 0
  <2>1. 1000 * k \in Nat /\ 1000 * l \in Nat /\ 1000 * k <= 1000 * l /\ d \in Nat \ {0}
    BY <1>1, <1>4
  <2>2. PICK s \in Nat, t \in Nat : s = Rounded(1000 * k, d) /\ t = Rounded(1000 * l, d) /\ s <= t
    BY <2>1, RoundedGrows
  <2>3. /\ image_alt(p) = OnPage(p, Graded(s > 300, s > 0))
        /\ image_alt(q) = OnPage(q, Graded(t > 300, t > 0))
    BY <1>1, <1>4, <2>2 DEF image_alt
  <2>4. QED
    BY <1>2, <2>2, <2>3, Ranked DEF OnPage, Having, Graded
<1>5. QED
  BY <1>3, <1>4

LEMMA WordsWorse ==
  ASSUME NEW p, NEW q, WorsePage("word_count", p, q)
  PROVE  NotBetter(word_count(p), word_count(q))
<1>1. PICK k \in Nat, l \in Nat : p.words = k /\ q.words = l /\ l <= k /\ k <= 2500
  BY DEF WorsePage, Up, Down
<1>2. p.fetched = q.fetched
  BY DEF WorsePage
<1>3. QED
  BY <1>1, <1>2, Ranked DEF word_count, OnPage, Having, Graded

LEMMA BlockingWorse ==
  ASSUME NEW p, NEW q, WorsePage("render_blocking", p, q)
  PROVE  NotBetter(render_blocking(p), render_blocking(q))
<1> DEFINE bare(x) == [i \in DOMAIN x.scripts |-> x.scripts[i] \in {"none", "bare"}]
<1>1. PICK k \in Nat, l \in Nat : p.css = k /\ q.css = l /\ k <= l
  BY DEF WorsePage, Up
<1>2. DOMAIN bare(p) \subseteq DOMAIN bare(q) /\ IsFiniteSet(DOMAIN bare(q))
  BY DEF WorsePage
<1>3. ASSUME NEW i \in DOMAIN bare(p), bare(p)[i]
      PROVE  bare(q)[i]
  <2>1. i \in DOMAIN p.scripts /\ i \in DOMAIN q.scripts
    BY <1>2
  <2>2. p.scripts[i] \in {"none", "bare"}
    BY <1>3, <2>1
  <2>3. q.scripts[i] \in {"none", "bare"}
    BY <2>1, <2>2 DEF WorsePage
  <2>4. QED
    BY <2>1, <2>3
<1>4. p.fetched = q.fetched
  BY DEF WorsePage
<1> HIDE DEF bare
<1>5. PICK m \in Nat, n \in Nat : m = HowMany(bare(p)) /\ n = HowMany(bare(q)) /\ m <= n
  BY <1>2, <1>3, HowManyGrows
<1>6. /\ render_blocking(p) = OnPage(p, Graded(m > 2 \/ k > 12, m > 0 \/ k > 6))
      /\ render_blocking(q) = OnPage(q, Graded(n > 2 \/ l > 12, n > 0 \/ l > 6))
  BY <1>1, <1>5, Zenon DEF render_blocking, bare
<1>7. QED
  BY <1>1, <1>4, <1>5, <1>6, Ranked DEF OnPage, Having, Graded

LEMMA ImagesWorse ==
  ASSUME NEW p, NEW q, WorsePage("image_optimization", p, q)
  PROVE  NotBetter(image_optimization(p), image_optimization(q))
<1> DEFINE lazy(x) == x.content > 3 /\ 2 * x.lazy < x.content
           sized(x) == x.content > 0 /\ 10 * x.undimensioned > 3 * x.content
           old(x) == x.content > 3 /\ 10 * x.modern < 3 * x.content
           first(x) == x.content > 0 /\ ~x.priority
           issues(x) == HowMany(<<lazy(x), sized(x), old(x), first(x)>>)
<1>1. /\ p.fetched = q.fetched /\ p.content = q.content /\ p.content \in Nat
      /\ Down(p.lazy, q.lazy) /\ Up(p.undimensioned, q.undimensioned)
      /\ Down(p.modern, q.modern) /\ Lost(p.priority, q.priority)
  BY DEF WorsePage
<1>2. lazy(p) => lazy(q)
  BY <1>1 DEF Down, Up
<1>3. sized(p) => sized(q)
  BY <1>1 DEF Up
<1>4. old(p) => old(q)
  BY <1>1 DEF Down, Up
<1>5. first(p) => first(q)
  BY <1>1 DEF Lost
<1>6. /\ image_optimization(p) = OnPage(p, Graded(issues(p) > 2, issues(p) > 0))
      /\ image_optimization(q) = OnPage(q, Graded(issues(q) > 2, issues(q) > 0))
  BY Zenon DEF image_optimization
<1> HIDE DEF lazy, sized, old, first
<1>7. issues(p) \in Nat /\ issues(q) \in Nat /\ issues(p) <= issues(q)
  BY <1>2, <1>3, <1>4, <1>5, OfFour
<1> HIDE DEF issues
<1>8. PICK k \in Nat, l \in Nat : k = issues(p) /\ l = issues(q) /\ k <= l
  BY <1>7
<1>9. QED
  BY <1>1, <1>6, <1>8, Ranked DEF OnPage, Having, Graded

LEMMA PageVerdicts ==
  ASSUME NEW p
  PROVE
    /\ VerdictOf("canonical", p) = canonical(p)
    /\ VerdictOf("broken_links", p) = broken_links(p)
    /\ VerdictOf("internal_links", p) = internal_links(p)
    /\ VerdictOf("hreflang", p) = hreflang(p)
    /\ VerdictOf("meta_robots", p) = meta_robots(p)
    /\ VerdictOf("title", p) = title(p)
    /\ VerdictOf("meta_description", p) = meta_description(p)
    /\ VerdictOf("headings", p) = headings(p)
    /\ VerdictOf("image_alt", p) = image_alt(p)
    /\ VerdictOf("word_count", p) = word_count(p)
    /\ VerdictOf("readability", p) = readability(p)
    /\ VerdictOf("schema", p) = schema(p)
    /\ VerdictOf("og_tags", p) = og_tags(p)
    /\ VerdictOf("viewport", p) = viewport(p)
    /\ VerdictOf("lang_attr", p) = lang_attr(p)
    /\ VerdictOf("content_freshness", p) = content_freshness(p)
    /\ VerdictOf("render_blocking", p) = render_blocking(p)
    /\ VerdictOf("image_optimization", p) = image_optimization(p)
    /\ VerdictOf("mixed_content", p) = mixed_content(p)
    /\ VerdictOf("favicon", p) = favicon(p)
  BY DEF VerdictOf

\* Nor does a page.
LEMMA PageWorse ==
  ASSUME NEW c \in PageCheckNames, NEW p, NEW q, WorsePage(c, p, q)
  PROVE  NotBetter(VerdictOf(c, p), VerdictOf(c, q))
<1>1. ASSUME WorsePage("canonical", p, q)
      PROVE  NotBetter(canonical(p), canonical(q))
  BY <1>1, Ranked DEF WorsePage, canonical, OnPage, Having, Graded, Later
<1>2. ASSUME WorsePage("broken_links", p, q)
      PROVE  NotBetter(broken_links(p), broken_links(q))
  BY <1>2, BrokenWorse
<1>3. ASSUME WorsePage("internal_links", p, q)
      PROVE  NotBetter(internal_links(p), internal_links(q))
  BY <1>3, Ranked DEF WorsePage, internal_links, OnPage, Having, Graded, Down, Up
<1>4. ASSUME WorsePage("hreflang", p, q)
      PROVE  NotBetter(hreflang(p), hreflang(q))
  BY <1>4, Ranked DEF WorsePage, hreflang, OnPage, Having, Graded, Gained, Lost
<1>5. ASSUME WorsePage("meta_robots", p, q)
      PROVE  NotBetter(meta_robots(p), meta_robots(q))
  BY <1>5, Ranked DEF WorsePage, meta_robots, OnPage, Having, Graded
<1>6. ASSUME WorsePage("title", p, q)
      PROVE  NotBetter(title(p), title(q))
  BY <1>6, TitleWorse
<1>7. ASSUME WorsePage("meta_description", p, q)
      PROVE  NotBetter(meta_description(p), meta_description(q))
  BY <1>7, DescriptionWorse
<1>8. ASSUME WorsePage("headings", p, q)
      PROVE  NotBetter(headings(p), headings(q))
  BY <1>8, Ranked DEF WorsePage, headings, OnPage, Having, Graded, Up, Down
<1>9. ASSUME WorsePage("image_alt", p, q)
      PROVE  NotBetter(image_alt(p), image_alt(q))
  BY <1>9, AltWorse
<1>10. ASSUME WorsePage("word_count", p, q)
      PROVE  NotBetter(word_count(p), word_count(q))
  BY <1>10, WordsWorse
<1>11. ASSUME WorsePage("readability", p, q)
      PROVE  NotBetter(readability(p), readability(q))
  BY <1>11, Ranked DEF WorsePage, readability, OnPage, Having, Graded, Up
<1>12. ASSUME WorsePage("schema", p, q)
      PROVE  NotBetter(schema(p), schema(q))
  BY <1>12, Ranked DEF WorsePage, schema, OnPage, Having, Graded, Up, Down
<1>13. ASSUME WorsePage("og_tags", p, q)
      PROVE  NotBetter(og_tags(p), og_tags(q))
  BY <1>13, Ranked DEF WorsePage, og_tags, OnPage, Having, Graded, Lost, Down, Up
<1>14. ASSUME WorsePage("viewport", p, q)
      PROVE  NotBetter(viewport(p), viewport(q))
  BY <1>14, Ranked DEF WorsePage, viewport, OnPage, Having, Graded, Later
<1>15. ASSUME WorsePage("lang_attr", p, q)
      PROVE  NotBetter(lang_attr(p), lang_attr(q))
  BY <1>15, Ranked DEF WorsePage, lang_attr, OnPage, Having, Graded, Lost
<1>16. ASSUME WorsePage("content_freshness", p, q)
      PROVE  NotBetter(content_freshness(p), content_freshness(q))
  BY <1>16, Ranked DEF WorsePage, content_freshness, OnPage, Having, Graded, Up
<1>17. ASSUME WorsePage("render_blocking", p, q)
      PROVE  NotBetter(render_blocking(p), render_blocking(q))
  BY <1>17, BlockingWorse
<1>18. ASSUME WorsePage("image_optimization", p, q)
      PROVE  NotBetter(image_optimization(p), image_optimization(q))
  BY <1>18, ImagesWorse
<1>19. ASSUME WorsePage("mixed_content", p, q)
      PROVE  NotBetter(mixed_content(p), mixed_content(q))
  BY <1>19, Ranked DEF WorsePage, mixed_content, OnPage, Having, Graded, Up
<1>20. ASSUME WorsePage("favicon", p, q)
      PROVE  NotBetter(favicon(p), favicon(q))
  BY <1>20, Ranked DEF WorsePage, favicon, OnPage, Having, Graded, Lost
<1>21. QED
  BY <1>1, <1>2, <1>3, <1>4, <1>5, <1>6, <1>7, <1>8, <1>9, <1>10, <1>11, <1>12, <1>13, <1>14,
     <1>15, <1>16, <1>17, <1>18, <1>19, <1>20, PageVerdicts DEF PageCheckNames

-----------------------------------------------------------------------------
(* The checks that ask a service.                                           *)

\* A metric keeps its place among the grades, wherever it is shown.
LEMMA GradeWorse ==
  ASSUME NEW m \in DOMAIN Impact, NEW x, NEW y, Up(x, y)
  PROVE  /\ Grade(m, x) = "poor" => Grade(m, y) = "poor"
         /\ Grade(m, x) = "needs_improvement" => Grade(m, y) \in {"needs_improvement", "poor"}
<1>1. PICK g \in Nat, f \in Nat : g = Good[m] /\ f = Fair[m] /\ g <= f
  BY DEF Impact, Good, Fair
<1>2. PICK k \in Nat, l \in Nat : k = x /\ l = y /\ k <= l
  BY DEF Up
<1>3. ASSUME NEW n \in Nat
      PROVE  Grade(m, n) = IF n = 0 THEN "unknown" ELSE IF n <= g THEN "good"
                           ELSE IF n <= f THEN "needs_improvement" ELSE "poor"
  BY <1>1 DEF Grade
<1>4. QED
  BY <1>1, <1>2, <1>3

LEMMA FoundWorse ==
  ASSUME NEW m \in DOMAIN Impact, NEW f, NEW g, WorseMetrics(f, g)
  PROVE  Up(Found(m, f), Found(m, g))
<1> DEFINE names == AskedBy[m] \cap DOMAIN f
<1>1. /\ Found(m, f) = IF names = {} THEN 0 ELSE f[CHOOSE n \in names : TRUE]
      /\ Found(m, g) = IF names = {} THEN 0 ELSE g[CHOOSE n \in names : TRUE]
  <2>1. DOMAIN f = DOMAIN g
    BY DEF WorseMetrics
  <2>2. AskedBy[m] \cap DOMAIN g = names
    BY <2>1
  <2>3. /\ Found(m, f) = IF AskedBy[m] \cap DOMAIN f = {} THEN 0
                          ELSE f[CHOOSE n \in AskedBy[m] \cap DOMAIN f : TRUE]
        /\ Found(m, g) = IF AskedBy[m] \cap DOMAIN g = {} THEN 0
                          ELSE g[CHOOSE n \in AskedBy[m] \cap DOMAIN g : TRUE]
    BY Zenon DEF Found
  <2>4. QED
    BY <2>2, <2>3, Zenon
<1>2. CASE names = {}
  BY <1>1, <1>2 DEF Up
<1>3. CASE names # {}
  <2>1. PICK n : n = CHOOSE k \in names : TRUE
    OBVIOUS
  <2>2. n \in names
    BY <1>3, <2>1
  <2>3. n \in DOMAIN f
    BY <2>2
  <2> HIDE DEF names
  <2>4. QED
    BY <1>1, <1>3, <2>1, <2>3, Zenon DEF WorseMetrics
<1>4. QED
  BY <1>2, <1>3

LEMMA WorstWorse ==
  ASSUME NEW m \in DOMAIN Impact, NEW p, NEW q,
         WorseMetrics(p.mobile, q.mobile), WorseMetrics(p.desktop, q.desktop)
  PROVE  /\ Worst(m, p) = "poor" => Worst(m, q) = "poor"
         /\ Worst(m, p) \in {"poor", "needs_improvement"} => Worst(m, q) \in {"poor", "needs_improvement"}
<1>1. PICK a, b, c, d : /\ a = Grade(m, Found(m, p.mobile)) /\ b = Grade(m, Found(m, p.desktop))
                        /\ c = Grade(m, Found(m, q.mobile)) /\ d = Grade(m, Found(m, q.desktop))
  OBVIOUS
<1>2. /\ a = "poor" => c = "poor"
      /\ a = "needs_improvement" => c \in {"needs_improvement", "poor"}
      /\ b = "poor" => d = "poor"
      /\ b = "needs_improvement" => d \in {"needs_improvement", "poor"}
  BY <1>1, FoundWorse, GradeWorse
<1>3. /\ Worst(m, p) = IF a = "poor" \/ b = "poor" THEN "poor"
                       ELSE IF a = "needs_improvement" \/ b = "needs_improvement" THEN "needs_improvement" ELSE "good"
      /\ Worst(m, q) = IF c = "poor" \/ d = "poor" THEN "poor"
                       ELSE IF c = "needs_improvement" \/ d = "needs_improvement" THEN "needs_improvement" ELSE "good"
  BY <1>1 DEF Worst
<1>4. QED
  BY <1>2, <1>3

LEMMA OpportunitiesWorse ==
  ASSUME NEW p, NEW q, WorseAnswer("performance_opportunities", p, q)
  PROVE  NotBetter(performance_opportunities(p), performance_opportunities(q))
<1> DEFINE graded(x, impact, grades) == {m \in DOMAIN Impact : Impact[m] = impact /\ Worst(m, x) \in grades}
           high(x) == graded(x, "high", {"poor"}) # {}
           medium(x) == graded(x, "medium", {"poor", "needs_improvement"}) # {}
<1>1. /\ p.service = q.service /\ Down(p.score, q.score)
      /\ WorseMetrics(p.mobile, q.mobile) /\ WorseMetrics(p.desktop, q.desktop)
  BY DEF WorseAnswer
<1>2. \A m \in DOMAIN Impact :
        /\ Worst(m, p) = "poor" => Worst(m, q) = "poor"
        /\ Worst(m, p) \in {"poor", "needs_improvement"} => Worst(m, q) \in {"poor", "needs_improvement"}
  BY <1>1, WorstWorse
<1>3. high(p) => high(q)
  BY <1>2
<1>4. medium(p) => medium(q)
  BY <1>2
<1>5. ASSUME NEW x
      PROVE  performance_opportunities(x) =
               IF ~x.service THEN "error" ELSE IF high(x) THEN "critical"
               ELSE IF medium(x) THEN "needs_work" ELSE IF x.score >= 90 THEN "good" ELSE "fair"
  BY Zenon DEF performance_opportunities
<1> HIDE DEF high, medium
<1>6. PICK k \in Nat, l \in Nat : k = p.score /\ l = q.score /\ l <= k
  BY <1>1 DEF Down, Up
<1>7. \A v \in {"error", "critical", "needs_work", "fair", "good"} :
        NotBetter("good", v) /\ NotBetter(v, v) /\ NotBetter(v, "critical")
  BY DEF NotBetter, Rank
<1>8. NotBetter("fair", "needs_work")
  BY DEF NotBetter, Rank
<1>9. QED
  BY <1>1, <1>3, <1>4, <1>5, <1>6, <1>7, <1>8

LEMMA PositionsWorse ==
  ASSUME NEW p, NEW q, WorseAnswer("position_tracker", p, q)
  PROVE  NotBetter(position_tracker(p), position_tracker(q))
<1>1. PICK k \in Nat, l \in Nat, d \in Nat \ {0} :
        k = Sum(p.rows) /\ l = Sum(q.rows) /\ k <= l /\ d = Len(p.rows) /\ d = Len(q.rows)
  BY DEF WorseAnswer, Up
<1>2. PICK s \in Nat, t \in Nat : s = Rounded(k, d) /\ t = Rounded(l, d) /\ s <= t
  <2>1. Rounded(k, d) \in Nat /\ Rounded(k, d) <= Rounded(l, d)
    BY <1>1, RoundedGrows
  <2>2. Rounded(l, d) \in Nat
    BY RoundedGrows
  <2>3. QED
    BY <2>1, <2>2
<1>3. p.service = q.service /\ p.rows # <<>> /\ q.rows # <<>>
  BY DEF WorseAnswer
<1>4. QED
  BY <1>1, <1>2, <1>3, Ranked DEF position_tracker, Having, Graded

LEMMA SitemapsWorse ==
  ASSUME NEW p, NEW q, WorseAnswer("sitemaps_status", p, q)
  PROVE  NotBetter(sitemaps_status(p), sitemaps_status(q))
<1> DEFINE bad(x) == \E i \in DOMAIN x.rows : x.rows[i].errors > 0 \/ 2 * x.rows[i].indexed < x.rows[i].submitted
<1>1. /\ p.service = q.service /\ p.rows # <<>> /\ q.rows # <<>> /\ DOMAIN p.rows \subseteq DOMAIN q.rows
      /\ \A i \in DOMAIN p.rows : WorseIndex(p.rows[i], q.rows[i])
  BY DEF WorseAnswer, MoreRows
<1>2. ASSUME NEW x, NEW y, WorseIndex(x, y), x.errors > 0 \/ 2 * x.indexed < x.submitted
      PROVE  y.errors > 0 \/ 2 * y.indexed < y.submitted
  BY <1>2 DEF WorseIndex, Up, Down
<1>3. bad(p) => bad(q)
  BY <1>1, <1>2
<1>4. /\ sitemaps_status(p) = Having(p.service, Graded(bad(p), p.rows = <<>>))
      /\ sitemaps_status(q) = Having(q.service, Graded(bad(q), q.rows = <<>>))
  BY Zenon DEF sitemaps_status
<1> HIDE DEF bad
<1>5. QED
  BY <1>1, <1>3, <1>4, Ranked DEF Graded, Having

LEMMA AnswerVerdicts ==
  ASSUME NEW p
  PROVE
    /\ VerdictOf("pagespeed_mobile", p) = pagespeed(p)
    /\ VerdictOf("mobile", p) = mobile(p)
    /\ VerdictOf("performance_opportunities", p) = performance_opportunities(p)
    /\ VerdictOf("gsc_crawl_inspection", p) = gsc_crawl_inspection(p)
    /\ VerdictOf("clicks_impressions", p) = clicks_impressions(p)
    /\ VerdictOf("position_tracker", p) = position_tracker(p)
    /\ VerdictOf("ctr_analyzer", p) = ctr_analyzer(p)
    /\ VerdictOf("coverage_errors", p) = coverage_errors(p)
    /\ VerdictOf("top_queries", p) = top_queries(p)
    /\ VerdictOf("sitemaps_status", p) = sitemaps_status(p)
    /\ VerdictOf("manual_actions", p) = manual_actions(p)
    /\ VerdictOf("opportunity_pages", p) = opportunity_pages(p)
    /\ VerdictOf("position_decay", p) = position_decay(p)
    /\ VerdictOf("keyword_cannibalization", p) = keyword_cannibalization(p)
  BY DEF VerdictOf

\* Nor does what PageSpeed or Search Console answers.
LEMMA AnswerWorse ==
  ASSUME NEW c \in AnswerChecks, NEW p, NEW q, WorseAnswer(c, p, q)
  PROVE  NotBetter(VerdictOf(c, p), VerdictOf(c, q))
<1>1. ASSUME WorseAnswer("pagespeed_mobile", p, q)
      PROVE  NotBetter(pagespeed(p), pagespeed(q))
  BY <1>1, Ranked DEF WorseAnswer, pagespeed, Having, AtLeast, Graded, Down, Up
<1>2. ASSUME WorseAnswer("mobile", p, q)
      PROVE  NotBetter(mobile(p), mobile(q))
  BY <1>2, Ranked DEF WorseAnswer, mobile, Having, AtLeast, Graded, Down, Up
<1>3. ASSUME WorseAnswer("performance_opportunities", p, q)
      PROVE  NotBetter(performance_opportunities(p), performance_opportunities(q))
  BY <1>3, OpportunitiesWorse
<1>4. ASSUME WorseAnswer("gsc_crawl_inspection", p, q)
      PROVE  NotBetter(gsc_crawl_inspection(p), gsc_crawl_inspection(q))
  BY <1>4, Ranked DEF WorseAnswer, gsc_crawl_inspection, Having, Graded, Later
<1>5. ASSUME WorseAnswer("clicks_impressions", p, q)
      PROVE  NotBetter(clicks_impressions(p), clicks_impressions(q))
  BY <1>5, Ranked DEF WorseAnswer, clicks_impressions, Having, Graded, Down, Up
<1>6. ASSUME WorseAnswer("position_tracker", p, q)
      PROVE  NotBetter(position_tracker(p), position_tracker(q))
  BY <1>6, PositionsWorse
<1>7. ASSUME WorseAnswer("ctr_analyzer", p, q)
      PROVE  NotBetter(ctr_analyzer(p), ctr_analyzer(q))
  BY <1>7, Ranked DEF WorseAnswer, ctr_analyzer, Having, Graded, MoreRows, WorseRow, Up, Down
<1>8. ASSUME WorseAnswer("coverage_errors", p, q)
      PROVE  NotBetter(coverage_errors(p), coverage_errors(q))
  BY <1>8, Ranked DEF WorseAnswer, coverage_errors, Having, Graded, MoreRows, WorseMap, Up, Down
<1>9. ASSUME WorseAnswer("top_queries", p, q)
      PROVE  NotBetter(top_queries(p), top_queries(q))
  BY <1>9, Ranked DEF WorseAnswer, top_queries, Having, Graded
<1>10. ASSUME WorseAnswer("sitemaps_status", p, q)
      PROVE  NotBetter(sitemaps_status(p), sitemaps_status(q))
  BY <1>10, SitemapsWorse
<1>11. ASSUME WorseAnswer("manual_actions", p, q)
      PROVE  NotBetter(manual_actions(p), manual_actions(q))
  BY <1>11, Ranked DEF WorseAnswer, manual_actions, Having, Graded
<1>12. ASSUME WorseAnswer("opportunity_pages", p, q)
      PROVE  NotBetter(opportunity_pages(p), opportunity_pages(q))
  BY <1>12, Ranked DEF WorseAnswer, opportunity_pages, Having, Graded, MoreRows, WorseRow, Up, Down
<1>13. ASSUME WorseAnswer("position_decay", p, q)
      PROVE  NotBetter(position_decay(p), position_decay(q))
  BY <1>13, Ranked DEF WorseAnswer, position_decay, Having, Graded
<1>14. ASSUME WorseAnswer("keyword_cannibalization", p, q)
      PROVE  NotBetter(keyword_cannibalization(p), keyword_cannibalization(q))
  BY <1>14, Ranked DEF WorseAnswer, keyword_cannibalization, Having, Graded, MoreRows, Up
<1>15. QED
  BY <1>1, <1>2, <1>3, <1>4, <1>5, <1>6, <1>7, <1>8, <1>9, <1>10, <1>11, <1>12, <1>13, <1>14,
     AnswerVerdicts DEF AnswerChecks

LEMMA BackoffEnds ==
  ASSUME NEW tries
  PROVE  Backoff(tries) \in {"answer", "raised", "none"}
  BY DEF Backoff

LEMMA NofollowWorse ==
  ASSUME NEW p, NEW q, WorseLinks("nofollow_ratio", p, q)
  PROVE  NotBetter(nofollow_ratio(p), nofollow_ratio(q))
<1>1. PICK k \in Nat, l \in Nat, m \in Nat, n \in Nat :
        /\ p.follow = k /\ q.follow = l /\ l <= k /\ p.nofollow = m /\ q.nofollow = n
        /\ k + m = l + n
  BY DEF WorseLinks, Up, Down
<1>2. PICK d \in Nat \ {0} : d = IF k + m = 0 THEN 1 ELSE k + m
  BY <1>1
<1>3. 1000 * k \in Nat /\ 1000 * l \in Nat /\ 1000 * l <= 1000 * k
  BY <1>1
<1>4. PICK s \in Nat, t \in Nat : s = Rounded(1000 * k, d) /\ t = Rounded(1000 * l, d) /\ t <= s
  BY <1>3, RoundedGrows
<1>5. p.dfs = q.dfs /\ p.tries = q.tries
  BY DEF WorseLinks
<1>6. /\ nofollow_ratio(p) = IF p.dfs THEN Asked(p.tries, AtLeast(700, 500, s), "error") ELSE "warning"
      /\ nofollow_ratio(q) = IF q.dfs THEN Asked(q.tries, AtLeast(700, 500, t), "error") ELSE "warning"
  BY <1>1, <1>2, <1>4 DEF nofollow_ratio
<1>7. QED
  BY <1>4, <1>5, <1>6, BackoffEnds, Ranked DEF Asked, AtLeast, Graded

LEMMA LinksVerdicts ==
  ASSUME NEW p
  PROVE
    /\ VerdictOf("backlinks", p) = backlinks(p)
    /\ VerdictOf("referring_domains", p) = referring_domains(p)
    /\ VerdictOf("domain_rank", p) = domain_rank(p)
    /\ VerdictOf("broken_backlinks", p) = broken_backlinks(p)
    /\ VerdictOf("nofollow_ratio", p) = nofollow_ratio(p)
  BY DEF VerdictOf

\* Nor a profile of backlinks.
LEMMA LinksWorse ==
  ASSUME NEW c \in LinkChecks, NEW p, NEW q, WorseLinks(c, p, q)
  PROVE  NotBetter(VerdictOf(c, p), VerdictOf(c, q))
<1>1. ASSUME WorseLinks("backlinks", p, q)
      PROVE  NotBetter(backlinks(p), backlinks(q))
  BY <1>1, BackoffEnds, Ranked DEF WorseLinks, backlinks, Asked, Graded, Down, Up
<1>2. ASSUME WorseLinks("referring_domains", p, q)
      PROVE  NotBetter(referring_domains(p), referring_domains(q))
  BY <1>2, BackoffEnds, Ranked DEF WorseLinks, referring_domains, Asked, AtLeast, Summary, Graded, Down, Up
<1>3. ASSUME WorseLinks("domain_rank", p, q)
      PROVE  NotBetter(domain_rank(p), domain_rank(q))
  BY <1>3, BackoffEnds, Ranked DEF WorseLinks, domain_rank, Asked, AtLeast, Summary, Graded, Down, Up
<1>4. ASSUME WorseLinks("broken_backlinks", p, q)
      PROVE  NotBetter(broken_backlinks(p), broken_backlinks(q))
  BY <1>4, BackoffEnds, Ranked DEF WorseLinks, broken_backlinks, Asked, Graded, Up
<1>5. ASSUME WorseLinks("nofollow_ratio", p, q)
      PROVE  NotBetter(nofollow_ratio(p), nofollow_ratio(q))
  BY <1>5, NofollowWorse
<1>6. QED
  BY <1>1, <1>2, <1>3, <1>4, <1>5, LinksVerdicts DEF LinkChecks

LEMMA AuthorityVerdicts ==
  ASSUME NEW p
  PROVE
    /\ VerdictOf("domain_authority", p) = domain_authority(p)
    /\ VerdictOf("page_authority", p) = page_authority(p)
    /\ VerdictOf("spam_score", p) = spam_score(p)
  BY DEF VerdictOf

\* Nor an authority or a spam score.
LEMMA AuthorityWorse ==
  ASSUME NEW c \in AuthorityChecks, NEW p, NEW q, WorseAuthority(c, p, q)
  PROVE  NotBetter(VerdictOf(c, p), VerdictOf(c, q))
<1>1. ASSUME WorseAuthority("domain_authority", p, q)
      PROVE  NotBetter(domain_authority(p), domain_authority(q))
  BY <1>1, Ranked DEF WorseAuthority, domain_authority, AtLeast, Graded, Down, Up
<1>2. ASSUME WorseAuthority("page_authority", p, q)
      PROVE  NotBetter(page_authority(p), page_authority(q))
  BY <1>2, Ranked DEF WorseAuthority, page_authority, AtLeast, Graded, Down, Up
<1>3. ASSUME WorseAuthority("spam_score", p, q)
      PROVE  NotBetter(spam_score(p), spam_score(q))
  BY <1>3, Ranked DEF WorseAuthority, spam_score, Having, Graded, Up
<1>4. QED
  BY <1>1, <1>2, <1>3, AuthorityVerdicts DEF AuthorityChecks

LEMMA RanksTrackedWorse ==
  ASSUME NEW p, NEW q, WorseRanks("rank_tracker", p, q)
  PROVE  NotBetter(rank_tracker(p), rank_tracker(q))
<1> DEFINE none(x) == \A i \in DOMAIN x.ranks : x.ranks[i] = 0
           asked(x) == x.serp \/ x.dfs
           got(x) == x.serp \/ x.answered
<1>1. /\ p.serp = q.serp /\ p.dfs = q.dfs /\ (~p.serp => p.answered = q.answered)
      /\ p.ranks # <<>> /\ q.ranks # <<>> /\ DOMAIN p.ranks = DOMAIN q.ranks
      /\ \A i \in DOMAIN p.ranks : Behind(p.ranks[i], q.ranks[i])
  BY DEF WorseRanks
<1>2. ASSUME NEW x, NEW y, Behind(x, y)
      PROVE  (x = 0 => y = 0) /\ (y \in 1..10 => x \in 1..10)
  BY <1>2 DEF Behind
<1>3. none(p) => none(q)
  BY <1>1, <1>2
<1>4. Among(q.ranks, 10) => Among(p.ranks, 10)
  BY <1>1, <1>2 DEF Among
<1>5. (asked(p) <=> asked(q)) /\ (got(p) <=> got(q))
  BY <1>1
<1>6. ASSUME NEW x, x.ranks # <<>>
      PROVE  rank_tracker(x) = IF ~asked(x) THEN "warning"
                               ELSE Having(got(x), Graded(none(x), ~Among(x.ranks, 10)))
  BY <1>6, Zenon DEF rank_tracker
<1> HIDE DEF none, asked, got
<1>7. QED
  BY <1>1, <1>3, <1>4, <1>5, <1>6, Ranked DEF Graded, Having

LEMMA ShareWorse ==
  ASSUME NEW p, NEW q, WorseRanks("traffic_share", p, q)
  PROVE  NotBetter(traffic_share(p), traffic_share(q))
<1>1. PICK k \in Nat, l \in Nat, d \in Nat \ {0} :
        /\ k = Clicks(p.ranks) /\ l = Clicks(q.ranks) /\ l <= k
        /\ d = Len(Shown(p.ranks)) /\ d = Len(Shown(q.ranks))
  BY DEF WorseRanks, Down, Up
<1>2. PICK s \in Nat, t \in Nat : s = Rounded(k, d) /\ t = Rounded(l, d) /\ t <= s
  BY <1>1, RoundedGrows
<1>3. p.serp = q.serp /\ p.dfs = q.dfs /\ p.answered = q.answered
  BY DEF WorseRanks
<1>4. Shown(p.ranks) # <<>> /\ Shown(q.ranks) # <<>>
  <2>1. Len(<<>>) = 0
    OBVIOUS
  <2>2. QED
    BY <1>1, <2>1
<1> DEFINE asked(x) == x.serp \/ (x.dfs /\ x.answered)
<1>5. /\ traffic_share(p) = IF ~asked(p) THEN "warning" ELSE AtLeast(100, 50, s)
      /\ traffic_share(q) = IF ~asked(q) THEN "warning" ELSE AtLeast(100, 50, t)
  BY <1>1, <1>2, <1>4 DEF traffic_share
<1>6. asked(p) <=> asked(q)
  BY <1>3
<1> HIDE DEF asked
<1>7. QED
  BY <1>2, <1>5, <1>6, Ranked DEF AtLeast, Graded

LEMMA RanksVerdicts ==
  ASSUME NEW p
  PROVE
    /\ VerdictOf("rank_tracker", p) = rank_tracker(p)
    /\ VerdictOf("competitor", p) = competitor(p)
    /\ VerdictOf("serp_features", p) = serp_features(p)
    /\ VerdictOf("traffic_share", p) = traffic_share(p)
  BY DEF VerdictOf

\* Nor a list of ranks.
LEMMA RanksWorse ==
  ASSUME NEW c \in RankChecks, NEW p, NEW q, WorseRanks(c, p, q)
  PROVE  NotBetter(VerdictOf(c, p), VerdictOf(c, q))
<1>1. ASSUME WorseRanks("rank_tracker", p, q)
      PROVE  NotBetter(rank_tracker(p), rank_tracker(q))
  BY <1>1, RanksTrackedWorse
<1>2. ASSUME WorseRanks("competitor", p, q)
      PROVE  NotBetter(competitor(p), competitor(q))
  BY <1>2, Ranked DEF WorseRanks, competitor, Having, Graded, Behind
<1>3. ASSUME WorseRanks("serp_features", p, q)
      PROVE  NotBetter(serp_features(p), serp_features(q))
  BY <1>3, Ranked DEF WorseRanks, serp_features, Having, Graded
<1>4. ASSUME WorseRanks("traffic_share", p, q)
      PROVE  NotBetter(traffic_share(p), traffic_share(q))
  BY <1>4, ShareWorse
<1>5. QED
  BY <1>1, <1>2, <1>3, <1>4, RanksVerdicts DEF RankChecks

-----------------------------------------------------------------------------
(* The stand-alone tools.                                                   *)

LEMMA RatioWorse ==
  ASSUME NEW p, NEW q, WorseTool("code_to_text_ratio", p, q)
  PROVE  NotBetter(code_to_text_ratio(p), code_to_text_ratio(q))
<1>1. PICK k \in Nat, l \in Nat, d \in Nat : p.text = k /\ q.text = l /\ l <= k /\ p.html = d /\ q.html = d
  BY DEF WorseTool, Down, Up
<1>2. p.tries = q.tries
  BY DEF WorseTool
<1>3. CASE d = 0
  BY <1>1, <1>2, <1>3, Ranked DEF code_to_text_ratio, OfHtml, Graded
<1>4. CASE d # 0
  <2>1. 1000 * k \in Nat /\ 1000 * l \in Nat /\ 1000 * l <= 1000 * k /\ d \in Nat \ {0}
    BY <1>1, <1>4
  <2>2. PICK s \in Nat, t \in Nat : s = Rounded(1000 * k, d) /\ t = Rounded(1000 * l, d) /\ t <= s
    BY <2>1, RoundedGrows
  <2>3. /\ code_to_text_ratio(p) = OfHtml(p, {"failed", "refused", "ToolFetchError"}, Graded(s < 100, s < 250))
        /\ code_to_text_ratio(q) = OfHtml(q, {"failed", "refused", "ToolFetchError"}, Graded(t < 100, t < 250))
    BY <1>1, <1>4, <2>2 DEF code_to_text_ratio
  <2>4. QED
    BY <1>2, <2>2, <2>3, Ranked DEF OfHtml, Graded
<1>5. QED
  BY <1>3, <1>4

LEMMA RobotsFileWorse ==
  ASSUME NEW p, NEW q, WorseTool("robots_tester", p, q)
  PROVE  NotBetter(robots_tester(p), robots_tester(q))
<1>1. PICK F, G : F = RobotsFaults(p) /\ G = RobotsFaults(q)
  OBVIOUS
<1>2. p.tries = q.tries /\ p.code = q.code /\ F \subseteq G
  BY <1>1 DEF WorseTool
<1> DEFINE severe(faults) == faults \cap {"all shut", "google shut", "sitemap"} # {}
<1>3. severe(F) => severe(G)
  BY <1>2, Zenon
<1>4. F # {} => G # {}
  BY <1>2
<1>5. /\ robots_tester(p) = OfHtml(p, {"failed"},
           IF p.code = 404 THEN "warning" ELSE IF p.code >= 400 THEN "error" ELSE Graded(severe(F), F # {}))
      /\ robots_tester(q) = OfHtml(q, {"failed"},
           IF q.code = 404 THEN "warning" ELSE IF q.code >= 400 THEN "error" ELSE Graded(severe(G), G # {}))
  BY <1>1, Zenon DEF robots_tester
<1> HIDE DEF severe
<1>6. QED
  BY <1>2, <1>3, <1>4, <1>5, Ranked DEF OfHtml, Graded

LEMMA ToolVerdicts ==
  ASSUME NEW p
  PROVE
    /\ VerdictOf("serp_snippet_preview", p) = serp_snippet_preview(p)
    /\ VerdictOf("http_headers", p) = http_headers(p)
    /\ VerdictOf("code_to_text_ratio", p) = code_to_text_ratio(p)
    /\ VerdictOf("robots_tester", p) = robots_tester(p)
  BY DEF VerdictOf

\* Nor a page or a robots.txt put to a stand-alone tool.
LEMMA ToolWorse ==
  ASSUME NEW c \in HtmlTools, NEW p, NEW q, WorseTool(c, p, q)
  PROVE  NotBetter(VerdictOf(c, p), VerdictOf(c, q))
<1>1. ASSUME WorseTool("serp_snippet_preview", p, q)
      PROVE  NotBetter(serp_snippet_preview(p), serp_snippet_preview(q))
  BY <1>1, Ranked DEF WorseTool, serp_snippet_preview, OfHtml, Graded, Down, Up
<1>2. ASSUME WorseTool("http_headers", p, q)
      PROVE  NotBetter(http_headers(p), http_headers(q))
  BY <1>2, Ranked DEF WorseTool, http_headers, OfHtml, Graded
<1>3. ASSUME WorseTool("code_to_text_ratio", p, q)
      PROVE  NotBetter(code_to_text_ratio(p), code_to_text_ratio(q))
  BY <1>3, RatioWorse
<1>4. ASSUME WorseTool("robots_tester", p, q)
      PROVE  NotBetter(robots_tester(p), robots_tester(q))
  BY <1>4, RobotsFileWorse
<1>5. QED
  BY <1>1, <1>2, <1>3, <1>4, ToolVerdicts DEF HtmlTools

\* A chain that goes on, and stays insecure.
LEMMA ChainWorse ==
  ASSUME NEW p, NEW q, WorseChain(p, q)
  PROVE  NotBetter(redirect_chain(p), redirect_chain(q))
<1> DEFINE at(x) == Hop(x.net, x.url)
           upgraded(x) == ChainLast(x) > 0 /\ at(x)[0] \notin x.secure /\ at(x)[ChainLast(x)] \in x.secure
           temporary(x) == \E k \in 0..(ChainLast(x) - 1) : ChainCodes(x)[k] = 302
           permanent(x) == \E k \in 0..ChainLast(x) : ChainCodes(x)[k] = 301
           issues(x) == \/ ChainLast(x) + 1 > 3
                        \/ temporary(x)
                        \/ ~upgraded(x) /\ ChainLast(x) > 1 /\ permanent(x)
           dead(x) == \/ ChainLast(x) < 0
                      \/ x.net[at(x)[ChainEnd(x.net, x.url)]].kind = "dead" /\ ~Looped(x)
<1>1. PICK m \in Nat, n \in Nat : m = ChainLast(p) /\ n = ChainLast(q) /\ m <= n
  BY DEF WorseChain, Up
<1>2. /\ q.secure = {} /\ DOMAIN ChainCodes(p) = 0..m
      /\ \A k \in 0..m : ChainCodes(p)[k] \in {301, 302} => ChainCodes(q)[k] = ChainCodes(p)[k]
  BY <1>1 DEF WorseChain, ChainCodes
<1>3. temporary(p) => temporary(q)
  BY <1>1, <1>2
<1>4. permanent(p) => permanent(q)
  BY <1>1, <1>2
<1>5. ~upgraded(q)
  BY <1>2
<1>6. ASSUME NEW x
      PROVE  redirect_chain(x) = IF dead(x) THEN "error" ELSE Graded(FALSE, issues(x))
  BY Zenon DEF redirect_chain
<1> HIDE DEF dead, temporary, permanent, upgraded
<1>7. issues(p) => issues(q)
  BY <1>1, <1>3, <1>4, <1>5
<1> HIDE DEF issues
<1>8. QED
  BY <1>6, <1>7, Ranked DEF Graded

LEMMA CappedAre ==
  ASSUME NEW S, NEW s \in Seq(S), NEW n \in Nat
  PROVE  /\ Capped(s, n) \in Seq(S)
         /\ Len(Capped(s, n)) = (IF n < Len(s) THEN n ELSE Len(s))
         /\ \A i \in 1..Len(Capped(s, n)) : Capped(s, n)[i] = s[i]
  BY DEF Capped

LEMMA AlternatesWorse ==
  ASSUME NEW p, NEW q, WorseAlternates(p, q)
  PROVE  NotBetter(hreflang_validator(p), hreflang_validator(q))
<1> DEFINE T == ToSet(p.entries) \cup ToSet(q.entries)
           entries(x) == Capped(x.entries, MaxHreflang)
           asked(x) == Capped(entries(x), MaxHreflangAsked)
           langs(x) == [i \in DOMAIN entries(x) |-> entries(x)[i].lang]
           down(x) == \E e \in ToSet(asked(x)) : e.found = "down"
           moved(x) == \E e \in ToSet(asked(x)) : e.found = "moved"
           others(x) == \A e \in ToSet(entries(x)) : ~e.itself
           local(x) == \E e \in ToSet(entries(x)) : ~e.web
           errors(x) == ~IsInjective(langs(x)) \/ down(x) \/ local(x)
           warnings(x) == \/ "x-default" \notin ToSet(langs(x))
                          \/ others(x) \/ moved(x) \/ Len(x.entries) > MaxHreflang
<1>1. MaxHreflang \in Nat /\ MaxHreflangAsked \in Nat
  BY QuickAssumption
<1>2. /\ p.answer = q.answer /\ Len(p.entries) = Len(q.entries)
      /\ p.entries \in Seq(T) /\ q.entries \in Seq(T)
      /\ \A i \in DOMAIN p.entries :
           /\ p.entries[i].lang = q.entries[i].lang /\ Lost(p.entries[i].itself, q.entries[i].itself)
           /\ Lost(p.entries[i].web, q.entries[i].web)
           /\ Later(p.entries[i].found, q.entries[i].found, <<"up", "moved", "down">>)
  BY DEF WorseAlternates
<1> HIDE DEF T
<1>3. PICK n \in Nat : Len(p.entries) = n /\ Len(q.entries) = n
  BY <1>2
<1>4. PICK m \in 0..n : m = IF MaxHreflang < n THEN MaxHreflang ELSE n
  BY <1>1
<1>5. PICK l \in 0..m : l = IF MaxHreflangAsked < m THEN MaxHreflangAsked ELSE m
  BY <1>1
<1>6. ASSUME NEW x, x.entries \in Seq(T), Len(x.entries) = n
      PROVE  /\ DOMAIN entries(x) = 1..m /\ DOMAIN asked(x) = 1..l
             /\ \A i \in 1..m : entries(x)[i] = x.entries[i]
             /\ \A i \in 1..l : asked(x)[i] = x.entries[i]
  <2>1. entries(x) \in Seq(T) /\ Len(entries(x)) = m /\ \A i \in 1..m : entries(x)[i] = x.entries[i]
    BY <1>1, <1>4, <1>6, CappedAre
  <2> HIDE DEF entries
  <2>2. PICK e \in Seq(T) : e = entries(x) /\ Len(e) = m /\ \A i \in 1..m : e[i] = x.entries[i]
    BY <2>1
  <2>3. PICK a : a = Capped(e, MaxHreflangAsked)
    OBVIOUS
  <2>4. a \in Seq(T) /\ Len(a) = (IF MaxHreflangAsked < m THEN MaxHreflangAsked ELSE m)
    BY <1>1, <2>2, <2>3, CappedAre
  <2>5. Len(a) = l
    BY <1>5, <2>4
  <2>6. \A i \in 1..l : a[i] = e[i]
    BY <1>1, <2>3, <2>5, CappedAre
  <2>7. DOMAIN a = 1..l /\ DOMAIN e = 1..m /\ 1..l \subseteq 1..m
    BY <2>2, <2>4, <2>5
  <2>8. a = asked(x)
    BY <2>2, <2>3
  <2> HIDE DEF asked
  <2>9. QED
    BY <2>2, <2>6, <2>7, <2>8
<1>7. /\ DOMAIN entries(p) = 1..m /\ DOMAIN entries(q) = 1..m /\ DOMAIN asked(p) = 1..l /\ DOMAIN asked(q) = 1..l
      /\ \A i \in 1..m : entries(p)[i] = p.entries[i] /\ entries(q)[i] = q.entries[i]
      /\ \A i \in 1..l : asked(p)[i] = p.entries[i] /\ asked(q)[i] = q.entries[i]
  BY <1>2, <1>3, <1>6
<1>8. 1..m \subseteq DOMAIN p.entries /\ 1..l \subseteq DOMAIN p.entries
  BY <1>2, <1>3
<1>9. langs(p) = langs(q)
  BY <1>2, <1>7, <1>8
<1> HIDE DEF entries, langs
<1>10. others(p) => others(q)
  <2>1. ASSUME NEW i \in 1..m
        PROVE  q.entries[i].itself => p.entries[i].itself
    BY <1>2, <1>8 DEF Lost
  <2>2. QED
    BY <1>7, <2>1 DEF ToSet
<1>w. local(p) => local(q)
  <2>1. ASSUME NEW i \in 1..m
        PROVE  q.entries[i].web => p.entries[i].web
    BY <1>2, <1>8 DEF Lost
  <2>2. QED
    BY <1>7, <2>1 DEF ToSet
<1> HIDE DEF asked
<1>11. ASSUME NEW i \in 1..l
       PROVE  /\ p.entries[i].found = "down" => q.entries[i].found = "down"
              /\ p.entries[i].found = "moved" => q.entries[i].found \in {"moved", "down"}
  BY <1>2, <1>8 DEF Later
<1>12. down(p) => down(q)
  BY <1>7, <1>11 DEF ToSet
<1>13. moved(p) => moved(q) \/ down(q)
  BY <1>7, <1>11 DEF ToSet
<1>14. (p.entries = <<>>) <=> (q.entries = <<>>)
  BY <1>2, <1>3
<1>15. ASSUME NEW x
       PROVE  hreflang_validator(x) =
                CASE x.answer.got = "failed" -> "error"
                  [] x.answer.got = "answer" ->
                       IF x.answer.code >= 400 THEN "error"
                       ELSE IF x.entries = <<>> THEN "pass" ELSE Graded(errors(x), warnings(x))
                  [] OTHER -> "crash"
  BY Zenon DEF hreflang_validator, entries, asked, langs
<1> HIDE DEF down, moved, others, local
<1>16. errors(p) => errors(q)
  BY <1>9, <1>12, <1>w
<1>17. warnings(p) => warnings(q) \/ errors(q)
  BY <1>2, <1>9, <1>10, <1>13
<1> HIDE DEF errors, warnings
<1>18. QED
  BY <1>2, <1>14, <1>15, <1>16, <1>17, Ranked DEF Graded

-----------------------------------------------------------------------------
(* Of any check, and of the ladders put to them.                            *)

\* Whatever a check, a stand-alone tool or a service's answer is about: one that is
\* worse in what is read of it gets no better verdict.  No threshold is out of order
\* and no case between two of them falls through, for any numbers.
THEOREM Worsened ==
  ASSUME NEW c, NEW p, NEW q, Worse(c, p, q)
  PROVE  NotBetter(VerdictOf(c, p), VerdictOf(c, q))
<1>1. CASE c \in SiteChecks /\ WorseSite(c, p, q)
  BY <1>1, SiteWorse
<1>2. CASE c \in PageCheckNames /\ WorsePage(c, p, q)
  BY <1>2, PageWorse
<1>3. CASE c \in AnswerChecks /\ WorseAnswer(c, p, q)
  BY <1>3, AnswerWorse
<1>4. CASE c \in LinkChecks /\ WorseLinks(c, p, q)
  BY <1>4, LinksWorse
<1>5. CASE c \in AuthorityChecks /\ WorseAuthority(c, p, q)
  BY <1>5, AuthorityWorse
<1>6. CASE c \in RankChecks /\ WorseRanks(c, p, q)
  BY <1>6, RanksWorse
<1>7. CASE c \in HtmlTools /\ WorseTool(c, p, q)
  BY <1>7, ToolWorse
<1>8. CASE c = "lcp" /\ Down(p.rating, q.rating)
  <2>1. VerdictOf("lcp", p) = web_vital(p) /\ VerdictOf("lcp", q) = web_vital(q)
    BY DEF VerdictOf
  <2>2. NotBetter(web_vital(p), web_vital(q))
    BY <1>8, Ranked DEF web_vital, AtLeast, Graded, Down, Up
  <2>3. QED
    BY <1>8, <2>1, <2>2
<1>9. CASE c = "redirect_chain" /\ WorseChain(p, q)
  <2>1. \A x \in {p, q} : VerdictOf("redirect_chain", x) = redirect_chain(x)
    BY DEF VerdictOf
  <2>2. QED
    BY <1>9, <2>1, ChainWorse
<1>10. CASE c = "hreflang_validator" /\ WorseAlternates(p, q)
  <2>1. \A x \in {p, q} : VerdictOf("hreflang_validator", x) = hreflang_validator(x)
    BY DEF VerdictOf
  <2>2. QED
    BY <1>10, <2>1, AlternatesWorse
<1>11. QED
  BY <1>1, <1>2, <1>3, <1>4, <1>5, <1>6, <1>7, <1>8, <1>9, <1>10 DEF Worse

\* What is put to a check is two rungs of its ladder, in order.
LadderInv ==
  case.kind = "ladder" =>
    /\ case.check \in LadderChecks /\ case.better \in Rungs /\ case.worse \in Rungs
    /\ case.better < case.worse /\ case.worse <= Len(Ladder(case.check))

LEMMA LadderStep ==
  ASSUME LadderInv, [CaseNext]_case
  PROVE  LadderInv'
<1>1. CASE PutLadder
  <2>1. PICK c \in LadderChecks, i \in Rungs, j \in Rungs :
          /\ i < j /\ j <= Len(Ladder(c))
          /\ case' = [kind |-> "ladder", check |-> c, better |-> i, worse |-> j]
    BY <1>1 DEF PutLadder
  <2>2. case'.check = c /\ case'.better = i /\ case'.worse = j
    BY <2>1
  <2>3. QED
    BY <2>1, <2>2 DEF LadderInv
<1>2. CASE PutCanonicals
  BY <1>2 DEF PutCanonicals, LadderInv
<1>3. CASE PutAudits
  BY <1>3 DEF PutAudits, LadderInv
<1>4. CASE PutRequest
  <2>1. case'.kind = "request"
    BY <1>4 DEF PutRequest
  <2>2. QED
    BY <2>1 DEF LadderInv
<1>5. CASE PutNetwork
  BY <1>5 DEF PutNetwork, LadderInv
<1>6. CASE case' = NoCase
  BY <1>6 DEF NoCase, LadderInv
<1>7. CASE UNCHANGED case
  BY <1>7 DEF LadderInv
<1>8. QED
  BY <1>1, <1>2, <1>3, <1>4, <1>5, <1>6, <1>7 DEF CaseNext

LEMMA LadderFound ==
  ASSUME LadderInv
  PROVE  WorseIsNotBetter
<1>1. SUFFICES ASSUME case.kind = "ladder"
               PROVE  WorseIsNotBetter
  BY DEF WorseIsNotBetter
<1>2. PICK p, q : p = Ladder(case.check)[case.better] /\ q = Ladder(case.check)[case.worse]
  OBVIOUS
<1>3. Worse(case.check, p, q)
  BY <1>1, <1>2, AuditsAssumption DEF LadderInv
<1>4. NotBetter(VerdictOf(case.check, p), VerdictOf(case.check, q))
  BY <1>3, Worsened
<1>5. QED
  BY <1>2, <1>4, Zenon DEF WorseIsNotBetter, NotBetter

\* Of any ladder of findings, each worse than those before, no rung is given a better
\* verdict than one below it, by the checks of phase 1 to 4 and the stand-alone tools.
THEOREM Graduated == CaseSpec => []WorseIsNotBetter
<1>1. CaseInit => LadderInv
  BY DEF CaseInit, LadderInv, NoCase
<1>2. LadderInv /\ [CaseNext]_case => LadderInv'
  BY LadderStep
<1>3. LadderInv => WorseIsNotBetter
  BY LadderFound
<1>4. QED
  BY <1>1, <1>2, <1>3, PTL DEF CaseSpec
=============================================================================
