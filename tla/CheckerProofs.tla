--------------------------- MODULE CheckerProofs ---------------------------
(***************************************************************************)
(* Proofs about Checker, for any set of URLs, any number of tabs and any   *)
(* bounds.                                                                 *)
(***************************************************************************)
EXTENDS Checker, FiniteSetTheorems, SequenceTheorems, WellFoundedInduction, TLAPS

-----------------------------------------------------------------------------
(* Facts about numbers, sets and sequences.                                 *)

\* Every set of natural numbers has a least element.
LEMMA Least ==
  ASSUME NEW S \in SUBSET Nat, S # {}
  PROVE  \E n \in S : \A m \in S : n <= m
<1> DEFINE R == {ss \in Nat \X Nat : ss[1] < ss[2]}
<1>1. IsWellFoundedOn(R, Nat)
  BY NatLessThanWellFounded, Zenon DEF OpToRel
<1>2. \A m, n \in Nat : <<m, n>> \in R <=> m < n
  OBVIOUS
<1> HIDE DEF R
<1>3. PICK x \in S : \A y \in S : ~ (<<y, x>> \in R)
  BY <1>1, WFMin
<1>4. \A y \in S : ~ (y < x)
  BY <1>2, <1>3
<1>5. \A y \in S : x <= y
  BY <1>4
<1>6. QED
  BY <1>5

\* The counter of saves, modulo their distance.
LEMMA NextModulo ==
  ASSUME NEW n \in Nat, NEW m \in Nat \ {0}
  PROVE  /\ n % m \in 0..m - 1
         /\ (n + 1) % m # 0 => (n + 1) % m = (n % m) + 1
  OBVIOUS

\* A set as a sequence: all of it, nothing else, nothing twice.
LEMMA Listed ==
  ASSUME NEW S, IsFiniteSet(S)
  PROVE  /\ SetToSeq(S) \in Seq(S)
         /\ \A x \in S : \E i \in DOMAIN SetToSeq(S) : SetToSeq(S)[i] = x
         /\ \A i, j \in DOMAIN SetToSeq(S) : SetToSeq(S)[i] = SetToSeq(S)[j] => i = j
<1> DEFINE n == Cardinality(S)
           f == SetToSeq(S)
<1>1. n \in Nat /\ IsFiniteSet(1..n) /\ Cardinality(1..n) = n
  BY FS_CardinalityType, FS_Interval
<1>2. PICK g : g \in Bijection(1..n, S)
  BY <1>1, FS_SameCardinalityBij DEF ExistsBijection
<1>3. g \in [1..n -> S] /\ IsInjective(g)
  BY <1>2 DEF Bijection, Injection
<1>4. f \in [1..n -> S] /\ IsInjective(f)
  BY <1>3 DEF SetToSeq
<1>5. f \in Surjection(1..n, S)
  BY <1>1, <1>4, FS_Injection DEF Injection
<1>6. QED
  BY <1>1, <1>4, <1>5 DEF IsInjective, Surjection

-----------------------------------------------------------------------------
(* The inductive invariant.                                                 *)

Checking  == {"gsc", "tabs", "single", "surface", "fallback"}
Reporting == {"csv", "compare", "history", "xlsx", "html"}
Ending == {"retry", "unlink"}

\* What is still to be asked, in a tab or in the browser.
Queued(i)  == (\E t \in Tabs : i \in batch[t]) \/ i \in deferred
Pending(u) == \E i \in DOMAIN urls : urls[i] = u /\ Queued(i)
HasRow(u)  == \E i \in DOMAIN rows : rows[i].url = u

\* Which queues are in use when.
PhaseInv ==
  /\ pc \in {"single", "tabs"} => deferred = {}
  /\ pc = "gsc" => \A t \in Tabs \ {0} : batch[t] = {}
  /\ pc \in {"surface", "fallback"} => \A t \in Tabs : batch[t] = {}
  /\ pc \in Ending \cup Reporting => \A i \in DOMAIN urls : ~Queued(i)

\* Each position is in one queue at most, and only if its URL was not resumed with a
\* verdict; a URL named once is queued only while it has none.
QueueInv ==
  /\ \A i \in DOMAIN urls : Queued(i) => fullSaved[urls[i]] \notin Verdict
  /\ \A u \in urls_set : Pending(u) /\ ~NamedTwice(u) => results[u] \notin Verdict
  /\ \A t1, t2 \in Tabs : \A i \in batch[t1] : i \in batch[t2] => t1 = t2
  /\ \A t \in Tabs : \A i \in batch[t] : i \notin deferred

\* What the second pass is to visit has a row and was not resumed with a verdict;
\* what is named once failed, and is visited once.
FailedInv(s) ==
  \A i \in DOMAIN s :
    /\ s[i] \in urls_set /\ HasRow(s[i]) /\ fullSaved[s[i]] \notin Verdict
    /\ ~NamedTwice(s[i]) => /\ results[s[i]] = "Error" /\ ~Pending(s[i])
                            /\ \A j \in DOMAIN s : s[j] = s[i] => j = i

SecondPassInv ==
  /\ pc \in Checking => FailedInv(failed)
  /\ pc = "retry" => FailedInv(again) /\ failed # <<>>

RowInv ==
  /\ \A i \in DOMAIN rows : rows[i].url \in urls_set
  /\ ~died => \A u \in urls_set : Pending(u) \/ (HasRow(u) /\ results[u] # Unknown)
  /\ CountsMatchRows

\* How the progress file trails behind the results.
ProgressInv ==
  pc \in Checking \cup Ending =>
    /\ urls \in Lists
    /\ \A u \in Urls \ urls_set : results[u] = Unknown /\ saved[Key(urls)][u] = fullSaved[u]
    /\ \A u \in urls_set : results[u] = Unknown => fullSaved[u] = Unknown
    /\ Cardinality(Unsaved) <= saves % SaveEvery

\* What has been written of the check in progress, and of those before it.
Written ==
  CASE pc \in {"compare", "history", "xlsx"} -> {"csv"}
    [] pc = "html" -> Whole \ {"html"}
    [] OTHER -> {}

FileInv ==
  /\ \A c \in killed : c <= checks
  /\ \A c \in Checks : c > checks => disk[c] = {}
  /\ \A c \in Checks \ killed : c < checks \/ pc = "idle" => disk[c] \in {{}, {"csv"}, Whole}
  /\ pc # "idle" => checks \in Checks \ killed /\ disk[checks] = Written

IdleInv == pc = "idle" => urls = <<>>

\* Everything but the files; and all of it.
WorkInv    == PhaseInv /\ QueueInv /\ SecondPassInv /\ RowInv /\ ProgressInv /\ IdleInv
CheckerInv == TypeOK /\ WorkInv /\ FileInv

-----------------------------------------------------------------------------
(* Types.                                                                   *)

LEMMA Constants ==
  /\ Urls \subseteq Nat /\ IsFiniteSet(Urls)
  /\ MaxTabs \in Nat \ {0} /\ SaveEvery \in Nat \ {0}
  /\ KeyLength \in Nat \ {0} /\ HistoryLength \in Nat \ {0} /\ MaxChecks \in Nat \ {0}
  /\ Lists \subseteq Seq(Urls) /\ <<>> \notin Lists /\ HasXlsx \in BOOLEAN
  /\ 0 \in Tabs /\ Tabs \subseteq Nat /\ Checks \subseteq Nat
  BY CheckerAssumption DEF Tabs, Checks

LEMMA Blanks ==
  Nothing \in Known /\ NoCounts \in Tally /\ \A S : NoBatch \in [Tabs -> SUBSET S]
  BY DEF Nothing, Known, NoCounts, Tally, NoBatch

LEMMA UrlSets == ASSUME NEW S \in SUBSET Urls
                 PROVE  IsFiniteSet(S) /\ Cardinality(S) \in Nat
  BY Constants, FS_Subset, FS_CardinalityType

LEMMA KeyOf == ASSUME NEW l \in Lists PROVE Key(l) \in Keys
  BY DEF Keys

\* The positions of a list, and its URLs.
LEMMA PositionSets ==
  ASSUME NEW l \in Seq(Urls)
  PROVE  /\ DOMAIN l \subseteq Nat /\ IsFiniteSet(DOMAIN l) /\ ToSet(l) \subseteq Urls
         /\ \A i \in DOMAIN l : l[i] \in ToSet(l)
         /\ \A S \in SUBSET DOMAIN l : IsFiniteSet(S) /\ Cardinality(S) \in Nat
<1>1. DOMAIN l = 1..Len(l) /\ Len(l) \in Nat
  OBVIOUS
<1>2. IsFiniteSet(DOMAIN l)
  BY <1>1, FS_Interval
<1>3. \A S \in SUBSET DOMAIN l : IsFiniteSet(S) /\ Cardinality(S) \in Nat
  BY <1>2, FS_Subset, FS_CardinalityType
<1>4. ToSet(l) \subseteq Urls /\ \A i \in DOMAIN l : l[i] \in ToSet(l)
  BY DEF ToSet
<1>5. QED
  BY <1>1, <1>2, <1>3, <1>4

LEMMA MergedType ==
  ASSUME NEW full \in Known, NEW new \in Known PROVE Merged(full, new) \in Known
  BY DEF Merged, Known

LEMMA TallyType ==
  ASSUME NEW rs \in Seq(Row) PROVE TallyOf(rs) \in Tally
<1>1. IsFiniteSet(1..Len(rs))
  BY FS_Interval
<1>2. \A s \in Status : {i \in DOMAIN rs : rs[i].status = s} \in SUBSET (1..Len(rs))
  OBVIOUS
<1>3. \A s \in Status : Cardinality({i \in DOMAIN rs : rs[i].status = s}) \in Nat
  BY <1>1, <1>2, FS_Subset, FS_CardinalityType
<1>4. QED
  BY <1>3 DEF TallyOf, Tally

\* The rows a check begins with: those of the URLs of which the file says something.
LEMMA SeedRowsAre ==
  ASSUME TypeOK, NEW l \in Lists
  PROVE  /\ SeedRows(l) \in Seq(Row)
         /\ \A i \in DOMAIN SeedRows(l) : SeedRows(l)[i].url \in ToSet(l)
         /\ \A u \in ToSet(l) : saved[Key(l)][u] # Unknown =>
              \E i \in DOMAIN SeedRows(l) : SeedRows(l)[i].url = u
<1> DEFINE k == {i \in DOMAIN l : saved[Key(l)][l[i]] # Unknown}
           s == SetToSeq(k)
<1>1. l \in Seq(Urls)
  BY Constants
<1>2. IsFiniteSet(k)
  BY <1>1, PositionSets
<1>3. s \in Seq(k) /\ \A x \in k : \E i \in DOMAIN s : s[i] = x
  BY <1>2, Listed
<1>4. saved[Key(l)] \in Known
  BY KeyOf DEF TypeOK
<1>5. \A x \in k : l[x] \in ToSet(l) /\ l[x] \in Urls /\ saved[Key(l)][l[x]] \in Status
  BY <1>1, <1>4, PositionSets DEF Known
<1>6. SeedRows(l) = [i \in DOMAIN s |-> [url |-> l[s[i]], status |-> saved[Key(l)][l[s[i]]]]]
  BY DEF SeedRows
<1>7. \A u \in ToSet(l) : saved[Key(l)][u] # Unknown => \E x \in k : l[x] = u
  BY DEF ToSet
<1> HIDE DEF s, k
<1>8. \A i \in DOMAIN s : s[i] \in k
  BY <1>3
<1>9. \A i \in DOMAIN s : [url |-> l[s[i]], status |-> saved[Key(l)][l[s[i]]]] \in Row
  BY <1>5, <1>8 DEF Row
<1>10. DOMAIN s = 1..Len(s) /\ Len(s) \in Nat
  BY <1>3
<1>11. SeedRows(l) \in Seq(Row)
  BY <1>6, <1>9, <1>10
<1>12. \A i \in DOMAIN SeedRows(l) : SeedRows(l)[i].url \in ToSet(l)
  BY <1>5, <1>6, <1>8
<1>13. ASSUME NEW u \in ToSet(l), saved[Key(l)][u] # Unknown
       PROVE  \E i \in DOMAIN SeedRows(l) : SeedRows(l)[i].url = u
  <2>1. PICK x \in k : l[x] = u
    BY <1>7, <1>13
  <2>2. PICK i \in DOMAIN s : s[i] = x
    BY <1>3
  <2>3. QED
    BY <1>6, <2>1, <2>2
<1>14. QED
  BY <1>11, <1>12, <1>13

LEMMA SeedIs ==
  ASSUME TypeOK, NEW l \in Lists
  PROVE  /\ Seed(l) \in Known /\ saved[Key(l)] \in Known
         /\ \A u \in ToSet(l) : u \in Urls /\ Seed(l)[u] = saved[Key(l)][u]
         /\ \A u \in Urls \ ToSet(l) : Seed(l)[u] = Unknown
<1>1. saved[Key(l)] \in Known
  BY KeyOf DEF TypeOK
<1>2. ToSet(l) \subseteq Urls
  BY Constants, PositionSets
<1>3. QED
  BY <1>1, <1>2 DEF Seed, Known

\* Every position that remains is in the queue of one tab.
LEMMA SpreadIs ==
  ASSUME NEW left, NEW n \in 1..MaxTabs
  PROVE  /\ Spread(left, n) \in [Tabs -> SUBSET left]
         /\ \A t1, t2 \in Tabs : \A i \in Spread(left, n)[t1] : i \in Spread(left, n)[t2] => t1 = t2
<1>1. QED
  BY DEF Spread

LEMMA SpreadAll ==
  ASSUME NEW left, IsFiniteSet(left), NEW n \in 1..MaxTabs, NEW i \in left
  PROVE  \E t \in Tabs : i \in Spread(left, n)[t]
<1> DEFINE c == Cardinality({j \in left : j < i})
<1>1. c \in Nat
  <2>1. {j \in left : j < i} \in SUBSET left
    OBVIOUS
  <2>2. QED
    BY <2>1, FS_Subset, FS_CardinalityType
<1> HIDE DEF c
<1>2. n \in Nat \ {0} /\ n <= MaxTabs /\ MaxTabs \in Nat
  BY Constants
<1>3. c % n \in 0..n - 1
  BY <1>1, <1>2, NextModulo
<1>4. c % n \in Tabs
  BY <1>2, <1>3 DEF Tabs
<1>5. i \in Spread(left, n)[c % n]
  BY <1>4 DEF Spread, c
<1>6. QED
  BY <1>4, <1>5

LEMMA ForgetType == ASSUME Forget PROVE
  /\ pc' \in PC /\ urls' \in Seq(Urls) /\ fullSaved' \in Known
  /\ batch' \in [Tabs -> SUBSET DOMAIN urls'] /\ deferred' \subseteq DOMAIN urls'
  /\ again' \in Seq(Urls) /\ died' \in BOOLEAN /\ failed' \in Seq(Urls) /\ rows' \in Seq(Row)
  /\ counts' \in Tally /\ byType' \in Tally /\ results' \in Known /\ saves' \in Nat
<1>1. <<>> \in Seq(Urls) /\ <<>> \in Seq(Row) /\ 0 \in Nat
  OBVIOUS
<1>2. QED
  BY <1>1, Blanks DEF Forget, PC

\* A result entered.
LEMMA OnResultType ==
  ASSUME TypeOK, NEW u \in Urls, NEW s \in Status, OnResult(u, s)
  PROVE  /\ saved' \in [Keys -> Known] /\ failed' \in Seq(Urls) /\ rows' \in Seq(Row)
         /\ counts' \in Tally /\ byType' \in Tally /\ results' \in Known /\ saves' \in Nat
<1>1. failed' \in Seq(Urls) /\ saves' \in Nat
  BY DEF OnResult, TypeOK
<1>2. rows' \in Seq(Row)
  <2>1. [url |-> u, status |-> s] \in Row
    BY DEF Row
  <2>2. QED
    BY <2>1 DEF OnResult, TypeOK
<1>3. counts' \in Tally /\ byType' \in Tally
  BY DEF OnResult, TypeOK, Tally
<1>4. results' \in Known
  BY DEF OnResult, TypeOK, Known
<1>5. saved' \in [Keys -> Known]
  <2>1. Merged(fullSaved, results') \in Known
    BY <1>4, MergedType DEF TypeOK
  <2>2. QED
    BY <2>1 DEF OnResult, Save, TypeOK
<1>6. QED
  BY <1>1, <1>2, <1>3, <1>4, <1>5

LEMMA BeginType ==
  ASSUME TypeOK, NEW l \in Lists, NEW gsc \in BOOLEAN, NEW tabs \in 1..MaxTabs,
         Begin(l, gsc, tabs)
  PROVE  TypeOK'
<1> DEFINE left == Remaining(l)
           n == IF tabs < Cardinality(left) THEN tabs ELSE Cardinality(left)
<1>1. left \in SUBSET DOMAIN l /\ l \in Seq(Urls)
  BY Constants DEF Remaining
<1>2. Cardinality(left) \in Nat
  BY <1>1, PositionSets
<1>3. batch' \in [Tabs -> SUBSET DOMAIN l] /\ pc' \in PC
  <2>1. CASE gsc \/ n <= 1
    <3>1. batch' = [NoBatch EXCEPT ![0] = left] /\ pc' \in {"gsc", "single"}
      BY <2>1 DEF Begin
    <3> HIDE DEF left
    <3>2. NoBatch \in [Tabs -> SUBSET DOMAIN l]
      BY Blanks
    <3>3. QED
      BY <1>1, <3>1, <3>2 DEF PC
  <2>2. CASE ~(gsc \/ n <= 1)
    <3>1. batch' = Spread(left, n) /\ pc' = "tabs"
      BY <2>2 DEF Begin
    <3>2. n \in 1..MaxTabs
      BY <1>2, <2>2, Constants
    <3> HIDE DEF left, n
    <3>3. batch' \in [Tabs -> SUBSET left]
      BY <3>1, <3>2, SpreadIs
    <3>4. QED
      BY <1>1, <3>1, <3>3 DEF PC
  <2>3. QED
    BY <2>1, <2>2
<1>4. /\ rows' \in Seq(Row) /\ counts' \in Tally /\ byType' \in Tally /\ results' \in Known
      /\ fullSaved' \in Known
  BY SeedRowsAre, SeedIs, TallyType DEF Begin
<1>5. checks' \in 0..MaxChecks
  BY Constants DEF Begin, TypeOK
<1>6. /\ saved' = saved /\ disk' = disk /\ history' = history /\ killed' = killed /\ urls' = l
      /\ deferred' = {} /\ again' = <<>> /\ died' = FALSE /\ failed' = <<>> /\ saves' = 0
  BY DEF Begin
<1>7. failed' \in Seq(Urls) /\ again' \in Seq(Urls) /\ saves' \in Nat /\ deferred' \subseteq DOMAIN l
  BY <1>6
<1>8. QED
  BY <1>1, <1>3, <1>4, <1>5, <1>6, <1>7 DEF TypeOK

LEMMA HistoryType ==
  ASSUME TypeOK, NEW e \in Entry
  PROVE  /\ LastOf(Append(history, e)) \in Seq(Entry)
         /\ Len(LastOf(Append(history, e))) <= HistoryLength
<1> DEFINE h == Append(history, e)
<1>1. h \in Seq(Entry) /\ Len(h) \in Nat /\ HistoryLength \in Nat \ {0}
  BY Constants DEF TypeOK
<1> HIDE DEF h
<1>2. CASE Len(h) <= HistoryLength
  BY <1>1, <1>2 DEF LastOf, h
<1>3. CASE ~(Len(h) <= HistoryLength)
  <2>1. /\ Len(h) - HistoryLength + 1 \in 1..Len(h) /\ Len(h) \in 1..Len(h)
    BY <1>1, <1>3
  <2>2. /\ SubSeq(h, Len(h) - HistoryLength + 1, Len(h)) \in Seq(Entry)
        /\ Len(SubSeq(h, Len(h) - HistoryLength + 1, Len(h))) = HistoryLength
    BY <1>1, <2>1, SubSeqProperties
  <2>3. LastOf(h) = SubSeq(h, Len(h) - HistoryLength + 1, Len(h))
    BY <1>3 DEF LastOf
  <2>4. LastOf(h) \in Seq(Entry) /\ Len(LastOf(h)) <= HistoryLength
    BY <1>1, <2>2, <2>3
  <2>5. QED
    BY <2>4 DEF h
<1>4. QED
  BY <1>2, <1>3

\* A step of the second pass, at whatever row.
LEMMA RetryType ==
  ASSUME TypeOK, NEW s \in Status, Retry(s)
  PROVE  /\ saved' \in [Keys -> Known] /\ rows' \in Seq(Row) /\ again' \in Seq(Urls)
         /\ counts' \in Tally /\ results' \in Known /\ saves' \in Nat
<1> DEFINE u == Head(again)
           i == FirstRow(u)
           old == rows[i].status
<1>1. again \in Seq(Urls) /\ again # <<>>
  BY DEF Retry, TypeOK
<1>2. u \in Urls /\ again' \in Seq(Urls)
  BY <1>1, HeadTailProperties DEF Retry
<1>3. saves' \in Nat
  BY DEF Retry, TypeOK
<1>4. rows' = [rows EXCEPT ![i].status = s] /\ results' = [results EXCEPT ![u] = s]
      /\ counts' = Recount(old, s)
  BY DEF Retry
<1> HIDE DEF u, i, old
<1>5. rows' \in Seq(Row)
  <2>1. rows \in Seq(Row) /\ \A j \in DOMAIN rows : rows[j] \in Row
    BY DEF TypeOK
  <2> DEFINE r(j) == IF j = i THEN [rows[j] EXCEPT !.status = s] ELSE rows[j]
  <2>2. \A j \in DOMAIN rows : r(j) \in Row
    BY <1>4, <2>1 DEF Row
  <2>3. rows' = [j \in DOMAIN rows |-> r(j)]
    BY <1>4, <2>1, Zenon
  <2>4. DOMAIN rows = 1..Len(rows) /\ Len(rows) \in Nat
    BY <2>1
  <2> HIDE DEF r
  <2>5. QED
    BY <2>2, <2>3, <2>4
<1>6. counts' \in Tally
  <2> DEFINE c == [counts EXCEPT ![old] = IF @ > 0 THEN @ - 1 ELSE 0]
  <2>1. counts \in [Status -> Nat]
    BY DEF TypeOK, Tally
  <2>2. c \in [Status -> Nat]
    <3>1. \A x \in Status : (IF counts[x] > 0 THEN counts[x] - 1 ELSE 0) \in Nat
      BY <2>1
    <3>2. c = [x \in Status |-> IF x = old THEN IF counts[x] > 0 THEN counts[x] - 1 ELSE 0
                                ELSE counts[x]]
      BY <2>1
    <3>3. QED
      BY <2>1, <3>1, <3>2
  <2>3. counts' = [c EXCEPT ![s] = @ + 1]
    BY <1>4 DEF Recount
  <2> HIDE DEF c
  <2>4. QED
    BY <2>2, <2>3 DEF Tally
<1>7. results' \in Known
  BY <1>2, <1>4 DEF TypeOK, Known
<1>8. saved' \in [Keys -> Known]
  <2>1. Merged(fullSaved, results') \in Known
    BY <1>7, MergedType DEF TypeOK
  <2>2. QED
    BY <2>1 DEF Retry, Save, TypeOK
<1>9. QED
  BY <1>2, <1>3, <1>5, <1>6, <1>7, <1>8

LEMMA FilesType ==
  ASSUME TypeOK, NEW F \in SUBSET File, NEW c,
         disk' = [disk EXCEPT ![c] = @ \cup F] \/ disk' = [disk EXCEPT ![c] = @ \ F]
  PROVE  disk' \in [Checks -> SUBSET File]
  BY DEF TypeOK

LEMMA TypeStep == ASSUME TypeOK, FileInv, [Next]_vars PROVE TypeOK'
<1> USE DEF disks, work, queue, found
<1>0. SerpStatus \subseteq Status /\ Verdict \subseteq Status /\ "GscFailed" \in Status
  BY DEF SerpStatus, Status, Verdict, Failure
<1>1. CASE UNCHANGED vars
  BY <1>1 DEF vars, TypeOK
<1>2. ASSUME NEW l \in Lists, NEW gsc \in BOOLEAN, NEW tabs \in 1..MaxTabs, Begin(l, gsc, tabs)
      PROVE  TypeOK'
  BY <1>2, BeginType
<1>u. \A i \in DOMAIN urls : urls[i] \in Urls
  BY DEF TypeOK
<1>3. ASSUME NEW t \in Tabs, NEW i \in DOMAIN urls, CheckUrl(t, i) PROVE TypeOK'
  <2>1. PICK u \in Urls, s \in Status : OnResult(u, s)
    BY <1>0, <1>3, <1>u DEF CheckUrl
  <2>2. batch' \in [Tabs -> SUBSET DOMAIN urls]
    BY <1>3 DEF CheckUrl, TypeOK
  <2>3. QED
    BY <1>3, <2>1, <2>2, OnResultType DEF CheckUrl, OnResult, TypeOK
<1>4. ASSUME NEW i \in DOMAIN urls, AskGsc(i) PROVE TypeOK'
  <2>1. batch' \in [Tabs -> SUBSET DOMAIN urls]
    BY <1>4 DEF AskGsc, TypeOK
  <2>2. CASE \E s \in Verdict : OnResult(urls[i], s) /\ UNCHANGED deferred
    <3>1. PICK u \in Urls, s \in Status : OnResult(u, s) /\ UNCHANGED deferred
      BY <1>0, <2>2, <1>u
    <3>2. QED
      BY <1>4, <2>1, <3>1, OnResultType DEF AskGsc, OnResult, TypeOK
  <2>3. CASE deferred' = deferred \cup {i} /\ UNCHANGED <<disks, work, found>>
    BY <1>4, <2>1, <2>3 DEF AskGsc, TypeOK
  <2>4. QED
    BY <1>4, <2>2, <2>3 DEF AskGsc
<1>5. ASSUME NEW i \in DOMAIN urls, Defer(i) PROVE TypeOK'
  <2>1. PICK u \in Urls, s \in Status : OnResult(u, s)
    BY <1>0, <1>5, <1>u DEF Defer
  <2>2. deferred' \subseteq DOMAIN urls
    BY <1>5 DEF Defer, TypeOK
  <2>3. QED
    BY <1>5, <2>1, <2>2, OnResultType DEF Defer, OnResult, TypeOK
<1>6. ASSUME NEW t \in Tabs, TabDies(t) PROVE TypeOK'
  BY <1>6 DEF TabDies, TypeOK
<1>7. CASE GscThrough
  BY <1>7 DEF GscThrough, TypeOK, PC
<1>8. CASE Through
  <2>1. pc' \in PC /\ again' \in Seq(Urls)
    BY <1>8 DEF Through, TypeOK, PC
  <2>2. QED
    BY <1>8, <2>1 DEF Through, TypeOK
<1>9. ASSUME NEW s \in SerpStatus, Retry(s) PROVE TypeOK'
  <2>1. s \in Status
    BY <1>0
  <2>2. QED
    BY <1>9, <2>1, RetryType DEF Retry, TypeOK
<1>10. CASE RetryOver
  <2>1. pc' \in PC /\ again' \in Seq(Urls)
    BY <1>10 DEF RetryOver, PC
  <2>2. QED
    BY <1>10, <2>1 DEF RetryOver, TypeOK
<1>11. CASE Unlink
  <2>1. saved' \in [Keys -> Known] /\ pc' \in PC
    BY <1>11, Blanks DEF Unlink, TypeOK, PC
  <2>2. QED
    BY <1>11, <2>1 DEF Unlink, TypeOK
<1>12. CASE WriteCsv
  <2>1. disk' \in [Checks -> SUBSET File] /\ pc' \in PC
    BY <1>12, FilesType DEF WriteCsv, File, PC
  <2>2. QED
    BY <1>12, <2>1 DEF WriteCsv, TypeOK
<1>13. CASE Compare
  <2>1. CASE pc' = "history" /\ UNCHANGED <<work, queue, found>>
    BY <1>13, <2>1 DEF Compare, TypeOK, PC
  <2>2. CASE Forget
    BY <1>13, <2>2, ForgetType DEF Compare, TypeOK
  <2>3. QED
    BY <1>13, <2>1, <2>2 DEF Compare
<1>14. CASE SaveHistory
  <2> DEFINE e == [total |-> Len(rows), indexed |-> counts["Indexed"],
                   notIndexed |-> counts["NotIndexed"]]
  <2>1. e \in Entry
    BY DEF TypeOK, Entry, Tally, Status, Verdict
  <2>2. history' = LastOf(Append(history, e)) /\ pc' \in PC
    BY <1>14 DEF SaveHistory, PC
  <2> HIDE DEF e
  <2>3. history' \in Seq(Entry) /\ Len(history') <= HistoryLength
    BY <2>1, <2>2, HistoryType
  <2>4. QED
    BY <1>14, <2>2, <2>3 DEF SaveHistory, TypeOK
<1>15. CASE WriteExcel
  <2>1. PICK F \in SUBSET File : disk' = [disk EXCEPT ![checks] = @ \cup F] /\ pc' \in PC
    BY <1>15 DEF WriteExcel, File, PC
  <2>2. disk' \in [Checks -> SUBSET File]
    BY <2>1, FilesType
  <2>3. QED
    BY <1>15, <2>1, <2>2 DEF WriteExcel, TypeOK
<1>16. CASE WriteHtml
  <2>1. disk' \in [Checks -> SUBSET File]
    BY <1>16, FilesType DEF WriteHtml, File
  <2>2. QED
    BY <1>16, <2>1, ForgetType DEF WriteHtml, TypeOK
<1>17. CASE ReportFails
  <2>1. disk' \in [Checks -> SUBSET File]
    BY <1>17, FilesType DEF ReportFails, File
  <2>2. QED
    BY <1>17, <2>1, ForgetType DEF ReportFails, TypeOK
<1>18. CASE Abandon
  <2>1. killed' \subseteq Checks
    BY <1>18 DEF Abandon, TypeOK, FileInv
  <2>2. QED
    BY <1>18, <2>1, ForgetType DEF Abandon, TypeOK
<1>19. QED
  BY <1>1, <1>2, <1>3, <1>4, <1>5, <1>6, <1>7, <1>8, <1>9, <1>10, <1>11, <1>12, <1>13,
     <1>14, <1>15, <1>16, <1>17, <1>18 DEF Next, Step

-----------------------------------------------------------------------------
(* What the steps preserve: beginning and ending.                           *)

LEMMA CountNone == NoCounts = TallyOf(<<>>)
<1>1. \A s \in Status : {i \in DOMAIN <<>> : <<>>[i].status = s} = {}
  OBVIOUS
<1>2. \A s \in Status : Cardinality({i \in DOMAIN <<>> : <<>>[i].status = s}) = 0
  BY <1>1, FS_EmptySet
<1>3. QED
  BY <1>2 DEF NoCounts, TallyOf

LEMMA ForgetKept == ASSUME Forget PROVE WorkInv'
<1>1. /\ pc' = "idle" /\ urls' = <<>> /\ deferred' = {} /\ rows' = <<>> /\ counts' = NoCounts
      /\ byType' = NoCounts /\ died' = FALSE /\ \A t \in Tabs : batch'[t] = {}
  BY DEF Forget, NoBatch
<1>2. \A i : ~Queued(i)'
  BY <1>1 DEF Queued
<1>3. DOMAIN urls' = {} /\ urls_set' = {}
  BY <1>1 DEF urls_set, ToSet
<1>4. PhaseInv' /\ QueueInv' /\ SecondPassInv' /\ ProgressInv' /\ IdleInv'
  BY <1>1, <1>2, <1>3 DEF PhaseInv, QueueInv, SecondPassInv, ProgressInv, IdleInv, Checking,
                          Ending, Reporting
<1>5. RowInv'
  <2>1. DOMAIN rows' = {}
    BY <1>1
  <2>2. CountsMatchRows'
    BY <1>1, CountNone DEF CountsMatchRows
  <2>3. QED
    BY <1>3, <2>1, <2>2 DEF RowInv
<1>6. QED
  BY <1>4, <1>5 DEF WorkInv

\* What is queued when a check begins is what remains of it.
LEMMA BeginQueue ==
  ASSUME TypeOK, NEW l \in Lists, NEW gsc \in BOOLEAN, NEW tabs \in 1..MaxTabs,
         Begin(l, gsc, tabs)
  PROVE  /\ pc' \in {"gsc", "single", "tabs"} /\ deferred' = {}
         /\ pc' = "gsc" => \A t \in Tabs \ {0} : batch'[t] = {}
         /\ \A i : Queued(i)' <=> i \in Remaining(l)
         /\ \A t1, t2 \in Tabs : \A i \in batch'[t1] : i \in batch'[t2] => t1 = t2
<1> DEFINE left == Remaining(l)
           n == IF tabs < Cardinality(left) THEN tabs ELSE Cardinality(left)
<1>1. l \in Seq(Urls) /\ left \in SUBSET DOMAIN l
  BY Constants DEF Remaining
<1>2. IsFiniteSet(left) /\ Cardinality(left) \in Nat
  BY <1>1, PositionSets
<1>3. deferred' = {}
  BY DEF Begin
<1>4. CASE gsc \/ n <= 1
  <2>1. batch' = [NoBatch EXCEPT ![0] = left] /\ pc' \in {"gsc", "single"}
    BY <1>4 DEF Begin
  <2> HIDE DEF left
  <2>2. batch'[0] = left /\ \A t \in Tabs \ {0} : batch'[t] = {}
    BY <2>1, Constants DEF NoBatch
  <2>3. QED
    BY <1>3, <2>1, <2>2, Constants DEF Queued, left
<1>5. CASE ~(gsc \/ n <= 1)
  <2>1. batch' = Spread(left, n) /\ pc' = "tabs"
    BY <1>5 DEF Begin
  <2>2. n \in 1..MaxTabs
    BY <1>2, <1>5, Constants
  <2> HIDE DEF left, n
  <2>3. /\ \A t \in Tabs : batch'[t] \subseteq left
        /\ \A t1, t2 \in Tabs : \A i \in batch'[t1] : i \in batch'[t2] => t1 = t2
    BY <2>1, <2>2, SpreadIs
  <2>4. \A i \in left : \E t \in Tabs : i \in batch'[t]
    BY <1>2, <2>1, <2>2, SpreadAll
  <2>5. QED
    BY <1>3, <2>1, <2>3, <2>4 DEF Queued, left
<1>6. QED
  BY <1>4, <1>5

LEMMA BeginKept ==
  ASSUME TypeOK, NEW l \in Lists, NEW gsc \in BOOLEAN, NEW tabs \in 1..MaxTabs,
         Begin(l, gsc, tabs)
  PROVE  WorkInv'
<1>1. /\ urls' = l /\ fullSaved' = saved[Key(l)] /\ saved' = saved /\ died' = FALSE
      /\ rows' = SeedRows(l) /\ counts' = TallyOf(SeedRows(l)) /\ byType' = counts'
      /\ results' = Seed(l) /\ failed' = <<>> /\ saves' = 0
  BY DEF Begin
<1>2. /\ urls_set' = ToSet(l) /\ l # <<>> /\ l \in Seq(Urls)
      /\ \A i \in DOMAIN l : l[i] \in ToSet(l)
  BY <1>1, Constants, PositionSets DEF urls_set
<1>3. \A i : Queued(i)' <=> i \in DOMAIN l /\ saved[Key(l)][l[i]] \notin Verdict
  BY BeginQueue DEF Remaining
<1>4. pc' \in {"gsc", "single", "tabs"} /\ deferred' = {}
  BY BeginQueue
<1>5. \A u : Pending(u)' <=> u \in ToSet(l) /\ saved[Key(l)][u] \notin Verdict
  BY <1>1, <1>3 DEF Pending, ToSet
<1>6. PhaseInv' /\ IdleInv'
  BY <1>4, BeginQueue DEF PhaseInv, IdleInv, Ending, Reporting
<1>7. QueueInv'
  <2>1. \A i \in DOMAIN urls' : Queued(i)' => fullSaved'[urls'[i]] \notin Verdict
    BY <1>1, <1>3
  <2>2. \A u \in urls_set' : Pending(u)' => results'[u] \notin Verdict
    BY <1>1, <1>2, <1>5, SeedIs
  <2>3. QED
    BY <1>4, <2>1, <2>2, BeginQueue DEF QueueInv
<1>8. SecondPassInv'
  <2>1. DOMAIN failed' = {} /\ pc' # "retry"
    BY <1>1, <1>4
  <2>2. FailedInv(failed)'
    BY <2>1 DEF FailedInv
  <2>3. QED
    BY <2>1, <2>2 DEF SecondPassInv
<1>9. RowInv'
  <2>1. \A i \in DOMAIN rows' : rows'[i].url \in urls_set'
    BY <1>1, <1>2, SeedRowsAre
  <2>2. ASSUME NEW u \in ToSet(l), ~Pending(u)' PROVE HasRow(u)' /\ Seed(l)[u] # Unknown
    <3>1. saved[Key(l)][u] # Unknown
      BY <1>5, <2>2 DEF Verdict, Unknown
    <3>2. QED
      BY <1>1, <3>1, SeedRowsAre, SeedIs DEF HasRow
  <2>3. QED
    BY <1>1, <1>2, <2>1, <2>2 DEF RowInv, CountsMatchRows
<1>10. ProgressInv'
  <2>1. Unsaved' = {}
    BY <1>1, <1>2, SeedIs DEF Unsaved
  <2>2. Cardinality(Unsaved') = 0 /\ saves' % SaveEvery \in Nat
    BY <1>1, <2>1, FS_EmptySet, NextModulo, Constants
  <2>3. Cardinality(Unsaved)' <= saves' % SaveEvery
    BY <2>2
  <2>4. QED
    BY <1>1, <1>2, <2>3, SeedIs DEF ProgressInv
<1>11. QED
  BY <1>6, <1>7, <1>8, <1>9, <1>10 DEF WorkInv

LEMMA InitKept == Init => TypeOK /\ WorkInv /\ FileInv
<1> SUFFICES ASSUME Init PROVE TypeOK /\ WorkInv /\ FileInv
  OBVIOUS
<1>1. TypeOK
  <2>1. <<>> \in Seq(Urls) /\ <<>> \in Seq(Row) /\ <<>> \in Seq(Entry) /\ Len(<<>>) = 0
    OBVIOUS
  <2>2. QED
    BY <2>1, Blanks, Constants DEF Init, TypeOK, PC
<1>2. (\A i : ~Queued(i)) /\ DOMAIN urls = {} /\ urls_set = {}
  BY DEF Init, Queued, NoBatch, urls_set, ToSet
<1>3. PhaseInv /\ QueueInv /\ SecondPassInv /\ ProgressInv /\ IdleInv
  BY <1>2 DEF Init, NoBatch, PhaseInv, QueueInv, SecondPassInv, ProgressInv, IdleInv, Checking,
              Ending, Reporting
<1>4. RowInv
  BY <1>2, CountNone DEF Init, RowInv, CountsMatchRows
<1>5. FileInv
  BY Constants DEF Init, FileInv, Checks
<1>6. QED
  BY <1>1, <1>3, <1>4, <1>5 DEF WorkInv

-----------------------------------------------------------------------------
(* A result entered: in the counters, and in the progress file.             *)

\* Counting one more row.
LEMMA TallyMore ==
  ASSUME NEW rs \in Seq(Row), NEW r \in Row
  PROVE  TallyOf(Append(rs, r)) = [TallyOf(rs) EXCEPT ![r.status] = @ + 1]
<1> DEFINE q == Append(rs, r)
           Of(f, x) == {i \in DOMAIN f : f[i].status = x}
           n == Len(rs)
<1>1. /\ n \in Nat /\ DOMAIN rs = 1..n /\ DOMAIN q = 1..n + 1 /\ q[n + 1] = r
      /\ \A i \in 1..n : q[i] = rs[i]
  OBVIOUS
<1> HIDE DEF q, n
<1>2. IsFiniteSet(1..n)
  BY <1>1, FS_Interval
<1>3. ASSUME NEW x \in Status
      PROVE  Cardinality(Of(q, x)) = Cardinality(Of(rs, x)) + (IF x = r.status THEN 1 ELSE 0)
  <2>1. IsFiniteSet(Of(rs, x)) /\ n + 1 \notin Of(rs, x) /\ Cardinality(Of(rs, x)) \in Nat
    <3>1. Of(rs, x) \in SUBSET (1..n) /\ n + 1 \notin 1..n
      BY <1>1
    <3>2. QED
      BY <1>2, <3>1, FS_Subset, FS_CardinalityType
  <2>2. CASE x = r.status
    <3>1. Of(q, x) = Of(rs, x) \cup {n + 1}
      BY <1>1, <2>2
    <3> HIDE DEF Of
    <3>2. QED
      BY <2>1, <2>2, <3>1, FS_AddElement
  <2>3. CASE x # r.status
    <3>1. Of(q, x) = Of(rs, x)
      BY <1>1, <2>3
    <3> HIDE DEF Of
    <3>2. QED
      BY <2>1, <2>3, <3>1
  <2>4. QED
    BY <2>2, <2>3
<1>4. TallyOf(q) = [x \in Status |-> Cardinality(Of(q, x))]
      /\ TallyOf(rs) = [x \in Status |-> Cardinality(Of(rs, x))]
  BY DEF TallyOf
<1>5. \A x \in Status : Cardinality(Of(rs, x)) \in Nat
  <2>1. \A x \in Status : Of(rs, x) \in SUBSET (1..n)
    BY <1>1
  <2> HIDE DEF Of
  <2>2. QED
    BY <1>2, <2>1, FS_Subset, FS_CardinalityType
<1> HIDE DEF Of
<1>6. \A x \in Status : TallyOf(q)[x] = IF x = r.status THEN TallyOf(rs)[x] + 1 ELSE TallyOf(rs)[x]
  BY <1>3, <1>4, <1>5
<1>7. TallyOf(q) = [x \in Status |-> IF x = r.status THEN TallyOf(rs)[x] + 1 ELSE TallyOf(rs)[x]]
  BY <1>4, <1>6
<1>8. TallyOf(q) = [TallyOf(rs) EXCEPT ![r.status] = @ + 1]
  BY <1>4, <1>7
<1>9. QED
  BY <1>8 DEF q

\* What is not in the progress file is at most what was entered since it was saved,
\* of the URLs of this check; of others it says what it did when the check began.
LEMMA SavedKept ==
  ASSUME TypeOK, ProgressInv, pc \in Checking \cup Ending, NEW u \in urls_set, NEW s \in Status,
         results' = [results EXCEPT ![u] = s], saves' = saves + 1, Save(results'),
         UNCHANGED work, pc' = pc
  PROVE  ProgressInv'
<1> DEFINE k == Key(urls)
<1>1. /\ urls \in Lists /\ urls' = urls /\ urls_set' = urls_set /\ fullSaved' = fullSaved
      /\ saved \in [Keys -> Known] /\ results \in Known /\ fullSaved \in Known
      /\ saves \in Nat /\ SaveEvery \in Nat \ {0}
  BY Constants DEF TypeOK, ProgressInv, work, urls_set
<1>u. u \in Urls /\ urls_set \in SUBSET Urls
  BY <1>1, Constants, PositionSets DEF urls_set
<1>2. k \in Keys /\ Key(urls)' = k
  BY <1>1, KeyOf
<1> HIDE DEF k
<1>3. /\ \A v \in Urls \ urls_set : results[v] = Unknown /\ saved[k][v] = fullSaved[v]
      /\ \A v \in urls_set : results[v] = Unknown => fullSaved[v] = Unknown
      /\ Cardinality(Unsaved) <= saves % SaveEvery
  BY DEF ProgressInv, k
<1>4. /\ \A v \in Urls : results'[v] = IF v = u THEN s ELSE results[v]
      /\ s # Unknown
  BY <1>1, <1>u DEF Known, Status, Verdict, Unknown
<1>5. Unsaved' = {v \in urls_set : results'[v] # saved'[k][v]}
  BY <1>1, <1>2 DEF Unsaved, k
<1>6. IsFiniteSet(Unsaved) /\ Cardinality(Unsaved) \in Nat
  BY <1>u, UrlSets DEF Unsaved
<1>7. saves' % SaveEvery \in Nat
  BY <1>1, NextModulo
<1>8. CASE saves' % SaveEvery = 0
  <2>1. saved'[k] = Merged(fullSaved, results')
    BY <1>1, <1>2, <1>8 DEF Save, k
  <2>2. \A v \in Urls : saved'[k][v] = IF results'[v] = Unknown THEN fullSaved[v] ELSE results'[v]
    BY <2>1 DEF Merged
  <2>3. Unsaved' = {}
    BY <1>u, <1>3, <1>4, <1>5, <2>2
  <2>4. Cardinality(Unsaved') <= saves' % SaveEvery
    BY <1>8, <2>3, FS_EmptySet
  <2>5. QED
    BY <1>u, <1>1, <1>2, <1>3, <1>4, <2>2, <2>4 DEF ProgressInv
<1>9. CASE saves' % SaveEvery # 0
  <2>1. saved' = saved
    BY <1>9 DEF Save
  <2>2. saves' % SaveEvery = (saves % SaveEvery) + 1
    BY <1>1, <1>9, NextModulo
  <2>3. Unsaved' \subseteq Unsaved \cup {u}
    BY <1>u, <1>4, <1>5, <2>1 DEF Unsaved, k
  <2>4. /\ IsFiniteSet(Unsaved \cup {u})
        /\ Cardinality(Unsaved \cup {u}) <= Cardinality(Unsaved) + 1
        /\ Cardinality(Unsaved \cup {u}) \in Nat
    <3>1. CASE u \in Unsaved
      <4> DEFINE w == Unsaved \cup {u}
      <4>1. w = Unsaved
        BY <3>1
      <4> HIDE DEF w
      <4>2. IsFiniteSet(w) /\ Cardinality(w) <= Cardinality(Unsaved) + 1 /\ Cardinality(w) \in Nat
        BY <1>6, <4>1
      <4>3. QED
        BY <4>2 DEF w
    <3>2. CASE u \notin Unsaved
      BY <1>6, <3>2, FS_AddElement
    <3>3. QED
      BY <3>1, <3>2
  <2>5. Cardinality(Unsaved') <= Cardinality(Unsaved \cup {u}) /\ Cardinality(Unsaved') \in Nat
    BY <2>3, <2>4, FS_Subset, FS_CardinalityType
  <2>6. Cardinality(Unsaved') <= saves' % SaveEvery
    <3> DEFINE a == saves % SaveEvery
               b == saves' % SaveEvery
    <3>1. a \in Nat /\ b = a + 1 /\ Cardinality(Unsaved) <= a
      BY <1>1, <1>3, <2>2, NextModulo
    <3> HIDE DEF a, b
    <3>2. Cardinality(Unsaved') <= b
      BY <1>6, <2>4, <2>5, <3>1
    <3>3. QED
      BY <3>2 DEF b
  <2>7. QED
    BY <1>u, <1>1, <1>2, <1>3, <1>4, <2>1, <2>6 DEF ProgressInv, k
<1>10. QED
  BY <1>8, <1>9

LEMMA EnteredKept ==
  ASSUME TypeOK, WorkInv, NEW i \in DOMAIN urls, NEW s \in Status, OnResult(urls[i], s), Queued(i),
         pc \in Checking, pc' = pc, died' = died,
         \A j : Queued(j)' <=> Queued(j) /\ j # i,
         \A t \in Tabs : batch'[t] \subseteq batch[t], deferred' \subseteq deferred
  PROVE  WorkInv'
<1> USE DEF WorkInv
<1>0. PICK u : u = urls[i] /\ OnResult(u, s)
  OBVIOUS
<1>1. /\ u \in urls_set /\ u \in Urls /\ urls' = urls /\ urls_set' = urls_set /\ fullSaved' = fullSaved
      /\ urls_set \subseteq Urls /\ fullSaved[u] \notin Verdict
  BY <1>0, PositionSets DEF QueueInv, OnResult, work, TypeOK, urls_set
<1>2. \A v \in Urls : results'[v] = IF v = u THEN s ELSE results[v]
  BY <1>0, <1>1 DEF OnResult, TypeOK, Known
<1>t. \A v : NamedTwice(v)' <=> NamedTwice(v)
  BY <1>1 DEF NamedTwice
<1>p. /\ \A v : Pending(v)' => Pending(v)
      /\ \A v : v # u => (Pending(v)' <=> Pending(v))
      /\ Pending(u)' => NamedTwice(u)
  BY <1>0, <1>1 DEF Pending, NamedTwice
<1>q. Pending(u)
  BY <1>0 DEF Pending
<1>3. PhaseInv'
  BY DEF PhaseInv, Checking, Ending, Reporting
<1>4. QueueInv'
  <2>1. \A v \in urls_set : Pending(v)' /\ ~NamedTwice(v) => results'[v] \notin Verdict
    BY <1>1, <1>2, <1>p DEF QueueInv
  <2>2. \A t1, t2 \in Tabs : \A j \in batch'[t1] : j \in batch'[t2] => t1 = t2
    BY DEF QueueInv
  <2>3. \A t \in Tabs : \A j \in batch'[t] : j \notin deferred'
    BY DEF QueueInv
  <2>4. \A j \in DOMAIN urls : Queued(j)' => fullSaved[urls[j]] \notin Verdict
    BY DEF QueueInv
  <2>5. QED
    BY <1>1, <1>t, <2>1, <2>2, <2>3, <2>4 DEF QueueInv
<1>5. /\ rows' = Append(rows, [url |-> u, status |-> s]) /\ rows \in Seq(Row)
      /\ [url |-> u, status |-> s] \in Row
  BY <1>0, <1>1 DEF OnResult, TypeOK, Row
<1>6. /\ DOMAIN rows = 1..Len(rows) /\ Len(rows) \in Nat /\ DOMAIN rows' = 1..Len(rows) + 1
      /\ rows'[Len(rows) + 1].url = u /\ \A j \in DOMAIN rows : rows'[j] = rows[j]
  BY <1>5
<1>7. HasRow(u)' /\ \A v : HasRow(v) => HasRow(v)'
  BY <1>6 DEF HasRow
<1>8. SecondPassInv'
  <2>1. FailedInv(failed) /\ failed \in Seq(Urls)
    BY DEF SecondPassInv, TypeOK
  <2>2. ASSUME NEW j \in DOMAIN failed, NEW f, f = failed[j]
        PROVE  /\ f \in urls_set /\ HasRow(f)' /\ fullSaved[f] \notin Verdict
               /\ ~NamedTwice(f) => /\ f # u /\ results'[f] = "Error" /\ ~Pending(f)'
                                    /\ \A m \in DOMAIN failed : failed[m] = f => m = j
    <3>1. /\ f \in urls_set /\ HasRow(f) /\ fullSaved[f] \notin Verdict
          /\ ~NamedTwice(f) => /\ results[f] = "Error" /\ ~Pending(f)
                               /\ \A m \in DOMAIN failed : failed[m] = f => m = j
      BY <2>1, <2>2 DEF FailedInv
    <3>2. ~NamedTwice(f) => f # u
      BY <1>q, <3>1
    <3>3. QED
      BY <1>1, <1>2, <1>7, <1>p, <3>1, <3>2
  <2>3. CASE s \notin Failure
    <3>1. failed' = failed
      BY <1>0, <2>3 DEF OnResult
    <3>2. FailedInv(failed)'
      BY <1>1, <1>t, <2>2, <3>1 DEF FailedInv
    <3>3. QED
      BY <3>2 DEF SecondPassInv, Checking
  <2>4. CASE s \in Failure
    <3>1. failed' = Append(failed, u) /\ s = "Error"
      BY <1>0, <2>4 DEF OnResult, Failure
    <3>2. /\ DOMAIN failed = 1..Len(failed) /\ DOMAIN failed' = 1..Len(failed) + 1
          /\ Len(failed) \in Nat /\ failed'[Len(failed) + 1] = u
          /\ \A j \in DOMAIN failed : failed'[j] = failed[j]
      BY <2>1, <3>1
    <3>3. ASSUME NEW j \in DOMAIN failed', NEW f, f = failed'[j]
          PROVE  /\ f \in urls_set /\ HasRow(f)' /\ fullSaved[f] \notin Verdict
                 /\ ~NamedTwice(f) => /\ results'[f] = "Error" /\ ~Pending(f)'
                                      /\ \A m \in DOMAIN failed' : failed'[m] = f => m = j
      <4>1. CASE j \in DOMAIN failed
        <5>1. f = failed[j]
          BY <3>2, <3>3, <4>1
        <5>2. /\ f \in urls_set /\ HasRow(f)' /\ fullSaved[f] \notin Verdict
              /\ ~NamedTwice(f) => /\ f # u /\ results'[f] = "Error" /\ ~Pending(f)'
                                   /\ \A m \in DOMAIN failed : failed[m] = f => m = j
          BY <2>2, <4>1, <5>1
        <5>3. ~NamedTwice(f) => \A m \in DOMAIN failed' : failed'[m] = f => m = j
          BY <3>2, <5>2
        <5>4. QED
          BY <5>2, <5>3
      <4>2. CASE j = Len(failed) + 1
        <5>1. f = u
          BY <3>2, <3>3, <4>2
        <5>2. ~NamedTwice(u) => \A m \in DOMAIN failed : failed[m] # u
          BY <2>2
        <5>3. ~NamedTwice(u) => \A m \in DOMAIN failed' : failed'[m] = u => m = j
          BY <3>2, <4>2, <5>2
        <5>4. QED
          BY <1>1, <1>2, <1>7, <1>p, <3>1, <5>1, <5>3
      <4>3. QED
        BY <3>2, <4>1, <4>2
    <3>4. FailedInv(failed)'
      BY <1>1, <1>t, <3>3 DEF FailedInv
    <3>5. QED
      BY <3>4 DEF SecondPassInv, Checking
  <2>5. QED
    BY <2>3, <2>4
<1>9. RowInv'
  <2>1. \A j \in DOMAIN rows' : rows'[j].url \in urls_set'
    <3>1. \A j \in DOMAIN rows' : j \in DOMAIN rows \/ j = Len(rows) + 1
      BY <1>6
    <3>2. QED
      BY <1>1, <1>6, <3>1 DEF RowInv
  <2>2. CountsMatchRows'
    <3>1. /\ counts' = [counts EXCEPT ![s] = @ + 1] /\ byType' = [byType EXCEPT ![s] = @ + 1]
          /\ failed' = failed \/ failed' = Append(failed, u)
      BY <1>0 DEF OnResult
    <3>2. failed' = <<>> => failed = <<>>
      <4>1. failed \in Seq(Urls)
        BY DEF TypeOK
      <4>2. QED
        BY <1>1, <3>1, <4>1
    <3>3. counts' = TallyOf(rows')
      BY <1>5, <3>1, TallyMore DEF RowInv, CountsMatchRows
    <3>4. QED
      BY <3>1, <3>2, <3>3 DEF RowInv, CountsMatchRows
  <2>3. ASSUME ~died, NEW v \in urls_set PROVE Pending(v)' \/ (HasRow(v)' /\ results'[v] # Unknown)
    <3>1. CASE v = u
      BY <1>1, <1>2, <1>7, <3>1 DEF Status, Verdict, Unknown
    <3>2. CASE v # u
      BY <1>1, <1>2, <1>7, <1>p, <2>3, <3>2 DEF RowInv
    <3>3. QED
      BY <3>1, <3>2
  <2>4. QED
    BY <1>1, <2>1, <2>2, <2>3 DEF RowInv
<1>10. ProgressInv'
  <2>1. /\ results' = [results EXCEPT ![u] = s] /\ saves' = saves + 1 /\ Save(results')
        /\ UNCHANGED work
    BY <1>0 DEF OnResult
  <2>2. QED
    BY <1>1, <2>1, SavedKept
<1>11. IdleInv'
  BY DEF IdleInv, Checking
<1>12. QED
  BY <1>3, <1>4, <1>8, <1>9, <1>10, <1>11

-----------------------------------------------------------------------------
(* The second pass.                                                         *)

\* The row that is rewritten is one of the URL.
LEMMA FirstRowIs ==
  ASSUME rows \in Seq(Row), NEW u, HasRow(u)
  PROVE  FirstRow(u) \in DOMAIN rows /\ rows[FirstRow(u)].url = u
<1> DEFINE S == {i \in DOMAIN rows : rows[i].url = u}
<1>1. S \in SUBSET Nat /\ S # {} /\ DOMAIN rows \subseteq Nat
      /\ DOMAIN rows = 1..Len(rows) /\ Len(rows) \in Nat
  BY DEF HasRow
<1>2. PICK n \in S : \A m \in S : n <= m
  BY <1>1, Least
<1>3. n \in DOMAIN rows /\ rows[n].url = u /\ n \in Nat
  BY <1>1
<1>4. \A j \in 1..(n - 1) : rows[j].url # u
  <2> SUFFICES ASSUME NEW j \in 1..(n - 1), rows[j].url = u PROVE FALSE
    OBVIOUS
  <2>1. j \in S
    BY <1>1, <1>3
  <2>2. QED
    BY <1>2, <1>3, <2>1
<1>5. \E i \in DOMAIN rows : rows[i].url = u /\ \A j \in 1..(i - 1) : rows[j].url # u
  BY <1>3, <1>4
<1>6. QED
  BY <1>5 DEF FirstRow

\* A row that changes its status moves from one count to the other.
LEMMA TallyMoved ==
  ASSUME NEW rs \in Seq(Row), NEW i \in DOMAIN rs, NEW s \in Status, NEW q \in Seq(Row),
         DOMAIN q = DOMAIN rs, q[i].status = s, \A j \in DOMAIN rs : j # i => q[j] = rs[j]
  PROVE  TallyOf(q) = [[TallyOf(rs) EXCEPT ![rs[i].status] = IF @ > 0 THEN @ - 1 ELSE 0]
                         EXCEPT ![s] = @ + 1]
<1> DEFINE Of(f, x) == {j \in DOMAIN f : f[j].status = x}
           old == rs[i].status
           n == Len(rs)
<1>1. n \in Nat /\ DOMAIN rs = 1..n /\ old \in Status
  <2>1. rs[i] \in Row
    OBVIOUS
  <2>2. QED
    BY <2>1 DEF Row
<1>2. IsFiniteSet(1..n)
  BY <1>1, FS_Interval
<1>3. \A x \in Status : Of(rs, x) \in SUBSET (1..n)
  BY <1>1
<1> HIDE DEF n
<1>4. \A x \in Status : IsFiniteSet(Of(rs, x)) /\ Cardinality(Of(rs, x)) \in Nat
  <2> HIDE DEF Of
  <2>1. QED
    BY <1>2, <1>3, FS_Subset, FS_CardinalityType
<1>5. i \in Of(rs, old)
  OBVIOUS
<1>6. Cardinality(Of(rs, old)) \in Nat \ {0}
  <2> HIDE DEF Of
  <2>1. Of(rs, old) # {}
    BY <1>5
  <2>2. QED
    BY <1>1, <1>4, <2>1, FS_EmptySet
<1>7. ASSUME NEW x \in Status
      PROVE  Cardinality(Of(q, x)) =
               IF x = s THEN IF x = old THEN Cardinality(Of(rs, x)) ELSE Cardinality(Of(rs, x)) + 1
               ELSE IF x = old THEN Cardinality(Of(rs, x)) - 1 ELSE Cardinality(Of(rs, x))
  <2>1. CASE x = s <=> x = old
    <3>1. Of(q, x) = Of(rs, x)
      BY <2>1
    <3> HIDE DEF Of
    <3>2. QED
      BY <1>4, <2>1, <3>1
  <2>2. CASE x = s /\ x # old
    <3>1. Of(q, x) = Of(rs, x) \cup {i} /\ i \notin Of(rs, x)
      BY <2>2
    <3> HIDE DEF Of
    <3>2. Cardinality(Of(q, x)) = Cardinality(Of(rs, x)) + 1
      BY <1>4, <3>1, FS_AddElement
    <3>3. QED
      BY <2>2, <3>2
  <2>3. CASE x # s /\ x = old
    <3>1. Of(q, x) = Of(rs, x) \ {i} /\ i \in Of(rs, x)
      BY <2>3
    <3> HIDE DEF Of
    <3>2. Cardinality(Of(rs, x) \ {i}) = Cardinality(Of(rs, x)) - 1
      BY <1>4, <3>1, FS_RemoveElement
    <3>3. QED
      BY <2>3, <3>1, <3>2
  <2>4. QED
    BY <2>1, <2>2, <2>3
<1>8. TallyOf(q) = [x \in Status |-> Cardinality(Of(q, x))]
      /\ TallyOf(rs) = [x \in Status |-> Cardinality(Of(rs, x))]
  BY DEF TallyOf
<1> HIDE DEF Of, old
<1> DEFINE t == TallyOf(rs)
           a == [t EXCEPT ![old] = IF @ > 0 THEN @ - 1 ELSE 0]
           b == [a EXCEPT ![s] = @ + 1]
<1>9. /\ t \in [Status -> Nat] /\ \A x \in Status : t[x] = Cardinality(Of(rs, x))
      /\ t[old] > 0
  BY <1>1, <1>4, <1>6, <1>8
<1> HIDE DEF t
<1>10. /\ DOMAIN a = Status /\ a = [x \in Status |-> a[x]]
       /\ \A x \in Status : a[x] = IF x = old THEN t[x] - 1 ELSE t[x]
  <2>1. a = [t EXCEPT ![old] = t[old] - 1]
    BY <1>1, <1>9
  <2> HIDE DEF a
  <2>2. QED
    BY <1>1, <1>9, <2>1
<1> HIDE DEF a
<1>11. b = [x \in Status |-> IF x = s THEN a[x] + 1 ELSE a[x]]
  BY <1>10
<1>12. \A x \in Status : TallyOf(q)[x] = IF x = s THEN a[x] + 1 ELSE a[x]
  BY <1>6, <1>7, <1>8, <1>9, <1>10
<1>13. TallyOf(q) = b
  BY <1>8, <1>11, <1>12
<1>14. QED
  BY <1>13 DEF a, b, t, old

LEMMA RetryKept ==
  ASSUME TypeOK, WorkInv, NEW s \in Status, Retry(s)
  PROVE  WorkInv'
<1> USE DEF WorkInv
<1>1. /\ again \in Seq(Urls) /\ again # <<>> /\ pc = "retry" /\ pc' = pc /\ again' = Tail(again)
      /\ urls' = urls /\ urls_set' = urls_set /\ died' = died /\ urls_set \subseteq Urls
      /\ batch' = batch /\ deferred' = deferred /\ failed' = failed /\ byType' = byType
      /\ fullSaved' = fullSaved
  BY PositionSets DEF Retry, TypeOK, work, urls_set
<1>2. PICK u : u = Head(again)
  OBVIOUS
<1>3. /\ 1 \in DOMAIN again /\ u = again[1] /\ again' \in Seq(Urls)
      /\ Len(again') = Len(again) - 1 /\ Len(again) \in Nat
      /\ \A i \in DOMAIN again' : i + 1 \in DOMAIN again /\ i + 1 # 1 /\ again'[i] = again[i + 1]
  <2>1. /\ again' \in Seq(Urls) /\ Len(again') = Len(again) - 1
        /\ \A i \in 1..Len(again') : again'[i] = again[i + 1]
    BY <1>1, HeadTailProperties
  <2>2. QED
    BY <1>1, <1>2, <2>1
<1>4. FailedInv(again) /\ failed # <<>>
  BY <1>1 DEF SecondPassInv
<1>5. u \in urls_set /\ u \in Urls /\ HasRow(u)
  BY <1>1, <1>3, <1>4 DEF FailedInv
<1>6. PICK i : i = FirstRow(u)
  OBVIOUS
<1>7. rows \in Seq(Row) /\ i \in DOMAIN rows /\ rows[i].url = u /\ rows[i] \in Row
  BY <1>5, <1>6, FirstRowIs DEF TypeOK
<1>8. /\ counts' = Recount(rows[i].status, s) /\ rows' = [rows EXCEPT ![i].status = s]
      /\ results' = [results EXCEPT ![u] = s] /\ saves' = saves + 1 /\ Save(results')
      /\ UNCHANGED work
  BY <1>2, <1>6 DEF Retry
<1>9. rows' \in Seq(Row)
  BY RetryType
<1>10. /\ DOMAIN rows' = DOMAIN rows /\ rows'[i].status = s
       /\ \A j \in DOMAIN rows : rows'[j].url = rows[j].url /\ (j # i => rows'[j] = rows[j])
  <2>1. rows' = [rows EXCEPT ![i] = [rows[i] EXCEPT !.status = s]]
    BY <1>7, <1>8
  <2>2. [rows[i] EXCEPT !.status = s].status = s /\ [rows[i] EXCEPT !.status = s].url = rows[i].url
    BY <1>7 DEF Row
  <2>3. QED
    BY <1>7, <2>1, <2>2
<1>11. \A v : HasRow(v)' <=> HasRow(v)
  BY <1>10 DEF HasRow
<1>12. /\ \A v : (Pending(v)' <=> Pending(v)) /\ (NamedTwice(v)' <=> NamedTwice(v))
       /\ \A j : Queued(j)' <=> Queued(j)
  BY <1>1 DEF Pending, Queued, NamedTwice
<1>13. \A v \in Urls : results'[v] = IF v = u THEN s ELSE results[v]
  BY <1>5, <1>8 DEF TypeOK, Known
<1>14. (\A j \in DOMAIN urls : ~Queued(j)) /\ \A v : ~Pending(v)
  BY <1>1 DEF PhaseInv, Ending, Pending
<1>15. PhaseInv'
  BY <1>1, <1>12, <1>14 DEF PhaseInv
<1>16. QueueInv'
  BY <1>1, <1>12, <1>14 DEF QueueInv
<1>17. SecondPassInv'
  <2>1. ASSUME NEW j \in DOMAIN again', NEW f, f = again'[j]
        PROVE  /\ f \in urls_set /\ HasRow(f)' /\ fullSaved[f] \notin Verdict
               /\ ~NamedTwice(f) => /\ results'[f] = "Error" /\ ~Pending(f)'
                                    /\ \A m \in DOMAIN again' : again'[m] = f => m = j
    <3>1. f = again[j + 1] /\ j + 1 \in DOMAIN again /\ j + 1 # 1 /\ j \in Int
      BY <1>3, <2>1
    <3>2. /\ f \in urls_set /\ HasRow(f) /\ fullSaved[f] \notin Verdict
          /\ ~NamedTwice(f) => /\ results[f] = "Error"
                               /\ \A m \in DOMAIN again : again[m] = f => m = j + 1
      BY <1>4, <3>1 DEF FailedInv
    <3>3. ASSUME ~NamedTwice(f)
          PROVE  results'[f] = "Error" /\ \A m \in DOMAIN again' : again'[m] = f => m = j
      <4>1. f # u
        BY <1>3, <3>1, <3>2, <3>3
      <4>2. ASSUME NEW m \in DOMAIN again', again'[m] = f PROVE m = j
        <5>1. m + 1 \in DOMAIN again /\ again[m + 1] = f /\ m \in Int
          BY <1>3, <4>2
        <5>2. m + 1 = j + 1
          BY <3>2, <3>3, <5>1
        <5>3. QED
          BY <3>1, <5>1, <5>2
      <4>3. QED
        BY <1>1, <1>13, <3>2, <3>3, <4>1, <4>2
    <3>4. QED
      BY <1>11, <1>12, <1>14, <3>2, <3>3
  <2>2. FailedInv(again)'
    BY <1>1, <1>12, <2>1 DEF FailedInv
  <2>3. QED
    BY <1>1, <1>4, <2>2 DEF SecondPassInv, Checking
<1>18. RowInv'
  <2>1. CountsMatchRows'
    <3>1. counts = TallyOf(rows) /\ rows[i].status \in Status
      BY <1>7 DEF RowInv, CountsMatchRows, Row
    <3>2. counts' = TallyOf(rows')
      <4> DEFINE old == rows[i].status
      <4> HIDE DEF old
      <4>1. TallyOf(rows') = [[TallyOf(rows) EXCEPT ![old] = IF @ > 0 THEN @ - 1 ELSE 0]
                                EXCEPT ![s] = @ + 1]
        BY <1>7, <1>9, <1>10, TallyMoved DEF old
      <4>2. counts' = [[counts EXCEPT ![old] = IF @ > 0 THEN @ - 1 ELSE 0] EXCEPT ![s] = @ + 1]
        BY <1>8, Zenon DEF Recount, old
      <4>3. QED
        BY <3>1, <4>1, <4>2, Zenon
    <3>3. QED
      BY <1>1, <1>4, <3>2 DEF CountsMatchRows
  <2>2. \A j \in DOMAIN rows' : rows'[j].url \in urls_set'
    BY <1>1, <1>10 DEF RowInv
  <2>3. ASSUME ~died, NEW v \in urls_set PROVE HasRow(v)' /\ results'[v] # Unknown
    <3>1. s # Unknown
      BY DEF Status, Verdict, Unknown
    <3>2. QED
      BY <1>1, <1>11, <1>13, <1>14, <2>3, <3>1 DEF RowInv
  <2>4. QED
    BY <1>1, <2>1, <2>2, <2>3 DEF RowInv
<1>19. ProgressInv'
  BY <1>1, <1>5, <1>8, SavedKept DEF Ending
<1>20. IdleInv'
  BY <1>1 DEF IdleInv
<1>21. QED
  BY <1>15, <1>16, <1>17, <1>18, <1>19, <1>20

-----------------------------------------------------------------------------
(* The other steps of a check.                                              *)

\* Steps that find nothing and queue nothing.
LEMMA QuietKept ==
  ASSUME TypeOK, WorkInv, UNCHANGED <<urls, fullSaved, failed, rows, counts, byType, results, saves>>,
         deferred' = deferred, \A t \in Tabs : batch'[t] \subseteq batch[t],
         died => died',
         ~died' => batch' = batch,
         pc # "idle", pc' # "idle", PhaseInv', SecondPassInv', ProgressInv'
  PROVE  WorkInv'
<1> USE DEF WorkInv
<1>1. /\ \A i : Queued(i)' => Queued(i)
      /\ \A v : Pending(v)' => Pending(v)
      /\ \A v : NamedTwice(v)' <=> NamedTwice(v)
      /\ urls_set' = urls_set
  BY DEF Pending, Queued, NamedTwice, urls_set
<1>2. QueueInv'
  BY <1>1 DEF QueueInv
<1>3. \A v : ~died' => (Pending(v)' <=> Pending(v))
  BY DEF Pending, Queued
<1>4. RowInv'
  BY <1>1, <1>3 DEF RowInv, CountsMatchRows, HasRow
<1>5. IdleInv'
  BY DEF IdleInv
<1>6. QED
  BY <1>2, <1>4, <1>5

\* What stays of the failures when nothing is found and nothing is queued.
LEMMA FailedKept ==
  ASSUME UNCHANGED <<urls, fullSaved, rows, results>>, \A v : Pending(v)' => Pending(v),
         NEW s, FailedInv(s)
  PROVE  \A i \in DOMAIN s :
           /\ s[i] \in urls_set' /\ fullSaved'[s[i]] \notin Verdict
           /\ \A f : f = s[i] =>
                /\ HasRow(f)'
                /\ ~NamedTwice(f)' => /\ results'[f] = "Error" /\ ~Pending(f)'
                                      /\ \A j \in DOMAIN s : s[j] = f => j = i
  BY DEF FailedInv, HasRow, NamedTwice, urls_set

LEMMA TabDiesKept ==
  ASSUME TypeOK, WorkInv, NEW t \in Tabs, TabDies(t)
  PROVE  WorkInv'
<1> USE DEF WorkInv
<1>1. /\ pc = "tabs" /\ pc' = pc /\ died' = TRUE /\ batch' = [batch EXCEPT ![t] = {}]
      /\ UNCHANGED <<urls, fullSaved, failed, rows, counts, byType, results, saves, deferred, saved>>
      /\ urls_set' = urls_set
  BY DEF TabDies, work, found, disks, urls_set
<1>2. \A x \in Tabs : batch'[x] \subseteq batch[x]
  BY <1>1 DEF TypeOK
<1>3. \A v : Pending(v)' => Pending(v)
  BY <1>1, <1>2 DEF Pending, Queued
<1>4. PhaseInv' /\ ProgressInv'
  BY <1>1 DEF PhaseInv, ProgressInv, Unsaved, Ending, Reporting, Checking
<1>5. SecondPassInv'
  <2>1. FailedInv(failed)
    BY <1>1 DEF SecondPassInv, Checking
  <2>2. FailedInv(failed)'
    BY <1>1, <1>3, <2>1, FailedKept DEF FailedInv
  <2>3. QED
    BY <1>1, <2>2 DEF SecondPassInv
<1>6. QED
  BY <1>1, <1>2, <1>4, <1>5, QuietKept

\* Moving on, with the queues as they are.
LEMMA MoveKept ==
  ASSUME TypeOK, WorkInv,
         UNCHANGED <<saved, urls, fullSaved, failed, rows, counts, byType, results, saves>>,
         UNCHANGED <<batch, deferred, died>>,
         pc' \in Checking => pc \in Checking,
         pc' = "retry" => pc \in Checking /\ again' = failed /\ failed # <<>>,
         pc \in Checking \cup Ending, pc' \in Checking \cup Ending, PhaseInv'
  PROVE  WorkInv'
<1> USE DEF WorkInv
<1>1. pc # "idle" /\ pc' # "idle" /\ urls_set' = urls_set
  BY DEF Checking, Ending, urls_set
<1>2. ProgressInv'
  BY <1>1 DEF ProgressInv, Unsaved
<1>3. SecondPassInv'
  <2>1. pc \in Checking => FailedInv(failed)
    BY DEF SecondPassInv
  <2>2. \A v : Pending(v)' => Pending(v)
    BY DEF Pending, Queued
  <2>3. FailedInv(failed) => FailedInv(failed)'
    BY <2>2, FailedKept DEF FailedInv
  <2>4. FailedInv(failed)' /\ again' = failed => FailedInv(again)'
    BY DEF FailedInv
  <2>5. QED
    BY <2>1, <2>3, <2>4 DEF SecondPassInv
<1>4. QED
  BY <1>1, <1>2, <1>3, QuietKept

LEMMA GscThroughKept == ASSUME TypeOK, WorkInv, GscThrough PROVE WorkInv'
<1>1. /\ pc = "gsc" /\ batch[0] = {} /\ pc' \in {"unlink", "surface", "fallback"}
      /\ pc' = "unlink" => deferred = {}
      /\ UNCHANGED <<saved, urls, fullSaved, failed, rows, counts, byType, results, saves>>
      /\ UNCHANGED <<batch, deferred, died>>
  BY DEF GscThrough, disks, work, queue, found
<1>2. \A t \in Tabs : batch[t] = {}
  BY <1>1, Constants DEF WorkInv, PhaseInv
<1>3. PhaseInv'
  BY <1>1, <1>2 DEF PhaseInv, Queued, Ending, Reporting
<1>4. QED
  BY <1>1, <1>3, MoveKept DEF Checking, Ending

LEMMA ThroughKept == ASSUME TypeOK, WorkInv, Through PROVE WorkInv'
<1>1. /\ pc \in {"single", "tabs", "surface", "fallback"} /\ pc' \in {"retry", "unlink"}
      /\ pc' = "retry" => pc = "single" /\ failed # <<>>
      /\ UNCHANGED <<saved, urls, fullSaved, failed, rows, counts, byType, results, saves>>
      /\ UNCHANGED <<batch, deferred, died>>
      /\ again' = IF pc = "single" THEN failed ELSE <<>>
  BY DEF Through, disks, work, found
<1>2. deferred = {} /\ \A t \in Tabs : batch[t] = {}
  BY DEF Through, WorkInv, PhaseInv
<1>3. PhaseInv'
  BY <1>1, <1>2 DEF PhaseInv, Queued, Ending, Reporting
<1>4. QED
  BY <1>1, <1>3, MoveKept DEF Checking, Ending

LEMMA RetryOverKept == ASSUME TypeOK, WorkInv, RetryOver PROVE WorkInv'
<1>1. /\ pc = "retry" /\ pc' = "unlink"
      /\ UNCHANGED <<saved, urls, fullSaved, failed, rows, counts, byType, results, saves>>
      /\ UNCHANGED <<batch, deferred, died>>
  BY DEF RetryOver, disks, work, found
<1>2. PhaseInv'
  BY <1>1 DEF WorkInv, PhaseInv, Queued, Ending, Reporting
<1>3. QED
  BY <1>1, <1>2, MoveKept DEF Checking, Ending

\* From the deletion of the progress file on only what has been found matters.
LEMMA ReportingKept ==
  ASSUME TypeOK, WorkInv, UNCHANGED <<urls, fullSaved, failed, rows, counts, byType, results, saves>>,
         UNCHANGED <<batch, deferred, died>>, pc \in {"unlink"} \cup Reporting, pc' \in Reporting
  PROVE  WorkInv'
<1>1. pc # "idle" /\ pc' # "idle" /\ pc' \notin Checking \cup Ending
  BY DEF Reporting, Checking, Ending
<1>2. \A i \in DOMAIN urls : ~Queued(i)
  BY DEF WorkInv, PhaseInv, Ending
<1>3. PhaseInv' /\ ProgressInv' /\ SecondPassInv'
  BY <1>1, <1>2 DEF PhaseInv, Queued, ProgressInv, SecondPassInv, Ending, Reporting, Checking
<1>4. QED
  BY <1>1, <1>3, QuietKept

-----------------------------------------------------------------------------
(* The files of reports.                                                    *)

\* A step of the check in progress that leaves its files as they are to be.
LEMMA FilesOfOne ==
  ASSUME TypeOK, FileInv, pc # "idle", UNCHANGED <<checks, killed>>, NEW D,
         disk' = [disk EXCEPT ![checks] = D],
         (pc' # "idle" /\ D = Written') \/ (pc' = "idle" /\ D \in {{}, {"csv"}, Whole})
  PROVE  FileInv'
<1>1. /\ checks \in Checks \ killed /\ checks \in Nat /\ Checks \subseteq Nat
      /\ disk \in [Checks -> SUBSET File]
  BY Constants DEF FileInv, TypeOK
<1>2. disk'[checks] = D /\ \A c \in Checks : c # checks => disk'[c] = disk[c]
  BY <1>1
<1>3. \A c \in Checks \ killed : c < checks => disk[c] \in {{}, {"csv"}, Whole}
  BY DEF FileInv
<1>4. \A c \in Checks : c < checks \/ c = checks \/ c > checks
  BY <1>1
<1>5. \A c \in Checks : c > checks => disk'[c] = {}
  BY <1>1, <1>2 DEF FileInv
<1>6. \A c \in Checks \ killed : c < checks \/ pc' = "idle" => disk'[c] \in {{}, {"csv"}, Whole}
  <2> SUFFICES ASSUME NEW c \in Checks \ killed, c < checks \/ pc' = "idle"
               PROVE  disk'[c] \in {{}, {"csv"}, Whole}
    OBVIOUS
  <2>1. CASE c < checks
    BY <1>1, <1>2, <1>3, <2>1
  <2>2. CASE c = checks
    BY <1>1, <1>2, <2>2
  <2>3. CASE c > checks
    BY <1>5, <2>3
  <2>4. QED
    BY <1>4, <2>1, <2>2, <2>3
<1>7. QED
  BY <1>1, <1>2, <1>5, <1>6 DEF FileInv

LEMMA FilesSame ==
  ASSUME TypeOK, FileInv, pc # "idle", UNCHANGED <<disk, checks, killed>>,
         pc' # "idle", Written' = Written
  PROVE  FileInv'
  BY DEF FileInv

LEMMA FileStep == ASSUME TypeOK, FileInv, [Next]_vars PROVE FileInv'
<1> USE DEF disks
<1>0. pc # "idle" => /\ checks \in Checks \ killed /\ disk[checks] = Written
                     /\ disk = [disk EXCEPT ![checks] = Written]
  BY DEF FileInv, TypeOK
<1>1. CASE UNCHANGED vars
  <2>1. UNCHANGED <<disk, checks, killed, pc>>
    BY <1>1 DEF vars
  <2>2. QED
    BY <2>1 DEF FileInv, Written
<1>2. ASSUME NEW l \in Lists, NEW gsc \in BOOLEAN, NEW tabs \in 1..MaxTabs, Begin(l, gsc, tabs)
      PROVE  FileInv'
  <2>1. /\ checks' = checks + 1 /\ checks \in Nat /\ checks' \in Checks
        /\ killed' = killed /\ disk' = disk /\ pc = "idle" /\ Checks \subseteq Nat
    BY <1>2, Constants DEF Begin, TypeOK, Checks
  <2>2. pc' \in {"gsc", "single", "tabs"}
    BY <1>2, BeginQueue
  <2>3. Written' = {}
    BY <2>2 DEF Written
  <2>4. /\ \A c \in killed : c \in Nat /\ c <= checks
        /\ \A c \in Checks : c > checks => disk[c] = {}
        /\ \A c \in Checks \ killed : disk[c] \in {{}, {"csv"}, Whole}
    BY <2>1 DEF FileInv, TypeOK
  <2>5. checks' \notin killed /\ disk[checks'] = {} /\ \A c \in killed : c <= checks'
    BY <2>1, <2>4
  <2>6. \A c \in Checks : c > checks' => disk[c] = {}
    BY <2>1, <2>4
  <2>7. QED
    BY <2>1, <2>2, <2>3, <2>4, <2>5, <2>6 DEF FileInv
<1>3. ASSUME UNCHANGED <<disk, checks, killed>>, pc \in Checking \cup Ending,
             pc' \in Checking \cup Ending \cup {"csv"}
      PROVE  FileInv'
  <2>1. Written = {} /\ Written' = {} /\ pc # "idle" /\ pc' # "idle"
    BY <1>3 DEF Written, Checking, Ending
  <2>2. QED
    BY <1>3, <2>1, FilesSame
<1>4. ASSUME NEW i, (\E t \in Tabs : CheckUrl(t, i)) \/ AskGsc(i) \/ Defer(i)
      PROVE  FileInv'
  <2>1. UNCHANGED <<disk, checks, killed, pc>> /\ pc \in Checking
    BY <1>4 DEF CheckUrl, AskGsc, Defer, OnResult, Checking
  <2>2. QED
    BY <1>3, <2>1
<1>5. CASE (\E t \in Tabs : TabDies(t)) \/ GscThrough \/ Through \/ RetryOver \/ Unlink
  <2>1. UNCHANGED <<disk, checks, killed>>
    BY <1>5 DEF TabDies, GscThrough, Through, RetryOver, Unlink
  <2>2. pc \in Checking \cup Ending /\ pc' \in Checking \cup Ending \cup {"csv"}
    BY <1>5 DEF TabDies, GscThrough, Through, RetryOver, Unlink, Checking, Ending
  <2>3. QED
    BY <1>3, <2>1, <2>2
<1>6. ASSUME NEW s \in SerpStatus, Retry(s) PROVE FileInv'
  <2>1. UNCHANGED <<disk, checks, killed, pc>> /\ pc \in Ending
    BY <1>6 DEF Retry, Ending
  <2>2. QED
    BY <1>3, <2>1
<1>7. CASE WriteCsv
  <2>1. /\ disk' = [disk EXCEPT ![checks] = {"csv"}] /\ UNCHANGED <<checks, killed>>
        /\ pc # "idle" /\ pc' = "compare" /\ Written' = {"csv"}
    BY <1>0, <1>7 DEF WriteCsv, Written
  <2>2. QED
    BY <2>1, FilesOfOne
<1>8. CASE Compare
  <2>1. CASE pc' = "history"
    BY <1>8, <2>1, FilesSame DEF Compare, Written
  <2>2. CASE pc' = "idle"
    <3>1. UNCHANGED <<disk, checks, killed>> /\ pc # "idle" /\ Written = {"csv"}
      BY <1>8 DEF Compare, Written
    <3>2. QED
      BY <1>0, <2>2, <3>1, FilesOfOne
  <2>3. QED
    BY <1>8, <2>1, <2>2 DEF Compare, Forget
<1>9. CASE SaveHistory
  BY <1>9, FilesSame DEF SaveHistory, Written
<1>10. CASE WriteExcel
  <2>1. /\ disk' = [disk EXCEPT ![checks] = disk[checks] \cup IF HasXlsx THEN {"xlsx"} ELSE {}]
        /\ UNCHANGED <<checks, killed>> /\ pc = "xlsx" /\ pc' = "html"
    BY <1>10 DEF WriteExcel
  <2>2. (disk[checks] \cup IF HasXlsx THEN {"xlsx"} ELSE {}) = Whole \ {"html"}
    BY <1>0, <2>1 DEF Written, Whole, File
  <2>3. pc # "idle" /\ Written' = Whole \ {"html"}
    BY <2>1 DEF Written
  <2>4. QED
    BY <2>1, <2>2, <2>3, FilesOfOne
<1>11. CASE WriteHtml
  <2>1. disk[checks] \cup {"html"} = Whole
    BY <1>0, <1>11 DEF WriteHtml, Written, Whole, File
  <2>2. /\ disk' = [disk EXCEPT ![checks] = disk[checks] \cup {"html"}]
        /\ UNCHANGED <<checks, killed>> /\ pc # "idle" /\ pc' = "idle"
    BY <1>11 DEF WriteHtml, Forget
  <2>3. QED
    BY <2>1, <2>2, FilesOfOne
<1>12. CASE ReportFails
  <2>1. disk[checks] \ {"xlsx", "html"} = {"csv"}
    BY <1>0, <1>12 DEF ReportFails, Written, Whole, File
  <2>2. /\ disk' = [disk EXCEPT ![checks] = disk[checks] \ {"xlsx", "html"}]
        /\ UNCHANGED <<checks, killed>> /\ pc # "idle" /\ pc' = "idle"
    BY <1>12 DEF ReportFails, Forget
  <2>3. QED
    BY <2>1, <2>2, FilesOfOne
<1>13. CASE Abandon
  <2>1. /\ killed' = killed \cup {checks} /\ UNCHANGED <<disk, checks>> /\ pc # "idle"
        /\ pc' = "idle" /\ checks \in Nat /\ Checks \subseteq Nat
    BY <1>13, Constants DEF Abandon, Forget, TypeOK
  <2>2. \A c \in Checks : c < checks \/ c = checks \/ c > checks
    BY <2>1
  <2>3. \A c \in killed' : c <= checks
    BY <2>1 DEF FileInv
  <2>4. QED
    BY <1>0, <2>1, <2>2, <2>3 DEF FileInv
<1>14. QED
  BY <1>1, <1>2, <1>4, <1>5, <1>6, <1>7, <1>8, <1>9, <1>10, <1>11, <1>12, <1>13 DEF Next, Step

-----------------------------------------------------------------------------
(* All steps, and the theorems.                                             *)

\* A tab's answer, one of Search Console or of the browser it left the URL to.
LEMMA AnswerKept ==
  ASSUME TypeOK, WorkInv, NEW i \in DOMAIN urls,
         (\E t \in Tabs : CheckUrl(t, i)) \/ AskGsc(i) \/ Defer(i)
  PROVE  WorkInv'
<1>0. SerpStatus \subseteq Status /\ Verdict \subseteq Status /\ "GscFailed" \in Status
  BY DEF SerpStatus, Status, Verdict, Failure
<1>1. ASSUME NEW t \in Tabs, CheckUrl(t, i) PROVE WorkInv'
  <2>1. PICK s \in Status : OnResult(urls[i], s)
    BY <1>0, <1>1 DEF CheckUrl
  <2>2. /\ pc \in Checking /\ pc' = pc /\ died' = died /\ i \in batch[t] /\ deferred' = deferred
        /\ batch' = [batch EXCEPT ![t] = @ \ {i}] /\ batch \in [Tabs -> SUBSET DOMAIN urls]
    BY <1>1 DEF CheckUrl, Foremost, Checking, TypeOK
  <2>3. \A x \in Tabs : batch'[x] = IF x = t THEN batch[t] \ {i} ELSE batch[x]
    BY <2>2
  <2>4. i \notin deferred /\ \A x \in Tabs : i \in batch[x] => x = t
    BY <2>2 DEF WorkInv, QueueInv
  <2>5. Queued(i) /\ \A j : Queued(j)' <=> Queued(j) /\ j # i
    BY <2>2, <2>3, <2>4 DEF Queued
  <2>6. \A x \in Tabs : batch'[x] \subseteq batch[x]
    BY <2>3
  <2>7. QED
    BY <2>1, <2>2, <2>5, <2>6, EnteredKept
<1>2. CASE AskGsc(i)
  <2>1. /\ pc = "gsc" /\ pc' = pc /\ died' = died /\ i \in batch[0]
        /\ batch' = [batch EXCEPT ![0] = @ \ {i}] /\ batch \in [Tabs -> SUBSET DOMAIN urls] /\ 0 \in Tabs
    BY <1>2, Constants DEF AskGsc, Foremost, TypeOK
  <2>2. \A x \in Tabs : batch'[x] = IF x = 0 THEN batch[0] \ {i} ELSE batch[x]
    BY <2>1
  <2>3. i \notin deferred /\ \A x \in Tabs : i \in batch[x] => x = 0
    BY <2>1 DEF WorkInv, QueueInv
  <2>4. CASE (\E s \in Verdict : OnResult(urls[i], s)) /\ UNCHANGED deferred
    <3>1. PICK s \in Status : OnResult(urls[i], s)
      BY <1>0, <2>4
    <3>2. Queued(i) /\ \A j : Queued(j)' <=> Queued(j) /\ j # i
      BY <2>1, <2>2, <2>3, <2>4 DEF Queued
    <3>3. \A x \in Tabs : batch'[x] \subseteq batch[x]
      BY <2>2
    <3>4. QED
      BY <2>1, <2>4, <3>1, <3>2, <3>3, EnteredKept DEF Checking
  <2>5. CASE deferred' = deferred \cup {i} /\ UNCHANGED <<disks, work, found>>
    <3>1. \A j : Queued(j)' <=> Queued(j)
      BY <2>1, <2>2, <2>5 DEF Queued
    <3>2. /\ UNCHANGED <<saved, urls, fullSaved, failed, rows, counts, byType, results, saves>>
          /\ urls_set' = urls_set
      BY <2>5 DEF disks, work, found, urls_set
    <3>t. \A v : (Pending(v)' <=> Pending(v)) /\ (NamedTwice(v)' <=> NamedTwice(v))
      BY <3>1, <3>2 DEF Pending, NamedTwice
    <3>3. PhaseInv' /\ IdleInv'
      BY <2>1, <2>2 DEF WorkInv, PhaseInv, IdleInv, Ending, Reporting
    <3>4. QueueInv'
      BY <2>2, <2>3, <2>5, <3>1, <3>2, <3>t DEF WorkInv, QueueInv
    <3>5. SecondPassInv'
      <4>1. FailedInv(failed)
        BY <2>1 DEF WorkInv, SecondPassInv, Checking
      <4>2. FailedInv(failed)'
        BY <3>2, <3>t, <4>1, FailedKept DEF FailedInv
      <4>3. QED
        BY <2>1, <4>2 DEF SecondPassInv
    <3>6. RowInv' /\ ProgressInv'
      BY <2>1, <3>2, <3>t DEF WorkInv, RowInv, CountsMatchRows, HasRow, ProgressInv, Unsaved
    <3>7. QED
      BY <3>3, <3>4, <3>5, <3>6 DEF WorkInv
  <2>6. QED
    BY <1>2, <2>4, <2>5 DEF AskGsc
<1>3. CASE Defer(i)
  <2>1. PICK s \in Status : OnResult(urls[i], s)
    BY <1>0, <1>3 DEF Defer
  <2>2. /\ pc \in {"surface", "fallback"} /\ pc' = pc /\ died' = died /\ i \in deferred
        /\ deferred' = deferred \ {i} /\ batch' = batch /\ \A t \in Tabs : batch[t] = {}
    BY <1>3 DEF Defer, Foremost, WorkInv, PhaseInv
  <2>3. Queued(i) /\ \A j : Queued(j)' <=> Queued(j) /\ j # i
    BY <2>2 DEF Queued
  <2>4. QED
    BY <2>1, <2>2, <2>3, EnteredKept DEF Checking
<1>4. QED
  BY <1>1, <1>2, <1>3

LEMMA WorkStep == ASSUME TypeOK, WorkInv, [Next]_vars PROVE WorkInv'
<1> USE DEF disks, work, queue, found
<1>1. CASE UNCHANGED vars
  <2>1. /\ UNCHANGED <<saved, pc, urls, fullSaved, batch, deferred, again, died, failed, rows,
                       counts, byType, results, saves>>
        /\ urls_set' = urls_set
    BY <1>1 DEF vars, urls_set
  <2>2. /\ \A i : Queued(i)' <=> Queued(i)
        /\ \A v : /\ Pending(v)' <=> Pending(v)
                  /\ HasRow(v)' <=> HasRow(v)
                  /\ NamedTwice(v)' <=> NamedTwice(v)
    BY <2>1 DEF Queued, Pending, HasRow, NamedTwice
  <2>3. PhaseInv' /\ QueueInv' /\ IdleInv' /\ RowInv'
    BY <2>1, <2>2 DEF WorkInv, PhaseInv, QueueInv, IdleInv, RowInv, CountsMatchRows
  <2>4. ProgressInv'
    BY <2>1 DEF WorkInv, ProgressInv, Unsaved
  <2>5. SecondPassInv'
    BY <2>1, <2>2, FailedKept DEF WorkInv, SecondPassInv, FailedInv
  <2>6. QED
    BY <2>3, <2>4, <2>5 DEF WorkInv
<1>2. ASSUME NEW l \in Lists, NEW gsc \in BOOLEAN, NEW tabs \in 1..MaxTabs, Begin(l, gsc, tabs)
      PROVE  WorkInv'
  BY <1>2, BeginKept
<1>3. ASSUME NEW s \in SerpStatus, Retry(s) PROVE WorkInv'
  <2>1. s \in Status
    BY DEF SerpStatus, Status, Failure
  <2>2. QED
    BY <1>3, <2>1, RetryKept
<1>4. CASE Unlink
  BY <1>4, ReportingKept DEF Unlink, Reporting
<1>5. CASE WriteCsv \/ SaveHistory \/ WriteExcel
  BY <1>5, ReportingKept DEF WriteCsv, SaveHistory, WriteExcel, Reporting
<1>6. CASE Compare
  <2>1. CASE pc' = "history" /\ UNCHANGED <<work, queue, found>>
    BY <1>6, <2>1, ReportingKept DEF Compare, Reporting
  <2>2. QED
    BY <1>6, <2>1, ForgetKept DEF Compare
<1>7. CASE WriteHtml \/ ReportFails \/ Abandon
  BY <1>7, ForgetKept DEF WriteHtml, ReportFails, Abandon
<1>8. ASSUME NEW t \in Tabs, TabDies(t) PROVE WorkInv'
  BY <1>8, TabDiesKept
<1>9. ASSUME NEW i \in DOMAIN urls, (\E t \in Tabs : CheckUrl(t, i)) \/ AskGsc(i) \/ Defer(i)
      PROVE  WorkInv'
  BY <1>9, AnswerKept
<1>10. CASE GscThrough \/ Through \/ RetryOver
  BY <1>10, GscThroughKept, ThroughKept, RetryOverKept
<1>11. QED
  BY <1>1, <1>2, <1>3, <1>4, <1>5, <1>6, <1>7, <1>8, <1>9, <1>10 DEF Next, Step

LEMMA CheckerAlways == Spec => []CheckerInv
<1>1. CheckerInv /\ [Next]_vars => CheckerInv'
  BY TypeStep, WorkStep, FileStep DEF CheckerInv
<1>2. Init => CheckerInv
  BY InitKept DEF CheckerInv
<1>3. QED
  BY <1>1, <1>2, PTL DEF Spec

\* The variables of run_check hold what they are for, and history.json at most its
\* newest entries, for any bound.
THEOREM Typing == Spec => []TypeOK
<1>1. CheckerInv => TypeOK
  BY DEF CheckerInv
<1>2. QED
  BY <1>1, CheckerAlways, PTL

\* run_check and execute_and_save, for any URLs, tabs and answers: the counters are
\* those of the rows, the summary by type agrees with them if nothing failed, every URL
\* of a check has a row, and no report file is alone.
THEOREM WholeReports == Spec => []ReportsWhole
<1>1. CheckerInv => ReportsWhole
  <2> SUFFICES ASSUME CheckerInv PROVE ReportsWhole
    OBVIOUS
  <2>1. CountsMatchRows
    BY DEF CheckerInv, WorkInv, RowInv
  <2>2. EveryUrlHasRow
    <3> SUFFICES ASSUME pc \in {"unlink"} \cup Reporting, ~died
                 PROVE  /\ {rows[i].url : i \in DOMAIN rows} = urls_set
                        /\ \A u \in urls_set : results[u] # Unknown
      BY DEF EveryUrlHasRow, Reporting
    <3>1. \A u \in urls_set : ~Pending(u)
      BY DEF CheckerInv, WorkInv, PhaseInv, Ending, Pending
    <3>2. \A u \in urls_set : HasRow(u) /\ results[u] # Unknown
      BY <3>1 DEF CheckerInv, WorkInv, RowInv
    <3>3. \A i \in DOMAIN rows : rows[i].url \in urls_set
      BY DEF CheckerInv, WorkInv, RowInv
    <3>4. QED
      BY <3>2, <3>3 DEF HasRow
  <2>3. NoStraySibling
    BY DEF CheckerInv, FileInv, NoStraySibling
  <2>4. QED
    BY <2>1, <2>2, <2>3 DEF ReportsWhole
<1>2. QED
  BY <1>1, CheckerAlways, PTL

\* save_progress: when the process dies before the progress file is deleted, fewer
\* results than the distance of two saves are not in it, whatever that distance is; when
\* it dies after the CSV is written, there is the CSV.  In between all results are lost.
THEOREM LittleLost == Spec => []LossBounded
<1>1. CheckerInv => LossBounded
  <2>1. ASSUME CheckerInv, pc \in Checking \cup Ending
        PROVE  Cardinality(Unsaved) < SaveEvery
    <3>1. /\ Cardinality(Unsaved) <= saves % SaveEvery /\ SaveEvery \in Nat \ {0}
          /\ saves \in Nat /\ urls_set \subseteq Urls
      BY <2>1, Constants, PositionSets DEF CheckerInv, WorkInv, ProgressInv, TypeOK, urls_set
    <3>2. saves % SaveEvery \in 0..SaveEvery - 1
      BY <3>1, NextModulo
    <3>3. Cardinality(Unsaved) \in Nat
      BY <3>1, UrlSets DEF Unsaved
    <3> DEFINE r == saves % SaveEvery
    <3>4. Cardinality(Unsaved) <= r /\ r \in 0..SaveEvery - 1
      BY <3>1, <3>2
    <3> HIDE DEF r
    <3>5. QED
      BY <3>1, <3>3, <3>4
  <2>2. ASSUME CheckerInv, pc \in {"compare", "history", "xlsx", "html"}
        PROVE  "csv" \in disk[checks]
    BY <2>2 DEF CheckerInv, FileInv, Written, Whole, File
  <2>3. QED
    BY <2>1, <2>2 DEF LossBounded, Checking, Ending
<1>2. QED
  BY <1>1, CheckerAlways, PTL

\* The results a step of a check can change.
LEMMA ResultsStep ==
  ASSUME CheckerInv, [Next]_vars, pc # "idle", pc' # "idle"
  PROVE  \/ results' = results
         \/ \E u \in urls_set, s \in Status :
              /\ results' = [results EXCEPT ![u] = s] /\ fullSaved[u] \notin Verdict
              /\ results[u] \notin Verdict \/ NamedTwice(u)
<1> USE DEF CheckerInv, disks, work, queue, found
<1>1. ASSUME NEW i \in DOMAIN urls, (\E t \in Tabs : CheckUrl(t, i)) \/ AskGsc(i) \/ Defer(i)
      PROVE  \/ results' = results
             \/ \E u \in urls_set, s \in Status :
                  /\ results' = [results EXCEPT ![u] = s] /\ fullSaved[u] \notin Verdict
                  /\ results[u] \notin Verdict \/ NamedTwice(u)
  <2>1. PICK u : u = urls[i]
    OBVIOUS
  <2>2. results' = results \/ \E s \in Status : results' = [results EXCEPT ![u] = s]
    BY <1>1, <2>1 DEF CheckUrl, AskGsc, Defer, OnResult, SerpStatus, Status, Failure
  <2>3. Queued(i)
    BY <1>1, Constants DEF CheckUrl, AskGsc, Defer, Foremost, Queued
  <2>4. Pending(u) /\ u \in urls_set
    BY <2>1, <2>3 DEF Pending, urls_set, ToSet
  <2>5. fullSaved[u] \notin Verdict /\ (results[u] \notin Verdict \/ NamedTwice(u))
    BY <2>1, <2>3, <2>4 DEF WorkInv, QueueInv
  <2>6. QED
    BY <2>2, <2>4, <2>5
<1>2. ASSUME NEW s \in SerpStatus, Retry(s)
      PROVE  \E u \in urls_set, x \in Status :
               /\ results' = [results EXCEPT ![u] = x] /\ fullSaved[u] \notin Verdict
               /\ results[u] \notin Verdict \/ NamedTwice(u)
  <2>1. PICK u : u = Head(again) /\ results' = [results EXCEPT ![u] = s]
    BY <1>2 DEF Retry
  <2>2. again \in Seq(Urls) /\ again # <<>> /\ pc = "retry" /\ s \in Status
    BY <1>2 DEF Retry, TypeOK, SerpStatus, Status, Failure
  <2>3. 1 \in DOMAIN again /\ u = again[1]
    BY <2>1, <2>2
  <2>4. /\ u \in urls_set /\ fullSaved[u] \notin Verdict
        /\ results[u] = "Error" \/ NamedTwice(u)
    BY <2>2, <2>3 DEF WorkInv, SecondPassInv, FailedInv
  <2>5. QED
    BY <2>1, <2>2, <2>4 DEF Verdict
<1>3. ASSUME \/ \E t \in Tabs : TabDies(t)
             \/ GscThrough \/ Through \/ RetryOver \/ Unlink \/ WriteCsv \/ SaveHistory
             \/ WriteExcel
      PROVE  results' = results
  BY <1>3 DEF TabDies, GscThrough, Through, RetryOver, Unlink, WriteCsv, SaveHistory, WriteExcel
<1>4. CASE Compare
  BY <1>4 DEF Compare, Forget
<1>5. ASSUME WriteHtml \/ ReportFails \/ Abandon PROVE FALSE
  BY <1>5 DEF WriteHtml, ReportFails, Abandon, Forget
<1>6. ASSUME NEW l, NEW gsc, NEW tabs, Begin(l, gsc, tabs) PROVE FALSE
  BY <1>6 DEF Begin
<1>7. CASE UNCHANGED vars
  BY <1>7 DEF vars
<1>8. QED
  BY <1>1, <1>2, <1>3, <1>4, <1>5, <1>6, <1>7 DEF Next, Step

\* run_check: a verdict taken from the progress file is never asked for again, and one
\* found for a URL that the list names once is not changed by the second pass nor by an
\* answer that comes late.
THEOREM FinalVerdicts == Spec => VerdictsAreFinal
<1>1. CheckerInv /\ [Next]_vars =>
        [pc # "idle" /\ pc' # "idle" =>
           \A u \in Urls : results[u] \in Verdict /\ results'[u] # results[u] =>
             NamedTwice(u) /\ fullSaved[u] \notin Verdict]_vars
  <2> SUFFICES ASSUME CheckerInv, [Next]_vars, pc # "idle", pc' # "idle",
                      NEW u \in Urls, results[u] \in Verdict, results'[u] # results[u]
               PROVE  NamedTwice(u) /\ fullSaved[u] \notin Verdict
    OBVIOUS
  <2>1. results \in Known
    BY DEF CheckerInv, TypeOK
  <2>2. PICK v \in urls_set, s \in Status :
              /\ results' = [results EXCEPT ![v] = s] /\ fullSaved[v] \notin Verdict
              /\ results[v] \notin Verdict \/ NamedTwice(v)
    BY ResultsStep
  <2>3. v = u
    BY <2>1, <2>2 DEF Known
  <2>4. QED
    BY <2>2, <2>3
<1>2. QED
  BY <1>1, CheckerAlways, PTL DEF Spec, VerdictsAreFinal

\* Where the progress files may change.
LEMMA SavedStep ==
  ASSUME CheckerInv, [Next]_vars
  PROVE  \/ saved' = saved
         \/ /\ saved' = [saved EXCEPT ![Key(urls)] = Merged(fullSaved, results')]
            /\ pc \in Checking \cup Ending /\ pc' # "idle"
         \/ /\ saved' = [saved EXCEPT ![Key(urls)] = Nothing] /\ pc = "unlink"
<1> USE DEF CheckerInv, disks, work, queue, found
<1>1. ASSUME NEW i, (\E t \in Tabs : CheckUrl(t, i)) \/ AskGsc(i) \/ Defer(i)
      PROVE  \/ saved' = saved
             \/ /\ saved' = [saved EXCEPT ![Key(urls)] = Merged(fullSaved, results')]
                /\ pc \in Checking /\ pc' = pc
  BY <1>1 DEF CheckUrl, AskGsc, Defer, OnResult, Save, Checking
<1>2. ASSUME NEW s \in SerpStatus, Retry(s)
      PROVE  \/ saved' = saved
             \/ /\ saved' = [saved EXCEPT ![Key(urls)] = Merged(fullSaved, results')]
                /\ pc = "retry" /\ pc' = pc
  BY <1>2 DEF Retry, Save
<1>3. CASE Unlink
  BY <1>3 DEF Unlink, Ending
<1>4. ASSUME \/ \E t \in Tabs : TabDies(t)
             \/ GscThrough \/ Through \/ RetryOver \/ WriteCsv \/ Compare \/ SaveHistory
             \/ WriteExcel \/ WriteHtml \/ ReportFails \/ Abandon
      PROVE  saved' = saved
  BY <1>4 DEF TabDies, GscThrough, Through, RetryOver, WriteCsv, Compare, SaveHistory, WriteExcel,
              WriteHtml, ReportFails, Abandon
<1>5. ASSUME NEW l, NEW gsc, NEW tabs, Begin(l, gsc, tabs) PROVE saved' = saved
  BY <1>5 DEF Begin
<1>6. CASE UNCHANGED vars
  BY <1>6 DEF vars
<1>7. QED
  BY <1>1, <1>2, <1>3, <1>4, <1>5, <1>6 DEF Next, Step, Checking, Ending

\* save_progress: a check that shares its progress file with others leaves in it what
\* they found of URLs that it does not check, until it deletes the file at its end: then
\* that is gone as well.
THEOREM OthersProgress == Spec => OthersProgressKept
<1>1. CheckerInv /\ [Next]_vars =>
        [\A k \in Keys, u \in Urls :
           saved'[k][u] # saved[k][u] /\ u \notin urls_set =>
             pc = "unlink" /\ k = Key(urls) /\ saved'[k] = Nothing]_vars
  <2> SUFFICES ASSUME CheckerInv, [Next]_vars, NEW k \in Keys, NEW u \in Urls,
                      saved'[k][u] # saved[k][u], u \notin urls_set
               PROVE  pc = "unlink" /\ k = Key(urls) /\ saved'[k] = Nothing
    OBVIOUS
  <2>1. saved \in [Keys -> Known] /\ results \in Known
    BY DEF CheckerInv, TypeOK
  <2>2. CASE saved' = saved
    BY <2>2
  <2>3. ASSUME pc \in Checking \cup Ending, pc' # "idle",
               saved' = [saved EXCEPT ![Key(urls)] = Merged(fullSaved, results')]
        PROVE  FALSE
    <3>1. /\ results[u] = Unknown /\ saved[Key(urls)][u] = fullSaved[u] /\ pc # "idle"
      BY <2>3 DEF CheckerInv, WorkInv, ProgressInv, Checking, Ending
    <3>2. results'[u] = Unknown
      BY <2>1, <2>3, <3>1, ResultsStep DEF Known
    <3>3. Merged(fullSaved, results')[u] = fullSaved[u]
      BY <3>2 DEF Merged
    <3>4. QED
      BY <2>1, <2>3, <3>1, <3>3
  <2>4. CASE saved' = [saved EXCEPT ![Key(urls)] = Nothing] /\ pc = "unlink"
    BY <2>1, <2>4
  <2>5. QED
    BY <2>2, <2>3, <2>4, SavedStep
<1>2. QED
  BY <1>1, CheckerAlways, PTL DEF Spec, OthersProgressKept
=============================================================================
