----------------------------- MODULE StoreProofs -----------------------------
(***************************************************************************)
(* Proofs about what threads share without, or with little, locking: the   *)
(* token bucket of RateLimiter, the file of RankHistory, the files of      *)
(* Settings, the caches of PageCache, the reports of Reports and the       *)
(* failed logins of Lockout, for any number of threads and any bounds.     *)
(*                                                                         *)
(* The sums of Lockout over its window are defined by recursion on the     *)
(* age.  What is said of them is proved by induction in the form of a set  *)
(* that contains zero and every successor, from the fact that every        *)
(* non-empty set of natural numbers has a least element.                   *)
(***************************************************************************)
EXTENDS RateLimiter, RankHistory, Settings, PageCache, Reports, Lockout,
        FiniteSetTheorems, SequenceTheorems, WellFoundedInduction, TLAPS

-----------------------------------------------------------------------------
(* The token bucket.                                                        *)

RateInv == RateTypeOK /\ last <= tick /\ QuotaKept

\* The tokens of the ticks since the last turn, as products that the provers
\* can add up.
LEMMA Earned ==
  ASSUME NEW r \in Nat, NEW m \in Nat, NEW n \in Nat, m <= n
  PROVE  m * r + (n - m) * r = n * r
  OBVIOUS

LEMMA FilledBounds ==
  ASSUME RateInv
  PROVE  /\ Filled \in 0..Burst
         /\ granted * Unit + Filled <= Burst + tick * Rate
         /\ granted * Unit \in Nat /\ tick * Rate \in Nat
<1>1. /\ tick \in Nat /\ last \in Nat /\ last <= tick /\ tokens \in Nat
      /\ tokens <= Burst /\ Burst \in Nat /\ Rate \in Nat /\ Unit \in Nat
      /\ granted \in Nat
  BY RateAssumption DEF RateInv, RateTypeOK
<1> DEFINE g == granted * Unit
           a == last * Rate
           b == (tick - last) * Rate
           c == tick * Rate
<1>2. a \in Nat /\ b \in Nat /\ c \in Nat /\ g \in Nat
  BY <1>1
<1>3. a + b = c
  BY <1>1, Earned
<1>4. g + tokens <= Burst + a
  BY DEF RateInv, QuotaKept
<1>5. Filled = IF tokens + b > Burst THEN Burst ELSE tokens + b
  BY DEF Filled
<1> HIDE DEF g, a, b, c
<1>6. Filled \in 0..Burst /\ g + Filled <= Burst + c
  BY <1>1, <1>2, <1>3, <1>4, <1>5
<1>7. QED
  BY <1>2, <1>6 DEF g, c

LEMMA RateNextKept == RateInv /\ [RateNext]_rateVars => RateInv'
<1> SUFFICES ASSUME RateInv, [RateNext]_rateVars PROVE RateInv'
  OBVIOUS
<1>1. /\ tick \in 0..MaxTicks /\ last \in 0..MaxTicks /\ MaxTicks \in Nat
      /\ last <= tick /\ wake \in [Callers -> Nat] /\ granted \in Nat
      /\ Unit \in Nat \ {0} /\ Rate \in Nat \ {0} /\ Burst \in Nat
  BY RateAssumption DEF RateInv, RateTypeOK
<1>2. CASE RateTick
  BY <1>1, <1>2 DEF RateTick, RateInv, RateTypeOK, QuotaKept
<1>3. ASSUME NEW c \in Callers, Grant(c) PROVE RateInv'
  <2>1. /\ tokens' = Filled - Unit /\ last' = tick /\ tick' = tick
        /\ granted' = granted + 1 /\ Filled >= Unit
        /\ wake' = [wake EXCEPT ![c] = 0]
    BY <1>3 DEF Grant, Refilled
  <2>2. Filled \in 0..Burst
    BY FilledBounds
  <2>3. RateTypeOK' /\ last' <= tick'
    BY <1>1, <2>1, <2>2 DEF RateTypeOK
  <2>4. granted' * Unit = granted * Unit + Unit
    BY <1>1, <2>1
  <2>5. QuotaKept'
    <3> DEFINE g == granted * Unit
               b == tick * Rate
    <3>1. g \in Nat /\ b \in Nat /\ g + Filled <= Burst + b
      BY FilledBounds
    <3>2. granted' * Unit = g + Unit /\ last' * Rate = b
      BY <2>1, <2>4
    <3> HIDE DEF g, b
    <3>3. granted' * Unit + tokens' <= Burst + last' * Rate
      BY <1>1, <2>1, <2>2, <3>1, <3>2
    <3>4. QED
      BY <3>3 DEF QuotaKept
  <2>6. QED
    BY <2>3, <2>5 DEF RateInv
<1>4. ASSUME NEW c \in Callers, Sleep(c) PROVE RateInv'
  <2>1. /\ tokens' = Filled /\ last' = tick /\ tick' = tick
        /\ granted' = granted /\ Filled < Unit
        /\ wake' = [wake EXCEPT ![c] = tick + Lacking]
    BY <1>4 DEF Sleep, Refilled
  <2>2. Filled \in 0..Burst
    BY FilledBounds
  <2>3. Lacking \in Nat
    <3>1. Unit - Filled + Rate - 1 \in Nat
      BY <1>1, <2>1, <2>2
    <3>2. \A n \in Nat, m \in Nat \ {0} : n \div m \in Nat
      OBVIOUS
    <3>3. QED
      BY <1>1, <3>1, <3>2 DEF Lacking
  <2>4. RateTypeOK' /\ last' <= tick'
    BY <1>1, <2>1, <2>2, <2>3 DEF RateTypeOK
  <2>5. QuotaKept'
    BY <2>1, FilledBounds DEF QuotaKept
  <2>6. QED
    BY <2>4, <2>5 DEF RateInv
<1>5. CASE UNCHANGED rateVars
  BY <1>5 DEF rateVars, RateInv, RateTypeOK, QuotaKept
<1>6. QED
  BY <1>2, <1>3, <1>4, <1>5 DEF RateNext

LEMMA RateInitKept == RateInit => RateInv
<1>1. ASSUME RateInit PROVE RateInv
  <2>1. 0 * Unit = 0 /\ 0 * Rate = 0
    BY RateAssumption
  <2>2. RateTypeOK /\ last <= tick
    BY <1>1, RateAssumption DEF RateInit, RateTypeOK
  <2>3. QuotaKept
    BY <1>1, <2>1, RateAssumption DEF RateInit, QuotaKept
  <2>4. QED
    BY <2>2, <2>3 DEF RateInv
<1>2. QED
  BY <1>1

\* Whatever threads meet in acquire, Search Console is asked no more often than
\* a full bucket and the time passed allow.
THEOREM Quota == RateSpec => []QuotaKept
<1>1. RateInv => QuotaKept
  BY DEF RateInv
<1>2. QED
  BY <1>1, RateInitKept, RateNextKept, PTL DEF RateSpec

\* What a turn of the loop, or a tick, may do to the grants and the tokens that
\* are there.
FilledFairly ==
  /\ Filled' \in Nat /\ tick' >= tick /\ granted' \in Nat /\ tick' \in Nat
  /\ granted' * Unit + Filled' <= granted * Unit + Filled + (tick' - tick) * Rate

LEMMA FilledStep == RateInv /\ [RateNext]_rateVars => FilledFairly
<1> SUFFICES ASSUME RateInv, [RateNext]_rateVars PROVE FilledFairly
  OBVIOUS
<1>1. /\ tick \in Nat /\ last \in Nat /\ last <= tick /\ granted \in Nat
      /\ tokens \in Nat /\ Unit \in Nat \ {0} /\ Rate \in Nat \ {0} /\ Burst \in Nat
      /\ Filled \in 0..Burst /\ granted * Unit \in Nat
  BY RateAssumption, FilledBounds DEF RateInv, RateTypeOK
<1>2. CASE RateTick
  <2>1. /\ tick' = tick + 1 /\ UNCHANGED <<tokens, last, granted>>
    BY <1>2 DEF RateTick
  <2> DEFINE a == (tick - last) * Rate
             b == (tick' - last) * Rate
             g == granted * Unit
  <2>2. a \in Nat /\ b = a + Rate /\ (tick' - tick) * Rate = Rate
    <3>1. tick - last \in Nat /\ tick' - last = (tick - last) + 1 /\ tick' - tick = 1
      BY <1>1, <2>1
    <3>2. \A n \in Nat : (n + 1) * Rate = n * Rate + Rate /\ n * Rate \in Nat
      BY <1>1
    <3>3. 1 * Rate = Rate
      BY <1>1
    <3>4. QED
      BY <3>1, <3>2, <3>3
  <2>3. /\ Filled = IF tokens + a > Burst THEN Burst ELSE tokens + a
        /\ Filled' = IF tokens + b > Burst THEN Burst ELSE tokens + b
    BY <2>1 DEF Filled
  <2>4. granted' * Unit = g /\ g \in Nat
    BY <1>1, <2>1
  <2> HIDE DEF a, b, g
  <2>5. Filled' \in Nat /\ Filled' <= Filled + Rate
    BY <1>1, <2>2, <2>3
  <2>6. g + Filled' <= g + Filled + Rate
    <3>1. Filled \in Nat /\ Rate \in Nat /\ g \in Nat
      BY <1>1, <2>4
    <3>2. PICK x, y \in Nat : x = Filled /\ y = Filled'
      BY <2>5, <3>1
    <3>3. y <= x + Rate
      BY <2>5, <3>2
    <3>4. PICK k, q \in Nat : k = g /\ q = Rate
      BY <3>1
    <3>5. y <= x + q
      BY <3>3, <3>4
    <3>6. k + y <= k + x + q
      BY <3>5
    <3>7. QED
      BY <3>2, <3>4, <3>6
  <2>7. granted' * Unit + Filled' <= granted * Unit + Filled + (tick' - tick) * Rate
    BY <2>2, <2>4, <2>6 DEF g
  <2>8. tick' \in Nat /\ tick' >= tick /\ granted' \in Nat
    BY <1>1, <2>1
  <2>9. QED
    BY <2>5, <2>7, <2>8 DEF FilledFairly
<1>3. ASSUME NEW left \in Nat, left <= Burst, Refilled(left), tick' = tick
      PROVE  Filled' = left
  <2>1. tokens' = left /\ last' = tick
    BY <1>3 DEF Refilled
  <2>2. tick' - last' = 0 /\ 0 * Rate = 0
    BY <1>1, <1>3, <2>1
  <2>3. (tick' - last') * Rate = 0
    BY <2>2
  <2>4. QED
    BY <1>1, <1>3, <2>1, <2>3 DEF Filled
<1>4. ASSUME tick' = tick, granted' \in Nat, Filled' \in Nat,
             granted' * Unit + Filled' = granted * Unit + Filled
      PROVE  FilledFairly
  <2>1. tick' - tick = 0 /\ 0 * Rate = 0
    BY <1>1, <1>4
  <2>2. (tick' - tick) * Rate = 0
    BY <2>1
  <2>3. granted' * Unit + Filled' <= granted * Unit + Filled + 0
    <3>1. PICK x, y \in Nat : x = granted * Unit /\ y = Filled
      BY <1>1
    <3>2. granted' * Unit + Filled' = x + y
      BY <1>4, <3>1
    <3>3. x + y <= x + y + 0
      OBVIOUS
    <3>4. QED
      BY <3>1, <3>2, <3>3
  <2>4. tick' \in Nat /\ tick' >= tick
    BY <1>1, <1>4
  <2>5. QED
    BY <1>4, <2>2, <2>3, <2>4 DEF FilledFairly
<1>5. ASSUME NEW c \in Callers, Grant(c)
      PROVE  FilledFairly
  <2>1. /\ tick' = tick /\ granted' = granted + 1
        /\ Filled >= Unit /\ Refilled(Filled - Unit)
    BY <1>5 DEF Grant
  <2>2. Filled - Unit \in Nat /\ Filled - Unit <= Burst
    BY <1>1, <2>1
  <2>3. Filled' = Filled - Unit
    BY <1>3, <2>1, <2>2
  <2>4. granted' * Unit = granted * Unit + Unit
    BY <1>1, <2>1
  <2>5. granted' * Unit + Filled' = granted * Unit + Filled
    BY <1>1, <2>3, <2>4
  <2>6. QED
    BY <1>1, <1>4, <2>1, <2>2, <2>3, <2>5
<1>6. ASSUME NEW c \in Callers, Sleep(c)
      PROVE  FilledFairly
  <2>1. tick' = tick /\ granted' = granted /\ Refilled(Filled)
    BY <1>6 DEF Sleep
  <2>2. Filled' = Filled
    BY <1>1, <1>3, <2>1
  <2>3. QED
    BY <1>1, <1>4, <2>1, <2>2
<1>7. CASE UNCHANGED rateVars
  <2>1. Filled' = Filled /\ tick' = tick /\ granted' = granted
    BY <1>7 DEF rateVars, Filled
  <2>2. QED
    BY <1>1, <1>4, <2>1
<1>8. QED
  BY <1>2, <1>5, <1>6, <1>7 DEF RateNext

\* Since tick t, when there had been g calls.
Since(t, g) ==
  tick >= t /\ granted * Unit + Filled <= g * Unit + Burst + (tick - t) * Rate

LEMMA SinceKept ==
  ASSUME NEW t \in Nat, NEW g \in Nat, RateInv, Since(t, g), FilledFairly
  PROVE  Since(t, g)'
<1> DEFINE a == (tick - t) * Rate
           b == (tick' - tick) * Rate
           c == (tick' - t) * Rate
           d == g * Unit
           e == granted * Unit
           f == granted' * Unit
<1>1. /\ tick \in Nat /\ tick' \in Nat /\ t <= tick /\ tick <= tick'
      /\ Rate \in Nat /\ Unit \in Nat /\ Burst \in Nat
      /\ Filled \in Nat /\ Filled' \in Nat
  BY RateAssumption, FilledBounds DEF RateInv, RateTypeOK, Since, FilledFairly
<1>2. granted \in Nat /\ granted' \in Nat
  BY DEF RateInv, RateTypeOK, FilledFairly
<1>3. a \in Nat /\ b \in Nat /\ c = a + b
  <2>1. \A m, n \in Nat : t <= m /\ m <= n =>
          m - t \in Nat /\ n - m \in Nat /\ n - t = (m - t) + (n - m)
    OBVIOUS
  <2>2. \A m, n \in Nat : (m + n) * Rate = m * Rate + n * Rate /\ m * Rate \in Nat
    BY <1>1
  <2>3. /\ tick - t \in Nat /\ tick' - tick \in Nat
        /\ tick' - t = (tick - t) + (tick' - tick)
    BY <1>1, <2>1
  <2>4. QED
    BY <2>2, <2>3
<1>4. d \in Nat /\ e \in Nat /\ f \in Nat
  <2>1. \A m, n \in Nat : m * n \in Nat
    OBVIOUS
  <2>2. QED
    BY <1>1, <1>2, <2>1
<1>5. e + Filled <= d + Burst + a /\ f + Filled' <= e + Filled + b
  BY DEF Since, FilledFairly
<1> HIDE DEF a, b, c, d, e, f
<1>6. f + Filled' <= d + Burst + c
  <2>1. PICK x, y \in Nat : x = Filled /\ y = Filled'
    BY <1>1
  <2>2. e + x <= d + Burst + a /\ f + y <= e + x + b
    BY <1>5, <2>1
  <2>3. f + y <= d + Burst + c
    BY <1>1, <1>3, <1>4, <2>2
  <2>4. QED
    BY <2>1, <2>3
<1>7. tick' >= t
  BY <1>1
<1>8. QED
  BY <1>6, <1>7 DEF Since, a, b, c, d, e, f

(* So in every stretch of time, and not only from the start: from any moment *)
(* on, the calls are at most a full bucket and what the time since has added. *)
(* That is what a quota per minute asks of acquire.                         *)
THEOREM WindowQuota ==
  ASSUME NEW t \in Nat, NEW g \in Nat
  PROVE  RateSpec =>
           [](tick = t /\ granted = g =>
                [](granted * Unit <= g * Unit + Burst + (tick - t) * Rate))
<1>1. RateInv /\ tick = t /\ granted = g => Since(t, g)
  <2> SUFFICES ASSUME RateInv, tick = t, granted = g PROVE Since(t, g)
    OBVIOUS
  <2>1. Filled \in 0..Burst /\ granted * Unit \in Nat /\ Burst \in Nat
    BY FilledBounds, RateAssumption
  <2>2. tick - t = 0 /\ 0 * Rate = 0
    BY RateAssumption
  <2>3. (tick - t) * Rate = 0
    BY <2>2
  <2>4. granted * Unit = g * Unit
    OBVIOUS
  <2> HIDE DEF RateInv
  <2>5. granted * Unit + Filled <= granted * Unit + Burst + 0
    BY <2>1
  <2>6. QED
    BY <2>3, <2>4, <2>5 DEF Since
<1>2. RateInv /\ Since(t, g) /\ [RateNext]_rateVars => Since(t, g)'
  BY FilledStep, SinceKept
<1>3. RateInv /\ Since(t, g) => granted * Unit <= g * Unit + Burst + (tick - t) * Rate
  <2> SUFFICES ASSUME RateInv, Since(t, g)
               PROVE  granted * Unit <= g * Unit + Burst + (tick - t) * Rate
    OBVIOUS
  <2>1. /\ Filled \in Nat /\ granted * Unit \in Nat /\ g * Unit \in Nat
        /\ Burst \in Nat /\ (tick - t) * Rate \in Nat
    <3>1. /\ Filled \in Nat /\ granted * Unit \in Nat /\ Burst \in Nat
          /\ Unit \in Nat /\ Rate \in Nat
      BY FilledBounds, RateAssumption
    <3>2. tick - t \in Nat
      BY DEF Since, RateInv, RateTypeOK
    <3>3. \A m, n \in Nat : m * n \in Nat
      OBVIOUS
    <3>4. QED
      BY <3>1, <3>2, <3>3
  <2> DEFINE x == granted * Unit
             y == g * Unit
             z == (tick - t) * Rate
  <2>2. x + Filled <= y + Burst + z
    BY DEF Since
  <2>3. x \in Nat /\ y \in Nat /\ z \in Nat /\ Filled \in Nat /\ Burst \in Nat
    BY <2>1
  <2> HIDE DEF x, y, z
  <2>4. x <= y + Burst + z
    BY <2>2, <2>3
  <2>5. QED
    BY <2>4 DEF x, y, z
<1>4. QED
  BY <1>1, <1>2, <1>3, RateInitKept, RateNextKept, PTL DEF RateSpec

-----------------------------------------------------------------------------
(* The history of ranks.                                                    *)

RankRecord ==
  [stage : {"idle", "read", "open"}, domain : Domains \cup {"none"},
   doc : SUBSET Domains]

\* While audits have not overlapped there is at most one, which has read all
\* that is owed, or owes itself what it is about to write.
RankInv ==
  /\ ranks \in (SUBSET Domains) \cup {Broken}
  /\ ranking \in [Rankers -> RankRecord]
  /\ owed \in SUBSET Domains /\ met \in BOOLEAN
  /\ \A t \in Rankers : Busy(t) => ranking[t].domain \in Domains
  /\ ~met =>
       /\ \A t, u \in Rankers : Busy(t) /\ Busy(u) => t = u
       /\ (\A t \in Rankers : ranking[t].stage # "open") => ranks = owed
       /\ \A t \in Rankers : Busy(t) => ranking[t].doc = owed

LEMMA RankNextKept == RankInv /\ [RankNext]_rankVars => RankInv'
<1> SUFFICES ASSUME RankInv, [RankNext]_rankVars PROVE RankInv'
  OBVIOUS
<1>1. ASSUME NEW t \in Rankers, NEW d \in Domains, ReadRanks(t, d)
      PROVE  RankInv'
  <2> DEFINE x == [stage |-> "read", domain |-> d,
                   doc |-> IF ranks = Broken THEN {} ELSE ranks]
  <2>1. x \in RankRecord
    BY DEF RankInv, RankRecord
  <2>2. x.stage = "read" /\ x.domain = d /\ (ranks # Broken => x.doc = ranks)
    OBVIOUS
  <2>3. /\ ranking' = [ranking EXCEPT ![t] = x]
        /\ ranks' = ranks /\ owed' = owed
        /\ met' = (met \/ \E u \in Rankers : Busy(u))
    BY <1>1 DEF ReadRanks
  <2> HIDE DEF x
  <2>4. /\ ranking' \in [Rankers -> RankRecord] /\ ranking'[t] = x
        /\ \A u \in Rankers : u # t => ranking'[u] = ranking[u]
    BY <2>1, <2>3 DEF RankInv
  <2>5. ASSUME ~met'
        PROVE  /\ \A u \in Rankers : ~Busy(u)
               /\ ranks = owed /\ x.doc = owed
    <3>1. ~met /\ \A u \in Rankers : ~Busy(u)
      BY <2>3, <2>5 DEF RankInv
    <3>2. ranks = owed
      BY <3>1 DEF RankInv, Busy
    <3>3. QED
      BY <2>2, <3>1, <3>2, RankAssumption DEF RankInv
  <2>6. met' \in BOOLEAN
    BY <2>3 DEF RankInv
  <2>7. QED
    BY <2>2, <2>3, <2>4, <2>5, <2>6 DEF RankInv, Busy
<1>2. ASSUME NEW t \in Rankers, NEW found \in BOOLEAN, OpenRanks(t, found)
      PROVE  RankInv'
  <2> DEFINE r == ranking[t]
             x == [stage |-> "open", domain |-> r.domain,
                   doc |-> IF found THEN r.doc \cup {r.domain} ELSE r.doc \ {r.domain}]
  <2>1. /\ r \in RankRecord /\ r.stage = "read" /\ Busy(t) /\ r.domain \in Domains
    BY <1>2 DEF OpenRanks, RankInv, Busy
  <2>2. x \in RankRecord /\ x.stage = "open" /\ x.domain = r.domain
        /\ x.doc = IF found THEN r.doc \cup {r.domain} ELSE r.doc \ {r.domain}
    BY <2>1 DEF RankRecord
  <2>3. /\ ranking' = [ranking EXCEPT ![t] = x] /\ ranks' = Broken
        /\ owed' = IF found THEN owed \cup {r.domain} ELSE owed \ {r.domain}
        /\ met' = met
    BY <1>2 DEF OpenRanks
  <2> HIDE DEF x
  <2>4. /\ ranking' \in [Rankers -> RankRecord] /\ ranking'[t] = x
        /\ \A u \in Rankers : u # t => ranking'[u] = ranking[u]
    BY <2>2, <2>3 DEF RankInv
  <2>5. owed' \in SUBSET Domains
    BY <2>1, <2>3 DEF RankInv
  <2>6. ~met => x.doc = owed' /\ \A u \in Rankers : Busy(u) => u = t
    BY <2>1, <2>2, <2>3 DEF RankInv
  <2>7. \A u \in Rankers : u # t => (Busy(u)' <=> Busy(u))
    BY <2>4 DEF Busy
  <2>8. QED
    BY <2>1, <2>2, <2>3, <2>4, <2>5, <2>6, <2>7 DEF RankInv, Busy
<1>3. ASSUME NEW t \in Rankers, WriteRanks(t)
      PROVE  RankInv'
  <2>1. NoRanking \in RankRecord /\ NoRanking.stage = "idle"
    BY DEF NoRanking, RankRecord
  <2>2. /\ ranking' = [ranking EXCEPT ![t] = NoRanking] /\ owed' = owed /\ met' = met
        /\ ranking[t].stage = "open" /\ Busy(t)
    BY <1>3 DEF WriteRanks, Busy
  <2>3. /\ ranking' \in [Rankers -> RankRecord] /\ ranking'[t] = NoRanking
        /\ \A u \in Rankers : u # t => ranking'[u] = ranking[u]
    BY <2>1, <2>2 DEF RankInv
  <2>4. ranks' \in (SUBSET Domains) \cup {Broken}
    BY <1>3 DEF WriteRanks, RankInv, RankRecord
  <2>5. ~met => ranks' = owed /\ \A u \in Rankers : u # t => ~Busy(u)
    <3>1. SUFFICES ASSUME ~met
                   PROVE  ranks' = owed /\ \A u \in Rankers : u # t => ~Busy(u)
      OBVIOUS
    <3>2. \A u \in Rankers : u # t => ~Busy(u)
      BY <2>2, <3>1 DEF RankInv
    <3>3. ranking[t].doc = owed
      BY <2>2, <3>1 DEF RankInv
    <3>4. QED
      BY <1>3, <3>2, <3>3 DEF WriteRanks, Busy
  <2>6. QED
    BY <2>1, <2>2, <2>3, <2>4, <2>5 DEF RankInv, Busy
<1>4. ASSUME KillRankers PROVE RankInv'
  <2>1. NoRanking \in RankRecord /\ NoRanking.stage = "idle"
    BY DEF NoRanking, RankRecord
  <2>2. met' \in BOOLEAN
    BY <1>4 DEF KillRankers, RankInv
  <2>3. QED
    BY <1>4, <2>1, <2>2 DEF KillRankers, RankInv, Busy
<1>5. CASE UNCHANGED rankVars
  BY <1>5 DEF rankVars, RankInv, Busy
<1>6. QED
  BY <1>1, <1>2, <1>3, <1>4, <1>5 DEF RankNext

LEMMA RankInitKept == RankInit => RankInv
<1>1. NoRanking \in RankRecord /\ NoRanking.stage = "idle"
  BY DEF NoRanking, RankRecord
<1>2. QED
  BY <1>1 DEF RankInit, RankInv, Busy

\* Audits that do not overlap lose no domain's ranks.
THEOREM RanksKept == RankSpec => []HistoryKept
<1>1. RankInv => HistoryKept
  BY DEF RankInv, HistoryKept
<1>2. QED
  BY <1>1, RankInitKept, RankNextKept, PTL DEF RankSpec

-----------------------------------------------------------------------------
(* Settings and profiles.                                                   *)

Contents(f) == IF f = "config" THEN Document ELSE Profiles

\* A save holds what belongs into its file, and once it has written it is one
\* of config.json.
SaveFits(x) ==
  /\ x.stage \in SaveStage /\ x.file \in Files /\ x.doc \in Contents(x.file)
  /\ x.stage \in {"written", "loaded", "cleared"} => x.file = "config"

SaveRecord == [stage : SaveStage, file : Files, doc : Document \cup Profiles]

SettingsTyped ==
  /\ config \in Document \cup Unreadable
  /\ live \in Document \cup {Empty}
  /\ profiles \in Profiles \cup Unreadable
  /\ running \in BOOLEAN /\ crossed \in SUBSET Files
  /\ save \in [Savers -> SaveRecord]
  /\ \A t \in Savers : SaveFits(save[t]) /\ (~running => save[t].stage = "idle")

\* A secret is in the file when that can be read, in the memory unless a thread
\* is about to fill it, and in whatever a thread will write or fill it with.
SecretsHeld ==
  /\ config \notin Unreadable => config.secret # Absent
  /\ live # Empty => live.secret # Absent
  /\ running /\ (\A t \in Savers : save[t].stage # "cleared") => live # Empty
  /\ \A t \in Savers :
       save[t].stage # "idle" /\ save[t].file = "config" => save[t].doc.secret # Absent

\* As long as writes of a file did not meet, the one that is open finds it as
\* empty as it made it.
OpenAlone ==
  \A t \in Savers :
    save[t].stage = "open" /\ save[t].file \notin crossed =>
      /\ Now(save[t].file) = Empty
      /\ \A u \in Savers : save[u].stage = "open" /\ save[u].file = save[t].file => u = t

SettingsInv == SettingsTyped /\ SecretsHeld /\ OpenAlone /\ ReadableUnlessCrossed

LEMMA SaveMade ==
  /\ NoSave \in SaveRecord /\ SaveFits(NoSave) /\ NoSave.stage = "idle"
  /\ \A st \in {"read", "open"}, f \in Files, d \in Document \cup Profiles :
       d \in Contents(f) =>
         LET x == [stage |-> st, file |-> f, doc |-> d]
         IN  x \in SaveRecord /\ SaveFits(x)
  /\ \A d \in Document :
       LET x == [stage |-> "loaded", file |-> "config", doc |-> d]
       IN  x \in SaveRecord /\ SaveFits(x)
<1>1. Blank \in Document
  BY DEF Blank, Document
<1>2. /\ {"idle", "read", "open", "written", "loaded", "cleared"} = SaveStage
      /\ {"config", "profiles"} = Files
  BY DEF SaveStage, Files
<1>3. QED
  BY <1>1, <1>2 DEF NoSave, SaveRecord, SaveFits, Contents

\* A save that goes on to another stage.
LEMMA SaveGoesOn ==
  ASSUME SettingsTyped, NEW t \in Savers, NEW s \in SaveStage, GoOn(t, s),
         s \in {"written", "loaded", "cleared"} => save[t].file = "config"
  PROVE  /\ save' \in [Savers -> SaveRecord]
         /\ save'[t].stage = s /\ save'[t].file = save[t].file
         /\ save'[t].doc = save[t].doc
         /\ SaveFits(save'[t])
         /\ \A u \in Savers : u # t => save'[u] = save[u]
<1>1. save[t] \in SaveRecord /\ SaveFits(save[t])
  BY DEF SettingsTyped
<1>2. LET x == [save[t] EXCEPT !.stage = s]
      IN  /\ x \in SaveRecord /\ x.stage = s /\ x.file = save[t].file
          /\ x.doc = save[t].doc
  BY <1>1 DEF SaveRecord
<1>3. save' = [save EXCEPT ![t] = [save[t] EXCEPT !.stage = s]]
  BY DEF GoOn, SettingsTyped
<1>4. save'[t] = [save[t] EXCEPT !.stage = s]
  BY <1>3 DEF SettingsTyped
<1>5. SaveFits(save'[t])
  BY <1>1, <1>2, <1>4 DEF SaveFits
<1>6. QED
  BY <1>2, <1>3, <1>4, <1>5 DEF SettingsTyped

\* A save that is replaced.
LEMMA SaveBecomes ==
  ASSUME SettingsTyped, NEW t \in Savers, NEW x \in SaveRecord,
         save' = [save EXCEPT ![t] = x]
  PROVE  /\ save' \in [Savers -> SaveRecord] /\ save'[t] = x
         /\ \A u \in Savers : u # t => save'[u] = save[u]
  BY DEF SettingsTyped

\* What a form makes of a document that holds a secret holds one.
LEMMA MergeKeepsSecret ==
  ASSUME NEW form \in Form, NEW d \in Document, d.secret # Absent
  PROVE  /\ MergedSettings(form, d) \in Document
         /\ MergedSettings(form, d).secret # Absent
<1>1. form.secret \in Values \cup {Absent, Mask} /\ form.plain \in Values \cup {Absent}
  <2>1. \A e \in Document :
          /\ e.secret \in Values \cup {Absent} /\ e.plain \in Values \cup {Absent}
          /\ Masked(e).secret \in {Absent, Mask} /\ Masked(e).plain = e.plain
    BY DEF Document, Masked
  <2>2. QED
    BY <2>1 DEF Form
<1>2. d.secret \in Values \cup {Absent} /\ d.plain \in Values \cup {Absent}
  BY DEF Document
<1>3. QED
  BY <1>1, <1>2 DEF MergedSettings, Document

LEMMA UpdateKeepsSecret ==
  ASSUME NEW d \in Document, d.secret # Absent, live \in Document \cup {Empty}
  PROVE  Updated(d) \in Document /\ Updated(d).secret # Absent
<1>1. CASE live = Empty
  BY <1>1 DEF Updated
<1>2. CASE live # Empty
  <2>1. /\ d.secret \in Values \cup {Absent} /\ d.plain \in Values \cup {Absent}
        /\ live.secret \in Values \cup {Absent} /\ live.plain \in Values \cup {Absent}
    BY <1>2 DEF Document
  <2>2. Updated(d) = [k \in {"secret", "plain"} |->
                        IF d[k] = Absent THEN live[k] ELSE d[k]]
    BY <1>2 DEF Updated
  <2>3. Updated(d) = [secret |-> d.secret,
                      plain |-> IF d.plain = Absent THEN live.plain ELSE d.plain]
    BY <2>2
  <2>4. QED
    BY <2>1, <2>3 DEF Document
<1>3. QED
  BY <1>1, <1>2

LEMMA Readable ==
  ASSUME NEW f \in Files, NEW d \in Contents(f)
  PROVE  d \notin Unreadable
  BY SettingsAssumption DEF Contents, Unreadable, Files

\* A step that neither opens nor closes nor writes a file.
LEMMA FilesLeft ==
  ASSUME SettingsInv, UNCHANGED <<config, profiles, crossed>>,
         \A u \in Savers :
           /\ save'[u].stage = "open" <=> save[u].stage = "open"
           /\ save[u].stage = "open" => save'[u].file = save[u].file
  PROVE  OpenAlone' /\ ReadableUnlessCrossed'
<1>1. \A f \in Files : Now(f)' = Now(f)
  BY DEF Now
<1>2. \A u \in Savers : save[u].file \in Files
  BY DEF SettingsInv, SettingsTyped, SaveFits
<1>3. ReadableUnlessCrossed'
  BY <1>1 DEF SettingsInv, ReadableUnlessCrossed
<1>4. OpenAlone'
  BY <1>1, <1>2 DEF SettingsInv, OpenAlone
<1>5. QED
  BY <1>3, <1>4

LEMMA ReadSettings ==
  ASSUME SettingsInv, NEW t \in Savers, ReadConfig(t) \/ ReadProfiles(t)
  PROVE  SettingsInv'
<1>1. SettingsTyped /\ running /\ save[t].stage = "idle"
  BY DEF SettingsInv, ReadConfig, ReadProfiles, Saving
<1>2. UNCHANGED <<config, live, profiles, running, crossed>>
  BY DEF ReadConfig, ReadProfiles
<1>3. PICK f \in Files, d \in Document \cup Profiles :
        /\ d \in Contents(f)
        /\ save' = [save EXCEPT ![t] = [stage |-> "read", file |-> f, doc |-> d]]
        /\ f = "config" => d.secret # Absent
  <2>1. CASE ReadConfig(t)
    <3>1. config \in Document /\ config.secret # Absent
      BY <1>1, <2>1 DEF ReadConfig, SettingsTyped, SettingsInv, SecretsHeld
    <3>2. PICK form \in Form :
            save' = [save EXCEPT ![t] = [stage |-> "read", file |-> "config",
                                         doc |-> MergedSettings(form, config)]]
      BY <2>1 DEF ReadConfig
    <3>3. QED
      BY <3>1, <3>2, MergeKeepsSecret DEF Contents, Files
  <2>2. CASE ReadProfiles(t)
    <3> DEFINE p == IF profiles \in Unreadable THEN {} ELSE profiles
    <3>1. p \in SUBSET Names
      BY <1>1 DEF SettingsTyped, Profiles
    <3>2. \E q \in {p \cup {n} : n \in Names} \cup {p \ {n} : n \in p} :
            save' = [save EXCEPT ![t] = [stage |-> "read", file |-> "profiles", doc |-> q]]
      BY <2>2 DEF ReadProfiles
    <3> HIDE DEF p
    <3>3. {p \cup {n} : n \in Names} \cup {p \ {n} : n \in p} \subseteq SUBSET Names
      BY <3>1
    <3>4. PICK q \in SUBSET Names :
            save' = [save EXCEPT ![t] = [stage |-> "read", file |-> "profiles", doc |-> q]]
      BY <3>2, <3>3
    <3>5. QED
      BY <3>4 DEF Contents, Files, Profiles
  <2>3. QED
    BY <2>1, <2>2
<1> DEFINE x == [stage |-> "read", file |-> f, doc |-> d]
<1>4. x \in SaveRecord /\ SaveFits(x) /\ x.stage = "read" /\ x.file = f /\ x.doc = d
  BY <1>3, SaveMade
<1> HIDE DEF x
<1>5. /\ save' \in [Savers -> SaveRecord] /\ save'[t] = x
      /\ \A u \in Savers : u # t => save'[u] = save[u]
  BY <1>1, <1>3, <1>4, SaveBecomes DEF x
<1>6. SettingsTyped'
  BY <1>1, <1>2, <1>4, <1>5 DEF SettingsTyped
<1>7. SecretsHeld'
  BY <1>1, <1>2, <1>3, <1>4, <1>5 DEF SettingsInv, SecretsHeld
<1>8. OpenAlone' /\ ReadableUnlessCrossed'
  BY <1>1, <1>2, <1>4, <1>5, FilesLeft
<1>9. QED
  BY <1>6, <1>7, <1>8 DEF SettingsInv

LEMMA FillSettings ==
  ASSUME SettingsInv, NEW t \in Savers, Load(t) \/ Clear(t) \/ Update(t)
  PROVE  SettingsInv'
<1>1. /\ SettingsTyped /\ running /\ running' = running
      /\ save[t].stage \in {"written", "loaded", "cleared"}
      /\ UNCHANGED <<config, profiles, crossed>>
  BY DEF SettingsInv, Load, Clear, Update, Saving
<1>2. save[t].file = "config" /\ save[t].doc \in Document /\ save[t].doc.secret # Absent
  BY <1>1 DEF SettingsInv, SettingsTyped, SaveFits, Contents, SecretsHeld
<1>3. /\ save' \in [Savers -> SaveRecord] /\ SaveFits(save'[t])
      /\ save'[t].stage \in {"idle", "loaded", "cleared"}
      /\ save'[t].stage # "idle" => save'[t].doc.secret # Absent
      /\ \A u \in Savers : u # t => save'[u] = save[u]
  <2>1. CASE save' = [save EXCEPT ![t] = NoSave]
    BY <1>1, <2>1, SaveMade, SaveBecomes
  <2>2. CASE Clear(t)
    BY <1>1, <1>2, <2>2, SaveGoesOn DEF Clear, SaveStage
  <2>3. CASE /\ config \notin Unreadable
             /\ save' = [save EXCEPT ![t] =
                  [stage |-> "loaded", file |-> "config", doc |-> config]]
    <3>1. config \in Document /\ config.secret # Absent
      BY <1>1, <2>3 DEF SettingsTyped, SettingsInv, SecretsHeld
    <3>2. QED
      BY <1>1, <2>3, <3>1, SaveMade, SaveBecomes
  <2>4. QED
    BY <2>1, <2>2, <2>3 DEF Load, Update, Saved
<1>4. OpenAlone' /\ ReadableUnlessCrossed'
  BY <1>1, <1>3, FilesLeft
<1>5. CASE Load(t)
  <2>1. live' = live /\ save[t].stage # "cleared" /\ save'[t].stage # "cleared"
    BY <1>5, SaveMade, SaveBecomes, <1>1 DEF Load, Saving, Saved
  <2>2. SettingsTyped'
    BY <1>1, <1>3, <2>1 DEF SettingsTyped
  <2>3. SecretsHeld'
    BY <1>1, <1>3, <2>1 DEF SettingsInv, SecretsHeld
  <2>4. QED
    BY <1>4, <2>2, <2>3 DEF SettingsInv
<1>6. CASE Clear(t)
  <2>1. live' = Empty /\ save'[t].stage = "cleared"
    BY <1>1, <1>2, <1>6, SaveGoesOn DEF Clear, SaveStage
  <2>2. SettingsTyped'
    BY <1>1, <1>3, <2>1 DEF SettingsTyped
  <2>3. SecretsHeld'
    BY <1>1, <1>3, <2>1 DEF SettingsInv, SecretsHeld
  <2>4. QED
    BY <1>4, <2>2, <2>3 DEF SettingsInv
<1>7. CASE Update(t)
  <2>1. /\ live' = Updated(save[t].doc) /\ live' \in Document /\ live'.secret # Absent
    BY <1>1, <1>2, <1>7, UpdateKeepsSecret DEF Update, SettingsTyped
  <2>2. live' # Empty
    BY <2>1, SettingsAssumption DEF Unreadable
  <2>3. SettingsTyped'
    BY <1>1, <1>3, <2>1 DEF SettingsTyped
  <2>4. SecretsHeld'
    BY <1>1, <1>3, <2>1, <2>2 DEF SettingsInv, SecretsHeld
  <2>5. QED
    BY <1>4, <2>3, <2>4 DEF SettingsInv
<1>8. QED
  BY <1>5, <1>6, <1>7

LEMMA TruncateSettings ==
  ASSUME SettingsInv, NEW t \in Savers, Truncate(t)
  PROVE  SettingsInv'
<1>0. PICK f \in Files : f = save[t].file
  BY DEF SettingsInv, SettingsTyped, SaveFits
<1>1. /\ SettingsTyped /\ running /\ running' = running /\ live' = live
      /\ save[t].stage = "read" /\ f \in Files /\ Put(f, Empty)
  BY <1>0 DEF SettingsInv, Truncate, Saving
<1>2. /\ save' \in [Savers -> SaveRecord]
      /\ save'[t].stage = "open" /\ save'[t].file = f /\ save'[t].doc = save[t].doc
      /\ SaveFits(save'[t])
      /\ \A u \in Savers : u # t => save'[u] = save[u]
  BY <1>0, <1>1, SaveGoesOn DEF Truncate, SaveStage
<1>3. /\ Now(f)' = Empty /\ Empty \in Unreadable
      /\ \A g \in Files : g # f => Now(g)' = Now(g)
      /\ config' \in {config, Empty} /\ profiles' \in {profiles, Empty}
  BY <1>1 DEF Put, Now, Unreadable, Files
<1>4. crossed' = IF OtherWriters(t, f) = {} THEN crossed ELSE crossed \cup {f}
  BY <1>0 DEF Truncate
<1>5. SettingsTyped'
  BY <1>1, <1>2, <1>3, <1>4 DEF SettingsTyped
<1>6. SecretsHeld'
  BY <1>0, <1>1, <1>2, <1>3 DEF SettingsInv, SecretsHeld
<1>7. ReadableUnlessCrossed'
  <2>1. ASSUME NEW g \in Files, Now(g)' \in Unreadable'
        PROVE  g \in crossed' \/ \E u \in Savers : save'[u].stage = "open" /\ save'[u].file = g
    <3>1. CASE g = f
      BY <1>2, <3>1
    <3>2. CASE g # f
      <4>1. g \in crossed \/ \E u \in Savers : save[u].stage = "open" /\ save[u].file = g
        BY <1>3, <2>1, <3>2 DEF SettingsInv, ReadableUnlessCrossed, Unreadable
      <4>2. QED
        BY <1>1, <1>2, <1>4, <4>1
    <3>3. QED
      BY <3>1, <3>2
  <2>2. QED
    BY <2>1 DEF ReadableUnlessCrossed
<1>8. OpenAlone'
  <2>1. ASSUME NEW v \in Savers, NEW g \in Files, save'[v].stage = "open",
               save'[v].file = g, g \notin crossed'
        PROVE  /\ Now(g)' = Empty
               /\ \A u \in Savers :
                    save'[u].stage = "open" /\ save'[u].file = g => u = v
    <3>1. CASE g = f
      <4>1. OtherWriters(t, f) = {}
        BY <1>4, <2>1, <3>1
      <4>2. \A u \in Savers : save'[u].stage = "open" /\ save'[u].file = f => u = t
        BY <1>2, <4>1 DEF OtherWriters
      <4>3. QED
        BY <1>3, <2>1, <3>1, <4>2
    <3>2. CASE g # f
      <4>1. v # t /\ save'[v] = save[v]
        BY <1>2, <2>1, <3>2
      <4>2. g \notin crossed
        BY <1>4, <2>1
      <4>3. /\ Now(g) = Empty
            /\ \A u \in Savers : save[u].stage = "open" /\ save[u].file = g => u = v
        BY <2>1, <4>1, <4>2 DEF SettingsInv, OpenAlone
      <4>4. QED
        BY <1>2, <1>3, <3>2, <4>3
    <3>3. QED
      BY <3>1, <3>2
  <2>2. \A v \in Savers : save'[v].file \in Files
    BY <1>5 DEF SettingsTyped, SaveFits
  <2>3. \A g : Now(g)' = IF g = "config" THEN config' ELSE profiles'
    BY DEF Now
  <2>4. QED
    BY <2>1, <2>2, <2>3 DEF OpenAlone, Now
<1>9. QED
  BY <1>5, <1>6, <1>7, <1>8 DEF SettingsInv

LEMMA WriteSettings ==
  ASSUME SettingsInv, NEW t \in Savers, Write(t)
  PROVE  SettingsInv'
<1>1. PICK f \in Files : f = save[t].file
  BY DEF SettingsInv, SettingsTyped, SaveFits
<1>2. /\ SettingsTyped /\ running /\ running' = running /\ live' = live
      /\ save[t].stage = "open" /\ save[t].doc \in Contents(f)
      /\ f = "config" => save[t].doc.secret # Absent
  BY <1>1 DEF SettingsInv, Write, Saving, SettingsTyped, SaveFits, SecretsHeld
<1>3. /\ save' \in [Savers -> SaveRecord]
      /\ save'[t].stage \in {"idle", "written"}
      /\ save'[t].stage = "written" => /\ save'[t].file = f
                                       /\ save'[t].doc = save[t].doc
      /\ SaveFits(save'[t])
      /\ \A u \in Savers : u # t => save'[u] = save[u]
  <2>1. CASE f = "config"
    BY <1>1, <1>2, <2>1, SaveGoesOn DEF Write, SaveStage
  <2>2. CASE f # "config"
    BY <1>1, <1>2, <2>2, SaveMade, SaveBecomes DEF Write, Saved
  <2>3. QED
    BY <2>1, <2>2
<1>4. PICK c \in {save[t].doc, Mixed} :
        /\ Put(f, c)
        /\ c # Mixed => crossed' = IF OtherWriters(t, f) = {} THEN crossed \ {f} ELSE crossed
        /\ c = Mixed => crossed' = crossed /\ Now(f) # Empty
  <2>1. save[t].doc # Mixed
    BY <1>2, Readable DEF Unreadable
  <2>2. QED
    BY <1>1, <2>1 DEF Write
<1>5. \A g : Now(g)' = IF g = "config" THEN config' ELSE profiles'
  BY DEF Now
<1>6. /\ Now(f)' = c
      /\ \A g \in Files : g # f => Now(g)' = Now(g)
  BY <1>4, <1>5 DEF Put, Now, Files
<1>7. crossed' \in SUBSET Files
  BY <1>2, <1>4 DEF SettingsTyped
<1>8. SettingsTyped'
  <2>1. /\ config' \in Document \cup Unreadable
        /\ profiles' \in Profiles \cup Unreadable
    BY <1>2, <1>4 DEF Put, Contents, Unreadable, SettingsTyped
  <2>2. QED
    BY <1>2, <1>3, <1>7, <2>1 DEF SettingsTyped
<1>9. SecretsHeld'
  <2>1. config' \notin Unreadable => config'.secret # Absent
    BY <1>2, <1>4 DEF Put, Unreadable, SettingsInv, SecretsHeld
  <2>2. QED
    BY <1>2, <1>3, <2>1 DEF SettingsInv, SecretsHeld
\* A document in another takes two writers, and that is on record.
<1>10. c = Mixed => f \in crossed
  BY <1>1, <1>2, <1>4 DEF SettingsInv, OpenAlone
<1>11. ReadableUnlessCrossed'
  <2>1. ASSUME NEW g \in Files, Now(g)' \in Unreadable
        PROVE  g \in crossed' \/ \E u \in Savers : save'[u].stage = "open" /\ save'[u].file = g
    <3>1. CASE g = f
      <4>1. save[t].doc \notin Unreadable
        BY <1>2, Readable
      <4>2. QED
        BY <1>4, <1>6, <1>10, <2>1, <3>1, <4>1
    <3>2. CASE g # f
      <4>1. g \in crossed \/ \E u \in Savers : save[u].stage = "open" /\ save[u].file = g
        BY <1>6, <2>1, <3>2 DEF SettingsInv, ReadableUnlessCrossed
      <4>2. QED
        BY <1>1, <1>3, <1>4, <3>2, <4>1
    <3>3. QED
      BY <3>1, <3>2
  <2>2. QED
    BY <1>5, <2>1 DEF ReadableUnlessCrossed, Now, Unreadable
<1>12. OpenAlone'
  <2>1. ASSUME NEW v \in Savers, NEW g \in Files, save'[v].stage = "open",
               save'[v].file = g, g \notin crossed'
        PROVE  /\ Now(g)' = Empty
               /\ \A u \in Savers :
                    save'[u].stage = "open" /\ save'[u].file = g => u = v
    <3>1. v # t /\ save[v] = save'[v]
      BY <1>3, <2>1
    <3>2. g # f
      <4>1. SUFFICES ASSUME g = f PROVE FALSE
        OBVIOUS
      <4>2. v \in OtherWriters(t, f)
        BY <2>1, <3>1, <4>1 DEF OtherWriters
      <4>3. f \notin crossed
        BY <1>4, <2>1, <4>1, <4>2
      <4>4. QED
        BY <1>1, <1>2, <2>1, <3>1, <4>1, <4>3 DEF SettingsInv, OpenAlone
    <3>3. g \notin crossed
      BY <1>4, <2>1, <3>2
    <3>4. /\ Now(g) = Empty
          /\ \A u \in Savers : save[u].stage = "open" /\ save[u].file = g => u = v
      BY <2>1, <3>1, <3>3 DEF SettingsInv, OpenAlone
    <3>5. QED
      BY <1>3, <1>6, <3>2, <3>4
  <2>2. \A v \in Savers : save'[v].file \in Files
    BY <1>8 DEF SettingsTyped, SaveFits
  <2>3. QED
    BY <1>5, <2>1, <2>2 DEF OpenAlone, Now
<1>13. QED
  BY <1>8, <1>9, <1>11, <1>12 DEF SettingsInv

LEMMA SettingsNextKept == SettingsInv /\ [SettingsNext]_settingsVars => SettingsInv'
<1> SUFFICES ASSUME SettingsInv, [SettingsNext]_settingsVars PROVE SettingsInv'
  OBVIOUS
<1>1. ASSUME NEW t \in Savers, SaveStep(t) PROVE SettingsInv'
  BY <1>1, ReadSettings, FillSettings, TruncateSettings, WriteSettings DEF SaveStep
<1>2. CASE KillSaves
  <2>1. /\ running' = FALSE /\ UNCHANGED <<config, live, profiles>>
        /\ save' = [u \in Savers |-> NoSave]
        /\ crossed' = crossed \cup {save[u].file : u \in {v \in Savers : save[v].stage = "open"}}
    BY <1>2 DEF KillSaves
  <2>2. \A u \in Savers : save[u].file \in Files
    BY DEF SettingsInv, SettingsTyped, SaveFits
  <2>3. SettingsTyped'
    BY <2>1, <2>2, SaveMade DEF SettingsInv, SettingsTyped
  <2>4. SecretsHeld' /\ OpenAlone'
    BY <2>1, SaveMade DEF SettingsInv, SecretsHeld, OpenAlone
  <2>5. ReadableUnlessCrossed'
    BY <2>1 DEF SettingsInv, ReadableUnlessCrossed, Now
  <2>6. QED
    BY <2>3, <2>4, <2>5 DEF SettingsInv
<1>3. CASE Boot
  <2>1. /\ UNCHANGED <<config, profiles, save, crossed>> /\ live' = config
        /\ config \in Document /\ running' = TRUE /\ config \notin Unreadable
    BY <1>3 DEF Boot, SettingsInv, SettingsTyped
  <2>2. config # Empty /\ config.secret # Absent
    BY <2>1 DEF Unreadable, SettingsInv, SecretsHeld
  <2>3. SettingsTyped' /\ SecretsHeld'
    BY <2>1, <2>2 DEF SettingsInv, SettingsTyped, SecretsHeld
  <2>4. QED
    BY <2>1, <2>3, FilesLeft DEF SettingsInv
<1>4. CASE Repair
  <2>1. /\ UNCHANGED <<live, profiles, running, save>> /\ ~running
        /\ config' \in Document /\ config'.secret # Absent
        /\ crossed' = crossed \ {"config"}
    BY <1>4 DEF Repair
  <2>2. \A u \in Savers : save[u].stage # "open"
    BY <2>1 DEF SettingsInv, SettingsTyped
  <2>3. config' \notin Unreadable
    BY <2>1, SettingsAssumption
  <2>4. SettingsTyped' /\ SecretsHeld' /\ OpenAlone'
    BY <2>1, <2>2 DEF SettingsInv, SettingsTyped, SecretsHeld, OpenAlone
  <2>5. ReadableUnlessCrossed'
    BY <2>1, <2>2, <2>3 DEF SettingsInv, ReadableUnlessCrossed, Now, Unreadable
  <2>6. QED
    BY <2>4, <2>5 DEF SettingsInv
<1>5. CASE UNCHANGED settingsVars
  <2>1. SettingsTyped' /\ SecretsHeld'
    BY <1>5 DEF settingsVars, SettingsInv, SettingsTyped, SecretsHeld
  <2>2. QED
    BY <1>5, <2>1, FilesLeft DEF settingsVars, SettingsInv
<1>6. QED
  BY <1>1, <1>2, <1>3, <1>4, <1>5 DEF SettingsNext

LEMMA SettingsInitKept == SettingsInit => SettingsInv
<1> SUFFICES ASSUME SettingsInit PROVE SettingsInv
  OBVIOUS
<1>1. /\ config \in Document /\ config.secret # Absent /\ live = config
      /\ profiles \in Profiles /\ running = TRUE /\ crossed = {}
      /\ save = [t \in Savers |-> NoSave]
  BY DEF SettingsInit
<1>2. config \notin Unreadable /\ profiles \notin Unreadable
  BY <1>1, SettingsAssumption
<1>3. SettingsTyped /\ SecretsHeld /\ OpenAlone
  BY <1>1, <1>2, SaveMade DEF SettingsTyped, SecretsHeld, OpenAlone, Unreadable
<1>4. ReadableUnlessCrossed
  BY <1>1, <1>2 DEF ReadableUnlessCrossed, Now
<1>5. QED
  BY <1>3, <1>4 DEF SettingsInv

\* What is typed last is what is stored, and what a save will store, except for
\* the saves that a newer one overtook.
NewestHeld ==
  /\ newest \in Values /\ typed \in [Savers -> Values \cup {Absent}]
  /\ config \notin Unreadable => reverted \/ config.secret = newest
  /\ \A t \in UnderWay :
       IF typed[t] # Absent THEN save[t].doc.secret = typed[t]
       ELSE t \in behind \/ reverted \/ save[t].doc.secret = newest

LEMMA TypedForm ==
  ASSUME NEW form \in Form
  PROVE  /\ Typed(form) \in Values \cup {Absent}
         /\ \A d \in Document :
              MergedSettings(form, d).secret
                = IF Typed(form) = Absent THEN d.secret ELSE Typed(form)
<1>1. form.secret \in Values \cup {Absent, Mask}
  <2>1. \A e \in Document :
          /\ e.secret \in Values \cup {Absent}
          /\ Masked(e).secret \in {Absent, Mask}
    BY DEF Document, Masked
  <2>2. QED
    BY <2>1 DEF Form
<1>2. Mask \notin Values /\ Absent \notin Values /\ Mask # Absent
  BY SettingsAssumption
<1>3. QED
  BY <1>1, <1>2 DEF Typed, MergedSettings

\* A step that stores nothing: whoever it lets begin has read what is stored.
LEMMA NothingStored ==
  ASSUME NewestHeld, UNCHANGED <<config, newest, behind, reverted>>,
         typed' \in [Savers -> Values \cup {Absent}],
         \A t \in UnderWay' :
           \/ t \in UnderWay /\ save'[t].doc = save[t].doc /\ typed'[t] = typed[t]
           \/ /\ config \notin Unreadable
              /\ save'[t].doc.secret = IF typed'[t] = Absent THEN config.secret
                                       ELSE typed'[t]
  PROVE  NewestHeld'
  BY DEF NewestHeld, Unreadable

LEMMA WriteNewest ==
  ASSUME SettingsInv, NewestHeld, NEW t \in Savers, Write(t)
  PROVE  NewestHeld'
<1>1. /\ SettingsTyped /\ save[t].stage = "open"
      /\ save[t].file \in Files
  BY DEF SettingsInv, SettingsTyped, SaveFits, Write, Saving
<1>2. CASE save[t].file = "profiles"
  <2>1. UNCHANGED <<config, overlap>>
    BY <1>2 DEF Write, Put, NoteSecret
  <2>2. save' = [save EXCEPT ![t] = NoSave]
    BY <1>2 DEF Write, Saved
  <2>3. \A u \in UnderWay' : u # t /\ u \in UnderWay /\ save'[u] = save[u]
    BY <1>1, <1>2, <2>2, SaveMade, SaveBecomes DEF UnderWay
  <2>4. QED
    BY <2>1, <2>3, NothingStored DEF overlap, NewestHeld
<1>3. CASE save[t].file = "config"
  <2>1. /\ save'[t].stage = "written"
        /\ \A u \in Savers : u # t => save'[u] = save[u]
    BY <1>1, <1>3, SaveGoesOn DEF Write, SaveStage
  <2>2. UnderWay' = UnderWay \ {t} /\ t \in UnderWay
    BY <1>1, <1>3, <2>1 DEF UnderWay
  <2>3. config' = save[t].doc \/ config' \in Unreadable'
    BY <1>3 DEF Write, Put, Unreadable
  <2>4. typed' = [typed EXCEPT ![t] = Absent]
    BY <1>3 DEF Write, NoteSecret
  <2>5. /\ typed' \in [Savers -> Values \cup {Absent}]
        /\ \A u \in UnderWay' : typed'[u] = typed[u] /\ save'[u] = save[u]
    BY <2>1, <2>2, <2>4 DEF NewestHeld, UnderWay
  <2>6. CASE typed[t] = Absent
    <3>1. /\ reverted' = (reverted \/ t \in behind)
          /\ behind' = behind \ {t} /\ newest' = newest
      BY <1>3, <2>6 DEF Write, NoteSecret
    <3>2. t \in behind \/ reverted \/ save[t].doc.secret = newest
      BY <2>2, <2>6 DEF NewestHeld
    <3>3. \A u \in UnderWay' : u \in UnderWay /\ u # t
      BY <2>2
    <3>4. QED
      BY <2>3, <2>5, <3>1, <3>2, <3>3 DEF NewestHeld
  <2>7. CASE typed[t] # Absent
    <3>1. /\ newest' = typed[t] /\ behind' = UnderWay \ {t}
          /\ reverted' = FALSE
      BY <1>3, <2>7 DEF Write, NoteSecret
    <3>2. save[t].doc.secret = typed[t] /\ typed[t] \in Values
      BY <2>2, <2>7 DEF NewestHeld
    <3>3. \A u \in UnderWay' : u \in UnderWay /\ u \in behind'
      BY <2>2, <3>1
    <3>4. QED
      BY <2>3, <2>5, <3>1, <3>2, <3>3 DEF NewestHeld
  <2>8. QED
    BY <2>6, <2>7
<1>4. QED
  BY <1>1, <1>2, <1>3 DEF Files

LEMMA NewestStep ==
  ASSUME SettingsInv, NewestHeld, [SettingsNext]_settingsVars
  PROVE  NewestHeld'
<1>0. SettingsTyped /\ typed \in [Savers -> Values \cup {Absent}]
  BY DEF SettingsInv, NewestHeld
<1>1. ASSUME NEW t \in Savers, ReadConfig(t) PROVE NewestHeld'
  <2>1. PICK form \in Form :
          /\ save' = [save EXCEPT ![t] = [stage |-> "read", file |-> "config",
                                          doc |-> MergedSettings(form, config)]]
          /\ typed' = [typed EXCEPT ![t] = Typed(form)]
    BY <1>1 DEF ReadConfig
  <2>2. config \in Document /\ config \notin Unreadable
    BY <1>0, <1>1 DEF ReadConfig, SettingsTyped
  <2>3. typed' \in [Savers -> Values \cup {Absent}]
    BY <1>0, <2>1, TypedForm
  <2>4. /\ save'[t].doc = MergedSettings(form, config)
        /\ typed'[t] = Typed(form)
        /\ \A u \in Savers : u # t => save'[u] = save[u] /\ typed'[u] = typed[u]
    BY <1>0, <2>1 DEF SettingsTyped
  <2>5. save'[t].doc.secret = IF typed'[t] = Absent THEN config.secret
                              ELSE typed'[t]
    BY <2>2, <2>4, TypedForm
  <2>6. \A u \in UnderWay' : u = t \/ (u \in UnderWay /\ save'[u] = save[u])
    BY <2>4 DEF UnderWay
  <2>7. UNCHANGED <<config, newest, behind, reverted>>
    BY <1>1 DEF ReadConfig
  <2>8. QED
    BY <2>2, <2>3, <2>4, <2>5, <2>6, <2>7, NothingStored DEF UnderWay
<1>2. ASSUME NEW t \in Savers, ReadProfiles(t) PROVE NewestHeld'
  <2>1. PICK q : save' = [save EXCEPT ![t] = [stage |-> "read", file |-> "profiles", doc |-> q]]
    BY <1>2 DEF ReadProfiles
  <2>2. \A u \in UnderWay' : u \in UnderWay /\ save'[u] = save[u]
    BY <1>0, <2>1 DEF UnderWay, SettingsTyped
  <2>3. QED
    BY <1>0, <1>2, <2>2, NothingStored DEF ReadProfiles, overlap
<1>3. ASSUME NEW t \in Savers, Truncate(t) PROVE NewestHeld'
  <2>1. /\ save'[t].doc = save[t].doc /\ save'[t].file = save[t].file
        /\ save[t].stage = "read"
        /\ \A u \in Savers : u # t => save'[u] = save[u]
    BY <1>0, <1>3, SaveGoesOn DEF Truncate, Saving, SaveStage
  <2>2. \A u \in UnderWay' : u \in UnderWay /\ save'[u].doc = save[u].doc
    BY <2>1 DEF UnderWay
  <2>3. UNCHANGED overlap /\ (config' = config \/ config' \in Unreadable')
    BY <1>3 DEF Truncate, Put, Unreadable
  <2>4. QED
    BY <2>2, <2>3 DEF NewestHeld, overlap
<1>4. ASSUME NEW t \in Savers, Load(t) \/ Clear(t) \/ Update(t)
      PROVE  NewestHeld'
  <2>1. UNCHANGED <<config, overlap>>
    BY <1>4 DEF Load, Clear, Update
  <2>2. /\ save'[t].stage \in {"idle", "loaded", "cleared"}
        /\ \A u \in Savers : u # t => save'[u] = save[u]
    <3>1. CASE save' = [save EXCEPT ![t] = NoSave]
      BY <1>0, <3>1, SaveMade, SaveBecomes
    <3>2. CASE save' = [save EXCEPT ![t] =
                 [stage |-> "loaded", file |-> "config", doc |-> config]]
      BY <1>0, <3>2 DEF SettingsTyped
    <3>3. CASE GoOn(t, "cleared")
      BY <1>0, <3>3 DEF GoOn, SettingsTyped, SaveRecord
    <3>4. QED
      BY <1>4, <3>1, <3>2, <3>3 DEF Load, Clear, Update, Saved
  <2>3. \A u \in UnderWay' : u \in UnderWay /\ save'[u] = save[u]
    BY <2>2 DEF UnderWay
  <2>4. QED
    BY <1>0, <2>1, <2>3, NothingStored DEF overlap
<1>5. CASE KillSaves
  <2>1. /\ UNCHANGED <<config, newest, reverted>>
        /\ typed' = [t \in Savers |-> Absent]
        /\ save' = [t \in Savers |-> NoSave]
    BY <1>5 DEF KillSaves
  <2>2. UnderWay' = {}
    BY <2>1, SaveMade DEF UnderWay
  <2>3. QED
    BY <2>1, <2>2 DEF NewestHeld, Unreadable
<1>6. CASE Boot \/ UNCHANGED settingsVars
  <2>1. UNCHANGED <<config, save, overlap>>
    BY <1>6 DEF Boot, settingsVars
  <2>2. QED
    BY <2>1 DEF NewestHeld, UnderWay, overlap, Unreadable
<1>7. CASE Repair
  <2>1. /\ UNCHANGED <<save, typed>> /\ newest' = config'.secret
        /\ config' \in Document /\ config'.secret # Absent
        /\ \A t \in Savers : save[t].stage = "idle"
    BY <1>0, <1>7 DEF Repair, SettingsTyped
  <2>2. UnderWay' = {}
    BY <2>1 DEF UnderWay
  <2>3. newest' \in Values
    BY <2>1 DEF Document
  <2>4. QED
    BY <2>1, <2>2, <2>3 DEF NewestHeld
<1>8. QED
  BY <1>1, <1>2, <1>3, <1>4, <1>5, <1>6, <1>7, WriteNewest
     DEF SettingsNext, SaveStep

(* config.json holds a typed secret whenever it can be read, and it is the  *)
(* one typed last unless a save wrote that had read the file before; the    *)
(* memory holds one whenever it is filled.  A write makes every other save  *)
(* under way one that may take the older secret back, and only the next     *)
(* secret typed, or a repair of the file, ends that.                        *)
THEOREM SecretStays == SettingsSpec => []SecretKept
<1>1. ASSUME SettingsInv, NewestHeld PROVE SecretKept
  <2>1. /\ config \notin Unreadable => config.secret \in Values
        /\ live # Empty => live.secret \in Values
    BY <1>1 DEF SettingsInv, SettingsTyped, SecretsHeld, Document
  <2>2. QED
    BY <1>1, <2>1 DEF SettingsInv, SecretsHeld, NewestHeld, SecretKept
<1>2. ASSUME SettingsInit PROVE NewestHeld
  <2>1. UnderWay = {}
    BY <1>2, SaveMade DEF SettingsInit, UnderWay
  <2>2. config.secret \in Values
    BY <1>2 DEF SettingsInit, Document
  <2>3. QED
    BY <1>2, <2>1, <2>2 DEF SettingsInit, NewestHeld
<1>3. SettingsInv /\ NewestHeld /\ [SettingsNext]_settingsVars => NewestHeld'
  BY NewestStep
<1>4. QED
  BY <1>1, <1>2, <1>3, SettingsInitKept, SettingsNextKept, PTL DEF SettingsSpec

\* Only crossed writes, or a kill during one, leave a file that cannot be read.
THEOREM FilesReadable == SettingsSpec => []ReadableUnlessCrossed
<1>1. SettingsInv => ReadableUnlessCrossed
  BY DEF SettingsInv
<1>2. QED
  BY <1>1, SettingsInitKept, SettingsNextKept, PTL DEF SettingsSpec

-----------------------------------------------------------------------------
(* The caches of pages and of robots.txt.                                   *)

CheckRecord ==
  [stage : {"idle", "fetch", "store", "again"}, kind : Kinds, site : Sites \cup {NotCached},
   since : 0..MaxClock, taken : 0..MaxClock]

CacheTypeOK ==
  /\ clock \in 0..MaxClock
  /\ cache \in [Kinds -> Seq(CacheEntry)]
  /\ check \in [CheckThreads -> CheckRecord]
  /\ report \in [CheckThreads -> [kind : Kinds, age : Nat]]

\* What is stored was so when it was stored, or as long before as a check may take.
EntryOK(e) == e.taken <= e.stamp /\ e.stamp <= clock /\ e.stamp <= e.taken + MaxCheckTime

EntriesOK == \A k \in Kinds : \A i \in DOMAIN cache[k] : EntryOK(cache[k][i])

\* A site has one entry of a kind, so that the one looked up is the only one.
OneEntry ==
  \A k \in Kinds : \A i, j \in DOMAIN cache[k] : cache[k][i].site = cache[k][j].site => i = j

\* What a check under way may rely on: before its second look, that the entry it
\* saw as fresh can only have been replaced by a later one.
CheckOK(c) ==
  c.stage # "idle" =>
    /\ c.since <= clock /\ clock <= c.since + MaxCheckTime /\ c.site \in Sites
    /\ c.stage = "store" => c.since <= c.taken /\ c.taken <= clock
    /\ c.stage = "again" =>
         /\ c.kind = "robots"
         /\ \A i \in DOMAIN cache["robots"] :
              cache["robots"][i].site = c.site => c.since <= cache["robots"][i].stamp + RobotsTtl

ChecksOK == \A t \in CheckThreads : CheckOK(check[t])

CacheInv == CacheTypeOK /\ EntriesOK /\ OneEntry /\ ChecksOK /\ StaleBound

LEMMA CacheConstants ==
  /\ PageTtl \in Nat \ {0} /\ RobotsTtl \in Nat \ {0} /\ CacheMax \in Nat \ {0}
  /\ MaxCheckTime \in Nat /\ MaxClock \in Nat
  BY CacheAssumption

LEMMA CacheStarts == CacheInit => CacheInv
<1> SUFFICES ASSUME CacheInit PROVE CacheInv
  OBVIOUS
<1>1. CacheTypeOK
  BY CacheConstants DEF CacheInit, CacheTypeOK, CheckRecord, NoCheck, NoReport, Kinds
<1>2. EntriesOK /\ OneEntry
  BY DEF CacheInit, EntriesOK, OneEntry
<1>3. ChecksOK
  BY DEF CacheInit, ChecksOK, CheckOK, NoCheck
<1>4. StaleBound
  BY CacheConstants DEF CacheInit, StaleBound, NoReport
<1>5. QED
  BY <1>1, <1>2, <1>3, <1>4 DEF CacheInv

\* What _cache_get finds is an entry of the site.
LEMMA Found ==
  ASSUME NEW k \in Kinds, NEW s, CacheGet(k, s) # NotCached
  PROVE  \E i \in DOMAIN cache[k] : CacheGet(k, s) = cache[k][i] /\ cache[k][i].site = s
<1>1. Places(k, s) # {}
  BY DEF CacheGet
<1>2. (CHOOSE i \in Places(k, s) : TRUE) \in Places(k, s)
  BY <1>1
<1>3. QED
  BY <1>1, <1>2 DEF CacheGet, Places

\* _cache_set leaves the other cache alone, and in its own the entry and some of
\* those that were there, still one of a site.
LEMMA AfterSet ==
  ASSUME CacheTypeOK, NEW k \in Kinds, NEW e \in CacheEntry, CacheSet(k, e)
  PROVE  /\ cache' \in [Kinds -> Seq(CacheEntry)]
         /\ \A j \in Kinds : j # k => cache'[j] = cache[j]
         /\ \A i \in DOMAIN cache'[k] :
              cache'[k][i] = e \/ \E h \in DOMAIN cache[k] : cache'[k][i] = cache[k][h]
         /\ \E i \in DOMAIN cache'[k] : cache'[k][i] = e
         /\ OneEntry => OneEntry'
<1> DEFINE q == cache[k]
           r == [i \in DOMAIN q |-> IF q[i].site = e.site THEN e ELSE q[i]]
           b == IF Len(q) >= CacheMax THEN Tail(q) ELSE q
           a == Append(b, e)
           n == IF Places(k, e.site) # {} THEN r ELSE a
<1>1. q \in Seq(CacheEntry) /\ cache' = [cache EXCEPT ![k] = n] /\ CacheMax \in Nat \ {0}
  BY CacheConstants DEF CacheTypeOK, CacheSet
<1>2. r \in Seq(CacheEntry) /\ DOMAIN r = DOMAIN q
  BY <1>1
<1>3. /\ b \in Seq(CacheEntry)
      /\ \A i \in DOMAIN b : \E h \in DOMAIN q : b[i] = q[h] /\ (h = i \/ h = i + 1)
      /\ b = q \/ \A i \in DOMAIN b : i + 1 \in DOMAIN q /\ b[i] = q[i + 1]
  <2>1. CASE Len(q) >= CacheMax
    <3>1. Len(q) \in Nat /\ q # <<>> /\ b = Tail(q)
      BY <1>1, <2>1
    <3>2. /\ b \in Seq(CacheEntry) /\ Len(b) = Len(q) - 1
          /\ \A i \in 1..Len(b) : b[i] = q[i + 1]
      <4> HIDE DEF b, q
      <4>1. Tail(q) \in Seq(CacheEntry) /\ Len(Tail(q)) = Len(q) - 1
        BY <1>1, <3>1, HeadTailProperties
      <4>2. \A i \in 1..Len(Tail(q)) : Tail(q)[i] = q[i + 1]
        BY <1>1, <3>1, HeadTailProperties
      <4>3. QED
        BY <3>1, <4>1, <4>2
    <3> HIDE DEF b
    <3>3. \A i \in DOMAIN b : i + 1 \in DOMAIN q /\ b[i] = q[i + 1]
      BY <1>1, <3>1, <3>2
    <3>4. QED
      BY <3>2, <3>3
  <2>2. CASE ~(Len(q) >= CacheMax)
    BY <1>1, <2>2
  <2>3. QED
    BY <2>1, <2>2
<1>4. a \in Seq(CacheEntry) /\ Len(a) = Len(b) + 1 /\ DOMAIN a = 1..Len(b) + 1
      /\ (\A i \in DOMAIN b : a[i] = b[i]) /\ a[Len(b) + 1] = e
      /\ DOMAIN b = 1..Len(b) /\ Len(b) \in Nat
  <2> HIDE DEF b
  <2>1. QED
    BY <1>3
<1>5. n \in Seq(CacheEntry) /\ cache'[k] = n /\ \A j \in Kinds : j # k => cache'[j] = cache[j]
  <2>1. n \in Seq(CacheEntry)
    BY <1>2, <1>4
  <2> HIDE DEF n
  <2>2. QED
    BY <1>1, <2>1 DEF CacheTypeOK
<1>6. \A i \in DOMAIN n : n[i] = e \/ \E h \in DOMAIN q : n[i] = q[h]
  <2>1. CASE Places(k, e.site) # {}
    BY <1>2, <2>1
  <2>2. CASE Places(k, e.site) = {}
    <3>1. n = a
      BY <2>2
    <3> HIDE DEF a, b, n
    <3>2. \A i \in DOMAIN a : i \in DOMAIN b \/ i = Len(b) + 1
      BY <1>4
    <3>3. QED
      BY <1>3, <1>4, <3>1, <3>2
  <2>3. QED
    BY <2>1, <2>2
<1>7. ASSUME OneEntry PROVE \A i, j \in DOMAIN n : n[i].site = n[j].site => i = j
  <2>0. \A i, j \in DOMAIN q : q[i].site = q[j].site => i = j
    BY <1>7 DEF OneEntry
  <2>1. CASE Places(k, e.site) # {}
    <3>1. \A i \in DOMAIN q : r[i].site = q[i].site
      OBVIOUS
    <3>2. QED
      BY <1>2, <2>0, <2>1, <3>1
  <2>2. CASE Places(k, e.site) = {}
    <3>1. n = a /\ \A h \in DOMAIN q : q[h].site # e.site
      BY <2>2 DEF Places
    <3> HIDE DEF a, b, n, q
    <3>2. \A i \in DOMAIN a : i \in DOMAIN b \/ i = Len(b) + 1
      BY <1>4
    <3>3. \A i \in DOMAIN b : b[i].site # e.site
      BY <1>3, <3>1
    <3>4. \A i, j \in DOMAIN b : i \in Int /\ j \in Int /\ (b[i].site = b[j].site => i = j)
      BY <1>3, <1>4, <2>0
    <3>5. \A i, j \in DOMAIN a : a[i].site = a[j].site => i = j
      BY <1>4, <3>2, <3>3, <3>4
    <3>6. QED
      BY <3>1, <3>5
  <2>3. QED
    BY <2>1, <2>2
<1>8. OneEntry => OneEntry'
  <2> SUFFICES ASSUME OneEntry PROVE OneEntry'
    OBVIOUS
  <2>1. \A i, j \in DOMAIN n : n[i].site = n[j].site => i = j
    BY <1>7
  <2> HIDE DEF n
  <2>2. QED
    BY <1>5, <2>1 DEF OneEntry
<1>9. \E i \in DOMAIN n : n[i] = e
  <2>1. CASE Places(k, e.site) # {}
    <3>1. PICK i \in DOMAIN q : q[i].site = e.site
      BY <2>1 DEF Places
    <3>2. r[i] = e /\ n = r
      BY <2>1, <3>1
    <3>3. QED
      BY <1>2, <3>2
  <2>2. CASE Places(k, e.site) = {}
    <3>1. n = a
      BY <2>2
    <3> HIDE DEF a, b, n
    <3>2. QED
      BY <1>4, <3>1
  <2>3. QED
    BY <2>1, <2>2
<1> HIDE DEF n
<1>10. cache' \in [Kinds -> Seq(CacheEntry)]
  BY <1>1, <1>5 DEF CacheTypeOK
<1>11. QED
  BY <1>5, <1>6, <1>8, <1>9, <1>10

\* What the bound on one thread's report is.
Bound(r) == r.age <= IF r.kind = "page" THEN PageTtl - 1 + MaxCheckTime
                                        ELSE RobotsTtl + 2 * MaxCheckTime

LEMMA EachReport == StaleBound <=> \A t \in CheckThreads : Bound(report[t])
  BY DEF StaleBound, Bound

\* An action of one thread that leaves the clock and the caches alone: only what it
\* says and what its check becomes need be looked at.
LEMMA ThreadOnly ==
  ASSUME CacheInv, NEW t \in CheckThreads, UNCHANGED <<clock, cache>>,
         NEW c \in CheckRecord, NEW r \in [kind : Kinds, age : Nat],
         check' = [check EXCEPT ![t] = c], report' = [report EXCEPT ![t] = r],
         CheckOK(c), Bound(r)
  PROVE  CacheInv'
<1>1. CacheTypeOK'
  BY DEF CacheInv, CacheTypeOK
<1>2. EntriesOK' /\ OneEntry'
  BY DEF CacheInv, EntriesOK, EntryOK, OneEntry
<1>3. \A u \in CheckThreads : CheckOK(check[u])' 
  <2> SUFFICES ASSUME NEW u \in CheckThreads PROVE CheckOK(check[u])'
    OBVIOUS
  <2>1. CheckOK(check[u]) /\ CheckOK(c)
    BY DEF CacheInv, ChecksOK
  <2>2. check'[u] = IF u = t THEN c ELSE check[u]
    BY DEF CacheInv, CacheTypeOK
  <2>3. QED
    BY <2>1, <2>2 DEF CheckOK
<1>4. \A u \in CheckThreads : Bound(report'[u])
  BY EachReport DEF CacheInv, CacheTypeOK
<1>5. StaleBound'
  BY <1>4 DEF StaleBound, Bound
<1>6. QED
  BY <1>1, <1>2, <1>3, <1>5 DEF CacheInv, ChecksOK

LEMMA ThreadFacts ==
  ASSUME CacheInv, NEW t \in CheckThreads
  PROVE  /\ check[t] \in CheckRecord /\ CheckOK(check[t])
         /\ report[t] \in [kind : Kinds, age : Nat] /\ Bound(report[t])
         /\ clock \in 0..MaxClock
         /\ NoCheck \in CheckRecord /\ CheckOK(NoCheck)
         /\ NoReport \in [kind : Kinds, age : Nat] /\ Bound(NoReport)
         /\ report = [report EXCEPT ![t] = report[t]]
         /\ check = [check EXCEPT ![t] = check[t]]
<1>1. /\ check[t] \in CheckRecord /\ CheckOK(check[t])
      /\ report[t] \in [kind : Kinds, age : Nat] /\ Bound(report[t])
      /\ clock \in 0..MaxClock
  BY EachReport DEF CacheInv, CacheTypeOK, ChecksOK
<1>2. NoCheck \in CheckRecord /\ CheckOK(NoCheck)
  BY CacheConstants DEF NoCheck, CheckRecord, CheckOK, Kinds
<1>3. NoReport \in [kind : Kinds, age : Nat] /\ Bound(NoReport)
  BY CacheConstants DEF NoReport, Bound, Kinds
<1>4. report = [report EXCEPT ![t] = report[t]] /\ check = [check EXCEPT ![t] = check[t]]
  BY DEF CacheInv, CacheTypeOK
<1>5. QED
  BY <1>1, <1>2, <1>3, <1>4

LEMMA LookupKept ==
  ASSUME CacheInv, NEW t \in CheckThreads, NEW k \in Kinds, NEW s \in Sites, Lookup(t, k, s)
  PROVE  CacheInv'
<1> DEFINE e == CacheGet(k, s)
<1>1. UNCHANGED <<clock, cache>>
  BY DEF Lookup
<1>2. CASE Fresh(k, e) /\ k = "page"
  <2>1. PICK i \in DOMAIN cache[k] : e = cache[k][i]
    BY <1>2, Found DEF Fresh
  <2>2. e \in CacheEntry /\ EntryOK(e)
    BY <2>1 DEF CacheInv, CacheTypeOK, EntriesOK
  <2> DEFINE r == [kind |-> k, age |-> clock - e.taken]
  <2>3. clock - e.stamp < PageTtl
    BY <1>2 DEF Fresh
  <2>4. report' = [report EXCEPT ![t] = r] /\ check' = check
    BY <1>2 DEF Lookup, Says
  <2> HIDE DEF e
  <2>5. r \in [kind : Kinds, age : Nat] /\ Bound(r)
    BY <1>2, <2>2, <2>3, ThreadFacts, CacheConstants DEF EntryOK, CacheEntry, Bound
  <2> HIDE DEF r
  <2>6. QED
    BY <1>1, <2>4, <2>5, ThreadFacts, ThreadOnly
<1>3. CASE ~(Fresh(k, e) /\ k = "page")
  <2> DEFINE c == [stage |-> IF Fresh(k, e) THEN "again" ELSE "fetch",
                   kind |-> k, site |-> s, since |-> clock, taken |-> 0]
  <2>1. check' = [check EXCEPT ![t] = c] /\ report' = [report EXCEPT ![t] = NoReport]
    BY <1>3 DEF Lookup
  <2>2. c \in CheckRecord
    BY ThreadFacts, CacheConstants DEF CheckRecord
  <2>3. CASE Fresh(k, e)
    <3>1. k = "robots" /\ clock - e.stamp <= RobotsTtl
      BY <1>3, <2>3 DEF Fresh, Kinds
    <3>2. PICK i \in DOMAIN cache[k] : e = cache[k][i] /\ cache[k][i].site = s
      BY <2>3, Found DEF Fresh
    <3>3. \A j \in DOMAIN cache[k] : cache[k][j].site = s => j = i
      BY <3>2 DEF CacheInv, OneEntry
    <3>4. cache[k][i] \in CacheEntry
      BY <3>2 DEF CacheInv, CacheTypeOK
    <3>5. clock <= cache[k][i].stamp + RobotsTtl
      <4> HIDE DEF e
      <4>1. QED
        BY <3>1, <3>2, <3>4, ThreadFacts, CacheConstants DEF CacheEntry
    <3>6. /\ c.stage = "again" /\ c.site = s /\ c.since = clock /\ c.kind = "robots"
      BY <2>3, <3>1
    <3> HIDE DEF c, e
    <3>7. CheckOK(c)
      BY <3>1, <3>3, <3>5, <3>6, ThreadFacts, CacheConstants DEF CheckOK
    <3>8. QED
      BY <1>1, <2>1, <2>2, <3>7, ThreadFacts, ThreadOnly
  <2>4. CASE ~Fresh(k, e)
    <3>1. c.stage = "fetch" /\ c.since = clock /\ c.site = s
      BY <2>4
    <3> HIDE DEF c, e
    <3>2. CheckOK(c)
      BY <3>1, ThreadFacts, CacheConstants DEF CheckOK
    <3>3. QED
      BY <1>1, <2>1, <2>2, <3>2, ThreadFacts, ThreadOnly
  <2>5. QED
    BY <2>3, <2>4
<1>4. QED
  BY <1>2, <1>3

LEMMA SiteAnswersKept ==
  ASSUME CacheInv, NEW t \in CheckThreads, SiteAnswers(t)
  PROVE  CacheInv'
<1> DEFINE c == [stage |-> "store", kind |-> check[t].kind, site |-> check[t].site,
                 since |-> check[t].since, taken |-> clock]
<1>1. /\ check' = [check EXCEPT ![t] = c] /\ report' = [report EXCEPT ![t] = report[t]]
      /\ UNCHANGED <<clock, cache>> /\ check[t].stage = "fetch"
  BY ThreadFacts DEF SiteAnswers
<1>2. c \in CheckRecord
  BY ThreadFacts DEF CheckRecord
<1>3. CheckOK(c)
  BY <1>1, ThreadFacts DEF CheckOK, CheckRecord
<1> HIDE DEF c
<1>4. QED
  BY <1>1, <1>2, <1>3, ThreadFacts, ThreadOnly

LEMMA SiteRefusedKept ==
  ASSUME CacheInv, NEW t \in CheckThreads, SiteRefused(t)
  PROVE  CacheInv'
<1>1. /\ check' = [check EXCEPT ![t] = NoCheck] /\ report' = [report EXCEPT ![t] = report[t]]
      /\ UNCHANGED <<clock, cache>>
  BY ThreadFacts DEF SiteRefused, Ends
<1>2. QED
  BY <1>1, ThreadFacts, ThreadOnly

\* The second look: the entry was stored by then at most RobotsTtl before the check
\* began, or after it did.
LEMMA LookAgainKept ==
  ASSUME CacheInv, NEW t \in CheckThreads, LookAgain(t)
  PROVE  CacheInv'
<1> DEFINE c == check[t]
           e == CacheGet(c.kind, c.site)
           r == [kind |-> c.kind, age |-> clock - (IF e = NotCached THEN clock ELSE e.taken)]
<1>1. /\ check' = [check EXCEPT ![t] = NoCheck] /\ report' = [report EXCEPT ![t] = r]
      /\ UNCHANGED <<clock, cache>> /\ c.stage = "again"
  BY DEF LookAgain, Ends, Says
<1>2. /\ c \in CheckRecord /\ c.kind = "robots" /\ c.since <= clock
      /\ clock <= c.since + MaxCheckTime
      /\ \A i \in DOMAIN cache["robots"] :
           cache["robots"][i].site = c.site => c.since <= cache["robots"][i].stamp + RobotsTtl
  BY <1>1, ThreadFacts DEF CheckOK
<1>3. r \in [kind : Kinds, age : Nat] /\ Bound(r)
  <2>1. CASE e = NotCached
    <3>1. r.age = 0 /\ r \in [kind : Kinds, age : Nat]
      BY <1>2, <2>1, ThreadFacts DEF CheckRecord
    <3> HIDE DEF r, e
    <3>2. QED
      BY <3>1, CacheConstants DEF Bound
  <2>2. CASE e # NotCached
    <3>1. PICK i \in DOMAIN cache["robots"] :
            e = cache["robots"][i] /\ cache["robots"][i].site = c.site
      BY <1>2, <2>2, Found DEF Kinds
    <3>2. e \in CacheEntry /\ EntryOK(e) /\ c.since <= e.stamp + RobotsTtl
      BY <1>2, <3>1 DEF CacheInv, CacheTypeOK, EntriesOK, Kinds
    <3>3. r.age = clock - e.taken /\ r.kind = "robots" /\ r = [kind |-> "robots", age |-> r.age]
      BY <1>2, <2>2
    <3> HIDE DEF e, r, c
    <3>4. r.age \in Nat /\ r.age <= RobotsTtl + 2 * MaxCheckTime
      BY <1>2, <3>2, <3>3, ThreadFacts, CacheConstants DEF EntryOK, CacheEntry, CheckRecord
    <3>5. QED
      BY <3>3, <3>4 DEF Bound, Kinds
  <2>3. QED
    BY <2>1, <2>2
<1> HIDE DEF r, e, c
<1>4. QED
  BY <1>1, <1>3, ThreadFacts, ThreadOnly

\* An entry stored now is later than whatever a check that looks again has seen.
LEMMA StoreKept ==
  ASSUME CacheInv, NEW t \in CheckThreads, Store(t)
  PROVE  CacheInv'
<1> DEFINE c == check[t]
           k == c.kind
           e == [site |-> c.site, taken |-> c.taken, stamp |-> clock]
           ck == IF k = "page" THEN NoCheck ELSE [c EXCEPT !.stage = "again"]
           rp == IF k = "page" THEN [kind |-> k, age |-> clock - c.taken] ELSE report[t]
<1>1. /\ CacheSet(k, e) /\ clock' = clock /\ c.stage = "store"
      /\ check' = [check EXCEPT ![t] = ck] /\ report' = [report EXCEPT ![t] = rp]
  <2>1. CASE k = "page"
    BY <2>1 DEF Store, Says, Ends
  <2>2. CASE k # "page"
    BY <2>2, ThreadFacts DEF Store
  <2>3. QED
    BY <2>1, <2>2 DEF Store
<1>2. /\ c \in CheckRecord /\ k \in Kinds /\ c.site \in Sites
      /\ c.since <= c.taken /\ c.taken <= clock
      /\ c.since <= clock /\ clock <= c.since + MaxCheckTime
      /\ c.since \in Nat /\ c.taken \in 0..MaxClock /\ clock \in 0..MaxClock
  BY <1>1, ThreadFacts DEF CheckOK, CheckRecord
<1>3. e \in CacheEntry /\ EntryOK(e) /\ e.stamp = clock
  BY <1>2, CacheConstants DEF CacheEntry, EntryOK
<1>4. rp \in [kind : Kinds, age : Nat] /\ Bound(rp)
  BY <1>2, ThreadFacts, CacheConstants DEF Bound
<1>5. /\ ck \in CheckRecord
      /\ k = "page" => ck = NoCheck
      /\ k # "page" => /\ ck.stage = "again" /\ ck.kind = k /\ ck.site = c.site
                       /\ ck.since = c.since /\ ck.taken = c.taken
  BY <1>2, ThreadFacts DEF CheckRecord
<1> HIDE DEF e, ck, rp
<1>6. CacheTypeOK
  BY DEF CacheInv
<1>7. /\ cache' \in [Kinds -> Seq(CacheEntry)]
      /\ \A j \in Kinds : j # k => cache'[j] = cache[j]
      /\ \A i \in DOMAIN cache'[k] :
           cache'[k][i] = e \/ \E h \in DOMAIN cache[k] : cache'[k][i] = cache[k][h]
      /\ \E i \in DOMAIN cache'[k] : cache'[k][i] = e
      /\ OneEntry'
  BY <1>1, <1>2, <1>3, <1>6, AfterSet DEF CacheInv
\* Whatever is there afterwards was there before, or is the new entry.
<1>8. \A j \in Kinds : \A i \in DOMAIN cache'[j] :
        \/ j = k /\ cache'[j][i] = e
        \/ \E h \in DOMAIN cache[j] : cache'[j][i] = cache[j][h]
  BY <1>7
<1> HIDE DEF k, c
<1>9. CacheTypeOK'
  BY <1>1, <1>4, <1>5, <1>6, <1>7 DEF CacheTypeOK
<1>10. EntriesOK'
  <2> SUFFICES ASSUME NEW j \in Kinds, NEW i \in DOMAIN cache'[j], NEW x, x = cache'[j][i]
               PROVE  x.taken <= x.stamp /\ x.stamp <= clock /\ x.stamp <= x.taken + MaxCheckTime
    BY <1>1 DEF EntriesOK, EntryOK
  <2>1. CASE x = e
    BY <1>3, <2>1 DEF EntryOK
  <2>2. ASSUME NEW h \in DOMAIN cache[j], x = cache[j][h]
        PROVE  x.taken <= x.stamp /\ x.stamp <= clock /\ x.stamp <= x.taken + MaxCheckTime
    BY <2>2 DEF CacheInv, EntriesOK, EntryOK
  <2>3. QED
    BY <1>8, <2>1, <2>2
<1>11. ASSUME NEW d \in CheckRecord, d.since <= clock,
              \A i \in DOMAIN cache["robots"] :
                cache["robots"][i].site = d.site => d.since <= cache["robots"][i].stamp + RobotsTtl
       PROVE  \A i \in DOMAIN cache'["robots"] :
                cache'["robots"][i].site = d.site => d.since <= cache'["robots"][i].stamp + RobotsTtl
  <2> SUFFICES ASSUME NEW i \in DOMAIN cache'["robots"], cache'["robots"][i].site = d.site
               PROVE  d.since <= cache'["robots"][i].stamp + RobotsTtl
    OBVIOUS
  <2>1. CASE cache'["robots"][i] = e
    BY <1>2, <1>3, <1>11, <2>1, CacheConstants DEF CheckRecord
  <2>2. ASSUME NEW h \in DOMAIN cache["robots"], cache'["robots"][i] = cache["robots"][h]
        PROVE  d.since <= cache'["robots"][i].stamp + RobotsTtl
    BY <1>11, <2>2
  <2>3. QED
    BY <1>8, <2>1, <2>2 DEF Kinds
\* Before it is stored nothing is known of the site's entries: the check looks for
\* its own, which replaces them.
<1>12. k # "page" =>
         /\ k = "robots"
         /\ \A i \in DOMAIN cache'[k] :
              cache'[k][i].site = c.site => c.since <= cache'[k][i].stamp + RobotsTtl
  <2>1. PICK h \in DOMAIN cache'[k] : cache'[k][h] = e
    BY <1>7
  <2>2. e.site = c.site /\ c.since <= e.stamp + RobotsTtl
    BY <1>2, <1>3, CacheConstants DEF e
  <2>3. \A i \in DOMAIN cache'[k] : cache'[k][i].site = c.site => i = h
    BY <1>2, <1>7, <2>1, <2>2 DEF OneEntry
  <2>4. k # "page" => k = "robots"
    BY <1>2 DEF Kinds
  <2>5. QED
    BY <2>1, <2>2, <2>3, <2>4
<1>13. \A u \in CheckThreads : CheckOK(check[u])'
  <2> SUFFICES ASSUME NEW u \in CheckThreads PROVE CheckOK(check[u])'
    OBVIOUS
  <2>1. check'[u] = IF u = t THEN ck ELSE check[u]
    BY <1>1, <1>6 DEF CacheTypeOK
  <2>2. CASE u # t
    <3>1. check[u] \in CheckRecord /\ CheckOK(check[u]) /\ check'[u] = check[u]
      BY <2>1, <2>2, ThreadFacts
    <3>2. QED
      BY <1>1, <1>11, <3>1 DEF CheckOK
  <2>3. CASE u = t /\ k = "page"
    BY <1>5, <2>1, <2>3 DEF CheckOK, NoCheck
  <2>4. CASE u = t /\ k # "page"
    BY <1>1, <1>2, <1>5, <1>12, <2>1, <2>4 DEF CheckOK
  <2>5. QED
    BY <2>2, <2>3, <2>4
<1>14. \A u \in CheckThreads : Bound(report'[u])
  BY <1>1, <1>4, <1>6, EachReport DEF CacheInv, CacheTypeOK
<1>15. StaleBound'
  BY <1>14 DEF StaleBound, Bound
<1>16. QED
  BY <1>7, <1>9, <1>10, <1>13, <1>15 DEF CacheInv, ChecksOK

LEMMA TimePassesKept ==
  ASSUME CacheInv, TimePasses
  PROVE  CacheInv'
<1>1. /\ clock \in Nat /\ clock' \in 0..MaxClock /\ clock' = clock + 1
      /\ UNCHANGED <<cache, check, report>>
  BY CacheConstants DEF CacheInv, CacheTypeOK, TimePasses
<1>2. CacheTypeOK' /\ OneEntry' /\ StaleBound'
  BY <1>1 DEF CacheInv, CacheTypeOK, OneEntry, StaleBound
<1>3. EntriesOK'
  <2> SUFFICES ASSUME NEW k \in Kinds, NEW i \in DOMAIN cache[k]
               PROVE  /\ cache[k][i].taken <= cache[k][i].stamp /\ cache[k][i].stamp <= clock'
                      /\ cache[k][i].stamp <= cache[k][i].taken + MaxCheckTime
    BY <1>1 DEF EntriesOK, EntryOK
  <2>1. cache[k][i] \in CacheEntry /\ EntryOK(cache[k][i])
    BY DEF CacheInv, CacheTypeOK, EntriesOK
  <2>2. QED
    BY <1>1, <2>1 DEF EntryOK, CacheEntry
<1>4. ChecksOK'
  <2> SUFFICES ASSUME NEW t \in CheckThreads PROVE CheckOK(check[t])'
    BY DEF ChecksOK
  <2>1. check[t] \in CheckRecord /\ CheckOK(check[t]) /\ check'[t] = check[t]
    BY <1>1, ThreadFacts
  <2>2. CASE check[t].stage = "idle"
    BY <2>1, <2>2 DEF CheckOK
  <2>3. CASE check[t].stage # "idle"
    <3>1. /\ check[t].since <= clock' /\ clock' <= check[t].since + MaxCheckTime
          /\ check[t].taken <= clock => check[t].taken <= clock'
      <4>1. clock - check[t].since < MaxCheckTime
        BY <2>3 DEF TimePasses
      <4>2. /\ check[t].since \in Nat /\ check[t].taken \in Nat /\ check[t].since <= clock
        BY <2>1, <2>3, CacheConstants DEF CheckOK, CheckRecord
      <4>3. QED
        BY <1>1, <4>1, <4>2, CacheConstants
    <3>2. QED
      BY <1>1, <2>1, <2>3, <3>1 DEF CheckOK
  <2>4. QED
    BY <2>2, <2>3
<1>5. QED
  BY <1>2, <1>3, <1>4 DEF CacheInv

LEMMA CacheNextKept == CacheInv /\ [CacheNext]_cacheVars => CacheInv'
<1> SUFFICES ASSUME CacheInv, [CacheNext]_cacheVars PROVE CacheInv'
  OBVIOUS
<1>1. CASE UNCHANGED cacheVars
  BY <1>1 DEF CacheInv, CacheTypeOK, EntriesOK, EntryOK, OneEntry, ChecksOK, CheckOK,
              StaleBound, cacheVars
<1>2. CASE CacheNext
  BY <1>2, LookupKept, SiteAnswersKept, SiteRefusedKept, StoreKept, LookAgainKept,
     TimePassesKept DEF CacheNext
<1>3. QED
  BY <1>1, <1>2

\* fetch_page and robots_check: however checks of one site interleave, what one says
\* is no older than the time to live and the time checks take allow, for any of both.
THEOREM StaleBounded == CacheSpec => []StaleBound
<1>1. CacheInv => StaleBound
  BY DEF CacheInv
<1>2. QED
  BY <1>1, CacheStarts, CacheNextKept, PTL DEF CacheSpec

-----------------------------------------------------------------------------
(* The files of reports, and the permits of the PDF export.                 *)

Pdfs == {t \in Threads : IsAt(t, "pdf")}

\* The semaphore, and who holds it.
PermitsInv == IsFiniteSet(Pdfs) /\ PermitsAccounted

\* A run has the HTML when it writes what accompanies it, unless a deletion met it.
RunOK ==
  /\ run.stem \notin NewStems
  /\ run.stem = None => run = NoRun
  /\ run.stem # None /\ run.next # "html" =>
       <<run.stem, "html">> \in files \/ run.stem \in torn

\* What a deletion has yet to unlink is of one report, of one that no run begins any
\* more, and is all there is of it, unless something interfered.
DeletionOK(q) ==
  /\ q.stage # "delete" => q.pend = {}
  /\ \A p, r \in q.pend : p[1] = r[1]
  /\ \A p \in q.pend :
       /\ p[1] \notin NewStems
       /\ p[1] = run.stem => p[1] \in torn
       /\ p[1] \in torn \/ Of(p[1]) \subseteq q.pend

DeletionsOK == \A t \in Threads : DeletionOK(req[t])

FilesOld == \A f \in files : f[1] \notin NewStems

\* What is left has what the list is made of, unless a deletion goes on or was
\* interfered with.
LeftoversKnown ==
  \A f \in files :
    \/ Of(f[1]) \cap {<<f[1], "html">>, <<f[1], "json">>} # {}
    \/ Deleting(f[1]) \/ f[1] \in torn

FilesInv == ReportsTypeOK /\ FilesOld /\ RunOK /\ DeletionsOK /\ LeftoversKnown

LEMMA FreshLeft == UNCHANGED stems => NewStems' = NewStems
  BY DEF NewStems

LEMMA FilesStart == ReportsInit => FilesInv
<1> SUFFICES ASSUME ReportsInit PROVE FilesInv
  OBVIOUS
<1>1. ReportsTypeOK
  BY ReportsAssumption DEF ReportsInit, ReportsTypeOK, NoRun, Exts, Idle, Request
<1>2. FilesOld /\ RunOK /\ DeletionsOK /\ LeftoversKnown
  BY ReportsAssumption DEF ReportsInit, FilesOld, RunOK, NoRun, DeletionsOK, DeletionOK,
                           Idle, LeftoversKnown, NewStems
<1>3. QED
  BY <1>1, <1>2 DEF FilesInv

\* How deletions look after a step of one thread.
LEMMA DeletingAfter ==
  ASSUME req \in [Threads -> Request], NEW t \in Threads, NEW q,
         req' = [req EXCEPT ![t] = q]
  PROVE  \A s : Deleting(s)' <=> (\E f \in q.pend : f[1] = s)
                                 \/ \E u \in Threads \ {t} : \E f \in req[u].pend : f[1] = s
<1>1. req'[t] = q /\ \A u \in Threads \ {t} : req'[u] = req[u]
  OBVIOUS
<1>2. QED
  BY <1>1 DEF Deleting

\* Steps that change neither files nor runs nor what is pending.
LEMMA OthersSteps ==
  ASSUME FilesInv, UNCHANGED <<files, run, stems, torn>>,
         NEW t \in Threads, NEW q \in Request, req' = [req EXCEPT ![t] = q],
         req[t].pend = {}, q.pend = {}, permits' \in 0..MaxPdf
  PROVE  FilesInv'
<1>1. req \in [Threads -> Request]
  BY DEF FilesInv, ReportsTypeOK
<1>2. req'[t] = q /\ \A u \in Threads \ {t} : req'[u] = req[u]
  BY <1>1
<1>3. ReportsTypeOK' /\ FilesOld' /\ RunOK'
  BY <1>1, FreshLeft DEF FilesInv, ReportsTypeOK, FilesOld, RunOK
<1>4. DeletionsOK'
  BY <1>2, FreshLeft DEF FilesInv, DeletionsOK, DeletionOK, Of
<1>5. \A s : Deleting(s)' <=> Deleting(s)
  BY <1>2 DEF Deleting
<1>6. LeftoversKnown'
  BY <1>5 DEF FilesInv, LeftoversKnown, Of
<1>7. QED
  BY <1>3, <1>4, <1>6 DEF FilesInv

LEMMA BeginRunKept ==
  ASSUME FilesInv, NEW s \in Stems, BeginRun(s)
  PROVE  FilesInv'
<1>1. /\ run' = [stem |-> s, next |-> "html"] /\ stems' = Append(stems, s) /\ s \in NewStems
      /\ UNCHANGED <<files, req, permits, torn>>
  BY DEF BeginRun
<1>f. NewStems' = NewStems \ {s}
  BY <1>1 DEF FilesInv, ReportsTypeOK, NewStems
<1>2. ReportsTypeOK'
  BY <1>1 DEF FilesInv, ReportsTypeOK, Exts
<1>3. FilesOld' /\ RunOK'
  BY <1>1, <1>f, ReportsAssumption DEF FilesInv, FilesOld, RunOK
<1>4. DeletionsOK'
  BY <1>1, <1>f DEF FilesInv, DeletionsOK, DeletionOK, Of
<1>5. LeftoversKnown'
  BY <1>1 DEF FilesInv, LeftoversKnown, Of, Deleting
<1>6. QED
  BY <1>2, <1>3, <1>4, <1>5 DEF FilesInv

LEMMA WriteFileKept ==
  ASSUME FilesInv, WriteFile
  PROVE  FilesInv'
<1>1. /\ run \in [stem : Stems \cup {None}, next : Exts] /\ files \subseteq ReportFile
      /\ torn \subseteq Stems
  BY DEF FilesInv, ReportsTypeOK
<1>2. /\ UNCHANGED <<stems, req, permits>>
      /\ files' = files \cup {<<run.stem, run.next>>} \/ files' = files
      /\ torn' = IF Deleting(run.stem) THEN torn \cup {run.stem} ELSE torn
  BY DEF WriteFile
<1>3. run # NoRun /\ run.stem \in Stems /\ run.next \in Exts
  BY <1>1 DEF WriteFile, FilesInv, RunOK
<1>4. /\ run' \in [stem : Stems \cup {None}, next : Exts]
      /\ run' = NoRun \/ run'.stem = run.stem
      /\ \/ run' = NoRun
         \/ run.next = "html" /\ run'.next = "xlsx" /\ files' # files
         \/ run.next = "xlsx" /\ run'.next = "json"
  <2>1. CASE run.next = "html" /\ files' # files
    BY <1>1, <2>1 DEF WriteFile, Exts
  <2>2. CASE run.next = "xlsx"
    BY <1>1, <2>2 DEF WriteFile, Exts
  <2>3. CASE ~(run.next = "html" /\ files' # files) /\ run.next # "xlsx"
    BY <1>1, <2>3 DEF WriteFile, NoRun, Exts
  <2>4. QED
    BY <2>1, <2>2, <2>3
<1>5. <<run.stem, run.next>> \in ReportFile /\ <<run.stem, run.next>>[1] = run.stem
  BY <1>3 DEF ReportFile
<1>6. ReportsTypeOK'
  BY <1>1, <1>2, <1>3, <1>4, <1>5 DEF FilesInv, ReportsTypeOK
<1>7. FilesOld'
  BY <1>2, <1>5, FreshLeft DEF FilesInv, FilesOld, RunOK
<1>8. RunOK'
  <2>1. CASE run' = NoRun
    <3>1. run'.stem = None
      BY <2>1 DEF NoRun
    <3>2. None \notin NewStems'
      BY ReportsAssumption DEF NewStems
    <3>3. QED
      BY <2>1, <3>1, <3>2 DEF RunOK
  <2>2. CASE run' # NoRun
    <3>1. run'.stem = run.stem /\ run.stem \notin NewStems' /\ run.stem # None
      BY <1>2, <1>3, <1>4, <2>2, ReportsAssumption, FreshLeft DEF FilesInv, RunOK
    <3>2. <<run.stem, "html">> \in files' \/ run.stem \in torn'
      BY <1>2, <1>3, <1>4, <2>2, <3>1 DEF FilesInv, RunOK
    <3>3. QED
      BY <2>2, <3>1, <3>2 DEF RunOK
  <2>3. QED
    BY <2>1, <2>2
<1>9. DeletionsOK'
  <2> SUFFICES ASSUME NEW u \in Threads PROVE DeletionOK(req[u])'
    BY DEF DeletionsOK
  <2>1. DeletionOK(req[u]) /\ req'[u] = req[u]
    BY <1>2 DEF FilesInv, DeletionsOK
  <2>2. ASSUME NEW p \in req[u].pend
        PROVE  /\ p[1] = run'.stem => p[1] \in torn'
               /\ p[1] \in torn' \/ Of(p[1])' \subseteq req[u].pend
    <3>1. CASE p[1] = run.stem
      BY <1>2, <2>2, <3>1 DEF Deleting
    <3>2. CASE p[1] # run.stem
      <4>1. p[1] \in torn => p[1] \in torn'
        BY <1>2
      <4>2. Of(p[1])' = Of(p[1])
        BY <1>2, <1>5, <3>2 DEF Of
      <4>3. run'.stem = None \/ run'.stem = run.stem
        BY <1>4 DEF NoRun
      <4>4. p[1] \in Stems
        BY <2>2 DEF FilesInv, ReportsTypeOK, Request, ReportFile
      <4>5. QED
        BY <2>1, <3>2, <4>1, <4>2, <4>3, <4>4, ReportsAssumption DEF DeletionOK
    <3>3. QED
      BY <3>1, <3>2
  <2>3. QED
    BY <1>2, <2>1, <2>2, FreshLeft DEF DeletionOK
<1>10. LeftoversKnown'
  <2> SUFFICES ASSUME NEW f \in files'
               PROVE  \/ Of(f[1])' \cap {<<f[1], "html">>, <<f[1], "json">>} # {}
                      \/ Deleting(f[1])' \/ f[1] \in torn'
    BY DEF LeftoversKnown
  <2>1. \A s : (Deleting(s)' <=> Deleting(s)) /\ (s \in torn => s \in torn')
               /\ Of(s) \subseteq Of(s)'
    BY <1>2 DEF Deleting, Of
  <2>2. CASE f \in files
    BY <2>1, <2>2 DEF FilesInv, LeftoversKnown
  <2>3. CASE f = <<run.stem, run.next>> /\ run.next # "xlsx"
    <3>1. f \in Of(f[1])' /\ f \in {<<f[1], "html">>, <<f[1], "json">>}
      BY <1>3, <1>5, <2>3 DEF Of, Exts
    <3>2. QED
      BY <3>1
  <2>4. CASE f = <<run.stem, run.next>> /\ run.next = "xlsx"
    <3>1. <<run.stem, "html">> \in files \/ run.stem \in torn
      BY <1>3, <2>4, ReportsAssumption DEF FilesInv, RunOK
    <3>2. CASE <<run.stem, "html">> \in files
      <4>1. <<f[1], "html">> \in Of(f[1])
        BY <1>5, <2>4, <3>2 DEF Of
      <4>2. QED
        BY <2>1, <4>1
    <3>3. CASE run.stem \in torn
      BY <1>5, <2>1, <2>4, <3>3
    <3>4. QED
      BY <3>1, <3>2, <3>3
  <2>5. QED
    BY <1>2, <2>2, <2>3, <2>4
<1>11. QED
  BY <1>6, <1>7, <1>8, <1>9, <1>10 DEF FilesInv

LEMMA GlobKept ==
  ASSUME FilesInv, NEW t \in Threads, NEW s \in Stems, Glob(t, s)
  PROVE  FilesInv'
<1> DEFINE q == DeletingAll(req[t].left \ {s}, Of(s))
<1>1. /\ req[t] \in Request /\ req[t].pend = {} /\ req' = [req EXCEPT ![t] = q]
      /\ torn' = IF run.stem = s THEN torn \cup {s} ELSE torn
      /\ UNCHANGED <<files, run, stems, permits>>
      /\ req \in [Threads -> Request]
  BY DEF FilesInv, ReportsTypeOK, Glob
<1>2. /\ q.stage = "delete" /\ q.pend = Of(s) /\ q \in Request
      /\ \A p \in Of(s) : p \in files /\ p[1] = s
  BY <1>1 DEF DeletingAll, FilesInv, ReportsTypeOK, Request, Of
<1> HIDE DEF q
<1>3. req'[t] = q /\ \A u \in Threads \ {t} : req'[u] = req[u]
  BY <1>1
<1>4. torn \subseteq torn' /\ torn' \subseteq Stems
  BY <1>1 DEF FilesInv, ReportsTypeOK
<1>5. ReportsTypeOK' /\ FilesOld'
  BY <1>1, <1>2, <1>4, FreshLeft DEF FilesInv, ReportsTypeOK, FilesOld
<1>6. RunOK'
  BY <1>1, <1>4, FreshLeft DEF FilesInv, RunOK
<1>7. \A x : Of(x)' = Of(x)
  BY <1>1 DEF Of
<1>8. DeletionsOK'
  <2> SUFFICES ASSUME NEW u \in Threads PROVE DeletionOK(req[u])'
    BY DEF DeletionsOK
  <2>1. CASE u = t
    BY <1>1, <1>2, <1>3, <1>7, <2>1, FreshLeft DEF DeletionOK, FilesInv, FilesOld
  <2>2. CASE u # t
    <3>1. DeletionOK(req[u]) /\ req'[u] = req[u]
      BY <1>3, <2>2 DEF FilesInv, DeletionsOK
    <3>2. QED
      BY <1>1, <1>4, <1>7, <3>1, FreshLeft DEF DeletionOK
  <2>3. QED
    BY <2>1, <2>2
<1>9. \A x : Deleting(x) => Deleting(x)'
  BY <1>1, <1>3 DEF Deleting
<1>10. LeftoversKnown'
  BY <1>1, <1>4, <1>7, <1>9 DEF FilesInv, LeftoversKnown
<1>11. QED
  BY <1>5, <1>6, <1>8, <1>10 DEF FilesInv

\* The last file of a report that a deletion unlinks leaves none, or one it knows of.
LEMMA UnlinkFileKept ==
  ASSUME FilesInv, NEW t \in Threads, NEW f \in ReportFile, UnlinkFile(t, f)
  PROVE  FilesInv'
<1> DEFINE q == DeletingAll(req[t].left, req[t].pend \ {f})
<1>1. /\ req[t] \in Request /\ f \in req[t].pend /\ req' = [req EXCEPT ![t] = q]
      /\ \/ files' = files \ {f} /\ torn' = torn
         \/ f \in files /\ torn' = torn \cup {f[1]} /\ files' = files
      /\ UNCHANGED <<run, stems, permits>>
      /\ req \in [Threads -> Request] /\ f[1] \in Stems
  BY DEF FilesInv, ReportsTypeOK, UnlinkFile, ReportFile
<1>2. /\ q.stage = "delete" /\ q.pend = req[t].pend \ {f} /\ q \in Request
  BY <1>1 DEF DeletingAll, Request
<1> HIDE DEF q
<1>3. req'[t] = q /\ \A u \in Threads \ {t} : req'[u] = req[u]
  BY <1>1
<1>4. torn \subseteq torn' /\ torn' \subseteq Stems /\ files' \subseteq files
  BY <1>1 DEF FilesInv, ReportsTypeOK
<1>5. ReportsTypeOK' /\ FilesOld'
  BY <1>1, <1>2, <1>4, FreshLeft DEF FilesInv, ReportsTypeOK, FilesOld
<1>6. DeletionOK(req[t])
  BY DEF FilesInv, DeletionsOK
<1>7. RunOK'
  <2>1. CASE f[1] = run.stem
    BY <1>1, <1>4, <1>6, <2>1, FreshLeft DEF FilesInv, RunOK, DeletionOK
  <2>2. CASE f[1] # run.stem
    <3>1. <<run.stem, "html">> # f
      BY <2>2
    <3>2. QED
      BY <1>1, <1>4, <3>1, FreshLeft DEF FilesInv, RunOK
  <2>3. QED
    BY <2>1, <2>2
<1>8. \A x : Of(x)' \subseteq Of(x) /\ (files' = files \ {f} => f \notin Of(x)')
  BY <1>4 DEF Of
<1>9. DeletionsOK'
  <2> SUFFICES ASSUME NEW u \in Threads PROVE DeletionOK(req[u])'
    BY DEF DeletionsOK
  <2>1. CASE u = t
    <3>1. \A p \in q.pend : p[1] \in torn' \/ Of(p[1])' \subseteq q.pend
      <4> SUFFICES ASSUME NEW p \in q.pend, p[1] \notin torn'
                   PROVE  Of(p[1])' \subseteq q.pend
        OBVIOUS
      <4>1. p[1] = f[1] /\ p[1] \notin torn /\ Of(p[1]) \subseteq req[t].pend
        BY <1>1, <1>2, <1>4, <1>6 DEF DeletionOK
      <4>2. files' = files \ {f}
        BY <1>1, <4>1
      <4>3. QED
        BY <1>2, <1>8, <4>1, <4>2
    <3>2. QED
      BY <1>1, <1>2, <1>3, <1>4, <1>6, <2>1, <3>1, FreshLeft DEF DeletionOK
  <2>2. CASE u # t
    <3>1. DeletionOK(req[u]) /\ req'[u] = req[u]
      BY <1>3, <2>2 DEF FilesInv, DeletionsOK
    <3>2. QED
      BY <1>1, <1>4, <1>8, <3>1, FreshLeft DEF DeletionOK
  <2>3. QED
    BY <2>1, <2>2
<1>10. LeftoversKnown'
  <2> SUFFICES ASSUME NEW g \in files'
               PROVE  \/ Of(g[1])' \cap {<<g[1], "html">>, <<g[1], "json">>} # {}
                      \/ Deleting(g[1])' \/ g[1] \in torn'
    BY DEF LeftoversKnown
  <2>1. g \in files /\ g \in Of(g[1])' /\ g \in Of(g[1])
    BY <1>4 DEF Of
  <2>2. CASE g[1] # f[1]
    <3>1. Of(g[1])' = Of(g[1])
      BY <1>1, <2>2 DEF Of
    <3>2. Deleting(g[1]) => Deleting(g[1])'
      BY <1>1, <1>2, <1>3, <2>2 DEF Deleting
    <3>3. QED
      BY <1>4, <2>1, <3>1, <3>2 DEF FilesInv, LeftoversKnown
  <2>3. CASE g[1] = f[1] /\ files' = files \ {f} /\ f[1] \notin torn
    <3>1. g \in q.pend
      BY <1>1, <1>2, <1>6, <1>8, <2>1, <2>3 DEF DeletionOK
    <3>2. Deleting(g[1])'
      BY <1>3, <3>1 DEF Deleting
    <3>3. QED
      BY <3>2
  <2>4. QED
    BY <1>1, <1>4, <2>2, <2>3
<1>11. QED
  BY <1>5, <1>7, <1>9, <1>10 DEF FilesInv

LEMMA RestartKept ==
  ASSUME FilesInv, RestartReports
  PROVE  FilesInv'
<1>1. /\ run' = NoRun /\ UNCHANGED <<files, stems>> /\ permits' = MaxPdf
      /\ torn' = torn \cup {s \in Stems : Deleting(s)}
      /\ req' = [t \in Threads |-> Idle]
  BY DEF RestartReports
<1>2. ReportsTypeOK'
  BY <1>1, ReportsAssumption DEF FilesInv, ReportsTypeOK, Request, Idle, NoRun, Exts
<1>3. FilesOld' /\ RunOK'
  BY <1>1, ReportsAssumption, FreshLeft DEF FilesInv, FilesOld, RunOK, NoRun, ReportsTypeOK, NewStems
<1>4. DeletionsOK'
  BY <1>1 DEF DeletionsOK, DeletionOK, Idle
<1>5. LeftoversKnown'
  <2>1. \A x : Of(x)' = Of(x)
    BY <1>1 DEF Of
  <2>2. \A f \in files : f[1] \in Stems
    BY DEF FilesInv, ReportsTypeOK, ReportFile
  <2>3. QED
    BY <1>1, <2>1, <2>2 DEF FilesInv, LeftoversKnown
<1>6. QED
  BY <1>2, <1>3, <1>4, <1>5 DEF FilesInv

LEMMA RequestKept ==
  ASSUME FilesInv, PermitsInv, NEW t \in Threads, RequestStep(t)
  PROVE  FilesInv'
<1>1. req[t] \in Request /\ permits \in 0..MaxPdf /\ MaxPdf \in Nat /\ Idle \in Request
      /\ Idle.pend = {} /\ DeletionOK(req[t])
  BY ReportsAssumption DEF FilesInv, ReportsTypeOK, Idle, Request, DeletionsOK
<1>2. ASSUME NEW S \in SUBSET Stems, BeginDelete(t, S) PROVE FilesInv'
  <2>1. DeletingAll(S, {}) \in Request /\ DeletingAll(S, {}).pend = {}
    BY DEF DeletingAll, Request
  <2>2. req[t].pend = {}
    BY <1>1, <1>2 DEF BeginDelete, IsAt, DeletionOK
  <2>3. QED
    BY <1>1, <1>2, <2>1, <2>2, OthersSteps DEF BeginDelete
<1>3. ASSUME NEW s \in Stems, BeginPdf(t, s) PROVE FilesInv'
  <2> DEFINE q == [stage |-> "pdf", left |-> {}, pend |-> {}, stem |-> s]
  <2>1. q \in Request /\ q.pend = {} /\ req' = [req EXCEPT ![t] = q]
        /\ UNCHANGED <<files, run, stems, torn>>
    BY <1>3 DEF Request, BeginPdf
  <2>2. req[t].pend = {} /\ permits' \in 0..MaxPdf
    BY <1>1, <1>3 DEF BeginPdf, IsAt, DeletionOK
  <2> HIDE DEF q
  <2>3. QED
    BY <2>1, <2>2, OthersSteps
<1>4. CASE EndDelete(t)
  BY <1>1, <1>4, OthersSteps DEF EndDelete
<1>5. CASE EndPdf(t)
  <2>1. req[t].pend = {} /\ t \in Pdfs
    BY <1>1, <1>5 DEF EndPdf, IsAt, DeletionOK, Pdfs
  <2>2. Cardinality(Pdfs) \in Nat \ {0}
    BY <2>1, FS_CardinalityType, FS_EmptySet DEF PermitsInv
  <2>3. permits' \in 0..MaxPdf
    BY <1>1, <1>5, <2>2 DEF PermitsInv, PermitsAccounted, Pdfs, EndPdf
  <2>4. QED
    BY <1>1, <1>5, <2>1, <2>3, OthersSteps DEF EndPdf
<1>6. QED
  BY <1>2, <1>3, <1>4, <1>5, GlobKept, UnlinkFileKept DEF RequestStep

LEMMA PermitsKept ==
  ASSUME FilesInv, PermitsInv, [ReportsNext]_reportsVars
  PROVE  PermitsInv'
<1>1. /\ req \in [Threads -> Request] /\ permits \in 0..MaxPdf /\ MaxPdf \in Nat
      /\ IsFiniteSet(Pdfs) /\ Cardinality(Pdfs) \in Nat /\ permits + Cardinality(Pdfs) = MaxPdf
  BY ReportsAssumption, FS_CardinalityType
  DEF FilesInv, ReportsTypeOK, PermitsInv, PermitsAccounted, Pdfs
<1>2. ASSUME Pdfs' = Pdfs, permits' = permits PROVE PermitsInv'
  BY <1>1, <1>2 DEF PermitsInv, PermitsAccounted, Pdfs
<1>3. ASSUME UNCHANGED <<req, permits>> PROVE PermitsInv'
  BY <1>2, <1>3 DEF Pdfs, IsAt
<1>4. ASSUME NEW t \in Threads, \A u \in Threads \ {t} : req'[u] = req[u], permits' = permits,
             req[t].stage # "pdf", req'[t].stage # "pdf"
      PROVE  PermitsInv'
  <2>1. Pdfs' = Pdfs
    BY <1>4 DEF Pdfs, IsAt
  <2>2. QED
    BY <1>2, <1>4, <2>1
<1>5. ASSUME NEW t \in Threads, RequestStep(t) PROVE PermitsInv'
  <2>1. ASSUME NEW S \in SUBSET Stems, BeginDelete(t, S) PROVE PermitsInv'
    <3>1. /\ \A u \in Threads \ {t} : req'[u] = req[u]
          /\ permits' = permits /\ req[t].stage # "pdf" /\ req'[t].stage # "pdf"
      BY <1>1, <2>1 DEF BeginDelete, IsAt, DeletingAll
    <3>2. QED
      BY <1>4, <3>1
  <2>2. ASSUME NEW s \in Stems, Glob(t, s) PROVE PermitsInv'
    <3>1. /\ \A u \in Threads \ {t} : req'[u] = req[u]
          /\ permits' = permits /\ req[t].stage # "pdf" /\ req'[t].stage # "pdf"
      BY <1>1, <2>2 DEF Glob, IsAt, DeletingAll
    <3>2. QED
      BY <1>4, <3>1
  <2>3. ASSUME NEW f \in ReportFile, UnlinkFile(t, f) PROVE PermitsInv'
    <3>1. /\ \A u \in Threads \ {t} : req'[u] = req[u]
          /\ permits' = permits /\ req[t].stage # "pdf" /\ req'[t].stage # "pdf"
      BY <1>1, <2>3 DEF UnlinkFile, IsAt, DeletingAll
    <3>2. QED
      BY <1>4, <3>1
  <2>4. ASSUME EndDelete(t) PROVE PermitsInv'
    <3>1. /\ \A u \in Threads \ {t} : req'[u] = req[u]
          /\ permits' = permits /\ req[t].stage # "pdf" /\ req'[t].stage # "pdf"
      BY <1>1, <2>4 DEF EndDelete, IsAt, Idle
    <3>2. QED
      BY <1>4, <3>1
  <2>5. ASSUME NEW s \in Stems, BeginPdf(t, s) PROVE PermitsInv'
    <3>1. t \notin Pdfs /\ Pdfs' = Pdfs \cup {t} /\ permits' = permits - 1
      BY <1>1, <2>5 DEF BeginPdf, IsAt, Pdfs
    <3>2. IsFiniteSet(Pdfs') /\ Cardinality(Pdfs') = Cardinality(Pdfs) + 1
      BY <1>1, <3>1, FS_AddElement
    <3>3. permits' + Cardinality(Pdfs') = MaxPdf
      BY <1>1, <3>1, <3>2
    <3>4. QED
      BY <3>2, <3>3 DEF PermitsInv, PermitsAccounted, Pdfs
  <2>6. ASSUME EndPdf(t) PROVE PermitsInv'
    <3>1. t \in Pdfs /\ Pdfs' = Pdfs \ {t} /\ permits' = permits + 1
      BY <1>1, <2>6 DEF EndPdf, IsAt, Pdfs, Idle
    <3>2. IsFiniteSet(Pdfs') /\ Cardinality(Pdfs') = Cardinality(Pdfs) - 1
      BY <1>1, <3>1, FS_RemoveElement
    <3>3. permits' + Cardinality(Pdfs') = MaxPdf
      BY <1>1, <3>1, <3>2
    <3>4. QED
      BY <3>2, <3>3 DEF PermitsInv, PermitsAccounted, Pdfs
  <2>7. QED
    BY <1>5, <2>1, <2>2, <2>3, <2>4, <2>5, <2>6 DEF RequestStep
<1>6. ASSUME RestartReports PROVE PermitsInv'
  <2>1. Pdfs' = {} /\ permits' = MaxPdf
    BY <1>6 DEF RestartReports, Pdfs, IsAt, Idle
  <2>2. QED
    BY <1>1, <2>1, FS_EmptySet DEF PermitsInv, PermitsAccounted, Pdfs
<1>7. QED
  BY <1>3, <1>5, <1>6 DEF ReportsNext, reportsVars, BeginRun, WriteFile

LEMMA ReportsNextKept ==
  FilesInv /\ PermitsInv /\ [ReportsNext]_reportsVars => FilesInv' /\ PermitsInv'
<1> SUFFICES ASSUME FilesInv, PermitsInv, [ReportsNext]_reportsVars PROVE FilesInv' /\ PermitsInv'
  OBVIOUS
<1>1. CASE UNCHANGED reportsVars
  <2>1. UNCHANGED <<files, run, stems, req, permits, torn>>
    BY <1>1 DEF reportsVars
  <2>2. ReportsTypeOK' /\ FilesOld' /\ RunOK'
    BY <2>1, FreshLeft DEF FilesInv, ReportsTypeOK, FilesOld, RunOK
  <2>3. DeletionsOK' /\ LeftoversKnown'
    BY <2>1, FreshLeft DEF FilesInv, DeletionsOK, DeletionOK, LeftoversKnown, Of, Deleting
  <2>4. QED
    BY <2>2, <2>3, PermitsKept DEF FilesInv
<1>2. CASE ReportsNext
  <2>1. ASSUME NEW s \in Stems, BeginRun(s) PROVE FilesInv'
    BY <2>1, BeginRunKept
  <2>2. ASSUME NEW t \in Threads, RequestStep(t) PROVE FilesInv'
    BY <2>2, RequestKept
  <2>3. FilesInv'
    BY <1>2, <2>1, <2>2, WriteFileKept, RestartKept DEF ReportsNext
  <2>4. QED
    BY <2>3, PermitsKept
<1>3. QED
  BY <1>1, <1>2, PermitsKept

\* A report with its HTML or its sidecar is in the list, or behind those that fill
\* the list.
LEMMA KnownListed == FilesInv => LeftoversListed
<1> SUFFICES ASSUME FilesInv PROVE LeftoversListed
  OBVIOUS
<1>1. ASSUME NEW K \in SUBSET Stems, NEW s \in K
      PROVE  s \in Latest(K) \/ Cardinality({r \in K : Newer(r, s)}) >= MaxListed
  <2>1. IsFiniteSet({stems[i] : i \in DOMAIN stems})
    <3>1. stems \in Seq(Stems)
      BY DEF FilesInv, ReportsTypeOK
    <3>2. IsFiniteSet(DOMAIN stems)
      BY <3>1, FS_Interval
    <3>3. stems \in Surjection(DOMAIN stems, {stems[i] : i \in DOMAIN stems})
      BY <3>1 DEF Surjection
    <3>4. QED
      BY <3>2, <3>3, FS_Surjection
  <2>2. {r \in K : Newer(r, s)} \subseteq {stems[i] : i \in DOMAIN stems}
    BY DEF Newer
  <2>3. Cardinality({r \in K : Newer(r, s)}) \in Nat
    BY <2>1, <2>2, FS_Subset, FS_CardinalityType
  <2>4. QED
    BY <2>3, ReportsAssumption DEF Latest
<1>2. ASSUME NEW f \in files PROVE f[1] \in WithHtml \cup SidecarOnly \/ Deleting(f[1]) \/ f[1] \in torn
  BY <1>2 DEF FilesInv, LeftoversKnown, Of, WithHtml, SidecarOnly, ReportsTypeOK, ReportFile
<1>3. WithHtml \in SUBSET Stems /\ SidecarOnly \in SUBSET Stems
  BY DEF WithHtml, SidecarOnly
<1>4. QED
  BY <1>1, <1>2, <1>3 DEF LeftoversListed, Listed, Displaced

(* api_reports, api_reports_delete and api_reports_pdf: with any number of  *)
(* threads, reports and permits and any length of the list, a file that is  *)
(* left is of a report in the list or behind as many newer ones as fill it, *)
(* unless a deletion goes on or was interfered with, and every permit is    *)
(* free or held by an export.                                               *)
THEOREM ReportsStayManaged == ReportsSpec => []ReportsManaged
<1>1. ReportsInit => FilesInv /\ PermitsInv
  <2>1. ReportsInit => Pdfs = {} /\ permits = MaxPdf
    BY DEF ReportsInit, Pdfs, IsAt, Idle
  <2>2. ReportsInit => PermitsInv
    BY <2>1, ReportsAssumption, FS_EmptySet DEF PermitsInv, PermitsAccounted, Pdfs
  <2>3. QED
    BY <2>2, FilesStart
<1>2. FilesInv /\ PermitsInv => ReportsManaged
  BY KnownListed DEF FilesInv, PermitsInv, ReportsManaged
<1>3. QED
  BY <1>1, <1>2, ReportsNextKept, PTL DEF ReportsSpec

-----------------------------------------------------------------------------
(* Induction.                                                               *)

\* Every set of natural numbers has a least element.
LEMMA Least ==
  ASSUME NEW S \in SUBSET Nat, S # {}
  PROVE  \E n \in S : \A m \in S : n <= m
<1> DEFINE R == {ss \in Nat \X Nat : ss[1] < ss[2]}
<1>1. IsWellFoundedOn(R, Nat)
  BY NatLessThanWellFounded, Zenon DEF OpToRel
<1>2. \A m, n \in Nat : <<m, n>> \in R <=> m < n
  OBVIOUS
<1> HIDE DEF R
<1>3. PICK x \in S : \A y \in S : ~ (<<y, x>> \in R)
  BY <1>1, WFMin
<1>4. \A y \in S : ~(y < x)
  BY <1>2, <1>3
<1>5. QED
  BY <1>4

\* A set with zero and, below n, the successor of each of its elements has
\* every number up to n.
LEMMA UpTo ==
  ASSUME NEW n \in Nat, NEW S, 0 \in S,
         \A k \in 0..n - 1 : k \in S => k + 1 \in S
  PROVE  \A k \in 0..n : k \in S
<1> DEFINE Missing == {k \in 0..n : k \notin S}
<1>1. SUFFICES ASSUME Missing # {} PROVE FALSE
  OBVIOUS
<1>2. Missing \in SUBSET Nat
  OBVIOUS
<1> HIDE DEF Missing
<1>3. PICK m \in Missing : \A k \in Missing : m <= k
  BY <1>1, <1>2, Least
<1>4. m \in 0..n /\ m \notin S
  BY DEF Missing
<1>5. m - 1 \in 0..n - 1
  BY <1>4
<1>6. m - 1 \in S
  BY <1>3, <1>4, <1>5 DEF Missing
<1>7. QED
  BY <1>4, <1>5, <1>6

-----------------------------------------------------------------------------
(* Sums over the window.                                                    *)

\* The recursive definition defines what it says.
LEMMA YoungerDef ==
  ASSUME NEW f \in [Ages -> Nat]
  PROVE  /\ Younger(f) \in [0..Window -> Nat]
         /\ Younger(f)[0] = 0
         /\ \A k \in 1..Window : Younger(f)[k] = Younger(f)[k - 1] + f[k - 1]
<1> USE LockoutAssumption
<1> DEFINE Part(n) == {g \in [0..n -> Nat] :
                         /\ g[0] = 0
                         /\ \A k \in 1..n : g[k] = g[k - 1] + f[k - 1]}
           S == {n \in Nat : Part(n) # {}}
<1>1. 0 \in S
  <2>1. [j \in 0..0 |-> 0] \in Part(0)
    OBVIOUS
  <2>2. QED
    BY <2>1
<1>2. ASSUME NEW n \in 0..Window - 1, n \in S
      PROVE  n + 1 \in S
  <2>1. PICK g : g \in Part(n)
    BY <1>2
  <2> DEFINE h == [j \in 0..n + 1 |-> IF j = n + 1 THEN g[n] + f[n] ELSE g[j]]
  <2>2. f[n] \in Nat /\ g[n] \in Nat
    BY <2>1 DEF Ages
  <2>3. h \in [0..n + 1 -> Nat]
    BY <2>1, <2>2
  <2>4. h[0] = 0
    BY <2>1
  <2>5. ASSUME NEW k \in 1..n + 1
        PROVE  h[k] = h[k - 1] + f[k - 1]
    <3>1. CASE k = n + 1
      BY <2>1, <3>1
    <3>2. CASE k \in 1..n
      BY <2>1, <3>2
    <3>3. QED
      BY <3>1, <3>2
  <2> HIDE DEF h
  <2>6. h \in Part(n + 1)
    BY <2>3, <2>4, <2>5
  <2>7. QED
    BY <2>6
<1>3. Window \in S
  <2> HIDE DEF S
  <2>1. \A k \in 0..Window : k \in S
    BY <1>1, <1>2, UpTo
  <2>2. QED
    BY <2>1
<1>4. PICK g : g \in Part(Window)
  BY <1>3
<1>5. g = [k \in 0..Window |-> IF k = 0 THEN 0 ELSE g[k - 1] + f[k - 1]]
  BY <1>4
<1> DEFINE y == Younger(f)
<1>6. y = [k \in 0..Window |-> IF k = 0 THEN 0 ELSE y[k - 1] + f[k - 1]]
  BY <1>5 DEF Younger
<1> HIDE DEF y
<1>7. /\ y[0] = 0 /\ DOMAIN y = 0..Window
      /\ \A k \in 1..Window : y[k] = y[k - 1] + f[k - 1]
  BY <1>6
<1> DEFINE T == {k \in Nat : y[k] \in Nat}
<1>8. \A k \in 0..Window : k \in T
  <2>1. 0 \in T
    BY <1>7
  <2>2. ASSUME NEW k \in 0..Window - 1, k \in T
        PROVE  k + 1 \in T
    <3>1. f[k] \in Nat /\ y[k + 1] = y[k] + f[k]
      BY <1>7 DEF Ages
    <3>2. QED
      BY <2>2, <3>1
  <2> HIDE DEF T
  <2>3. QED
    BY <2>1, <2>2, UpTo
<1>9. y \in [0..Window -> Nat]
  <2>1. y = [k \in 0..Window |-> y[k]]
    BY <1>6
  <2>2. \A k \in 0..Window : y[k] \in Nat
    BY <1>8
  <2>3. QED
    BY <2>1, <2>2
<1>10. QED
  BY <1>7, <1>9 DEF y

\* A younger part of the window has no more than an older.
LEMMA YoungerGrows ==
  ASSUME NEW f \in [Ages -> Nat], NEW j \in 0..Window
  PROVE  \A k \in 0..Window : j <= k => Younger(f)[j] <= Younger(f)[k]
<1> DEFINE y == Younger(f)
           S == {k \in Nat : j <= k => y[j] <= y[k]}
<1>1. y \in [0..Window -> Nat]
  BY YoungerDef
<1>2. \A k \in 0..Window - 1 : y[k + 1] >= y[k]
  <2>1. SUFFICES ASSUME NEW k \in 0..Window - 1 PROVE y[k + 1] >= y[k]
    OBVIOUS
  <2>2. y[k + 1] = y[k] + f[k] /\ f[k] \in Nat
    <3>1. k + 1 \in 1..Window /\ (k + 1) - 1 = k
      BY LockoutAssumption
    <3>2. y[k + 1] = y[(k + 1) - 1] + f[(k + 1) - 1]
      BY <3>1, YoungerDef
    <3>3. QED
      BY <3>1, <3>2 DEF Ages
  <2>3. QED
    BY <1>1, <2>2, LockoutAssumption
<1> HIDE DEF y
<1>3. 0 \in S
  BY <1>1, LockoutAssumption
<1>4. ASSUME NEW k \in 0..Window - 1, k \in S
      PROVE  k + 1 \in S
  <2>1. y[k] \in Nat /\ y[k + 1] \in Nat /\ y[j] \in Nat
    BY <1>1, LockoutAssumption
  <2>2. QED
    BY <1>2, <1>4, <2>1
<1>5. \A k \in 0..Window : k \in S
  <2> HIDE DEF S
  <2>1. QED
    BY <1>3, <1>4, UpTo, LockoutAssumption
<1>6. QED
  BY <1>5 DEF y

\* What of age zero is added counts in every part of the window.
LEMMA YoungerMore ==
  ASSUME NEW f \in [Ages -> Nat], NEW n \in Nat
  PROVE  /\ More(f, n) \in [Ages -> Nat]
         /\ \A k \in 1..Window : Younger(More(f, n))[k] = Younger(f)[k] + n
<1>1. More(f, n) \in [Ages -> Nat]
  BY LockoutAssumption DEF More, Ages
<1> DEFINE g == More(f, n)
           y == Younger(f)
           z == Younger(g)
           S == {k \in Nat : k = 0 \/ z[k] = y[k] + n}
<1>2. g[0] = f[0] + n /\ \A k \in 1..Window - 1 : g[k] = f[k]
  BY LockoutAssumption DEF More, Ages
<1>3. /\ y \in [0..Window -> Nat] /\ y[0] = 0
      /\ \A k \in 1..Window : y[k] = y[k - 1] + f[k - 1]
  BY YoungerDef
<1> HIDE DEF g
<1>4. /\ z \in [0..Window -> Nat] /\ z[0] = 0
      /\ \A k \in 1..Window : z[k] = z[k - 1] + g[k - 1]
  BY <1>1, YoungerDef DEF g
<1> HIDE DEF y, z
<1>5. ASSUME NEW k \in 0..Window - 1, k \in S
      PROVE  k + 1 \in S
  <2>1. f[k] \in Nat /\ y[k] \in Nat
    BY <1>3, LockoutAssumption DEF Ages
  <2>2. k + 1 \in 1..Window /\ (k + 1) - 1 = k
    BY LockoutAssumption
  <2>3. y[k + 1] = y[k] + f[k] /\ z[k + 1] = z[k] + g[k]
    BY <1>3, <1>4, <2>2
  <2>4. CASE k = 0
    BY <1>2, <1>3, <1>4, <2>1, <2>3, <2>4
  <2>5. CASE k # 0
    BY <1>2, <1>5, <2>1, <2>3, <2>5, LockoutAssumption
  <2>6. QED
    BY <2>4, <2>5
<1>6. \A k \in 0..Window : k \in S
  <2>1. 0 \in S
    OBVIOUS
  <2> HIDE DEF S
  <2>2. QED
    BY <1>5, <2>1, UpTo, LockoutAssumption
<1>7. \A k \in 1..Window : z[k] = y[k] + n
  BY <1>6, LockoutAssumption
<1>8. QED
  BY <1>1, <1>7 DEF g, y, z

\* After a tick the last k ticks hold what the last k - 1 held.
LEMMA YoungerOlder ==
  ASSUME NEW f \in [Ages -> Nat]
  PROVE  /\ Older(f) \in [Ages -> Nat]
         /\ \A k \in 1..Window : Younger(Older(f))[k] = Younger(f)[k - 1]
<1>1. Older(f) \in [Ages -> Nat]
  BY LockoutAssumption DEF Older, Ages
<1> DEFINE g == Older(f)
           y == Younger(f)
           z == Younger(g)
           S == {k \in Nat : k = 0 \/ z[k] = y[k - 1]}
<1>2. g[0] = 0 /\ \A k \in 1..Window - 1 : g[k] = f[k - 1]
  BY LockoutAssumption DEF Older, Ages
<1>3. /\ y \in [0..Window -> Nat] /\ y[0] = 0
      /\ \A k \in 1..Window : y[k] = y[k - 1] + f[k - 1]
  BY YoungerDef
<1> HIDE DEF g
<1>4. /\ z \in [0..Window -> Nat] /\ z[0] = 0
      /\ \A k \in 1..Window : z[k] = z[k - 1] + g[k - 1]
  BY <1>1, YoungerDef DEF g
<1> HIDE DEF y, z
<1>5. ASSUME NEW k \in 0..Window - 1, k \in S
      PROVE  k + 1 \in S
  <2>1. k + 1 \in 1..Window /\ (k + 1) - 1 = k
    BY LockoutAssumption
  <2>2. z[k + 1] = z[k] + g[k]
    BY <1>4, <2>1
  <2>3. CASE k = 0
    BY <1>2, <1>3, <1>4, <2>2, <2>3
  <2>4. CASE k # 0
    <3>1. k \in 1..Window - 1 /\ k \in 1..Window
      BY <2>4, LockoutAssumption
    <3>2. g[k] = f[k - 1] /\ y[k] = y[k - 1] + f[k - 1]
      BY <1>2, <1>3, <3>1
    <3>3. QED
      BY <1>5, <2>1, <2>2, <3>1, <3>2
  <2>5. QED
    BY <2>3, <2>4
<1>6. \A k \in 0..Window : k \in S
  <2>1. 0 \in S
    OBVIOUS
  <2> HIDE DEF S
  <2>2. QED
    BY <1>5, <2>1, UpTo, LockoutAssumption
<1>7. \A k \in 1..Window : z[k] = y[k - 1]
  BY <1>6, LockoutAssumption
<1>8. QED
  BY <1>1, <1>7 DEF g, y, z

\* Nothing adds up to nothing.
LEMMA YoungerNothing ==
  /\ Nothing \in [Ages -> Nat]
  /\ \A k \in 0..Window : Younger(Nothing)[k] = 0
<1>1. Nothing \in [Ages -> Nat]
  BY DEF Nothing
<1> DEFINE y == Younger(Nothing)
           S == {k \in Nat : y[k] = 0}
<1>2. y[0] = 0 /\ \A k \in 1..Window : y[k] = y[k - 1] + Nothing[k - 1]
  BY <1>1, YoungerDef
<1> HIDE DEF y
<1>3. ASSUME NEW k \in 0..Window - 1, k \in S
      PROVE  k + 1 \in S
  <2>1. k + 1 \in 1..Window /\ (k + 1) - 1 = k /\ Nothing[k] = 0
    BY LockoutAssumption DEF Nothing, Ages
  <2>2. QED
    BY <1>2, <1>3, <2>1
<1>4. \A k \in 0..Window : k \in S
  <2>1. 0 \in S
    BY <1>2
  <2> HIDE DEF S
  <2>2. QED
    BY <1>3, <2>1, UpTo, LockoutAssumption
<1>5. QED
  BY <1>1, <1>4 DEF y

\* What is of age zero is in every part of the window.
LEMMA YoungerFirst ==
  ASSUME NEW f \in [Ages -> Nat]
  PROVE  \A k \in 1..Window : f[0] <= Younger(f)[k]
<1> DEFINE y == Younger(f)
<1>1. y[1] = f[0]
  <2>0. 1 \in 1..Window /\ 0 \in Ages
    BY LockoutAssumption DEF Ages
  <2>1. y[0] = 0 /\ \A k \in 1..Window : y[k] = y[k - 1] + f[k - 1]
    BY YoungerDef
  <2> HIDE DEF y
  <2>2. y[1] = y[0] + f[0] /\ f[0] \in Nat
    BY <2>0, <2>1
  <2>3. QED
    BY <2>1, <2>2
<1>2. \A k \in 1..Window : y[1] <= y[k]
  BY YoungerGrows, LockoutAssumption
<1> HIDE DEF y
<1>3. QED
  BY <1>1, <1>2 DEF y

-----------------------------------------------------------------------------
(* Types.                                                                   *)

\* One more, short of the bound, is a count.
LEMMA CappedType ==
  ASSUME NEW f \in Counts
  PROVE  /\ Capped(f) \in Counts
         /\ f \in [Ages -> Nat]
         /\ Capped(f) = f \/ Capped(f) = More(f, 1)
         /\ f[0] < MaxAttempts => Capped(f) = More(f, 1)
<1>1. 0 \in Ages
  BY LockoutAssumption DEF Ages
<1>2. QED
  BY <1>1, LockoutAssumption DEF Capped, Add, More, Counts

LEMMA OlderCounts ==
  ASSUME NEW f \in Counts
  PROVE  Older(f) \in Counts
  BY LockoutAssumption DEF Older, Counts, Ages

LEMMA NothingCounts == Nothing \in Counts
  BY LockoutAssumption DEF Nothing, Counts

LEMMA ClientsCountable ==
  ASSUME NEW S \in SUBSET Clients
  PROVE  /\ IsFiniteSet(S) /\ Cardinality(S) \in Nat
         /\ Cardinality(S) <= Cardinality(Clients)
  BY LockoutAssumption, FS_Subset, FS_CardinalityType

LEMMA TypingStep ==
  ASSUME LockoutTypeOK, [LockoutNext]_lockoutVars
  PROVE  LockoutTypeOK'
<1> USE DEF LockoutTypeOK
<1>1. ASSUME NEW c \in Clients, Step(c)
      PROVE  LockoutTypeOK'
  <2>1. CASE Enter(c)
    BY <2>1 DEF Enter, Go, LockoutStage
  <2>2. CASE Check(c)
    <3>1. attempts' \in Counts
      BY <2>2, CappedType DEF Check, Refuse, LetPass
    <3>2. Add(blind) \in [Ages -> Nat]
      BY YoungerMore DEF Add
    <3>3. QED
      BY <2>2, <3>1, <3>2 DEF Check, Refuse, LetPass, Go, LockoutStage
  <2>3. CASE VerifyWrong(c)
    <3>1. Add(guesses) \in [Ages -> Nat] /\ Add(recent) \in [Ages -> Nat]
      BY YoungerMore DEF Add
    <3>2. QED
      BY <2>3, <3>1 DEF VerifyWrong, Go, LockoutStage
  <2>4. CASE VerifyRight(c)
    BY <2>4 DEF VerifyRight, Go, LockoutStage
  <2>5. CASE WrongCode(c)
    BY <2>5 DEF WrongCode, Go, LockoutStage
  <2>6. CASE CountFailure(c)
    BY <2>6, CappedType DEF CountFailure, Go, LockoutStage
  <2>7. CASE RecordFailure(c)
    <3>1. Add(lost) \in [Ages -> Nat]
      BY YoungerMore DEF Add
    <3>2. attempts' \in Counts /\ lost' \in [Ages -> Nat]
      BY <2>7, <3>1, CappedType DEF RecordFailure
    <3>3. QED
      BY <2>7, <3>2 DEF RecordFailure, Go, LockoutStage
  <2>8. CASE ClearFailures(c)
    BY <2>8, NothingCounts, YoungerNothing DEF ClearFailures, Go, LockoutStage
  <2>9. QED
    BY <1>1, <2>1, <2>2, <2>3, <2>4, <2>5, <2>6, <2>7, <2>8 DEF Step
<1>2. CASE Forget
  BY <1>2, NothingCounts, YoungerNothing DEF Forget
<1>3. CASE DeleteAttempts
  BY <1>3, NothingCounts, YoungerNothing DEF DeleteAttempts
<1>4. CASE Tick
  BY <1>4, OlderCounts, YoungerOlder DEF Tick
<1>5. CASE Killed
  <2>1. Cardinality(Unrecorded) \in Nat
    BY ClientsCountable DEF Unrecorded
  <2>2. More(lost, Cardinality(Unrecorded)) \in [Ages -> Nat]
    BY <2>1, YoungerMore
  <2>3. QED
    BY <1>5, <2>2, NothingCounts, YoungerNothing DEF Killed, LockoutStage
<1>6. CASE UNCHANGED lockoutVars
  BY <1>6 DEF lockoutVars
<1>7. QED
  BY <1>1, <1>2, <1>3, <1>4, <1>5, <1>6 DEF LockoutNext

(* Counts stay within the bound of the model and every request is somewhere *)
(* in the code.                                                             *)
THEOREM LockoutTyping == LockoutSpec => []LockoutTypeOK
<1>1. LockoutInit => LockoutTypeOK
  BY NothingCounts, YoungerNothing DEF LockoutInit, LockoutTypeOK, LockoutStage
<1>2. LockoutTypeOK /\ [LockoutNext]_lockoutVars => LockoutTypeOK'
  BY TypingStep
<1>3. QED
  BY <1>1, <1>2, PTL DEF LockoutSpec

-----------------------------------------------------------------------------
(* How many guesses fit a window.                                           *)

\* Of the last zero ticks there is nothing to show.
LEMMA LastNothing ==
  ASSUME LockoutTypeOK'
  PROVE  /\ Covered(0)' /\ Bounded(0)'
         /\ Remembered(0)' /\ RecentBounded(0)'
<1>1. /\ Younger(guesses')[0] = 0 /\ Younger(attempts')[0] = 0
      /\ Younger(lost')[0] = 0 /\ Younger(blind')[0] = 0
      /\ Younger(recent')[0] = 0 /\ Younger(failed')[0] = 0
  <2>1. attempts' \in [Ages -> Nat] /\ failed' \in [Ages -> Nat]
    BY CappedType DEF LockoutTypeOK
  <2>2. QED
    BY <2>1, YoungerDef DEF LockoutTypeOK
<1>2. /\ Passing' \subseteq Clients /\ Unrecorded' \subseteq Clients
      /\ Uncounted' \subseteq Clients
  BY DEF Passing, Unrecorded, Uncounted
<1>3. /\ Cardinality(Passing') \in Nat /\ Cardinality(Unrecorded') \in Nat
      /\ Cardinality(Uncounted') \in Nat
      /\ Cardinality(Passing') <= Cardinality(Clients)
      /\ Cardinality(Clients) \in Nat
  BY <1>2, ClientsCountable
<1>4. Covered(0)' /\ Bounded(0)'
  BY <1>1, <1>3, LockoutAssumption DEF Covered, Bounded
<1>5. Remembered(0)' /\ RecentBounded(0)'
  BY <1>1, <1>3, LockoutAssumption DEF Remembered, RecentBounded
<1>6. QED
  BY <1>4, <1>5

\* Two sets of clients without one in common.
LEMMA Disjoint ==
  ASSUME NEW P \in SUBSET Clients, NEW U \in SUBSET Clients, P \cap U = {}
  PROVE  Cardinality(P) + Cardinality(U) <= Cardinality(Clients)
<1>1. IsFiniteSet(P) /\ IsFiniteSet(U)
  BY ClientsCountable
<1>2. Cardinality(P \cup U)
        = Cardinality(P) + Cardinality(U) - Cardinality(P \cap U)
  BY <1>1, FS_Union
<1>3. Cardinality(P \cap U) = 0
  BY FS_EmptySet, Zenon
<1>4. P \cup U \in SUBSET Clients
  OBVIOUS
<1>5. Cardinality(P \cup U) <= Cardinality(Clients)
  BY <1>4, ClientsCountable
<1>6. /\ Cardinality(P) \in Nat /\ Cardinality(U) \in Nat
      /\ Cardinality(Clients) \in Nat /\ Cardinality(P \cup U) \in Nat
  BY <1>4, ClientsCountable
<1>7. QED
  BY <1>2, <1>3, <1>5, <1>6

\* One client more, one client fewer.
LEMMA OneClient ==
  ASSUME NEW S \in SUBSET Clients, NEW c \in Clients
  PROVE  /\ c \notin S => Cardinality(S \cup {c}) = Cardinality(S) + 1
         /\ c \in S => Cardinality(S \ {c}) = Cardinality(S) - 1
  BY ClientsCountable, FS_AddElement, FS_RemoveElement

\* A table that has more than before covers as much.
LEMMA CappedGrows ==
  ASSUME NEW f \in Counts, NEW k \in 1..Window
  PROVE  /\ Younger(Capped(f))[k] >= Younger(f)[k]
         /\ \/ Younger(Capped(f))[k] = Younger(f)[k] + 1
            \/ Younger(Capped(f))[k] >= Threshold
<1>1. f \in [Ages -> Nat] /\ f[0] \in 0..MaxAttempts /\ k \in 0..Window
  BY CappedType, LockoutAssumption DEF Counts, Ages
<1>2. Younger(f)[k] \in Nat /\ f[0] <= Younger(f)[k]
  BY <1>1, YoungerDef, YoungerFirst
<1>3. CASE f[0] < MaxAttempts
  <2>1. Capped(f) = More(f, 1)
    BY <1>3, CappedType
  <2>2. Younger(More(f, 1))[k] = Younger(f)[k] + 1
    BY <1>1, YoungerMore
  <2>3. QED
    BY <1>2, <2>1, <2>2
<1>4. CASE ~(f[0] < MaxAttempts)
  <2>1. Capped(f) = f
    BY <1>4 DEF Capped
  <2>2. f[0] >= Threshold
    BY <1>1, <1>4, LockoutAssumption
  <2>3. QED
    BY <1>1, <1>2, <2>1, <2>2, LockoutAssumption
<1>5. QED
  BY <1>3, <1>4

\* A part of the window has no more than the whole.
LEMMA PartOfTotal ==
  ASSUME NEW f \in [Ages -> Nat], NEW k \in 0..Window
  PROVE  /\ Younger(f)[k] \in Nat /\ Total(f) \in Nat
         /\ Younger(f)[k] <= Total(f)
<1>1. Window \in 0..Window /\ k <= Window
  BY LockoutAssumption
<1>2. Younger(f) \in [0..Window -> Nat]
  BY YoungerDef
<1>3. Younger(f)[k] <= Younger(f)[Window]
  BY <1>1, YoungerGrows
<1>4. QED
  BY <1>1, <1>2, <1>3 DEF Total

\* What the table covers.
LEMMA GuessStep ==
  ASSUME LockoutTypeOK, GuessInv, [LockoutNext]_lockoutVars, NEW k \in 1..Window
  PROVE  Covered(k)' /\ Bounded(k)'
<1> DEFINE G == Younger(guesses)[k]
           A == Younger(attempts)[k]
           L == Younger(lost)[k]
           B == Younger(blind)[k]
           U == Cardinality(Unrecorded)
           P == Cardinality(Passing)
           N == Cardinality(Clients)
           G1 == Younger(guesses')[k]
           A1 == Younger(attempts')[k]
           L1 == Younger(lost')[k]
           B1 == Younger(blind')[k]
           U1 == Cardinality(Unrecorded')
           P1 == Cardinality(Passing')
           T == Threshold
<1>0. LockoutTypeOK'
  BY TypingStep
<1>1. k \in 0..Window /\ T \in Nat /\ T # 0
  BY LockoutAssumption
<1>2. /\ guesses \in [Ages -> Nat] /\ guesses' \in [Ages -> Nat]
      /\ attempts \in [Ages -> Nat] /\ attempts' \in [Ages -> Nat]
      /\ lost \in [Ages -> Nat] /\ lost' \in [Ages -> Nat]
      /\ blind \in [Ages -> Nat] /\ blind' \in [Ages -> Nat]
  BY <1>0, CappedType DEF LockoutTypeOK
<1>3. /\ Passing \in SUBSET Clients /\ Passing' \in SUBSET Clients
      /\ Unrecorded \in SUBSET Clients /\ Unrecorded' \in SUBSET Clients
  BY DEF Passing, Unrecorded
<1>4. /\ G \in Nat /\ A \in Nat /\ L \in Nat /\ B \in Nat
      /\ G1 \in Nat /\ A1 \in Nat /\ L1 \in Nat /\ B1 \in Nat
  BY <1>1, <1>2, YoungerDef
<1>5. /\ U \in Nat /\ P \in Nat /\ U1 \in Nat /\ P1 \in Nat /\ N \in Nat
      /\ P1 <= N
  BY <1>3, ClientsCountable
<1>6. /\ G <= A + L + U \/ A >= T
      /\ G + P <= T - 1 + N + L + B
  BY <1>1 DEF GuessInv, Covered, Bounded
<1>7. SUFFICES /\ G1 <= A1 + L1 + U1 \/ A1 >= T
               /\ G1 + P1 <= T - 1 + N + L1 + B1
  BY DEF Covered, Bounded
<1>8. /\ guesses' = guesses => G1 = G
      /\ attempts' = attempts => A1 = A
      /\ lost' = lost => L1 = L
      /\ blind' = blind => B1 = B
  OBVIOUS
<1>9. attempts' = Capped(attempts) =>
        /\ A1 >= A
        /\ A1 = A + 1 \/ A1 >= T
  BY CappedGrows DEF LockoutTypeOK
<1>10. /\ guesses' = Add(guesses) => G1 = G + 1
       /\ lost' = Add(lost) => L1 = L + 1
       /\ blind' = Add(blind) => B1 = B + 1
  <2>1. /\ Younger(Add(guesses))[k] = G + 1
        /\ Younger(Add(lost))[k] = L + 1
        /\ Younger(Add(blind))[k] = B + 1
    BY <1>2, YoungerMore DEF Add
  <2>2. QED
    BY <2>1
<1>11. /\ Unrecorded' = Unrecorded => U1 = U
       /\ Passing' \in SUBSET Passing => P1 <= P
  <2>1. Unrecorded' = Unrecorded => U1 = U
    BY Zenon
  <2>2. Passing' \in SUBSET Passing => P1 <= P
    BY <1>3, ClientsCountable, FS_Subset
  <2>3. QED
    BY <2>1, <2>2
<1>12. ASSUME NEW c \in Clients, Step(c)
       PROVE  /\ G1 <= A1 + L1 + U1 \/ A1 >= T
              /\ G1 + P1 <= T - 1 + N + L1 + B1
  <2> USE DEF LockoutTypeOK
  <2>1. CASE Enter(c) \/ VerifyRight(c) \/ WrongCode(c) \/ ClearFailures(c)
             \/ CountFailure(c)
    <3>1. UNCHANGED <<guesses, attempts, lost, blind>>
      BY <2>1 DEF Enter, VerifyRight, WrongCode, ClearFailures, CountFailure
    <3>2. Unrecorded' = Unrecorded /\ Passing' \in SUBSET Passing
      BY <2>1 DEF Enter, VerifyRight, WrongCode, ClearFailures, CountFailure,
         Stands, Go, Unrecorded, Passing
    <3> HIDE DEF G, A, L, B, U, P, N, G1, A1, L1, B1, U1, P1, T
    <3>3. QED
      BY <1>1, <1>4, <1>5, <1>6, <1>8, <1>11, <3>1, <3>2
  <2>2. ASSUME Check(c), Refuse(c)
        PROVE  /\ G1 <= A1 + L1 + U1 \/ A1 >= T
               /\ G1 + P1 <= T - 1 + N + L1 + B1
    <3>1. /\ UNCHANGED <<guesses, lost, blind>>
          /\ attempts' = attempts \/ attempts' = Capped(attempts)
      BY <2>2 DEF Check, Refuse
    <3>2. Unrecorded' = Unrecorded /\ Passing' \in SUBSET Passing
      BY <2>2 DEF Check, Refuse, Stands, Go, Unrecorded, Passing
    <3> HIDE DEF G, A, L, B, U, P, N, G1, A1, L1, B1, U1, P1, T
    <3>3. QED
      BY <1>1, <1>4, <1>5, <1>6, <1>8, <1>9, <1>11, <3>1, <3>2
  <2>3. ASSUME Check(c), LetPass(c)
        PROVE  /\ G1 <= A1 + L1 + U1 \/ A1 >= T
               /\ G1 + P1 <= T - 1 + N + L1 + B1
    <3>1. UNCHANGED <<guesses, attempts, lost>>
      BY <2>3 DEF Check, LetPass
    <3>2. /\ Unrecorded' = Unrecorded
          /\ Passing' = Passing \cup {c} /\ c \notin Passing
          /\ Passing' \cap Unrecorded = {}
      BY <2>3 DEF Check, LetPass, Stands, Go, Unrecorded, Passing
    <3>3. CASE LockedOut
      <4>1. blind' = Add(blind)
        BY <2>3, <3>3 DEF LetPass
      <4>2. Cardinality(Passing \cup {c}) = P + 1
        BY <1>3, <3>2, OneClient
      <4>3. P1 = P + 1
        BY <3>2, <4>2, Zenon
      <4> HIDE DEF G, A, L, B, U, P, N, G1, A1, L1, B1, U1, P1, T
      <4>4. QED
        BY <1>1, <1>4, <1>5, <1>6, <1>8, <1>10, <1>11, <3>1, <3>2, <4>1, <4>3
    <3>4. CASE ~LockedOut
      <4>1. blind' = blind
        BY <2>3, <3>4 DEF LetPass
      <4>2. P1 + U <= N
        BY <1>3, <3>2, Disjoint
      <4>3. ~(A >= T)
        <5>1. ~(Total(attempts) >= Threshold)
          BY <3>4 DEF LockedOut, Locked
        <5>2. QED
          BY <1>1, <1>2, <1>4, <5>1, PartOfTotal
      <4> HIDE DEF G, A, L, B, U, P, N, G1, A1, L1, B1, U1, P1, T
      <4>4. QED
        BY <1>1, <1>4, <1>5, <1>6, <1>8, <1>11, <3>1, <3>2, <4>1, <4>2, <4>3
    <3>5. QED
      BY <3>3, <3>4
  <2>4. CASE VerifyWrong(c)
    <3>1. guesses' = Add(guesses) /\ UNCHANGED <<attempts, lost, blind>>
      BY <2>4 DEF VerifyWrong
    <3>2. /\ Unrecorded' = Unrecorded \cup {c} /\ c \notin Unrecorded
          /\ Passing' = Passing \ {c} /\ c \in Passing
      BY <2>4 DEF VerifyWrong, Stands, Go, Unrecorded, Passing
    <3>3. Cardinality(Unrecorded \cup {c}) = U + 1
      BY <1>3, <3>2, OneClient
    <3>4. Cardinality(Passing \ {c}) = P - 1
      BY <1>3, <3>2, OneClient
    <3>5. U1 = U + 1 /\ P1 = P - 1
      BY <3>2, <3>3, <3>4, Zenon
    <3> HIDE DEF G, A, L, B, U, P, N, G1, A1, L1, B1, U1, P1, T
    <3>6. QED
      BY <1>1, <1>4, <1>5, <1>6, <1>8, <1>10, <3>1, <3>5
  <2>5. CASE RecordFailure(c) /\ Stands(c, "noted")
    <3>1. /\ UNCHANGED <<guesses, lost, blind>>
          /\ attempts' = attempts \/ attempts' = Capped(attempts)
      BY <2>5 DEF RecordFailure, Stands
    <3>2. Unrecorded' = Unrecorded /\ Passing' \in SUBSET Passing
      BY <2>5 DEF RecordFailure, Stands, Go, Unrecorded, Passing
    <3> HIDE DEF G, A, L, B, U, P, N, G1, A1, L1, B1, U1, P1, T
    <3>3. QED
      BY <1>1, <1>4, <1>5, <1>6, <1>8, <1>9, <1>11, <3>1, <3>2
  <2>6. CASE RecordFailure(c) /\ Stands(c, "counted")
    <3>1. /\ UNCHANGED <<guesses, blind>>
          /\ \/ attempts' = Capped(attempts) /\ lost' = lost
             \/ attempts' = attempts /\ lost' = Add(lost)
      BY <2>6 DEF RecordFailure
    <3>2. /\ Unrecorded' = Unrecorded \ {c} /\ c \in Unrecorded
          /\ Passing' \in SUBSET Passing
      BY <2>6 DEF RecordFailure, Stands, Go, Unrecorded, Passing
    <3>3. Cardinality(Unrecorded \ {c}) = U - 1
      BY <1>3, <3>2, OneClient
    <3>4. U1 = U - 1
      BY <3>2, <3>3, Zenon
    <3> HIDE DEF G, A, L, B, U, P, N, G1, A1, L1, B1, U1, P1, T
    <3>5. QED
      BY <1>1, <1>4, <1>5, <1>6, <1>8, <1>9, <1>10, <1>11, <3>1, <3>2, <3>4
  <2>7. QED
    BY <1>12, <2>1, <2>2, <2>3, <2>4, <2>5, <2>6
       DEF Step, RecordFailure, Check
<1>13. CASE Forget \/ UNCHANGED lockoutVars
  <2>1. UNCHANGED <<guesses, attempts, lost, blind, stage>>
    BY <1>13 DEF Forget, lockoutVars
  <2>2. Unrecorded' = Unrecorded /\ Passing' \in SUBSET Passing
    BY <2>1 DEF Unrecorded, Passing
  <2> HIDE DEF G, A, L, B, U, P, N, G1, A1, L1, B1, U1, P1, T
  <2>3. QED
    BY <1>1, <1>4, <1>5, <1>6, <1>8, <1>11, <2>1, <2>2
<1>14. CASE DeleteAttempts
  <2>1. G1 = 0
    BY <1>1, <1>14, YoungerNothing DEF DeleteAttempts
  <2> HIDE DEF G, A, L, B, U, P, N, G1, A1, L1, B1, U1, P1, T
  <2>2. QED
    BY <1>1, <1>4, <1>5, <2>1
<1>15. CASE Tick
  <2>1. k - 1 \in 0..Window
    BY LockoutAssumption
  <2>2. /\ Unrecorded' = Unrecorded /\ Passing' = Passing
    BY <1>15 DEF Tick, Unrecorded, Passing
  <2>3. U1 = U /\ P1 = P
    BY <2>2, Zenon
  <2>4. /\ G1 = Younger(guesses)[k - 1]
        /\ A1 = Younger(attempts)[k - 1]
        /\ L1 = Younger(lost)[k - 1]
        /\ B1 = Younger(blind)[k - 1]
    BY <1>2, <1>15, YoungerOlder DEF Tick
  <2>5. Covered(k - 1) /\ Bounded(k - 1)
    BY <2>1 DEF GuessInv
  <2>6. /\ G1 <= A1 + L1 + U \/ A1 >= T
        /\ G1 + P <= T - 1 + N + L1 + B1
    BY <2>4, <2>5 DEF Covered, Bounded
  <2> HIDE DEF G, A, L, B, U, P, N, G1, A1, L1, B1, U1, P1, T
  <2>7. QED
    BY <2>3, <2>6
<1>16. CASE Killed
  <2>1. /\ UNCHANGED <<guesses, attempts, blind>>
        /\ lost' = More(lost, U)
    BY <1>16 DEF Killed
  <2>2. L1 = L + U
    BY <1>2, <1>5, <2>1, YoungerMore
  <2>3. Passing' = {}
    BY <1>16 DEF Killed, Passing
  <2>4. P1 = 0
    BY <2>3, FS_EmptySet, Zenon
  <2> HIDE DEF G, A, L, B, U, P, N, G1, A1, L1, B1, U1, P1, T
  <2>5. QED
    BY <1>1, <1>4, <1>5, <1>6, <1>8, <2>1, <2>2, <2>4
<1>17. QED
  BY <1>12, <1>13, <1>14, <1>15, <1>16 DEF LockoutNext

\* What the memory covers.
LEMMA RecentStep ==
  ASSUME LockoutTypeOK, GuessInv, [LockoutNext]_lockoutVars, NEW k \in 1..Window
  PROVE  Remembered(k)' /\ RecentBounded(k)'
<1> DEFINE R == Younger(recent)[k]
           F == Younger(failed)[k]
           U == Cardinality(Uncounted)
           P == Cardinality(Passing)
           N == Cardinality(Clients)
           R1 == Younger(recent')[k]
           F1 == Younger(failed')[k]
           U1 == Cardinality(Uncounted')
           P1 == Cardinality(Passing')
           T == Threshold
           Kept == /\ R1 <= F1 + U1 \/ F1 >= T
                   /\ R1 + P1 <= T - 1 + N
<1>0. LockoutTypeOK'
  BY TypingStep
<1>1. k \in 0..Window /\ k - 1 \in 0..Window /\ T \in Nat /\ T # 0
  BY LockoutAssumption
<1>2. /\ recent \in [Ages -> Nat] /\ recent' \in [Ages -> Nat]
      /\ failed \in [Ages -> Nat] /\ failed' \in [Ages -> Nat]
  BY <1>0, CappedType DEF LockoutTypeOK
<1>3. /\ Passing \in SUBSET Clients /\ Passing' \in SUBSET Clients
      /\ Uncounted \in SUBSET Clients /\ Uncounted' \in SUBSET Clients
  BY DEF Passing, Uncounted
<1>4. /\ R \in Nat /\ F \in Nat /\ R1 \in Nat /\ F1 \in Nat
      /\ U \in Nat /\ P \in Nat /\ U1 \in Nat /\ P1 \in Nat /\ N \in Nat
      /\ P1 <= N
  BY <1>1, <1>2, <1>3, YoungerDef, ClientsCountable
<1>5. /\ R <= F + U \/ F >= T
      /\ R + P <= T - 1 + N
  BY <1>1 DEF GuessInv, Remembered, RecentBounded
<1>6. SUFFICES Kept
  BY DEF Remembered, RecentBounded
<1>7. /\ recent' = recent => R1 = R
      /\ failed' = failed => F1 = F
  OBVIOUS
<1>8. /\ Uncounted' = Uncounted => U1 = U
      /\ Passing' \in SUBSET Passing => P1 <= P
  <2>1. Uncounted' = Uncounted => U1 = U
    BY Zenon
  <2>2. Passing' \in SUBSET Passing => P1 <= P
    BY <1>3, ClientsCountable, FS_Subset
  <2>3. QED
    BY <2>1, <2>2
<1>9. failed' = Capped(failed) => F1 >= F /\ (F1 = F + 1 \/ F1 >= T)
  BY CappedGrows DEF LockoutTypeOK
<1>10. recent' = Nothing => Kept
  <2>1. ASSUME recent' = Nothing PROVE R1 = 0
    BY <1>1, <2>1, YoungerNothing
  <2> HIDE DEF R, F, U, P, N, R1, F1, U1, P1, T
  <2>2. QED
    BY <1>1, <1>4, <2>1
<1>11. ASSUME UNCHANGED <<recent, failed>>, Uncounted' = Uncounted,
              Passing' \in SUBSET Passing
       PROVE  Kept
  <2> HIDE DEF R, F, U, P, N, R1, F1, U1, P1, T
  <2>1. QED
    BY <1>1, <1>4, <1>5, <1>7, <1>8, <1>11
<1>12. ASSUME NEW c \in Clients, Step(c)
       PROVE  Kept
  <2> USE DEF LockoutTypeOK
  <2>1. ASSUME Enter(c) \/ VerifyRight(c) \/ WrongCode(c) \/ RecordFailure(c)
               \/ (Check(c) /\ Refuse(c))
        PROVE  Kept
    <3>1. UNCHANGED <<recent, failed>>
      BY <2>1 DEF Enter, VerifyRight, WrongCode, RecordFailure, Check
    <3>2. Uncounted' = Uncounted /\ Passing' \in SUBSET Passing
      BY <2>1 DEF Enter, VerifyRight, WrongCode, RecordFailure, Check, Refuse,
         Stands, Go, Uncounted, Passing
    <3>3. QED
      BY <1>11, <3>1, <3>2
  <2>2. ASSUME Check(c), LetPass(c)
        PROVE  Kept
    <3>1. UNCHANGED <<recent, failed>>
      BY <2>2 DEF Check, LetPass
    <3>2. Uncounted' = Uncounted /\ Passing' \cap Uncounted = {}
      BY <2>2 DEF Check, LetPass, Stands, Go, Uncounted, Passing
    <3>3. P1 + U <= N
      BY <1>3, <3>2, Disjoint
    <3>4. PICK readable \in BOOLEAN : ~Locked(readable) \/ Refuse(c)
      BY <2>2 DEF Check
    <3>5. ~Refuse(c)
      BY <2>2 DEF LetPass, Refuse, Check, Stands, Go
    <3>6. ~(Total(failed) >= Threshold)
      BY <3>4, <3>5 DEF Locked
    <3>7. ~(F >= T)
      BY <1>1, <1>2, <1>4, <3>6, PartOfTotal
    <3> HIDE DEF R, F, U, P, N, R1, F1, U1, P1, T
    <3>8. QED
      BY <1>1, <1>4, <1>5, <1>7, <1>8, <3>1, <3>2, <3>3, <3>7
  <2>3. ASSUME VerifyWrong(c)
        PROVE  Kept
    <3>1. recent' = Add(recent) /\ UNCHANGED failed
      BY <2>3 DEF VerifyWrong
    <3>2. /\ Uncounted' = Uncounted \cup {c} /\ c \notin Uncounted
          /\ Passing' = Passing \ {c} /\ c \in Passing
      BY <2>3 DEF VerifyWrong, Stands, Go, Uncounted, Passing
    <3>3. /\ Cardinality(Uncounted \cup {c}) = U + 1
          /\ Cardinality(Passing \ {c}) = P - 1
      BY <1>3, <3>2, OneClient
    <3>4. U1 = U + 1 /\ P1 = P - 1
      BY <3>2, <3>3, Zenon
    <3>5. R1 = R + 1
      BY <1>2, <3>1, YoungerMore DEF Add
    <3> HIDE DEF R, F, U, P, N, R1, F1, U1, P1, T
    <3>6. QED
      BY <1>1, <1>4, <1>5, <1>7, <3>1, <3>4, <3>5
  <2>4. ASSUME CountFailure(c)
        PROVE  Kept
    <3>1. failed' = Capped(failed) /\ UNCHANGED recent
      BY <2>4 DEF CountFailure
    <3>2. /\ Passing' \in SUBSET Passing
          /\ \/ Uncounted' = Uncounted
             \/ Uncounted' = Uncounted \ {c} /\ c \in Uncounted
      BY <2>4 DEF CountFailure, Stands, Go, Uncounted, Passing
    <3>3. c \in Uncounted => Cardinality(Uncounted \ {c}) = U - 1
      BY <1>3, OneClient
    <3>4. U1 = U \/ U1 = U - 1
      BY <3>2, <3>3, Zenon
    <3> HIDE DEF R, F, U, P, N, R1, F1, U1, P1, T
    <3>5. QED
      BY <1>1, <1>4, <1>5, <1>7, <1>8, <1>9, <3>1, <3>2, <3>4
  <2>5. ClearFailures(c) => recent' = Nothing
    BY DEF ClearFailures
  <2>6. Check(c) => Refuse(c) \/ LetPass(c)
    BY DEF Check
  <2>7. QED
    BY <1>10, <1>12, <2>1, <2>2, <2>3, <2>4, <2>5, <2>6 DEF Step
<1>13. ASSUME Tick
       PROVE  Kept
  <2>1. Uncounted' = Uncounted /\ Passing' = Passing
    BY <1>13 DEF Tick, Uncounted, Passing
  <2>2. U1 = U /\ P1 = P
    BY <2>1, Zenon
  <2>3. R1 = Younger(recent)[k - 1] /\ F1 = Younger(failed)[k - 1]
    BY <1>2, <1>13, YoungerOlder DEF Tick
  <2>4. Remembered(k - 1) /\ RecentBounded(k - 1)
    BY <1>1 DEF GuessInv
  <2>5. /\ R1 <= F1 + U \/ F1 >= T
        /\ R1 + P <= T - 1 + N
    BY <2>3, <2>4 DEF Remembered, RecentBounded
  <2> HIDE DEF R, F, U, P, N, R1, F1, U1, P1, T
  <2>6. QED
    BY <2>2, <2>5
<1>14. ASSUME DeleteAttempts \/ UNCHANGED lockoutVars
       PROVE  Kept
  <2>1. UNCHANGED <<recent, failed, stage>>
    BY <1>14 DEF DeleteAttempts, lockoutVars
  <2>2. Uncounted' = Uncounted /\ Passing' \in SUBSET Passing
    BY <2>1 DEF Uncounted, Passing
  <2>3. QED
    BY <1>11, <2>1, <2>2
<1>15. Forget \/ Killed => recent' = Nothing
  BY DEF Forget, Killed
<1>16. QED
  BY <1>10, <1>12, <1>13, <1>14, <1>15 DEF LockoutNext

(* How many passwords can be tried against one name, however requests       *)
(* overlap and whatever clears the memory: in any window as many are        *)
(* refused as the threshold lets through, one for each request that had     *)
(* already looked, those whose failure never reached the table, and those   *)
(* let through while the table could not be read; and however often it      *)
(* cannot, only the first two between two times the memory is emptied.  The *)
(* induction is over every shorter window too, because time takes from the  *)
(* old end of all the counts at once: a refused password is covered by a    *)
(* row, by a loss or by the request that is on its way to write one, until  *)
(* the rows themselves lock the name, and the same holds of the memory.     *)
THEOREM Guesses == LockoutSpec => []GuessesBounded
<1>1. LockoutInit => GuessInv
  <2>1. SUFFICES ASSUME LockoutInit, NEW k \in 0..Window
                 PROVE  /\ Covered(k) /\ Bounded(k)
                        /\ Remembered(k) /\ RecentBounded(k)
    BY DEF GuessInv
  <2>2. Nothing \in [Ages -> Nat] /\ Younger(Nothing)[k] = 0
    BY YoungerNothing
  <2>3. /\ Passing \in SUBSET Clients /\ Unrecorded \in SUBSET Clients
        /\ Uncounted \in SUBSET Clients
    BY DEF Passing, Unrecorded, Uncounted
  <2>4. /\ Cardinality(Passing) \in Nat /\ Cardinality(Unrecorded) \in Nat
        /\ Cardinality(Uncounted) \in Nat
        /\ Cardinality(Passing) <= Cardinality(Clients)
        /\ Cardinality(Clients) \in Nat
    BY <2>3, ClientsCountable
  <2>5. /\ Younger(guesses)[k] = 0 /\ Younger(attempts)[k] = 0
        /\ Younger(lost)[k] = 0 /\ Younger(blind)[k] = 0
        /\ Younger(recent)[k] = 0 /\ Younger(failed)[k] = 0
    BY <2>1, <2>2 DEF LockoutInit
  <2>6. Covered(k) /\ Bounded(k)
    BY <2>4, <2>5, LockoutAssumption DEF Covered, Bounded
  <2>7. Remembered(k) /\ RecentBounded(k)
    BY <2>4, <2>5, LockoutAssumption DEF Remembered, RecentBounded
  <2>8. QED
    BY <2>6, <2>7
<1>2. ASSUME LockoutTypeOK, GuessInv, [LockoutNext]_lockoutVars
      PROVE  GuessInv'
  <2>1. LockoutTypeOK'
    BY <1>2, TypingStep
  <2>2. Covered(0)' /\ Bounded(0)' /\ Remembered(0)' /\ RecentBounded(0)'
    BY <2>1, LastNothing
  <2>3. \A k \in 1..Window : Covered(k)' /\ Bounded(k)'
    BY <1>2, GuessStep
  <2>4. \A k \in 1..Window : Remembered(k)' /\ RecentBounded(k)'
    BY <1>2, RecentStep
  <2>5. \A k \in 0..Window : k = 0 \/ k \in 1..Window
    BY LockoutAssumption
  <2>6. QED
    BY <2>2, <2>3, <2>4, <2>5 DEF GuessInv
<1>3. LockoutTypeOK /\ GuessInv => GuessesBounded
  <2>1. SUFFICES ASSUME LockoutTypeOK, GuessInv
                 PROVE  GuessesBounded
    OBVIOUS
  <2>2. Bounded(Window) /\ RecentBounded(Window) /\ Window \in 0..Window
    BY <2>1, LockoutAssumption DEF GuessInv
  <2>3. /\ Total(guesses) \in Nat /\ Total(lost) \in Nat
        /\ Total(blind) \in Nat /\ Total(recent) \in Nat
    BY <2>1, <2>2, PartOfTotal DEF LockoutTypeOK
  <2>4. Cardinality(Passing) \in Nat /\ Cardinality(Clients) \in Nat
    BY ClientsCountable DEF Passing
  <2>5. Total(guesses) + Cardinality(Passing)
          <= Threshold - 1 + Cardinality(Clients) + Total(lost) + Total(blind)
    BY <2>2 DEF Bounded, Total
  <2>6. Total(recent) + Cardinality(Passing)
          <= Threshold - 1 + Cardinality(Clients)
    BY <2>2 DEF RecentBounded, Total
  <2>7. QED
    BY <2>3, <2>4, <2>5, <2>6, LockoutAssumption DEF GuessesBounded
<1>4. QED
  BY <1>1, <1>2, <1>3, LockoutTyping, PTL DEF LockoutSpec
=============================================================================
