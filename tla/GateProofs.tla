----------------------------- MODULE GateProofs -----------------------------
(***************************************************************************)
(* Theorems about Gate, for any number of clients, keys, users, operators, *)
(* documents and transactions and any length of the window: the inductive  *)
(* invariant Inv and the properties it implies.                            *)
(***************************************************************************)
EXTENDS Gate, FiniteSetTheorems, TLAPS

Hits == [cur : Nat, prev : Nat]
ValidDocs == {doc \in Docs : IsPolicy(doc)}
Ids == {"POST", "GET"} \X Keys \X Ips
KeyStatus == {"none", "active", "revoked"}
Verdicts == {Allowed, "R1", "R4", "R2", "R6", "R2b", "R2c", "R3", "R5", "R5e", "R7", "R8"}
RowStatus == {"RECEIVED", "REJECTED", "RESERVED", "CONFIRMED"}
RowRecords == [summary : {t.summary : t \in Traffic}, claim : {t.claim : t \in Traffic},
               status : RowStatus, rule : Verdicts \cup {"none", FeeRule, "budget", "sponsor"}, estimated : SUBSET Fees, actual : SUBSET Fees]
CallRecords == [pc : {"idle", "auth", "policy", "read", "body", "estimate"},
                id : Ids \cup {<<>>}, version : Nat, floor : Nat, live : BOOLEAN,
                row : SUBSET RowRecords]
Puts == [pc : {"idle", "first", "second", "failed"}, version : Versions, first : Nat]

Judged(doc, row) == EvaluatePolicy(doc, row.summary, row.claim)

(* What the status of a row says of the judgement that made it.            *)
RowOK(doc, row) ==
  \/ /\ row.status = "REJECTED" /\ row.estimated = {} /\ row.actual = {}
     /\ \/ row.rule = Judged(doc, row) /\ row.rule # Allowed
        \/ row.rule \in {FeeRule, "budget", "sponsor"} /\ Judged(doc, row) = Allowed
  \/ /\ row.status = "RECEIVED" /\ row.estimated = {} /\ row.actual = {}
     /\ Judged(doc, row) = Allowed
  \/ /\ row.status = "RESERVED" /\ row.actual = {}
     /\ Judged(doc, row) = Allowed
     /\ \A fee \in row.estimated : CheckFeeLimit(doc, fee) = Allowed
  \/ /\ row.status = "CONFIRMED" /\ row.actual # {}
     /\ Judged(doc, row) = Allowed
     /\ \A fee \in row.estimated : CheckFeeLimit(doc, fee) = Allowed

(* A call under way, by the keys, the status of the application, the       *)
(* number of versions and the documents.                                   *)
CallOK(b, keys, status, n, docs) ==
  /\ b.pc # "idle" =>
       /\ b.id \in Ids /\ b.floor <= n
       /\ keys[b.id[2]] = "active" /\ status = "active" => b.live
  /\ b.pc \in {"policy", "read", "body", "estimate"} => b.live
  /\ b.pc \in {"read", "body", "estimate"} => b.version \in 1..n /\ b.version >= b.floor
  /\ b.pc \in {"auth", "policy", "read", "body"} => b.row = {}
  /\ b.row # {} => b.version \in 1..n
  /\ \A row \in b.row : RowOK(docs[b.version], row)
  /\ b.pc = "estimate" => \A row \in b.row : row.status = "RECEIVED"
CallsOK == \A c \in Calls : CallOK(call[c], key, app, Latest, policies)

(* A PUT is ahead of the versions by at most one, and after a lost race it *)
(* is ahead of those it first read by two.                                 *)
PutOK(p, n) ==
  /\ p.pc = "first" => p.version = p.first + 1 /\ p.first <= n
  /\ p.pc = "second" => p.version \in 1..(n + 1) /\ p.version >= p.first + 2
  /\ p.pc = "failed" => n >= p.first + 2
PutsOK == \A a \in Admins : PutOK(put[a], Latest)

GateType ==
  /\ phase \in Phases
  /\ count \in [Buckets -> Hits]
  /\ admitted \in [Buckets -> Hits]
  /\ app \in {"none", "active", "suspended"}
  /\ key \in [Keys -> KeyStatus]
  /\ app = "none" => \A k \in Keys : key[k] = "none"
  /\ Latest \in Versions /\ policies \in [1..Latest -> ValidDocs]
  /\ put \in [Admins -> Puts]
  /\ call \in [Calls -> CallRecords]

(* What was let through was counted.                                       *)
AtMost(h, g) == h.cur <= g.cur /\ h.prev <= g.prev
BucketsOK == \A b \in Buckets : AtMost(admitted[b], count[b])

Inv == GateType /\ PutsOK /\ CallsOK /\ BucketsOK /\ RateHolds
-----------------------------------------------------------------------------
(* The versions.                                                           *)

(* Of the versions up to n the latest is n.                                *)
LEMMA Greatest ==
  ASSUME NEW n \in Nat
  PROVE  (CHOOSE v \in {0} \cup 1..n : \A u \in 1..n : u <= v) = n
<1>1. n \in {0} \cup 1..n /\ \A u \in 1..n : u <= n
  OBVIOUS
<1>2. \A v \in {0} \cup 1..n : (\A u \in 1..n : u <= v) => v = n
  OBVIOUS
<1> QED
  BY <1>1, <1>2

(* The number of the versions is the latest.                               *)
LEMMA LatestIs ==
  ASSUME NEW n \in Nat, DOMAIN policies = 1..n
  PROVE  Latest = n
  BY Greatest DEF Latest

(* So it is after a step.                                                  *)
LEMMA LatestIsNext ==
  ASSUME NEW n \in Nat, DOMAIN policies' = 1..n
  PROVE  Latest' = n
  BY Greatest DEF Latest

(* Without a version there is no document.                                 *)
LEMMA NoPolicies ==
  ASSUME policies \in [1..Latest -> ValidDocs], Latest \in Nat, policies # <<>>
  PROVE  Latest \in 1..Latest
<1> SUFFICES ASSUME Latest = 0 PROVE FALSE
  OBVIOUS
<1>1. DOMAIN policies = {}
  OBVIOUS
<1>2. policies = <<>>
  BY <1>1
<1> QED
  BY <1>2

(* A PUT inserts the next version or none.                                 *)
LEMMA InsertIsNext ==
  ASSUME GateType, PutsOK, NEW a \in Admins, NEW doc \in Docs, InsertVersion(a, doc)
  PROVE  /\ Latest' = Latest + 1 /\ Latest' \in Versions
         /\ policies' \in [1..Latest' -> ValidDocs]
         /\ \A v \in 1..Latest : policies'[v] = policies[v]
<1>1. /\ put[a] \in Puts /\ PutOK(put[a], Latest) /\ put[a].pc \in {"first", "second"}
      /\ Latest \in Nat /\ MaxVersion \in Nat /\ DOMAIN policies = 1..Latest
  BY BoundAssumption DEF InsertVersion, GateType, PutsOK, Versions
<1>2. put[a].version \in 1..(Latest + 1) /\ put[a].version <= MaxVersion
  BY <1>1 DEF PutOK, Puts, Versions
<1>3. put[a].version \notin 1..Latest
  BY <1>1 DEF InsertVersion, Taken
<1>4. put[a].version = Latest + 1
  BY <1>1, <1>2, <1>3
<1>5. 1..Latest \cup {Latest + 1} = 1..(Latest + 1)
  BY <1>1
<1>6. policies' = [v \in 1..(Latest + 1) |-> IF v = Latest + 1 THEN doc ELSE policies[v]]
  BY <1>1, <1>4, <1>5 DEF InsertVersion
<1>7. Latest' = Latest + 1
  BY <1>1, <1>6, LatestIsNext
<1>8. doc \in ValidDocs
  BY DEF InsertVersion, ValidDocs
<1>9. policies' \in [1..(Latest + 1) -> ValidDocs]
  BY <1>1, <1>6, <1>8 DEF GateType
<1> QED
  BY <1>1, <1>2, <1>4, <1>6, <1>7, <1>9 DEF Versions

(* Whatever keeps the documents keeps their number.                        *)
LEMMA SameLatest ==
  ASSUME policies' = policies
  PROVE  Latest' = Latest
  BY DEF Latest
-----------------------------------------------------------------------------
(* The counters.                                                           *)

(* Multiplication by a number is monotone.                                 *)
LEMMA TimesGrows ==
  ASSUME NEW w \in Nat, NEW x \in Nat, NEW y \in Nat, x <= y
  PROVE  w * x \in Nat /\ w * y \in Nat /\ w * x <= w * y
<1>1. PICK d \in Nat : y = x + d
  <2>1. y - x \in Nat /\ y = x + (y - x)
    OBVIOUS
  <2> QED
    BY <2>1
<1>2. w * x \in Nat /\ w * d \in Nat
  OBVIOUS
<1>3. w * (x + d) = w * x + w * d
  OBVIOUS
<1> QED
  BY <1>1, <1>2, <1>3

(* More hits, a higher estimate.                                           *)
LEMMA EstimateGrows ==
  ASSUME NEW ph \in Phases, NEW h \in Hits, NEW g \in Hits, AtMost(h, g)
  PROVE  /\ Estimate(h, ph) \in Nat /\ Estimate(g, ph) \in Nat
         /\ Estimate(h, ph) <= Estimate(g, ph)
<1>1. /\ h.cur \in Nat /\ h.prev \in Nat /\ g.cur \in Nat /\ g.prev \in Nat
      /\ h.cur <= g.cur /\ h.prev <= g.prev
  BY DEF Hits, AtMost
<1>2. Window \in Nat /\ Window - ph \in Nat
  BY WindowAssumption DEF Phases
<1>3. /\ Window * h.cur \in Nat /\ Window * g.cur \in Nat
      /\ Window * h.cur <= Window * g.cur
  BY <1>1, <1>2, TimesGrows
<1>4. /\ (Window - ph) * h.prev \in Nat /\ (Window - ph) * g.prev \in Nat
      /\ (Window - ph) * h.prev <= (Window - ph) * g.prev
  BY <1>1, <1>2, TimesGrows
<1> QED
  BY <1>3, <1>4 DEF Estimate

(* The estimate falls while time passes in a window.                       *)
LEMMA EstimateFalls ==
  ASSUME NEW ph \in Phases, ph + 1 < Window, NEW h \in Hits
  PROVE  /\ Estimate(h, ph + 1) \in Nat /\ Estimate(h, ph) \in Nat
         /\ Estimate(h, ph + 1) <= Estimate(h, ph)
<1>1. h.cur \in Nat /\ h.prev \in Nat
  BY DEF Hits
<1>2. /\ Window \in Nat /\ Window - (ph + 1) \in Nat /\ Window - ph \in Nat
      /\ Window - (ph + 1) <= Window - ph
  BY WindowAssumption DEF Phases
<1> DEFINE a == Window - (ph + 1)  b == Window - ph
<1>3. h.prev * a \in Nat /\ h.prev * b \in Nat /\ h.prev * a <= h.prev * b
  <2> HIDE DEF a, b
  <2>1. a \in Nat /\ b \in Nat /\ a <= b
    BY <1>2 DEF a, b
  <2> QED
    BY <1>1, <2>1, TimesGrows
<1>4. h.prev * a = a * h.prev /\ h.prev * b = b * h.prev
  BY <1>1, <1>2
<1>5. Window * h.cur \in Nat
  BY <1>1, <1>2
<1>6. Estimate(h, ph + 1) = Window * h.cur + a * h.prev /\ Estimate(h, ph) = Window * h.cur + b * h.prev
  BY DEF Estimate
<1> HIDE DEF a, b
<1> QED
  BY <1>3, <1>4, <1>5, <1>6

(* It does not rise when a window ends.                                    *)
LEMMA EstimateTurns ==
  ASSUME NEW ph \in Phases, NEW h \in Hits
  PROVE  /\ NextWindow(h) \in Hits
         /\ Estimate(NextWindow(h), 0) \in Nat /\ Estimate(h, ph) \in Nat
         /\ Estimate(NextWindow(h), 0) <= Estimate(h, ph)
<1>1. h.cur \in Nat /\ h.prev \in Nat
  BY DEF Hits
<1>2. Window \in Nat /\ Window - ph \in Nat
  BY WindowAssumption DEF Phases
<1>3. Window * h.cur \in Nat /\ (Window - ph) * h.prev \in Nat
  BY <1>1, <1>2
<1>4. NextWindow(h) = [cur |-> 0, prev |-> h.cur]
  BY DEF NextWindow
<1>5. Estimate(NextWindow(h), 0) = Window * h.cur
  <2>1. Estimate(NextWindow(h), 0) = Window * 0 + (Window - 0) * h.cur
    BY <1>4 DEF Estimate
  <2>2. Window * 0 = 0 /\ Window - 0 = Window
    BY <1>2
  <2> QED
    BY <1>3, <2>1, <2>2
<1>6. Estimate(h, ph) = Window * h.cur + (Window - ph) * h.prev
  BY DEF Estimate
<1> QED
  BY <1>1, <1>3, <1>4, <1>5, <1>6 DEF Hits

(* A limit is a number.                                                    *)
LEMMA LimitType ==
  ASSUME NEW doc \in Docs, NEW b \in Buckets
  PROVE  LimitIn(doc, b) \in Nat /\ Window * LimitIn(doc, b) \in Nat
<1>1. doc.rate.cred \in Nat /\ doc.rate.ip \in Nat /\ doc.rate.user \in Nat
  BY DocsAssumption
<1>2. b[1] \in {"cred", "read", "ip", "user"}
  BY DEF Buckets
<1>3. LimitIn(doc, b) \in Nat
  BY <1>1, <1>2, BoundAssumption DEF LimitIn
<1> QED
  BY <1>3, WindowAssumption

(* What fits under a limit still does when the estimate does not rise.     *)
LEMMA StaysWithin ==
  ASSUME NEW doc \in Docs, NEW b \in Buckets, NEW h, NEW ph, NEW g, NEW qh,
         Within(g, qh, LimitIn(doc, b)),
         Estimate(h, ph) \in Nat, Estimate(g, qh) \in Nat, Estimate(h, ph) <= Estimate(g, qh)
  PROVE  Within(h, ph, LimitIn(doc, b))
<1>1. Window * LimitIn(doc, b) \in Nat
  BY LimitType
<1> QED
  BY <1>1 DEF Within

(* Whoever fits under a limit has no more hits in the present window.      *)
LEMMA CurrentFits ==
  ASSUME NEW h \in Hits, NEW ph \in Phases, NEW limit \in Nat, Within(h, ph, limit)
  PROVE  h.cur <= limit
<1>1. /\ h.cur \in Nat /\ h.prev \in Nat
      /\ Window \in Nat \ {0} /\ Window - ph \in Nat
  BY WindowAssumption DEF Hits, Phases
<1>2. /\ Window * h.cur \in Nat /\ (Window - ph) * h.prev \in Nat /\ Window * limit \in Nat
      /\ Window * h.cur <= Window * limit
  BY <1>1 DEF Within, Estimate
<1>3. ASSUME limit + 1 <= h.cur PROVE FALSE
  <2>1. Window * (limit + 1) <= Window * h.cur
    BY <1>1, <1>3, TimesGrows
  <2>2. Window * (limit + 1) = Window * limit + Window
    BY <1>1
  <2> QED
    BY <1>1, <1>2, <2>1, <2>2
<1> QED
  BY <1>1, <1>3

(* The two halves of RateHolds.                                            *)
SlidingHolds ==
  \A b \in Buckets :
    admitted[b] = NoHits \/ \E v \in DOMAIN policies : Within(admitted[b], phase, LimitIn(policies[v], b))
PreviousHolds ==
  \A b \in Buckets :
    admitted[b] = NoHits \/ \E u \in DOMAIN policies : admitted[b].prev <= LimitIn(policies[u], b)

LEMMA Halves == RateHolds <=> SlidingHolds /\ PreviousHolds
BY DEF RateHolds, SlidingHolds, PreviousHolds

LEMMA HalvesNext == SlidingHolds' /\ PreviousHolds' => RateHolds'
BY DEF RateHolds, SlidingHolds, PreviousHolds

Counters == <<phase, count, admitted>>
CountersType == phase \in Phases /\ count \in [Buckets -> Hits] /\ admitted \in [Buckets -> Hits]
CountersOK == CountersType /\ BucketsOK /\ RateHolds

(* A hit that is let through fits under the limit of its document.         *)
LEMMA HitCounters ==
  ASSUME GateType, BucketsOK, RateHolds, NEW c \in Calls, NEW bs, NEW v \in 1..Latest,
         Hit(c, bs, policies[v]), policies' = policies
  PROVE  CountersOK'
<1> DEFINE doc == policies[v]
<1>1. doc \in Docs /\ v \in DOMAIN policies
  BY DEF GateType, ValidDocs
<1>2. /\ phase' = phase
      /\ \A b \in Buckets : /\ count'[b] \in {count[b], Counted(count[b])}
                            /\ admitted'[b] \in {admitted[b], Counted(admitted[b])}
                            /\ admitted'[b] # admitted[b] =>
                                 /\ count'[b] = Counted(count[b]) /\ IsAllowed(b, doc)
                                 /\ admitted'[b] = Counted(admitted[b])
      /\ count' = [b \in Buckets |-> count'[b]] /\ admitted' = [b \in Buckets |-> admitted'[b]]
  BY DEF Hit
<1> HIDE DEF doc
<1>3. \A h \in Hits : Counted(h) \in Hits /\ Counted(h).cur = h.cur + 1 /\ Counted(h).prev = h.prev
  BY DEF Hits, Counted
<1>4. CountersType'
  BY <1>2, <1>3 DEF GateType, CountersType
<1>5. ASSUME NEW b \in Buckets
      PROVE  AtMost(admitted'[b], count'[b])
  <2>1. admitted[b] \in Hits /\ count[b] \in Hits /\ AtMost(admitted[b], count[b])
    BY DEF GateType, BucketsOK
  <2>2. admitted[b].cur \in Nat /\ count[b].cur \in Nat
    BY <2>1 DEF Hits
  <2> QED
    BY <1>2, <1>3, <2>1, <2>2 DEF AtMost
<1>6. ASSUME NEW b \in Buckets, admitted'[b] # admitted[b]
      PROVE  Within(admitted'[b], phase, LimitIn(doc, b))
  <2>1. Within(count'[b], phase, LimitIn(doc, b))
    BY <1>2, <1>6 DEF IsAllowed
  <2>2. admitted'[b] \in Hits /\ count'[b] \in Hits /\ phase \in Phases
    BY <1>2, <1>4 DEF CountersType
  <2>3. /\ Estimate(admitted'[b], phase) \in Nat /\ Estimate(count'[b], phase) \in Nat
        /\ Estimate(admitted'[b], phase) <= Estimate(count'[b], phase)
    BY <1>5, <2>2, EstimateGrows
  <2> QED
    BY <1>1, <2>1, <2>3, StaysWithin
<1>7. SlidingHolds'
  BY <1>1, <1>2, <1>6, Halves DEF SlidingHolds, LimitIn, doc
<1>8. PreviousHolds'
  <2> SUFFICES ASSUME NEW b \in Buckets, admitted'[b] # NoHits
               PROVE  \E u \in DOMAIN policies' : admitted'[b].prev <= LimitIn(policies'[u], b)
    BY DEF PreviousHolds, LimitIn
  <2>1. admitted[b] \in Hits /\ admitted'[b].prev = admitted[b].prev
    BY <1>2, <1>3 DEF GateType
  <2>2. CASE admitted[b] # NoHits
    BY <2>1, <2>2, Halves DEF PreviousHolds
  <2>3. CASE admitted[b] = NoHits
    <3>1. admitted'[b].prev = 0
      BY <2>1, <2>3 DEF NoHits
    <3>2. LimitIn(policies[v], b) \in Nat
      BY <1>1, LimitType DEF doc
    <3> QED
      BY <1>1, <3>1, <3>2
  <2> QED
    BY <2>2, <2>3
<1>9. BucketsOK'
  BY <1>5 DEF BucketsOK
<1> QED
  BY <1>4, <1>7, <1>8, <1>9, HalvesNext DEF CountersOK

(* Where nobody hits, the documents in force only increase.                *)
LEMMA QuietCounters ==
  ASSUME GateType, BucketsOK, RateHolds, UNCHANGED Counters,
         \A v \in DOMAIN policies : v \in DOMAIN policies' /\ policies'[v] = policies[v]
  PROVE  CountersOK'
<1>1. CountersType' /\ BucketsOK'
  BY DEF Counters, GateType, CountersType, BucketsOK
<1>2. RateHolds'
  BY DEF Counters, RateHolds, LimitIn
<1> QED
  BY <1>1, <1>2 DEF CountersOK

(* The clock.                                                              *)
LEMMA TickCounters ==
  ASSUME GateType, BucketsOK, RateHolds, Tick
  PROVE  CountersOK'
<1>0. phase \in Phases /\ Window \in Nat \ {0} /\ phase \in Nat /\ policies' = policies
  BY WindowAssumption DEF GateType, Phases, Tick, records
<1>1. CASE phase + 1 = Window
  <2>1. /\ phase' = 0
        /\ count' = [b \in Buckets |-> NextWindow(count[b])]
        /\ admitted' = [b \in Buckets |-> NextWindow(admitted[b])]
    <3>1. (phase + 1) % Window = 0
      BY <1>0, <1>1
    <3> QED
      BY <1>1, <3>1 DEF Tick
  <2>2. ASSUME NEW b \in Buckets
        PROVE  /\ count'[b] \in Hits /\ admitted'[b] \in Hits
               /\ AtMost(admitted'[b], count'[b])
               /\ Estimate(admitted'[b], 0) \in Nat /\ Estimate(admitted[b], phase) \in Nat
               /\ Estimate(admitted'[b], 0) <= Estimate(admitted[b], phase)
    <3>1. count[b] \in Hits /\ admitted[b] \in Hits /\ AtMost(admitted[b], count[b])
      BY DEF GateType, BucketsOK
    <3>2. AtMost(NextWindow(admitted[b]), NextWindow(count[b]))
      BY <3>1 DEF NextWindow, AtMost, Hits
    <3> QED
      BY <1>0, <2>1, <3>1, <3>2, EstimateTurns
  <2>3. ASSUME NEW b \in Buckets, NEW v \in DOMAIN policies,
               Within(admitted[b], phase, LimitIn(policies[v], b))
        PROVE  Within(admitted'[b], 0, LimitIn(policies[v], b))
    <3>1. policies[v] \in Docs
      BY DEF GateType, ValidDocs
    <3> QED
      BY <2>2, <2>3, <3>1, StaysWithin
  <2>4. NextWindow(NoHits) = NoHits
    BY DEF NextWindow, NoHits
  <2>5. SlidingHolds'
    BY <1>0, <2>1, <2>3, <2>4, Halves DEF SlidingHolds, LimitIn
  <2>6. PreviousHolds'
    <3> SUFFICES ASSUME NEW b \in Buckets, admitted'[b] # NoHits
                 PROVE  \E u \in DOMAIN policies' : admitted'[b].prev <= LimitIn(policies'[u], b)
      BY DEF PreviousHolds, LimitIn
    <3>1. admitted[b] # NoHits /\ admitted[b] \in Hits /\ admitted'[b].prev = admitted[b].cur
      BY <2>1, <2>4 DEF GateType, NextWindow
    <3>2. PICK v \in DOMAIN policies : Within(admitted[b], phase, LimitIn(policies[v], b))
      BY <3>1, Halves DEF SlidingHolds
    <3>3. LimitIn(policies[v], b) \in Nat
      BY LimitType DEF GateType, ValidDocs
    <3>4. admitted[b].cur <= LimitIn(policies[v], b)
      BY <1>0, <3>1, <3>2, <3>3, CurrentFits
    <3> QED
      BY <1>0, <3>1, <3>4
  <2>7. CountersType' /\ BucketsOK'
    <3>1. 0 \in Phases
      BY <1>0 DEF Phases
    <3> QED
      BY <2>1, <2>2, <3>1 DEF CountersType, BucketsOK
  <2> QED
    BY <2>5, <2>6, <2>7, HalvesNext DEF CountersOK
<1>2. CASE phase + 1 # Window
  <2>1. phase + 1 < Window /\ phase' = phase + 1 /\ count' = count /\ admitted' = admitted
    <3>1. phase + 1 < Window
      BY <1>0, <1>2 DEF Phases
    <3>2. (phase + 1) % Window = phase + 1
      BY <1>0, <3>1
    <3> QED
      BY <1>2, <3>1, <3>2 DEF Tick
  <2>2. ASSUME NEW b \in Buckets, NEW v \in DOMAIN policies,
               Within(admitted[b], phase, LimitIn(policies[v], b))
        PROVE  Within(admitted[b], phase + 1, LimitIn(policies[v], b))
    <3>1. policies[v] \in Docs /\ admitted[b] \in Hits
      BY DEF GateType, ValidDocs
    <3>2. /\ Estimate(admitted[b], phase + 1) \in Nat /\ Estimate(admitted[b], phase) \in Nat
          /\ Estimate(admitted[b], phase + 1) <= Estimate(admitted[b], phase)
      BY <1>0, <2>1, <3>1, EstimateFalls
    <3> QED
      BY <2>2, <3>1, <3>2, StaysWithin
  <2>3. RateHolds'
    BY <1>0, <2>1, <2>2 DEF RateHolds, LimitIn
  <2>4. CountersType' /\ BucketsOK'
    <3>1. phase + 1 \in Phases
      BY <1>0, <2>1 DEF Phases
    <3> QED
      BY <2>1, <3>1 DEF CountersType, BucketsOK, GateType
  <2> QED
    BY <2>3, <2>4 DEF CountersOK
<1> QED
  BY <1>1, <1>2

(* A process that starts has counted nothing.                              *)
LEMMA RestartCounters ==
  ASSUME GateType, Restart
  PROVE  CountersOK'
<1>1. NoHits \in Hits /\ AtMost(NoHits, NoHits)
  BY DEF NoHits, Hits, AtMost
<1> QED
  BY <1>1 DEF GateType, Restart, CountersOK, CountersType, BucketsOK, RateHolds
-----------------------------------------------------------------------------
(* The judgement.                                                          *)

(* Of the rules that are broken one comes first.                           *)
LEMMA FirstRule ==
  ASSUME NEW S \in SUBSET (1..11), S # {}
  PROVE  \E n \in S : \A m \in S : n <= m
<1>1. CASE 1 \in S \/ 2 \in S \/ 3 \in S \/ 4 \in S
  BY <1>1
<1>2. CASE 1 \notin S /\ 2 \notin S /\ 3 \notin S /\ 4 \notin S
  <2>1. CASE 5 \in S \/ 6 \in S \/ 7 \in S \/ 8 \in S
    BY <1>2, <2>1
  <2>2. CASE 5 \notin S /\ 6 \notin S /\ 7 \notin S /\ 8 \notin S
    <3>1. S \subseteq {9, 10, 11}
      BY <1>2, <2>2
    <3>2. CASE 9 \in S
      BY <3>1, <3>2
    <3>3. CASE 9 \notin S /\ 10 \in S
      BY <3>1, <3>3
    <3>4. CASE 9 \notin S /\ 10 \notin S
      <4>1. S = {11}
        BY <3>1, <3>4
      <4> QED
        BY <4>1
    <3> QED
      BY <3>2, <3>3, <3>4
  <2> QED
    BY <2>1, <2>2
<1> QED
  BY <1>1, <1>2

(* The verdict is Allowed if no rule is broken, else one of the rules.     *)
LEMMA Verdict ==
  ASSUME NEW doc, NEW sum, NEW claim
  PROVE  /\ EvaluatePolicy(doc, sum, claim) \in Verdicts
         /\ EvaluatePolicy(doc, sum, claim) = Allowed =>
              \A n \in 1..11 : ~Breaks(Rules[n], doc, sum, claim)
<1> DEFINE broken == {n \in DOMAIN Rules : Breaks(Rules[n], doc, sum, claim)}
<1>1. DOMAIN Rules = 1..11
  BY DEF Rules
<1>2. \A n \in 1..11 : Rules[n] \in Verdicts /\ Rules[n] # Allowed
  BY DEF Rules, Verdicts, Allowed
<1>3. Allowed \in Verdicts
  BY DEF Verdicts
<1>4. broken \in SUBSET (1..11)
  BY <1>1
<1>5. CASE broken = {}
  <2>1. EvaluatePolicy(doc, sum, claim) = Allowed
    BY <1>5 DEF EvaluatePolicy
  <2> QED
    BY <1>1, <1>3, <1>5, <2>1
<1>6. CASE broken # {}
  <2> DEFINE first == CHOOSE n \in broken : \A m \in broken : n <= m
  <2>1. EvaluatePolicy(doc, sum, claim) = Rules[first]
    BY <1>6 DEF EvaluatePolicy
  <2>2. first \in broken
    <3> HIDE DEF broken
    <3> QED
      BY <1>4, <1>6, FirstRule
  <2> HIDE DEF first, broken
  <2> QED
    BY <1>2, <1>4, <2>1, <2>2
<1> QED
  BY <1>5, <1>6

(* A single call under a policy of single calls is on its list and is the  *)
(* call that was claimed.                                                  *)
LEMMA AllowedIsTheCall ==
  ASSUME NEW doc, NEW sum, NEW claim, sum.calls \in Seq(CallsMade),
         EvaluatePolicy(doc, sum, claim) = Allowed, ~doc.multiple
  PROVE  /\ Allows(doc, sum.calls[1])
         /\ claim.contract \subseteq {sum.calls[1].address}
         /\ claim.entryPoint \subseteq {sum.calls[1].entryPoint}
<1>1. \A n \in 1..11 : ~Breaks(Rules[n], doc, sum, claim)
  BY Verdict
<1>2. Rules[3] = "R2" /\ Rules[5] = "R2b" /\ Rules[6] = "R2c" /\ Rules[7] = "R3" /\ Rules[8] = "R5" /\ Rules[9] = "R5e"
  BY DEF Rules
<1>3. /\ ~Breaks("R2", doc, sum, claim) /\ ~Breaks("R2b", doc, sum, claim) /\ ~Breaks("R2c", doc, sum, claim)
      /\ ~Breaks("R3", doc, sum, claim) /\ ~Breaks("R5", doc, sum, claim) /\ ~Breaks("R5e", doc, sum, claim)
  BY <1>1, <1>2
<1>5. sum.calls # <<>> /\ ~(Len(sum.calls) > 1)
  BY <1>3 DEF Breaks
<1>6. DOMAIN sum.calls = {1}
  <2>1. Len(sum.calls) \in Nat /\ DOMAIN sum.calls = 1..Len(sum.calls)
    OBVIOUS
  <2>2. Len(sum.calls) # 0
    BY <1>5
  <2> QED
    BY <1>5, <2>1, <2>2
<1>7. Refused(doc, sum) = {}
  BY <1>3 DEF Breaks
<1>8. Allows(doc, sum.calls[1])
  BY <1>6, <1>7 DEF Refused
<1>9. Addresses(sum) = {sum.calls[1].address} /\ EntryPoints(sum) = {sum.calls[1].entryPoint}
  BY <1>6 DEF Addresses, EntryPoints
<1>10. claim.contract \subseteq Addresses(sum) /\ claim.entryPoint \subseteq EntryPoints(sum)
  BY <1>3 DEF Breaks
<1> QED
  BY <1>8, <1>9, <1>10
-----------------------------------------------------------------------------
(* The calls.                                                              *)

(* An idle client without a row is fine whatever the records say.          *)
LEMMA NoCallOK ==
  ASSUME NEW keys, NEW status, NEW n, NEW docs
  PROVE  NoCall \in CallRecords /\ CallOK(NoCall, keys, status, n, docs)
  BY DEF NoCall, CallRecords, CallOK

(* A step of one client leaves the others as they are.                     *)
LEMMA ClientCalls ==
  ASSUME GateType, CallsOK, UNCHANGED records, NEW c \in Calls, NEW b \in CallRecords,
         CallOK(b, key, app, Latest, policies), call' = [call EXCEPT ![c] = b]
  PROVE  CallsOK' /\ call' \in [Calls -> CallRecords]
<1>1. key' = key /\ app' = app /\ policies' = policies /\ Latest' = Latest
  BY SameLatest DEF records
<1>2. call' \in [Calls -> CallRecords]
  BY DEF GateType
<1>3. \A d \in Calls : CallOK(call'[d], key, app, Latest, policies)
  BY DEF GateType, CallsOK
<1> QED
  BY <1>1, <1>2, <1>3 DEF CallsOK

(* A call that ends is forgotten.                                          *)
LEMMA EndCalls ==
  ASSUME GateType, CallsOK, UNCHANGED records, NEW c \in Calls, End(c)
  PROVE  CallsOK' /\ call' \in [Calls -> CallRecords]
  BY NoCallOK, ClientCalls DEF End

(* A row is answered as it was judged.                                     *)
LEMMA AnswerCalls ==
  ASSUME GateType, CallsOK, UNCHANGED records, NEW c \in Calls, NEW row \in RowRecords,
         RowOK(PolicyOf(c), row), call[c].version \in 1..Latest,
         row.status = "RECEIVED" => call[c].pc = "body",
         Answer(c, row)
  PROVE  CallsOK' /\ call' \in [Calls -> CallRecords]
<1>1. call[c] \in CallRecords /\ CallOK(call[c], key, app, Latest, policies)
  BY DEF GateType, CallsOK
<1>2. CASE row.status = "RECEIVED"
  <2> DEFINE b == [call[c] EXCEPT !.pc = "estimate", !.row = {row}]
  <2>1. /\ b \in CallRecords /\ b.pc = "estimate" /\ b.row = {row}
        /\ b.id = call[c].id /\ b.floor = call[c].floor /\ b.live = call[c].live
        /\ b.version = call[c].version
    BY <1>1 DEF CallRecords
  <2>2. call' = [call EXCEPT ![c] = b]
    BY <1>2 DEF Answer
  <2>3. call[c].pc = "body"
    BY <1>2
  <2> HIDE DEF b
  <2>4. CallOK(b, key, app, Latest, policies)
    BY <1>1, <1>2, <2>1, <2>3 DEF CallOK, PolicyOf
  <2> QED
    BY <2>1, <2>2, <2>4, ClientCalls
<1>3. CASE row.status # "RECEIVED"
  <2> DEFINE b == [NoCall EXCEPT !.version = call[c].version, !.row = {row}]
  <2>1. b \in CallRecords /\ b.pc = "idle" /\ b.row = {row} /\ b.version = call[c].version
    BY <1>1, NoCallOK DEF CallRecords, NoCall
  <2>2. call' = [call EXCEPT ![c] = b]
    BY <1>3 DEF Answer
  <2> HIDE DEF b
  <2>3. CallOK(b, key, app, Latest, policies)
    BY <2>1 DEF CallOK, PolicyOf
  <2> QED
    BY <2>1, <2>2, <2>3, ClientCalls
<1> QED
  BY <1>2, <1>3

(* The judgement of a new row.                                             *)
LEMMA BodyCalls ==
  ASSUME GateType, CallsOK, NEW c \in Calls, NEW u \in Users, NEW t \in Traffic, Body(c, u, t)
  PROVE  CallsOK' /\ call' \in [Calls -> CallRecords]
<1> DEFINE doc == PolicyOf(c)  rule == EvaluatePolicy(doc, t.summary, t.claim)
<1>1. UNCHANGED records /\ call[c].pc = "body" /\ call[c].version \in 1..Latest
  BY DEF Body, CallsOK, CallOK
<1>2. CASE End(c)
  BY <1>1, <1>2, EndCalls
<1>3. CASE rule = Allowed /\ Answer(c, Row(t, "RECEIVED", "none"))
  <2> DEFINE row == Row(t, "RECEIVED", "none")
  <2>1. /\ row \in RowRecords /\ row.status = "RECEIVED" /\ row.estimated = {} /\ row.actual = {}
        /\ row.summary = t.summary /\ row.claim = t.claim
    BY DEF Row, RowRecords, RowStatus
  <2> HIDE DEF row
  <2>2. RowOK(doc, row)
    BY <1>3, <2>1 DEF RowOK, Judged
  <2>3. Answer(c, row)
    BY <1>3 DEF row
  <2> QED
    BY <1>1, <2>1, <2>2, <2>3, AnswerCalls
<1>4. CASE rule # Allowed /\ Answer(c, Row(t, "REJECTED", rule))
  <2> DEFINE row == Row(t, "REJECTED", rule)
  <2>0. rule \in Verdicts
    BY Verdict
  <2>1. /\ row \in RowRecords /\ row.status = "REJECTED" /\ row.estimated = {} /\ row.actual = {}
        /\ row.summary = t.summary /\ row.claim = t.claim /\ row.rule = rule
    <3> HIDE DEF rule
    <3> QED
      BY <2>0 DEF Row, RowRecords, RowStatus
  <2>2. Answer(c, row)
    BY <1>4 DEF row
  <2> HIDE DEF row
  <2>3. RowOK(doc, row)
    BY <1>4, <2>1 DEF RowOK, Judged
  <2> QED
    BY <1>1, <2>1, <2>2, <2>3, AnswerCalls
<1> QED
  BY <1>2, <1>3, <1>4 DEF Body

(* The row a client left is as it was judged.                              *)
LEMMA RowOfCall ==
  ASSUME GateType, CallsOK, NEW c \in Calls, NEW row \in call[c].row
  PROVE  /\ row \in RowRecords /\ RowOK(PolicyOf(c), row) /\ call[c].version \in 1..Latest
         /\ call[c].pc = "estimate" => row.status = "RECEIVED"
  BY DEF GateType, CallRecords, CallsOK, CallOK, PolicyOf

(* The estimate, the reservation, and what the worker makes of it.         *)
LEMMA EstimateCalls ==
  ASSUME GateType, CallsOK, NEW c \in Calls,
         NoEstimate(c) \/ \E fee \in Fees : Estimated(c, fee) \/ Confirm(c, fee)
  PROVE  CallsOK' /\ call' \in [Calls -> CallRecords]
<1> DEFINE doc == PolicyOf(c)
<1>0. UNCHANGED records
  BY DEF Estimated, NoEstimate, Confirm
<1>1. ASSUME NEW row \in call[c].row, NEW rule \in {FeeRule, "budget", "sponsor"},
             call[c].pc = "estimate",
             Answer(c, [row EXCEPT !.status = "REJECTED", !.rule = rule])
      PROVE  CallsOK' /\ call' \in [Calls -> CallRecords]
  <2> DEFINE new == [row EXCEPT !.status = "REJECTED", !.rule = rule]
  <2>1. /\ row \in RowRecords /\ RowOK(doc, row) /\ row.status = "RECEIVED"
        /\ call[c].version \in 1..Latest
    BY <1>1, RowOfCall
  <2>2. /\ new \in RowRecords /\ new.status = "REJECTED" /\ new.rule = rule
        /\ new.estimated = row.estimated /\ new.actual = row.actual
        /\ new.summary = row.summary /\ new.claim = row.claim
    BY <2>1 DEF RowRecords, RowStatus
  <2>3. Answer(c, new)
    BY <1>1
  <2> HIDE DEF new
  <2>4. RowOK(doc, new)
    BY <2>1, <2>2 DEF RowOK, Judged
  <2> QED
    BY <1>0, <2>1, <2>2, <2>3, <2>4, AnswerCalls
<1>2. ASSUME NEW fee \in Fees, NEW row \in call[c].row, call[c].pc = "estimate",
             CheckFeeLimit(doc, fee) = Allowed,
             Answer(c, [row EXCEPT !.status = "RESERVED", !.estimated = {fee}])
      PROVE  CallsOK' /\ call' \in [Calls -> CallRecords]
  <2> DEFINE new == [row EXCEPT !.status = "RESERVED", !.estimated = {fee}]
  <2>1. /\ row \in RowRecords /\ RowOK(doc, row) /\ row.status = "RECEIVED"
        /\ call[c].version \in 1..Latest
    BY <1>2, RowOfCall
  <2>2. /\ new \in RowRecords /\ new.status = "RESERVED"
        /\ new.estimated = {fee} /\ new.actual = row.actual
        /\ new.summary = row.summary /\ new.claim = row.claim
    BY <2>1 DEF RowRecords, RowStatus
  <2>3. Answer(c, new)
    BY <1>2
  <2> HIDE DEF new
  <2>4. RowOK(doc, new)
    BY <1>2, <2>1, <2>2 DEF RowOK, Judged
  <2> QED
    BY <1>0, <2>1, <2>2, <2>3, <2>4, AnswerCalls
<1>3. ASSUME NEW fee \in Fees, NEW row \in call[c].row, row.status = "RESERVED",
             Answer(c, [row EXCEPT !.status = "CONFIRMED", !.actual = {fee}])
      PROVE  CallsOK' /\ call' \in [Calls -> CallRecords]
  <2> DEFINE new == [row EXCEPT !.status = "CONFIRMED", !.actual = {fee}]
  <2>1. row \in RowRecords /\ RowOK(doc, row) /\ call[c].version \in 1..Latest
    BY <1>3, RowOfCall
  <2>2. /\ new \in RowRecords /\ new.status = "CONFIRMED" /\ new.actual = {fee}
        /\ new.summary = row.summary /\ new.claim = row.claim /\ new.estimated = row.estimated
    BY <2>1 DEF RowRecords, RowStatus
  <2>3. Answer(c, new)
    BY <1>3
  <2> HIDE DEF new
  <2>4. RowOK(doc, new)
    BY <1>3, <2>1, <2>2 DEF RowOK, Judged
  <2> QED
    BY <1>0, <2>1, <2>2, <2>3, <2>4, AnswerCalls
<1>4. ASSUME NEW fee \in Fees, Estimated(c, fee)
      PROVE  CallsOK' /\ call' \in [Calls -> CallRecords]
  BY <1>1, <1>2, <1>4 DEF Estimated
<1>5. CASE NoEstimate(c)
  BY <1>1, <1>5 DEF NoEstimate
<1>6. ASSUME NEW fee \in Fees, Confirm(c, fee)
      PROVE  CallsOK' /\ call' \in [Calls -> CallRecords]
  BY <1>3, <1>6 DEF Confirm
<1> QED
  BY <1>4, <1>5, <1>6

(* A client calls.                                                         *)
LEMMA ArriveCalls ==
  ASSUME GateType, CallsOK, NEW c \in Calls, NEW k \in Keys, NEW ip \in Ips,
         NEW method \in {"POST", "GET"}, Arrive(c, k, ip, method)
  PROVE  CallsOK' /\ call' \in [Calls -> CallRecords]
<1>0. UNCHANGED records
  BY DEF Arrive
<1>1. PICK id \in Ids : id = <<method, k, ip>> /\ id[2] = k
  <2>1. <<method, k, ip>> \in Ids
    BY DEF Ids
  <2> QED
    BY <2>1
<1>2. IsLive(k) \in BOOLEAN /\ (IsLive(k) <=> key[k] = "active" /\ app = "active")
  BY DEF IsLive
<1>3. PICK live \in BOOLEAN : live = IsLive(k)
  BY <1>2
<1> DEFINE b == [NoCall EXCEPT !.pc = "auth", !.id = id, !.floor = Latest, !.live = live]
<1>4. call' = [call EXCEPT ![c] = b]
  BY <1>1, <1>3 DEF Arrive
<1>5. /\ b \in CallRecords /\ Latest \in Nat
      /\ b.pc = "auth" /\ b.id = id /\ b.floor = Latest /\ b.live = live /\ b.row = {}
  <2>1. Latest \in Nat
    BY BoundAssumption DEF GateType, Versions
  <2>2. b \in CallRecords
    BY <2>1 DEF NoCall, CallRecords
  <2>3. b.pc = "auth" /\ b.id = id /\ b.floor = Latest /\ b.row = {}
    BY <2>1 DEF NoCall
  <2>4. b.live = live
    BY DEF NoCall
  <2> QED
    BY <2>1, <2>2, <2>3, <2>4
<1> HIDE DEF b
<1>6. key[k] = "active" /\ app = "active" => live
  BY <1>2, <1>3
<1>7. CallOK(b, key, app, Latest, policies)
  BY <1>1, <1>5, <1>6 DEF CallOK
<1> QED
  BY <1>0, <1>4, <1>5, <1>7, ClientCalls

(* It is authenticated by a key that is live then.                         *)
LEMMA FindKeyCalls ==
  ASSUME GateType, CallsOK, NEW c \in Calls, FindKey(c)
  PROVE  CallsOK' /\ call' \in [Calls -> CallRecords]
<1>0. UNCHANGED records /\ call[c] \in CallRecords /\ CallOK(call[c], key, app, Latest, policies)
  BY DEF FindKey, GateType, CallsOK
<1>1. CASE End(c)
  BY <1>0, <1>1, EndCalls
<1>2. CASE IsLive(call[c].id[2]) /\ call' = [call EXCEPT ![c].pc = "policy"]
  <2> DEFINE b == [call[c] EXCEPT !.pc = "policy"]
  <2>1. /\ b \in CallRecords /\ b.pc = "policy" /\ b.id = call[c].id /\ b.floor = call[c].floor
        /\ b.live = call[c].live /\ b.row = call[c].row /\ b.version = call[c].version
    BY <1>0 DEF CallRecords
  <2>2. call' = [call EXCEPT ![c] = b]
    BY <1>2
  <2>3. call[c].pc = "auth" /\ call[c].live
    BY <1>0, <1>2 DEF FindKey, CallOK, IsLive
  <2> HIDE DEF b
  <2>4. CallOK(b, key, app, Latest, policies)
    BY <1>0, <2>1, <2>3 DEF CallOK
  <2> QED
    BY <1>0, <2>1, <2>2, <2>4, ClientCalls
<1> QED
  BY <1>1, <1>2 DEF FindKey

(* The policy in force is read.                                            *)
LEMMA PolicyCalls ==
  ASSUME GateType, CallsOK, NEW c \in Calls, ReadPolicy(c)
  PROVE  CallsOK' /\ call' \in [Calls -> CallRecords]
<1>0. /\ UNCHANGED records /\ call[c].pc = "policy"
      /\ call[c] \in CallRecords /\ CallOK(call[c], key, app, Latest, policies)
  BY DEF ReadPolicy, GateType, CallsOK
<1>1. CASE End(c)
  BY <1>0, <1>1, EndCalls
<1>2. CASE policies # <<>> /\ call' = [call EXCEPT ![c].pc = Handler(c), ![c].version = Latest]
  <2> DEFINE b == [call[c] EXCEPT !.pc = Handler(c), !.version = Latest]
  <2>1. Latest \in Nat /\ Latest \in 1..Latest
    BY <1>2, NoPolicies, BoundAssumption DEF GateType, Versions
  <2>2. Handler(c) \in {"body", "read"}
    BY DEF Handler
  <2>3. /\ b \in CallRecords /\ b.pc = Handler(c) /\ b.id = call[c].id /\ b.floor = call[c].floor
        /\ b.live = call[c].live /\ b.row = call[c].row /\ b.version = Latest
    BY <1>0, <2>1, <2>2 DEF CallRecords
  <2>4. call' = [call EXCEPT ![c] = b]
    BY <1>2
  <2>5. call[c].row = {}
    BY <1>0 DEF CallOK
  <2> HIDE DEF b
  <2>6. CallOK(b, key, app, Latest, policies)
    BY <1>0, <2>1, <2>2, <2>3, <2>5 DEF CallOK
  <2> QED
    BY <1>0, <2>3, <2>4, <2>6, ClientCalls
<1> QED
  BY <1>1, <1>2 DEF ReadPolicy

(* Every step of a client keeps calls and rows honest.                     *)
LEMMA ClientStep ==
  ASSUME GateType, CallsOK, NEW c \in Calls, Client(c)
  PROVE  CallsOK' /\ call' \in [Calls -> CallRecords]
<1>1. ASSUME NEW k \in Keys, NEW ip \in Ips, NEW method \in {"POST", "GET"}, Arrive(c, k, ip, method)
      PROVE  CallsOK' /\ call' \in [Calls -> CallRecords]
  BY <1>1, ArriveCalls
<1>2. CASE FindKey(c)
  BY <1>2, FindKeyCalls
<1>3. CASE ReadPolicy(c)
  BY <1>3, PolicyCalls
<1>4. CASE Malformed(c) \/ WrongSecret(c) \/ ReadStatus(c) \/ InvalidBody(c)
  BY <1>4, EndCalls DEF Malformed, WrongSecret, ReadStatus, InvalidBody
<1>5. ASSUME NEW u \in Users, Undecodable(c, u) \/ Garbage(c, u)
      PROVE  CallsOK' /\ call' \in [Calls -> CallRecords]
  BY <1>5, EndCalls DEF Undecodable, Garbage, Thrown
<1>6. ASSUME NEW u \in Users, NEW t \in Traffic, Body(c, u, t)
      PROVE  CallsOK' /\ call' \in [Calls -> CallRecords]
  BY <1>6, BodyCalls
<1>7. ASSUME NEW fee \in Fees, Estimated(c, fee) \/ Confirm(c, fee)
      PROVE  CallsOK' /\ call' \in [Calls -> CallRecords]
  BY <1>7, EstimateCalls
<1>8. CASE NoEstimate(c)
  BY <1>8, EstimateCalls
<1> QED
  BY <1>1, <1>2, <1>3, <1>4, <1>5, <1>6, <1>7, <1>8 DEF Client
-----------------------------------------------------------------------------
(* The operator.                                                           *)

(* A call that is live now is remembered as such.                          *)
LEMMA WitnessedCalls ==
  ASSUME GateType, CallsOK, NEW keys, NEW status, call' = Witnessed(keys, status)
  PROVE  /\ call' \in [Calls -> CallRecords]
         /\ \A c \in Calls : CallOK(call'[c], keys, status, Latest, policies)
<1> SUFFICES ASSUME NEW c \in Calls
             PROVE  call'[c] \in CallRecords /\ CallOK(call'[c], keys, status, Latest, policies)
  BY DEF Witnessed
<1> DEFINE live == call[c].live \/ (call[c].pc # "idle" /\ keys[call[c].id[2]] = "active" /\ status = "active")
           b == [call[c] EXCEPT !.live = live]
<1>1. call[c] \in CallRecords /\ CallOK(call[c], key, app, Latest, policies)
  BY DEF GateType, CallsOK
<1>2. call'[c] = b
  BY DEF Witnessed
<1>3. live \in BOOLEAN
  OBVIOUS
<1>4. /\ b.pc = call[c].pc /\ b.id = call[c].id /\ b.floor = call[c].floor
      /\ b.row = call[c].row /\ b.version = call[c].version
  BY <1>1 DEF CallRecords
<1>5. b \in CallRecords /\ (b.live <=> live)
  <2> HIDE DEF live
  <2> QED
    BY <1>1, <1>3 DEF CallRecords
<1> HIDE DEF b
<1>6. CallOK(b, keys, status, Latest, policies)
  BY <1>1, <1>4, <1>5 DEF CallOK
<1> QED
  BY <1>2, <1>5, <1>6

(* The application and its keys.                                           *)
LEMMA KeysStep ==
  ASSUME GateType, CallsOK,
         \/ CreateApplication
         \/ \E status \in {"active", "suspended"} : SetStatus(status)
         \/ \E k \in Keys : CreateApiKey(k) \/ RevokeApiKey(k)
  PROVE  /\ CallsOK' /\ call' \in [Calls -> CallRecords]
         /\ app' \in {"none", "active", "suspended"} /\ key' \in [Keys -> KeyStatus]
         /\ app' = "none" => \A k \in Keys : key'[k] = "none"
         /\ UNCHANGED <<limits, policies, put>>
<1>1. CASE CreateApplication
  <2>1. app = "none" /\ app' = "active" /\ UNCHANGED <<limits, key, policies, put, call>>
    BY <1>1 DEF CreateApplication
  <2>2. Latest' = Latest
    BY <2>1, SameLatest
  <2>3. ASSUME NEW c \in Calls PROVE CallOK(call[c], key, "active", Latest, policies)
    <3>1. CallOK(call[c], key, app, Latest, policies) /\ \A k \in Keys : key[k] # "active"
      BY <2>1 DEF CallsOK, GateType
    <3>2. call[c].id \in Ids => call[c].id[2] \in Keys
      BY DEF Ids
    <3> QED
      BY <3>1, <3>2 DEF CallOK
  <2>4. CallsOK'
    BY <2>1, <2>2, <2>3 DEF CallsOK
  <2> QED
    BY <2>1, <2>4 DEF GateType
<1>2. ASSUME NEW status \in {"active", "suspended"}, SetStatus(status)
      PROVE  /\ CallsOK' /\ call' \in [Calls -> CallRecords]
             /\ app' = status /\ key' = key /\ UNCHANGED <<limits, policies, put>>
  <2>1. app' = status /\ key' = key /\ UNCHANGED <<limits, policies, put>>
        /\ call' = Witnessed(key, status)
    BY <1>2 DEF SetStatus
  <2>2. Latest' = Latest
    BY <2>1, SameLatest
  <2>3. /\ call' \in [Calls -> CallRecords]
        /\ \A c \in Calls : CallOK(call'[c], key, status, Latest, policies)
    BY <2>1, WitnessedCalls
  <2> QED
    BY <2>1, <2>2, <2>3 DEF CallsOK
<1>3. ASSUME NEW k \in Keys, NEW from, NEW to \in KeyStatus, SetKey(k, from, to)
      PROVE  /\ CallsOK' /\ call' \in [Calls -> CallRecords]
             /\ app' = app /\ app # "none" /\ key' \in [Keys -> KeyStatus]
             /\ UNCHANGED <<limits, policies, put>>
  <2>1. app # "none" /\ key' = [key EXCEPT ![k] = to] /\ UNCHANGED <<limits, app, policies, put>>
        /\ call' = Witnessed(key', app)
    BY <1>3 DEF SetKey
  <2>2. Latest' = Latest
    BY <2>1, SameLatest
  <2> DEFINE keys == [key EXCEPT ![k] = to]
  <2>3. call' = Witnessed(keys, app) /\ key' = keys
    BY <2>1
  <2> HIDE DEF keys
  <2>4. /\ call' \in [Calls -> CallRecords]
        /\ \A c \in Calls : CallOK(call'[c], keys, app, Latest, policies)
    BY <2>3, WitnessedCalls
  <2>5. CallsOK'
    BY <2>1, <2>2, <2>3, <2>4 DEF CallsOK
  <2> QED
    BY <2>1, <2>4, <2>5 DEF GateType
<1>4. ASSUME NEW k \in Keys, CreateApiKey(k) \/ RevokeApiKey(k)
      PROVE  \E from, to \in KeyStatus : SetKey(k, from, to)
  BY <1>4 DEF CreateApiKey, RevokeApiKey, KeyStatus
<1>5. CASE \E status \in {"active", "suspended"} : SetStatus(status)
  BY <1>2, <1>5 DEF GateType
<1>6. CASE \E k \in Keys : CreateApiKey(k) \/ RevokeApiKey(k)
  BY <1>3, <1>4, <1>6 DEF GateType
<1> QED
  BY <1>1, <1>5, <1>6

(* A version more leaves judgements as they were.                          *)
LEMMA CallsKeep ==
  ASSUME GateType, CallsOK, UNCHANGED <<call, key, app>>,
         Latest' \in Nat, Latest <= Latest', \A v \in 1..Latest : policies'[v] = policies[v]
  PROVE  CallsOK'
<1>1. Latest \in Nat
  BY BoundAssumption DEF GateType, Versions
<1> SUFFICES ASSUME NEW c \in Calls
             PROVE  CallOK(call[c], key, app, Latest', policies')
  BY DEF CallsOK
<1>2. CallOK(call[c], key, app, Latest, policies) /\ call[c] \in CallRecords
  BY DEF CallsOK, GateType
<1>3. call[c].floor \in Nat /\ call[c].version \in Nat
  BY <1>2 DEF CallRecords
<1>4. call[c].version \in 1..Latest => call[c].version \in 1..Latest'
  BY <1>1
<1>5. ASSUME NEW row \in call[c].row PROVE RowOK(policies'[call[c].version], row)
  BY <1>2 DEF CallOK
<1> QED
  BY <1>1, <1>2, <1>3, <1>4, <1>5 DEF CallOK

PutStep ==
  \E a \in Admins :
    \/ PutPolicy(a) \/ TryAgain(a) \/ GiveUp(a) \/ ReadFailure(a)
    \/ \E doc \in Docs : InsertVersion(a, doc)

(* What the PUT of one operator leaves behind.                             *)
LEMMA PutOfOne ==
  ASSUME GateType, PutsOK, NEW a \in Admins, NEW p \in Puts, PutOK(p, Latest'),
         put' = [put EXCEPT ![a] = p], Latest' \in Nat, Latest <= Latest'
  PROVE  put' \in [Admins -> Puts] /\ PutsOK'
<1>0. Latest \in Nat
  BY BoundAssumption DEF GateType, Versions
<1>1. put' \in [Admins -> Puts]
  BY DEF GateType
<1>2. ASSUME NEW d \in Admins, d # a PROVE PutOK(put'[d], Latest')
  <2>1. put'[d] = put[d] /\ PutOK(put[d], Latest) /\ put[d] \in Puts
    BY <1>2 DEF GateType, PutsOK
  <2>2. put[d].first \in Nat /\ put[d].version \in Nat
    BY <2>1, BoundAssumption DEF Puts, Versions
  <2> QED
    BY <1>0, <2>1, <2>2 DEF PutOK
<1>3. put'[a] = p
  BY DEF GateType
<1> QED
  BY <1>1, <1>2, <1>3 DEF PutsOK

(* One lost race is tried again with the next version.                     *)
LEMMA PutsStep ==
  ASSUME GateType, PutsOK, PutStep
  PROVE  /\ put' \in [Admins -> Puts] /\ PutsOK'
         /\ Latest' \in Versions /\ Latest <= Latest' /\ policies' \in [1..Latest' -> ValidDocs]
         /\ \A v \in 1..Latest : policies'[v] = policies[v]
         /\ UNCHANGED <<limits, app, key, call>>
<1>0. Latest \in Nat /\ MaxVersion \in Nat /\ Latest <= MaxVersion /\ DOMAIN policies = 1..Latest
  BY BoundAssumption DEF GateType, Versions
<1>1. NoPut \in Puts /\ NoPut.pc = "idle"
  BY <1>0 DEF NoPut, Puts, Versions
<1>2. ASSUME NEW a \in Admins, NEW p \in Puts, PutOK(p, Latest),
             put' = [put EXCEPT ![a] = p], UNCHANGED <<limits, app, key, policies, call>>
      PROVE  /\ put' \in [Admins -> Puts] /\ PutsOK'
             /\ Latest' \in Versions /\ Latest <= Latest' /\ policies' \in [1..Latest' -> ValidDocs]
             /\ \A v \in 1..Latest : policies'[v] = policies[v]
             /\ UNCHANGED <<limits, app, key, call>>
  <2>1. Latest' = Latest
    BY <1>2, SameLatest
  <2>2. put' \in [Admins -> Puts] /\ PutsOK'
    <3>1. PutOK(p, Latest') /\ Latest' \in Nat /\ Latest <= Latest'
      BY <1>0, <1>2, <2>1
    <3>2. put' = [put EXCEPT ![a] = p]
      BY <1>2
    <3> QED
      BY <3>1, <3>2, PutOfOne
  <2> QED
    BY <1>0, <1>2, <2>1, <2>2 DEF GateType
<1>3. ASSUME NEW a \in Admins, PutPolicy(a) PROVE \E p \in Puts : PutOK(p, Latest) /\ put' = [put EXCEPT ![a] = p]
  <2> DEFINE p == [pc |-> "first", version |-> Latest + 1, first |-> Latest]
  <2>1. p \in Puts /\ PutOK(p, Latest)
    BY <1>0, <1>3 DEF PutPolicy, Puts, Versions, PutOK
  <2> QED
    BY <1>3, <2>1 DEF PutPolicy
<1>4. ASSUME NEW a \in Admins, TryAgain(a) PROVE \E p \in Puts : PutOK(p, Latest) /\ put' = [put EXCEPT ![a] = p]
  <2> DEFINE p == [put[a] EXCEPT !.pc = "second", !.version = Latest + 1]
  <2>1. put[a] \in Puts /\ PutOK(put[a], Latest) /\ put[a].pc = "first" /\ put[a].version \in 1..Latest
    BY <1>0, <1>4 DEF TryAgain, Taken, GateType, PutsOK
  <2>2. Latest + 1 \in Versions
    BY <1>0, <1>4 DEF TryAgain, Versions
  <2>3. p \in Puts /\ p.pc = "second" /\ p.version = Latest + 1 /\ p.first = put[a].first /\ p.first \in Nat
    BY <2>1, <2>2 DEF Puts
  <2>4. put' = [put EXCEPT ![a] = p]
    BY <1>4 DEF TryAgain
  <2> HIDE DEF p
  <2>5. PutOK(p, Latest)
    BY <1>0, <2>1, <2>3 DEF PutOK
  <2> QED
    BY <2>3, <2>4, <2>5
<1>5. ASSUME NEW a \in Admins, GiveUp(a) PROVE \E p \in Puts : PutOK(p, Latest) /\ put' = [put EXCEPT ![a] = p]
  <2> DEFINE p == [put[a] EXCEPT !.pc = "failed"]
  <2>1. put[a] \in Puts /\ PutOK(put[a], Latest) /\ put[a].pc = "second" /\ put[a].version \in 1..Latest
    BY <1>0, <1>5 DEF GiveUp, Taken, GateType, PutsOK
  <2>2. p \in Puts /\ p.pc = "failed" /\ p.first = put[a].first /\ p.first \in Nat
    BY <2>1 DEF Puts
  <2>3. put' = [put EXCEPT ![a] = p]
    BY <1>5 DEF GiveUp
  <2> HIDE DEF p
  <2>4. PutOK(p, Latest)
    BY <1>0, <2>1, <2>2 DEF PutOK
  <2> QED
    BY <2>2, <2>3, <2>4
<1>6. ASSUME NEW a \in Admins, ReadFailure(a) PROVE \E p \in Puts : PutOK(p, Latest) /\ put' = [put EXCEPT ![a] = p]
  BY <1>1, <1>6 DEF ReadFailure, PutOK
<1>7. ASSUME NEW a \in Admins, NEW doc \in Docs, InsertVersion(a, doc)
      PROVE  /\ put' \in [Admins -> Puts] /\ PutsOK'
             /\ Latest' \in Versions /\ Latest <= Latest' /\ policies' \in [1..Latest' -> ValidDocs]
             /\ \A v \in 1..Latest : policies'[v] = policies[v]
             /\ UNCHANGED <<limits, app, key, call>>
  <2>1. /\ Latest' = Latest + 1 /\ Latest' \in Versions /\ policies' \in [1..Latest' -> ValidDocs]
        /\ \A v \in 1..Latest : policies'[v] = policies[v]
    BY <1>7, InsertIsNext
  <2>2. PutOK(NoPut, Latest')
    BY <1>1 DEF PutOK
  <2>3. put' = [put EXCEPT ![a] = NoPut] /\ UNCHANGED <<limits, app, key, call>>
    BY <1>7 DEF InsertVersion
  <2>4. put' \in [Admins -> Puts] /\ PutsOK'
    <3>1. Latest' \in Nat /\ Latest <= Latest'
      BY <1>0, <2>1
    <3> HIDE <1>0, <2>1
    <3> QED
      BY <1>1, <2>2, <2>3, <3>1, PutOfOne
  <2> QED
    BY <1>0, <2>1, <2>3, <2>4
<1>8. ASSUME NEW a \in Admins, PutPolicy(a) \/ TryAgain(a) \/ GiveUp(a) \/ ReadFailure(a)
      PROVE  UNCHANGED <<limits, app, key, policies, call>>
  BY <1>8 DEF PutPolicy, TryAgain, GiveUp, ReadFailure
<1> QED
  BY <1>2, <1>3, <1>4, <1>5, <1>6, <1>7, <1>8 DEF PutStep
-----------------------------------------------------------------------------
(* The invariant.                                                          *)

(* Nothing has happened yet.                                               *)
LEMMA InvInit == Init => Inv
<1> SUFFICES ASSUME Init PROVE Inv
  OBVIOUS
<1>1. /\ phase = 0 /\ count = [b \in Buckets |-> NoHits] /\ admitted = [b \in Buckets |-> NoHits]
      /\ app = "none" /\ key = [k \in Keys |-> "none"] /\ policies = <<>>
      /\ put = [a \in Admins |-> NoPut] /\ call = [c \in Calls |-> NoCall]
  BY DEF Init
<1>2. DOMAIN policies = 1..0 /\ policies \in [1..0 -> ValidDocs]
  BY <1>1
<1>3. Latest = 0
  BY <1>2, LatestIs
<1>4. 0 \in Phases /\ 0 \in Versions
  BY WindowAssumption, BoundAssumption DEF Phases, Versions
<1>5. NoHits \in Hits /\ AtMost(NoHits, NoHits) /\ NoPut \in Puts /\ NoPut.pc = "idle"
  BY <1>4 DEF NoHits, Hits, AtMost, NoPut, Puts
<1>6. GateType
  BY <1>1, <1>2, <1>3, <1>4, <1>5, NoCallOK DEF GateType, KeyStatus
<1>7. PutsOK
  BY <1>1, <1>5 DEF PutsOK, PutOK
<1>8. CallsOK
  BY <1>1, NoCallOK DEF CallsOK
<1>9. BucketsOK /\ RateHolds
  BY <1>1, <1>5 DEF BucketsOK, RateHolds
<1> QED
  BY <1>6, <1>7, <1>8, <1>9 DEF Inv

(* Every step of a client counts what it lets through.                     *)
LEMMA ClientCounters ==
  ASSUME GateType, CallsOK, BucketsOK, RateHolds, NEW c \in Calls, Client(c)
  PROVE  CountersOK' /\ UNCHANGED records
<1>0. CallOK(call[c], key, app, Latest, policies)
  BY DEF CallsOK
<1>1. ASSUME UNCHANGED <<Counters, records>> PROVE CountersOK'
  BY <1>1, QuietCounters DEF records
<1>2. ASSUME NEW bs, NEW v \in 1..Latest, Hit(c, bs, policies[v]), UNCHANGED records PROVE CountersOK'
  BY <1>2, HitCounters DEF records
<1>3. CASE ReadPolicy(c)
  <2>1. UNCHANGED records
    BY <1>3 DEF ReadPolicy
  <2>2. CASE policies = <<>>
    BY <1>1, <1>3, <2>1, <2>2 DEF ReadPolicy, limits, Counters
  <2>3. CASE policies # <<>>
    <3>1. Hit(c, OnRequest(c), policies[Latest])
      BY <1>3, <2>3 DEF ReadPolicy
    <3>2. Latest \in 1..Latest
      BY <2>3, NoPolicies, BoundAssumption DEF GateType, Versions
    <3> QED
      BY <1>2, <2>1, <3>1, <3>2
  <2> QED
    BY <2>1, <2>2, <2>3
<1>4. ASSUME NEW u \in Users, Thrown(c, u) \/ \E t \in Traffic : Body(c, u, t)
      PROVE  CountersOK' /\ UNCHANGED records
  <2>1. /\ call[c].pc = "body" /\ UNCHANGED records
        /\ Hit(c, << <<"user", u>> >>, policies[call[c].version])
    BY <1>4 DEF Thrown, Body, PolicyOf
  <2>2. call[c].version \in 1..Latest
    BY <1>0, <2>1 DEF CallOK
  <2> QED
    BY <1>2, <2>1, <2>2
<1>5. ASSUME NEW k \in Keys, NEW ip \in Ips, NEW method \in {"POST", "GET"}, Arrive(c, k, ip, method)
      PROVE  CountersOK' /\ UNCHANGED records
  BY <1>1, <1>5 DEF Arrive, Counters, records
<1>6. CASE Malformed(c) \/ WrongSecret(c) \/ FindKey(c) \/ ReadStatus(c) \/ InvalidBody(c) \/ NoEstimate(c)
  BY <1>1, <1>6 DEF Malformed, WrongSecret, FindKey, ReadStatus, InvalidBody, NoEstimate, limits, Counters
<1>7. ASSUME NEW fee \in Fees, Estimated(c, fee) \/ Confirm(c, fee)
      PROVE  CountersOK' /\ UNCHANGED records
  BY <1>1, <1>7 DEF Estimated, Confirm, limits, Counters
<1> QED
  BY <1>3, <1>4, <1>5, <1>6, <1>7 DEF Client, Undecodable, Garbage

(* Every step keeps the invariant.                                         *)
LEMMA InvStep == Inv /\ [Next]_vars => Inv'
<1> SUFFICES ASSUME Inv, [Next]_vars PROVE Inv'
  OBVIOUS
<1>0. GateType /\ PutsOK /\ CallsOK /\ BucketsOK /\ RateHolds
  BY DEF Inv
<1>1. ASSUME CountersOK', CallsOK', call' \in [Calls -> CallRecords], UNCHANGED records PROVE Inv'
  <2>1. Latest' = Latest /\ UNCHANGED <<app, key, policies, put>>
    BY <1>1, SameLatest DEF records
  <2>2. GateType' /\ PutsOK'
    BY <1>0, <1>1, <2>1 DEF GateType, CountersOK, CountersType, PutsOK
  <2> QED
    BY <1>1, <2>2 DEF Inv, CountersOK
<1>2. CASE UNCHANGED vars
  <2>1. UNCHANGED <<Counters, records, call>>
    BY <1>2 DEF vars, Counters, records
  <2>2. CountersOK'
    BY <1>0, <2>1, QuietCounters DEF records
  <2>3. CallsOK' /\ call' \in [Calls -> CallRecords]
    <3>1. Latest' = Latest
      BY <2>1, SameLatest DEF records
    <3> QED
      BY <1>0, <2>1, <3>1 DEF CallsOK, GateType, records
  <2> QED
    BY <1>1, <2>1, <2>2, <2>3
<1>3. CASE Tick
  <2>1. UNCHANGED <<records, call>> /\ CountersOK'
    BY <1>0, <1>3, TickCounters DEF Tick
  <2>2. CallsOK' /\ call' \in [Calls -> CallRecords]
    <3>1. Latest' = Latest
      BY <2>1, SameLatest DEF records
    <3> QED
      BY <1>0, <2>1, <3>1 DEF CallsOK, GateType, records
  <2> QED
    BY <1>1, <2>1, <2>2
<1>4. CASE Restart
  <2>1. UNCHANGED records /\ CountersOK' /\ call' = [c \in Calls |-> NoCall]
    BY <1>0, <1>4, RestartCounters DEF Restart
  <2>2. CallsOK' /\ call' \in [Calls -> CallRecords]
    <3>1. \A c \in Calls : call'[c] \in CallRecords /\ CallOK(call'[c], key', app', Latest', policies')
      BY <2>1, NoCallOK
    <3> QED
      BY <2>1, <3>1 DEF CallsOK
  <2> QED
    BY <1>1, <2>1, <2>2
<1>5. ASSUME NEW c \in Calls, Client(c) PROVE Inv'
  BY <1>0, <1>1, <1>5, ClientCounters, ClientStep
<1>6. ASSUME CreateApplication \/ (\E status \in {"active", "suspended"} : SetStatus(status))
             \/ \E k \in Keys : CreateApiKey(k) \/ RevokeApiKey(k)
      PROVE  Inv'
  <2>1. /\ CallsOK' /\ call' \in [Calls -> CallRecords]
        /\ app' \in {"none", "active", "suspended"} /\ key' \in [Keys -> KeyStatus]
        /\ app' = "none" => \A k \in Keys : key'[k] = "none"
        /\ UNCHANGED <<limits, policies, put>>
    BY <1>0, <1>6, KeysStep
  <2>2. Latest' = Latest
    BY <2>1, SameLatest
  <2>3. CountersOK'
    BY <1>0, <2>1, QuietCounters DEF limits, Counters
  <2>4. GateType' /\ PutsOK'
    BY <1>0, <2>1, <2>2, <2>3 DEF GateType, CountersOK, CountersType, PutsOK
  <2> QED
    BY <2>1, <2>3, <2>4 DEF Inv, CountersOK
<1>7. CASE PutStep
  <2>1. /\ put' \in [Admins -> Puts] /\ PutsOK'
        /\ Latest' \in Versions /\ Latest <= Latest' /\ policies' \in [1..Latest' -> ValidDocs]
        /\ \A v \in 1..Latest : policies'[v] = policies[v]
        /\ UNCHANGED <<limits, app, key, call>>
    BY <1>0, <1>7, PutsStep
  <2>2. CallsOK'
    BY <1>0, <2>1, CallsKeep, BoundAssumption DEF Versions
  <2>3. \A v \in DOMAIN policies : v \in DOMAIN policies' /\ policies'[v] = policies[v]
    BY <1>0, <2>1, BoundAssumption DEF GateType, Versions
  <2>4. CountersOK'
    BY <1>0, <2>1, <2>3, QuietCounters DEF limits, Counters
  <2>5. GateType'
    BY <1>0, <2>1, <2>4 DEF GateType, CountersOK, CountersType
  <2> QED
    BY <2>1, <2>2, <2>4, <2>5 DEF Inv, CountersOK
<1>8. ASSUME Operator PROVE Inv'
  BY <1>6, <1>7, <1>8 DEF Operator, Command, PutStep
<1> QED
  BY <1>2, <1>3, <1>4, <1>5, <1>8 DEF Next

(* Inv holds in every reachable state.                                     *)
THEOREM Invariance == Spec => []Inv
<1>1. Init => Inv
  BY InvInit
<1>2. Inv /\ [Next]_vars => Inv'
  BY InvStep
<1> QED
  BY <1>1, <1>2, PTL DEF Spec
-----------------------------------------------------------------------------
(* The properties.                                                         *)

(* Counters, tables and calls keep their types, with any number of each.   *)
THEOREM TypeCorrect == Spec => []TypeOK
<1>1. ASSUME Inv PROVE TypeOK
  <2>0. GateType /\ CallsOK
    BY <1>1 DEF Inv
  <2>1. phase \in Phases /\ app \in {"none", "active", "suspended"} /\ key \in [Keys -> {"none", "active", "revoked"}]
    BY <2>0 DEF GateType, KeyStatus
  <2>2. \A b \in Buckets : /\ count[b].cur \in Nat /\ count[b].prev \in Nat
                            /\ admitted[b].cur \in Nat /\ admitted[b].prev \in Nat
    BY <2>0 DEF GateType, Hits
  <2>3. DOMAIN policies = 1..Latest /\ Latest \in Nat /\ Latest <= MaxVersion /\ MaxVersion \in Nat
    BY <2>0, BoundAssumption DEF GateType, Versions
  <2>4. DOMAIN policies \in SUBSET Versions /\ \A v \in DOMAIN policies : policies[v] \in Docs /\ IsPolicy(policies[v])
    BY <2>0, <2>3 DEF GateType, Versions, ValidDocs
  <2>5. \A a \in Admins : put[a].pc \in {"idle", "first", "second", "failed"} /\ put[a].version \in Versions
    BY <2>0 DEF GateType, Puts
  <2>6. ASSUME NEW c \in Calls
        PROVE  /\ call[c].pc \in {"idle", "auth", "policy", "read", "body", "estimate"}
               /\ call[c].pc \in {"read", "body", "estimate"} => call[c].version \in DOMAIN policies
               /\ call[c].row # {} => call[c].version \in DOMAIN policies
               /\ call[c].live \in BOOLEAN
    BY <2>0, <2>3, <2>6 DEF GateType, CallRecords, CallsOK, CallOK
  <2> QED
    BY <2>1, <2>2, <2>4, <2>5, <2>6 DEF TypeOK
<1> QED
  BY <1>1, Invariance, PTL

(* The hits let through in any sliding window fit a limit that was in      *)
(* force (rate-limit.ts:32).                                               *)
THEOREM RateHoldsCorrect == Spec => []RateHolds
<1>1. Inv => RateHolds
  BY DEF Inv
<1> QED
  BY <1>1, Invariance, PTL

(* So in any Window ticks, which are among those of the present window and *)
(* of the one before, no more hits are let through than two limits that    *)
(* were in force allow (rate-limit.ts:33).                                 *)
TwiceTheLimit ==
  \A b \in Buckets :
    \/ admitted[b] = NoHits
    \/ \E u, v \in DOMAIN policies :
         admitted[b].cur + admitted[b].prev <= LimitIn(policies[u], b) + LimitIn(policies[v], b)

(* Any Window ticks let through at most two limits, for any limits, clients *)
(* and changes of the policy (rate-limit.ts:33).                           *)
THEOREM TwiceTheLimitCorrect == Spec => []TwiceTheLimit
<1>1. ASSUME Inv PROVE TwiceTheLimit
  <2> SUFFICES ASSUME NEW b \in Buckets, admitted[b] # NoHits
               PROVE  \E u, v \in DOMAIN policies :
                        admitted[b].cur + admitted[b].prev <= LimitIn(policies[u], b) + LimitIn(policies[v], b)
    BY DEF TwiceTheLimit
  <2>1. GateType /\ SlidingHolds /\ PreviousHolds
    BY <1>1, Halves DEF Inv
  <2>2. PICK v \in DOMAIN policies : Within(admitted[b], phase, LimitIn(policies[v], b))
    BY <2>1 DEF SlidingHolds
  <2>3. PICK u \in DOMAIN policies : admitted[b].prev <= LimitIn(policies[u], b)
    BY <2>1 DEF PreviousHolds
  <2>4. LimitIn(policies[v], b) \in Nat /\ LimitIn(policies[u], b) \in Nat
    BY <2>1, LimitType DEF GateType, ValidDocs
  <2>5. admitted[b] \in Hits /\ phase \in Phases /\ admitted[b].cur \in Nat /\ admitted[b].prev \in Nat
    BY <2>1 DEF GateType, Hits
  <2>6. admitted[b].cur <= LimitIn(policies[v], b)
    BY <2>2, <2>4, <2>5, CurrentFits
  <2>7. admitted[b].cur + admitted[b].prev <= LimitIn(policies[u], b) + LimitIn(policies[v], b)
    BY <2>3, <2>4, <2>5, <2>6
  <2> QED
    BY <2>7
<1> QED
  BY <1>1, Invariance, PTL

(* Whoever is past authentication held a live key since the call arrived   *)
(* (auth.ts).                                                              *)
THEOREM AdmittedWasLiveCorrect == Spec => []AdmittedWasLive
<1>1. Inv => AdmittedWasLive
  BY DEF Inv, CallsOK, CallOK, AdmittedWasLive
<1> QED
  BY <1>1, Invariance, PTL

(* Nobody is judged by a version older than the one he found (policy.md).  *)
THEOREM JudgedByCurrentCorrect == Spec => []JudgedByCurrent
<1>1. Inv => JudgedByCurrent
  BY DEF Inv, CallsOK, CallOK, JudgedByCurrent
<1> QED
  BY <1>1, Invariance, PTL

(* A PUT that fails lost two races (policies.ts:8).                        *)
THEOREM PutLosesTwiceCorrect == Spec => []PutLosesTwice
<1>1. Inv => PutLosesTwice
  BY DEF Inv, PutsOK, PutOK, PutLosesTwice
<1> QED
  BY <1>1, Invariance, PTL

(* Only a PUT writes versions, and it appends (policies.ts:8).             *)
THEOREM VersionsGrowCorrect == Spec => VersionsGrow
<1>1. ASSUME Inv, [Next]_vars, policies' # policies
      PROVE  /\ DOMAIN policies' = 1..Cardinality(DOMAIN policies')
             /\ \A v \in DOMAIN policies : policies'[v] = policies[v]
  <2>0. GateType /\ PutsOK /\ CallsOK /\ BucketsOK /\ RateHolds
    BY <1>1 DEF Inv
  <2>1. PutStep
    <3>1. CASE Tick \/ Restart \/ UNCHANGED vars
      BY <1>1, <3>1 DEF Tick, Restart, vars, records
    <3>2. ASSUME NEW c \in Calls, Client(c) PROVE FALSE
      BY <1>1, <2>0, <3>2, ClientCounters DEF records
    <3>3. CASE \/ CreateApplication
               \/ \E status \in {"active", "suspended"} : SetStatus(status)
               \/ \E k \in Keys : CreateApiKey(k) \/ RevokeApiKey(k)
      BY <1>1, <2>0, <3>3, KeysStep
    <3> QED
      BY <1>1, <3>1, <3>2, <3>3 DEF Next, Operator, Command, PutStep
  <2>2. /\ Latest' \in Versions /\ policies' \in [1..Latest' -> ValidDocs]
        /\ \A v \in 1..Latest : policies'[v] = policies[v]
    BY <2>0, <2>1, PutsStep
  <2>3. DOMAIN policies = 1..Latest
    BY <2>0 DEF GateType
  <2>4. Latest' \in Nat /\ DOMAIN policies' = 1..Latest'
    BY <2>2, BoundAssumption DEF Versions
  <2> DEFINE n == Latest'
  <2>5. n \in Nat /\ DOMAIN policies' = 1..n
    BY <2>4
  <2> HIDE DEF n
  <2>6. Cardinality(1..n) = n
    <3>1. Cardinality(1..n) = IF 1 > n THEN 0 ELSE n - 1 + 1
      BY <2>5, FS_Interval
    <3> QED
      BY <2>5, <3>1
  <2> QED
    BY <2>2, <2>3, <2>5, <2>6
<1>2. Inv /\ [Next]_vars =>
        [/\ DOMAIN policies' = 1..Cardinality(DOMAIN policies')
         /\ \A v \in DOMAIN policies : policies'[v] = policies[v]]_policies
  BY <1>1
<1> QED
  BY <1>2, Invariance, PTL DEF Spec, VersionsGrow

(* A sponsored request under a policy of single calls made the call that   *)
(* was claimed, and that call is listed (policy.ts).                       *)
THEOREM ClaimIsTheCallCorrect == Spec => []ClaimIsTheCall
<1>1. ASSUME Inv PROVE ClaimIsTheCall
  <2> SUFFICES ASSUME NEW c \in Calls, NEW row \in call[c].row,
                      row.status \in {"RESERVED", "CONFIRMED"}, ~PolicyOf(c).multiple
               PROVE  /\ Allows(PolicyOf(c), row.summary.calls[1])
                      /\ row.claim.contract \subseteq {row.summary.calls[1].address}
                      /\ row.claim.entryPoint \subseteq {row.summary.calls[1].entryPoint}
    BY DEF ClaimIsTheCall
  <2>1. row \in RowRecords /\ RowOK(PolicyOf(c), row)
    BY <1>1, RowOfCall DEF Inv
  <2>2. row.summary.calls \in Seq(CallsMade)
    BY <2>1, TrafficAssumption DEF RowRecords
  <2>3. EvaluatePolicy(PolicyOf(c), row.summary, row.claim) = Allowed
    BY <2>1 DEF RowOK, Judged
  <2> QED
    BY <2>2, <2>3, AllowedIsTheCall
<1> QED
  BY <1>1, Invariance, PTL

(* Whatever the policy allows, also several calls at once, is what a       *)
(* sponsored transaction does: each call is on the list, the claimed       *)
(* contract and entry point are among them, nothing is deployed, no DUST   *)
(* is spent in it already, and its size and estimated fee are within the   *)
(* limits (evaluatePolicy and checkFeeLimit of policy.ts).                 *)
SponsoredIsAllowed ==
  \A c \in Calls : \A row \in call[c].row :
    row.status \in {"RESERVED", "CONFIRMED"} =>
      /\ PolicyOf(c).enabled /\ ~row.summary.deploys /\ ~row.summary.dusty
      /\ row.summary.calls # <<>>
      /\ \A i \in DOMAIN row.summary.calls : Allows(PolicyOf(c), row.summary.calls[i])
      /\ Len(row.summary.calls) > 1 => PolicyOf(c).multiple
      /\ row.claim.contract \subseteq Addresses(row.summary)
      /\ row.claim.entryPoint \subseteq EntryPoints(row.summary)
      /\ ~(row.summary.bytes > PolicyOf(c).maxBytes)
      /\ \A fee \in row.estimated : ~(fee > PolicyOf(c).maxFee)

(* No request gets to a reservation unless the policy that judged it       *)
(* allows all of its transaction, for any policies and transactions.       *)
THEOREM SponsoredIsAllowedCorrect == Spec => []SponsoredIsAllowed
<1>1. ASSUME Inv PROVE SponsoredIsAllowed
  <2> SUFFICES ASSUME NEW c \in Calls, NEW row \in call[c].row, row.status \in {"RESERVED", "CONFIRMED"}
               PROVE  /\ PolicyOf(c).enabled /\ ~row.summary.deploys /\ ~row.summary.dusty
                      /\ row.summary.calls # <<>>
                      /\ \A i \in DOMAIN row.summary.calls : Allows(PolicyOf(c), row.summary.calls[i])
                      /\ Len(row.summary.calls) > 1 => PolicyOf(c).multiple
                      /\ row.claim.contract \subseteq Addresses(row.summary)
                      /\ row.claim.entryPoint \subseteq EntryPoints(row.summary)
                      /\ ~(row.summary.bytes > PolicyOf(c).maxBytes)
                      /\ \A fee \in row.estimated : ~(fee > PolicyOf(c).maxFee)
    BY Zenon DEF SponsoredIsAllowed
  <2> DEFINE doc == PolicyOf(c)  sum == row.summary  claim == row.claim
  <2>1. RowOK(doc, row)
    BY <1>1, RowOfCall DEF Inv
  <2>2. EvaluatePolicy(doc, sum, claim) = Allowed /\ \A fee \in row.estimated : CheckFeeLimit(doc, fee) = Allowed
    BY <2>1 DEF RowOK, Judged
  <2> HIDE DEF doc, sum, claim
  <2>3. \A n \in 1..11 : ~Breaks(Rules[n], doc, sum, claim)
    BY <2>2, Verdict
  <2>4. /\ Rules[1] = "R1" /\ Rules[2] = "R4" /\ Rules[3] = "R2" /\ Rules[4] = "R6" /\ Rules[5] = "R2b"
        /\ Rules[6] = "R2c" /\ Rules[7] = "R3" /\ Rules[8] = "R5" /\ Rules[9] = "R5e" /\ Rules[10] = "R7"
    BY DEF Rules
  <2>5. /\ ~Breaks("R1", doc, sum, claim) /\ ~Breaks("R4", doc, sum, claim) /\ ~Breaks("R2", doc, sum, claim)
        /\ ~Breaks("R6", doc, sum, claim) /\ ~Breaks("R2b", doc, sum, claim) /\ ~Breaks("R2c", doc, sum, claim)
        /\ ~Breaks("R3", doc, sum, claim) /\ ~Breaks("R5", doc, sum, claim) /\ ~Breaks("R5e", doc, sum, claim)
        /\ ~Breaks("R7", doc, sum, claim)
    BY <2>3, <2>4
  <2>6. doc.enabled /\ ~sum.deploys /\ ~sum.dusty
    BY <2>5, Zenon DEF Breaks
  <2>7. sum.calls # <<>> /\ (Len(sum.calls) > 1 => doc.multiple) /\ ~(sum.bytes > doc.maxBytes)
    BY <2>5, Zenon DEF Breaks
  <2>8. Refused(doc, sum) = {}
    BY <2>5 DEF Breaks
  <2>9. \A i \in DOMAIN sum.calls : Allows(doc, sum.calls[i])
    BY <2>8, Zenon DEF Refused
  <2>10. claim.contract \subseteq Addresses(sum) /\ claim.entryPoint \subseteq EntryPoints(sum)
    BY <2>5 DEF Breaks
  <2>11. \A fee \in row.estimated : ~(fee > doc.maxFee)
    BY <2>2 DEF CheckFeeLimit, FeeRule, Allowed
  <2> QED
    BY <2>6, <2>7, <2>9, <2>10, <2>11, Zenon DEF doc, sum, claim
<1> QED
  BY <1>1, Invariance, PTL

(* A dry run repeats the judgement (admin.ts:142-144), whatever policy and *)
(* transaction: it differs where it sees no fee or a fee that rose.        *)
THEOREM DryRunAgreesCorrect == Spec => []DryRunAgrees
<1>1. ASSUME Inv PROVE DryRunAgrees
  <2> SUFFICES ASSUME NEW c \in Calls, NEW row \in call[c].row
               PROVE  LET rule == DryRun(PolicyOf(c), row) IN
                      \/ row.status = "REJECTED" /\ rule = (IF row.rule \in {FeeRule, "budget", "sponsor"} THEN Allowed ELSE row.rule)
                      \/ row.status # "REJECTED" /\ rule = Allowed
                      \/ row.status = "CONFIRMED" /\ rule = FeeRule /\ \E fee \in row.actual : fee > PolicyOf(c).maxFee
    BY DEF DryRunAgrees
  <2> DEFINE doc == PolicyOf(c)  rule == Judged(doc, row)
  <2>1. row \in RowRecords /\ RowOK(doc, row)
    BY <1>1, RowOfCall DEF Inv
  <2>2. rule \in Verdicts /\ rule \notin {FeeRule, "budget", "sponsor"} /\ FeeRule # Allowed
    BY Verdict DEF Judged, Verdicts, FeeRule, Allowed
  <2>3. DryRun(doc, row) = IF rule = Allowed /\ \E fee \in FeeOf(row) : CheckFeeLimit(doc, fee) = FeeRule
                           THEN FeeRule ELSE rule
    BY DEF DryRun, Judged
  <2> HIDE DEF doc, rule
  <2>4. CASE row.status = "REJECTED"
    <3>1. FeeOf(row) = {}
      BY <2>1, <2>4 DEF RowOK, FeeOf
    <3>2. DryRun(doc, row) = rule
      BY <2>3, <3>1
    <3>3. \/ row.rule = rule /\ row.rule # Allowed
          \/ row.rule \in {FeeRule, "budget", "sponsor"} /\ rule = Allowed
      BY <2>1, <2>4 DEF RowOK, rule
    <3> QED
      BY <2>2, <2>4, <3>2, <3>3 DEF doc
  <2>5. CASE row.status # "REJECTED" /\ row.status # "CONFIRMED"
    <3>1. rule = Allowed /\ \A fee \in FeeOf(row) : CheckFeeLimit(doc, fee) = Allowed
      BY <2>1, <2>5 DEF RowOK, FeeOf, rule
    <3> QED
      BY <2>2, <2>3, <2>5, <3>1 DEF doc
  <2>6. CASE row.status = "CONFIRMED"
    <3>1. rule = Allowed /\ FeeOf(row) = row.actual
      BY <2>1, <2>6 DEF RowOK, FeeOf, rule
    <3>2. CASE \E fee \in FeeOf(row) : CheckFeeLimit(doc, fee) = FeeRule
      <4>1. DryRun(doc, row) = FeeRule
        BY <2>3, <3>1, <3>2
      <4>2. \E fee \in row.actual : fee > doc.maxFee
        BY <2>2, <3>1, <3>2 DEF CheckFeeLimit
      <4> QED
        BY <2>6, <4>1, <4>2 DEF doc
    <3>3. CASE ~\E fee \in FeeOf(row) : CheckFeeLimit(doc, fee) = FeeRule
      BY <2>3, <2>6, <3>1, <3>3 DEF doc
    <3> QED
      BY <3>2, <3>3
  <2> QED
    BY <2>4, <2>5, <2>6
<1> QED
  BY <1>1, Invariance, PTL
-----------------------------------------------------------------------------
(* The client that waits.                                                  *)

Refusals == [by : Buckets, wait : Nat, tries : Nat] \cup {NoRefusal}

(* A refused client, by its bucket's hits h: when it has waited nobody     *)
(* has hit the bucket in this window, and once it was refused again it is  *)
(* the only one that hit it in that window.                                *)
RetryOK(f, ph, h, pc) ==
  /\ f.wait = 0 \/ f.wait = RetryAfter(ph)
  /\ pc # "idle" => f.wait = 0
  /\ f.wait = 0 => h.cur = 0
  /\ f.tries >= 2 /\ f.wait = 0 => h.prev <= 1
  /\ f.tries >= 2 /\ f.wait # 0 => h.cur = 1
  /\ f.tries > 2 => \E doc \in Docs : IsPolicy(doc) /\ LimitIn(doc, f.by) < 2

RefusalsOK ==
  /\ refusal \in [Calls -> Refusals]
  /\ \A c \in Calls : refusal[c].by \in Buckets =>
       RetryOK(refusal[c], phase, count[refusal[c].by], call[c].pc)

(* An empty tuple is no bucket.                                            *)
LEMMA NoRefusalIsNone == NoRefusal.by \notin Buckets /\ NoRefusal \in Refusals /\ NoRefusal.wait = 0 /\ NoRefusal.tries = 0
  BY DEF NoRefusal, Buckets, Refusals

(* A refusal is told by its bucket.                                        *)
LEMMA RefusalKinds ==
  ASSUME NEW f \in Refusals
  PROVE  \/ f.by \in Buckets /\ f.wait \in Nat /\ f.tries \in Nat
         \/ f = NoRefusal /\ f.by \notin Buckets
  BY NoRefusalIsNone DEF Refusals

(* Of a hook that refuses one bucket does.                                 *)
LEMMA OneRefuses ==
  ASSUME NEW bs, NEW doc,
         (\E b \in Buckets : bs = <<b>>) \/ (\E b, d \in Buckets : bs = <<b, d>>),
         ~Passed(bs, doc)
  PROVE  Refuser(bs, doc) \in Reached(bs, doc) /\ ~IsAllowed(Refuser(bs, doc), doc) /\ Reached(bs, doc) \subseteq Buckets
<1>1. \E b \in Reached(bs, doc) : ~IsAllowed(b, doc)
  <2>1. ASSUME NEW b \in Buckets, bs = <<b>>
        PROVE  \E x \in Reached(bs, doc) : ~IsAllowed(x, doc)
    <3>1. DOMAIN bs = {1} /\ bs[1] = b
      BY <2>1
    <3>2. ~IsAllowed(b, doc)
      BY <3>1 DEF Passed
    <3>3. bs[1] \in Reached(bs, doc)
      BY <3>1 DEF Reached
    <3> QED
      BY <3>1, <3>2, <3>3
  <2>2. ASSUME NEW b \in Buckets, NEW d \in Buckets, bs = <<b, d>>
        PROVE  \E x \in Reached(bs, doc) : ~IsAllowed(x, doc)
    <3>1. DOMAIN bs = {1, 2} /\ bs[1] = b /\ bs[2] = d
      BY <2>2
    <3>2. ~IsAllowed(b, doc) \/ ~IsAllowed(d, doc)
      BY <3>1 DEF Passed
    <3>3. bs[1] \in Reached(bs, doc)
      BY <3>1 DEF Reached
    <3>4. IsAllowed(b, doc) => bs[2] \in Reached(bs, doc)
      BY <3>1 DEF Reached
    <3> QED
      BY <3>1, <3>2, <3>3, <3>4
  <2> QED
    BY <2>1, <2>2
<1>2. Reached(bs, doc) \subseteq Buckets
  BY DEF Reached
<1> QED
  BY <1>1, <1>2 DEF Refuser

(* Alone in its bucket, a client is refused a third time only by a limit   *)
(* that it never gets below.                                               *)
LEMMA ThirdRefusal ==
  ASSUME NEW h \in Hits, NEW ph \in Phases, NEW limit \in Nat,
         h.cur = 0, h.prev <= 1, ~Within(Counted(h), ph, limit)
  PROVE  limit < 2
<1>1. /\ h.prev \in Nat /\ Counted(h).cur = 1 /\ Counted(h).prev = h.prev
      /\ Window \in Nat \ {0} /\ Window - ph \in Nat /\ Window - ph <= Window
  BY WindowAssumption DEF Hits, Phases, Counted
<1>2. (Window - ph) * h.prev \in Nat /\ (Window - ph) * h.prev <= Window
  <2>1. h.prev = 0 \/ h.prev = 1
    BY <1>1
  <2>2. (Window - ph) * 0 = 0 /\ (Window - ph) * 1 = Window - ph
    BY <1>1
  <2> QED
    BY <1>1, <2>1, <2>2
<1>3. Estimate(Counted(h), ph) = Window + (Window - ph) * h.prev
  <2>1. Estimate(Counted(h), ph) = Window * 1 + (Window - ph) * h.prev
    BY <1>1 DEF Estimate
  <2>2. Window * 1 = Window
    BY <1>1
  <2> QED
    BY <2>1, <2>2
<1>4. Window * limit < Window + Window
  BY <1>1, <1>2, <1>3 DEF Within
<1>5. ASSUME 2 <= limit PROVE FALSE
  <2>1. Window * 2 <= Window * limit
    BY <1>1, <1>5, TimesGrows
  <2>2. Window * 2 = Window + Window
    BY <1>1
  <2> QED
    BY <1>1, <1>4, <2>1, <2>2
<1> QED
  BY <1>5

(* The hits of a hook: who is refused has waited, who is not has nothing   *)
(* to wait for, and the others' buckets are hit or are not.                *)
LEMMA HitRefusals ==
  ASSUME GateType, GateType', RefusalsOK, NEW c \in Calls, NEW bs, NEW doc \in Docs, IsPolicy(doc),
         (\E b \in Buckets : bs = <<b>>) \/ (\E b, d \in Buckets : bs = <<b, d>>),
         Hit(c, bs, doc), call[c].pc # "idle",
         \A d \in Calls \ {c} : call'[d] = call[d],
         ~Passed(bs, doc) => call'[c].pc = "idle"
  PROVE  RefusalsOK'
<1> DEFINE b == Refuser(bs, doc)
<1>1. /\ phase' = phase /\ phase \in Phases
      /\ count \in [Buckets -> Hits] /\ count' \in [Buckets -> Hits]
      /\ \A x \in Buckets \ Reached(bs, doc) : count'[x] = count[x]
      /\ \A x \in Buckets \cap Reached(bs, doc) : count'[x] = Counted(count[x])
      /\ \A d \in Calls : refusal[d] \in Refusals
      /\ \A d \in Calls : refusal[d].by \in Buckets => RetryOK(refusal[d], phase, count[refusal[d].by], call[d].pc)
  BY DEF Hit, GateType, RefusalsOK
<1>2. /\ refusal'[c] = Told(c, bs, doc)
      /\ \A d \in Calls \ {c} : refusal'[d] \in {NoRefusal, refusal[d]}
      /\ \A d \in Calls \ {c} : refusal'[d] # NoRefusal => refusal[d].by \notin Reached(bs, doc)
      /\ refusal' = [d \in Calls |-> refusal'[d]]
  BY DEF Hit
<1>3. ASSUME NEW d \in Calls, refusal'[d] = refusal[d], refusal[d].by \in Buckets, refusal[d].by \notin Reached(bs, doc),
             call'[d].pc = call[d].pc \/ call[d].pc # "idle"
      PROVE  RetryOK(refusal'[d], phase, count'[refusal'[d].by], call'[d].pc)
  <2>1. count'[refusal[d].by] = count[refusal[d].by]
    BY <1>1, <1>3
  <2>2. RetryOK(refusal[d], phase, count[refusal[d].by], call[d].pc)
    BY <1>1, <1>3
  <2>3. RetryOK(refusal[d], phase, count[refusal[d].by], call'[d].pc)
    BY <1>3, <2>2 DEF RetryOK
  <2> QED
    BY <1>3, <2>1, <2>3
<1>4. ASSUME NEW d \in Calls \ {c}
      PROVE  refusal'[d] \in Refusals /\ (refusal'[d].by \in Buckets => RetryOK(refusal'[d], phase, count'[refusal'[d].by], call'[d].pc))
  BY <1>1, <1>2, <1>3, NoRefusalIsNone
<1>5. CASE Passed(bs, doc)
  <2>1. refusal'[c] = NoRefusal \/ (refusal'[c] = refusal[c] /\ refusal[c].by \notin Reached(bs, doc))
    BY <1>2, <1>5 DEF Told
  <2>2. refusal'[c] \in Refusals /\ (refusal'[c].by \in Buckets => RetryOK(refusal'[c], phase, count'[refusal'[c].by], call'[c].pc))
    BY <1>1, <1>3, <2>1, NoRefusalIsNone
  <2> QED
    BY <1>1, <1>2, <1>4, <2>2 DEF RefusalsOK
<1>6. CASE ~Passed(bs, doc)
  <2>1. b \in Reached(bs, doc) /\ ~IsAllowed(b, doc) /\ b \in Buckets
    BY <1>6, OneRefuses
  <2> HIDE DEF b
  <2>2. Window - phase \in Nat /\ Window - phase # 0 /\ MaxTries \in Nat
    BY <1>1, WindowAssumption, BoundAssumption DEF Phases
  <2> DEFINE n == IF refusal[c].by # b THEN 1 ELSE IF refusal[c].tries < MaxTries THEN refusal[c].tries + 1 ELSE MaxTries
  <2>3. refusal'[c] = [by |-> b, wait |-> Window - phase, tries |-> n]
    BY <1>2, <1>6 DEF Told, RetryAfter, b
  <2>4. refusal[c].by = b => refusal[c].tries \in Nat
    BY <1>1, <2>1, RefusalKinds
  <2>5. n \in Nat
    BY <2>2, <2>4
  <2>6. refusal'[c] \in Refusals
    BY <2>1, <2>2, <2>3, <2>5 DEF Refusals
  <2>7. count[b] \in Hits /\ count'[b] = Counted(count[b])
    BY <1>1, <2>1
  <2>8. n >= 2 => /\ refusal[c].by = b /\ RetryOK(refusal[c], phase, count[b], call[c].pc)
    BY <1>1, <2>1
  <2>9. n >= 2 => refusal[c].wait = 0 /\ count[b].cur = 0
    BY <2>8 DEF RetryOK
  <2>10. n >= 2 => count'[b].cur = 1
    BY <2>7, <2>9 DEF Counted
  <2>11. n > 2 => refusal[c].tries >= 2
    BY <2>2, <2>4, <2>5, <2>8
  <2>12. n > 2 => LimitIn(doc, b) < 2
    <3>1. SUFFICES ASSUME n > 2 PROVE LimitIn(doc, b) < 2
      OBVIOUS
    <3>2. count[b].prev <= 1 /\ count[b].cur = 0
      BY <2>5, <2>8, <2>9, <2>11, <3>1 DEF RetryOK
    <3>3. ~Within(Counted(count[b]), phase, LimitIn(doc, b)) /\ LimitIn(doc, b) \in Nat
      BY <2>1, LimitType DEF IsAllowed
    <3> QED
      BY <1>1, <2>7, <3>2, <3>3, ThirdRefusal
  <2> HIDE DEF n
  <2>13. refusal'[c].by = b /\ refusal'[c].wait = Window - phase /\ refusal'[c].tries = n
    BY <2>3
  <2>14. RetryOK(refusal'[c], phase, count'[b], call'[c].pc)
    <3>1. call'[c].pc = "idle"
      BY <1>6
    <3> QED
      BY <2>2, <2>5, <2>10, <2>12, <2>13, <3>1 DEF RetryOK, RetryAfter
  <2> QED
    BY <1>1, <1>2, <1>4, <2>6, <2>13, <2>14 DEF RefusalsOK
<1> QED
  BY <1>5, <1>6

(* Without a hit a call that begins is all that matters.                   *)
LEMMA QuietRefusals ==
  ASSUME RefusalsOK, UNCHANGED <<phase, count, refusal>>,
         \A d \in Calls : call[d].pc # "idle" \/ call'[d].pc = "idle"
  PROVE  RefusalsOK'
  BY DEF RefusalsOK, RetryOK

(* A client that does not wait forgets what it was told.                   *)
LEMMA ArriveRefusals ==
  ASSUME RefusalsOK, GateType, NEW c \in Calls, NEW k \in Keys, NEW ip \in Ips, NEW method \in {"POST", "GET"},
         Arrive(c, k, ip, method)
  PROVE  RefusalsOK'
<1>1. /\ UNCHANGED <<phase, count>>
      /\ refusal' = [refusal EXCEPT ![c] = IF refusal[c].wait = 0 THEN refusal[c] ELSE NoRefusal]
      /\ \A d \in Calls \ {c} : call'[d] = call[d]
  BY DEF Arrive, GateType
<1>2. /\ refusal \in [Calls -> Refusals]
      /\ \A d \in Calls : refusal[d].by \in Buckets => RetryOK(refusal[d], phase, count[refusal[d].by], call[d].pc)
  BY DEF RefusalsOK
<1>3. refusal' \in [Calls -> Refusals]
  BY <1>1, <1>2, NoRefusalIsNone
<1>4. ASSUME NEW d \in Calls, refusal'[d].by \in Buckets
      PROVE  RetryOK(refusal'[d], phase', count'[refusal'[d].by], call'[d].pc)
  <2>1. CASE d = c
    <3>1. refusal'[c] = refusal[c] /\ refusal[c].wait = 0
      BY <1>1, <1>2, <1>4, <2>1, NoRefusalIsNone
    <3> QED
      BY <1>1, <1>2, <1>4, <2>1, <3>1 DEF RetryOK
  <2>2. CASE d # c
    BY <1>1, <1>2, <1>4, <2>2
  <2> QED
    BY <2>1, <2>2
<1> QED
  BY <1>3, <1>4 DEF RefusalsOK

(* Who has waited finds a new window.                                      *)
LEMMA TickRefusals ==
  ASSUME RefusalsOK, GateType, Tick
  PROVE  RefusalsOK'
<1>1. phase \in Phases /\ phase \in Nat /\ Window \in Nat \ {0} /\ phase < Window
  BY WindowAssumption DEF GateType, Phases
<1>2. /\ refusal \in [Calls -> Refusals]
      /\ \A d \in Calls : refusal[d].by \in Buckets => RetryOK(refusal[d], phase, count[refusal[d].by], call[d].pc)
  BY DEF RefusalsOK
<1>3. call' = call /\ \A d \in Calls : refusal'[d] = [refusal[d] EXCEPT !.wait = IF refusal[d].wait = 0 THEN 0 ELSE refusal[d].wait - 1]
  BY DEF Tick
<1>4. ASSUME NEW d \in Calls
      PROVE  /\ refusal'[d] \in Refusals
             /\ refusal'[d].by \in Buckets => RetryOK(refusal'[d], phase', count'[refusal'[d].by], call'[d].pc)
  <2> DEFINE w == IF refusal[d].wait = 0 THEN 0 ELSE refusal[d].wait - 1
  <2>1. refusal[d] \in Refusals
    BY <1>2
  <2>2. CASE refusal[d] = NoRefusal
    <3>1. refusal'[d] = NoRefusal
      BY <1>3, <2>2 DEF NoRefusal
    <3> QED
      BY <3>1, NoRefusalIsNone
  <2>3. CASE refusal[d] # NoRefusal
    <3>1. refusal[d] \in [by : Buckets, wait : Nat, tries : Nat] /\ w \in Nat
      BY <2>1, <2>3 DEF Refusals
    <3>2. refusal'[d] = [refusal[d] EXCEPT !.wait = w]
      BY <1>3
    <3> HIDE DEF w
    <3>3. /\ refusal'[d] \in [by : Buckets, wait : Nat, tries : Nat]
          /\ refusal'[d].by = refusal[d].by /\ refusal'[d].tries = refusal[d].tries /\ refusal'[d].wait = w
          /\ refusal[d].by \in Buckets /\ refusal[d].tries \in Nat /\ refusal[d].wait \in Nat
      BY <3>1, <3>2
    <3> DEFINE b == refusal[d].by
    <3>4. RetryOK(refusal[d], phase, count[b], call[d].pc) /\ count[b] \in Hits
      BY <1>2, <3>3 DEF GateType
    <3>5. CASE phase + 1 = Window
      <4>1. phase' = 0 /\ count'[b] = NextWindow(count[b])
        <5>1. (phase + 1) % Window = 0
          BY <1>1, <3>5
        <5> QED
          BY <3>3, <3>5, <5>1 DEF Tick
      <4>2. count'[b].cur = 0 /\ count'[b].prev = count[b].cur
        BY <4>1 DEF NextWindow
      <4>3. w = 0
        BY <1>1, <3>4, <3>5, <3>3 DEF RetryOK, RetryAfter, w
      <4>4. refusal[d].tries >= 2 => count[b].cur <= 1
        BY <3>4 DEF RetryOK, Hits
      <4>5. RetryOK(refusal'[d], phase', count'[b], call'[d].pc)
        BY <1>3, <3>3, <3>4, <4>2, <4>3, <4>4 DEF RetryOK
      <4> QED
        BY <3>3, <4>5 DEF Refusals
    <3>6. CASE phase + 1 # Window
      <4>1. phase' = phase + 1 /\ count' = count
        <5>1. (phase + 1) % Window = phase + 1
          BY <1>1, <3>6
        <5> QED
          BY <3>6, <5>1 DEF Tick
      <4>2. (refusal[d].wait = 0 => w = 0) /\ (refusal[d].wait # 0 => w = Window - (phase + 1) /\ w # 0)
        BY <1>1, <3>4, <3>6 DEF RetryOK, RetryAfter, w
      <4>3. RetryOK(refusal'[d], phase', count'[b], call'[d].pc)
        BY <1>3, <3>3, <3>4, <4>1, <4>2 DEF RetryOK, RetryAfter
      <4> QED
        BY <3>3, <4>3 DEF Refusals
    <3> QED
      BY <3>5, <3>6
  <2> QED
    BY <2>2, <2>3
<1>5. refusal' = [d \in Calls |-> refusal'[d]]
  BY DEF Tick
<1> QED
  BY <1>4, <1>5 DEF RefusalsOK

(* The buckets a call hits.                                                *)
LEMMA HookBuckets ==
  ASSUME NEW c \in Calls, call[c].id \in Ids
  PROVE  (\E b \in Buckets : OnRequest(c) = <<b>>) \/ (\E b, d \in Buckets : OnRequest(c) = <<b, d>>)
<1> DEFINE id == call[c].id
<1>1. id[1] \in {"POST", "GET"} /\ id[2] \in Keys /\ id[3] \in Ips
  BY DEF Ids
<1>2. <<"cred", id[2]>> \in Buckets /\ <<"ip", id[3]>> \in Buckets /\ <<"read", id[2]>> \in Buckets
  BY <1>1 DEF Buckets
<1> QED
  BY <1>2 DEF OnRequest

LEMMA UserBucket ==
  ASSUME NEW u \in Users
  PROVE  <<"user", u>> \in Buckets
  BY DEF Buckets

(* A call that is answered for good is idle again.                         *)
LEMMA AnsweredIsIdle ==
  ASSUME GateType, NEW c \in Calls, NEW row, Answer(c, row)
  PROVE  /\ \A d \in Calls \ {c} : call'[d] = call[d]
         /\ row.status # "RECEIVED" => call'[c].pc = "idle"
  BY DEF Answer, GateType, NoCall

LEMMA EndedIsIdle ==
  ASSUME GateType, NEW c \in Calls, End(c)
  PROVE  /\ \A d \in Calls \ {c} : call'[d] = call[d]
         /\ call'[c].pc = "idle"
  BY DEF End, GateType, NoCall

(* The hits of a call under way.                                           *)
LEMMA HookRefusals ==
  ASSUME GateType, GateType', CallsOK, RefusalsOK, NEW c \in Calls,
         ReadPolicy(c) \/ \E u \in Users : Thrown(c, u) \/ \E t \in Traffic : Body(c, u, t)
  PROVE  RefusalsOK'
<1>1. call \in [Calls -> CallRecords] /\ CallOK(call[c], key, app, Latest, policies)
  BY DEF GateType, CallsOK
<1>2. \A v \in 1..Latest : policies[v] \in Docs /\ IsPolicy(policies[v])
  BY DEF GateType, ValidDocs
<1>3. CASE ReadPolicy(c)
  <2>1. call[c].pc = "policy" /\ call[c].id \in Ids
    BY <1>1, <1>3 DEF ReadPolicy, CallOK
  <2>2. CASE policies = <<>>
    <3>1. End(c) /\ UNCHANGED <<phase, count, refusal>>
      BY <1>3, <2>2 DEF ReadPolicy, limits
    <3>2. \A d \in Calls : call[d].pc # "idle" \/ call'[d].pc = "idle"
      BY <2>1, <3>1, EndedIsIdle
    <3> QED
      BY <3>1, <3>2, QuietRefusals
  <2>3. CASE policies # <<>>
    <3>1. Latest \in 1..Latest
      BY <2>3, NoPolicies, BoundAssumption DEF GateType, Versions
    <3>2. Hit(c, OnRequest(c), policies[Latest])
      BY <1>3, <2>3 DEF ReadPolicy
    <3>3. \A d \in Calls \ {c} : call'[d] = call[d]
      BY <1>1, <1>3, <2>3 DEF ReadPolicy, End
    <3>4. ~Passed(OnRequest(c), policies[Latest]) => call'[c].pc = "idle"
      BY <1>3, <2>3, EndedIsIdle DEF ReadPolicy
    <3>5. policies[Latest] \in Docs /\ IsPolicy(policies[Latest])
      BY <1>2, <3>1
    <3> QED
      BY <2>1, <3>2, <3>3, <3>4, <3>5, HookBuckets, HitRefusals
  <2> QED
    BY <2>2, <2>3
<1>4. ASSUME NEW u \in Users, Thrown(c, u) \/ \E t \in Traffic : Body(c, u, t)
      PROVE  RefusalsOK'
  <2> DEFINE bs == << <<"user", u>> >>
             doc == policies[call[c].version]
  <2>1. call[c].pc = "body" /\ Hit(c, bs, doc)
    BY <1>4 DEF Thrown, Body, PolicyOf
  <2>2. doc \in Docs /\ IsPolicy(doc)
    BY <1>1, <1>2, <2>1 DEF CallOK
  <2>3. <<"user", u>> \in Buckets /\ \E b \in Buckets : bs = <<b>>
    BY UserBucket
  <2>4. Passed(bs, doc) <=> IsAllowed(<<"user", u>>, doc)
    BY DEF Passed
  <2>5. \A d \in Calls \ {c} : call'[d] = call[d]
    <3>1. End(c) \/ \E row \in {Row(t, "RECEIVED", "none") : t \in Traffic} \cup
                     {Row(t, "REJECTED", EvaluatePolicy(PolicyOf(c), t.summary, t.claim)) : t \in Traffic} : Answer(c, row)
      BY <1>4 DEF Thrown, Body
    <3> QED
      BY <3>1, EndedIsIdle, AnsweredIsIdle
  <2>6. ~Passed(bs, doc) => call'[c].pc = "idle"
    <3> SUFFICES ASSUME ~Passed(bs, doc) PROVE End(c)
      BY EndedIsIdle
    <3>1. ~IsAllowed(<<"user", u>>, PolicyOf(c))
      BY <2>4 DEF PolicyOf
    <3> QED
      BY <1>4, <3>1 DEF Thrown, Body
  <2> HIDE DEF doc, bs
  <2> QED
    BY <2>1, <2>2, <2>3, <2>5, <2>6, HitRefusals
<1> QED
  BY <1>3, <1>4

(* The steps of a call that hit nothing.                                   *)
LEMMA OtherRefusals ==
  ASSUME GateType, CallsOK, RefusalsOK, NEW c \in Calls,
         \/ Malformed(c) \/ WrongSecret(c) \/ FindKey(c) \/ ReadStatus(c) \/ InvalidBody(c) \/ NoEstimate(c)
         \/ \E fee \in Fees : Estimated(c, fee) \/ Confirm(c, fee)
  PROVE  RefusalsOK'
<1>0. call \in [Calls -> CallRecords] /\ call[c].row \in SUBSET RowRecords
  BY DEF GateType, CallRecords
<1>1. UNCHANGED <<phase, count, refusal>>
  BY DEF Malformed, WrongSecret, FindKey, ReadStatus, InvalidBody, NoEstimate, Estimated, Confirm, limits
<1>2. CASE Malformed(c) \/ WrongSecret(c) \/ ReadStatus(c) \/ InvalidBody(c)
  BY <1>1, <1>2, EndedIsIdle, QuietRefusals DEF Malformed, WrongSecret, ReadStatus, InvalidBody
<1>3. CASE FindKey(c)
  <2>1. \A d \in Calls : call[d].pc # "idle" \/ call'[d].pc = "idle"
    BY <1>0, <1>3, EndedIsIdle DEF FindKey
  <2> QED
    BY <1>1, <2>1, QuietRefusals
<1>4. ASSUME NoEstimate(c) \/ \E fee \in Fees : Estimated(c, fee) PROVE RefusalsOK'
  <2>1. call[c].pc = "estimate" /\ \E row : Answer(c, row)
    BY <1>4 DEF NoEstimate, Estimated
  <2>2. \A d \in Calls : call[d].pc # "idle" \/ call'[d].pc = "idle"
    BY <2>1, AnsweredIsIdle
  <2> QED
    BY <1>1, <2>2, QuietRefusals
<1>5. ASSUME NEW fee \in Fees, Confirm(c, fee) PROVE RefusalsOK'
  <2>1. PICK row \in call[c].row : Answer(c, [row EXCEPT !.status = "CONFIRMED", !.actual = {fee}])
    BY <1>5 DEF Confirm
  <2> DEFINE r == [row EXCEPT !.status = "CONFIRMED", !.actual = {fee}]
  <2>2. r.status = "CONFIRMED"
    BY <1>0 DEF RowRecords
  <2> HIDE DEF r
  <2>3. Answer(c, r)
    BY <2>1 DEF r
  <2>4. call'[c].pc = "idle" /\ \A d \in Calls \ {c} : call'[d] = call[d]
    BY <2>2, <2>3, AnsweredIsIdle
  <2>5. \A d \in Calls : call[d].pc # "idle" \/ call'[d].pc = "idle"
    BY <1>5, <2>4 DEF Confirm
  <2> QED
    BY <1>1, <2>5, QuietRefusals
<1> QED
  BY <1>2, <1>3, <1>4, <1>5

(* Neither does an operator.                                               *)
LEMMA OperatorRefusals ==
  ASSUME GateType, RefusalsOK, Operator
  PROVE  RefusalsOK'
<1>1. UNCHANGED <<phase, count, refusal>>
  BY DEF Operator, Command, CreateApplication, CreateApiKey, RevokeApiKey, SetKey, SetStatus, PutPolicy,
         InsertVersion, TryAgain, GiveUp, ReadFailure, limits
<1>2. call' = call \/ \E keys, status : call' = Witnessed(keys, status)
  BY DEF Operator, Command, CreateApplication, CreateApiKey, RevokeApiKey, SetKey, SetStatus, PutPolicy,
         InsertVersion, TryAgain, GiveUp, ReadFailure
<1>3. \A d \in Calls : call'[d].pc = call[d].pc
  BY <1>2 DEF Witnessed, GateType, CallRecords
<1> QED
  BY <1>1, <1>3, QuietRefusals

LEMMA RefusalsStep == Inv /\ Inv' /\ RefusalsOK /\ [Next]_vars => RefusalsOK'
<1> SUFFICES ASSUME Inv, Inv', RefusalsOK, [Next]_vars PROVE RefusalsOK'
  OBVIOUS
<1>0. GateType /\ GateType' /\ CallsOK
  BY DEF Inv
<1>1. CASE UNCHANGED vars
  BY <1>1, QuietRefusals DEF vars
<1>2. CASE Tick
  BY <1>0, <1>2, TickRefusals
<1>3. CASE Restart
  <2>1. refusal' = [c \in Calls |-> NoRefusal]
    BY <1>3 DEF Restart
  <2> QED
    BY <2>1, NoRefusalIsNone DEF RefusalsOK
<1>4. CASE Operator
  BY <1>0, <1>4, OperatorRefusals
<1>5. ASSUME NEW c \in Calls, Client(c) PROVE RefusalsOK'
  <2>1. CASE ReadPolicy(c) \/ \E u \in Users : Thrown(c, u) \/ \E t \in Traffic : Body(c, u, t)
    BY <1>0, <2>1, HookRefusals
  <2>2. CASE \/ Malformed(c) \/ WrongSecret(c) \/ FindKey(c) \/ ReadStatus(c) \/ InvalidBody(c) \/ NoEstimate(c)
             \/ \E fee \in Fees : Estimated(c, fee) \/ Confirm(c, fee)
    BY <1>0, <2>2, OtherRefusals
  <2>3. ASSUME NEW k \in Keys, NEW ip \in Ips, NEW method \in {"POST", "GET"}, Arrive(c, k, ip, method)
        PROVE  RefusalsOK'
    BY <1>0, <2>3, ArriveRefusals
  <2> QED
    BY <1>5, <2>1, <2>2, <2>3 DEF Client, Undecodable, Garbage
<1> QED
  BY <1>1, <1>2, <1>3, <1>4, <1>5 DEF Next

(* "Retry after Retry-After seconds" (integration.md:90): no client that   *)
(* waits is refused a third time in a row, but by a limit below 2; for any *)
(* number of clients, any traffic of the others and any window.            *)
THEOREM RefusedTwiceAtMostCorrect == Spec => []RefusedTwiceAtMost
<1>1. Init => RefusalsOK
  <2>1. Init => refusal = [c \in Calls |-> NoRefusal]
    BY DEF Init
  <2> QED
    BY <2>1, NoRefusalIsNone DEF RefusalsOK
<1>2. Inv /\ Inv' /\ RefusalsOK /\ [Next]_vars => RefusalsOK'
  BY RefusalsStep
<1>3. RefusalsOK => RefusedTwiceAtMost
  <2> SUFFICES ASSUME RefusalsOK, NEW c \in Calls, ~(refusal[c].tries <= 2)
               PROVE  \E doc \in Docs : IsPolicy(doc) /\ LimitIn(doc, refusal[c].by) < 2
    BY DEF RefusedTwiceAtMost
  <2>1. refusal[c] \in Refusals
    BY DEF RefusalsOK
  <2>2. refusal[c].by \in Buckets /\ refusal[c].tries \in Nat
    BY <2>1, RefusalKinds, NoRefusalIsNone
  <2> QED
    BY <2>2 DEF RefusalsOK, RetryOK
<1> QED
  BY <1>1, <1>2, <1>3, Invariance, PTL DEF Spec
=============================================================================
