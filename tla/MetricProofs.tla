---------------------------- MODULE MetricProofs ----------------------------
(***************************************************************************)
(* Proofs about pkg/metric: the periodic report, for any counters and      *)
(* runtime metrics, any period and any number of requests and rounds, and  *)
(* the latency histograms: what crossings of In, Out and Reset leave behind, *)
(* for any goroutines and buckets, and what is reported when nothing       *)
(* crosses, for any bucket bounds and latencies.                           *)
(***************************************************************************)
EXTENDS Report, Latency, Percentile, DataLemmas

-----------------------------------------------------------------------------
(* The periodic report.                                                    *)

\* The types, also of the history of the counts.
ShapeOK ==
    /\ ReportTypeOK
    /\ {shown, taken, late} \subseteq [Counter -> Nat]
    /\ read \in [Gauge -> Reading \cup {0}]

\* The count of c is loaded and not published yet.
Pending(c) == (rpc = "load" /\ c \notin todo) \/ rpc = "publish"

\* Where a request is: before the load it is in the counter; what is loaded is
\* taken; what comes between load and clearing is late.
HitsAccounted ==
    \A c \in Counter :
        /\ value[c] <= hits[c]
        /\ hits[c] = taken[c] + late[c] + (IF Between(c) THEN 0 ELSE value[c])

\* The rates shown, and the count about to be shown, are of what was taken.
RatesCovered ==
    \A c \in Counter : Period * shown[c] + (IF Pending(c) THEN loaded[c] ELSE 0) <= taken[c]

\* The runtime metrics are 0 between two rounds, and those of this round from
\* getRuntume to reset.
GaugesOfRound ==
    /\ rpc \in {"select", "sample"} => gauge = Zero(Gauge)
    /\ rpc \in {"load", "publish"} => gauge = read
    /\ FreshGauges

\* The inductive invariant.
RepInv == ShapeOK /\ HitsAccounted /\ RatesCovered /\ GaugesOfRound

-----------------------------------------------------------------------------
(* Division.                                                               *)

\* A count divided by the period, and what is multiplied back.
LEMMA RateFacts ==
    ASSUME NEW n \in Nat
    PROVE  n \div Period \in Nat /\ Period * (n \div Period) <= n
BY ReportAssumption

\* Multiplication distributes over a sum of two counts.
LEMMA PeriodTimes ==
    ASSUME NEW a \in Nat, NEW d \in Nat
    PROVE  Period * (a + d) = Period * a + Period * d
BY ReportAssumption

-----------------------------------------------------------------------------
(* The inductive invariant, part by part.                                  *)

\* Every step keeps the types.
LEMMA StepShape ==
    ASSUME ShapeOK, HitsAccounted, [RepNext]_repVars
    PROVE  ShapeOK'
<1> USE ReportAssumption DEF ShapeOK, ReportTypeOK, collectVars
<1>1. ASSUME NEW c \in Counter, Hit(c)
      PROVE  ShapeOK'
  <2>1. hits[c] + 1 \in 0..MaxHits /\ value[c] + 1 \in 0..MaxHits /\ late[c] + 1 \in Nat
    BY <1>1 DEF Hit, HitsAccounted
  <2>2. QED
    BY <1>1, <2>1 DEF Hit
<1>2. ASSUME NEW c \in Counter, LoadCounter(c)
      PROVE  ShapeOK'
  BY <1>2 DEF LoadCounter
<1>3. ASSUME NEW c \in Counter, ClearCounter(c)
      PROVE  ShapeOK'
  BY <1>3 DEF ClearCounter, Cleared
<1>4. CASE Post
  BY <1>4 DEF Post
<1>5. CASE Collect
  BY <1>5 DEF Collect
<1>6. CASE GetRuntime
  BY <1>6 DEF GetRuntime
<1>7. CASE Publish
  <2> DEFINE rate == [c \in Counter |-> loaded[c] \div Period]
  <2>1. rate \in [Counter -> Nat]
    BY RateFacts
  <2>2. data' = [rate |-> rate, gauge |-> gauge]
        /\ shown' = [c \in Counter |-> shown[c] + rate[c]]
    BY <1>7 DEF Publish
  <2> HIDE DEF rate
  <2>3. shown' \in [Counter -> Nat]
    BY <2>1, <2>2
  <2>4. data' \in [rate : [Counter -> Nat], gauge : [Gauge -> Reading \cup {0}]]
    BY <2>1, <2>2
  <2>5. QED
    BY <1>7, <2>3, <2>4 DEF Publish
<1>8. CASE ClearGauges
  BY <1>8 DEF ClearGauges, ResetGauge, Zero
<1>9. CASE UNCHANGED repVars
  BY <1>9 DEF repVars
<1>10. QED
  BY <1>1, <1>2, <1>3, <1>4, <1>5, <1>6, <1>7, <1>8, <1>9 DEF RepNext

\* Every step keeps the account of the requests.
LEMMA StepHits ==
    ASSUME ShapeOK, HitsAccounted, [RepNext]_repVars
    PROVE  HitsAccounted'
<1> USE DEF ShapeOK, ReportTypeOK, collectVars, HitsAccounted, Between
<1>1. ASSUME NEW c \in Counter, Hit(c)
      PROVE  HitsAccounted'
  BY <1>1 DEF Hit
<1>2. ASSUME NEW c \in Counter, LoadCounter(c)
      PROVE  HitsAccounted'
  BY <1>2 DEF LoadCounter
<1>3. ASSUME NEW c \in Counter, ClearCounter(c)
      PROVE  HitsAccounted'
  BY <1>3 DEF ClearCounter, Cleared
<1>4. CASE Post \/ Collect
  BY <1>4 DEF Post, Collect
<1>5. CASE GetRuntime
  BY <1>5 DEF GetRuntime
<1>6. CASE Publish
  BY <1>6 DEF Publish
<1>7. CASE ClearGauges
  BY <1>7 DEF ClearGauges
<1>8. CASE UNCHANGED repVars
  BY <1>8 DEF repVars
<1>9. QED
  BY <1>1, <1>2, <1>3, <1>4, <1>5, <1>6, <1>7, <1>8 DEF RepNext

\* Every step keeps the rates covered by what was taken.
LEMMA StepRates ==
    ASSUME ShapeOK, RatesCovered, [RepNext]_repVars
    PROVE  RatesCovered'
<1> USE DEF ShapeOK, ReportTypeOK, collectVars, RatesCovered, Pending
<1>1. ASSUME NEW c \in Counter, Hit(c)
      PROVE  RatesCovered'
  BY <1>1 DEF Hit
<1>2. ASSUME NEW c \in Counter, LoadCounter(c)
      PROVE  RatesCovered'
  <2> SUFFICES ASSUME NEW d \in Counter
               PROVE  (Period * shown[d] + (IF Pending(d) THEN loaded[d] ELSE 0) <= taken[d])'
    OBVIOUS
  <2> DEFINE x == Period * shown[d]
  <2>1. x \in Nat /\ UNCHANGED shown
    BY <1>2, ReportAssumption DEF LoadCounter
  <2>2. x + (IF Pending(d) THEN loaded[d] ELSE 0) <= taken[d]
    OBVIOUS
  <2> HIDE DEF x
  <2>3. x + (IF Pending(d)' THEN loaded'[d] ELSE 0) <= taken'[d]
    BY <1>2, <2>1, <2>2 DEF LoadCounter
  <2>4. QED
    BY <2>1, <2>3 DEF x
<1>3. ASSUME NEW c \in Counter, ClearCounter(c)
      PROVE  RatesCovered'
  BY <1>3 DEF ClearCounter
<1>4. CASE Post \/ Collect \/ GetRuntime \/ ClearGauges
  BY <1>4 DEF Post, Collect, GetRuntime, ClearGauges
<1>5. CASE Publish
  <2>1. ASSUME NEW c \in Counter
        PROVE  Period * shown'[c] <= taken[c]
    <3> DEFINE n == loaded[c]
               a == shown[c]
               d == n \div Period
    <3>1. shown'[c] = a + d
      BY <1>5 DEF Publish
    <3>2. n \in Nat /\ a \in Nat /\ d \in Nat /\ Period * d <= n /\ taken[c] \in Nat
      BY RateFacts
    <3>3. Period * a + n <= taken[c]
      BY <1>5 DEF Publish
    <3> HIDE DEF n, a, d
    <3>4. Period * (a + d) = Period * a + Period * d
      BY <3>2, PeriodTimes
    <3>5. Period * a \in Nat /\ Period * d \in Nat
      BY <3>2, ReportAssumption
    <3>6. QED
      BY <3>1, <3>2, <3>3, <3>4, <3>5
  <2>2. rpc' = "clear" /\ UNCHANGED taken
    BY <1>5 DEF Publish
  <2>3. shown' \in [Counter -> Nat]
    BY <1>5, RateFacts DEF Publish
  <2>4. ASSUME NEW c \in Counter
        PROVE  Period * shown'[c] + 0 <= taken[c]
    <3>1. Period * shown'[c] \in Int
      BY <2>3, ReportAssumption
    <3>2. QED
      BY <2>1, <3>1
  <2>5. QED
    BY <2>2, <2>4
<1>6. CASE UNCHANGED repVars
  BY <1>6 DEF repVars
<1>7. QED
  BY <1>1, <1>2, <1>3, <1>4, <1>5, <1>6 DEF RepNext

\* Every step keeps the runtime metrics those of the round.
LEMMA StepGauges ==
    ASSUME ShapeOK, GaugesOfRound, [RepNext]_repVars
    PROVE  GaugesOfRound'
<1> USE DEF ShapeOK, ReportTypeOK, collectVars, GaugesOfRound, FreshGauges
<1>1. ASSUME NEW c \in Counter, Hit(c) \/ LoadCounter(c) \/ ClearCounter(c)
      PROVE  GaugesOfRound'
  BY <1>1 DEF Hit, LoadCounter, ClearCounter
<1>2. CASE Post \/ Collect
  BY <1>2 DEF Post, Collect
<1>3. CASE GetRuntime
  <2>1. gauge = Zero(Gauge) /\ read' \in [Gauge -> Reading \cup {0}] /\ rpc' = "load"
        /\ gauge' = [g \in Gauge |-> IF read'[g] = 0 THEN gauge[g] ELSE read'[g]]
    BY <1>3 DEF GetRuntime
  <2>2. \A g \in Gauge : gauge'[g] = read'[g]
    BY <2>1 DEF Zero
  <2>3. gauge' = read'
    BY <2>1, <2>2
  <2>4. QED
    BY <2>1, <2>3
<1>4. CASE Publish
  BY <1>4 DEF Publish
<1>5. CASE ClearGauges
  BY <1>5 DEF ClearGauges, ResetGauge
<1>6. CASE UNCHANGED repVars
  BY <1>6 DEF repVars
<1>7. QED
  BY <1>1, <1>2, <1>3, <1>4, <1>5, <1>6 DEF RepNext

-----------------------------------------------------------------------------
(* The theorem.                                                            *)

\* Init establishes the invariant.
LEMMA InitRepInv == RepInit => RepInv
<1> SUFFICES ASSUME RepInit
             PROVE  RepInv
  OBVIOUS
<1> USE ReportAssumption DEF RepInit, Zero, NoData
<1>1. ShapeOK
  BY DEF ShapeOK, ReportTypeOK
<1>2. HitsAccounted
  BY DEF HitsAccounted, Between
<1>3. RatesCovered
  BY DEF RatesCovered, Pending
<1>4. GaugesOfRound
  BY DEF GaugesOfRound, FreshGauges
<1>5. QED
  BY <1>1, <1>2, <1>3, <1>4 DEF RepInv

\* No request is reported twice and none is lost but those that come between the
\* load and the clearing of their counter; no runtime metric of an earlier round
\* is shown; whatever requests come between the steps of collect and reset.
THEOREM ReportIsSafe == RepSpec => []ReportSafe
<1>1. RepInv /\ [RepNext]_repVars => RepInv'
  BY StepShape, StepHits, StepRates, StepGauges DEF RepInv
<1>2. RepInv => ReportSafe
  <2> SUFFICES ASSUME RepInv
               PROVE  ReportSafe
    OBVIOUS
  <2> USE DEF RepInv, ShapeOK, ReportTypeOK
  <2>1. ASSUME NEW c \in Counter
        PROVE  Period * shown[c] <= hits[c]
    <3>1. Period * shown[c] \in Nat /\ loaded[c] \in Nat
      BY ReportAssumption
    <3>2. Period * shown[c] <= taken[c]
      BY <3>1 DEF RatesCovered
    <3>3. taken[c] <= hits[c]
      BY DEF HitsAccounted
    <3>4. QED
      BY <3>1, <3>2, <3>3
  <2>2. CountedOnce
    BY <2>1 DEF CountedOnce, HitsAccounted
  <2>3. QED
    BY <2>2 DEF GaugesOfRound, ReportSafe
<1>3. QED
  BY <1>1, <1>2, InitRepInv, PTL DEF RepSpec

-----------------------------------------------------------------------------
(* Latency histograms under concurrent In, Out and Reset.                  *)

\* Who has got as far as a bucket has a histogram, and collect has one from Out on.
HistKnown ==
    /\ \A s \in Sampler : spc[s] \in {"bucket", "count"} => hist[s] \in Sampler
    /\ cpc # "idle" => entry \in Sampler /\ cur \in Sampler

\* The buckets of h, without those that Reset has yet to clear.
Held(h) == IF cpc = "zero" /\ cur = h THEN 1..(at - 1) ELSE Bucket

\* The goroutines between their two additions to h.
Late(h) == {s \in Sampler : spc[s] = "count" /\ hist[s] = h}

\* The buckets hold no more than what is counted already or about to be.
BucketsCovered ==
    \A h \in Sampler :
        IsFiniteSet(Late(h)) /\ SumOn(datas[h], Held(h)) <= count[h] + Cardinality(Late(h))

\* The inductive invariant.
LatInv == LatTypeOK /\ HistKnown /\ BucketsCovered

\* Where collect is, the buckets are finitely many, and their sum is a number.
LEMMA HeldSums ==
    ASSUME LatInv, NEW h \in Sampler
    PROVE  /\ IsFiniteSet(Held(h)) /\ Held(h) \subseteq Bucket /\ IsFiniteSet(Bucket)
           /\ SumOn(datas[h], Held(h)) \in Nat
           /\ count[h] \in Nat /\ Cardinality(Late(h)) \in Nat
           /\ \A i \in Bucket : datas[h][i] \in Nat
<1>1. NBuckets \in Nat \ {0} /\ at \in 1..NBuckets /\ \A i \in Bucket : datas[h][i] \in Nat
  BY LatencyAssumption DEF LatInv, LatTypeOK, Bucket
<1>2. IsFiniteSet(1..(at - 1)) /\ IsFiniteSet(1..NBuckets)
  BY <1>1, FS_Interval
<1>3. IsFiniteSet(Held(h)) /\ Held(h) \subseteq Bucket /\ IsFiniteSet(Bucket)
  BY <1>1, <1>2 DEF Held, Bucket
<1>4. SumOn(datas[h], Held(h)) \in Nat
  <2>1. \A i \in Held(h) : datas[h][i] \in Nat
    BY <1>1, <1>3
  <2>2. QED
    BY <1>3, <2>1, SumType
<1>5. count[h] \in Nat /\ Cardinality(Late(h)) \in Nat
  BY FS_CardinalityType DEF LatInv, LatTypeOK, BucketsCovered
<1>6. QED
  BY <1>1, <1>3, <1>4, <1>5

\* Every step keeps the types and the histograms that are in use.
LEMMA LatStepTypes ==
    ASSUME LatInv, [LatNext]_latVars
    PROVE  LatTypeOK' /\ HistKnown'
<1> USE DEF LatInv, LatTypeOK, HistKnown
<1>0. NBuckets \in Nat \ {0} /\ None \notin Sampler
  BY LatencyAssumption
<1>1. ASSUME NEW s \in Sampler, Load(s)
      PROVE  LatTypeOK' /\ HistKnown'
  BY <1>1 DEF Load, outVars
<1>2. ASSUME NEW s \in Sampler, Store(s)
      PROVE  LatTypeOK' /\ HistKnown'
  BY <1>2 DEF Store, outVars
<1>3. ASSUME NEW s \in Sampler, AddBucket(s)
      PROVE  LatTypeOK' /\ HistKnown'
  <2>1. hist[s] \in Sampler /\ slot[s] \in Bucket
    BY <1>3 DEF AddBucket
  <2>2. datas' \in [Sampler -> [Bucket -> Nat]]
    BY <1>3, <2>1 DEF AddBucket
  <2>3. QED
    BY <1>3, <2>2 DEF AddBucket, outVars
<1>4. ASSUME NEW s \in Sampler, AddCount(s)
      PROVE  LatTypeOK' /\ HistKnown'
  BY <1>4 DEF AddCount, outVars
<1>5. CASE OutCount
  <2>1. entry \in Sampler /\ count[entry] \in Nat
    BY <1>5 DEF OutCount
  <2>2. total' \in Nat /\ sum' \in Nat /\ at' \in Bucket /\ cpc' \in {"scan", "reset"}
        /\ cur' \in Sampler
    BY <1>0, <1>5, <2>1 DEF OutCount, Bucket
  <2>3. QED
    BY <1>5, <2>1, <2>2 DEF OutCount, inVars
<1>6. CASE OutScan
  <2>1. datas[cur][at] \in Nat
    BY <1>6 DEF OutScan
  <2>2. sum' \in Nat /\ cpc' \in {"scan", "reset"}
    BY <1>6, <2>1 DEF OutScan
  <2>3. at' = at \/ (at # NBuckets /\ at' = at + 1)
    BY <1>6 DEF OutScan
  <2>4. at \in 1..NBuckets
    BY DEF Bucket
  <2>5. at' \in Bucket
    BY <1>0, <2>3, <2>4 DEF Bucket
  <2>6. QED
    BY <1>6, <2>2, <2>5 DEF OutScan, inVars
<1>7. CASE ResetCount
  <2>1. at' \in Bucket
    BY <1>0, <1>7 DEF ResetCount, Bucket
  <2>2. entry \in Sampler /\ count' \in [Sampler -> Nat]
    BY <1>7 DEF ResetCount
  <2>3. QED
    BY <1>7, <2>1, <2>2 DEF ResetCount, inVars
<1>8. CASE ResetBucket
  <2>1. /\ cpc' \in {"zero", "idle"}
        /\ at' = 1 \/ (at # NBuckets /\ at' = at + 1)
    BY <1>8 DEF ResetBucket, LastBucket
  <2>2. at \in 1..NBuckets
    BY DEF Bucket
  <2>3. at' \in Bucket
    BY <1>0, <2>1, <2>2 DEF Bucket
  <2>4. datas' \in [Sampler -> [Bucket -> Nat]]
    BY <1>8 DEF ResetBucket
  <2>5. QED
    BY <1>8, <2>1, <2>3, <2>4 DEF ResetBucket, inVars
<1>9. CASE UNCHANGED latVars
  BY <1>9 DEF latVars
<1>10. QED
  BY <1>1, <1>2, <1>3, <1>4, <1>5, <1>6, <1>7, <1>8, <1>9
  DEF LatNext, In, ReadAndReset

\* Every step keeps the buckets covered.
LEMMA LatStepCovered ==
    ASSUME LatInv, [LatNext]_latVars
    PROVE  BucketsCovered'
<1> SUFFICES ASSUME NEW h \in Sampler
             PROVE  /\ IsFiniteSet(Late(h)')
                    /\ SumOn(datas'[h], Held(h)') <= count'[h] + Cardinality(Late(h)')
  BY DEF BucketsCovered
<1>1. /\ IsFiniteSet(Held(h)) /\ Held(h) \subseteq Bucket /\ IsFiniteSet(Bucket)
      /\ SumOn(datas[h], Held(h)) \in Nat
      /\ count[h] \in Nat /\ Cardinality(Late(h)) \in Nat
      /\ \A i \in Bucket : datas[h][i] \in Nat
  BY HeldSums
<1>2. /\ IsFiniteSet(Late(h))
      /\ SumOn(datas[h], Held(h)) <= count[h] + Cardinality(Late(h))
  BY DEF LatInv, BucketsCovered
<1>3. LatTypeOK /\ HistKnown /\ NBuckets \in Nat \ {0}
  BY LatencyAssumption DEF LatInv
\* A step that h does not notice.
<1>4. ASSUME Late(h)' = Late(h), Held(h)' = Held(h), datas'[h] = datas[h], count'[h] = count[h]
      PROVE  /\ IsFiniteSet(Late(h)')
             /\ SumOn(datas'[h], Held(h)') <= count'[h] + Cardinality(Late(h)')
  <2>1. SumOn(datas'[h], Held(h)') = SumOn(datas[h], Held(h))
    BY <1>4
  <2>2. QED
    BY <1>2, <1>4, <2>1
<1>5. ASSUME NEW s \in Sampler, Load(s) \/ Store(s)
      PROVE  /\ IsFiniteSet(Late(h)')
             /\ SumOn(datas'[h], Held(h)') <= count'[h] + Cardinality(Late(h)')
  <2>1. Held(h)' = Held(h) /\ datas'[h] = datas[h] /\ count'[h] = count[h]
    BY <1>5 DEF Load, Store, outVars, Held
  <2>2. Late(h)' = Late(h)
    BY <1>3, <1>5 DEF Load, Store, Late, LatTypeOK
  <2>3. QED
    BY <1>4, <2>1, <2>2
<1>6. ASSUME NEW s \in Sampler, AddBucket(s)
      PROVE  /\ IsFiniteSet(Late(h)')
             /\ SumOn(datas'[h], Held(h)') <= count'[h] + Cardinality(Late(h)')
  <2>1. Held(h)' = Held(h) /\ count'[h] = count[h]
    BY <1>6 DEF AddBucket, outVars, Held
  <2>2. CASE hist[s] # h
    <3>1. Late(h)' = Late(h) /\ datas'[h] = datas[h]
      BY <1>3, <1>6, <2>2 DEF AddBucket, Late, LatTypeOK
    <3>2. QED
      BY <1>4, <2>1, <3>1
  <2>3. CASE hist[s] = h
    <3> DEFINE f == datas[h]
               i == slot[s]
               g == [f EXCEPT ![i] = f[i] + 1]
    <3>1. i \in Bucket /\ f \in [Bucket -> Nat]
      BY <1>3 DEF LatTypeOK
    <3>2. datas'[h] = g
      BY <1>3, <1>6, <2>3 DEF AddBucket, LatTypeOK
    <3>3. s \notin Late(h) /\ Late(h)' = Late(h) \cup {s}
      BY <1>3, <1>6, <2>3 DEF AddBucket, Late, LatTypeOK
    <3>4. /\ IsFiniteSet(Late(h) \cup {s})
          /\ Cardinality(Late(h) \cup {s}) = Cardinality(Late(h)) + 1
      BY <1>2, <3>3, FS_AddElement
    <3>5. SumOn(g, Held(h)) = SumOn(f, Held(h)) + (IF i \in Held(h) THEN 1 ELSE 0)
      <4>1. \A j \in Held(h) : f[j] \in Nat /\ g[j] = f[j] + (IF j = i THEN 1 ELSE 0)
        BY <1>1, <3>1
      <4> HIDE DEF f, g, i
      <4>2. QED
        BY <1>1, <4>1, SumPlus
    <3>6. SumOn(datas'[h], Held(h)') = SumOn(g, Held(h))
      BY <2>1, <3>2
    <3> HIDE DEF g
    <3>7. QED
      BY <1>1, <1>2, <2>1, <3>3, <3>4, <3>5, <3>6
  <2>4. QED
    BY <2>2, <2>3
<1>7. ASSUME NEW s \in Sampler, AddCount(s)
      PROVE  /\ IsFiniteSet(Late(h)')
             /\ SumOn(datas'[h], Held(h)') <= count'[h] + Cardinality(Late(h)')
  <2>1. Held(h)' = Held(h) /\ datas'[h] = datas[h]
    BY <1>7 DEF AddCount, outVars, Held
  <2>2. CASE hist[s] # h
    <3>1. Late(h)' = Late(h) /\ count'[h] = count[h]
      BY <1>3, <1>7, <2>2 DEF AddCount, Late, LatTypeOK
    <3>2. QED
      BY <1>4, <2>1, <3>1
  <2>3. CASE hist[s] = h
    <3>1. count'[h] = count[h] + 1
      BY <1>3, <1>7, <2>3 DEF AddCount, LatTypeOK
    <3>2. s \in Late(h) /\ Late(h)' = Late(h) \ {s}
      BY <1>3, <1>7, <2>3 DEF AddCount, Late, LatTypeOK
    <3>3. /\ IsFiniteSet(Late(h) \ {s})
          /\ Cardinality(Late(h) \ {s}) = Cardinality(Late(h)) - 1
      BY <1>2, <3>2, FS_RemoveElement
    <3>4. SumOn(datas'[h], Held(h)') = SumOn(datas[h], Held(h))
      BY <2>1
    <3>5. QED
      BY <1>1, <1>2, <3>1, <3>2, <3>3, <3>4
  <2>4. QED
    BY <2>2, <2>3
<1>8. CASE OutCount \/ OutScan
  <2>1. Held(h)' = Held(h)
    BY <1>8 DEF OutCount, OutScan, Held
  <2>2. Late(h)' = Late(h) /\ datas'[h] = datas[h] /\ count'[h] = count[h]
    BY <1>8 DEF OutCount, OutScan, inVars, Late
  <2>3. QED
    BY <1>4, <2>1, <2>2
<1>9. CASE ResetCount
  <2>1. /\ cpc = "reset" /\ cpc' = "zero" /\ cur' = entry /\ at' = 1 /\ datas' = datas
        /\ entry \in Sampler /\ Late(h)' = Late(h)
    BY <1>3, <1>9 DEF ResetCount, inVars, HistKnown, Late
  <2>2. CASE h # entry
    <3>1. Held(h)' = Held(h) /\ count'[h] = count[h]
      BY <1>3, <1>9, <2>1, <2>2 DEF ResetCount, Held, LatTypeOK
    <3>2. QED
      BY <1>4, <2>1, <3>1
  <2>3. CASE h = entry
    <3>1. Held(h)' = {}
      BY <2>1, <2>3 DEF Held
    <3>2. SumOn(datas'[h], Held(h)') = SumOn(datas[h], {})
      BY <2>1, <3>1
    <3>3. SumOn(datas[h], {}) = 0
      <4>1. \A i \in {} : datas[h][i] \in Nat
        OBVIOUS
      <4>2. QED
        BY <4>1, FS_EmptySet, SumType
    <3>4. count'[h] = 0
      BY <1>3, <1>9, <2>3 DEF ResetCount, LatTypeOK
    <3>5. QED
      BY <1>1, <1>2, <2>1, <3>2, <3>3, <3>4
  <2>4. QED
    BY <2>2, <2>3
<1>10. CASE ResetBucket
  <2>1. /\ cpc = "zero" /\ cur \in Sampler /\ at \in 1..NBuckets /\ cur' = cur
        /\ Late(h)' = Late(h) /\ count'[h] = count[h]
        /\ IF at = NBuckets THEN cpc' = "idle" ELSE cpc' = "zero" /\ at' = at + 1
        /\ datas' = [datas EXCEPT ![cur][at] = 0]
    BY <1>3, <1>10 DEF ResetBucket, LastBucket, inVars, HistKnown, Late, LatTypeOK, Bucket
  <2>2. CASE h # cur
    <3>1. Held(h)' = Held(h) /\ datas'[h] = datas[h]
      BY <1>3, <2>1, <2>2 DEF Held, LatTypeOK
    <3>2. QED
      BY <1>4, <2>1, <3>1
  <2>3. CASE h = cur
    <3> DEFINE f == datas[h]
               g == [f EXCEPT ![at] = 0]
               P == 1..at
    <3>1. datas'[h] = g /\ f \in [Bucket -> Nat] /\ at \in Bucket
      BY <1>3, <2>1, <2>3 DEF LatTypeOK
    <3>2. Held(h) = P \ {at} /\ Held(h)' = P /\ P \subseteq Bucket
      BY <1>3, <2>1, <2>3 DEF Held, Bucket
    <3>3. IsFiniteSet(P) /\ at \in P
      BY <2>1, FS_Interval
    <3>4. /\ \A i \in P : g[i] \in Nat
          /\ g[at] = 0
          /\ \A i \in P \ {at} : g[i] = f[i]
      BY <3>1, <3>2
    <3> HIDE DEF f, g, P
    <3>5. SumOn(g, P) = g[at] + SumOn(g, P \ {at})
      BY <3>3, <3>4, SumTake
    <3>6. SumOn(g, P \ {at}) = SumOn(f, P \ {at})
      BY <1>1, <3>2, <3>4, SumSame
    <3>7. SumOn(f, P \ {at}) = SumOn(datas[h], Held(h))
      BY <3>2 DEF f
    <3>8. SumOn(datas'[h], Held(h)') = SumOn(g, P)
      BY <3>1, <3>2
    <3>9. QED
      BY <1>1, <1>2, <2>1, <3>4, <3>5, <3>6, <3>7, <3>8
  <2>4. QED
    BY <2>2, <2>3
<1>11. CASE UNCHANGED latVars
  <2>1. Held(h)' = Held(h) /\ Late(h)' = Late(h) /\ datas'[h] = datas[h] /\ count'[h] = count[h]
    BY <1>11 DEF latVars, Held, Late
  <2>2. QED
    BY <1>4, <2>1
<1>12. QED
  BY <1>5, <1>6, <1>7, <1>8, <1>9, <1>10, <1>11 DEF LatNext, In, ReadAndReset

\* metric.go: unsynchronised additions and clearing never leave a settled histogram
\* with more in its buckets than in its count, for any goroutines and buckets.
THEOREM LatencyIsSafe == LatSpec => []LatSafe
<1>1. LatInit => LatInv
  <2> SUFFICES ASSUME LatInit
               PROVE  LatInv
    OBVIOUS
  <2>0. NBuckets \in Nat \ {0} /\ None \notin Sampler
    BY LatencyAssumption
  <2>1. LatTypeOK /\ HistKnown
    BY <2>0 DEF LatInit, LatTypeOK, HistKnown, Bucket
  <2>2. ASSUME NEW h \in Sampler
        PROVE  IsFiniteSet(Late(h)) /\ SumOn(datas[h], Held(h)) <= count[h] + Cardinality(Late(h))
    <3>1. Late(h) = {} /\ Held(h) = Bucket /\ count[h] = 0
      BY DEF LatInit, Late, Held
    <3>2. IsFiniteSet({}) /\ Cardinality({}) = 0 /\ IsFiniteSet(Bucket)
      BY <2>0, FS_EmptySet, FS_Interval DEF Bucket
    <3>3. \A i \in Bucket : datas[h][i] = 0
      BY DEF LatInit
    <3>4. SumOn(datas[h], Bucket) = 0
      BY <3>2, <3>3, SumZero
    <3>5. QED
      BY <3>1, <3>2, <3>4
  <2>3. QED
    BY <2>1, <2>2 DEF LatInv, BucketsCovered
<1>2. LatInv /\ [LatNext]_latVars => LatInv'
  BY LatStepTypes, LatStepCovered DEF LatInv
<1>3. LatInv => LatSafe
  <2> SUFFICES ASSUME LatInv, NEW h \in Sampler, Settled(h)
               PROVE  Total(h) <= count[h]
    BY DEF LatInv, LatSafe, CountCovers
  <2>1. Held(h) = Bucket /\ Late(h) = {}
    BY DEF Settled, Held, Late
  <2>2. Total(h) = SumOn(datas[h], Bucket)
    <3>1. DOMAIN datas[h] = Bucket
      BY DEF LatInv, LatTypeOK
    <3>2. QED
      BY <3>1, SumDomain DEF Total
  <2>3. SumOn(datas[h], Held(h)) <= count[h] + Cardinality(Late(h))
    BY DEF LatInv, BucketsCovered
  <2>4. count[h] \in Nat /\ Cardinality({}) = 0
    BY FS_EmptySet DEF LatInv, LatTypeOK
  <2>5. QED
    BY <2>1, <2>2, <2>3, <2>4
<1>4. QED
  BY <1>1, <1>2, <1>3, PTL DEF LatSpec

-----------------------------------------------------------------------------
(* What a histogram reports when nothing crosses.                          *)

PctTypeOK ==
    /\ p99Count \in Nat
    /\ p99Datas \in [DOMAIN Buckets -> Nat]
    /\ samples \in [Latencies -> Nat]

Below(b) == {v \in Latencies : v <= b}

\* How many samples there were up to b.
UpTo(b) == SumOn(samples, Below(b))

\* The inductive invariant: every sample that was counted is in one bucket, the
\* first that it fits into.
PctInv ==
    /\ PctTypeOK
    /\ \A v \in Latencies : Fits(v) = {} => samples[v] = 0
    /\ p99Count = SumOn(samples, Latencies)
    /\ \A i \in DOMAIN Buckets : SumOn(p99Datas, 1..i) = UpTo(Buckets[i])

\* The least element of a set of integers is its least element.
LEMMA MinIsLeast ==
    ASSUME NEW S \in SUBSET Int, IsFiniteSet(S), S # {}
    PROVE  Min(S) \in S /\ \A y \in S : Min(S) <= y
<1>1. \E x \in S : \A y \in S : x <= y
  BY Extremes
<1>2. QED
  BY <1>1 DEF Min

\* The buckets and the latencies as the assumptions have them.
LEMMA BucketFacts ==
    /\ Len(Buckets) \in Nat \ {0} /\ DOMAIN Buckets = 1..Len(Buckets)
    /\ IsFiniteSet(DOMAIN Buckets)
    /\ \A i \in DOMAIN Buckets : Buckets[i] \in Nat \ {0} /\ i \in Nat \ {0}
    /\ \A i \in DOMAIN Buckets : IsFiniteSet(1..i) /\ 1..i \subseteq DOMAIN Buckets
    /\ \A i, j \in DOMAIN Buckets : i <= j <=> Buckets[i] <= Buckets[j]
    /\ Latencies \subseteq Int /\ IsFiniteSet(Latencies)
    /\ \A b : IsFiniteSet(Below(b)) /\ Below(b) \subseteq Latencies
<1>1. Len(Buckets) \in Nat \ {0} /\ DOMAIN Buckets = 1..Len(Buckets)
      /\ \A i \in DOMAIN Buckets : Buckets[i] \in Nat \ {0} /\ i \in Nat \ {0}
  BY PercentileAssumption
<1>2. /\ IsFiniteSet(DOMAIN Buckets)
      /\ \A i \in DOMAIN Buckets : IsFiniteSet(1..i) /\ 1..i \subseteq DOMAIN Buckets
  <2>1. \A i \in Nat : IsFiniteSet(1..i)
    BY FS_Interval
  <2>2. \A i \in DOMAIN Buckets : i \in Nat /\ 1..i \subseteq DOMAIN Buckets
    BY <1>1
  <2>3. QED
    BY <1>1, <2>1, <2>2
<1>3. \A i, j \in DOMAIN Buckets : i <= j <=> Buckets[i] <= Buckets[j]
  <2> SUFFICES ASSUME NEW i \in DOMAIN Buckets, NEW j \in DOMAIN Buckets
               PROVE  i <= j <=> Buckets[i] <= Buckets[j]
    OBVIOUS
  <2>1. /\ i < j => Buckets[i] < Buckets[j]
        /\ j < i => Buckets[j] < Buckets[i]
    BY PercentileAssumption
  <2>2. i \in Nat /\ j \in Nat /\ Buckets[i] \in Nat /\ Buckets[j] \in Nat
    BY <1>1
  <2>3. CASE i = j
    BY <2>2, <2>3
  <2>4. CASE i # j
    BY <2>1, <2>2, <2>4
  <2>5. QED
    BY <2>3, <2>4
<1>4. Latencies \subseteq Int /\ IsFiniteSet(Latencies)
  BY PercentileAssumption
<1>5. \A b : IsFiniteSet(Below(b)) /\ Below(b) \subseteq Latencies
  BY <1>4, FS_Subset DEF Below
<1>6. QED
  BY <1>1, <1>2, <1>3, <1>4, <1>5

\* The bucket that counts a sample is among the first i exactly when the sample is
\* not above the bound of the i-th.
LEMMA FirstFit ==
    ASSUME NEW v \in Latencies, Fits(v) # {}
    PROVE  /\ Min(Fits(v)) \in DOMAIN Buckets
           /\ \A i \in DOMAIN Buckets : Min(Fits(v)) \in 1..i <=> v <= Buckets[i]
<1> DEFINE m == Min(Fits(v))
<1>1. Fits(v) \in SUBSET Int /\ IsFiniteSet(Fits(v)) /\ v \in Int
  BY BucketFacts, FS_Subset DEF Fits
<1>2. m \in Fits(v) /\ \A y \in Fits(v) : m <= y
  BY <1>1, MinIsLeast
<1> HIDE DEF m
<1>3. m \in DOMAIN Buckets /\ Buckets[m] >= v
  BY <1>2 DEF Fits
<1>4. ASSUME NEW i \in DOMAIN Buckets
      PROVE  m \in 1..i <=> v <= Buckets[i]
  <2>1. i \in Nat /\ m \in Nat \ {0} /\ Buckets[i] \in Nat /\ Buckets[m] \in Nat
    BY <1>3, BucketFacts
  <2>2. m <= i => Buckets[m] <= Buckets[i]
    BY <1>3, BucketFacts
  <2>3. v <= Buckets[i] => m <= i
    BY <1>2, <2>1, <1>1 DEF Fits
  <2>4. QED
    BY <1>1, <1>3, <2>1, <2>2, <2>3
<1>5. QED
  BY <1>3, <1>4 DEF m

\* The sums are numbers.
LEMMA PctSums ==
    ASSUME PctTypeOK
    PROVE  /\ \A b : UpTo(b) \in Nat /\ UpTo(b) <= SumOn(samples, Latencies)
           /\ \A b, c \in Int : b <= c => UpTo(b) <= UpTo(c)
           /\ SumOn(samples, Latencies) \in Nat
<1>1. /\ IsFiniteSet(Latencies) /\ \A v \in Latencies : samples[v] \in Nat
      /\ \A b : IsFiniteSet(Below(b)) /\ Below(b) \subseteq Latencies
  BY BucketFacts DEF PctTypeOK
<1>2. \A b : UpTo(b) \in Nat /\ UpTo(b) <= SumOn(samples, Latencies)
  <2> SUFFICES ASSUME NEW b
               PROVE  UpTo(b) \in Nat /\ UpTo(b) <= SumOn(samples, Latencies)
    OBVIOUS
  <2>1. Below(b) \subseteq Latencies
    BY <1>1
  <2>2. QED
    BY <1>1, <2>1, SumPart DEF UpTo
<1>3. SumOn(samples, Latencies) \in Nat
  BY <1>1, SumType
<1>4. ASSUME NEW b \in Int, NEW c \in Int, b <= c
      PROVE  UpTo(b) <= UpTo(c)
  <2>1. Below(b) \subseteq Below(c)
    <3>1. \A v \in Latencies : v \in Int
      BY BucketFacts
    <3>2. QED
      BY <1>4, <3>1 DEF Below
  <2>2. IsFiniteSet(Below(c)) /\ \A v \in Below(c) : samples[v] \in Nat
    BY <1>1
  <2>3. QED
    BY <2>1, <2>2, SumPart DEF UpTo
<1>5. QED
  BY <1>2, <1>3, <1>4

\* With no samples every sum is zero.
LEMMA ZeroSums ==
    /\ SumOn([v \in Latencies |-> 0], Latencies) = 0
    /\ \A i \in DOMAIN Buckets : SumOn([j \in DOMAIN Buckets |-> 0], 1..i) = 0
    /\ \A b : SumOn([v \in Latencies |-> 0], Below(b)) = 0
<1> DEFINE f == [v \in Latencies |-> 0]
           d == [j \in DOMAIN Buckets |-> 0]
<1>1. \A v \in Latencies : f[v] = 0
  OBVIOUS
<1>2. \A j \in DOMAIN Buckets : d[j] = 0
  OBVIOUS
<1> HIDE DEF f, d
<1>3. SumOn(f, Latencies) = 0
  BY <1>1, BucketFacts, SumZero
<1>4. ASSUME NEW i \in DOMAIN Buckets
      PROVE  SumOn(d, 1..i) = 0
  <2>1. IsFiniteSet(1..i) /\ 1..i \subseteq DOMAIN Buckets
    BY BucketFacts
  <2>2. QED
    BY <1>2, <2>1, SumZero
<1>5. ASSUME NEW b
      PROVE  SumOn(f, Below(b)) = 0
  <2>1. IsFiniteSet(Below(b)) /\ \A v \in Below(b) : f[v] = 0
    BY <1>1, BucketFacts
  <2>2. QED
    BY <2>1, SumZero
<1>6. QED
  BY <1>3, <1>4, <1>5 DEF f, d

\* Every step keeps the invariant.
LEMMA PctStep ==
    ASSUME PctInv, [PctNext]_pctVars
    PROVE  PctInv'
<1>1. PctTypeOK /\ IsFiniteSet(Latencies) /\ \A v \in Latencies : samples[v] \in Nat
  BY BucketFacts DEF PctInv, PctTypeOK
<1>2. ASSUME NEW v \in Latencies, Sample(v), Fits(v) # {}
      PROVE  PctInv'
  <2> DEFINE m == Min(Fits(v))
  <2>1. /\ m \in DOMAIN Buckets
        /\ \A i \in DOMAIN Buckets : m \in 1..i <=> v <= Buckets[i]
    BY <1>2, FirstFit
  <2>2. /\ p99Datas' = [p99Datas EXCEPT ![m] = @ + 1]
        /\ p99Count' = p99Count + 1
        /\ samples' = [samples EXCEPT ![v] = @ + 1]
    BY <1>2 DEF Sample
  <2> HIDE DEF m
  <2>3. PctTypeOK'
    BY <1>1, <2>1, <2>2 DEF PctTypeOK
  <2>4. \A u \in Latencies : Fits(u) = {} => samples'[u] = 0
    BY <1>1, <1>2, <2>2 DEF PctInv, PctTypeOK
  <2>5. \A u \in Latencies : samples'[u] = samples[u] + (IF u = v THEN 1 ELSE 0)
    BY <1>1, <2>2 DEF PctTypeOK
  <2>6. p99Count' = SumOn(samples', Latencies)
    <3>1. SumOn(samples', Latencies)
            = SumOn(samples, Latencies) + (IF v \in Latencies THEN 1 ELSE 0)
      BY <1>1, <2>5, SumPlus
    <3>2. QED
      BY <2>2, <3>1 DEF PctInv
  <2>7. ASSUME NEW i \in DOMAIN Buckets
        PROVE  SumOn(p99Datas', 1..i) = SumOn(samples', Below(Buckets[i]))
    <3>1. /\ IsFiniteSet(1..i) /\ 1..i \subseteq DOMAIN Buckets
          /\ IsFiniteSet(Below(Buckets[i])) /\ Below(Buckets[i]) \subseteq Latencies
      BY BucketFacts
    <3>2. \A j \in 1..i : p99Datas[j] \in Nat
                          /\ p99Datas'[j] = p99Datas[j] + (IF j = m THEN 1 ELSE 0)
      BY <1>1, <2>2, <3>1 DEF PctTypeOK
    <3>3. SumOn(p99Datas', 1..i) = SumOn(p99Datas, 1..i) + (IF m \in 1..i THEN 1 ELSE 0)
      BY <3>1, <3>2, SumPlus
    <3>4. \A u \in Below(Buckets[i]) : /\ samples[u] \in Nat
                                       /\ samples'[u] = samples[u] + (IF u = v THEN 1 ELSE 0)
      BY <1>1, <2>5, <3>1
    <3>5. SumOn(samples', Below(Buckets[i]))
            = SumOn(samples, Below(Buckets[i])) + (IF v \in Below(Buckets[i]) THEN 1 ELSE 0)
      BY <3>1, <3>4, SumPlus
    <3>6. m \in 1..i <=> v \in Below(Buckets[i])
      BY <2>1 DEF Below
    <3>7. SumOn(p99Datas, 1..i) = SumOn(samples, Below(Buckets[i]))
      BY DEF PctInv, UpTo
    <3>8. QED
      BY <3>3, <3>5, <3>6, <3>7
  <2>8. QED
    BY <2>3, <2>4, <2>6, <2>7 DEF PctInv, UpTo, Below, Fits
<1>3. CASE UNCHANGED pctVars
  BY <1>3 DEF pctVars, PctInv, PctTypeOK, UpTo, Below, Fits
<1>4. ASSUME NEW v \in Latencies, Sample(v), Fits(v) = {}
      PROVE  PctInv'
  BY <1>3, <1>4 DEF Sample
<1>5. CASE Reset
  <2>1. PctTypeOK' /\ \A v \in Latencies : samples'[v] = 0
    BY <1>5 DEF Reset, PctTypeOK
  <2>2. QED
    BY <1>5, <2>1, ZeroSums DEF Reset, PctInv, UpTo
<1>6. QED
  BY <1>2, <1>3, <1>4, <1>5 DEF PctNext

\* How many samples of n make 99 percent.
Rank(n) == (99 * n + 99) \div 100

LEMMA RankReached ==
    ASSUME NEW n \in Nat, NEW u \in Nat
    PROVE  /\ Rank(n) \in Nat /\ (n > 0 => Rank(n) > 0) /\ Rank(n) <= n
           /\ 100 * u >= 99 * n <=> u >= Rank(n)
BY DEF Rank

\* The greatest of the latencies up to b that were sampled has all of these below it.
LEMMA LastSample ==
    ASSUME PctTypeOK, NEW b \in Int, UpTo(b) > 0
    PROVE  \E v \in Below(b) : samples[v] > 0 /\ UpTo(v) = UpTo(b)
<1> DEFINE S == {v \in Below(b) : samples[v] > 0}
<1>1. /\ IsFiniteSet(Below(b)) /\ Below(b) \subseteq Latencies /\ Latencies \subseteq Int
      /\ \A v \in Latencies : samples[v] \in Nat
  BY BucketFacts DEF PctTypeOK
<1>2. S # {}
  <2> SUFFICES ASSUME \A v \in Below(b) : ~(samples[v] > 0)
               PROVE  FALSE
    OBVIOUS
  <2>1. ASSUME NEW v \in Below(b)
        PROVE  samples[v] = 0
    <3>1. samples[v] \in Nat /\ ~(samples[v] > 0)
      BY <1>1
    <3>2. QED
      BY <3>1
  <2>2. UpTo(b) = 0
    BY <1>1, <2>1, SumZero DEF UpTo
  <2>3. QED
    BY <2>2
<1>3. PICK v \in S : \A y \in S : v >= y
  <2>1. S \in SUBSET Int /\ IsFiniteSet(S)
    BY <1>1, FS_Subset
  <2> HIDE DEF S
  <2>2. QED
    BY <1>2, <2>1, Extremes
<1>4. Below(v) \subseteq Below(b)
  <2>1. v \in Int /\ v <= b /\ \A u \in Latencies : u \in Int
    BY <1>1 DEF Below
  <2> HIDE DEF S
  <2>2. ASSUME NEW u \in Latencies, u <= v
        PROVE  u <= b
    <3>1. u \in Int
      BY <2>1
    <3>2. QED
      BY <2>1, <2>2, <3>1
  <2>3. QED
    BY <2>2 DEF Below
<1>5. \A u \in Below(b) \ Below(v) : samples[u] = 0
  <2> SUFFICES ASSUME NEW u \in Below(b), u \notin Below(v)
               PROVE  samples[u] = 0
    OBVIOUS
  <2>1. ~(u <= v) /\ u \in Int /\ v \in Int /\ samples[u] \in Nat
    BY <1>1 DEF Below
  <2>2. u \notin S
    BY <1>3, <2>1
  <2>3. QED
    BY <2>1, <2>2
<1>6. UpTo(v) = UpTo(b)
  <2>1. \A i \in Below(b) : samples[i] \in Nat
    BY <1>1
  <2>2. QED
    BY <1>1, <1>4, <1>5, <2>1, SumPart DEF UpTo
<1>7. QED
  BY <1>6

\* Out is the bound of the first bucket up to which there are Rank samples.
LEMMA OutIs ==
    ASSUME PctInv, p99Count > 0
    PROVE  \E m \in DOMAIN Buckets :
             /\ Out = Buckets[m] /\ UpTo(Buckets[m]) >= Rank(p99Count)
             /\ \A i \in DOMAIN Buckets : i < m => UpTo(Buckets[i]) < Rank(p99Count)
<1> DEFINE reach == {i \in DOMAIN Buckets : UpTo(Buckets[i]) >= Rank(p99Count)}
           L == Len(Buckets)
<1>1. PctTypeOK /\ p99Count \in Nat /\ p99Count = SumOn(samples, Latencies)
  BY DEF PctInv, PctTypeOK
<1>2. \A i \in DOMAIN Buckets :
        FoldSeq(+, 0, SubSeq(p99Datas, 1, i)) = UpTo(Buckets[i])
  <2> SUFFICES ASSUME NEW i \in DOMAIN Buckets
               PROVE  FoldSeq(+, 0, SubSeq(p99Datas, 1, i)) = UpTo(Buckets[i])
    OBVIOUS
  <2> DEFINE q == SubSeq(p99Datas, 1, i)
  <2>1. i \in Nat \ {0} /\ 1..i \subseteq DOMAIN Buckets /\ IsFiniteSet(1..i)
    BY BucketFacts
  <2>2. p99Datas \in Seq(Nat) /\ i \in 1..Len(p99Datas)
    BY <1>1, BucketFacts DEF PctTypeOK
  <2>3. DOMAIN q = 1..i /\ \A j \in 1..i : q[j] = p99Datas[j]
    BY <2>1, <2>2
  <2> HIDE DEF q
  <2>4. SumOn(q, 1..i) = SumOn(p99Datas, 1..i)
    BY <2>1, <2>3, SumSame
  <2>5. FoldSeq(+, 0, q) = SumOn(q, DOMAIN q)
    BY SumDomain DEF FoldSeq
  <2>6. QED
    BY <2>3, <2>4, <2>5 DEF q, PctInv
<1>3. \A i \in DOMAIN Buckets : Enough(UpTo(Buckets[i])) <=> UpTo(Buckets[i]) >= Rank(p99Count)
  BY <1>1, PctSums, RankReached DEF Enough
<1>4. Out = IF reach = {} THEN 0 ELSE Buckets[Min(reach)]
  <2>1. {i \in DOMAIN Buckets : Enough(FoldSeq(+, 0, SubSeq(p99Datas, 1, i)))} = reach
    BY <1>2, <1>3
  <2>2. p99Count # 0
    BY <1>1
  <2>3. QED
    BY <2>1, <2>2, Zenon DEF Out
<1>5. L \in reach
  <2>1. L \in DOMAIN Buckets
    BY BucketFacts
  <2>2. \A v \in Latencies \ Below(Buckets[L]) : samples[v] = 0
    <3> SUFFICES ASSUME NEW v \in Latencies, v \notin Below(Buckets[L])
                 PROVE  Fits(v) = {}
      BY DEF PctInv
    <3>1. v \in Int /\ ~(v <= Buckets[L]) /\ Buckets[L] \in Nat
      BY <2>1, BucketFacts DEF Below
    <3>2. \A i \in DOMAIN Buckets : Buckets[i] <= Buckets[L] /\ Buckets[i] \in Nat
      BY <2>1, BucketFacts
    <3>3. QED
      BY <3>1, <3>2 DEF Fits
  <2>3. UpTo(Buckets[L]) = p99Count
    <3>1. /\ IsFiniteSet(Latencies) /\ Below(Buckets[L]) \subseteq Latencies
          /\ \A v \in Latencies : samples[v] \in Nat
      BY <1>1, BucketFacts DEF PctTypeOK
    <3>2. QED
      BY <1>1, <2>2, <3>1, SumPart DEF UpTo
  <2>4. QED
    BY <1>1, <2>1, <2>3, RankReached
<1>6. Min(reach) \in reach /\ \A i \in reach : Min(reach) <= i
  <2>1. reach \in SUBSET Int /\ IsFiniteSet(reach)
    BY BucketFacts, FS_Subset
  <2> HIDE DEF reach
  <2>2. QED
    BY <1>5, <2>1, MinIsLeast
<1>7. ASSUME NEW i \in DOMAIN Buckets, i < Min(reach)
      PROVE  UpTo(Buckets[i]) < Rank(p99Count)
  <2>1. i \notin reach
    <3>1. i \in Int /\ Min(reach) \in Int
      BY <1>6, BucketFacts
    <3> HIDE DEF reach
    <3>2. QED
      BY <1>6, <1>7, <3>1
  <2>2. UpTo(Buckets[i]) \in Nat /\ Rank(p99Count) \in Nat
    BY <1>1, PctSums, RankReached
  <2>3. QED
    BY <2>1, <2>2
<1>8. QED
  BY <1>4, <1>5, <1>6, <1>7

\* metric.go: what Out reports is the 99th percentile up to the width of a bucket,
\* for any bucket bounds, any latencies and any number of samples.
THEOREM OutIsExact == PctSpec => []OutIsPercentile
<1>1. PctInit => PctInv
  <2> SUFFICES ASSUME PctInit
               PROVE  PctInv
    OBVIOUS
  <2>1. PctTypeOK /\ \A v \in Latencies : samples[v] = 0
    BY DEF PctInit, PctTypeOK
  <2>2. QED
    BY <2>1, ZeroSums DEF PctInit, PctInv, UpTo
<1>2. PctInv /\ [PctNext]_pctVars => PctInv'
  BY PctStep
<1>3. PctInv => OutIsPercentile
  <2> SUFFICES ASSUME PctInv
               PROVE  OutIsPercentile
    OBVIOUS
  <2>1. /\ PctTypeOK /\ p99Count \in Nat /\ p99Count = SumOn(samples, Latencies)
        /\ IsFiniteSet(Latencies) /\ Latencies \subseteq Int
        /\ \A v \in Latencies : samples[v] \in Nat
    BY BucketFacts DEF PctInv, PctTypeOK
  <2>2. CASE \A v \in Latencies : samples[v] = 0
    <3>1. p99Count = 0
      BY <2>1, <2>2, SumZero
    <3>2. Out = 0
      BY <3>1 DEF Out
    <3>3. QED
      BY <2>2, <3>2 DEF OutIsPercentile
  <2>3. CASE ~ \A v \in Latencies : samples[v] = 0
    <3> DEFINE r == Rank(p99Count)
               V == {v \in Latencies : UpTo(v) >= r /\ samples[v] > 0}
    <3>1. p99Count > 0
      <4>1. PICK v \in Latencies : samples[v] # 0
        BY <2>3
      <4>2. SumOn(samples, Latencies) = samples[v] + SumOn(samples, Latencies \ {v})
        BY <2>1, SumTake
      <4>3. SumOn(samples, Latencies \ {v}) \in Nat
        <5>1. IsFiniteSet(Latencies \ {v}) /\ \A u \in Latencies \ {v} : samples[u] \in Nat
          BY <2>1, FS_Subset
        <5>2. QED
          BY <5>1, SumType
      <4>4. QED
        BY <2>1, <4>1, <4>2, <4>3
    <3>2. r \in Nat /\ r > 0
      BY <2>1, <3>1, RankReached
    <3>3. PICK m \in DOMAIN Buckets :
             /\ Out = Buckets[m] /\ UpTo(Buckets[m]) >= r
             /\ \A i \in DOMAIN Buckets : i < m => UpTo(Buckets[i]) < r
      BY <3>1, OutIs
    <3>4. NearestRank = Min(V)
      <4>1. NearestRank = Min({v \in Latencies :
                   /\ UpTo(v) >= (99 * SumOn(samples, DOMAIN samples) + 99) \div 100
                   /\ samples[v] > 0})
        BY Zenon DEF NearestRank, UpTo, Below, SumOn, FoldFunction
      <4>2. SumOn(samples, DOMAIN samples) = p99Count
        BY <2>1 DEF PctTypeOK
      <4>3. QED
        BY <4>1, <4>2, Zenon DEF Rank
    <3> HIDE DEF r
    <3>5. PICK w \in Latencies : w \in V /\ w <= Buckets[m]
      <4>1. Buckets[m] \in Int /\ UpTo(Buckets[m]) \in Nat /\ UpTo(Buckets[m]) > 0
        BY <2>1, <3>2, <3>3, BucketFacts, PctSums
      <4>2. PICK v \in Below(Buckets[m]) : samples[v] > 0 /\ UpTo(v) = UpTo(Buckets[m])
        BY <2>1, <4>1, LastSample
      <4>3. QED
        BY <3>3, <4>2 DEF Below
    <3>6. PICK a \in V : a = Min(V) /\ \A v \in V : a <= v
      <4>1. V \in SUBSET Int /\ IsFiniteSet(V)
        BY <2>1, FS_Subset
      <4> HIDE DEF V
      <4>2. QED
        BY <3>5, <4>1, MinIsLeast
    <3>7. a \in Int /\ UpTo(a) >= r /\ UpTo(a) \in Nat
      BY <2>1, PctSums
    <3> HIDE DEF V
    <3>8. a <= Buckets[m]
      <4>1. a <= w /\ w \in Int /\ Buckets[m] \in Int
        BY <2>1, <3>5, <3>6, BucketFacts
      <4>2. QED
        BY <3>5, <3>7, <4>1
    <3>9. ASSUME NEW i \in DOMAIN Buckets, Buckets[i] < Buckets[m]
          PROVE  Buckets[i] < a
      <4>1. i \in Nat /\ m \in Nat /\ Buckets[i] \in Nat /\ Buckets[m] \in Nat
        BY BucketFacts
      <4>2. i < m
        BY <3>9, <4>1, BucketFacts
      <4>3. UpTo(Buckets[i]) < r /\ UpTo(Buckets[i]) \in Nat
        BY <2>1, <3>3, <4>2, PctSums
      <4>4. a <= Buckets[i] => UpTo(a) <= UpTo(Buckets[i])
        BY <2>1, <3>7, <4>1, PctSums
      <4>5. QED
        BY <3>2, <3>7, <4>1, <4>3, <4>4
    <3>10. QED
      BY <2>3, <3>3, <3>4, <3>6, <3>8, <3>9 DEF OutIsPercentile
  <2>4. QED
    BY <2>2, <2>3
<1>4. QED
  BY <1>1, <1>2, <1>3, PTL DEF PctSpec
=============================================================================
