----------------------------- MODULE Percentile -----------------------------
(***************************************************************************)
(* What a latency histogram of pkg/metric/metric.go reports when nothing   *)
(* crosses (that is the business of Latency): P99.In, Out and Reset one    *)
(* after the other, with enough samples for 99 percent to mean something.  *)
(* sum / count >= 0.99 is compared without rounding: where the quotient is *)
(* 99/100 exactly, float64 rounds it to the same number as 0.99.           *)
(***************************************************************************)
EXTENDS Integers, SequencesExt

CONSTANTS
    Latencies,  \* latencies in ms that occur
    Buckets,    \* the upper bounds of the buckets, ascending
    MaxCount    \* bound: samples of an interval

ASSUME PercentileAssumption ==
    /\ Latencies \subseteq Int /\ IsFiniteSet(Latencies)
    /\ Buckets \in Seq(Nat \ {0}) /\ Buckets # <<>>
    /\ \A i, j \in DOMAIN Buckets : i < j => Buckets[i] < Buckets[j]

VARIABLES
    p99Count,   \* P99.count
    p99Datas,   \* P99.datas
    samples     \* how often each latency was reported since the last Reset

pctVars == <<p99Count, p99Datas, samples>>

PctInit ==
    /\ p99Count = 0
    /\ p99Datas = [i \in DOMAIN Buckets |-> 0]
    /\ samples = [v \in Latencies |-> 0]

\* Seeded defect of Fits: a latency on the bound goes into the next bucket.
FitsStrict(v) == {i \in DOMAIN Buckets : Buckets[i] > v}

\* The buckets a latency fits into.
Fits(v) == {i \in DOMAIN Buckets : Buckets[i] >= v}

\* The first of them counts it; a latency beyond the last is not counted at all.
Sample(v) ==
    /\ p99Count < MaxCount
    /\ IF Fits(v) = {} THEN UNCHANGED pctVars
       ELSE /\ p99Datas' = [p99Datas EXCEPT ![Min(Fits(v))] = @ + 1]
            /\ p99Count' = p99Count + 1
            /\ samples' = [samples EXCEPT ![v] = @ + 1]

Reset ==
    /\ p99Count' = 0
    /\ p99Datas' = [i \in DOMAIN Buckets |-> 0]
    /\ samples' = [v \in Latencies |-> 0]

\* Seeded defect of Enough: more than 99 percent are asked for.
EnoughStrict(sum) == 100 * sum > 99 * p99Count

Enough(sum) == 100 * sum >= 99 * p99Count

\* The first bucket up to which there are enough samples; 0 if there are none.
Out ==
    LET sum(i) == FoldSeq(+, 0, SubSeq(p99Datas, 1, i))
        reach  == {i \in DOMAIN Buckets : Enough(sum(i))}
    IN  IF p99Count = 0 \/ reach = {} THEN 0 ELSE Buckets[Min(reach)]

PctNext == (\E v \in Latencies : Sample(v)) \/ Reset

PctSpec == PctInit /\ [][PctNext]_pctVars

-----------------------------------------------------------------------------
(* Properties.                                                             *)

\* The sample of rank ceil(99 * n / 100) of the n samples in ascending order.
NearestRank ==
    LET n     == FoldFunction(+, 0, samples)
        rank  == (99 * n + 99) \div 100
        upTo(v) == FoldFunctionOnSet(+, 0, samples, {u \in Latencies : u <= v})
    IN  Min({v \in Latencies : upTo(v) >= rank /\ samples[v] > 0})

\* P99.Out is the 99th percentile as it is defined by rank, up to the width of a
\* bucket: the percentile is not above what is reported, and above the bound of
\* the bucket before.  With no sample nothing is reported.
OutIsPercentile ==
    IF \A v \in Latencies : samples[v] = 0 THEN Out = 0
    ELSE /\ NearestRank <= Out
         /\ \A i \in DOMAIN Buckets : Buckets[i] < Out => Buckets[i] < NearestRank
=============================================================================
