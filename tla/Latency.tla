------------------------------ MODULE Latency -------------------------------
(***************************************************************************)
(* The latency histograms of pkg/metric/metric.go: ProtoP99.In, called by  *)
(* the goroutine of every request when it ends, against collect, which     *)
(* every ten seconds reads the 99th percentile (Out) and clears the        *)
(* histogram (Reset).  Nothing is locked: bucket counters and total are    *)
(* separate atomics, so every access is a step of its own.                 *)
(*                                                                         *)
(* Histograms of different protocols are separate entries of a sync.Map;   *)
(* one entry is modelled.  A latency is the bucket it falls into.  A       *)
(* histogram is named after the goroutine that created it.                 *)
(***************************************************************************)
EXTENDS Integers, Functions

CONSTANTS
    Sampler,    \* the goroutines that report one latency each
    NBuckets,   \* number of buckets (17 in the code)
    None

ASSUME LatencyAssumption ==
    /\ NBuckets \in Nat \ {0}
    /\ None \notin Sampler

VARIABLES
    entry,    \* the histogram the sync.Map holds for the protocol
    count,    \* P99.count of each histogram
    datas,    \* P99.datas of each histogram
    spc,      \* where each goroutine is in ProtoP99.In
    hist,     \* the histogram it got
    slot,     \* the bucket its latency falls into
    cpc,      \* where collect is
    cur,      \* the histogram Range handed to collect
    total,    \* the count that Out has loaded
    sum,      \* the sum that Out has reached
    at        \* the bucket Out or Reset is at

inVars == <<spc, hist, slot>>
outVars == <<cpc, cur, total, sum, at>>
latVars == <<entry, count, datas, spc, hist, slot, cpc, cur, total, sum, at>>

Bucket == 1..NBuckets

Total(h) == FoldFunction(+, 0, datas[h])

LatTypeOK ==
    /\ entry \in Sampler \cup {None}
    /\ count \in [Sampler -> Nat]
    /\ datas \in [Sampler -> [Bucket -> Nat]]
    /\ spc \in [Sampler -> {"load", "store", "bucket", "count", "done"}]
    /\ hist \in [Sampler -> Sampler \cup {None}]
    /\ slot \in [Sampler -> Bucket]
    /\ cpc \in {"idle", "scan", "reset", "zero"}
    /\ cur \in Sampler \cup {None}
    /\ total \in Nat
    /\ sum \in Nat
    /\ at \in Bucket

LatInit ==
    /\ entry = None
    /\ count = [s \in Sampler |-> 0]
    /\ datas = [s \in Sampler |-> [i \in Bucket |-> 0]]
    /\ spc = [s \in Sampler |-> "load"]
    /\ hist = [s \in Sampler |-> None]
    /\ slot \in [Sampler -> Bucket]
    /\ cpc = "idle"
    /\ cur = None
    /\ total = 0
    /\ sum = 0
    /\ at = 1

-----------------------------------------------------------------------------
(* ProtoP99.In and P99.In.                                                 *)

\* p.Load(proto).
Load(s) ==
    /\ spc[s] = "load"
    /\ spc' = [spc EXCEPT ![s] = IF entry = None THEN "store" ELSE "bucket"]
    /\ hist' = [hist EXCEPT ![s] = entry]
    /\ UNCHANGED <<entry, count, datas, slot, outVars>>

\* NewP99 and p.Store, whatever others have stored since.
Store(s) ==
    /\ spc[s] = "store"
    /\ entry' = s
    /\ hist' = [hist EXCEPT ![s] = s]
    /\ spc' = [spc EXCEPT ![s] = "bucket"]
    /\ UNCHANGED <<count, datas, slot, outVars>>

\* The bucket counter's Add(1).
AddBucket(s) ==
    /\ spc[s] = "bucket"
    /\ datas' = [datas EXCEPT ![hist[s]][slot[s]] = @ + 1]
    /\ spc' = [spc EXCEPT ![s] = "count"]
    /\ UNCHANGED <<entry, count, hist, slot, outVars>>

\* b.count.Add(1).
AddCount(s) ==
    /\ spc[s] = "count"
    /\ count' = [count EXCEPT ![hist[s]] = @ + 1]
    /\ spc' = [spc EXCEPT ![s] = "done"]
    /\ UNCHANGED <<entry, datas, hist, slot, outVars>>

In(s) == Load(s) \/ Store(s) \/ AddBucket(s) \/ AddCount(s)

-----------------------------------------------------------------------------
(* collect: Out, then reset.                                               *)

\* Range finds the entry; Out loads the count and gives up when it is 0.
OutCount ==
    /\ cpc = "idle"
    /\ entry # None
    /\ cur' = entry
    /\ total' = count[entry]
    /\ sum' = 0
    /\ at' = 1
    /\ cpc' = IF count[entry] = 0 THEN "reset" ELSE "scan"
    /\ UNCHANGED <<entry, count, datas, inVars>>

\* One turn of Out's loop: it ends at the bucket that makes 99 percent, or
\* behind the last bucket.
OutScan ==
    /\ cpc = "scan"
    /\ sum' = sum + datas[cur][at]
    /\ IF 100 * sum' >= 99 * total \/ at = NBuckets
       THEN cpc' = "reset" /\ UNCHANGED at
       ELSE at' = at + 1 /\ UNCHANGED cpc
    /\ UNCHANGED <<entry, count, datas, inVars, cur, total>>

\* Seeded defect of ResetCount: the total is not cleared.
ResetCountForgotten ==
    /\ cpc = "reset"
    /\ cur' = entry
    /\ at' = 1
    /\ cpc' = "zero"
    /\ UNCHANGED <<entry, count, datas, inVars, total, sum>>

\* Reset ranges over the map again and clears the count first.
ResetCount ==
    /\ cpc = "reset"
    /\ cur' = entry
    /\ count' = [count EXCEPT ![entry] = 0]
    /\ at' = 1
    /\ cpc' = "zero"
    /\ UNCHANGED <<entry, datas, inVars, total, sum>>

\* Seeded defect of LastBucket: the loop ends one bucket early.
LastBucketEarly == NBuckets - 1

\* Where the loop over b.buckets ends.
LastBucket == NBuckets

\* Then it clears the buckets one by one.
ResetBucket ==
    /\ cpc = "zero"
    /\ datas' = [datas EXCEPT ![cur][at] = 0]
    /\ IF at = LastBucket
       THEN cpc' = "idle" /\ at' = 1
       ELSE at' = at + 1 /\ UNCHANGED cpc
    /\ UNCHANGED <<entry, count, inVars, cur, total, sum>>

ReadAndReset == OutCount \/ OutScan \/ ResetCount \/ ResetBucket

LatNext == (\E s \in Sampler : In(s)) \/ ReadAndReset

LatSpec == LatInit /\ [][LatNext]_latVars

\* The report ticker fires again and again; goroutines are scheduled.
LatFairSpec ==
    LatSpec /\ WF_latVars(ReadAndReset) /\ \A s \in Sampler : WF_latVars(In(s))

-----------------------------------------------------------------------------
(* Properties.                                                             *)

\* No goroutine is between its two additions and Reset is not under way.
Settled(h) == cpc # "zero" /\ \A s \in Sampler : hist[s] = h => spc[s] # "count"

\* In and Reset may cross, but they leave an error of one sign only: the
\* buckets never hold more than the count, so a settled histogram does not
\* report a percentile that less than 99 percent of its samples reach.
CountCovers == \A h \in Sampler : Settled(h) => Total(h) <= count[h]

\* The histograms keep their shape and lean to one side only.
LatSafe == LatTypeOK /\ CountCovers


\* What a crossing of In and Reset leaves behind does not last: again and
\* again the count is the sum of the buckets.
DriftHeals == []<>(entry # None => count[entry] = Total(entry))
=============================================================================
