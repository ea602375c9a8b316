------------------------------- MODULE Report -------------------------------
(***************************************************************************)
(* The periodic report of pkg/metric/metric.go: the goroutine of Report,   *)
(* with collect, getRuntume and reset, against the requests that count     *)
(* themselves.  Every counter is an atomic of its own and nothing is       *)
(* locked.  The latency histograms, which collect also reads and clears,   *)
(* are in Latency; the text of Data is its numbers; the TCP status, which  *)
(* is never filled in, is left out.                                        *)
(***************************************************************************)
EXTENDS Integers, FiniteSetsExt

CONSTANTS
    Counter,   \* CountPublicTCPRequest and CountPrivateHTTPRequest
    Gauge,     \* the runtime metrics of getRuntume
    Reading,   \* what the runtime reads: numbers, none of them 0
    Period,    \* the interval of collect, by which counts are divided: 10
    MaxHits,   \* bound: requests counted by one counter
    MaxRounds  \* bound: calls of collect

ASSUME ReportAssumption ==
    /\ Period \in Nat \ {0} /\ Reading \subseteq Nat \ {0}
    /\ {MaxHits, MaxRounds} \subseteq Nat

VARIABLES
    value,     \* the counters
    gauge,     \* the atomics that getRuntume stores into
    rpc,       \* where the goroutine of Report is
    todo,      \* the counters it has still to load or to clear
    loaded,    \* the counts it has loaded
    data,      \* metric.Data
    posted,    \* the last Data handed to AlertAuto
    rounds,    \* calls of collect
    hits,      \* requests so far
    shown,     \* the sum of the rates shown in Data so far
    taken,     \* the sum of the counts loaded so far
    late,      \* requests counted between the load and the clearing
    read       \* what the runtime has read in this round, 0 if nothing

collectVars == <<rpc, todo, loaded, data, posted, rounds, shown, taken>>
repVars == <<value, gauge, rpc, todo, loaded, data, posted, rounds, hits, shown, taken, late, read>>

Zero(S) == [x \in S |-> 0]
NoData == [rate |-> Zero(Counter), gauge |-> Zero(Gauge)]

ReportTypeOK ==
    /\ value \in [Counter -> 0..MaxHits]
    /\ gauge \in [Gauge -> Reading \cup {0}]
    /\ rpc \in {"select", "sample", "load", "publish", "clear", "gauges"}
    /\ todo \subseteq Counter
    /\ loaded \in [Counter -> 0..MaxHits]
    /\ {data, posted} \subseteq [rate : [Counter -> Nat], gauge : [Gauge -> Reading \cup {0}]]
    /\ rounds \in 0..MaxRounds
    /\ hits \in [Counter -> 0..MaxHits]

RepInit ==
    /\ value = Zero(Counter)
    /\ gauge = Zero(Gauge)
    /\ rpc = "select"
    /\ todo = {}
    /\ loaded = Zero(Counter)
    /\ data = NoData
    /\ posted = NoData
    /\ rounds = 0
    /\ hits = Zero(Counter)
    /\ shown = Zero(Counter)
    /\ taken = Zero(Counter)
    /\ late = Zero(Counter)
    /\ read = Zero(Gauge)

\* The count of c is loaded and not cleared yet.
Between(c) == \/ rpc = "load" /\ c \notin todo
              \/ rpc = "publish"
              \/ rpc = "clear" /\ c \in todo

\* A request adds itself to a counter.
Hit(c) ==
    /\ hits[c] < MaxHits
    /\ hits' = [hits EXCEPT ![c] = @ + 1]
    /\ value' = [value EXCEPT ![c] = @ + 1]
    /\ late' = IF Between(c) THEN [late EXCEPT ![c] = @ + 1] ELSE late
    /\ UNCHANGED <<gauge, collectVars, read>>

\* t0: AlertAuto(Data).
Post ==
    /\ rpc = "select"
    /\ posted' = data
    /\ UNCHANGED <<value, gauge, rpc, todo, loaded, data, rounds, hits, shown, taken, late, read>>

\* t2: collect begins.
Collect ==
    /\ rpc = "select"
    /\ rounds < MaxRounds
    /\ rounds' = rounds + 1
    /\ rpc' = "sample"
    /\ UNCHANGED <<value, gauge, todo, loaded, data, posted, hits, shown, taken, late, read>>

\* getRuntume: a metric the runtime does not have leaves its atomic alone.
GetRuntime ==
    /\ rpc = "sample"
    /\ read' \in [Gauge -> Reading \cup {0}]
    /\ gauge' = [g \in Gauge |-> IF read'[g] = 0 THEN gauge[g] ELSE read'[g]]
    /\ rpc' = "load"
    /\ todo' = Counter
    /\ UNCHANGED <<value, loaded, data, posted, rounds, hits, shown, taken, late>>

\* The arguments of Sprintf are evaluated; in which order makes no difference.
LoadCounter(c) ==
    /\ rpc = "load"
    /\ c \in todo
    /\ todo' = todo \ {c}
    /\ loaded' = [loaded EXCEPT ![c] = value[c]]
    /\ taken' = [taken EXCEPT ![c] = @ + value[c]]
    /\ rpc' = IF todo' = {} THEN "publish" ELSE rpc
    /\ UNCHANGED <<value, gauge, data, posted, rounds, hits, shown, late, read>>

\* Data is assigned.
Publish ==
    LET rate == [c \in Counter |-> loaded[c] \div Period]
    IN  /\ rpc = "publish"
        /\ data' = [rate |-> rate, gauge |-> gauge]
        /\ shown' = [c \in Counter |-> shown[c] + rate[c]]
        /\ rpc' = "clear"
        /\ todo' = Counter
        /\ UNCHANGED <<value, gauge, loaded, posted, rounds, hits, taken, late, read>>

\* Seeded defect of Cleared: the count stays.
ClearedNot(c) == value

\* Store(0).
Cleared(c) == [value EXCEPT ![c] = 0]

\* reset: the counters one by one.
ClearCounter(c) ==
    /\ rpc = "clear"
    /\ c \in todo
    /\ todo' = todo \ {c}
    /\ value' = Cleared(c)
    /\ rpc' = IF todo' = {} THEN "gauges" ELSE rpc
    /\ UNCHANGED <<gauge, loaded, data, posted, rounds, hits, shown, taken, late, read>>

ResetGauge == Zero(Gauge)

\* reset: the runtime metrics.
ClearGauges ==
    /\ rpc = "gauges"
    /\ gauge' = ResetGauge
    /\ rpc' = "select"
    /\ UNCHANGED <<value, todo, loaded, data, posted, rounds, hits, shown, taken, late, read>>

RepNext ==
    \/ \E c \in Counter : Hit(c) \/ LoadCounter(c) \/ ClearCounter(c)
    \/ Post \/ Collect \/ GetRuntime \/ Publish \/ ClearGauges

RepSpec == RepInit /\ [][RepNext]_repVars

-----------------------------------------------------------------------------
(* Properties.                                                             *)

\* No request is reported twice, and only requests that come while collect is
\* between its load and its clearing are lost.
CountedOnce ==
    \A c \in Counter :
      /\ Period * shown[c] <= hits[c]
      /\ ~Between(c) => hits[c] = taken[c] + value[c] + late[c]

\* A number that the runtime could not read is shown as 0, never as that of an
\* earlier round.
FreshGauges == rpc \in {"clear", "gauges"} => data.gauge = read

\* What Data says is what happened, as far as it was counted in time.
ReportSafe == ReportTypeOK /\ CountedOnce /\ FreshGauges
=============================================================================
