----------------------------- MODULE Discovery ------------------------------
(***************************************************************************)
(* Service discovery (pkg/discovery/discovery.go): the gateway writes      *)
(* itself into a Redis hash with an expiration time ten seconds ahead, at  *)
(* start and then again five seconds after each attempt has come back.     *)
(*                                                                         *)
(* Redis and the readers of the hash are external: a reader takes the node *)
(* for gone once its ExpireTime has passed.  Time is counted in ticks.     *)
(* ExpireTime is a whole number of Unix seconds, so the part of a second   *)
(* in which it is computed is cut off.  Times are kept as what is left of  *)
(* them, which makes the state finite without a horizon.                   *)
(***************************************************************************)
EXTENDS Integers

CONSTANTS
    Sec,        \* ticks in a second
    TTL,        \* ticks until expiration: 10 seconds
    Interval,   \* ticks of sleep between attempts: 5 seconds
    MaxDelay,   \* bound: ticks an attempt takes, timeouts of the client included
    MaxFails    \* bound: attempts that fail in a row

ASSUME DiscoveryAssumption ==
    /\ Sec \in Nat \ {0}
    /\ TTL \in Nat /\ Sec <= TTL
    /\ Interval \in Nat
    /\ MaxDelay \in Nat
    /\ MaxFails \in Nat

VARIABLES
    frac,      \* ticks since the clock's last whole second
    dpc,       \* where registerSelfToRedis is
    timer,     \* ticks spent there
    first,     \* this is the first registration, made by main
    pending,   \* ticks until the ExpireTime of the attempt
    landed,    \* Redis has executed the HSET of the attempt
    fails,     \* attempts failed in a row
    left       \* ticks until the ExpireTime in Redis; 0: none or passed

discVars == <<frac, dpc, timer, first, pending, landed, fails, left>>

DiscTypeOK ==
    /\ frac \in 0..(Sec - 1)
    /\ dpc \in {"begin", "exec", "sleep", "panicked"}
    /\ timer \in Nat
    /\ dpc = "exec" => timer <= MaxDelay
    /\ dpc = "sleep" => timer <= Interval
    /\ first \in BOOLEAN
    /\ pending \in 0..TTL
    /\ landed \in BOOLEAN
    /\ fails \in 0..MaxFails
    /\ left \in 0..TTL

DiscInit ==
    /\ frac \in 0..(Sec - 1)
    /\ dpc = "begin"
    /\ timer = 0
    /\ first = TRUE
    /\ pending = 0
    /\ landed = FALSE
    /\ fails = 0
    /\ left = 0

Less(t) == IF t > 0 THEN t - 1 ELSE 0

\* Seeded defect of Tick: nothing limits how long an attempt takes.
TickLate ==
    /\ \/ dpc = "exec" /\ timer <= MaxDelay
       \/ dpc = "sleep" /\ timer < Interval
    /\ timer' = timer + 1
    /\ frac' = (frac + 1) % Sec
    /\ pending' = Less(pending)
    /\ left' = Less(left)
    /\ UNCHANGED <<dpc, first, landed, fails>>

\* Time passes, but no attempt takes more than MaxDelay ticks and no sleep
\* more than Interval.  Computing the record takes no time.
Tick ==
    /\ \/ dpc = "exec" /\ timer < MaxDelay
       \/ dpc = "sleep" /\ timer < Interval
    /\ timer' = timer + 1
    /\ frac' = (frac + 1) % Sec
    /\ pending' = Less(pending)
    /\ left' = Less(left)
    /\ UNCHANGED <<dpc, first, landed, fails>>

\* Seeded defect of Expiration: the sleep is taken for the time to live.
ExpirationTooShort == Interval

\* time.Now().Add(10 * time.Second).Unix(), as ticks from now.
Expiration == TTL - frac

\* writeToRedis up to pipe.Exec.
Begin ==
    /\ dpc = "begin"
    /\ dpc' = "exec"
    /\ timer' = 0
    /\ pending' = Expiration
    /\ landed' = FALSE
    /\ UNCHANGED <<frac, first, fails, left>>

\* Redis executes the pipeline.
Land ==
    /\ dpc = "exec"
    /\ ~landed
    /\ landed' = TRUE
    /\ left' = pending
    /\ UNCHANGED <<frac, dpc, timer, first, pending, fails>>

\* Exec returns without error; the goroutine sleeps.
Success ==
    /\ dpc = "exec"
    /\ landed
    /\ dpc' = "sleep"
    /\ timer' = 0
    /\ first' = FALSE
    /\ fails' = 0
    /\ UNCHANGED <<frac, pending, landed, left>>

\* Seeded defect of Failure: the goroutine returns on an error.
FailureEnds ==
    /\ dpc = "exec"
    /\ fails < MaxFails
    /\ fails' = fails + 1
    /\ dpc' = "panicked"
    /\ timer' = 0
    /\ UNCHANGED <<frac, first, pending, landed, left>>

\* Exec fails, before or after Redis executed it.  On the first registration
\* main panics; later the goroutine only alerts and sleeps as usual.
Failure ==
    /\ dpc = "exec"
    /\ fails < MaxFails
    /\ fails' = fails + 1
    /\ dpc' = IF first THEN "panicked" ELSE "sleep"
    /\ timer' = 0
    /\ UNCHANGED <<frac, first, pending, landed, left>>

\* The sleep is over.
Wake ==
    /\ dpc = "sleep"
    /\ timer = Interval
    /\ dpc' = "begin"
    /\ UNCHANGED <<frac, timer, first, pending, landed, fails, left>>

DiscNext == Tick \/ Begin \/ Land \/ Success \/ Failure \/ Wake

DiscSpec == DiscInit /\ [][DiscNext]_discVars

\* Time passes, the goroutine is scheduled.  No more than MaxFails attempts
\* fail in a row, so that one succeeds again and again.
DiscFairSpec == DiscSpec /\ WF_discVars(DiscNext) /\ WF_discVars(Land)

-----------------------------------------------------------------------------
(* Properties.                                                             *)

\* The time to live covers MaxFails failed attempts, with the second that
\* Unix() may cut off.
Covered == (MaxFails + 1) * (MaxDelay + Interval) + MaxDelay + Sec - 1 < TTL

\* A node that has registered stays registered: each record reaches Redis
\* before the one before it expires.  With a time to live of twice the sleep
\* this allows for two successive round trips of four seconds together, and
\* not for a single failed attempt.
NeverLapses == (Covered /\ ~first) => left > 0

\* A node whose record has expired, because writes were slow or failed, is
\* registered again later, as long as a round trip takes less than the time
\* to live.
Reregisters == (~first /\ left = 0) ~> left > 0
=============================================================================
