------------------------------- MODULE Stress -------------------------------
(***************************************************************************)
(* The load generator (cmd/stress): stressGatewayTCP and stressProxy,      *)
(* which differ in their message ids only.  The main goroutine dials the     *)
(* connections one by one; every connection has a goroutine that sends a   *)
(* request and waits for a message, and one that closes it on a signal;    *)
(* another goroutine turns succNumTmp into a rate every five seconds.      *)
(*                                                                         *)
(* The gateway is external here: it answers a request in its own time, or  *)
(* not at all, and may push messages of other ids in between.              *)
(***************************************************************************)
EXTENDS Integers, Sequences, FiniteSets

CONSTANTS
    Conn,      \* the connections that main wants to open
    MaxSends,  \* bound: requests of all connections
    MaxPushes  \* bound: other messages the gateway sends

ASSUME StressAssumption == IsFiniteSet(Conn) /\ {MaxSends, MaxPushes} \subseteq Nat

VARIABLES
    dialer,    \* where the main goroutine is
    failed,    \* the connections that could not be opened
    wpc,       \* where the goroutine of a connection is
    open,      \* the connections that are open at this end
    stop,      \* the context is done
    unanswered,\* requests that the gateway has not answered
    inbox,     \* what it has sent and nobody has read
    pushes,    \* messages of other ids that it has sent
    errorNum, sendNum, succNum, succNumTmp,
    rated      \* the sum of what was swapped out of succNumTmp

counters == <<errorNum, sendNum, succNum, succNumTmp, rated>>
gatewayVars == <<unanswered, inbox, pushes>>
stressVars == <<dialer, failed, wpc, open, stop, gatewayVars, counters>>

StressInit ==
    /\ dialer = "dial"
    /\ failed = {}
    /\ wpc = [c \in Conn |-> "none"]
    /\ open = {}
    /\ stop = FALSE
    /\ unanswered = [c \in Conn |-> 0]
    /\ inbox = [c \in Conn |-> <<>>]
    /\ pushes = 0
    /\ errorNum = 0 /\ sendNum = 0 /\ succNum = 0 /\ succNumTmp = 0 /\ rated = 0

Move(c, here, there) == wpc[c] = here /\ wpc' = [wpc EXCEPT ![c] = there]

-----------------------------------------------------------------------------
\* net.Dial of the next connection; the loop does not look at the context.
Dial(c) ==
    /\ dialer = "dial"
    /\ wpc[c] = "none" /\ c \notin failed
    /\ \/ Move(c, "none", "sleep") /\ open' = open \cup {c} /\ UNCHANGED <<failed, errorNum>>
       \/ failed' = failed \cup {c} /\ errorNum' = errorNum + 1 /\ UNCHANGED <<wpc, open>>
    /\ UNCHANGED <<dialer, stop, gatewayVars, sendNum, succNum, succNumTmp, rated>>

\* The loop is over; the signal.  Two seconds later the process ends with
\* whatever is left: the model follows the goroutines beyond that, to see whether
\* they would end by themselves.
Dialer ==
    /\ \/ dialer = "dial" /\ (\A c \in Conn : wpc[c] # "none" \/ c \in failed) /\ dialer' = "wait"
       \/ dialer = "wait" /\ stop /\ dialer' = "end"
    /\ UNCHANGED <<failed, wpc, open, stop, gatewayVars, counters>>

Interrupt ==
    /\ ~stop
    /\ stop' = TRUE
    /\ UNCHANGED <<dialer, failed, wpc, open, gatewayVars, counters>>

\* The goroutine that closes a connection on the signal.
Closer(c) ==
    /\ stop /\ c \in open
    /\ open' = open \ {c}
    /\ UNCHANGED <<dialer, failed, wpc, stop, gatewayVars, counters>>

\* conn.Write after the sleep of two and a half seconds.
Send(c) ==
    /\ c \in open
    /\ sendNum < MaxSends
    /\ Move(c, "sleep", "read")
    /\ sendNum' = sendNum + 1
    /\ unanswered' = [unanswered EXCEPT ![c] = @ + 1]
    /\ UNCHANGED <<dialer, failed, open, stop, inbox, pushes, errorNum, succNum, succNumTmp, rated>>

\* Seeded defect of Accepted: every message counts as an answer.
AcceptedAny(m) == TRUE

\* if id == 1001 (stressProxy: 7832).
Accepted(m) == m = "answer"

\* A whole message is read.
Read(c) ==
    /\ c \in open
    /\ inbox[c] # <<>>
    /\ Move(c, "read", IF Accepted(Head(inbox[c])) THEN "count" ELSE "sleep")
    /\ inbox' = [inbox EXCEPT ![c] = Tail(@)]
    /\ UNCHANGED <<dialer, failed, open, stop, unanswered, pushes, counters>>

CountSucc(c) ==
    /\ Move(c, "count", "countTmp")
    /\ succNum' = succNum + 1
    /\ UNCHANGED <<dialer, failed, open, stop, gatewayVars, errorNum, sendNum, succNumTmp, rated>>

CountSuccTmp(c) ==
    /\ Move(c, "countTmp", "sleep")
    /\ succNumTmp' = succNumTmp + 1
    /\ UNCHANGED <<dialer, failed, open, stop, gatewayVars, errorNum, sendNum, succNum, rated>>

\* Seeded defect of Broken: reading goes on after an error.
BrokenWrite(c) == wpc[c] = "sleep"

\* Where the connection fails: in Write, or in ReadFull, at the latest at the
\* read deadline.
Broken(c) == wpc[c] \in {"sleep", "read"}

\* The error is counted, and the deferred Close.
Fail(c) ==
    /\ Broken(c)
    /\ wpc' = [wpc EXCEPT ![c] = "done"]
    /\ errorNum' = errorNum + 1
    /\ open' = open \ {c}
    /\ UNCHANGED <<dialer, failed, stop, gatewayVars, sendNum, succNum, succNumTmp, rated>>

Worker(c) == Send(c) \/ Read(c) \/ CountSucc(c) \/ CountSuccTmp(c) \/ Fail(c)

\* Seeded defect of Swapped: the window is loaded and not emptied.
SwappedNot == succNumTmp

\* What Swap(0) leaves.
Swapped == 0

\* Every five seconds.
Rate ==
    /\ rated' = rated + succNumTmp
    /\ succNumTmp' = Swapped
    /\ UNCHANGED <<dialer, failed, wpc, open, stop, gatewayVars, errorNum, sendNum, succNum>>

\* The gateway answers, or pushes something else.
Answer(c) ==
    /\ unanswered[c] > 0
    /\ unanswered' = [unanswered EXCEPT ![c] = @ - 1]
    /\ inbox' = [inbox EXCEPT ![c] = Append(@, "answer")]
    /\ UNCHANGED <<dialer, failed, wpc, open, stop, pushes, counters>>

Pushed(c) ==
    /\ c \in open
    /\ pushes < MaxPushes
    /\ pushes' = pushes + 1
    /\ inbox' = [inbox EXCEPT ![c] = Append(@, "push")]
    /\ UNCHANGED <<dialer, failed, wpc, open, stop, unanswered, counters>>

StressNext ==
    \/ \E c \in Conn : Dial(c) \/ Closer(c) \/ Worker(c) \/ Answer(c) \/ Pushed(c)
    \/ Dialer \/ Interrupt \/ Rate

\* Goroutines are scheduled and dialling ends.
StressFairness ==
    /\ WF_stressVars(Dialer) /\ WF_stressVars(\E c \in Conn : Dial(c))
    /\ \A c \in Conn : WF_stressVars(Closer(c)) /\ WF_stressVars(Worker(c))

StressSpec == StressInit /\ [][StressNext]_stressVars /\ StressFairness

-----------------------------------------------------------------------------
(* Properties.                                                             *)

Workers(p) == {c \in Conn : wpc[c] = p}

\* The numbers that are printed agree, although they are counted in separate
\* steps by many goroutines: an error for every connection that was not opened
\* or has ended; every success in exactly one window; and no more successes
\* than requests, also when a message that was pushed is taken for the answer
\* and the answer is read for the next request.
NumbersAgree ==
    /\ errorNum = Cardinality(failed) + Cardinality(Workers("done"))
    /\ succNum = rated + succNumTmp + Cardinality(Workers("countTmp"))
    /\ succNum + Cardinality(Workers("count")) <= sendNum

\* A connection has one request under way and one more for every pushed message
\* that took the place of an answer: the limit of ten concurrent requests of a
\* connection (plugins.go:59) is not what the load generator measures.
FewOutstanding ==
    \A c \in Conn :
      unanswered[c] + Cardinality({i \in DOMAIN inbox[c] : inbox[c][i] = "answer"}) <= 1 + pushes

\* The figures can be believed, and measure what they say.
LoadSafe == NumbersAgree /\ FewOutstanding


\* On a signal (ctx.Done) every connection is closed and its goroutine ends,
\* whether it sleeps, waits for an answer or counts one, and also those that main
\* still opens afterwards, because its loop does not look at the context.
SignalEnds == stop ~> (dialer = "end" /\ open = {} /\ \A c \in Conn : wpc[c] \in {"none", "done"})
=============================================================================
