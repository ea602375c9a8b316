------------------------------ MODULE Session -------------------------------
(***************************************************************************)
(* One connection as a whole: the read path (Inbound) and the write path   *)
(* (Outbound) over the same Agent.  Where Inbound says that a request      *)
(* calls Agent.Write, the request here goes through the steps of Outbound, *)
(* and so does the sendAndClose handler before it kicks the client.        *)
(***************************************************************************)
EXTENDS Inbound, Outbound

CONSTANT Kicker    \* the goroutines of sendAndClose requests

ASSUME SessionAssumption == Kicker \cap Request = {} /\ Caller = Request \cup Kicker

VARIABLES
    kpc,    \* where each sendAndClose is
    cut     \* the sendAndClose that has cancelled the context of a client that reads

sessVars == <<kpc, cut>>
allVars == <<allInVars, outVars, sessVars>>

SessTypeOK ==
    /\ InTypeOK
    /\ OutTypeOK
    /\ kpc \in [Kicker -> {"none", "write", "disable", "sleep", "done"}]
    /\ cut \subseteq Kicker

SessInit ==
    /\ InInit
    /\ OutInit
    /\ kpc = [k \in Kicker |-> "none"]
    /\ cut = {}

Reader == LoopRead /\ UNCHANGED <<outVars, sessVars>>
Writer == LoopWrite /\ UNCHANGED <<inVars, sessVars>>

\* A request that wants to write calls Agent.Write and goes on when it returns.
InWrite(r) == task[r] \in {"write", "echo"}
Returned(c) == cpc[c] \in {"done", "late", "rejected"}

Requests(r) ==
    /\ \/ InWrite(r) /\ Write(r) /\ UNCHANGED inVars
       \/ InWrite(r) /\ Returned(r) /\ Forward(r) /\ UNCHANGED outVars
       \/ ~InWrite(r) /\ Forward(r) /\ UNCHANGED outVars
    /\ UNCHANGED <<kpc, cut>>

\* sendAndClose: GetAgent finds the agent.
KickBegin(k) ==
    /\ kpc[k] = "none"
    /\ fpc = "wait"
    /\ kpc' = [kpc EXCEPT ![k] = "write"]
    /\ UNCHANGED <<agentVars, inVars, outVars, cut>>

\* agent.Write.
KickWrite(k) ==
    /\ kpc[k] = "write"
    /\ ~Returned(k)
    /\ Write(k)
    /\ UNCHANGED <<inVars, kpc, cut>>

\* The goroutine: agent.Disable.
KickDisable(k) ==
    /\ kpc[k] = "write"
    /\ Returned(k)
    /\ kpc' = [kpc EXCEPT ![k] = "sleep"]
    /\ IF disable THEN UNCHANGED <<agentVars, inVars>> ELSE InKick
    /\ UNCHANGED <<outVars, cut>>

\* Seeded defect of Rested: no sleep.
RestedNot == TRUE

\* A second is a long time: loopWrite has nothing left to do when it is over,
\* except to wait in Flush for a client that does not read.
Rested == (wpc = "select" /\ wd = 0) \/ wpc \in {"flush", "exited"}

\* Then agent.Close.
KickClose(k) ==
    /\ kpc[k] = "sleep"
    /\ Rested
    /\ kpc' = [kpc EXCEPT ![k] = "done"]
    /\ Close
    /\ cut' = IF ctxDone \/ wpc = "flush" THEN cut ELSE {k}
    /\ UNCHANGED <<inVars, outVars>>

\* The finalizer.
Finalizer == (InCleanup \/ InCheck) /\ UNCHANGED <<outVars, sessVars>>

SessNext ==
    \/ Reader
    \/ Writer
    \/ \E r \in Request : Requests(r)
    \/ \E k \in Kicker : KickBegin(k) \/ KickWrite(k) \/ KickDisable(k) \/ KickClose(k)
    \/ Finalizer

\* Goroutines are scheduled.  A client may stop reading: Flush, as long as the
\* connection is open, need not return (in the code it does after 60 s).
SessFairness ==
    /\ WF_allVars(Reader)
    /\ WF_allVars((wpc = "flush" => ~connOpen) /\ Writer)
    /\ \A r \in Request : WF_allVars(Requests(r))
    /\ \A k \in Kicker : WF_allVars(KickWrite(k) \/ KickDisable(k) \/ KickClose(k))
    /\ WF_allVars(Finalizer)

SessSpec == SessInit /\ [][SessNext]_allVars /\ SessFairness

-----------------------------------------------------------------------------
(* Properties.                                                             *)

\* A client that does not read cannot keep the places of its requests: however
\* long Flush blocks, every call of Agent.Write returns.
SlowClientServed == concurrent > MaxConcurrent ~> concurrent <= MaxConcurrent

\* Whoever ends the connection, nothing of it is left running: the loops, the
\* finalizer, the requests and the kicks, also those that wait for room in wd
\* when loopWrite is already gone.
SessionEnds ==
    ctxDone ~> /\ rpc = "exited" /\ wpc = "exited" /\ fpc = "done" /\ Active = {}
               /\ \A c \in Caller : cpc[c] = "idle" \/ Returned(c)

\* The message of sendAndClose is out before the kick cuts the connection, if
\* the client reads and the call of Agent.Write was not held up between NewTicker
\* and select: neither a token that it gave up because wd was full nor a call of
\* another goroutine that was held up leaves it in the buffer.
LastWordOut == \A k \in cut : cpc[k] # "late" => \E i \in DOMAIN wire : wire[i] = k

\* Both halves of the agent keep their shape together, and the last word is out.
SessSafe == SessTypeOK /\ LastWordOut
=============================================================================
