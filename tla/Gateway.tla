------------------------------ MODULE Gateway -------------------------------
(***************************************************************************)
(* The registry of connections and their life cycle (pkg/gateway/          *)
(* gateway.go with Run, Close, Disable and finalizer of pkg/agent):        *)
(* the accept loop, the HTTP handlers that kick a client, the finalizer of *)
(* every agent and Gateway.Close, all running concurrently over the map    *)
(* gateway.agents, which a read-write lock protects.                       *)
(*                                                                         *)
(* What an agent does between Run and its end is in Inbound and Outbound;  *)
(* here either of its loops may return at any time.  The send and          *)
(* broadcast handlers only look agents up and call Agent.Write: they are   *)
(* callers of Outbound and change nothing here.                            *)
(***************************************************************************)
EXTENDS Integers, FiniteSets, Functions

CONSTANTS
    Conn,       \* the connections clients open
    Handler,    \* the goroutines of the close and sendAndClose handlers
    Stamp,      \* the suffixes time and random number give to a uid
    UIDLimit,   \* MaxUint64 - 1000 in GenerateAgentUID
    None

UID == (1..UIDLimit) \X Stamp

\* The Go maps from uids to agents.
Registry == UNION {[D -> Conn] : D \in SUBSET UID}

ASSUME GatewayAssumption ==
    /\ IsFiniteSet(Conn) /\ None \notin Conn
    /\ None \notin UID \cup Registry \cup {"loop", "kick", "shutdown"}
    /\ UIDLimit \in Nat \ {0}

VARIABLES
    agents,        \* Gateway.agents: a map from uids to agents, or None (nil)
    agentUIDBase,  \* Gateway.agentUIDBase
    count,         \* metric.CountConnection
    shut,          \* where Gateway.Close is
    phase,         \* how far the accept loop is with each connection
    uid,           \* agent.cid
    ctxDone,       \* agent.ctx is cancelled
    cause,         \* history: who cancelled it first
    connOpen,      \* agent.conn is not closed by the gateway
    disable,       \* agent.disable
    fpc,           \* where the finalizer is
    notice,        \* history: what became of message 5006
    hpc,           \* where each handler is
    hagent,        \* the agent it got from the registry
    process        \* "up", "exited" or "panicked"

registryVars == <<agents, agentUIDBase, count>>
ctxVars == <<ctxDone, cause>>
finVars == <<fpc, notice>>
connVars == <<phase, uid, ctxVars, connOpen, disable, finVars>>
handlerVars == <<hpc, hagent>>
vars == <<agents, agentUIDBase, count, shut, phase, uid, ctxDone, cause, connOpen,
          disable, fpc, notice, hpc, hagent, process>>

Registered == IF agents = None THEN {} ELSE Range(agents)

GwTypeOK ==
    /\ agents \in Registry \cup {None}
    /\ agentUIDBase \in 0..UIDLimit
    /\ count \in 0..Cardinality(Conn)
    /\ shut \in {"no", "listener", "http", "locked", "closed"}
    /\ phase \in [Conn -> {"none", "accepted", "added", "counted", "running", "refused"}]
    /\ uid \in [Conn -> UID \cup {None}]
    /\ ctxDone \in [Conn -> BOOLEAN]
    /\ cause \in [Conn -> {None, "loop", "kick", "shutdown"}]
    /\ connOpen \in [Conn -> BOOLEAN]
    /\ disable \in [Conn -> BOOLEAN]
    /\ fpc \in [Conn -> {"wait", "remove", "close", "check", "notify", "done"}]
    /\ notice \in [Conn -> {"none", "taken", "failed"}]
    /\ hpc \in [Handler -> {"idle", "disable", "cancel", "done"}]
    /\ hagent \in [Handler -> Conn \cup {None}]
    /\ process \in {"up", "exited", "panicked"}

Init ==
    /\ agents = <<>>
    /\ agentUIDBase = 0
    /\ count = 0
    /\ shut = "no"
    /\ phase = [c \in Conn |-> "none"]
    /\ uid = [c \in Conn |-> None]
    /\ ctxDone = [c \in Conn |-> FALSE]
    /\ cause = [c \in Conn |-> None]
    /\ connOpen = [c \in Conn |-> FALSE]
    /\ disable = [c \in Conn |-> FALSE]
    /\ fpc = [c \in Conn |-> "wait"]
    /\ notice = [c \in Conn |-> "none"]
    /\ hpc = [h \in Handler |-> "idle"]
    /\ hagent = [h \in Handler |-> None]
    /\ process = "up"

\* Gateway.Close holds the write lock while it cancels the agents; every other
\* critical section is a single step.
Unlocked == shut # "locked"

\* agent.Close or a deferred agent.cancel; only the first call has an effect.
Cancel(c, who) ==
    /\ ctxDone' = [ctxDone EXCEPT ![c] = TRUE]
    /\ cause' = IF ctxDone[c] THEN cause ELSE [cause EXCEPT ![c] = who]

-----------------------------------------------------------------------------
(* The accept loop: one goroutine, so one connection at a time.            *)

AcceptIdle == \A c \in Conn : phase[c] \notin {"accepted", "added", "counted"}

\* GenerateAgentUID, called by this goroutine only: CompareAndSwap, then Add.
NextUIDBase == (IF agentUIDBase = UIDLimit THEN 0 ELSE agentUIDBase) + 1

Duplicate(c) == uid[c] \in DOMAIN agents

\* Accept returns a connection; GenerateAgentUID and agent.New.
Accept(c) ==
    /\ phase[c] = "none"
    /\ AcceptIdle
    /\ shut = "no"
    /\ phase' = [phase EXCEPT ![c] = "accepted"]
    /\ connOpen' = [connOpen EXCEPT ![c] = TRUE]
    /\ agentUIDBase' = NextUIDBase
    /\ \E s \in Stamp : uid' = [uid EXCEPT ![c] = <<agentUIDBase', s>>]
    /\ UNCHANGED <<agents, count, shut, ctxVars, disable, finVars, handlerVars,
                   process>>

\* AddAgent on a uid that is free.
AddAgent(c) ==
    /\ phase[c] = "accepted"
    /\ Unlocked
    /\ agents # None
    /\ ~Duplicate(c)
    /\ agents' = [u \in DOMAIN agents \cup {uid[c]} |-> IF u = uid[c] THEN c ELSE agents[u]]
    /\ phase' = [phase EXCEPT ![c] = "added"]
    /\ UNCHANGED <<agentUIDBase, count, shut, uid, ctxVars, connOpen, disable,
                   finVars, handlerVars, process>>

\* Seeded defect of AddDuplicate: the "continue" after the error is missing.
AddDuplicateGoesOn(c) ==
    /\ phase[c] = "accepted"
    /\ Unlocked
    /\ agents # None
    /\ Duplicate(c)
    /\ phase' = [phase EXCEPT ![c] = "added"]
    /\ connOpen' = [connOpen EXCEPT ![c] = FALSE]
    /\ UNCHANGED <<registryVars, shut, uid, ctxVars, disable, finVars,
                   handlerVars, process>>

\* AddAgent on a uid in use: the new connection is closed and forgotten.
AddDuplicate(c) ==
    /\ phase[c] = "accepted"
    /\ Unlocked
    /\ agents # None
    /\ Duplicate(c)
    /\ phase' = [phase EXCEPT ![c] = "refused"]
    /\ connOpen' = [connOpen EXCEPT ![c] = FALSE]
    /\ UNCHANGED <<registryVars, shut, uid, ctxVars, disable, finVars,
                   handlerVars, process>>

\* AddAgent after Gateway.Close: the write to the nil map panics; the deferred
\* recover calls AlertPanic, which panics again and ends the process.
AddToNil(c) ==
    /\ phase[c] = "accepted"
    /\ Unlocked
    /\ agents = None
    /\ process' = "panicked"
    /\ UNCHANGED <<registryVars, shut, connVars, handlerVars>>

\* metric.CountConnection.Add(1).
CountUp(c) ==
    /\ phase[c] = "added"
    /\ count' = count + 1
    /\ phase' = [phase EXCEPT ![c] = "counted"]
    /\ UNCHANGED <<agents, agentUIDBase, shut, uid, ctxVars, connOpen, disable,
                   finVars, handlerVars, process>>

\* agent.Run starts the finalizer and the two loops.
Run(c) ==
    /\ phase[c] = "counted"
    /\ phase' = [phase EXCEPT ![c] = "running"]
    /\ UNCHANGED <<registryVars, shut, uid, ctxVars, connOpen, disable,
                   finVars, handlerVars, process>>

AcceptLoop(c) ==
    \/ AddAgent(c)
    \/ AddDuplicate(c)
    \/ AddToNil(c)
    \/ CountUp(c)
    \/ Run(c)

-----------------------------------------------------------------------------
(* Agents.                                                                 *)

\* loopRead or loopWrite returns: the client left, timed out or misbehaved.
LoopReturns(c) ==
    /\ phase[c] = "running"
    /\ ~ctxDone[c]
    /\ Cancel(c, "loop")
    /\ UNCHANGED <<registryVars, shut, phase, uid, connOpen, disable, finVars,
                   handlerVars, process>>

\* finalizer, as soon as the context is done: CountConnection.Add(-1).
CountDown(c) ==
    /\ phase[c] = "running" /\ ctxDone[c]
    /\ fpc[c] = "wait"
    /\ count' = count - 1
    /\ fpc' = [fpc EXCEPT ![c] = "remove"]
    /\ UNCHANGED <<agents, agentUIDBase, shut, phase, uid, ctxVars, connOpen,
                   disable, notice, handlerVars, process>>

\* Seeded defect of Without: the entry is looked up and not deleted.
WithoutNothing(u) == agents

\* The map without the entry of a uid; deleting from the nil map does nothing.
Without(u) == IF agents = None THEN None ELSE Restrict(agents, DOMAIN agents \ {u})

\* RemoveAgent(agent.cid) deletes whatever is registered under the uid.
RemoveAgent(c) ==
    /\ fpc[c] = "remove"
    /\ Unlocked
    /\ agents' = Without(uid[c])
    /\ fpc' = [fpc EXCEPT ![c] = "close"]
    /\ UNCHANGED <<agentUIDBase, count, shut, phase, uid, ctxVars, connOpen,
                   disable, notice, handlerVars, process>>

\* agent.conn.Close.
CloseConn(c) ==
    /\ fpc[c] = "close"
    /\ connOpen' = [connOpen EXCEPT ![c] = FALSE]
    /\ fpc' = [fpc EXCEPT ![c] = "check"]
    /\ UNCHANGED <<registryVars, shut, phase, uid, ctxVars, disable, notice,
                   handlerVars, process>>

\* Seeded defect of Silent: the flag is set before it is tested.
SilentAlways(c) == TRUE

\* The test of the finalizer.
Silent(c) == disable[c]

\* A disabled agent is not announced; any other one is disabled first.
CheckDisabled(c) ==
    /\ fpc[c] = "check"
    /\ fpc' = [fpc EXCEPT ![c] = IF Silent(c) THEN "done" ELSE "notify"]
    /\ disable' = [disable EXCEPT ![c] = TRUE]
    /\ UNCHANGED <<registryVars, shut, phase, uid, ctxVars, connOpen, notice,
                   handlerVars, process>>

\* ForwadHttp with message 5006.  It may return an error (no connection, a timeout,
\* 4xx, 5xx), which nobody looks at: the message is posted once and not again.
Notify(c) ==
    /\ fpc[c] = "notify"
    /\ \E outcome \in {"taken", "failed"} : notice' = [notice EXCEPT ![c] = outcome]
    /\ fpc' = [fpc EXCEPT ![c] = "done"]
    /\ UNCHANGED <<registryVars, shut, phase, uid, ctxVars, connOpen, disable,
                   handlerVars, process>>

Finalizer(c) ==
    \/ CountDown(c)
    \/ RemoveAgent(c)
    \/ CloseConn(c)
    \/ CheckDisabled(c)
    \/ Notify(c)

-----------------------------------------------------------------------------
(* The handlers /agent/v1/close and /agent/v1/sendAndClose.                *)

\* Seeded defect of GetAgent: the handler goes on to Close without Disable.
GetAgentNoDisable(h) ==
    /\ hpc[h] = "idle"
    /\ Unlocked
    /\ \E c \in Registered : hagent' = [hagent EXCEPT ![h] = c]
    /\ hpc' = [hpc EXCEPT ![h] = "cancel"]
    /\ UNCHANGED <<registryVars, shut, connVars, process>>

\* GetAgent finds an agent; one that is not there is answered with success.
\* From here on the handler holds the agent whatever happens to the registry.
GetAgent(h) ==
    /\ hpc[h] = "idle"
    /\ Unlocked
    /\ \E c \in Registered : hagent' = [hagent EXCEPT ![h] = c]
    /\ hpc' = [hpc EXCEPT ![h] = "disable"]
    /\ UNCHANGED <<registryVars, shut, connVars, process>>

\* agent.Disable.
HandlerDisable(h) ==
    /\ hpc[h] = "disable"
    /\ disable' = [disable EXCEPT ![hagent[h]] = TRUE]
    /\ hpc' = [hpc EXCEPT ![h] = "cancel"]
    /\ UNCHANGED <<registryVars, shut, phase, uid, ctxVars, connOpen, finVars,
                   hagent, process>>

\* agent.Close: at once in close, after one second in sendAndClose.
HandlerClose(h) ==
    /\ hpc[h] = "cancel"
    /\ Cancel(hagent[h], "kick")
    /\ hpc' = [hpc EXCEPT ![h] = "done"]
    /\ UNCHANGED <<registryVars, shut, phase, uid, connOpen, disable, finVars,
                   hagent, process>>

HandlerStep(h) == HandlerDisable(h) \/ HandlerClose(h)

-----------------------------------------------------------------------------
(* Gateway.Close, deferred by main, and the end of the process.            *)

\* publicTcpService.Close: Accept fails from now on.
CloseListener ==
    /\ shut = "no"
    /\ shut' = "listener"
    /\ UNCHANGED <<registryVars, connVars, handlerVars, process>>

\* privateHttpService.Close does not wait for handlers that already run, so
\* they may still look agents up after it.
CloseHttp ==
    /\ shut = "listener"
    /\ shut' = "http"
    /\ UNCHANGED <<registryVars, connVars, handlerVars, process>>

LockRegistry ==
    /\ shut = "http"
    /\ shut' = "locked"
    /\ UNCHANGED <<registryVars, connVars, handlerVars, process>>

\* One turn of the loop over the agents.
CancelNext(c) ==
    /\ shut = "locked"
    /\ c \in Registered
    /\ ~ctxDone[c]
    /\ Cancel(c, "shutdown")
    /\ UNCHANGED <<registryVars, shut, phase, uid, connOpen, disable, finVars,
                   handlerVars, process>>

\* Seeded defect of ClearRegistry: a new, empty map instead of nil.
ClearToEmpty ==
    /\ shut = "locked"
    /\ \A c \in Registered : ctxDone[c]
    /\ agents' = <<>>
    /\ shut' = "closed"
    /\ UNCHANGED <<agentUIDBase, count, connVars, handlerVars, process>>

\* Seeded defect of ClearRegistry: the lock is not released.
ClearKeepsLock ==
    /\ shut = "locked"
    /\ \A c \in Registered : ctxDone[c]
    /\ agents' = None
    /\ UNCHANGED <<agentUIDBase, count, shut, connVars, handlerVars, process>>

\* gateway.agents = nil, and the lock is released.
ClearRegistry ==
    /\ shut = "locked"
    /\ \A c \in Registered : ctxDone[c]
    /\ agents' = None
    /\ shut' = "closed"
    /\ UNCHANGED <<agentUIDBase, count, connVars, handlerVars, process>>

\* main returns after Close: every goroutine that still runs is gone.
Exit ==
    /\ shut = "closed"
    /\ process' = "exited"
    /\ UNCHANGED <<registryVars, shut, connVars, handlerVars>>

CloseGateway ==
    \/ CloseHttp
    \/ LockRegistry
    \/ \E c \in Conn : CancelNext(c)
    \/ ClearRegistry
    \/ Exit

-----------------------------------------------------------------------------
Next ==
    /\ process = "up"
    /\ \/ \E c \in Conn : Accept(c) \/ AcceptLoop(c) \/ LoopReturns(c) \/ Finalizer(c)
       \/ \E h \in Handler : GetAgent(h) \/ HandlerStep(h)
       \/ CloseListener
       \/ CloseGateway

Spec == Init /\ [][Next]_vars

\* Goroutines are scheduled.  Nobody has to connect, leave, kick or signal.
Fairness ==
    /\ \A c \in Conn :
         /\ WF_vars(process = "up" /\ AcceptLoop(c))
         /\ WF_vars(process = "up" /\ Finalizer(c))
    /\ \A h \in Handler : WF_vars(process = "up" /\ HandlerStep(h))
    /\ WF_vars(process = "up" /\ CloseGateway)

FairSpec == Spec /\ Fairness

-----------------------------------------------------------------------------
(* Properties.                                                             *)

\* What is in the registry is alive: an entry belongs to the agent with that
\* uid, and never to one whose finalizer has been through RemoveAgent (such an
\* entry would stay for ever), whichever of AddAgent, Run and the cancellation
\* comes first.
NoZombie ==
    agents # None =>
        \A u \in DOMAIN agents :
            /\ uid[agents[u]] = u
            /\ phase[agents[u]] \in {"added", "counted", "running"}
            /\ fpc[agents[u]] \in {"wait", "remove"}

\* An agent that is running and has not been finalized can be reached through
\* the registry (until Close gives it up): RemoveAgent, which deletes by uid,
\* never takes away somebody else's entry.
Reachable ==
    agents # None =>
        \A c \in Conn : (phase[c] = "running" /\ fpc[c] = "wait") => c \in Registered

\* The registry holds exactly the agents that live.
RegistryExact == NoZombie /\ Reachable

\* The number of online users (discovery.go:54 converts it to uint64) is never
\* negative, and is the size of the registry whenever no connection is on its
\* way in or out.
CountAgrees ==
    /\ count >= 0
    /\ (agents # None /\ AcceptIdle /\ \A c \in Conn : fpc[c] # "remove")
            => count = Cardinality(Registered)

\* The types, and the counter.
GwSafe == GwTypeOK /\ CountAgrees

\* A client that was kicked is not announced as gone (agent.go:158), nor is that
\* tried: if the handler's Close is what ended it, the finalizer sees the handler's
\* Disable.
KickedSilent == \A c \in Conn : cause[c] = "kick" => notice[c] = "none"

\* Close leaves no connection behind: when it has returned, every agent that
\* runs or will be run is cancelled, also one accepted while Close ran.
NoSurvivor ==
    shut = "closed" =>
        \A c \in Conn : phase[c] \in {"added", "counted", "running"} => ctxDone[c]

\* A connection whose context is cancelled is taken out of the registry and
\* closed, and its finalizer ends, unless the process ends first.
Finalized ==
    \A c \in Conn :
        (phase[c] = "running" /\ ctxDone[c])
            ~> (fpc[c] = "done" /\ ~connOpen[c] /\ c \notin Registered) \/ process # "up"

\* A client that leaves by itself and that nobody kicks is announced to the
\* backend (agent.go:164), unless the process ends first: message 5006 is posted,
\* and the backend has it or the post has failed.  That is all: nobody repeats a
\* failed post, and the backend then keeps a client that is gone.
Announced ==
    \A c \in Conn :
        cause[c] = "loop" ~> notice[c] # "none" \/ process # "up" \/ \E h \in Handler : hagent[h] = c

-----------------------------------------------------------------------------
(* What the registry promises, and what each of its agents does.           *)

\* A connection that was cancelled is in the directory until RemoveAgent.
Stage(c) ==
    CASE phase[c] \notin {"added", "counted", "running"} -> "new"
      [] phase[c] \in {"added", "counted", "running"} /\ ~ctxDone[c] -> "listed"
      [] phase[c] \in {"added", "counted", "running"} /\ ctxDone[c] ->
            IF fpc[c] \in {"wait", "remove"} THEN "cancelled" ELSE "ended"

Listing == INSTANCE Directory WITH
    Holder <- Handler,
    stage <- [c \in Conn |-> Stage(c)],
    dir <- IF agents = None THEN <<>> ELSE agents,
    held <- [h \in Handler |-> IF hpc[h] = "done" THEN None ELSE hagent[h]],
    closed <- agents = None

\* The registry is a directory of connections: RemoveAgent, which deletes by uid,
\* takes out the entry of its own agent and no other, a handler gets only what is
\* there when it asks, and nothing is listed, found or entered after Close,
\* however accept loop, finalizers, handlers and Close interleave.
DirectorySafety == Listing!Spec

\* One connection, seen by itself: the agent of Inbound, Outbound and Session.
Single(c) == INSTANCE Agent WITH
    ctxDone <- ctxDone[c],
    connOpen <- connOpen[c] \/ phase[c] \in {"none", "refused"},
    disable <- disable[c],
    fpc <- IF fpc[c] \in {"remove", "close"} THEN "wait" ELSE fpc[c]

\* The gateway drives every agent through the life that the modules of a single
\* connection assume: the connection is closed only after the cancellation, once,
\* and its end is announced after that, once, if nobody disabled the agent before.
AgentSafety ==
    /\ \A c \in Conn : Single(c)!AgentInit
    /\ [][\A c \in Conn : [Single(c)!AgentNext]_(Single(c)!agentVars)]_vars
=============================================================================
