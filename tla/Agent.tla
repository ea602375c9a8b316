------------------------------- MODULE Agent --------------------------------
(***************************************************************************)
(* The state of one agent.Agent (pkg/agent/agent.go) that its goroutines   *)
(* share, and the operations on it that other goroutines call: Close,      *)
(* Disable and the finalizer that runs once the context is cancelled.      *)
(*                                                                         *)
(* Outbound (the write path) and Inbound (the read and forward path)       *)
(* extend this module.  The registry and the connection counter that the   *)
(* finalizer also touches belong to the Gateway module, where many agents  *)
(* are modelled.  Enable() has no caller in the repository and is left out.*)
(***************************************************************************)

VARIABLES
    ctxDone,    \* agent.ctx is cancelled
    connOpen,   \* the gateway has not closed agent.conn yet
    disable,    \* agent.disable, written without a lock
    fpc         \* where the finalizer goroutine of Run is

agentVars == <<ctxDone, connOpen, disable, fpc>>

AgentTypeOK ==
    /\ ctxDone \in BOOLEAN
    /\ connOpen \in BOOLEAN
    /\ disable \in BOOLEAN
    /\ fpc \in {"wait", "check", "notify", "done"}

\* New followed by Run: the finalizer goroutine waits for the context.
AgentInit ==
    /\ ctxDone = FALSE
    /\ connOpen = TRUE
    /\ disable = FALSE
    /\ fpc = "wait"

\* agent.Close, or the deferred agent.cancel of a loop that returns: the
\* context is cancelled; cancelling it again changes nothing.
Close ==
    /\ ctxDone' = TRUE
    /\ UNCHANGED <<connOpen, disable, fpc>>

\* agent.Disable.
Disable ==
    /\ disable' = TRUE
    /\ UNCHANGED <<ctxDone, connOpen, fpc>>

\* finalizer, first half: once the context is done the connection is closed,
\* whoever cancelled it and whatever the two loops are doing.
FinCleanup ==
    /\ fpc = "wait"
    /\ ctxDone
    /\ connOpen' = FALSE
    /\ fpc' = "check"
    /\ UNCHANGED <<ctxDone, disable>>

\* finalizer, second half: a disabled agent is not announced; any other one is
\* disabled and then announced to the backend with message 5006.  The test and
\* the assignment are two accesses to an unlocked field, but the only write
\* that can come between them, Disable's, stores the same value.
FinCheck ==
    /\ fpc = "check"
    /\ fpc' = IF disable THEN "done" ELSE "notify"
    /\ disable' = TRUE
    /\ UNCHANGED <<ctxDone, connOpen>>

\* finalizer, its end: message 5006 went to the backend, or failed to.
FinNotify ==
    /\ fpc = "notify"
    /\ fpc' = "done"
    /\ UNCHANGED <<ctxDone, connOpen, disable>>

AgentNext ==
    \/ Close
    \/ Disable
    \/ FinCleanup
    \/ FinCheck
    \/ FinNotify

\* The life of one agent, as every module that has agents must keep it.
AgentSpec == AgentInit /\ [][AgentNext]_agentVars
=============================================================================
