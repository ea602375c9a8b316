----------------------------- MODULE MCProcess ------------------------------
(***************************************************************************)
(* Instance of the parts of the processes around the gateway proper: their *)
(* start and end, the alerts they raise, their registration and the load   *)
(* generator.  They share no state, so a behaviour runs one of them, and   *)
(* the others stay where they begin: `part` says which.                    *)
(***************************************************************************)
EXTENDS Startup, Alert, Discovery, Stress

VARIABLE part

Part == {"startup", "alert", "discovery", "stress"}

\* The components that a behaviour does not run.
Idle(p) ==
    CASE p = "startup" -> UNCHANGED startVars
      [] p = "alert" -> UNCHANGED alertVars
      [] p = "discovery" -> UNCHANGED discVars
      [] p = "stress" -> UNCHANGED stressVars

Only(p) == part = p /\ UNCHANGED part /\ \A q \in Part \ {p} : Idle(q)

OneConf == CHOOSE c \in Conf : TRUE

\* Hosts and ports are interchangeable: one process has the first of each.
Canonical ==
    LET p == CHOOSE q \in Proc : TRUE
    IN  conf[p].host = OneConf.host /\ conf[p].tcp = OneConf.tcp

ProcessInit ==
    /\ part \in Part
    /\ part # "startup" => conf = [p \in Proc |-> OneConf]
    /\ part # "discovery" => frac = 0
    /\ StartInit /\ AlertInit /\ DiscInit /\ StressInit
    /\ Canonical

ProcessNext ==
    \/ Only("startup") /\ StartNext
    \/ Only("alert") /\ AlertNext
    \/ Only("discovery") /\ DiscNext
    \/ Only("stress") /\ StressNext

processVars == <<part, startVars, alertVars, discVars, stressVars>>

\* The fairness of each component, where the behaviour runs it.
ProcessFairness ==
    /\ \A p \in Proc :
         /\ WF_startVars(part = "startup" /\ MainStep(p))
         /\ WF_startVars(part = "startup" /\ WebListen(p))
         /\ WF_startVars(part = "startup" /\ Exit(p))
    /\ WF_alertVars(part = "alert" /\ Age)
    /\ \A c \in Caller : WF_alertVars(part = "alert" /\ Call(c))
    /\ WF_discVars(part = "discovery" /\ DiscNext)
    /\ WF_discVars(part = "discovery" /\ Land)
    /\ WF_stressVars(part = "stress" /\ Dialer)
    /\ WF_stressVars(part = "stress" /\ \E c \in Conn : Dial(c))
    /\ \A c \in Conn : WF_stressVars(part = "stress" /\ Closer(c))
    /\ \A c \in Conn : WF_stressVars(part = "stress" /\ Worker(c))

ProcessSpec == ProcessInit /\ [][ProcessNext]_processVars /\ ProcessFairness
=============================================================================
