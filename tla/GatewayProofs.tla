--------------------------- MODULE GatewayProofs ---------------------------
(***************************************************************************)
(* Proofs about the registry and the life cycle of connections, for any    *)
(* finite set of connections, any handlers, stamps and limit of the uids.  *)
(***************************************************************************)
EXTENDS Gateway, FiniteSetTheorems, TLAPS

\* An agent between AddAgent and the end of the process.
Live(c) == phase[c] \in {"added", "counted", "running"}

\* The agents metric.CountConnection counts.
Counted == {c \in Conn : phase[c] \in {"counted", "running"} /\ fpc[c] = "wait"}

\* The types, but for the bounds of the counter, which follow from CountExact.
ShapeOK ==
    /\ agents \in Registry \cup {None}
    /\ agentUIDBase \in 0..UIDLimit
    /\ shut \in {"no", "listener", "http", "locked", "closed"}
    /\ phase \in [Conn -> {"none", "accepted", "added", "counted", "running", "refused"}]
    /\ uid \in [Conn -> UID \cup {None}]
    /\ ctxDone \in [Conn -> BOOLEAN]
    /\ cause \in [Conn -> {None, "loop", "kick", "shutdown"}]
    /\ connOpen \in [Conn -> BOOLEAN]
    /\ disable \in [Conn -> BOOLEAN]
    /\ fpc \in [Conn -> {"wait", "remove", "close", "check", "notify", "done"}]
    /\ notice \in [Conn -> {"none", "taken", "failed"}]
    /\ hpc \in [Handler -> {"idle", "disable", "cancel", "done"}]
    /\ hagent \in [Handler -> Conn \cup {None}]
    /\ process \in {"up", "exited", "panicked"}

\* A connection has a uid from Accept on.
HasUID == \A c \in Conn : phase[c] # "none" => uid[c] \in UID

\* Two atomic operations on the counter for each agent: after Add(1) and before
\* Add(-1) it is counted.
CountExact == count = Cardinality(Counted)

\* A finalizer moves only for an agent that runs and is cancelled.
FinalizerWaits ==
    \A c \in Conn : fpc[c] # "wait" => phase[c] = "running" /\ ctxDone[c]

\* An agent is registered under its uid from AddAgent to RemoveAgent.
Findable ==
    agents # None =>
        \A c \in Conn : (Live(c) /\ fpc[c] \in {"wait", "remove"})
            => uid[c] \in DOMAIN agents /\ agents[uid[c]] = c

\* The registry is nil once Gateway.Close has returned, and only then.
NilAfterClose == agents = None <=> shut = "closed"

\* A handler that is about to cancel has disabled its agent, and an agent that a
\* handler ended is disabled and will not be announced.
KickMarked ==
    /\ \A h \in Handler : hpc[h] \in {"disable", "cancel"} => hagent[h] \in Conn
    /\ \A h \in Handler : hpc[h] = "cancel" => disable[hagent[h]]
    /\ \A c \in Conn : cause[c] = "kick" => disable[c] /\ fpc[c] # "notify" /\ notice[c] = "none"
    /\ \A c \in Conn : fpc[c] = "wait" => notice[c] = "none"

\* Only an agent that has come through AddAgent can be cancelled, also when a
\* handler does it that found the agent long ago; until AddAgent has decided, the
\* gateway has not closed the connection.
CancelledLives ==
    /\ \A c \in Conn : ctxDone[c] => Live(c)
    /\ \A h \in Handler : hagent[h] # None => Live(hagent[h])
    /\ \A c \in Conn : phase[c] = "accepted" => connOpen[c]

\* The inductive invariant.
GwInv ==
    /\ ShapeOK
    /\ HasUID
    /\ CountExact
    /\ FinalizerWaits
    /\ NoZombie
    /\ Findable
    /\ NilAfterClose
    /\ KickMarked
    /\ NoSurvivor
    /\ CancelledLives

-----------------------------------------------------------------------------
(* Facts about the operators.                                              *)

\* A Go map from uids to agents, and what it is not.
LEMMA RegistryFacts ==
    ASSUME agents \in Registry \cup {None}, agents # None
    PROVE  /\ agents \in [DOMAIN agents -> Conn]
           /\ DOMAIN agents \subseteq UID
           /\ Registered = {agents[u] : u \in DOMAIN agents}
BY DEF Registry, Registered, Range

\* The agents in the registry are connections.
LEMMA RegisteredConn ==
    ASSUME agents \in Registry \cup {None}
    PROVE  Registered \subseteq Conn
BY RegistryFacts DEF Registered

\* RemoveAgent of a uid.
LEMMA WithoutFacts ==
    ASSUME agents \in Registry \cup {None}, NEW u
    PROVE  /\ Without(u) \in Registry \cup {None}
           /\ agents = None <=> Without(u) = None
           /\ agents # None =>
                /\ DOMAIN Without(u) = DOMAIN agents \ {u}
                /\ \A v \in DOMAIN agents \ {u} : Without(u)[v] = agents[v]
<1>1. CASE agents = None
  BY <1>1 DEF Without
<1>2. CASE agents # None
  <2> DEFINE D == DOMAIN agents \ {u}
  <2>1. Without(u) = [v \in D |-> agents[v]]
    BY <1>2 DEF Without, Restrict
  <2>2. Without(u) \in [D -> Conn] /\ D \in SUBSET UID
    BY <1>2, <2>1, RegistryFacts
  <2>3. Without(u) \in Registry
    BY <2>2 DEF Registry
  <2>4. Without(u) # None
    BY <2>3, GatewayAssumption
  <2>5. QED
    BY <1>2, <2>1, <2>3, <2>4
<1>3. QED
  BY <1>1, <1>2

\* The next uid is one: GenerateAgentUID never leaves the range of the counter.
LEMMA NextUIDBaseFacts ==
    ASSUME agentUIDBase \in 0..UIDLimit
    PROVE  NextUIDBase \in 1..UIDLimit
BY GatewayAssumption DEF NextUIDBase

-----------------------------------------------------------------------------
(* The inductive invariant, part by part.                                  *)

\* The actions of the gateway, with what each one needs of the invariant.
LEMMA StepShape ==
    ASSUME ShapeOK, HasUID, [Next]_vars
    PROVE  ShapeOK'
<1> USE DEF ShapeOK, registryVars, ctxVars, finVars, connVars, handlerVars, Cancel
<1>1. ASSUME NEW c \in Conn, Accept(c)
      PROVE  ShapeOK'
  <2>1. agentUIDBase' \in 1..UIDLimit
    BY <1>1, NextUIDBaseFacts DEF Accept
  <2>2. agentUIDBase' \in 0..UIDLimit
    BY <2>1, GatewayAssumption
  <2>3. uid' \in [Conn -> UID \cup {None}]
    BY <1>1, <2>1 DEF Accept, UID
  <2>4. QED
    BY <1>1, <2>2, <2>3 DEF Accept
<1>2. ASSUME NEW c \in Conn, AddAgent(c)
      PROVE  ShapeOK'
  <2>1. /\ DOMAIN agents \cup {uid[c]} \in SUBSET UID
        /\ agents' \in [DOMAIN agents \cup {uid[c]} -> Conn]
    BY <1>2, RegistryFacts DEF AddAgent, HasUID
  <2>2. agents' \in Registry
    BY <2>1 DEF Registry
  <2>3. QED
    BY <1>2, <2>2 DEF AddAgent
<1>3. ASSUME NEW c \in Conn, AddDuplicate(c) \/ AddToNil(c) \/ CountUp(c) \/ Run(c)
      PROVE  ShapeOK'
  BY <1>3 DEF AddDuplicate, AddToNil, CountUp, Run
<1>4. ASSUME NEW c \in Conn, LoopReturns(c) \/ CancelNext(c)
      PROVE  ShapeOK'
  BY <1>4 DEF LoopReturns, CancelNext
<1>5. ASSUME NEW c \in Conn, RemoveAgent(c)
      PROVE  ShapeOK'
  BY <1>5, WithoutFacts DEF RemoveAgent
<1>6. ASSUME NEW c \in Conn, CountDown(c) \/ CloseConn(c) \/ CheckDisabled(c) \/ Notify(c)
      PROVE  ShapeOK'
  <2>1. CASE CountDown(c) \/ CloseConn(c) \/ CheckDisabled(c)
    BY <2>1 DEF CountDown, CloseConn, CheckDisabled
  <2>2. CASE Notify(c)
    <3>1. notice' \in [Conn -> {"none", "taken", "failed"}]
      BY <2>2 DEF Notify
    <3>2. QED
      BY <2>2, <3>1 DEF Notify
  <2>3. QED
    BY <1>6, <2>1, <2>2
<1>7. ASSUME NEW h \in Handler, GetAgent(h) \/ HandlerStep(h)
      PROVE  ShapeOK'
  <2>1. CASE GetAgent(h)
    BY <2>1, RegisteredConn DEF GetAgent
  <2>2. CASE HandlerDisable(h)
    BY <2>2 DEF HandlerDisable
  <2>3. CASE HandlerClose(h)
    BY <2>3 DEF HandlerClose
  <2>4. QED
    BY <1>7, <2>1, <2>2, <2>3 DEF HandlerStep
<1>8. CASE CloseListener \/ CloseHttp \/ LockRegistry \/ ClearRegistry \/ Exit
  BY <1>8 DEF CloseListener, CloseHttp, LockRegistry, ClearRegistry, Exit
<1>9. CASE UNCHANGED vars
  BY <1>9 DEF vars
<1>10. QED
  BY <1>1, <1>2, <1>3, <1>4, <1>5, <1>6, <1>7, <1>8, <1>9
  DEF Next, AcceptLoop, Finalizer, CloseGateway

\* Every step keeps the uid of a connection and the order of the finalizer.
LEMMA StepOrder ==
    ASSUME ShapeOK, HasUID, FinalizerWaits, [Next]_vars
    PROVE  HasUID' /\ FinalizerWaits'
<1> USE DEF ShapeOK, HasUID, FinalizerWaits,
            registryVars, ctxVars, finVars, connVars, handlerVars, Cancel
<1>1. ASSUME NEW c \in Conn, Accept(c)
      PROVE  HasUID' /\ FinalizerWaits'
  <2>1. agentUIDBase' \in 1..UIDLimit
    BY <1>1, NextUIDBaseFacts DEF Accept
  <2>2. uid'[c] \in UID /\ \A d \in Conn : d # c => uid'[d] = uid[d]
    BY <1>1, <2>1 DEF Accept, UID
  <2>3. QED
    BY <1>1, <2>2 DEF Accept
<1>2. ASSUME NEW c \in Conn, AcceptLoop(c)
      PROVE  HasUID' /\ FinalizerWaits'
  BY <1>2 DEF AcceptLoop, AddAgent, AddDuplicate, AddToNil, CountUp, Run
<1>3. ASSUME NEW c \in Conn, LoopReturns(c) \/ CancelNext(c)
      PROVE  HasUID' /\ FinalizerWaits'
  BY <1>3 DEF LoopReturns, CancelNext
<1>4. ASSUME NEW c \in Conn, Finalizer(c)
      PROVE  HasUID' /\ FinalizerWaits'
  BY <1>4 DEF Finalizer, CountDown, RemoveAgent, CloseConn, CheckDisabled, Notify
<1>5. ASSUME NEW h \in Handler, GetAgent(h) \/ HandlerStep(h)
      PROVE  HasUID' /\ FinalizerWaits'
  BY <1>5 DEF GetAgent, HandlerStep, HandlerDisable, HandlerClose
<1>6. CASE CloseListener \/ CloseHttp \/ LockRegistry \/ ClearRegistry \/ Exit
  BY <1>6 DEF CloseListener, CloseHttp, LockRegistry, ClearRegistry, Exit
<1>7. CASE UNCHANGED vars
  BY <1>7 DEF vars
<1>8. QED
  BY <1>1, <1>2, <1>3, <1>4, <1>5, <1>6, <1>7 DEF Next, CloseGateway

\* Every step keeps the marks of a kick.
LEMMA StepKick ==
    ASSUME ShapeOK, FinalizerWaits, KickMarked, [Next]_vars
    PROVE  KickMarked'
<1> USE DEF ShapeOK, KickMarked, registryVars, ctxVars, finVars, connVars, handlerVars, Cancel
<1>1. ASSUME NEW c \in Conn, Accept(c) \/ AcceptLoop(c)
      PROVE  KickMarked'
  BY <1>1 DEF Accept, AcceptLoop, AddAgent, AddDuplicate, AddToNil, CountUp, Run
<1>2. ASSUME NEW c \in Conn, LoopReturns(c) \/ CancelNext(c)
      PROVE  KickMarked'
  BY <1>2 DEF LoopReturns, CancelNext
<1>3. ASSUME NEW c \in Conn, CountDown(c) \/ RemoveAgent(c) \/ CloseConn(c) \/ Notify(c)
      PROVE  KickMarked'
  BY <1>3 DEF CountDown, RemoveAgent, CloseConn, Notify
<1>4. ASSUME NEW c \in Conn, CheckDisabled(c)
      PROVE  KickMarked'
  BY <1>4 DEF CheckDisabled, Silent
<1>5. ASSUME NEW h \in Handler, GetAgent(h)
      PROVE  KickMarked'
  BY <1>5, RegisteredConn DEF GetAgent
<1>6. ASSUME NEW h \in Handler, HandlerDisable(h)
      PROVE  KickMarked'
  BY <1>6 DEF HandlerDisable
<1>7. ASSUME NEW h \in Handler, HandlerClose(h)
      PROVE  KickMarked'
  BY <1>7 DEF HandlerClose, FinalizerWaits
<1>8. CASE CloseListener \/ CloseHttp \/ LockRegistry \/ ClearRegistry \/ Exit
  BY <1>8 DEF CloseListener, CloseHttp, LockRegistry, ClearRegistry, Exit
<1>9. CASE UNCHANGED vars
  BY <1>9 DEF vars
<1>10. QED
  BY <1>1, <1>2, <1>3, <1>4, <1>5, <1>6, <1>7, <1>8, <1>9
  DEF Next, Finalizer, HandlerStep, CloseGateway

\* Only AddAgent makes an agent live, only Run, CountDown and the accept loop
\* change who is counted.
LEMMA StepCount ==
    ASSUME ShapeOK, FinalizerWaits, CountExact, [Next]_vars
    PROVE  CountExact'
<1> USE DEF ShapeOK, registryVars, ctxVars, finVars, connVars, handlerVars, Cancel
<1>0. IsFiniteSet(Counted) /\ Cardinality(Counted) \in Nat
  BY GatewayAssumption, FS_Subset, FS_CardinalityType DEF Counted
<1>1. ASSUME NEW c \in Conn, CountUp(c)
      PROVE  CountExact'
  <2>1. c \notin Counted /\ Counted' = Counted \cup {c}
    BY <1>1 DEF CountUp, Counted, FinalizerWaits
  <2>2. Cardinality(Counted \cup {c}) = Cardinality(Counted) + 1
    BY <1>0, <2>1, FS_AddElement
  <2>3. QED
    BY <1>1, <2>1, <2>2 DEF CountUp, CountExact
<1>2. ASSUME NEW c \in Conn, CountDown(c)
      PROVE  CountExact'
  <2>1. c \in Counted /\ Counted' = Counted \ {c}
    BY <1>2 DEF CountDown, Counted
  <2>2. Cardinality(Counted \ {c}) = Cardinality(Counted) - 1
    BY <1>0, <2>1, FS_RemoveElement
  <2>3. QED
    BY <1>2, <2>1, <2>2 DEF CountDown, CountExact
<1>3. ASSUME UNCHANGED count,
             \A c \in Conn :
                /\ phase'[c] \in {"counted", "running"} <=> phase[c] \in {"counted", "running"}
                /\ fpc'[c] = "wait" <=> fpc[c] = "wait"
      PROVE  CountExact'
  BY <1>3 DEF CountExact, Counted
<1>4. ASSUME NEW c \in Conn,
             Accept(c) \/ AddAgent(c) \/ AddDuplicate(c) \/ AddToNil(c) \/ Run(c)
      PROVE  CountExact'
  BY <1>3, <1>4 DEF Accept, AddAgent, AddDuplicate, AddToNil, Run
<1>5. ASSUME NEW c \in Conn, LoopReturns(c) \/ CancelNext(c)
      PROVE  CountExact'
  BY <1>3, <1>5 DEF LoopReturns, CancelNext
<1>6. ASSUME NEW c \in Conn, RemoveAgent(c) \/ CloseConn(c) \/ CheckDisabled(c) \/ Notify(c)
      PROVE  CountExact'
  BY <1>3, <1>6 DEF RemoveAgent, CloseConn, CheckDisabled, Notify
<1>7. ASSUME NEW h \in Handler, GetAgent(h) \/ HandlerStep(h)
      PROVE  CountExact'
  BY <1>3, <1>7 DEF GetAgent, HandlerStep, HandlerDisable, HandlerClose
<1>8. CASE CloseListener \/ CloseHttp \/ LockRegistry \/ ClearRegistry \/ Exit
  BY <1>3, <1>8 DEF CloseListener, CloseHttp, LockRegistry, ClearRegistry, Exit
<1>9. CASE UNCHANGED vars
  BY <1>3, <1>9 DEF vars
<1>10. QED
  BY <1>1, <1>2, <1>4, <1>5, <1>6, <1>7, <1>8, <1>9
  DEF Next, AcceptLoop, Finalizer, CloseGateway

\* Only Gateway.Close makes the registry nil, in its last step.
LEMMA StepNil ==
    ASSUME ShapeOK, HasUID, NilAfterClose, [Next]_vars
    PROVE  NilAfterClose'
<1> USE DEF ShapeOK, NilAfterClose, registryVars, ctxVars, finVars, connVars, handlerVars
<1>1. ASSUME NEW c \in Conn, AddAgent(c)
      PROVE  NilAfterClose'
  <2>1. /\ DOMAIN agents \cup {uid[c]} \in SUBSET UID
        /\ agents' \in [DOMAIN agents \cup {uid[c]} -> Conn]
    BY <1>1, RegistryFacts DEF AddAgent, HasUID
  <2>2. agents' \in Registry
    BY <2>1 DEF Registry
  <2>3. agents' # None
    BY <2>2, GatewayAssumption
  <2>4. QED
    BY <1>1, <2>3 DEF AddAgent
<1>2. ASSUME NEW c \in Conn, RemoveAgent(c)
      PROVE  NilAfterClose'
  BY <1>2, WithoutFacts DEF RemoveAgent
<1>3. ASSUME NEW c \in Conn,
             \/ Accept(c) \/ AddDuplicate(c) \/ AddToNil(c) \/ CountUp(c) \/ Run(c)
             \/ LoopReturns(c) \/ CountDown(c) \/ CloseConn(c) \/ CheckDisabled(c)
             \/ Notify(c) \/ CancelNext(c)
      PROVE  NilAfterClose'
  BY <1>3 DEF Accept, AddDuplicate, AddToNil, CountUp, Run, LoopReturns, CountDown,
              CloseConn, CheckDisabled, Notify, CancelNext
<1>4. ASSUME NEW h \in Handler, GetAgent(h) \/ HandlerStep(h)
      PROVE  NilAfterClose'
  BY <1>4 DEF GetAgent, HandlerStep, HandlerDisable, HandlerClose
<1>5. CASE CloseListener \/ CloseHttp \/ LockRegistry \/ ClearRegistry \/ Exit
  BY <1>5 DEF CloseListener, CloseHttp, LockRegistry, ClearRegistry, Exit
<1>6. CASE UNCHANGED vars
  BY <1>6 DEF vars
<1>7. QED
  BY <1>1, <1>2, <1>3, <1>4, <1>5, <1>6 DEF Next, AcceptLoop, Finalizer, CloseGateway

\* What AddAgent leaves in the registry.
LEMMA AddFacts ==
    ASSUME ShapeOK, NEW c \in Conn, AddAgent(c)
    PROVE  /\ DOMAIN agents' = DOMAIN agents \cup {uid[c]}
           /\ agents'[uid[c]] = c /\ uid[c] \notin DOMAIN agents
           /\ \A u \in DOMAIN agents : agents'[u] = agents[u]
           /\ agents # None
BY DEF AddAgent, Duplicate

\* Every step keeps the registry free of agents that are gone.
LEMMA StepZombie ==
    ASSUME ShapeOK, FinalizerWaits, NilAfterClose, NoZombie, [Next]_vars
    PROVE  NoZombie'
<1> USE DEF ShapeOK, NoZombie, registryVars, ctxVars, finVars, connVars, handlerVars, Cancel
<1>0. agents # None => \A u \in DOMAIN agents : agents[u] \in Conn
  BY RegistryFacts
<1>1. ASSUME NEW c \in Conn, Accept(c)
      PROVE  NoZombie'
  BY <1>0, <1>1 DEF Accept
<1>2. ASSUME NEW c \in Conn, AddAgent(c)
      PROVE  NoZombie'
  <2>1. phase'[c] = "added" /\ fpc'[c] = "wait" /\ UNCHANGED <<uid, fpc>>
    BY <1>2 DEF AddAgent, FinalizerWaits
  <2>2. \A d \in Conn : d # c => phase'[d] = phase[d]
    BY <1>2 DEF AddAgent
  <2>3. /\ DOMAIN agents' = DOMAIN agents \cup {uid[c]}
        /\ agents'[uid[c]] = c
        /\ \A u \in DOMAIN agents : agents'[u] = agents[u]
        /\ agents # None
    BY <1>2, AddFacts
  <2>4. ASSUME NEW u \in DOMAIN agents'
        PROVE  /\ uid'[agents'[u]] = u
               /\ phase'[agents'[u]] \in {"added", "counted", "running"}
               /\ fpc'[agents'[u]] \in {"wait", "remove"}
    <3>1. CASE u \in DOMAIN agents
      <4>1. agents'[u] = agents[u] /\ agents[u] \in Conn
        BY <1>0, <2>3, <3>1
      <4>2. uid[agents[u]] = u /\ fpc[agents[u]] \in {"wait", "remove"}
            /\ phase[agents[u]] \in {"added", "counted", "running"}
        BY <2>3, <3>1
      <4>3. QED
        BY <2>1, <2>2, <4>1, <4>2
    <3>2. CASE u \notin DOMAIN agents
      <4>1. u = uid[c] /\ agents'[u] = c
        BY <2>3, <3>2
      <4>2. QED
        BY <2>1, <4>1
    <3>3. QED
      BY <3>1, <3>2
  <2>5. QED
    BY <2>4
<1>3. ASSUME NEW c \in Conn, AddDuplicate(c) \/ AddToNil(c) \/ CountUp(c) \/ Run(c)
      PROVE  NoZombie'
  BY <1>0, <1>3 DEF AddDuplicate, AddToNil, CountUp, Run
<1>4. ASSUME NEW c \in Conn, LoopReturns(c) \/ CancelNext(c)
      PROVE  NoZombie'
  BY <1>4 DEF LoopReturns, CancelNext
<1>5. ASSUME NEW c \in Conn, RemoveAgent(c)
      PROVE  NoZombie'
  <2>1. agents' = Without(uid[c]) /\ UNCHANGED <<uid, phase>>
        /\ \A d \in Conn : d # c => fpc'[d] = fpc[d]
    BY <1>5 DEF RemoveAgent
  <2>2. agents # None <=> agents' # None
    BY <2>1, WithoutFacts
  <2>3. ASSUME agents # None
        PROVE  /\ DOMAIN agents' = DOMAIN agents \ {uid[c]}
               /\ \A u \in DOMAIN agents' : agents'[u] = agents[u]
    <3> DEFINE k == uid[c]
    <3> HIDE DEF k
    <3>1. /\ DOMAIN Without(k) = DOMAIN agents \ {k}
          /\ \A u \in DOMAIN agents \ {k} : Without(k)[u] = agents[u]
      BY <2>3, WithoutFacts
    <3>2. agents' = Without(k)
      BY <2>1 DEF k
    <3>3. QED
      BY <3>1, <3>2 DEF k
  <2>4. ASSUME agents # None, NEW u \in DOMAIN agents'
        PROVE  /\ uid'[agents'[u]] = u
               /\ phase'[agents'[u]] \in {"added", "counted", "running"}
               /\ fpc'[agents'[u]] \in {"wait", "remove"}
    <3>1. u \in DOMAIN agents /\ u # uid[c] /\ agents'[u] = agents[u]
      BY <2>3, <2>4
    <3>2. agents[u] \in Conn /\ agents[u] # c
      BY <1>0, <2>4, <3>1
    <3>3. QED
      BY <2>1, <2>4, <3>1, <3>2
  <2>5. QED
    BY <2>2, <2>4
<1>6. ASSUME NEW c \in Conn, CountDown(c) \/ CloseConn(c) \/ CheckDisabled(c) \/ Notify(c)
      PROVE  NoZombie'
  BY <1>0, <1>6 DEF CountDown, CloseConn, CheckDisabled, Notify
<1>7. ASSUME NEW h \in Handler, GetAgent(h) \/ HandlerStep(h)
      PROVE  NoZombie'
  BY <1>7 DEF GetAgent, HandlerStep, HandlerDisable, HandlerClose
<1>8. CASE CloseListener \/ CloseHttp \/ LockRegistry \/ ClearRegistry \/ Exit
  BY <1>8 DEF CloseListener, CloseHttp, LockRegistry, ClearRegistry, Exit
<1>9. CASE UNCHANGED vars
  BY <1>9 DEF vars
<1>10. QED
  BY <1>1, <1>2, <1>3, <1>4, <1>5, <1>6, <1>7, <1>8, <1>9
  DEF Next, AcceptLoop, Finalizer, CloseGateway

\* Every step keeps an agent registered from AddAgent to RemoveAgent; deleting by
\* uid deletes the agent's own entry.
LEMMA StepFindable ==
    ASSUME ShapeOK, FinalizerWaits, NilAfterClose, Findable, [Next]_vars
    PROVE  Findable'
<1> USE DEF ShapeOK, Findable, Live, registryVars, ctxVars, finVars, connVars, handlerVars, Cancel
<1>1. ASSUME NEW c \in Conn, Accept(c)
      PROVE  Findable'
  BY <1>1 DEF Accept
<1>2. ASSUME NEW c \in Conn, AddAgent(c)
      PROVE  Findable'
  <2>1. UNCHANGED <<uid, fpc>> /\ \A d \in Conn : d # c => phase'[d] = phase[d]
    BY <1>2 DEF AddAgent
  <2>2. /\ DOMAIN agents' = DOMAIN agents \cup {uid[c]}
        /\ agents'[uid[c]] = c
        /\ \A u \in DOMAIN agents : agents'[u] = agents[u]
        /\ agents # None
    BY <1>2, AddFacts
  <2>3. ASSUME NEW d \in Conn, Live(d)', fpc'[d] \in {"wait", "remove"}
        PROVE  uid'[d] \in DOMAIN agents' /\ agents'[uid'[d]] = d
    <3>1. CASE d = c
      BY <2>1, <2>2, <3>1
    <3>2. CASE d # c
      BY <2>1, <2>2, <2>3, <3>2
    <3>3. QED
      BY <3>1, <3>2
  <2>4. QED
    BY <2>3
<1>3. ASSUME NEW c \in Conn, AddDuplicate(c) \/ AddToNil(c) \/ CountUp(c) \/ Run(c)
      PROVE  Findable'
  BY <1>3 DEF AddDuplicate, AddToNil, CountUp, Run
<1>4. ASSUME NEW c \in Conn, LoopReturns(c) \/ CancelNext(c)
      PROVE  Findable'
  BY <1>4 DEF LoopReturns, CancelNext
<1>5. ASSUME NEW c \in Conn, RemoveAgent(c)
      PROVE  Findable'
  <2>1. /\ agents' = Without(uid[c]) /\ UNCHANGED <<uid, phase>>
        /\ fpc[c] = "remove" /\ fpc'[c] = "close"
        /\ \A d \in Conn : d # c => fpc'[d] = fpc[d]
    BY <1>5 DEF RemoveAgent
  <2>2. agents # None => uid[c] \in DOMAIN agents /\ agents[uid[c]] = c
    BY <2>1 DEF FinalizerWaits
  <2>3. agents # None <=> agents' # None
    BY <2>1, WithoutFacts
  <2>4. ASSUME agents # None
        PROVE  /\ DOMAIN agents' = DOMAIN agents \ {uid[c]}
               /\ \A u \in DOMAIN agents' : agents'[u] = agents[u]
    <3> DEFINE k == uid[c]
    <3> HIDE DEF k
    <3>1. /\ DOMAIN Without(k) = DOMAIN agents \ {k}
          /\ \A u \in DOMAIN agents \ {k} : Without(k)[u] = agents[u]
      BY <2>4, WithoutFacts
    <3>2. agents' = Without(k)
      BY <2>1 DEF k
    <3>3. QED
      BY <3>1, <3>2 DEF k
  <2>5. ASSUME agents # None, NEW d \in Conn, Live(d)', fpc'[d] \in {"wait", "remove"}
        PROVE  uid'[d] \in DOMAIN agents' /\ agents'[uid'[d]] = d
    <3>1. d # c
      BY <2>1, <2>5
    <3>2. uid[d] \in DOMAIN agents /\ agents[uid[d]] = d
      BY <2>1, <2>5, <3>1
    <3>3. uid[d] # uid[c]
      BY <2>2, <2>5, <3>1, <3>2
    <3>4. QED
      BY <2>1, <2>4, <2>5, <3>2, <3>3
  <2>6. QED
    BY <2>3, <2>5
<1>6. ASSUME NEW c \in Conn, CountDown(c) \/ CloseConn(c) \/ CheckDisabled(c) \/ Notify(c)
      PROVE  Findable'
  BY <1>6 DEF CountDown, CloseConn, CheckDisabled, Notify
<1>7. ASSUME NEW h \in Handler, GetAgent(h) \/ HandlerStep(h)
      PROVE  Findable'
  BY <1>7 DEF GetAgent, HandlerStep, HandlerDisable, HandlerClose
<1>8. CASE CloseListener \/ CloseHttp \/ LockRegistry \/ ClearRegistry \/ Exit
  BY <1>8 DEF CloseListener, CloseHttp, LockRegistry, ClearRegistry, Exit
<1>9. CASE UNCHANGED vars
  BY <1>9 DEF vars
<1>10. QED
  BY <1>1, <1>2, <1>3, <1>4, <1>5, <1>6, <1>7, <1>8, <1>9
  DEF Next, AcceptLoop, Finalizer, CloseGateway

\* Every step keeps Close complete: when it sets the registry to nil every live
\* agent is registered and cancelled, or already in its finalizer, and nothing is
\* added to the nil registry.
LEMMA StepSurvivor ==
    ASSUME ShapeOK, FinalizerWaits, NilAfterClose, Findable, NoSurvivor, [Next]_vars
    PROVE  NoSurvivor'
<1> USE DEF ShapeOK, NoSurvivor, registryVars, ctxVars, finVars, connVars, handlerVars, Cancel
<1>1. ASSUME NEW c \in Conn, AddAgent(c)
      PROVE  NoSurvivor'
  BY <1>1 DEF AddAgent, NilAfterClose
<1>2. ASSUME NEW c \in Conn, Accept(c)
      PROVE  NoSurvivor'
  BY <1>2 DEF Accept
<1>3. ASSUME NEW c \in Conn, AddDuplicate(c) \/ AddToNil(c) \/ CountUp(c) \/ Run(c)
      PROVE  NoSurvivor'
  BY <1>3 DEF AddDuplicate, AddToNil, CountUp, Run
<1>4. ASSUME NEW c \in Conn, LoopReturns(c) \/ CancelNext(c)
      PROVE  NoSurvivor'
  BY <1>4 DEF LoopReturns, CancelNext
<1>5. ASSUME NEW c \in Conn, Finalizer(c)
      PROVE  NoSurvivor'
  BY <1>5 DEF Finalizer, CountDown, RemoveAgent, CloseConn, CheckDisabled, Notify
<1>6. ASSUME NEW h \in Handler, GetAgent(h) \/ HandlerDisable(h)
      PROVE  NoSurvivor'
  BY <1>6 DEF GetAgent, HandlerDisable
<1>7. ASSUME NEW h \in Handler, HandlerClose(h)
      PROVE  NoSurvivor'
  BY <1>7 DEF HandlerClose
<1>8. CASE ClearRegistry
  <2>1. agents # None /\ UNCHANGED <<phase, ctxDone>> /\ \A c \in Registered : ctxDone[c]
    BY <1>8 DEF ClearRegistry, NilAfterClose
  <2>2. ASSUME NEW c \in Conn, Live(c)
        PROVE  ctxDone[c]
    <3>1. CASE fpc[c] \in {"wait", "remove"}
      <4>1. c \in Registered
        BY <2>1, <2>2, <3>1, RegistryFacts DEF Findable
      <4>2. QED
        BY <2>1, <4>1
    <3>2. CASE fpc[c] \notin {"wait", "remove"}
      BY <3>2 DEF FinalizerWaits
    <3>3. QED
      BY <3>1, <3>2
  <2>3. QED
    BY <2>1, <2>2 DEF Live
<1>9. CASE CloseListener \/ CloseHttp \/ LockRegistry \/ Exit
  BY <1>9 DEF CloseListener, CloseHttp, LockRegistry, Exit
<1>10. CASE UNCHANGED vars
  BY <1>10 DEF vars
<1>11. QED
  BY <1>1, <1>2, <1>3, <1>4, <1>5, <1>6, <1>7, <1>8, <1>9, <1>10
  DEF Next, AcceptLoop, HandlerStep, CloseGateway

\* Every step leaves agents that are cancelled, or held by a handler, alive.
LEMMA StepLives ==
    ASSUME ShapeOK, NoZombie, FinalizerWaits, KickMarked, CancelledLives, [Next]_vars
    PROVE  CancelledLives'
<1> USE DEF ShapeOK, CancelledLives, Live, registryVars, ctxVars, finVars, connVars,
    handlerVars, Cancel
<1>1. ASSUME NEW c \in Conn, Accept(c)
      PROVE  CancelledLives'
  BY <1>1 DEF Accept
<1>2. ASSUME NEW c \in Conn,
             AddAgent(c) \/ AddDuplicate(c) \/ AddToNil(c) \/ CountUp(c) \/ Run(c)
      PROVE  CancelledLives'
  BY <1>2 DEF AddAgent, AddDuplicate, AddToNil, CountUp, Run
<1>3. ASSUME NEW c \in Conn, LoopReturns(c)
      PROVE  CancelledLives'
  BY <1>3 DEF LoopReturns
<1>4. ASSUME NEW c \in Conn, Finalizer(c)
      PROVE  CancelledLives'
  BY <1>4 DEF Finalizer, CountDown, RemoveAgent, CloseConn, CheckDisabled, Notify, FinalizerWaits
<1>5. ASSUME NEW h \in Handler, GetAgent(h)
      PROVE  CancelledLives'
  <2>1. PICK c \in Registered : hagent' = [hagent EXCEPT ![h] = c]
    BY <1>5 DEF GetAgent
  <2>2. Live(c)
    BY <2>1 DEF Registered, Range, NoZombie
  <2>3. QED
    BY <1>5, <2>1, <2>2 DEF GetAgent
<1>6. ASSUME NEW h \in Handler, HandlerDisable(h)
      PROVE  CancelledLives'
  BY <1>6 DEF HandlerDisable
<1>7. ASSUME NEW h \in Handler, HandlerClose(h)
      PROVE  CancelledLives'
  <2>1. hagent[h] \in Conn /\ Live(hagent[h])
    BY <1>7, GatewayAssumption DEF HandlerClose, KickMarked
  <2>2. QED
    BY <1>7, <2>1 DEF HandlerClose
<1>8. ASSUME NEW c \in Conn, CancelNext(c)
      PROVE  CancelledLives'
  <2>1. Live(c)
    BY <1>8 DEF CancelNext, Registered, Range, NoZombie
  <2>2. QED
    BY <1>8, <2>1 DEF CancelNext
<1>9. CASE CloseListener \/ CloseHttp \/ LockRegistry \/ ClearRegistry \/ Exit
  BY <1>9 DEF CloseListener, CloseHttp, LockRegistry, ClearRegistry, Exit
<1>10. CASE UNCHANGED vars
  BY <1>10 DEF vars
<1>11. QED
  BY <1>1, <1>2, <1>3, <1>4, <1>5, <1>6, <1>7, <1>8, <1>9, <1>10
  DEF Next, AcceptLoop, HandlerStep, CloseGateway

-----------------------------------------------------------------------------
(* The theorems.                                                           *)

\* Init establishes the inductive invariant.
LEMMA InitGwInv == Init => GwInv
<1> SUFFICES ASSUME Init
             PROVE  GwInv
  OBVIOUS
<1> USE GatewayAssumption DEF Init
<1>1. agents \in Registry /\ DOMAIN agents = {}
  <2>1. agents \in [{} -> Conn] /\ DOMAIN agents = {}
    OBVIOUS
  <2>2. QED
    BY <2>1 DEF Registry
<1>2. ShapeOK
  BY <1>1 DEF ShapeOK
<1>3. Counted = {} /\ Cardinality({}) = 0
  BY FS_EmptySet DEF Counted
<1>4. agents # None
  BY <1>1
<1>5. HasUID /\ CountExact /\ FinalizerWaits /\ NoZombie /\ Findable
  BY <1>1, <1>3 DEF HasUID, CountExact, FinalizerWaits, NoZombie, Findable, Live
<1>6. NilAfterClose /\ KickMarked /\ NoSurvivor /\ CancelledLives
  BY <1>4 DEF NilAfterClose, KickMarked, NoSurvivor, CancelledLives
<1>7. QED
  BY <1>2, <1>5, <1>6 DEF GwInv

\* The inductive invariant holds in every state.
LEMMA GwInvHolds == Spec => []GwInv
<1>1. GwInv /\ [Next]_vars => GwInv'
  BY StepShape, StepOrder, StepCount, StepZombie, StepFindable, StepNil, StepKick,
     StepSurvivor, StepLives DEF GwInv
<1>2. QED
  BY <1>1, InitGwInv, PTL DEF Spec

\* The variables of the registry always have their types, and the counter never
\* exceeds the number of connections.
THEOREM GwTypeCorrect == Spec => []GwTypeOK
<1>1. GwInv => GwTypeOK
  <2> SUFFICES ASSUME GwInv
               PROVE  GwTypeOK
    OBVIOUS
  <2>1. /\ IsFiniteSet(Counted) /\ Cardinality(Counted) <= Cardinality(Conn)
        /\ Cardinality(Counted) \in Nat /\ Cardinality(Conn) \in Nat
    <3>1. Counted \subseteq Conn
      BY DEF Counted
    <3>2. QED
      BY <3>1, GatewayAssumption, FS_Subset, FS_CardinalityType
  <2>2. count \in 0..Cardinality(Conn)
    BY <2>1 DEF GwInv, CountExact
  <2>3. QED
    BY <2>2 DEF GwInv, ShapeOK, GwTypeOK
<1>2. QED
  BY <1>1, GwInvHolds, PTL

\* The registry holds exactly the agents that live: no entry outlives its agent,
\* no agent loses its entry to another one's RemoveAgent, in whatever order accept
\* loop, finalizers, handlers and Gateway.Close run.
THEOREM RegistryIsExact == Spec => []RegistryExact
<1>1. GwInv => RegistryExact
  BY RegistryFacts DEF GwInv, ShapeOK, Findable, Live, RegistryExact, Reachable
<1>2. QED
  BY <1>1, GwInvHolds, PTL

\* The number of online users is never negative, and is the size of the registry
\* whenever no connection is on its way in or out.
THEOREM CountIsRegistry == Spec => []CountAgrees
<1>1. GwInv => CountAgrees
  <2> SUFFICES ASSUME GwInv
               PROVE  CountAgrees
    OBVIOUS
  <2>1. Cardinality(Counted) \in Nat
    BY GatewayAssumption, FS_Subset, FS_CardinalityType DEF Counted
  <2>2. ASSUME agents # None, AcceptIdle, \A c \in Conn : fpc[c] # "remove"
        PROVE  Counted = Registered
    <3>1. /\ DOMAIN agents \subseteq UID /\ \A u \in DOMAIN agents : agents[u] \in Conn
          /\ Registered = {agents[u] : u \in DOMAIN agents}
      BY <2>2, RegistryFacts DEF GwInv, ShapeOK
    <3>2. ASSUME NEW c \in Counted
          PROVE  c \in Registered
      BY <2>2, <3>1 DEF GwInv, Findable, Live, Counted, AcceptIdle
    <3>3. ASSUME NEW u \in DOMAIN agents
          PROVE  agents[u] \in Counted
      BY <2>2, <3>1 DEF GwInv, NoZombie, Counted, AcceptIdle
    <3>4. QED
      BY <3>1, <3>2, <3>3
  <2>3. QED
    BY <2>1, <2>2 DEF GwInv, CountExact, CountAgrees
<1>2. QED
  BY <1>1, GwInvHolds, PTL

\* The registry keeps its types, and the number of online users, which two atomic
\* operations of different goroutines change, never drifts from it.
THEOREM GatewayIsSafe == Spec => []GwSafe
BY GwTypeCorrect, CountIsRegistry, PTL DEF GwSafe

\* A client whose context a handler cancelled is not announced as gone.
THEOREM KickIsSilent == Spec => []KickedSilent
<1>1. GwInv => KickedSilent
  BY DEF GwInv, KickMarked, KickedSilent
<1>2. QED
  BY <1>1, GwInvHolds, PTL

\* When Gateway.Close has returned, every agent that runs or will be run is
\* cancelled, also one accepted while Close ran.
THEOREM NobodySurvives == Spec => []NoSurvivor
<1>1. GwInv => NoSurvivor
  BY DEF GwInv
<1>2. QED
  BY <1>1, GwInvHolds, PTL

-----------------------------------------------------------------------------
(* The registry is a directory.                                            *)

Stages == [c \in Conn |-> Stage(c)]
Dir == IF agents = None THEN <<>> ELSE agents

\* The stages of a connection.
LEMMA StageFacts ==
    ASSUME ShapeOK, NEW c \in Conn
    PROVE  /\ Stage(c) = "new" <=> ~Live(c)
           /\ Stage(c) = "listed" <=> Live(c) /\ ~ctxDone[c]
           /\ Stage(c) = "cancelled" <=> Live(c) /\ ctxDone[c] /\ fpc[c] \in {"wait", "remove"}
           /\ Stage(c) = "ended" <=> Live(c) /\ ctxDone[c] /\ fpc[c] \notin {"wait", "remove"}
BY DEF Stage, Live, ShapeOK

\* What the handlers hold, and a step that leaves them alone.
Helds == [h \in Handler |-> IF hpc[h] = "done" THEN None ELSE hagent[h]]

\* A step that moves no connection across a stage.
LEMMA StagesStay ==
    ASSUME ShapeOK, \A c \in Conn : Live(c)' <=> Live(c), ctxDone' = ctxDone,
           \A c \in Conn : fpc'[c] \in {"wait", "remove"} <=> fpc[c] \in {"wait", "remove"}
    PROVE  Stages' = Stages
BY DEF Stages, Stage, Live, ShapeOK

\* A step that moves one connection.
LEMMA StagesMove ==
    ASSUME ShapeOK, NEW c \in Conn, NEW s,
           Stage(c)' = s,
           \A d \in Conn \ {c} : phase'[d] = phase[d] /\ ctxDone'[d] = ctxDone[d] /\ fpc'[d] = fpc[d]
    PROVE  Stages' = [Stages EXCEPT ![c] = s]
<1>1. \A d \in Conn \ {c} : Stage(d)' = Stage(d)
  BY DEF Stage
<1>2. QED
  BY <1>1 DEF Stages

\* AddAgent enters a connection.
LEMMA AddEnters ==
    ASSUME GwInv, NEW c \in Conn, AddAgent(c)
    PROVE  [Listing!Next]_(Listing!vars)
<1> USE DEF GwInv, registryVars, ctxVars, finVars, connVars, handlerVars
<1>1. /\ agents # None /\ uid[c] \in UID /\ uid[c] \notin DOMAIN agents
      /\ agents' = [u \in DOMAIN agents \cup {uid[c]} |-> IF u = uid[c] THEN c ELSE agents[u]]
  BY DEF AddAgent, Duplicate, HasUID
<1>2. agents' # None
  <2>1. DOMAIN agents \cup {uid[c]} \in SUBSET UID /\ agents' \in [DOMAIN agents \cup {uid[c]} -> Conn]
    BY <1>1, RegistryFacts DEF ShapeOK
  <2>2. agents' \in Registry
    BY <2>1 DEF Registry
  <2>3. QED
    BY <2>2, GatewayAssumption
<1>3. ~Live(c) /\ ~ctxDone[c]
  BY DEF AddAgent, CancelledLives, Live
<1>4. Stage(c) = "new"
  BY <1>3, StageFacts
<1>5. Stage(c)' = "listed"
  BY <1>3 DEF AddAgent, Stage, ShapeOK
<1>6. Stages' = [Stages EXCEPT ![c] = "listed"]
  BY <1>5, StagesMove DEF AddAgent, ShapeOK
<1>7. Listing!Enter(c, uid[c])
  BY <1>1, <1>2, <1>4, <1>6 DEF Listing!Enter, Stages, AddAgent
<1>8. QED
  BY <1>1, <1>7 DEF Listing!Next

\* Whoever cancels a context: the first time the connection is cancelled, after
\* that nothing happens.
LEMMA CancelCancels ==
    ASSUME GwInv, NEW c \in Conn, Live(c), ctxDone' = [ctxDone EXCEPT ![c] = TRUE],
           UNCHANGED <<agents, phase, fpc, hpc, hagent>>
    PROVE  [Listing!Next]_(Listing!vars)
<1> USE DEF GwInv
<1>1. CASE ctxDone[c]
  <2>1. ctxDone' = ctxDone
    BY <1>1 DEF ShapeOK
  <2>2. Stages' = Stages
    BY <2>1, StagesStay DEF Live
  <2>3. QED
    BY <2>2 DEF Stages, Listing!vars
<1>2. CASE ~ctxDone[c]
  <2>1. Stage(c) = "listed"
    BY <1>2, StageFacts
  <2>2. fpc[c] = "wait"
    BY <1>2 DEF FinalizerWaits
  <2>3. Stage(c)' = "cancelled"
    BY <2>2 DEF Stage, Live, ShapeOK
  <2>4. Stages' = [Stages EXCEPT ![c] = "cancelled"]
    BY <2>3, StagesMove DEF ShapeOK
  <2>5. Listing!Cancel(c)
    BY <2>1, <2>4 DEF Listing!Cancel, Stages
  <2>6. QED
    BY <2>5 DEF Listing!Next
<1>3. QED
  BY <1>1, <1>2

\* RemoveAgent takes out exactly the entry of its own agent.
LEMMA RemoveLeaves ==
    ASSUME GwInv, NEW c \in Conn, RemoveAgent(c)
    PROVE  [Listing!Next]_(Listing!vars)
<1> USE DEF GwInv, registryVars, ctxVars, finVars, connVars, handlerVars
<1>1. Live(c) /\ ctxDone[c] /\ fpc[c] = "remove"
  BY DEF RemoveAgent, FinalizerWaits, Live
<1>2. Stage(c) = "cancelled"
  BY <1>1, StageFacts
<1>3. Stage(c)' = "ended"
  BY <1>1 DEF RemoveAgent, Stage, Live, ShapeOK
<1>4. Stages' = [Stages EXCEPT ![c] = "ended"]
  BY <1>3, StagesMove DEF RemoveAgent, ShapeOK
<1>5. Dir' = [u \in DOMAIN Dir \ Listing!Entries(c) |-> Dir[u]]
  <2>1. CASE agents = None
    <3>1. agents' = None
      BY <2>1 DEF RemoveAgent, Without
    <3>2. QED
      BY <2>1, <3>1 DEF Dir
  <2>2. CASE agents # None
    <3>1. /\ agents' = [u \in DOMAIN agents \ {uid[c]} |-> agents[u]]
          /\ agents' # None
      BY <2>2, WithoutFacts DEF RemoveAgent, Without, Restrict, ShapeOK
    <3>2. Listing!Entries(c) = {u \in DOMAIN agents : agents[u] = c}
      BY <2>2 DEF Listing!Entries
    <3>3. uid[c] \in DOMAIN agents /\ agents[uid[c]] = c
      BY <1>1, <2>2 DEF Findable
    <3>4. \A u \in DOMAIN agents : agents[u] = c => u = uid[c]
      BY <2>2 DEF NoZombie
    <3>5. Listing!Entries(c) = {uid[c]}
      BY <3>2, <3>3, <3>4
    <3>6. QED
      BY <2>2, <3>1, <3>5 DEF Dir
  <2>3. QED
    BY <2>1, <2>2
<1>6. (agents = None) = (agents' = None)
  BY WithoutFacts DEF RemoveAgent, ShapeOK
<1>7. Listing!Leave(c)
  BY <1>2, <1>4, <1>5, <1>6 DEF Listing!Leave, Stages, Dir, RemoveAgent
<1>8. QED
  BY <1>7 DEF Listing!Next

\* A handler finds what is registered.
LEMMA GetFinds ==
    ASSUME GwInv, NEW h \in Handler, GetAgent(h)
    PROVE  [Listing!Next]_(Listing!vars)
<1> USE DEF GwInv, registryVars, ctxVars, finVars, connVars, handlerVars
<1>1. agents # None
  BY DEF GetAgent, Registered
<1>2. PICK u \in DOMAIN agents : hagent' = [hagent EXCEPT ![h] = agents[u]]
  <2>1. PICK c \in Registered : hagent' = [hagent EXCEPT ![h] = c]
    BY DEF GetAgent
  <2>2. \E u \in DOMAIN agents : c = agents[u]
    BY <1>1, RegistryFacts DEF ShapeOK
  <2>3. QED
    BY <2>1, <2>2
<1>3. u \in UID
  BY <1>1, RegistryFacts DEF ShapeOK
<1>4. Stages' = Stages
  BY DEF GetAgent, Stages, Stage
<1>5. Helds' = [Helds EXCEPT ![h] = agents[u]]
  BY <1>2 DEF GetAgent, Helds, ShapeOK
<1>6. Listing!Find(h, u)
  BY <1>1, <1>4, <1>5 DEF Listing!Find, Stages, Helds, GetAgent
<1>7. QED
  BY <1>3, <1>6 DEF Listing!Next

\* The kick of a handler cancels the agent it holds, if nobody did before.
LEMMA CloseKicks ==
    ASSUME GwInv, NEW h \in Handler, HandlerClose(h)
    PROVE  [Listing!Next]_(Listing!vars)
<1> USE DEF GwInv, registryVars, ctxVars, finVars, connVars, handlerVars
<1>0. PICK c \in Conn : c = hagent[h]
  BY DEF HandlerClose, KickMarked
<1>1. /\ hpc[h] = "cancel"
      /\ ctxDone' = [ctxDone EXCEPT ![c] = TRUE]
      /\ hpc' = [hpc EXCEPT ![h] = "done"]
      /\ UNCHANGED <<agents, phase, fpc, hagent>>
  BY <1>0 DEF HandlerClose, Cancel
<1>2. Live(c)
  BY <1>0, GatewayAssumption DEF CancelledLives
<1>3. Helds[h] = c /\ Helds' = [Helds EXCEPT ![h] = None]
  BY <1>0, <1>1 DEF Helds, ShapeOK
<1>4. Stages' = [Stages EXCEPT ![c] = IF Stages[c] = "listed" THEN "cancelled" ELSE Stages[c]]
  <2>1. CASE ctxDone[c]
    <3>1. ctxDone' = ctxDone
      BY <1>1, <2>1 DEF ShapeOK
    <3>2. Stages' = Stages
      BY <1>1, <3>1, StagesStay DEF Live
    <3>3. Stages[c] # "listed"
      BY <1>1, <2>1, StageFacts DEF Stages
    <3>4. QED
      BY <3>2, <3>3 DEF Stages
  <2>2. CASE ~ctxDone[c]
    <3>1. Stages[c] = "listed" /\ fpc[c] = "wait"
      BY <1>1, <1>2, <2>2, StageFacts DEF Stages, FinalizerWaits
    <3>2. Stage(c)' = "cancelled"
      BY <1>1, <1>2, <3>1 DEF Stage, Live, ShapeOK
    <3>3. Stages' = [Stages EXCEPT ![c] = "cancelled"]
      BY <1>1, <3>2, StagesMove DEF ShapeOK
    <3>4. QED
      BY <3>1, <3>3
  <2>3. QED
    BY <2>1, <2>2
<1>5. Listing!Kick(h)
  BY <1>0, <1>1, <1>3, <1>4 DEF Listing!Kick, Stages, Helds
<1>6. QED
  BY <1>5 DEF Listing!Next

\* The registry is given up when everybody in it is cancelled.
LEMMA ClearShuts ==
    ASSUME GwInv, ClearRegistry
    PROVE  [Listing!Next]_(Listing!vars)
<1> USE DEF GwInv, registryVars, ctxVars, finVars, connVars, handlerVars
<1>1. agents # None /\ agents' = None
  BY DEF ClearRegistry, NilAfterClose
<1>2. ASSUME NEW c \in Conn
      PROVE  Stage(c) # "listed"
  <2>1. ASSUME Live(c), ~ctxDone[c]
        PROVE  FALSE
    <3>1. fpc[c] = "wait"
      BY <2>1 DEF FinalizerWaits
    <3>2. c \in Registered
      BY <1>1, <2>1, <3>1, RegistryFacts DEF Findable, ShapeOK
    <3>3. QED
      BY <2>1, <3>2 DEF ClearRegistry
  <2>2. QED
    BY <2>1, StageFacts
<1>3. Stages' = Stages
  BY DEF ClearRegistry, Stages, Stage
<1>4. Listing!Shut
  BY <1>1, <1>2, <1>3 DEF Listing!Shut, Stages, ClearRegistry
<1>5. QED
  BY <1>4 DEF Listing!Next

\* Every step of the gateway is a step of the directory, or none.
LEMMA StepLists ==
    ASSUME GwInv, [Next]_vars
    PROVE  [Listing!Next]_(Listing!vars)
<1> USE DEF GwInv, registryVars, ctxVars, finVars, connVars, handlerVars
<1>1. ASSUME NEW c \in Conn, Accept(c) \/ AddDuplicate(c) \/ AddToNil(c) \/ CountUp(c) \/ Run(c)
      PROVE  UNCHANGED Listing!vars
  <2>1. \A d \in Conn : Live(d)' <=> Live(d)
    BY <1>1 DEF Accept, AddDuplicate, AddToNil, CountUp, Run, Live, ShapeOK
  <2>2. UNCHANGED <<agents, ctxDone, fpc, hpc, hagent>>
    BY <1>1 DEF Accept, AddDuplicate, AddToNil, CountUp, Run
  <2>3. Stages' = Stages
    BY <2>1, <2>2, StagesStay
  <2>4. QED
    BY <2>2, <2>3 DEF Stages, Listing!vars
<1>2. ASSUME NEW c \in Conn, LoopReturns(c)
      PROVE  [Listing!Next]_(Listing!vars)
  <2>1. Live(c)
    BY <1>2 DEF LoopReturns, Live
  <2>2. QED
    BY <1>2, <2>1, CancelCancels DEF LoopReturns, Cancel
<1>3. ASSUME NEW c \in Conn, CancelNext(c)
      PROVE  [Listing!Next]_(Listing!vars)
  <2>1. Live(c)
    BY <1>3 DEF CancelNext, Registered, Range, NoZombie, Live
  <2>2. QED
    BY <1>3, <2>1, CancelCancels DEF CancelNext, Cancel
<1>4. ASSUME NEW c \in Conn, CountDown(c) \/ CloseConn(c) \/ CheckDisabled(c) \/ Notify(c)
      PROVE  UNCHANGED Listing!vars
  <2>1. UNCHANGED <<agents, phase, ctxDone, hpc, hagent>>
    BY <1>4 DEF CountDown, CloseConn, CheckDisabled, Notify
  <2>2. \A d \in Conn : fpc'[d] \in {"wait", "remove"} <=> fpc[d] \in {"wait", "remove"}
    BY <1>4 DEF CountDown, CloseConn, CheckDisabled, Notify, ShapeOK
  <2>3. \A d \in Conn : Live(d)' <=> Live(d)
    BY <2>1 DEF Live
  <2>4. Stages' = Stages
    BY <2>1, <2>2, <2>3, StagesStay
  <2>5. QED
    BY <2>1, <2>4 DEF Stages, Listing!vars
<1>5. ASSUME NEW h \in Handler, HandlerDisable(h)
      PROVE  UNCHANGED Listing!vars
  BY <1>5 DEF HandlerDisable, Listing!vars, Stage
<1>6. CASE CloseListener \/ CloseHttp \/ LockRegistry \/ Exit
  BY <1>6 DEF CloseListener, CloseHttp, LockRegistry, Exit, Listing!vars, Stage
<1>7. CASE UNCHANGED vars
  BY <1>7 DEF vars, Listing!vars, Stage
<1>8. QED
  BY <1>1, <1>2, <1>3, <1>4, <1>5, <1>6, <1>7, AddEnters, RemoveLeaves, GetFinds,
     CloseKicks, ClearShuts
  DEF Next, AcceptLoop, Finalizer, HandlerStep, CloseGateway

\* The registry is a directory of connections: RemoveAgent takes out the entry of
\* its own agent and no other, GetAgent hands out only what is registered, and
\* after Gateway.Close nothing is listed, found or entered, in whatever order
\* accept loop, finalizers, handlers and Close run.
THEOREM RegistryIsDirectory == Spec => DirectorySafety
<1>1. Init => Listing!Init
  <2> SUFFICES ASSUME Init
               PROVE  Listing!Init
    OBVIOUS
  <2>1. Stages = [c \in Conn |-> "new"]
    BY DEF Init, Stages, Stage
  <2>2. agents = <<>> /\ agents # None
    BY InitGwInv DEF Init, GwInv, NilAfterClose
  <2>3. <<>> \in [{} -> {c \in Conn : Stages[c] = "listed"}]
    OBVIOUS
  <2>4. <<>> \in UNION {[D -> {c \in Conn : Stages[c] = "listed"}] : D \in SUBSET UID}
    BY <2>3
  <2>5. QED
    BY <2>1, <2>2, <2>4 DEF Init, Listing!Init, Stages
<1>2. GwInv /\ [Next]_vars => [Listing!Next]_(Listing!vars)
  BY StepLists
<1>3. QED
  BY <1>1, <1>2, GwInvHolds, PTL DEF Spec, DirectorySafety, Listing!Spec

-----------------------------------------------------------------------------
(* Each connection by itself is an agent.                                  *)

\* A step of the gateway is a step of one agent's life, or none.
LEMMA StepAgent ==
    ASSUME GwInv, [Next]_vars, NEW c \in Conn
    PROVE  [Single(c)!AgentNext]_(Single(c)!agentVars)
<1> USE DEF GwInv, ShapeOK, registryVars, ctxVars, finVars, connVars, handlerVars, Cancel,
    Single!AgentNext, Single!agentVars
<1>1. ASSUME NEW d \in Conn, Accept(d) \/ AddAgent(d) \/ AddDuplicate(d) \/ AddToNil(d)
                             \/ CountUp(d) \/ Run(d)
      PROVE  UNCHANGED Single(c)!agentVars
  BY <1>1 DEF Accept, AddAgent, AddDuplicate, AddToNil, CountUp, Run, CancelledLives
<1>2. ASSUME NEW d \in Conn, LoopReturns(d) \/ CancelNext(d)
      PROVE  Single(c)!Close \/ UNCHANGED Single(c)!agentVars
  BY <1>2 DEF LoopReturns, CancelNext, Single!Close
<1>3. ASSUME NEW d \in Conn, CountDown(d) \/ RemoveAgent(d)
      PROVE  UNCHANGED Single(c)!agentVars
  BY <1>3 DEF CountDown, RemoveAgent
<1>4. ASSUME NEW d \in Conn, CloseConn(d)
      PROVE  Single(c)!FinCleanup \/ UNCHANGED Single(c)!agentVars
  BY <1>4 DEF CloseConn, Single!FinCleanup, FinalizerWaits
<1>5. ASSUME NEW d \in Conn, CheckDisabled(d)
      PROVE  Single(c)!FinCheck \/ UNCHANGED Single(c)!agentVars
  BY <1>5 DEF CheckDisabled, Silent, Single!FinCheck
<1>6. ASSUME NEW d \in Conn, Notify(d)
      PROVE  Single(c)!FinNotify \/ UNCHANGED Single(c)!agentVars
  BY <1>6 DEF Notify, Single!FinNotify
<1>7. ASSUME NEW h \in Handler, GetAgent(h)
      PROVE  UNCHANGED Single(c)!agentVars
  BY <1>7 DEF GetAgent
<1>8. ASSUME NEW h \in Handler, HandlerDisable(h)
      PROVE  Single(c)!Disable \/ UNCHANGED Single(c)!agentVars
  BY <1>8, GatewayAssumption DEF HandlerDisable, KickMarked, Single!Disable
<1>9. ASSUME NEW h \in Handler, HandlerClose(h)
      PROVE  Single(c)!Close \/ UNCHANGED Single(c)!agentVars
  BY <1>9, GatewayAssumption DEF HandlerClose, KickMarked, Single!Close
<1>10. CASE CloseListener \/ CloseHttp \/ LockRegistry \/ ClearRegistry \/ Exit
  BY <1>10 DEF CloseListener, CloseHttp, LockRegistry, ClearRegistry, Exit
<1>11. CASE UNCHANGED vars
  BY <1>11 DEF vars
<1>12. QED
  BY <1>1, <1>2, <1>3, <1>4, <1>5, <1>6, <1>7, <1>8, <1>9, <1>10, <1>11
  DEF Next, AcceptLoop, Finalizer, HandlerStep, CloseGateway

\* A connection begins as an agent whose finalizer waits.
LEMMA InitAgent ==
    ASSUME Init, NEW c \in Conn
    PROVE  Single(c)!AgentInit
BY DEF Init, Single!AgentInit

\* The gateway drives every agent through the life that the modules of a single
\* connection assume: it closes the connection only after the cancellation, once,
\* and then, if nobody has disabled the agent, announces its end, once.
THEOREM ConnsAreAgents == Spec => AgentSafety
<1>1. Init => \A c \in Conn : Single(c)!AgentInit
  BY InitAgent
<1>2. GwInv /\ [Next]_vars
        => [\A c \in Conn : [Single(c)!AgentNext]_(Single(c)!agentVars)]_vars
  BY StepAgent
<1>3. QED
  BY <1>1, <1>2, GwInvHolds, PTL DEF Spec, AgentSafety

\* Each connection by itself behaves as the agent of Inbound and Outbound.
THEOREM ConnIsAgent ==
    ASSUME NEW c \in Conn
    PROVE  Spec => Single(c)!AgentSpec
<1>1. Init => Single(c)!AgentInit
  BY InitAgent
<1>2. GwInv /\ [Next]_vars => [Single(c)!AgentNext]_(Single(c)!agentVars)
  BY StepAgent
<1>3. QED
  BY <1>1, <1>2, GwInvHolds, PTL DEF Spec, Single!AgentSpec
=============================================================================
