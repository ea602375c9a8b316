--------------------------- MODULE ProcessProofs ---------------------------
(***************************************************************************)
(* Proofs about the processes around the gateway proper: their start and   *)
(* end, for any processes, hosts and ports; the registration, for any time *)
(* to live, sleep, round trip and number of failures in a row that fit     *)
(* together; the alerts, for any keys, callers and capacity; and the load  *)
(* generator, for any connections.                                         *)
(***************************************************************************)
EXTENDS Startup, Discovery, Alert, Stress, DataLemmas, SequenceTheorems

-----------------------------------------------------------------------------
(* Start and end of gateway processes.                                     *)

\* Where main is says what has been fetched.
FactsFollow ==
    \A p \in Proc : main[p] \in {"off", "load"} => facts[p] \in 0..3

\* From Run on the ID is made of the ports of the process and of an instance ID
\* that is its host's or was taken from an error page.
IDMade ==
    \A p \in Proc : main[p] \in {"run", "listen", "sleep", "register", "wait", "close"} =>
        id[p] = MakeID(conf[p].host, conf[p]) \/ id[p] = MakeID(ErrorPage, conf[p])

\* main does not come past Listen without the listener, nor to its wait without
\* RegisterSelf; nothing else listens or is registered.
ListensFrom ==
    \A p \in Proc :
        /\ main[p] \in {"sleep", "register", "wait"} => tcp[p]
        /\ tcp[p] => main[p] \in {"sleep", "register", "wait", "alert"}
        /\ listed[p] => main[p] \in {"wait", "close"}

\* Two processes of a host do not listen on one port.
OneListener ==
    \A p, q \in Proc : (p # q /\ tcp[p] /\ tcp[q] /\ conf[p].host = conf[q].host)
                          => conf[p].tcp # conf[q].tcp

\* The inductive invariant.
StartInv == StartTypeOK /\ FactsFollow /\ IDMade /\ ListensFrom /\ OneListener

\* Every step keeps the types.
LEMMA StartStepTypes ==
    ASSUME StartInv, [StartNext]_startVars
    PROVE  StartTypeOK'
<1> USE DEF StartInv, StartTypeOK, At
<1>1. ASSUME NEW p \in Proc, Start(p) \/ GetFactFail(p) \/ EndSleep(p) \/ Run(p)
      PROVE  StartTypeOK'
  BY <1>1 DEF Start, GetFactFail, EndSleep, Run
<1>2. ASSUME NEW p \in Proc, GetFact(p)
      PROVE  StartTypeOK'
  <2>1. facts' \in [Proc -> 0..4] /\ main' \in [Proc -> {"off", "load", "run", "listen",
           "sleep", "register", "wait", "alert", "close"}]
    BY <1>2 DEF GetFact, FactsFollow
  <2>2. conf[p].host \in Host /\ conf[p].tcp \in Port /\ conf[p].http \in Port
    BY DEF Conf
  <2>3. id' \in [Proc -> (Value \X Port \X Port) \cup {NoID}]
    BY <1>2, <2>2 DEF GetFact, MakeID, Value
  <2>4. QED
    BY <1>2, <2>1, <2>3 DEF GetFact
<1>3. ASSUME NEW p \in Proc, Listen(p)
      PROVE  StartTypeOK'
  <2>1. CanListen(p) \in BOOLEAN
    BY DEF CanListen
  <2>2. tcp' \in [Proc -> BOOLEAN]
    BY <1>3, <2>1 DEF Listen
  <2>3. QED
    BY <1>3, <2>2 DEF Listen
<1>4. ASSUME NEW p \in Proc, NEW ok \in BOOLEAN, Register(p, ok)
      PROVE  StartTypeOK'
  BY <1>4 DEF Register
<1>5. ASSUME NEW p \in Proc, WebListen(p)
      PROVE  StartTypeOK'
  BY <1>5 DEF WebListen
<1>6. ASSUME NEW p \in Proc, Signal(p)
      PROVE  StartTypeOK'
  BY <1>6 DEF Signal, Notified
<1>7. ASSUME NEW p \in Proc, Shutdown(p)
      PROVE  StartTypeOK'
  BY <1>7 DEF Shutdown
<1>8. ASSUME NEW p \in Proc, Exit(p)
      PROVE  StartTypeOK'
  BY <1>8 DEF Exit
<1>9. CASE UNCHANGED startVars
  BY <1>9 DEF startVars
<1>10. QED
  BY <1>1, <1>2, <1>3, <1>4, <1>5, <1>6, <1>7, <1>8, <1>9 DEF StartNext, MainStep, Metadata

\* Every step keeps the rest of the invariant.
LEMMA StartStepRest ==
    ASSUME StartInv, [StartNext]_startVars
    PROVE  FactsFollow' /\ IDMade' /\ ListensFrom' /\ OneListener'
<1> DEFINE Rest == FactsFollow /\ IDMade /\ ListensFrom /\ OneListener
<1> USE DEF StartInv, StartTypeOK, At, FactsFollow, IDMade, ListensFrom, OneListener
<1>1. ASSUME NEW p \in Proc, Start(p) \/ GetFactFail(p) \/ EndSleep(p) \/ Run(p)
      PROVE  Rest'
  BY <1>1 DEF Start, GetFactFail, EndSleep, Run
<1>2. ASSUME NEW p \in Proc, GetFact(p)
      PROVE  Rest'
  BY <1>2 DEF GetFact
<1>3. ASSUME NEW p \in Proc, Listen(p)
      PROVE  Rest'
  <2>1. \A q \in Proc : CanListen(p) /\ tcp[q] /\ conf[p].host = conf[q].host
                           => conf[p].tcp # conf[q].tcp
    BY DEF CanListen, Taken
  <2>2. OneListener'
    BY <1>3, <2>1 DEF Listen
  <2>3. FactsFollow' /\ IDMade' /\ ListensFrom'
    BY <1>3 DEF Listen
  <2>4. QED
    BY <2>2, <2>3
<1>4. ASSUME NEW p \in Proc, NEW ok \in BOOLEAN, Register(p, ok)
      PROVE  Rest'
  BY <1>4 DEF Register
<1>5. ASSUME NEW p \in Proc, WebListen(p) \/ Signal(p)
      PROVE  Rest'
  BY <1>5 DEF WebListen, Signal
<1>6. ASSUME NEW p \in Proc, Shutdown(p)
      PROVE  Rest'
  BY <1>6 DEF Shutdown
<1>7. ASSUME NEW p \in Proc, Exit(p)
      PROVE  Rest'
  BY <1>7 DEF Exit
<1>8. CASE UNCHANGED startVars
  BY <1>8 DEF startVars
<1>9. QED
  BY <1>1, <1>2, <1>3, <1>4, <1>5, <1>6, <1>7, <1>8 DEF StartNext, MainStep, Metadata

\* Two processes in service have the same ID only if both took an error page for
\* their instance ID (configs.go:36, "Unique service ID"), and a registered
\* process listens, on a port of its own, until it is told to stop.
THEOREM StartIsSafe == StartSpec => []StartSafe
<1>1. StartInit => StartInv
  BY DEF StartInit, StartInv, StartTypeOK, FactsFollow, IDMade, ListensFrom, OneListener
<1>2. StartInv /\ [StartNext]_startVars => StartInv'
  BY StartStepTypes, StartStepRest DEF StartInv
<1>3. StartInv => StartSafe
  <2> SUFFICES ASSUME StartInv
               PROVE  StartSafe
    OBVIOUS
  <2>1. ASSUME NEW p \in Proc, NEW q \in Proc,
               p # q, InService(p), InService(q), id[p] = id[q]
        PROVE  id[p][1] = ErrorPage
    <3>1. id[p] = MakeID(conf[p].host, conf[p]) \/ id[p] = MakeID(ErrorPage, conf[p])
      BY <2>1 DEF StartInv, ListensFrom, IDMade, InService
    <3>2. id[q] = MakeID(conf[q].host, conf[q]) \/ id[q] = MakeID(ErrorPage, conf[q])
      BY <2>1 DEF StartInv, ListensFrom, IDMade, InService
    <3>3. conf[p].host \in Host /\ conf[q].host \in Host
      BY DEF StartInv, StartTypeOK, Conf
    <3>4. conf[p].host = conf[q].host => conf[p].tcp # conf[q].tcp
      BY <2>1 DEF StartInv, OneListener, InService
    <3>5. QED
      BY <2>1, <3>1, <3>2, <3>3, <3>4, StartupAssumption DEF MakeID
  <2>2. ListedAccepts
    BY DEF StartInv, ListensFrom, OneListener, ListedAccepts
  <2>3. QED
    BY <2>1, <2>2 DEF StartInv, StartSafe, UniqueID
<1>4. QED
  BY <1>1, <1>2, <1>3, PTL DEF StartSpec

-----------------------------------------------------------------------------
(* The load generator.                                                     *)

\* The types of the load generator; a window is emptied into the rated sum.
StressTypeOK ==
    /\ dialer \in {"dial", "wait", "end"}
    /\ failed \subseteq Conn
    /\ wpc \in [Conn -> {"none", "sleep", "read", "count", "countTmp", "done"}]
    /\ open \subseteq Conn
    /\ unanswered \in [Conn -> Nat]
    /\ inbox \in [Conn -> Seq({"answer", "push"})]
    /\ pushes \in Nat
    /\ errorNum \in Nat /\ sendNum \in Nat /\ succNum \in Nat
    /\ succNumTmp \in Nat /\ rated \in Nat

\* A connection that could not be opened has no goroutine.
FailedNone == \A c \in failed : wpc[c] = "none"

\* A success that is not counted yet, and an answer that is still awaited, are of
\* a request that was sent.
SuccessSent ==
    succNum + Cardinality(Workers("count")) + Cardinality(Workers("read")) <= sendNum

\* Every error, and every success that is in a window, is counted once.
CountedOnce ==
    /\ errorNum = Cardinality(failed) + Cardinality(Workers("done"))
    /\ succNum = rated + succNumTmp + Cardinality(Workers("countTmp"))

\* What is under way of a connection, either way: one message for the request its
\* goroutine waits for, and one for every pushed message.
UnderWay ==
    \A c \in Conn :
        unanswered[c] + Len(inbox[c]) <= pushes + (IF wpc[c] \in {"read", "done"} THEN 1 ELSE 0)

\* The inductive invariant.
StressInv == StressTypeOK /\ FailedNone /\ SuccessSent /\ CountedOnce /\ UnderWay

\* The goroutines at a place are finitely many.
LEMMA WorkersFinite ==
    ASSUME NEW p
    PROVE  IsFiniteSet(Workers(p)) /\ Cardinality(Workers(p)) \in Nat
BY StressAssumption, FS_Subset, FS_CardinalityType DEF Workers

\* The connections that could not be opened are finitely many.
LEMMA FailedFinite ==
    ASSUME StressTypeOK
    PROVE  IsFiniteSet(failed) /\ Cardinality(failed) \in Nat
BY StressAssumption, FS_Subset, FS_CardinalityType DEF StressTypeOK

\* What a move of a goroutine from `here` to `there` adds to the number at q.
Moved(q, here, there) ==
    IF q = there /\ q # here THEN 1 ELSE IF q # there /\ q = here THEN -1 ELSE 0

\* A goroutine that goes from one place to another is counted at the other.
LEMMA WorkerMoves ==
    ASSUME StressTypeOK, NEW c \in Conn, NEW p,
           wpc' = [wpc EXCEPT ![c] = p]
    PROVE  \A q : Cardinality(Workers(q))' = Cardinality(Workers(q)) + Moved(q, wpc[c], p)
<1> USE DEF Moved
<1> TAKE q
<1>0. IsFiniteSet(Workers(q)) /\ Cardinality(Workers(q)) \in Nat
  BY WorkersFinite
<1>1. CASE q = p /\ q # wpc[c]
  <2>1. Workers(q)' = Workers(q) \cup {c} /\ c \notin Workers(q)
    BY <1>1 DEF Workers, StressTypeOK
  <2>2. Cardinality(Workers(q) \cup {c}) = Cardinality(Workers(q)) + 1
    BY <1>0, <2>1, FS_AddElement
  <2>3. QED
    BY <1>1, <2>1, <2>2
<1>2. CASE q # p /\ q = wpc[c]
  <2>1. Workers(q)' = Workers(q) \ {c} /\ c \in Workers(q)
    BY <1>2 DEF Workers, StressTypeOK
  <2>2. Cardinality(Workers(q) \ {c}) = Cardinality(Workers(q)) - 1
    BY <1>0, <2>1, FS_RemoveElement
  <2>3. QED
    BY <1>0, <1>2, <2>1, <2>2
<1>3. CASE q = p <=> q = wpc[c]
  <2>1. Workers(q)' = Workers(q)
    BY <1>3 DEF Workers, StressTypeOK
  <2>2. QED
    BY <1>0, <1>3, <2>1
<1>4. QED
  BY <1>1, <1>2, <1>3

\* Every step keeps the types and what is under way.
LEMMA StressStepTypes ==
    ASSUME StressTypeOK, FailedNone, UnderWay, [StressNext]_stressVars
    PROVE  StressTypeOK' /\ FailedNone' /\ UnderWay'
<1> USE DEF StressTypeOK, FailedNone, UnderWay, Move, gatewayVars, counters
<1>1. ASSUME NEW c \in Conn, Dial(c)
      PROVE  StressTypeOK' /\ FailedNone' /\ UnderWay'
  <2>1. CASE Move(c, "none", "sleep") /\ open' = open \cup {c} /\ UNCHANGED <<failed, errorNum>>
    BY <1>1, <2>1 DEF Dial
  <2>2. CASE failed' = failed \cup {c} /\ errorNum' = errorNum + 1 /\ UNCHANGED <<wpc, open>>
    BY <1>1, <2>2 DEF Dial
  <2>3. QED
    BY <1>1, <2>1, <2>2 DEF Dial
<1>2. ASSUME NEW c \in Conn, Closer(c)
      PROVE  StressTypeOK' /\ FailedNone' /\ UnderWay'
  BY <1>2 DEF Closer
<1>3. ASSUME NEW c \in Conn, Send(c)
      PROVE  StressTypeOK' /\ FailedNone' /\ UnderWay'
  BY <1>3, LenProperties DEF Send
<1>4. ASSUME NEW c \in Conn, Read(c)
      PROVE  StressTypeOK' /\ FailedNone' /\ UnderWay'
  <2>1. /\ inbox[c] \in Seq({"answer", "push"}) /\ inbox[c] # <<>>
        /\ inbox' = [inbox EXCEPT ![c] = Tail(inbox[c])]
    BY <1>4 DEF Read
  <2>2. Tail(inbox[c]) \in Seq({"answer", "push"}) /\ Len(Tail(inbox[c])) = Len(inbox[c]) - 1
    BY <2>1, HeadTailProperties
  <2>3. Len(inbox[c]) \in Nat
    BY <2>1, LenProperties
  <2> HIDE DEF Move
  <2>4. wpc[c] = "read" /\ \E q \in {"count", "sleep"} : wpc' = [wpc EXCEPT ![c] = q]
    BY <1>4 DEF Read, Move
  <2>5. StressTypeOK'
    BY <1>4, <2>1, <2>2, <2>4 DEF Read
  <2>6. FailedNone'
    BY <1>4, <2>4 DEF Read
  <2>7. UnderWay'
    BY <1>4, <2>1, <2>2, <2>3, <2>4 DEF Read
  <2>8. QED
    BY <2>5, <2>6, <2>7
<1>5. ASSUME NEW c \in Conn, CountSucc(c) \/ CountSuccTmp(c)
      PROVE  StressTypeOK' /\ FailedNone' /\ UnderWay'
  <2>1. CASE CountSucc(c)
    BY <2>1 DEF CountSucc
  <2>2. CASE CountSuccTmp(c)
    BY <2>2 DEF CountSuccTmp
  <2>3. QED
    BY <1>5, <2>1, <2>2
<1>6. ASSUME NEW c \in Conn, Fail(c)
      PROVE  StressTypeOK' /\ FailedNone' /\ UnderWay'
  BY <1>6, LenProperties DEF Fail, Broken
<1>7. ASSUME NEW c \in Conn, Answer(c)
      PROVE  StressTypeOK' /\ FailedNone' /\ UnderWay'
  <2>1. /\ Append(inbox[c], "answer") \in Seq({"answer", "push"})
        /\ Len(Append(inbox[c], "answer")) = Len(inbox[c]) + 1
    BY AppendProperties
  <2>2. QED
    BY <1>7, <2>1, LenProperties DEF Answer
<1>8. ASSUME NEW c \in Conn, Pushed(c)
      PROVE  StressTypeOK' /\ FailedNone' /\ UnderWay'
  <2>1. /\ Append(inbox[c], "push") \in Seq({"answer", "push"})
        /\ Len(Append(inbox[c], "push")) = Len(inbox[c]) + 1
    BY AppendProperties
  <2>2. QED
    BY <1>8, <2>1, LenProperties DEF Pushed
<1>9. CASE Dialer \/ Interrupt
  BY <1>9 DEF Dialer, Interrupt
<1>10. CASE Rate
  BY <1>10 DEF Rate, Swapped
<1>11. CASE UNCHANGED stressVars
  BY <1>11 DEF stressVars
<1>12. QED
  BY <1>1, <1>2, <1>3, <1>4, <1>5, <1>6, <1>7, <1>8, <1>9, <1>10, <1>11 DEF StressNext, Worker

\* Every step keeps the counts.
LEMMA StressStepCounts ==
    ASSUME StressTypeOK, FailedNone, SuccessSent, CountedOnce, [StressNext]_stressVars
    PROVE  SuccessSent' /\ CountedOnce'
<1> DEFINE kr == Cardinality(Workers("read"))
           kc == Cardinality(Workers("count"))
           kt == Cardinality(Workers("countTmp"))
           kd == Cardinality(Workers("done"))
           kf == Cardinality(failed)
<1>0. /\ kr \in Nat /\ kc \in Nat /\ kt \in Nat /\ kd \in Nat /\ kf \in Nat
      /\ errorNum \in Nat /\ sendNum \in Nat /\ succNum \in Nat /\ succNumTmp \in Nat
      /\ rated \in Nat
  BY WorkersFinite, FailedFinite DEF StressTypeOK
<1>2. ASSUME UNCHANGED wpc
      PROVE  UNCHANGED <<kr, kc, kt, kd>>
  BY <1>2 DEF Workers
<1>3. ASSUME NEW c \in Conn, NEW h, NEW p, wpc[c] = h, wpc' = [wpc EXCEPT ![c] = p]
      PROVE  /\ kr' = kr + Moved("read", h, p)
             /\ kc' = kc + Moved("count", h, p)
             /\ kt' = kt + Moved("countTmp", h, p)
             /\ kd' = kd + Moved("done", h, p)
  BY <1>3, WorkerMoves
<1>31. ASSUME NEW h \in {"none", "read", "countTmp"}
       PROVE  /\ Moved("read", h, "sleep") = IF h = "read" THEN -1 ELSE 0
              /\ Moved("count", h, "sleep") = 0
              /\ Moved("countTmp", h, "sleep") = IF h = "countTmp" THEN -1 ELSE 0
              /\ Moved("done", h, "sleep") = 0
  BY <1>31 DEF Moved
<1>6. ASSUME UNCHANGED failed
       PROVE  UNCHANGED kf
  BY <1>6
<1>7. ASSUME NEW c \in Conn \ failed, failed' = failed \cup {c}
       PROVE  kf' = kf + 1
  BY <1>7, FailedFinite, FS_AddElement
<1>4. /\ SuccessSent <=> succNum + kc + kr <= sendNum
      /\ SuccessSent' <=> succNum' + kc' + kr' <= sendNum'
  BY DEF SuccessSent
<1>5. /\ CountedOnce <=> errorNum = kf + kd /\ succNum = rated + succNumTmp + kt
      /\ CountedOnce' <=> errorNum' = kf' + kd' /\ succNum' = rated' + succNumTmp' + kt'
  BY DEF CountedOnce
<1> HIDE DEF kr, kc, kt, kd, kf
<1> USE DEF Move, gatewayVars, counters
<1>8. ASSUME NEW c \in Conn, Dial(c)
      PROVE  SuccessSent' /\ CountedOnce'
  <2>0. UNCHANGED <<sendNum, succNum, succNumTmp, rated>> /\ c \notin failed
    BY <1>8 DEF Dial
  <2>1. CASE Move(c, "none", "sleep") /\ UNCHANGED <<failed, errorNum>>
    <3>1. /\ kr' = kr + Moved("read", "none", "sleep")
          /\ kc' = kc + Moved("count", "none", "sleep")
          /\ kt' = kt + Moved("countTmp", "none", "sleep")
          /\ kd' = kd + Moved("done", "none", "sleep")
      BY <1>3, <2>1
    <3>2. kr' = kr + 0 /\ kc' = kc + 0 /\ kt' = kt + 0 /\ kd' = kd + 0
      BY <1>31, <3>1
    <3>3. QED
      BY <1>0, <1>6, <1>4, <1>5, <2>0, <2>1, <3>2
  <2>2. CASE failed' = failed \cup {c} /\ errorNum' = errorNum + 1 /\ UNCHANGED <<wpc, open>>
    <3>1. kf' = kf + 1
      BY <1>7, <2>0, <2>2
    <3>2. UNCHANGED <<kr, kc, kt, kd>>
      BY <1>2, <2>2
    <3>3. QED
      BY <1>0, <1>4, <1>5, <2>0, <2>2, <3>1, <3>2
  <2>3. QED
    BY <1>8, <2>1, <2>2 DEF Dial
<1>9. ASSUME NEW c \in Conn, Send(c)
      PROVE  SuccessSent' /\ CountedOnce'
  <2>1. /\ wpc[c] = "sleep" /\ wpc' = [wpc EXCEPT ![c] = "read"] /\ sendNum' = sendNum + 1
        /\ UNCHANGED <<failed, errorNum, succNum, succNumTmp, rated>>
    BY <1>9 DEF Send
  <2>2. kr' = kr + 1 /\ kc' = kc + 0 /\ kt' = kt + 0 /\ kd' = kd + 0
    BY <1>3, <2>1 DEF Moved
  <2>3. QED
    BY <1>0, <1>6, <1>4, <1>5, <2>1, <2>2
<1>10. ASSUME NEW c \in Conn, Read(c)
       PROVE  SuccessSent' /\ CountedOnce'
  <2>0. UNCHANGED <<failed, errorNum, sendNum, succNum, succNumTmp, rated>>
    BY <1>10 DEF Read
  <2>1. CASE wpc[c] = "read" /\ wpc' = [wpc EXCEPT ![c] = "count"]
    <3>1. kr' = kr + -1 /\ kc' = kc + 1 /\ kt' = kt + 0 /\ kd' = kd + 0
      BY <1>3, <2>1 DEF Moved
    <3>2. QED
      BY <1>0, <1>6, <1>4, <1>5, <2>0, <3>1
  <2>2. CASE wpc[c] = "read" /\ wpc' = [wpc EXCEPT ![c] = "sleep"]
    <3>1. /\ kr' = kr + Moved("read", "read", "sleep")
          /\ kc' = kc + Moved("count", "read", "sleep")
          /\ kt' = kt + Moved("countTmp", "read", "sleep")
          /\ kd' = kd + Moved("done", "read", "sleep")
      BY <1>3, <2>2
    <3>2. kr' = kr + -1 /\ kc' = kc + 0 /\ kt' = kt + 0 /\ kd' = kd + 0
      BY <1>31, <3>1
    <3>3. QED
      BY <1>0, <1>6, <1>4, <1>5, <2>0, <3>2
  <2>3. QED
    BY <1>10, <2>1, <2>2 DEF Read
<1>11. ASSUME NEW c \in Conn, CountSucc(c)
       PROVE  SuccessSent' /\ CountedOnce'
  <2>1. /\ wpc[c] = "count" /\ wpc' = [wpc EXCEPT ![c] = "countTmp"] /\ succNum' = succNum + 1
        /\ UNCHANGED <<failed, errorNum, sendNum, succNumTmp, rated>>
    BY <1>11 DEF CountSucc
  <2>2. kr' = kr + 0 /\ kc' = kc + -1 /\ kt' = kt + 1 /\ kd' = kd + 0
    BY <1>3, <2>1 DEF Moved
  <2>3. QED
    BY <1>0, <1>6, <1>4, <1>5, <2>1, <2>2
<1>12. ASSUME NEW c \in Conn, CountSuccTmp(c)
       PROVE  SuccessSent' /\ CountedOnce'
  <2>1. /\ wpc[c] = "countTmp" /\ wpc' = [wpc EXCEPT ![c] = "sleep"]
        /\ succNumTmp' = succNumTmp + 1
        /\ UNCHANGED <<failed, errorNum, sendNum, succNum, rated>>
    BY <1>12 DEF CountSuccTmp
  <2>2. /\ kr' = kr + Moved("read", "countTmp", "sleep")
        /\ kc' = kc + Moved("count", "countTmp", "sleep")
        /\ kt' = kt + Moved("countTmp", "countTmp", "sleep")
        /\ kd' = kd + Moved("done", "countTmp", "sleep")
    BY <1>3, <2>1
  <2>3. kr' = kr + 0 /\ kc' = kc + 0 /\ kt' = kt + -1 /\ kd' = kd + 0
    BY <1>31, <2>2
  <2>4. QED
    BY <1>0, <1>6, <1>4, <1>5, <2>1, <2>3
<1>13. ASSUME NEW c \in Conn, Fail(c)
       PROVE  SuccessSent' /\ CountedOnce'
  <2>1. /\ wpc[c] \in {"sleep", "read"} /\ wpc' = [wpc EXCEPT ![c] = "done"]
        /\ errorNum' = errorNum + 1
        /\ UNCHANGED <<failed, sendNum, succNum, succNumTmp, rated>>
    BY <1>13 DEF Fail, Broken
  <2>2. CASE wpc[c] = "sleep"
    <3>1. kr' = kr + 0 /\ kc' = kc + 0 /\ kt' = kt + 0 /\ kd' = kd + 1
      BY <1>3, <2>1, <2>2 DEF Moved
    <3>2. QED
      BY <1>0, <1>6, <1>4, <1>5, <2>1, <3>1
  <2>3. CASE wpc[c] = "read"
    <3>1. kr' = kr + -1 /\ kc' = kc + 0 /\ kt' = kt + 0 /\ kd' = kd + 1
      BY <1>3, <2>1, <2>3 DEF Moved
    <3>2. QED
      BY <1>0, <1>6, <1>4, <1>5, <2>1, <3>1
  <2>4. QED
    BY <2>1, <2>2, <2>3
<1>14. ASSUME UNCHANGED <<wpc, failed, errorNum, sendNum, succNum>>,
              rated' + succNumTmp' = rated + succNumTmp
       PROVE  SuccessSent' /\ CountedOnce'
  BY <1>2, <1>6, <1>4, <1>5, <1>14
<1>15. ASSUME NEW c \in Conn, Closer(c) \/ Answer(c) \/ Pushed(c)
       PROVE  SuccessSent' /\ CountedOnce'
  <2>1. UNCHANGED <<wpc, failed, counters>>
    BY <1>15 DEF Closer, Answer, Pushed
  <2>2. QED
    BY <1>14, <2>1
<1>16. CASE Dialer \/ Interrupt \/ UNCHANGED stressVars
  <2>1. UNCHANGED <<wpc, failed, counters>>
    BY <1>16 DEF Dialer, Interrupt, stressVars
  <2>2. QED
    BY <1>14, <2>1
<1>17. CASE Rate
  <2>1. rated' + succNumTmp' = rated + succNumTmp
    BY <1>0, <1>17 DEF Rate, Swapped
  <2>2. QED
    BY <1>14, <1>17, <2>1 DEF Rate
<1>18. QED
  BY <1>8, <1>9, <1>10, <1>11, <1>12, <1>13, <1>15, <1>16, <1>17 DEF StressNext, Worker

\* The answers in an inbox are not more than the messages in it.
LEMMA AnswersFew ==
    ASSUME NEW s \in Seq({"answer", "push"})
    PROVE  Cardinality({i \in DOMAIN s : s[i] = "answer"}) \in Nat
           /\ Cardinality({i \in DOMAIN s : s[i] = "answer"}) <= Len(s)
<1>1. DOMAIN s = 1..Len(s) /\ Len(s) \in Nat
  BY LenProperties
<1>2. IsFiniteSet(1..Len(s)) /\ Cardinality(1..Len(s)) = Len(s)
  BY <1>1, FS_Interval
<1>3. QED
  BY <1>1, <1>2, FS_Subset, FS_CardinalityType

\* The printed numbers agree, whatever connections fail and whatever the gateway
\* pushes; a pushed message that is taken for an answer never makes a success
\* without a request; and no connection has more than one request under way but
\* for the pushed messages.
THEOREM LoadIsSafe == StressSpec => []LoadSafe
<1>1. StressInit => StressInv
  <2> SUFFICES ASSUME StressInit
               PROVE  StressInv
    OBVIOUS
  <2>1. StressTypeOK /\ FailedNone /\ UnderWay
    BY EmptySeq DEF StressInit, StressTypeOK, FailedNone, UnderWay
  <2>2. Workers("count") = {} /\ Workers("read") = {} /\ Workers("done") = {}
        /\ Workers("countTmp") = {} /\ Cardinality({}) = 0
    BY FS_EmptySet DEF StressInit, Workers
  <2>3. SuccessSent /\ CountedOnce
    <3>1. /\ Cardinality(Workers("count")) = 0 /\ Cardinality(Workers("read")) = 0
          /\ Cardinality(Workers("done")) = 0 /\ Cardinality(Workers("countTmp")) = 0
          /\ Cardinality(failed) = 0
      BY <2>2 DEF StressInit
    <3>2. QED
      BY <3>1 DEF StressInit, SuccessSent, CountedOnce
  <2>4. QED
    BY <2>1, <2>3 DEF StressInv
<1>2. StressInv /\ [StressNext]_stressVars => StressInv'
  BY StressStepTypes, StressStepCounts DEF StressInv
<1>3. StressInv => LoadSafe
  <2> SUFFICES ASSUME StressInv
               PROVE  LoadSafe
    OBVIOUS
  <2>1. NumbersAgree
    <3>1. Cardinality(Workers("read")) \in Nat /\ Cardinality(Workers("count")) \in Nat
          /\ succNum \in Nat /\ sendNum \in Nat
      BY WorkersFinite DEF StressInv, StressTypeOK
    <3>2. QED
      BY <3>1 DEF StressInv, SuccessSent, CountedOnce, NumbersAgree
  <2>2. ASSUME NEW c \in Conn
        PROVE  unanswered[c] + Cardinality({i \in DOMAIN inbox[c] : inbox[c][i] = "answer"})
                 <= 1 + pushes
    <3>1. /\ unanswered[c] \in Nat /\ pushes \in Nat /\ inbox[c] \in Seq({"answer", "push"})
          /\ Len(inbox[c]) \in Nat
          /\ unanswered[c] + Len(inbox[c])
               <= pushes + (IF wpc[c] \in {"read", "done"} THEN 1 ELSE 0)
      BY LenProperties DEF StressInv, StressTypeOK, UnderWay
    <3>2. QED
      BY <3>1, AnswersFew, LenProperties
  <2>3. QED
    BY <2>1, <2>2 DEF FewOutstanding, LoadSafe
<1>4. QED
  BY <1>1, <1>2, <1>3, PTL DEF StressSpec

-----------------------------------------------------------------------------
(* The registration.                                                       *)

\* The least a new record has left, and the length of a failed round.
Fresh == TTL - (Sec - 1)
Round == MaxDelay + Interval

\* How much is left at each point, as a function of the failures so far.
\* NeverLapses alone is not inductive: a step must know how old the record is.
Budget ==
    /\ dpc = "exec" => pending >= Fresh - timer
    /\ dpc = "exec" /\ landed => left >= Fresh - timer
    /\ dpc = "exec" /\ ~landed /\ ~first => left >= Fresh - (fails * Round + Round) - timer
    /\ dpc = "sleep" => left >= Fresh - fails * Round - MaxDelay - timer /\ ~first
    /\ dpc = "begin" /\ ~first => left >= Fresh - (fails * Round + Round)
    /\ dpc = "panicked" => first

\* The variables of the registration always have their types, and no phase
\* outlasts its bound.
THEOREM DiscTypeCorrect == DiscSpec => []DiscTypeOK
<1> USE DiscoveryAssumption DEF DiscTypeOK
<1>1. DiscInit => DiscTypeOK
  <2> SUFFICES ASSUME DiscInit
               PROVE  DiscTypeOK
    OBVIOUS
  <2>1. first \in BOOLEAN /\ landed \in BOOLEAN
    BY Zenon DEF DiscInit
  <2>2. QED
    BY <2>1 DEF DiscInit
<1>2. DiscTypeOK /\ [DiscNext]_discVars => DiscTypeOK'
  <2> SUFFICES ASSUME DiscTypeOK, [DiscNext]_discVars
               PROVE  DiscTypeOK'
    OBVIOUS
  <2>1. CASE Tick
    <3>1. frac' \in 0..(Sec - 1)
      <4>1. frac + 1 \in Nat /\ Sec \in Nat \ {0}
        OBVIOUS
      <4>2. \A n \in Nat, s \in Nat \ {0} : n % s \in 0..(s - 1)
        OBVIOUS
      <4>3. QED
        BY <2>1, <4>1, <4>2 DEF Tick
    <3>2. QED
      BY <2>1, <3>1 DEF Tick, Less
  <2>2. CASE Begin
    <3>1. landed' \in BOOLEAN
      BY <2>2, Zenon DEF Begin
    <3>2. QED
      BY <2>2, <3>1 DEF Begin, Expiration
  <2>3. CASE Land
    <3>1. landed' \in BOOLEAN
      BY <2>3, Zenon DEF Land
    <3>2. QED
      BY <2>3, <3>1 DEF Land
  <2>4. CASE Success
    <3>1. first' \in BOOLEAN
      BY <2>4, Zenon DEF Success
    <3>2. QED
      BY <2>4, <3>1 DEF Success
  <2>5. CASE Failure
    BY <2>5 DEF Failure
  <2>6. CASE Wake
    BY <2>6 DEF Wake
  <2>7. CASE UNCHANGED discVars
    BY <2>7 DEF discVars
  <2>8. QED
    BY <2>1, <2>2, <2>3, <2>4, <2>5, <2>6, <2>7 DEF DiscNext
<1>3. QED
  BY <1>1, <1>2, PTL DEF DiscSpec

\* The failures so far cost a natural number of ticks; one more costs a round.
LEMMA RoundCost ==
    ASSUME DiscTypeOK
    PROVE  /\ Round \in Nat
           /\ fails * Round \in Nat
           /\ (fails + 1) * Round = fails * Round + Round
           /\ (fails + 1) * Round <= (MaxFails + 1) * Round
<1> DEFINE f == fails
           F == MaxFails
<1>1. Round \in Nat /\ f \in Nat /\ F \in Nat /\ f <= F
  BY DiscoveryAssumption DEF Round, DiscTypeOK
<1>2. \A r, x \in Nat : x * r \in Nat /\ (x + 1) * r = x * r + r
  OBVIOUS
<1>3. \A r, x, y \in Nat : x <= y => (x + 1) * r <= (y + 1) * r
  OBVIOUS
<1>4. QED
  BY <1>1, <1>2, <1>3

\* Every step keeps the budget.
LEMMA StepBudget ==
    ASSUME DiscTypeOK, Budget, [DiscNext]_discVars
    PROVE  Budget'
<1> DEFINE spent == fails * Round
<1>1. Round \in Nat /\ spent \in Nat /\ Round = MaxDelay + Interval
      /\ (fails + 1) * Round = spent + Round
  BY RoundCost DEF Round
<1> USE DiscoveryAssumption DEF DiscTypeOK, Fresh
<1>2. CASE Tick
  BY <1>1, <1>2 DEF Tick, Less, Budget, Round
<1>3. CASE Begin
  BY <1>1, <1>3 DEF Begin, Expiration, Budget, Round
<1>4. CASE Land
  BY <1>1, <1>4 DEF Land, Budget, Round
<1>5. CASE Success
  BY <1>1, <1>5 DEF Success, Budget, Round
<1>6. CASE Failure
  BY <1>1, <1>6 DEF Failure, Budget, Round
<1>7. CASE Wake
  BY <1>1, <1>7 DEF Wake, Budget, Round
<1>8. CASE UNCHANGED discVars
  BY <1>8 DEF discVars, Budget
<1>9. QED
  BY <1>2, <1>3, <1>4, <1>5, <1>6, <1>7, <1>8 DEF DiscNext

\* discovery.go:57 and :88: when the time to live covers the sleeps and round
\* trips of MaxFails failed attempts, a registered node never expires.
THEOREM NoLapse == DiscSpec => []NeverLapses
<1>1. DiscInit => Budget
  BY DEF DiscInit, Budget
<1>2. DiscTypeOK /\ Budget /\ [DiscNext]_discVars => Budget'
  BY StepBudget
<1>3. DiscTypeOK /\ Budget => NeverLapses
  <2> SUFFICES ASSUME DiscTypeOK, Budget, Covered, ~first
               PROVE  left > 0
    BY DEF NeverLapses
  <2>1. /\ fails * Round \in Nat
        /\ fails * Round + Round <= (MaxFails + 1) * Round
        /\ Round = MaxDelay + Interval
    BY RoundCost DEF Round
  <2>2. (MaxFails + 1) * Round + MaxDelay + Sec - 1 < TTL
    BY DEF Covered, Round
  <2>3. QED
    BY <2>1, <2>2, DiscoveryAssumption DEF DiscTypeOK, Budget, Fresh
<1>4. QED
  BY <1>1, <1>2, <1>3, DiscTypeCorrect, PTL DEF DiscSpec
-----------------------------------------------------------------------------
(* Alerting.                                                               *)

\* R orders the keys of K by last use.
OrderOf(R, K) ==
    /\ R \subseteq K \X K
    /\ \A j, k \in K : <<j, k>> \in R <=> j # k /\ <<k, j>> \notin R
    /\ \A i, j, k \in K : <<i, j>> \in R /\ <<j, k>> \in R => <<i, k>> \in R

\* The key of a call is the one it was made with until it returns.
KeyOfCall ==
    \A c \in Caller :
        /\ pc[c] \in {"get", "add", "post", "hit", "sent", "failed"} => key[c] \in Key
        /\ pc[c] \in {"idle", "blank"} => key[c] = Blank

\* A key is in the cache as long as it has ticks left, and posts are counted for
\* the keys in the cache only.
CachedWhileLeft ==
    \A k \in Key : IF k \in cache THEN keyLeft[k] > 0 ELSE keyLeft[k] = 0 /\ posts[k] = 0

\* The calls that have not found a key and are about to post it.
Adding(k) == {c \in Caller : pc[c] = "add" /\ key[c] = k}

\* These and the posts of the key so far are different calls.
PostsAndAdding == \A k \in Key : posts[k] + Cardinality(Adding(k)) <= Cardinality(Caller)

\* Nobody can find a key in the cache that nobody has posted or is posting.
Attempted ==
    \A k \in cache : k \in tried \/ \E d \in Caller : pc[d] = "post" /\ key[d] = k

\* The inductive invariant.
AlertInv ==
    /\ AlertTypeOK /\ KeyOfCall /\ CachedWhileLeft /\ PostsAndAdding /\ Attempted
    /\ DeathReported

\* The calls about to post are counted by a natural number.
LEMMA AddingFinite ==
    /\ Cardinality(Caller) \in Nat
    /\ \A k : /\ IsFiniteSet(Adding(k)) /\ Cardinality(Adding(k)) \in Nat
              /\ Cardinality(Adding(k)) <= Cardinality(Caller)
<1> SUFFICES ASSUME NEW k
             PROVE  /\ IsFiniteSet(Adding(k)) /\ Cardinality(Adding(k)) \in Nat
                    /\ Cardinality(Adding(k)) <= Cardinality(Caller)
                    /\ Cardinality(Caller) \in Nat
  OBVIOUS
<1>1. IsFiniteSet(Caller) /\ Adding(k) \in SUBSET Caller
  BY AlertAssumption DEF Adding
<1>2. QED
  BY <1>1, FS_Subset, FS_CardinalityType

\* A key that is used becomes the first in the order.
LEMMA UsedOrders ==
    ASSUME NEW C, OrderOf(newer, C), NEW k, NEW K, k \in K, K \subseteq C \cup {k}
    PROVE  OrderOf(Used(k, K), K)
<1> DEFINE R == Used(k, K)
<1>1. \A i, j \in K : <<i, j>> \in R <=> \/ i = k /\ j # k
                                         \/ i # k /\ j # k /\ <<i, j>> \in newer
  BY DEF Used
<1>2. R \subseteq K \X K
  BY DEF Used
<1>3. \A i \in K : i # k => i \in C
  OBVIOUS
<1> HIDE DEF R
<1>4. \A i, j \in K : <<i, j>> \in R <=> i # j /\ <<j, i>> \notin R
  BY <1>1, <1>3 DEF OrderOf
<1>5. \A h, i, j \in K : <<h, i>> \in R /\ <<i, j>> \in R => <<h, j>> \in R
  <2> SUFFICES ASSUME NEW h \in K, NEW i \in K, NEW j \in K, <<h, i>> \in R, <<i, j>> \in R
               PROVE  <<h, j>> \in R
    OBVIOUS
  <2>1. i # k /\ j # k /\ <<i, j>> \in newer
    BY <1>1
  <2>2. CASE h = k
    BY <1>1, <2>1, <2>2
  <2>3. CASE h # k
    BY <1>1, <1>3, <2>1, <2>3 DEF OrderOf
  <2>4. QED
    BY <2>2, <2>3
<1>6. QED
  BY <1>2, <1>4, <1>5 DEF OrderOf, R

\* Without some keys the others keep their order.
LEMMA RestOrders ==
    ASSUME NEW C, OrderOf(newer, C), NEW K, K \subseteq C
    PROVE  OrderOf(newer \cap K \X K, K)
BY DEF OrderOf

\* Add gives up a key of the cache, and only when there is no room.
LEMMA GivenUpFits ==
    ASSUME AlertTypeOK, NEW k \in Key
    PROVE  LET out == GivenUp(k)
           IN  /\ out \subseteq cache \ {k}
               /\ IsFiniteSet((cache \ out) \cup {k})
               /\ Cardinality((cache \ out) \cup {k}) <= Capacity
<1> DEFINE out == GivenUp(k)
           K == (cache \ out) \cup {k}
<1>1. /\ Capacity \in Nat \ {0} /\ IsFiniteSet(cache)
      /\ Cardinality(cache) \in Nat /\ Cardinality(cache) <= Capacity
  BY AlertAssumption, FS_CardinalityType DEF AlertTypeOK
<1>2. CASE k \in cache
  <2>1. out = {} /\ K = cache
    BY <1>2 DEF GivenUp
  <2>2. QED
    BY <1>1, <2>1
<1>3. CASE k \notin cache /\ Cardinality(cache) < Capacity
  <2>1. out = {} /\ K = cache \cup {k}
    BY <1>3 DEF GivenUp
  <2>2. IsFiniteSet(cache \cup {k}) /\ Cardinality(cache \cup {k}) = Cardinality(cache) + 1
    BY <1>1, <1>3, FS_AddElement
  <2>3. QED
    BY <1>1, <1>3, <2>1, <2>2
<1>4. CASE k \notin cache /\ ~(Cardinality(cache) < Capacity)
  <2> DEFINE j == CHOOSE x \in cache : \A i \in cache \ {x} : <<i, x>> \in newer
  <2>1. out = {j}
    BY <1>4 DEF GivenUp
  <2>2. cache # {}
    BY <1>1, <1>4, FS_EmptySet
  <2>3. \E x \in cache : \A i \in cache \ {x} : <<i, x>> \in newer
    <3>1. /\ \A x, y \in cache : <<x, y>> \in newer <=> x # y /\ <<y, x>> \notin newer
          /\ \A i, x, y \in cache : <<i, x>> \in newer /\ <<x, y>> \in newer
                                       => <<i, y>> \in newer
      BY DEF AlertTypeOK
    <3>2. QED
      BY <1>1, <2>2, <3>1, LastExists
  <2>4. j \in cache
    BY <2>3
  <2> HIDE DEF j
  <2>5. IsFiniteSet(cache \ {j}) /\ Cardinality(cache \ {j}) = Cardinality(cache) - 1
    BY <1>1, <2>4, FS_RemoveElement
  <2>6. /\ IsFiniteSet((cache \ {j}) \cup {k})
        /\ Cardinality((cache \ {j}) \cup {k}) = Cardinality(cache \ {j}) + 1
    BY <1>4, <2>5, FS_AddElement
  <2>7. QED
    BY <1>1, <1>4, <2>1, <2>4, <2>5, <2>6
<1>5. QED
  BY <1>2, <1>3, <1>4
\* Every step keeps the types.
LEMMA AlertStepTypes ==
    ASSUME AlertInv, [AlertNext]_alertVars
    PROVE  AlertTypeOK'
<1> USE DEF AlertInv
<1>1. /\ cache \subseteq Key /\ IsFiniteSet(cache) /\ Cardinality(cache) <= Capacity
      /\ OrderOf(newer, cache)
      /\ KeepFor \in Nat \ {0} /\ Capacity \in Nat \ {0} /\ PostLimit \in Nat \ {0}
      /\ keyLeft \in [Key -> 0..KeepFor] /\ posts \in [Key -> 0..PostLimit]
      /\ pc \in [Caller -> {"idle", "get", "add", "post"} \cup Over]
      /\ key \in [Caller -> Key \cup {Blank}] /\ fatal \in [Caller -> BOOLEAN]
      /\ died \in SUBSET Caller /\ tried \subseteq Key
  BY AlertAssumption, AddingFinite DEF AlertTypeOK, OrderOf, PostLimit
<1>2. SUFFICES /\ cache' \subseteq Key /\ IsFiniteSet(cache') /\ Cardinality(cache') <= Capacity
               /\ OrderOf(newer', cache')
               /\ keyLeft' \in [Key -> 0..KeepFor] /\ posts' \in [Key -> 0..PostLimit]
               /\ pc' \in [Caller -> {"idle", "get", "add", "post"} \cup Over]
               /\ key' \in [Caller -> Key \cup {Blank}] /\ fatal' \in [Caller -> BOOLEAN]
               /\ died' \in SUBSET Caller /\ tried' \subseteq Key
  BY DEF AlertTypeOK, OrderOf, PostLimit
<1>3. ASSUME NEW c \in Caller, NEW k \in Key \cup {Blank}, NEW f \in BOOLEAN, Raise(c, k, f)
      PROVE  <1>2!1
  <2>1. fatal' \in [Caller -> BOOLEAN]
    BY <1>1, <1>3, Zenon DEF Raise
  <2>2. QED
    BY <1>1, <1>3, <2>1 DEF Raise, Goto, cacheVars, Over
<1>4. ASSUME NEW c \in Caller, Lookup(c)
      PROVE  <1>2!1
  <2>1. CASE key[c] \in cache
    <3>1. OrderOf(newer', cache)
      <4>1. OrderOf(Used(key[c], cache), cache)
        BY <1>1, <2>1, UsedOrders
      <4>2. QED
        BY <1>4, <2>1, <4>1 DEF Lookup, Found
    <3>2. QED
      BY <1>1, <1>4, <2>1, <3>1 DEF Lookup, Found, Goto, Over
  <2>2. CASE key[c] \notin cache
    BY <1>1, <1>4, <2>2 DEF Lookup, Goto
  <2>3. QED
    BY <2>1, <2>2
<1>5. ASSUME NEW c \in Caller, Add(c)
      PROVE  <1>2!1
  <2>1. key[c] \in Key
    BY <1>5 DEF Add, KeyOfCall
  <2> DEFINE k == key[c]
             out == GivenUp(k)
             K == (cache \ out) \cup {k}
  <2>2. /\ out \subseteq cache \ {k} /\ IsFiniteSet(K) /\ Cardinality(K) <= Capacity
        /\ cache' = K /\ newer' = Used(k, K)
    BY <1>5, <2>1, GivenUpFits DEF Add
  <2>3. keyLeft' \in [Key -> 0..KeepFor] /\ posts' \in [Key -> 0..PostLimit]
    <3>1. \A j \in Key : keyLeft[j] \in 0..KeepFor /\ posts[j] \in 0..PostLimit
      BY <1>1
    <3>2. /\ keyLeft' = [j \in Key |-> IF j = k THEN KeepFor
                                      ELSE IF j \in out THEN 0 ELSE keyLeft[j]]
          /\ posts' = [j \in Key |-> IF j \in out THEN 0
                                     ELSE IF j = k /\ posts[k] < PostLimit THEN posts[k] + 1
                                     ELSE posts[j]]
      BY <1>5 DEF Add
    <3> HIDE DEF k, out
    <3>3. QED
      BY <1>1, <3>1, <3>2
  <2>4. /\ pc' \in [Caller -> {"idle", "get", "add", "post"} \cup Over]
        /\ tried' \subseteq Key
        /\ key' = key /\ fatal' = fatal /\ died' = died
    BY <1>1, <1>5 DEF Add, Goto
  <2> HIDE DEF out
  <2>5. OrderOf(Used(k, K), K)
    BY <1>1, <2>2, UsedOrders
  <2>6. QED
    BY <1>1, <2>1, <2>2, <2>3, <2>4, <2>5
<1>6. ASSUME NEW c \in Caller, NEW ok \in BOOLEAN, Post(c, ok)
      PROVE  <1>2!1
  <2>1. key[c] \in Key
    BY <1>6 DEF Post, KeyOfCall
  <2>2. cache' = cache /\ newer' = newer
    BY <1>6 DEF Post, AfterFailure
  <2>3. QED
    BY <1>1, <1>6, <2>1, <2>2 DEF Post, Goto, Over
<1>7. ASSUME NEW c \in Caller, Return(c)
      PROVE  <1>2!1
  <2>1. CASE fatal[c]
    BY <1>1, <1>7, <2>1 DEF Return, cacheVars
  <2>2. CASE ~fatal[c]
    BY <1>1, <1>7, <2>2 DEF Return, cacheVars, Goto
  <2>3. QED
    BY <2>1, <2>2
<1>8. CASE Age
  <2> DEFINE gone == {k \in cache : keyLeft[k] = 1}
             K == cache \ gone
  <2>1. cache' = K /\ newer' = newer \cap K \X K /\ tried' = tried \ gone
    BY <1>8 DEF Age
  <2>2. K \subseteq cache /\ IsFiniteSet(K) /\ Cardinality(K) <= Cardinality(cache)
        /\ Cardinality(K) \in Nat /\ Cardinality(cache) \in Nat
    BY <1>1, FS_Subset, FS_CardinalityType
  <2>3. OrderOf(newer \cap K \X K, K)
    BY <1>1, <2>2, RestOrders
  <2>4. keyLeft' \in [Key -> 0..KeepFor] /\ posts' \in [Key -> 0..PostLimit]
    BY <1>1, <1>8 DEF Age
  <2>5. UNCHANGED <<pc, key, fatal, died>>
    BY <1>8 DEF Age
  <2> HIDE DEF K
  <2>6. QED
    BY <1>1, <2>1, <2>2, <2>3, <2>4, <2>5
<1>9. CASE UNCHANGED alertVars
  BY <1>1, <1>9 DEF alertVars
<1>10. QED
  BY <1>3, <1>4, <1>5, <1>6, <1>7, <1>8, <1>9 DEF AlertNext, Call

\* Every step keeps the keys of the calls, and the count of the posts of a key.
LEMMA AlertStepCounts ==
    ASSUME AlertInv, [AlertNext]_alertVars
    PROVE  KeyOfCall' /\ CachedWhileLeft' /\ PostsAndAdding'
<1>1. /\ KeyOfCall /\ CachedWhileLeft /\ PostsAndAdding
      /\ cache \subseteq Key
      /\ KeepFor \in Nat \ {0} /\ Blank \notin Key
      /\ keyLeft \in [Key -> 0..KeepFor] /\ posts \in [Key -> 0..PostLimit]
      /\ pc \in [Caller -> {"idle", "get", "add", "post"} \cup Over]
      /\ key \in [Caller -> Key \cup {Blank}]
      /\ PostLimit = Cardinality(Caller) + 1
  BY AlertAssumption DEF AlertInv, AlertTypeOK, PostLimit
<1>2. \A k \in Key : /\ Cardinality(Adding(k)) \in Nat /\ IsFiniteSet(Adding(k))
                     /\ Cardinality(Adding(k)) <= Cardinality(Caller)
                     /\ Cardinality(Caller) \in Nat
  BY AddingFinite
\* A step that changes no posts and lets no call come to Add.
<1>3. ASSUME posts' = posts, \A k \in Key : Adding(k)' = Adding(k)
      PROVE  PostsAndAdding'
  BY <1>1, <1>3 DEF PostsAndAdding
<1>4. ASSUME NEW c \in Caller, NEW k \in Key \cup {Blank}, NEW f \in BOOLEAN, Raise(c, k, f)
      PROVE  KeyOfCall' /\ CachedWhileLeft' /\ PostsAndAdding'
  <2>1. KeyOfCall' /\ CachedWhileLeft'
    BY <1>1, <1>4 DEF Raise, Goto, KeyOfCall, CachedWhileLeft, cacheVars
  <2>2. \A j \in Key : Adding(j)' = Adding(j)
    BY <1>1, <1>4 DEF Raise, Goto, Adding
  <2>3. posts' = posts
    BY <1>4 DEF Raise, cacheVars
  <2>4. QED
    BY <1>3, <2>1, <2>2, <2>3
<1>5. ASSUME NEW c \in Caller, Lookup(c)
      PROVE  KeyOfCall' /\ CachedWhileLeft' /\ PostsAndAdding'
  <2>1. KeyOfCall' /\ CachedWhileLeft'
    BY <1>1, <1>5 DEF Lookup, Found, Goto, KeyOfCall, CachedWhileLeft
  <2>2. posts' = posts /\ key' = key
    BY <1>5 DEF Lookup
  <2>3. ASSUME NEW j \in Key
        PROVE  posts'[j] + Cardinality(Adding(j))' <= Cardinality(Caller)
    <3>1. CASE key[c] \in cache \/ j # key[c]
      <4>1. Adding(j)' = Adding(j)
        BY <1>1, <1>5, <2>2, <3>1 DEF Lookup, Goto, Adding
      <4>2. QED
        BY <1>1, <2>2, <4>1 DEF PostsAndAdding
    <3>2. CASE key[c] \notin cache /\ j = key[c]
      <4>1. posts[j] = 0
        BY <1>1, <3>2 DEF CachedWhileLeft
      <4>2. Cardinality(Adding(j)') <= Cardinality(Caller) /\ Cardinality(Adding(j)') \in Nat
        <5>1. IsFiniteSet(Caller) /\ Adding(j)' \in SUBSET Caller
          BY AlertAssumption DEF Adding
        <5>2. QED
          BY <5>1, FS_Subset, FS_CardinalityType
      <4>3. QED
        BY <2>2, <4>1, <4>2
    <3>3. QED
      BY <3>1, <3>2
  <2>4. QED
    BY <2>1, <2>3 DEF PostsAndAdding
<1>6. ASSUME NEW c \in Caller, Add(c)
      PROVE  KeyOfCall' /\ CachedWhileLeft' /\ PostsAndAdding'
  <2>1. key[c] \in Key /\ pc[c] = "add"
    BY <1>1, <1>6 DEF Add, KeyOfCall
  <2> DEFINE k == key[c]
             out == GivenUp(k)
  <2>2. /\ out \subseteq cache \ {k}
        /\ cache' = (cache \ out) \cup {k}
        /\ keyLeft' = [j \in Key |-> IF j = k THEN KeepFor
                                     ELSE IF j \in out THEN 0 ELSE keyLeft[j]]
        /\ posts' = [j \in Key |-> IF j \in out THEN 0
                                   ELSE IF j = k /\ posts[k] < PostLimit THEN posts[k] + 1
                                   ELSE posts[j]]
        /\ pc' = [pc EXCEPT ![c] = "post"] /\ key' = key
    BY <1>6, <2>1, GivenUpFits DEF AlertInv, Add, Goto
  <2>3. KeyOfCall'
    BY <1>1, <2>1, <2>2 DEF KeyOfCall
  <2> HIDE DEF out
  <2>4. CachedWhileLeft'
    BY <1>1, <2>1, <2>2 DEF CachedWhileLeft
  <2>5. ASSUME NEW j \in Key
        PROVE  posts'[j] + Cardinality(Adding(j))' <= Cardinality(Caller)
    <3>1. posts[j] \in Nat /\ posts[j] + Cardinality(Adding(j)) <= Cardinality(Caller)
      BY <1>1 DEF PostsAndAdding
    <3>2. CASE j = k
      <4>1. Adding(j)' = Adding(j) \ {c} /\ c \in Adding(j)
        BY <1>1, <2>1, <2>2, <3>2 DEF Adding
      <4>2. Cardinality(Adding(j) \ {c}) = Cardinality(Adding(j)) - 1
        BY <1>2, <4>1, FS_RemoveElement
      <4>3. posts'[j] <= posts[j] + 1 /\ posts'[j] \in Nat
        BY <1>2, <2>2, <3>1, <3>2
      <4>4. QED
        BY <1>2, <3>1, <4>1, <4>2, <4>3
    <3>3. CASE j # k
      <4>1. Adding(j)' = Adding(j)
        BY <1>1, <2>1, <2>2, <3>3 DEF Adding
      <4>2. posts'[j] <= posts[j] /\ posts'[j] \in Nat
        BY <2>2, <3>1, <3>3
      <4>3. QED
        BY <1>2, <3>1, <4>1, <4>2
    <3>4. QED
      BY <3>2, <3>3
  <2>6. QED
    BY <2>3, <2>4, <2>5 DEF PostsAndAdding
<1>7. ASSUME NEW c \in Caller, NEW ok \in BOOLEAN, Post(c, ok)
      PROVE  KeyOfCall' /\ CachedWhileLeft' /\ PostsAndAdding'
  <2>1. /\ cache' = cache /\ keyLeft' = keyLeft /\ posts' = posts /\ key' = key
        /\ pc[c] = "post" /\ pc' = [pc EXCEPT ![c] = IF ok THEN "sent" ELSE "failed"]
    BY <1>7 DEF Post, AfterFailure, Goto
  <2>2. KeyOfCall' /\ CachedWhileLeft'
    BY <1>1, <2>1 DEF KeyOfCall, CachedWhileLeft
  <2>3. \A j \in Key : Adding(j)' = Adding(j)
    BY <1>1, <2>1 DEF Adding
  <2>4. QED
    BY <1>3, <2>1, <2>2, <2>3
<1>8. ASSUME NEW c \in Caller, Return(c)
      PROVE  KeyOfCall' /\ CachedWhileLeft' /\ PostsAndAdding'
  <2>1. CASE fatal[c]
    BY <1>1, <1>8, <2>1 DEF Return, cacheVars, KeyOfCall, CachedWhileLeft, PostsAndAdding, Adding
  <2>2. CASE ~fatal[c]
    <3>1. /\ cache' = cache /\ keyLeft' = keyLeft /\ posts' = posts
          /\ key' = [key EXCEPT ![c] = Blank] /\ pc' = [pc EXCEPT ![c] = "idle"]
          /\ pc[c] \in Over
      BY <1>8, <2>2 DEF Return, cacheVars, Goto
    <3>2. KeyOfCall' /\ CachedWhileLeft'
      BY <1>1, <3>1 DEF KeyOfCall, CachedWhileLeft
    <3>3. \A j \in Key : Adding(j)' = Adding(j)
      BY <1>1, <3>1 DEF Adding, Over
    <3>4. QED
      BY <1>3, <3>1, <3>2, <3>3
  <2>3. QED
    BY <2>1, <2>2
<1>9. CASE Age
  <2>1. KeyOfCall'
    BY <1>1, <1>9 DEF Age, KeyOfCall
  <2>2. CachedWhileLeft'
    BY <1>1, <1>9 DEF Age, CachedWhileLeft
  <2>3. ASSUME NEW j \in Key
        PROVE  posts'[j] + Cardinality(Adding(j))' <= Cardinality(Caller)
    <3>1. Adding(j)' = Adding(j)
      BY <1>9 DEF Age, Adding
    <3>2. posts[j] \in Nat /\ posts[j] + Cardinality(Adding(j)) <= Cardinality(Caller)
      BY <1>1 DEF PostsAndAdding
    <3>3. posts'[j] <= posts[j] /\ posts'[j] \in Nat
      BY <1>1, <1>9, <3>2 DEF Age
    <3>4. QED
      BY <1>2, <3>1, <3>2, <3>3
  <2>4. QED
    BY <2>1, <2>2, <2>3 DEF PostsAndAdding
<1>10. CASE UNCHANGED alertVars
  BY <1>1, <1>10 DEF alertVars, KeyOfCall, CachedWhileLeft, PostsAndAdding, Adding
<1>11. QED
  BY <1>4, <1>5, <1>6, <1>7, <1>8, <1>9, <1>10 DEF AlertNext, Call

\* Every step keeps that keys in the cache have been attempted, and with it that
\* the call that ends the process has said so or knows of somebody who has.
LEMMA AlertStepDeath ==
    ASSUME AlertInv, [AlertNext]_alertVars
    PROVE  Attempted' /\ DeathReported'
<1>1. /\ KeyOfCall /\ Attempted /\ DeathReported
      /\ cache \subseteq Key
      /\ pc \in [Caller -> {"idle", "get", "add", "post"} \cup Over]
      /\ key \in [Caller -> Key \cup {Blank}]
      /\ died \in SUBSET Caller
  BY DEF AlertInv, AlertTypeOK
\* Nothing happens any more when a call has ended the process.
<1>2. ASSUME died = {}, died' = died
      PROVE  DeathReported'
  BY <1>2 DEF DeathReported
\* A step that takes no goroutine out of its post and nothing into the cache.
<1>3. ASSUME cache' \subseteq cache, \A k \in cache' : k \in tried => k \in tried',
             \A d \in Caller : pc[d] = "post" => pc'[d] = "post" /\ key'[d] = key[d]
      PROVE  Attempted'
  BY <1>1, <1>3 DEF Attempted
<1>4. ASSUME NEW c \in Caller, NEW k \in Key \cup {Blank}, NEW f \in BOOLEAN, Raise(c, k, f)
      PROVE  Attempted' /\ DeathReported'
  <2>1. \A d \in Caller : pc[d] = "post" => pc'[d] = "post" /\ key'[d] = key[d]
    BY <1>1, <1>4 DEF Raise, Goto
  <2>2. cache' = cache /\ tried' = tried /\ died = {} /\ died' = died
    BY <1>4 DEF Raise, cacheVars
  <2>3. QED
    BY <1>2, <1>3, <2>1, <2>2
<1>5. ASSUME NEW c \in Caller, Lookup(c)
      PROVE  Attempted' /\ DeathReported'
  <2>1. \A d \in Caller : pc[d] = "post" => pc'[d] = "post" /\ key'[d] = key[d]
    BY <1>1, <1>5 DEF Lookup, Goto
  <2>2. cache' = cache /\ tried' = tried /\ died = {} /\ died' = died
    BY <1>5 DEF Lookup
  <2>3. QED
    BY <1>2, <1>3, <2>1, <2>2
<1>6. ASSUME NEW c \in Caller, Add(c)
      PROVE  Attempted' /\ DeathReported'
  <2>1. key[c] \in Key /\ pc[c] = "add" /\ died = {} /\ died' = died
    BY <1>1, <1>6 DEF Add, KeyOfCall
  <2> DEFINE k == key[c]
             out == GivenUp(k)
  <2>2. /\ cache' = (cache \ out) \cup {k}
        /\ tried' = tried \ (out \cup ({k} \ cache))
        /\ pc' = [pc EXCEPT ![c] = "post"] /\ key' = key
    BY <1>6 DEF Add, Goto
  <2> HIDE DEF out
  <2>3. pc'[c] = "post" /\ key'[c] = k
    BY <1>1, <2>2
  <2>4. \A d \in Caller : pc[d] = "post" => pc'[d] = "post" /\ key'[d] = key[d]
    BY <1>1, <2>1, <2>2
  <2>5. ASSUME NEW j \in cache'
        PROVE  j \in tried' \/ \E d \in Caller : pc'[d] = "post" /\ key'[d] = j
    <3>1. CASE j = k
      BY <2>3, <3>1
    <3>2. CASE j # k
      <4>1. j \in cache /\ j \notin out
        BY <2>2, <2>5, <3>2
      <4>2. j \in tried \/ \E d \in Caller : pc[d] = "post" /\ key[d] = j
        BY <1>1, <4>1 DEF Attempted
      <4>3. QED
        BY <2>2, <2>4, <3>2, <4>1, <4>2
    <3>3. QED
      BY <3>1, <3>2
  <2>6. QED
    BY <1>2, <2>1, <2>5 DEF Attempted
<1>7. ASSUME NEW c \in Caller, NEW ok \in BOOLEAN, Post(c, ok)
      PROVE  Attempted' /\ DeathReported'
  <2>1. /\ cache' = cache /\ key' = key /\ tried' = tried \cup {key[c]}
        /\ died = {} /\ died' = died
    BY <1>7 DEF Post, AfterFailure
  <2>2. \A d \in Caller : pc[d] = "post" => d = c \/ pc'[d] = "post"
    BY <1>1, <1>7 DEF Post, Goto
  <2>3. Attempted'
    BY <1>1, <2>1, <2>2 DEF Attempted
  <2>4. QED
    BY <1>2, <2>1, <2>3
<1>8. ASSUME NEW c \in Caller, Return(c)
      PROVE  Attempted' /\ DeathReported'
  <2>1. CASE fatal[c]
    <3>1. /\ cache' = cache /\ tried' = tried /\ pc' = pc /\ key' = key /\ died' = {c}
          /\ pc[c] \in Over
      BY <1>8, <2>1 DEF Return, cacheVars, MayPanic
    <3>2. pc[c] = "blank" => key[c] = Blank
      BY <1>1 DEF KeyOfCall
    <3>3. key[c] \in cache =>
            key[c] \in tried \/ \E d \in Caller : pc[d] = "post" /\ key[d] = key[c]
      BY <1>1 DEF Attempted
    <3>4. Attempted'
      BY <1>3, <3>1
    <3>5. QED
      BY <3>1, <3>2, <3>3, <3>4 DEF DeathReported, Over
  <2>2. CASE ~fatal[c]
    <3>1. /\ cache' = cache /\ tried' = tried /\ died = {} /\ died' = died
          /\ key' = [key EXCEPT ![c] = Blank] /\ pc' = [pc EXCEPT ![c] = "idle"]
          /\ pc[c] \in Over
      BY <1>8, <2>2 DEF Return, cacheVars, Goto
    <3>2. \A d \in Caller : pc[d] = "post" => pc'[d] = "post" /\ key'[d] = key[d]
      BY <1>1, <3>1 DEF Over
    <3>3. QED
      BY <1>2, <1>3, <3>1, <3>2
  <2>3. QED
    BY <2>1, <2>2
<1>9. CASE Age
  <2>1. /\ cache' \subseteq cache /\ died = {} /\ died' = died /\ pc' = pc /\ key' = key
        /\ \A k \in cache' : k \in tried => k \in tried'
    BY <1>9 DEF Age
  <2>2. QED
    BY <1>2, <1>3, <2>1
<1>10. CASE UNCHANGED alertVars
  BY <1>1, <1>10 DEF alertVars, Attempted, DeathReported
<1>11. QED
  BY <1>4, <1>5, <1>6, <1>7, <1>8, <1>9, <1>10 DEF AlertNext, Call

\* feishu.go:46 and utils.go: goroutines that meet between Get and Add all post, but
\* no more than those, and AlertPanic does not end the process before somebody has
\* at least begun to report it, for any keys, goroutines, capacity and time to live.
THEOREM AlertIsSafe == AlertSpec => []AlertSafe
<1>1. AlertInit => AlertInv
  <2> SUFFICES ASSUME AlertInit
               PROVE  AlertInv
    OBVIOUS
  <2>1. /\ KeepFor \in Nat \ {0} /\ Capacity \in Nat \ {0} /\ PostLimit \in Nat
        /\ IsFiniteSet({}) /\ Cardinality({}) = 0
    BY AlertAssumption, AddingFinite, FS_EmptySet DEF PostLimit
  <2>2. fatal \in [Caller -> BOOLEAN]
    BY Zenon DEF AlertInit
  <2>3. AlertTypeOK
    BY <2>1, <2>2 DEF AlertInit, AlertTypeOK
  <2>4. KeyOfCall /\ CachedWhileLeft /\ Attempted /\ DeathReported
    BY DEF AlertInit, KeyOfCall, CachedWhileLeft, Attempted, DeathReported
  <2>5. PostsAndAdding
    BY AddingFinite DEF AlertInit, PostsAndAdding
  <2>6. QED
    BY <2>3, <2>4, <2>5 DEF AlertInv
<1>2. AlertInv /\ [AlertNext]_alertVars => AlertInv'
  BY AlertStepTypes, AlertStepCounts, AlertStepDeath DEF AlertInv
<1>3. AlertInv => AlertSafe
  <2> SUFFICES ASSUME AlertInv
               PROVE  StormBounded
    BY DEF AlertInv, AlertSafe
  <2> SUFFICES ASSUME NEW k \in Key
               PROVE  posts[k] <= Cardinality(Caller)
    BY DEF StormBounded
  <2>1. /\ posts[k] \in 0..PostLimit /\ PostLimit \in Nat
        /\ Cardinality(Adding(k)) \in Nat /\ Cardinality(Caller) \in Nat
        /\ posts[k] + Cardinality(Adding(k)) <= Cardinality(Caller)
    BY AddingFinite DEF AlertInv, AlertTypeOK, PostsAndAdding, PostLimit
  <2>2. QED
    BY <2>1
<1>4. QED
  BY <1>1, <1>2, <1>3, PTL DEF AlertSpec
=============================================================================
