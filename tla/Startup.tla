------------------------------ MODULE Startup -------------------------------
(***************************************************************************)
(* The life of gateway processes (cmd/gateway, pkg/configs, the listeners  *)
(* of Gateway.Run and Gateway.Close, and AlertPanic): each asks the cloud's *)
(* metadata service who it is, starts the private HTTP service in a        *)
(* goroutine and the public TCP service, sleeps two seconds, registers     *)
(* itself and waits for a signal.  Processes share hosts and their ports.  *)
(*                                                                         *)
(* Of the four facts from the metadata service only the instance ID, the   *)
(* last one, goes into the ID.  The ports come from the command line.      *)
(* Heartbeats are the business of Discovery, connections of Gateway.       *)
(***************************************************************************)
EXTENDS Integers, FiniteSets

CONSTANTS
    Proc,      \* processes
    Host,      \* machines, whose instance IDs are different
    Port,      \* ports
    ErrorPage  \* what the metadata service sends with an error status

ASSUME StartupAssumption == ErrorPage \notin Host

VARIABLES
    conf,      \* host, PublicTcpPort and PrivateHttpPort of a process
    main,      \* where main is
    facts,     \* metadata that was fetched
    id,        \* NodeInfo.ID
    tcp,       \* whether publicTcpService listens
    web,       \* where the goroutine of privateHttpService is
    asked,     \* the processes that were sent SIGINT or SIGTERM
    signalled, \* whether the context of main is done
    listed     \* whether RegisterSelf has succeeded

startVars == <<conf, main, facts, id, tcp, web, asked, signalled, listed>>

Conf == [host : Host, tcp : Port, http : Port]
NoID == <<>>
Value == Host \cup {ErrorPage}

StartTypeOK ==
    /\ conf \in [Proc -> Conf]
    /\ main \in [Proc -> {"off", "load", "run", "listen", "sleep", "register", "wait",
                         "alert", "close"}]
    /\ facts \in [Proc -> 0..4]
    /\ id \in [Proc -> (Value \X Port \X Port) \cup {NoID}]
    /\ tcp \in [Proc -> BOOLEAN]
    /\ web \in [Proc -> {"none", "start", "serve", "alert", "end"}]
    /\ asked \subseteq Proc
    /\ signalled \in [Proc -> BOOLEAN]
    /\ listed \in [Proc -> BOOLEAN]

StartInit ==
    /\ conf \in [Proc -> Conf]
    /\ main = [p \in Proc |-> "off"]
    /\ facts = [p \in Proc |-> 0]
    /\ id = [p \in Proc |-> NoID]
    /\ tcp = [p \in Proc |-> FALSE]
    /\ web = [p \in Proc |-> "none"]
    /\ asked = {}
    /\ signalled = [p \in Proc |-> FALSE]
    /\ listed = [p \in Proc |-> FALSE]

At(p, here, there) == main[p] = here /\ main' = [main EXCEPT ![p] = there]

\* The ports that processes of a host listen on.
Taken(h) == {conf[p].tcp : p \in {q \in Proc : conf[q].host = h /\ tcp[q]}}
       \cup {conf[p].http : p \in {q \in Proc : conf[q].host = h /\ web[q] = "serve"}}

\* The process starts, or is started again.
Start(p) ==
    /\ At(p, "off", "load")
    /\ UNCHANGED <<conf, facts, id, tcp, web, asked, signalled, listed>>

\* Seeded defect of MakeID: the ports are left out.
MakeIDShort(v, c) == <<v, 0, 0>>

MakeID(v, c) == <<v, c.tcp, c.http>>

\* One call of get in LoadNodeInfo.  The status of the answer is not looked at,
\* and http.Get waits for it without a timeout.
GetFact(p) ==
    /\ main[p] = "load"
    /\ \E v \in {conf[p].host, ErrorPage} :
         IF facts[p] = 3
         THEN /\ At(p, "load", "run")
              /\ id' = [id EXCEPT ![p] = MakeID(v, conf[p])]
         ELSE UNCHANGED <<main, id>>
    /\ facts' = [facts EXCEPT ![p] = @ + 1]
    /\ UNCHANGED <<conf, tcp, web, asked, signalled, listed>>

\* The metadata service cannot be reached: AlertPanic.
GetFactFail(p) ==
    /\ At(p, "load", "alert")
    /\ UNCHANGED <<conf, facts, id, tcp, web, asked, signalled, listed>>

CanListen(p) == conf[p].tcp \notin Taken(conf[p].host)

\* Gateway.Run starts the goroutine of the HTTP service.
Run(p) ==
    /\ At(p, "run", "listen")
    /\ web' = [web EXCEPT ![p] = "start"]
    /\ UNCHANGED <<conf, facts, id, tcp, asked, signalled, listed>>

\* Then the TCP service listens, or AlertPanic is called.
Listen(p) ==
    /\ At(p, "listen", IF CanListen(p) THEN "sleep" ELSE "alert")
    /\ tcp' = [tcp EXCEPT ![p] = CanListen(p)]
    /\ UNCHANGED <<conf, facts, id, web, asked, signalled, listed>>

\* The goroutine calls ListenAndServe, which fails when the port is taken and
\* returns ErrServerClosed when Close was called before.
WebListen(p) ==
    /\ web[p] = "start"
    /\ web' = [web EXCEPT ![p] = IF main[p] = "close" THEN "end"
                                 ELSE IF conf[p].http \in Taken(conf[p].host) THEN "alert"
                                 ELSE "serve"]
    /\ UNCHANGED <<conf, main, facts, id, tcp, asked, signalled, listed>>

\* The two seconds are over.
EndSleep(p) ==
    /\ At(p, "sleep", "register")
    /\ UNCHANGED <<conf, facts, id, tcp, web, asked, signalled, listed>>

\* RegisterSelf succeeds, or fails and AlertPanic is called.
Register(p, ok) ==
    /\ At(p, "register", IF ok THEN "wait" ELSE "alert")
    /\ listed' = [listed EXCEPT ![p] = ok]
    /\ UNCHANGED <<conf, facts, id, tcp, web, asked, signalled>>

\* Seeded defect of Notified: an unbuffered channel, with nobody reading yet.
NotifiedLate(p) == main[p] = "wait"

\* signal.NotifyContext, the first thing main does, keeps a signal until main
\* comes to look for it.
Notified(p) == TRUE

Signal(p) ==
    /\ main[p] # "off"
    /\ asked' = asked \cup {p}
    /\ signalled' = [signalled EXCEPT ![p] = @ \/ Notified(p)]
    /\ UNCHANGED <<conf, main, facts, id, tcp, web, listed>>

\* <-ctx.Done(), and the deferred Gateway.Close: both services stop.
Shutdown(p) ==
    /\ signalled[p]
    /\ At(p, "wait", "close")
    /\ tcp' = [tcp EXCEPT ![p] = FALSE]
    /\ web' = [web EXCEPT ![p] = IF @ = "serve" THEN "end" ELSE @]
    /\ UNCHANGED <<conf, facts, id, asked, signalled, listed>>

\* Seeded defect of Fatal: the failure of the HTTP service is only reported.
FatalMain(p) == main[p] \in {"alert", "close"}

\* AlertPanic has posted its alert, in main or in the goroutine of the HTTP
\* service, and panics; or main returns.
Fatal(p) == main[p] \in {"alert", "close"} \/ web[p] = "alert"

\* The process ends and its sockets with it.
Exit(p) ==
    /\ Fatal(p)
    /\ main' = [main EXCEPT ![p] = "off"]
    /\ facts' = [facts EXCEPT ![p] = 0]
    /\ id' = [id EXCEPT ![p] = NoID]
    /\ tcp' = [tcp EXCEPT ![p] = FALSE]
    /\ web' = [web EXCEPT ![p] = "none"]
    /\ asked' = asked \ {p}
    /\ signalled' = [signalled EXCEPT ![p] = FALSE]
    /\ listed' = [listed EXCEPT ![p] = FALSE]
    /\ UNCHANGED conf

\* LoadNodeInfo goes on when the metadata service does, and waits until then.
Metadata(p) == GetFact(p) \/ GetFactFail(p)

MainStep(p) ==
    \/ Run(p) \/ Listen(p) \/ EndSleep(p)
    \/ (\E ok \in BOOLEAN : Register(p, ok)) \/ Shutdown(p)

StartNext ==
    \E p \in Proc :
      Start(p) \/ Metadata(p) \/ MainStep(p) \/ WebListen(p) \/ Signal(p) \/ Exit(p)

\* Goroutines are scheduled; Redis and the chat answer or time out.  The metadata
\* service may keep silent for ever.
StartFairness ==
    \A p \in Proc :
      WF_startVars(MainStep(p)) /\ WF_startVars(WebListen(p)) /\ WF_startVars(Exit(p))

StartSpec == StartInit /\ [][StartNext]_startVars /\ StartFairness

-----------------------------------------------------------------------------
(* Properties.                                                             *)

\* A process that is registered and accepts connections.
InService(p) == listed[p] /\ tcp[p]

\* configs.go:36, "Unique service ID": two processes in service have the same ID
\* only if both took an error page for their instance ID, whose status get does
\* not look at.
UniqueID ==
    \A p, q \in Proc :
      (p # q /\ InService(p) /\ InService(q) /\ id[p] = id[q]) => id[p][1] = ErrorPage

\* A registered process accepts connections until it is told to stop: main does
\* not come to RegisterSelf without its listener, which no other process holds.
ListedAccepts ==
    \A p \in Proc : listed[p] =>
      /\ tcp[p] \/ main[p] = "close"
      /\ \A q \in Proc \ {p} : (tcp[p] /\ tcp[q] /\ conf[p].host = conf[q].host)
                                 => conf[p].tcp # conf[q].tcp

\* What a reader of the registration can rely on.
StartSafe == StartTypeOK /\ UniqueID /\ ListedAccepts


\* The HTTP service is started behind main's back and may fail after the process
\* was registered.  A registered process does not stay without it: it serves, or
\* it ends.
ListedServes ==
    \A p \in Proc : listed[p] ~> (web[p] = "serve" \/ main[p] \in {"off", "close"})

\* A process that was told to stop ends, whenever the signal came, also while it
\* loaded, slept or registered.  But NotifyContext has taken the signal's own effect
\* away, so a process to which the metadata service does not answer stays in
\* LoadNodeInfo for ever: what is left is that it ends if it gets out of there.
StopsWhenAsked ==
    \A p \in Proc : (p \in asked /\ main[p] # "load") ~> main[p] = "off"
=============================================================================
