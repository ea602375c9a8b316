-------------------------------- MODULE Push --------------------------------
(***************************************************************************)
(* The private HTTP service (the handlers of Gateway.Run): the backend     *)
(* sends to a connection, kicks it, or both, or broadcasts to a list of    *)
(* connections.  Requests run concurrently with each other, with what      *)
(* handlers leave running in the background after they have answered, and  *)
(* with connections that end.                                              *)
(*                                                                         *)
(* Here Agent.Write appends the message of a request to the connection's   *)
(* queue; what becomes of it is in Outbound.  The registry is in Gateway:  *)
(* here a connection is registered until its finalizer has removed it.     *)
(***************************************************************************)
EXTENDS Integers, SequencesExt

CONSTANTS
    Conn,      \* connections
    Request,   \* requests of the backend; each carries a message of its own
    MaxList,   \* bound: connIDs of a broadcast
    None

ASSUME PushAssumption == MaxList \in Nat \ {0} /\ None \notin Request

VARIABLES
    life,      \* of a connection: up, cancelled, gone (out of the registry)
    ender,     \* the request that has cancelled it, if one was the first
    disabled,  \* agent.disable
    queue,     \* what was written to a connection
    path,      \* the route of a request; "bad" is one that does not bind
    list,      \* its connID or connIDs
    hpc,       \* where its handler is
    bpc,       \* where the goroutine is that the handler has left behind
    at,        \* position of that goroutine in the list
    earlier    \* the requests that had been answered when it came

connVars == <<life, ender, disabled, queue>>
reqVars == <<path, list, earlier>>
vars == <<life, ender, disabled, queue, path, list, hpc, bpc, at, earlier>>

Path == {"close", "send", "sendAndClose", "broadcast", "bad"}

PushTypeOK ==
    /\ life \in [Conn -> {"up", "cancelled", "gone"}]
    /\ ender \in [Conn -> Request \cup {None}]
    /\ disabled \subseteq Conn
    /\ queue \in [Conn -> Seq(Request)]
    /\ path \in [Request -> Path]
    /\ list \in [Request -> BoundedSeq(Conn, MaxList)]
    /\ hpc \in [Request -> {"none", "begin", "write", "disable", "cancel", "answer", "answered"}]
    /\ bpc \in [Request -> {"none", "disable", "cancel", "lookup", "write", "done"}]
    /\ at \in [Request -> 1..(MaxList + 1)]
    /\ earlier \in [Request -> SUBSET Request]

Init ==
    /\ life = [c \in Conn |-> "up"]
    /\ ender = [c \in Conn |-> None]
    /\ disabled = {}
    /\ queue = [c \in Conn |-> <<>>]
    /\ path = [r \in Request |-> "bad"]
    /\ list = [r \in Request |-> <<>>]
    /\ hpc = [r \in Request |-> "none"]
    /\ bpc = [r \in Request |-> "none"]
    /\ at = [r \in Request |-> 1]
    /\ earlier = [r \in Request |-> {}]

Handler(r, here, there) == hpc[r] = here /\ hpc' = [hpc EXCEPT ![r] = there]
Background(r, here, there) == bpc[r] = here /\ bpc' = [bpc EXCEPT ![r] = there]

\* GetAgent; the caller keeps what it gets, whatever happens to the registry.
Registered(c) == life[c] # "gone"

Write(r, c) == queue' = [queue EXCEPT ![c] = Append(@, r)]

\* Seeded defect of Cancel: an agent that has ended is cancelled once more.
CancelAgain(c, who) ==
    /\ life' = [life EXCEPT ![c] = "cancelled"]
    /\ ender' = [ender EXCEPT ![c] = IF life[c] = "up" THEN who ELSE @]

\* The agent's cancel; only the first call has an effect.
Cancel(c, who) ==
    IF life[c] = "up"
    THEN life' = [life EXCEPT ![c] = "cancelled"] /\ ender' = [ender EXCEPT ![c] = who]
    ELSE UNCHANGED <<life, ender>>

-----------------------------------------------------------------------------
\* A request comes.
Arrive(r, p, l) ==
    /\ p # "broadcast" => Len(l) = (IF p = "bad" THEN 0 ELSE 1)
    /\ Handler(r, "none", "begin")
    /\ path' = [path EXCEPT ![r] = p]
    /\ list' = [list EXCEPT ![r] = l]
    /\ earlier' = [earlier EXCEPT ![r] = {q \in Request : hpc[q] = "answered"}]
    /\ UNCHANGED <<connVars, bpc, at>>

\* ShouldBindJSON, then GetAgent.  An agent that is not there is a success.
Lookup(r) ==
    LET there == IF path[r] = "bad" \/ ~Registered(list[r][1]) THEN "answer"
                 ELSE IF path[r] = "close" THEN "disable" ELSE "write"
    IN  /\ path[r] # "broadcast"
        /\ Handler(r, "begin", there)
        /\ UNCHANGED <<connVars, reqVars, bpc, at>>

\* Seeded defect of Send: the message is written in the background.
SendLater(r) ==
    /\ path[r] = "send"
    /\ Handler(r, "write", "answer")
    /\ bpc' = [bpc EXCEPT ![r] = "write"]
    /\ UNCHANGED <<connVars, reqVars, at>>

\* send: the message is written before the answer.
Send(r) ==
    /\ path[r] = "send"
    /\ Handler(r, "write", "answer")
    /\ Write(r, list[r][1])
    /\ UNCHANGED <<life, ender, disabled, reqVars, bpc, at>>

\* Seeded defect of SendAndClose: the connection is closed first.
SendAndCloseSwapped(r) ==
    /\ path[r] = "sendAndClose"
    /\ \/ Handler(r, "write", "disable") /\ Cancel(list[r][1], r) /\ UNCHANGED <<queue, bpc>>
       \/ /\ Handler(r, "disable", "answer")
          /\ Write(r, list[r][1])
          /\ bpc' = [bpc EXCEPT ![r] = "disable"]
          /\ UNCHANGED <<life, ender>>
    /\ UNCHANGED <<disabled, reqVars, at>>

\* Seeded defect of SendAndClose: no goroutine is started.
SendAndCloseStays(r) ==
    /\ path[r] = "sendAndClose"
    /\ Handler(r, "write", "answer")
    /\ Write(r, list[r][1])
    /\ UNCHANGED <<life, ender, disabled, reqVars, bpc, at>>

\* sendAndClose: the same, and a goroutine that will close the connection.
SendAndClose(r) ==
    /\ path[r] = "sendAndClose"
    /\ Handler(r, "write", "answer")
    /\ Write(r, list[r][1])
    /\ bpc' = [bpc EXCEPT ![r] = "disable"]
    /\ UNCHANGED <<life, ender, disabled, reqVars, at>>

\* close: Disable, then Close.
CloseDisable(r) ==
    /\ path[r] = "close"
    /\ Handler(r, "disable", "cancel")
    /\ disabled' = disabled \cup {list[r][1]}
    /\ UNCHANGED <<life, ender, queue, reqVars, bpc, at>>

CloseCancel(r) ==
    /\ path[r] = "close"
    /\ Handler(r, "cancel", "answer")
    /\ Cancel(list[r][1], r)
    /\ UNCHANGED <<disabled, queue, reqVars, bpc, at>>

\* broadcast: nothing to do for an empty list, by which the interval could not
\* be divided; a goroutine for any other.
Broadcast(r) ==
    /\ path[r] = "broadcast"
    /\ Handler(r, "begin", "answer")
    /\ bpc' = [bpc EXCEPT ![r] = IF list[r] = <<>> THEN "none" ELSE "lookup"]
    /\ UNCHANGED <<connVars, reqVars, at>>

\* The request is answered.
AnswerRequest(r) ==
    /\ Handler(r, "answer", "answered")
    /\ UNCHANGED <<connVars, reqVars, bpc, at>>

HandlerStep(r) ==
    \/ Lookup(r) \/ Send(r) \/ SendAndClose(r) \/ CloseDisable(r) \/ CloseCancel(r)
    \/ Broadcast(r) \/ AnswerRequest(r)

-----------------------------------------------------------------------------
(* What goes on after the answer.                                          *)

\* sendAndClose: Disable at once, Close a second later.
KickDisable(r) ==
    /\ Background(r, "disable", "cancel")
    /\ disabled' = disabled \cup {list[r][1]}
    /\ UNCHANGED <<life, ender, queue, reqVars, hpc, at>>

KickCancel(r) ==
    /\ Background(r, "cancel", "done")
    /\ Cancel(list[r][1], r)
    /\ UNCHANGED <<disabled, queue, reqVars, hpc, at>>

\* Seeded defect of Skip: the loop is left.
SkipRest(r) == Len(list[r]) + 1

\* "continue" on a connection that is not there.
Skip(r) == at[r] + 1

\* broadcast: the loop over the list, up to a write or the end.
BroadcastLookup(r) ==
    /\ IF at[r] > Len(list[r])
       THEN Background(r, "lookup", "done") /\ UNCHANGED at
       ELSE IF Registered(list[r][at[r]])
       THEN Background(r, "lookup", "write") /\ UNCHANGED at
       ELSE Background(r, "lookup", "lookup") /\ at' = [at EXCEPT ![r] = Skip(r)]
    /\ UNCHANGED <<connVars, reqVars, hpc>>

\* The write, and the sleep after it.
BroadcastWrite(r) ==
    /\ Background(r, "write", "lookup")
    /\ Write(r, list[r][at[r]])
    /\ at' = [at EXCEPT ![r] = @ + 1]
    /\ UNCHANGED <<life, ender, disabled, reqVars, hpc>>

BackgroundStep(r) == KickDisable(r) \/ KickCancel(r) \/ BroadcastLookup(r) \/ BroadcastWrite(r)

-----------------------------------------------------------------------------
\* A loop of the agent returns.
Leave(c) ==
    /\ life[c] = "up"
    /\ Cancel(c, None)
    /\ UNCHANGED <<disabled, queue, reqVars, hpc, bpc, at>>

\* The finalizer takes the agent out of the registry.
RemoveAgent(c) ==
    /\ life[c] = "cancelled"
    /\ life' = [life EXCEPT ![c] = "gone"]
    /\ UNCHANGED <<ender, disabled, queue, reqVars, hpc, bpc, at>>

Next ==
    \/ \E r \in Request :
         \/ \E p \in Path, l \in BoundedSeq(Conn, MaxList) : Arrive(r, p, l)
         \/ HandlerStep(r)
         \/ BackgroundStep(r)
    \/ \E c \in Conn : Leave(c) \/ RemoveAgent(c)

\* Goroutines are scheduled.
Fairness ==
    /\ \A r \in Request : WF_vars(HandlerStep(r)) /\ WF_vars(BackgroundStep(r))
    /\ \A c \in Conn : WF_vars(RemoveAgent(c))

Spec == Init /\ [][Next]_vars /\ Fairness

-----------------------------------------------------------------------------
(* Properties.                                                             *)

Times(r, c) == Cardinality({i \in DOMAIN queue[c] : queue[c][i] = r})

\* The backend can rely on the order of what it sends to a connection: a message
\* whose send or sendAndClose was answered comes before the message of every
\* request made after that, also one that is broadcast.  (A broadcast gives no
\* such promise: it is answered before anything is written.)
SendOrder ==
    \A r, q \in Request : \A c \in Conn :
      (q \in earlier[r] /\ path[q] \in {"send", "sendAndClose"}) =>
        \A i, j \in DOMAIN queue[c] : (queue[c][i] = r /\ queue[c][j] = q) => j < i

\* When a broadcast is through, every connection of its list that is still up
\* has got the message as often as the list names it, although others of the
\* list went away meanwhile; no other connection has got it.
BroadcastExact ==
    \A r \in Request : (path[r] = "broadcast" /\ bpc[r] = "done") =>
      \A c \in Conn :
        LET named == Cardinality({i \in DOMAIN list[r] : list[r][i] = c})
        IN  Times(r, c) <= named /\ (life[c] = "up" => Times(r, c) = named)

\* The last word comes before the end: when it is the kick that ends a
\* connection, forwarding has been stopped (gateway.go:162), and the message of
\* sendAndClose is in the queue.
LastWord ==
    \A c \in Conn : ender[c] # None =>
      /\ c \in disabled
      /\ path[ender[c]] = "sendAndClose" => Times(ender[c], c) = 1

\* The types, and the last word.
PushSafe == PushTypeOK /\ LastWord

\* Every kick that finds its connection ends it, also when the kick is left to
\* the background, and leaves it disabled.
KickCompletes ==
    \A r \in Request, c \in Conn :
      (/\ path[r] \in {"close", "sendAndClose"}
       /\ list[r] = <<c>>
       /\ hpc[r] \in {"write", "disable"}) ~> (life[c] = "gone" /\ c \in disabled)

-----------------------------------------------------------------------------
(* The registry, as Gateway keeps it, seen from the handlers.              *)

StageOf == [up |-> "listed", cancelled |-> "cancelled", gone |-> "ended"]

\* The agent that a handler, or what it left behind, has got from GetAgent.
Held(r) ==
    IF hpc[r] \in {"write", "disable", "cancel"} \/ bpc[r] \in {"disable", "cancel"}
    THEN list[r][1]
    ELSE IF bpc[r] = "write" THEN list[r][at[r]] ELSE None

Listing == INSTANCE Directory WITH
    UID <- Conn,
    Holder <- Request,
    stage <- [c \in Conn |-> StageOf[life[c]]],
    dir <- [c \in {d \in Conn : Registered(d)} |-> c],
    held <- [r \in Request |-> Held(r)],
    closed <- FALSE

\* What the handlers see of the registry is the directory that Gateway keeps: they
\* act only on agents that they found there, a kick that comes after its agent has
\* ended cancels nothing and nobody else, and no handler takes an entry out.
DirectorySafety == Listing!Spec
=============================================================================
