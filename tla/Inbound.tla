------------------------------ MODULE Inbound -------------------------------
(***************************************************************************)
(* The read path of one agent: Agent.loopRead (pkg/agent/agent.go) with    *)
(* the header hook (pkg/hot/hooks), the middleware chain PluginsMain and   *)
(* ForwadHttp (pkg/hot/plugins), and the finalizer that ends it.           *)
(*                                                                         *)
(* One goroutine reads frames.  Every admitted frame gets a goroutine of   *)
(* its own that posts it to the backend; the finalizer posts the notice    *)
(* that the client has gone (message 5006) through the same ForwadHttp.    *)
(* Frames are numbered in the order in which they were read, the notice is *)
(* request 0.  The backend is external: it answers with any outcome.       *)
(***************************************************************************)
EXTENDS Agent, Naturals, FiniteSets

CONSTANTS
    MaxFrames,       \* bound: the client sends at most this many frames
    HeaderID,        \* the message ids clients put into headers (uint16)
    HeaderSize,      \* the sizes clients put into headers (uint32)
    SizeWord,        \* 2^32 in the code
    HeaderLen,       \* agent.msgHeaderLen, 10
    MinID, MaxID,    \* hooks.minID, hooks.maxID
    MinSize, MaxSize,\* hooks.minSize, hooks.maxSize
    EchoIDs,         \* {1001} when version.ENV is "dev", else {}
    MaxConcurrent,   \* 10 in RateLimitMiddle
    SeqLimit,        \* MaxInt32 - 10000 in ForwadHttp
    SeqWord          \* 2^32 in the code

ASSUME InboundAssumption ==
    /\ {MaxFrames, HeaderLen, MinID, MaxID, MinSize, MaxSize, MaxConcurrent} \subseteq Nat
    /\ HeaderID \subseteq Nat /\ 0 \in HeaderID
    /\ SizeWord \in Nat \ {0} /\ HeaderSize \subseteq 0..(SizeWord - 1) /\ 0 \in HeaderSize
    /\ HeaderLen <= MinSize
    /\ SeqLimit \in Nat \ {0} /\ SeqWord \in Nat /\ SeqLimit < SeqWord

VARIABLES
    rpc,          \* where loopRead is
    header,       \* the header it works on
    frames,       \* number of whole frames it has read
    concurrent,   \* the property "concurrent", an atomic.Int32
    hasSeq,       \* the property "sequenceID" is set
    seq,          \* the property "sequenceID", an atomic.Uint32
    task,         \* where the goroutine of each request is
    stamp,        \* the sequence number in each request
    wraps,        \* history: how often the numbering started over
    kickedAt      \* history: frames read when the agent was disabled

readVars == <<rpc, header, frames, kickedAt>>
seqVars == <<hasSeq, seq, stamp, wraps>>
inVars == <<readVars, seqVars, concurrent, task>>
allInVars == <<ctxDone, connOpen, disable, fpc, rpc, header, frames, concurrent,
               hasSeq, seq, task, stamp, wraps, kickedAt>>

Notice == 0
Frame == 1..MaxFrames
Request == 0..MaxFrames
Header == [id : HeaderID, size : HeaderSize]

\* The frame is with a goroutine that has not run its deferred Add(-1).
Active == {f \in Frame : task[f] \notin {"none", "done"}}

InTypeOK ==
    /\ AgentTypeOK
    /\ rpc \in {"header", "body", "check", "limit", "ret", "exited"}
    /\ header \in Header
    /\ frames \in 0..MaxFrames
    /\ concurrent \in 0..(MaxConcurrent + 1)
    /\ hasSeq \in BOOLEAN
    /\ seq \in 0..(SeqWord - 1)
    /\ task \in [Request -> {"none", "echo", "cas", "add", "post", "sent",
                           "write", "end", "done"}]
    /\ stamp \in [Request -> 0..(SeqWord - 1)]
    /\ wraps \in Nat
    /\ kickedAt \in 0..MaxFrames

InInit ==
    /\ AgentInit
    /\ rpc = "header"
    /\ header = [id |-> 0, size |-> 0]
    /\ frames = 0
    /\ concurrent = 0
    /\ hasSeq = FALSE
    /\ seq = 0
    /\ task = [r \in Request |-> "none"]
    /\ stamp = [r \in Request |-> 0]
    /\ wraps = 0
    /\ kickedAt = MaxFrames

-----------------------------------------------------------------------------
(* Agent.loopRead.                                                         *)

\* hooks.hookHeader; HookBody accepts everything.
HookHeader(h) ==
    /\ MinID <= h.id /\ h.id <= MaxID
    /\ MinSize <= h.size /\ h.size <= MaxSize

\* bodySize := size - msgHeaderLen, in uint32.
BodySize(h) == (h.size + SizeWord - HeaderLen) % SizeWord

\* A whole header arrives; the hook lets it pass or ends the loop.
ReadHeader ==
    /\ rpc = "header"
    /\ connOpen
    /\ frames < MaxFrames
    /\ header' \in Header
    /\ rpc' = IF HookHeader(header') THEN "body" ELSE "ret"
    /\ UNCHANGED <<agentVars, frames, concurrent, seqVars, task, kickedAt>>

\* The rest of the frame arrives; a frame without a body needs no connection.
ReadBody ==
    /\ rpc = "body"
    /\ connOpen \/ BodySize(header) = 0
    /\ frames' = frames + 1
    /\ rpc' = "check"
    /\ UNCHANGED <<agentVars, header, concurrent, seqVars, task, kickedAt>>

\* Seeded defect of ReadFail: an error while the body is read is not handled.
ReadFailHeaderOnly ==
    /\ rpc = "header"
    /\ rpc' = "ret"
    /\ UNCHANGED <<agentVars, header, frames, concurrent, seqVars, task,
                   kickedAt>>

\* End of file, an error, the 60 s read deadline or a connection that the
\* finalizer has closed: loopRead returns.
ReadFail ==
    /\ rpc = "header" \/ (rpc = "body" /\ BodySize(header) # 0)
    /\ rpc' = "ret"
    /\ UNCHANGED <<agentVars, header, frames, concurrent, seqVars, task,
                   kickedAt>>

\* Seeded defect of CheckDisable: it looks at the connection, not at the flag.
CheckOpen ==
    /\ rpc = "check"
    /\ rpc' = IF connOpen THEN "limit" ELSE "header"
    /\ UNCHANGED <<agentVars, header, frames, concurrent, seqVars, task,
                   kickedAt>>

\* "If kicked, stop forwarding": an unlocked read of disable, done once per
\* frame before anything of PluginsMain runs.
CheckDisable ==
    /\ rpc = "check"
    /\ rpc' = IF disable THEN "header" ELSE "limit"
    /\ UNCHANGED <<agentVars, header, frames, concurrent, seqVars, task,
                   kickedAt>>

\* Seeded defect of Throttled: the limit is off by one.
ThrottledLate == concurrent > MaxConcurrent + 1

\* The test of RateLimitMiddle.
Throttled == concurrent > MaxConcurrent

\* RateLimitMiddle refuses the frame; the client is not told.
Refuse ==
    /\ rpc = "limit"
    /\ Throttled
    /\ rpc' = "header"
    /\ UNCHANGED <<agentVars, header, frames, concurrent, seqVars, task,
                   kickedAt>>

\* RateLimitMiddle admits the frame and ConcurrentMiddle starts its goroutine.
\* Load and Add are two accesses, but only this goroutine adds, and a
\* decrement that comes between them commutes with the Add.
\* Where the goroutine starts is the test of StressTest.
Admit ==
    /\ rpc = "limit"
    /\ ~Throttled
    /\ concurrent' = concurrent + 1
    /\ hasSeq' = TRUE
    /\ task' = [task EXCEPT ![frames] = IF header.id \in EchoIDs THEN "echo" ELSE "cas"]
    /\ rpc' = "header"
    /\ UNCHANGED <<agentVars, header, frames, seq, stamp, wraps, kickedAt>>

\* loopRead has returned: the deferred cancel of its goroutine.
ReadReturn ==
    /\ rpc = "ret"
    /\ rpc' = "exited"
    /\ Close
    /\ UNCHANGED <<header, frames, concurrent, seqVars, task, kickedAt>>

LoopRead ==
    \/ ReadHeader
    \/ ReadBody
    \/ ReadFail
    \/ CheckDisable
    \/ Refuse
    \/ Admit
    \/ ReadReturn

-----------------------------------------------------------------------------
(* ForwadHttp, in the goroutine of request r.                              *)

\* agent.Get("sequenceID") and sequenceID.CompareAndSwap(SeqLimit, 0).  Only
\* the notice can find no sequence number; it is then sent with number 0.
SeqSwap(r) ==
    /\ task[r] = "cas"
    /\ task' = [task EXCEPT ![r] = IF hasSeq THEN "add" ELSE "post"]
    /\ IF hasSeq /\ seq = SeqLimit
       THEN seq' = 0 /\ wraps' = wraps + 1
       ELSE UNCHANGED <<seq, wraps>>
    /\ UNCHANGED <<agentVars, readVars, concurrent, hasSeq, stamp>>

\* Seeded defect of SeqAdd: the request carries the value before the addition.
SeqAddOld(r) ==
    /\ task[r] = "add"
    /\ seq' = (seq + 1) % SeqWord
    /\ stamp' = [stamp EXCEPT ![r] = seq]
    /\ wraps' = IF seq' = 0 THEN wraps + 1 ELSE wraps
    /\ task' = [task EXCEPT ![r] = "post"]
    /\ UNCHANGED <<agentVars, readVars, concurrent, hasSeq>>

\* sequenceID.Add(1), in uint32.
SeqAdd(r) ==
    /\ task[r] = "add"
    /\ seq' = (seq + 1) % SeqWord
    /\ stamp' = [stamp EXCEPT ![r] = seq']
    /\ wraps' = IF seq' = 0 THEN wraps + 1 ELSE wraps
    /\ task' = [task EXCEPT ![r] = "post"]
    /\ UNCHANGED <<agentVars, readVars, concurrent, hasSeq>>

\* client.Do hands the request to the backend, or NewRequest or the connection
\* to the backend fails.
Post(r) ==
    /\ task[r] = "post"
    /\ \E next \in {"sent", "end"} : task' = [task EXCEPT ![r] = next]
    /\ UNCHANGED <<agentVars, readVars, concurrent, seqVars>>

\* Seeded defect of Answer: a failed call skips the deferred decrement.
AnswerSkipsEnd(r) ==
    /\ task[r] = "sent"
    /\ \E next \in {"done", "write"} : task' = [task EXCEPT ![r] = next]
    /\ UNCHANGED <<agentVars, readVars, concurrent, seqVars>>

\* The call comes back within its 10 s: failed, refused or discarded (nothing
\* to write), or with a message for the client.
Answer(r) ==
    /\ task[r] = "sent"
    /\ \E next \in {"end", "write"} : task' = [task EXCEPT ![r] = next]
    /\ UNCHANGED <<agentVars, readVars, concurrent, seqVars>>

\* agent.Write, by ForwadHttp or by the echo of StressTest; Outbound says what
\* it does.
Reply(r) ==
    /\ task[r] \in {"write", "echo"}
    /\ task' = [task EXCEPT ![r] = "end"]
    /\ UNCHANGED <<agentVars, readVars, concurrent, seqVars>>

\* The deferred Add(-1) of RateLimitEndMiddle, on every way out.
EndFrame(f) ==
    /\ task[f] = "end"
    /\ task' = [task EXCEPT ![f] = "done"]
    /\ concurrent' = concurrent - 1
    /\ UNCHANGED <<agentVars, readVars, seqVars>>

\* The finalizer called ForwadHttp directly and returns with it.
EndNotice ==
    /\ task[Notice] = "end"
    /\ task' = [task EXCEPT ![Notice] = "done"]
    /\ fpc' = "done"
    /\ UNCHANGED <<ctxDone, connOpen, disable, readVars, concurrent, seqVars>>

Forward(r) ==
    \/ SeqSwap(r)
    \/ SeqAdd(r)
    \/ Post(r)
    \/ Answer(r)
    \/ Reply(r)
    \/ r \in Frame /\ EndFrame(r)
    \/ r = Notice /\ EndNotice

-----------------------------------------------------------------------------
(* The rest of the agent.                                                  *)

\* The close and sendAndClose handlers disable the agent, at any moment.
InKick ==
    /\ ~disable
    /\ Disable
    /\ kickedAt' = frames
    /\ UNCHANGED <<rpc, header, frames, concurrent, seqVars, task>>

InClose ==
    /\ ~ctxDone
    /\ Close
    /\ UNCHANGED inVars

InCleanup ==
    /\ FinCleanup
    /\ UNCHANGED inVars

\* The finalizer announces the end of a client that was not disabled.
InCheck ==
    /\ FinCheck
    /\ task' = IF disable THEN task ELSE [task EXCEPT ![Notice] = "cas"]
    /\ kickedAt' = IF disable THEN kickedAt ELSE frames
    /\ UNCHANGED <<rpc, header, frames, concurrent, seqVars>>

InNext ==
    \/ LoopRead
    \/ \E r \in Request : Forward(r)
    \/ InKick
    \/ InClose
    \/ InCleanup
    \/ InCheck

InSpec == InInit /\ [][InNext]_allInVars

-----------------------------------------------------------------------------
(* Properties.                                                             *)

\* The flow-control counter is exact: it counts the goroutines that have not
\* finished, however they end, so a connection can neither be starved by a
\* leaked count nor have more than MaxConcurrent + 1 requests in the backend.
AdmissionExact ==
    /\ concurrent = Cardinality(Active)
    /\ concurrent <= MaxConcurrent + 1

\* Once an agent is disabled, no frame whose last byte is read after that is
\* given to the plugins (agent.go:212): at most the frame the reader already
\* holds goes through.
KickCutsOff == \A f \in Frame : f > kickedAt => task[f] = "none"

\* The read path as the backend sees it: a frame is under way while a goroutine
\* has it, and the agent is cut off when it is disabled.
Gate == INSTANCE Intake WITH
    Last    <- MaxFrames,
    Places  <- MaxConcurrent + 1,
    read    <- frames,
    running <- Active,
    served  <- {f \in Frame : task[f] = "done"},
    limit   <- kickedAt

\* Frames are admitted in order, once each, within the flow control, and none
\* that is read after the agent was disabled, whatever reader, requests, kicks and
\* finalizer do: the counter, the flag and the frame are read at different times.
IntakeSafety == Gate!Spec

\* A body is read only into a buffer of an accepted size: size - 10 never
\* wraps around to 4 GB, whatever the client put into the header.
BodyBounded == rpc = "body" => BodySize(header) <= MaxSize - HeaderLen

\* The numbers the backend sees, although swap and add are two steps: a number
\* is used again only after the numbering started over, and 0, which stands for
\* a client that was never numbered, is not sent with a frame before that.
SeqDistinct ==
    /\ \A s \in 1..(SeqWord - 1) :
         Cardinality({r \in Request : stamp[r] = s}) <= wraps + 1
    /\ \A f \in Frame :
         task[f] \in {"post", "sent", "write"} => stamp[f] # 0 \/ wraps > 0

\* What the arithmetic on sizes and sequence numbers must never do.
NumbersSafe == BodyBounded /\ SeqDistinct


\* agent.go:212 "If kicked, stop forwarding", gateway.go:162 (first mark as
\* invalid, no more messages are forwarded): a disabled agent hands no frame
\* to the backend.
KickStopsForwarding ==
    [][\A f \in Frame : disable /\ task[f] = "post" => task'[f] # "sent"]_allInVars
=============================================================================
