------------------------------ MODULE Outbound ------------------------------
(***************************************************************************)
(* The write path of one agent: Agent.Write and Agent.loopWrite            *)
(* (pkg/agent/agent.go) over the Writer (pkg/writer/writer.go).            *)
(*                                                                         *)
(* Any number of goroutines (HTTP handlers, forward goroutines, the        *)
(* broadcast goroutine) call Agent.Write.  Each call appends a frame to    *)
(* the shared buffer w.b under the Writer's lock and then puts a token     *)
(* into the bounded channel wd, giving up when a 5 ms ticker fires first.  *)
(* One goroutine, loopWrite, takes a token, swaps the whole buffer out and *)
(* writes it to the connection.                                            *)
(*                                                                         *)
(* A frame is represented by the call that wrote it: every caller makes    *)
(* one call, so frames are distinct.                                       *)
(***************************************************************************)
EXTENDS Agent, Naturals, Sequences

CONSTANTS
    Caller,   \* the goroutines that call Agent.Write, once each
    WdCap     \* capacity of the channel agent.wd (5 in the code)

ASSUME OutboundAssumption == WdCap \in Nat \ {0}

VARIABLES
    b,       \* Writer.b: the frames waiting in the buffer
    err,     \* Writer.err is set; read without the lock
    wd,      \* number of tokens in agent.wd
    wpc,     \* where loopWrite is
    batch,   \* what loopWrite popped and has not written; after a failed
             \* write, what the connection did not take
    wire,    \* the frames the connection has taken
    cpc      \* where each caller is in Agent.Write

outVars == <<b, err, wd, wpc, batch, wire, cpc>>
allOutVars == <<ctxDone, connOpen, disable, fpc, b, err, wd, wpc, batch, wire, cpc>>

OutTypeOK ==
    /\ AgentTypeOK
    /\ b \in Seq(Caller)
    /\ err \in BOOLEAN
    /\ wd \in 0..WdCap
    /\ wpc \in {"select", "pop", "flush", "ret", "exited"}
    /\ batch \in Seq(Caller)
    /\ wire \in Seq(Caller)
    /\ cpc \in [Caller -> {"idle", "append", "select", "blocked", "done", "late", "rejected"}]

OutInit ==
    /\ AgentInit
    /\ b = <<>>
    /\ err = FALSE
    /\ wd = 0
    /\ wpc = "select"
    /\ batch = <<>>
    /\ wire = <<>>
    /\ cpc = [c \in Caller |-> "idle"]

-----------------------------------------------------------------------------
(* Agent.Write, one action per step another goroutine can come between.    *)

\* Writer.Write looks at w.err before it takes the lock.
WriteCheck(c) ==
    /\ cpc[c] = "idle"
    /\ cpc' = [cpc EXCEPT ![c] = IF err THEN "rejected" ELSE "append"]
    /\ UNCHANGED <<agentVars, b, err, wd, wpc, batch, wire>>

\* Writer.Write appends the frame under the lock; the ticker is made.
WriteAppend(c) ==
    /\ cpc[c] = "append"
    /\ b' = Append(b, c)
    /\ cpc' = [cpc EXCEPT ![c] = "select"]
    /\ UNCHANGED <<agentVars, err, wd, wpc, batch, wire>>

\* Seeded defect of WriteNotify: the channel is not bounded.
WriteNotifyUnbounded(c) ==
    /\ cpc[c] = "select"
    /\ wd' = wd + 1
    /\ cpc' = [cpc EXCEPT ![c] = "done"]
    /\ UNCHANGED <<agentVars, b, err, wpc, batch, wire>>

\* The select finds room in wd and leaves a token.
WriteNotify(c) ==
    /\ cpc[c] = "select"
    /\ wd < WdCap
    /\ wd' = wd + 1
    /\ cpc' = [cpc EXCEPT ![c] = "done"]
    /\ UNCHANGED <<agentVars, b, err, wpc, batch, wire>>

\* The select finds wd full and no tick yet: the caller is parked on both.
WriteBlock(c) ==
    /\ cpc[c] = "select"
    /\ wd = WdCap
    /\ cpc' = [cpc EXCEPT ![c] = "blocked"]
    /\ UNCHANGED <<agentVars, b, err, wd, wpc, batch, wire>>

\* Seeded defect of WriteTimeout: there is no ticker.
WriteTimeoutNever(c) == FALSE /\ UNCHANGED allOutVars

\* The tick arrives while the caller is parked.  A parked caller is served in
\* the very step that frees a place (LoopRecv), so wd is full here.
WriteTimeout(c) ==
    /\ cpc[c] = "blocked"
    /\ cpc' = [cpc EXCEPT ![c] = "done"]
    /\ UNCHANGED <<agentVars, b, err, wd, wpc, batch, wire>>

\* The tick is there before the select starts, because the caller was off the
\* CPU for 5 ms after NewTicker.  A select picks any ready case, so the token
\* may be dropped whether or not wd has room.  "late" is "done" by this way.
WriteLate(c) ==
    /\ cpc[c] = "select"
    /\ cpc' = [cpc EXCEPT ![c] = "late"]
    /\ UNCHANGED <<agentVars, b, err, wd, wpc, batch, wire>>

Write(c) ==
    \/ WriteCheck(c)
    \/ WriteAppend(c)
    \/ WriteNotify(c)
    \/ WriteBlock(c)
    \/ WriteTimeout(c)
    \/ WriteLate(c)

-----------------------------------------------------------------------------
(* Agent.loopWrite.                                                        *)

Parked == {c \in Caller : cpc[c] = "blocked"}

\* Receiving from wd.  When callers are parked on the full channel the runtime
\* moves the token of one of them into the place that became free.
LoopRecv ==
    /\ wpc = "select"
    /\ wd > 0
    /\ wpc' = "pop"
    /\ \/ /\ Parked = {}
          /\ wd' = wd - 1
          /\ UNCHANGED cpc
       \/ \E c \in Parked :
            /\ cpc' = [cpc EXCEPT ![c] = "done"]
            /\ UNCHANGED wd
    /\ UNCHANGED <<agentVars, b, err, batch, wire>>

\* Seeded defect of LoopPop: the buffer is copied and not emptied.
LoopPopKeeps ==
    /\ wpc = "pop"
    /\ batch' = b
    /\ wpc' = IF b = <<>> THEN "select" ELSE "flush"
    /\ UNCHANGED <<agentVars, b, err, wd, wire, cpc>>

\* Seeded defect of LoopPop: one frame per token instead of the whole buffer.
LoopPopOne ==
    /\ wpc = "pop"
    /\ batch' = SubSeq(b, 1, 1)
    /\ b' = SubSeq(b, 2, Len(b))
    /\ wpc' = IF b = <<>> THEN "select" ELSE "flush"
    /\ UNCHANGED <<agentVars, err, wd, wire, cpc>>

\* Writer.Pop: the buffer is copied and emptied under the lock; an empty copy
\* sends the loop back to its select.  Only this goroutine sets err, and it
\* returns when it does, so the test of w.err in Pop is never true.
LoopPop ==
    /\ wpc = "pop"
    /\ batch' = b
    /\ b' = <<>>
    /\ wpc' = IF b = <<>> THEN "select" ELSE "flush"
    /\ UNCHANGED <<agentVars, err, wd, wire, cpc>>

\* Seeded defect of LoopFlush: a failed write is ignored and its batch dropped.
LoopFlushDrops ==
    /\ wpc = "flush"
    /\ batch' = <<>>
    /\ wpc' = "select"
    /\ UNCHANGED <<agentVars, b, err, wd, wire, cpc>>

\* Writer.Flush succeeds: the connection takes the whole batch.
LoopFlush ==
    /\ wpc = "flush"
    /\ connOpen
    /\ wire' = wire \o batch
    /\ batch' = <<>>
    /\ wpc' = "select"
    /\ UNCHANGED <<agentVars, b, err, wd, cpc>>

\* Writer.Flush fails (peer gone, write deadline, connection closed by the
\* finalizer) after the connection took the first n frames of the batch and
\* perhaps a part of the next one, never the whole batch.
LoopFlushFail ==
    /\ wpc = "flush"
    /\ \E n \in 0..(Len(batch) - 1) :
         /\ connOpen \/ n = 0
         /\ wire' = wire \o SubSeq(batch, 1, n)
         /\ batch' = SubSeq(batch, n + 1, Len(batch))
    /\ err' = TRUE
    /\ wpc' = "ret"
    /\ UNCHANGED <<agentVars, b, wd, cpc>>

\* The select sees the cancelled context, tokens or not.
LoopDone ==
    /\ wpc = "select"
    /\ ctxDone
    /\ wpc' = "ret"
    /\ UNCHANGED <<agentVars, b, err, wd, batch, wire, cpc>>

\* loopWrite has returned: the deferred cancel of its goroutine.
LoopReturn ==
    /\ wpc = "ret"
    /\ wpc' = "exited"
    /\ Close
    /\ UNCHANGED <<b, err, wd, batch, wire, cpc>>

LoopWrite ==
    \/ LoopRecv
    \/ LoopPop
    \/ LoopFlush
    \/ LoopFlushFail
    \/ LoopDone
    \/ LoopReturn

-----------------------------------------------------------------------------
(* The rest of the agent: somebody closes it, its finalizer cleans up.     *)

OutClose ==
    /\ ~ctxDone
    /\ Close
    /\ UNCHANGED outVars

OutFinalize ==
    /\ FinCleanup
    /\ UNCHANGED outVars

OutNext ==
    \/ \E c \in Caller : Write(c)
    \/ LoopWrite
    \/ OutClose
    \/ OutFinalize

OutSpec == OutInit /\ [][OutNext]_allOutVars

\* Every goroutine is scheduled again and again.  A parked caller is released
\* by its ticker, a Flush ends at the latest at its 60 s write deadline.
\* Nobody is obliged to call Write or to close the agent.
OutFairness ==
    /\ \A c \in Caller : WF_allOutVars(cpc[c] # "idle" /\ Write(c))
    /\ WF_allOutVars(LoopWrite)
    /\ WF_allOutVars(OutFinalize)

OutFairSpec == OutSpec /\ OutFairness

-----------------------------------------------------------------------------
(* Properties.                                                             *)

\* "First write to cache, then notify to ensure delivery" (agent.go:255): when
\* loopWrite waits for a token, none is there and no caller is about to leave
\* one, the buffer holds no frame.  Otherwise the frame would stay until some
\* later message for the same client happens to wake the loop.
NotifyDelivers ==
    (wpc = "select" /\ wd = 0 /\ \A c \in Caller : cpc[c] # "select")
        => b = <<>>

\* Agent.Write keeps that promise to every caller but one who was late: when
\* loopWrite waits and there is no token, a frame in the buffer belongs to a call
\* that has not come to its select or has given its token up there (WriteLate).
\* The token a parked caller gives up, or leaves to a stale one, is never missed.
NoStrandedFrame ==
    (wpc = "select" /\ wd = 0) => \A i \in DOMAIN b : cpc[b[i]] \in {"select", "late"}

\* No call of Agent.Write gave its token up before it looked at wd.
NoneLate == \A c \in Caller : cpc[c] # "late"

\* The write path is a Stream: the log is what was written, what is being
\* written and what waits, in this order.
Promise == INSTANCE Stream WITH
    Message <- Caller,
    log     <- wire \o batch \o b,
    broken  <- wpc \in {"ret", "exited"}

\* Frames reach the connection in the order in which Writer.Write appended
\* them, each once, none skipped, and nothing follows a failed write.
StreamSafety == Promise!Spec

\* A frame that was appended is written to the connection unless loopWrite
\* ends (write error or cancelled context) or some caller is late.
StreamDelivery == []NoneLate => Promise!Delivery

=============================================================================
