--------------------------- MODULE OutboundProofs ---------------------------
(***************************************************************************)
(* Proofs about the write path, for any set of callers and any capacity of *)
(* the channel wd.                                                         *)
(***************************************************************************)
EXTENDS Outbound, SequenceTheorems, TLAPS

\* loopWrite holds a batch only between Pop and the end of Flush.
BatchHeld ==
    /\ wpc \in {"select", "pop"} => batch = <<>>
    /\ wpc = "flush" => batch # <<>>

\* A frame in the buffer whose caller is through its select, or parked at it, has
\* a wakeup on its way: a token, or a loop that is about to pop or has ended.
WakeupPending ==
    \A i \in 1..Len(b) : cpc[b[i]] \in {"blocked", "done"}
        => wd > 0 \/ wpc \in {"pop", "ret", "exited"}

\* The callers whose frame is in the buffer, the batch or on the wire.
Appended == {"select", "blocked", "done", "late"}

\* A frame is somewhere in the log only after its caller appended it.
LoggedOnce ==
    /\ \A i \in 1..Len(b) : cpc[b[i]] \in Appended
    /\ \A i \in 1..Len(batch) : cpc[batch[i]] \in Appended
    /\ \A i \in 1..Len(wire) : cpc[wire[i]] \in Appended

\* Where a frame is that was appended.
Buffered(c) == \E i \in 1..Len(b) : b[i] = c
Popped(c) == \E i \in 1..Len(batch) : batch[i] = c
Sent(c) == \E i \in 1..Len(wire) : wire[i] = c

\* No frame that was appended is ever lost inside the gateway.
NoneLost == \A c \in Caller : cpc[c] \in Appended => Buffered(c) \/ Popped(c) \/ Sent(c)

\* A failed write and a loop that is gone.
LoopEnded ==
    /\ err => wpc \in {"ret", "exited"}
    /\ wpc = "exited" => ctxDone
    /\ \A c \in Caller : cpc[c] = "rejected" => wpc \in {"ret", "exited"}

-----------------------------------------------------------------------------
(* Facts about sequences.                                                  *)

\* The part of a sequence after its first n elements.
LEMMA SplitSeq ==
    ASSUME NEW S, NEW s \in Seq(S), NEW n \in 0..Len(s)
    PROVE  /\ SubSeq(s, 1, n) \in Seq(S)
           /\ Len(SubSeq(s, 1, n)) = n
           /\ \A i \in 1..n : SubSeq(s, 1, n)[i] = s[i]
           /\ SubSeq(s, n + 1, Len(s)) \in Seq(S)
           /\ Len(SubSeq(s, n + 1, Len(s))) = Len(s) - n
           /\ \A i \in 1..(Len(s) - n) : SubSeq(s, n + 1, Len(s))[i] = s[n + i]
           /\ SubSeq(s, 1, n) \o SubSeq(s, n + 1, Len(s)) = s
<1>1. Len(s) \in Nat /\ \A i \in 1..Len(s) : s[i] \in S
  BY LenProperties, ElementOfSeq
<1>2. /\ SubSeq(s, 1, n) \in Seq(S)
      /\ Len(SubSeq(s, 1, n)) = n
      /\ \A i \in 1..n : SubSeq(s, 1, n)[i] = s[i]
  BY <1>1, SubSeqProperties
<1>3. /\ SubSeq(s, n + 1, Len(s)) \in Seq(S)
      /\ Len(SubSeq(s, n + 1, Len(s))) = Len(s) - n
      /\ \A i \in 1..(Len(s) - n) : SubSeq(s, n + 1, Len(s))[i] = s[n + i]
  BY <1>1, SubSeqProperties
<1>4. SubSeq(s, 1, n) \o SubSeq(s, n + 1, Len(s)) = SubSeq(s, 1, Len(s))
  <2>1. /\ 1 \in 1..(Len(s) + 1)
        /\ n \in (1 - 1)..Len(s)
        /\ Len(s) \in n..Len(s)
    BY <1>1
  <2>2. QED
    BY <2>1, ConcatAdjacentSubSeq
<1>5. QED
  BY <1>2, <1>3, <1>4, SubSeqFull

\* The first part of a concatenation is its prefix of that length.
LEMMA PrefixOfConcat ==
    ASSUME NEW S, NEW s \in Seq(S), NEW t \in Seq(S)
    PROVE  /\ Len(s) \in 0..Len(s \o t)
           /\ SubSeq(s \o t, 1, Len(s)) = s
<1>1. Len(s) \in Nat /\ Len(t) \in Nat
  BY LenProperties
<1>2. Len(s \o t) = Len(s) + Len(t)
  BY ConcatProperties
<1>3. CASE s = <<>>
  BY <1>1, <1>2, <1>3, SubSeqEmpty, EmptySeq
<1>4. CASE s # <<>>
  <2>1. Len(s) \in 1..Len(s)
    BY <1>1, <1>4, EmptySeq
  <2>2. SubSeq(s \o t, 1, Len(s)) = SubSeq(s, 1, Len(s))
    BY <2>1, <1>1, SubSeqOfConcat1
  <2>3. QED
    BY <1>1, <1>2, <2>2, SubSeqFull
<1>5. QED
  BY <1>3, <1>4

-----------------------------------------------------------------------------
(* Type correctness.                                                       *)

\* One step of a caller in Agent.Write keeps the types.
LEMMA TypeWrite ==
    ASSUME OutTypeOK, NEW c \in Caller, Write(c)
    PROVE  OutTypeOK'
<1> USE OutboundAssumption DEF OutTypeOK, AgentTypeOK, agentVars
<1>1. CASE WriteCheck(c)
  BY <1>1 DEF WriteCheck
<1>2. CASE WriteAppend(c)
  <2>1. b' \in Seq(Caller)
    BY <1>2, AppendProperties DEF WriteAppend
  <2>2. QED
    BY <1>2, <2>1 DEF WriteAppend
<1>3. CASE WriteNotify(c)
  BY <1>3 DEF WriteNotify
<1>4. CASE WriteBlock(c)
  BY <1>4 DEF WriteBlock
<1>5. CASE WriteTimeout(c)
  BY <1>5 DEF WriteTimeout
<1>6. CASE WriteLate(c)
  BY <1>6 DEF WriteLate
<1>7. QED
  BY <1>1, <1>2, <1>3, <1>4, <1>5, <1>6 DEF Write

\* One step of loopWrite keeps the types.
LEMMA TypeLoop ==
    ASSUME OutTypeOK, LoopWrite
    PROVE  OutTypeOK'
<1> USE OutboundAssumption DEF OutTypeOK, AgentTypeOK, agentVars
<1>1. CASE LoopRecv
  BY <1>1 DEF LoopRecv, Parked
<1>2. CASE LoopPop
  BY <1>2, EmptySeq DEF LoopPop
<1>3. CASE LoopFlush
  <2>1. wire' \in Seq(Caller) /\ batch' \in Seq(Caller)
    BY <1>3, ConcatProperties, EmptySeq DEF LoopFlush
  <2>2. QED
    BY <1>3, <2>1 DEF LoopFlush
<1>4. CASE LoopFlushFail
  <2>1. wire' \in Seq(Caller) /\ batch' \in Seq(Caller)
    BY <1>4, ConcatProperties, SplitSeq, LenProperties DEF LoopFlushFail
  <2>2. QED
    BY <1>4, <2>1 DEF LoopFlushFail
<1>5. CASE LoopDone
  BY <1>5 DEF LoopDone
<1>6. CASE LoopReturn
  BY <1>6 DEF LoopReturn, Close
<1>7. QED
  BY <1>1, <1>2, <1>3, <1>4, <1>5, <1>6 DEF LoopWrite

\* Init establishes the types.
LEMMA InitTypes == OutInit => OutTypeOK
<1> SUFFICES ASSUME OutInit
             PROVE  OutTypeOK
  OBVIOUS
<1>1. AgentTypeOK
  BY Zenon DEF OutInit, AgentInit, AgentTypeOK
<1>2. b \in Seq(Caller) /\ batch \in Seq(Caller) /\ wire \in Seq(Caller)
  BY EmptySeq DEF OutInit
<1>3. wd \in 0..WdCap
  BY OutboundAssumption DEF OutInit
<1>4. QED
  BY <1>1, <1>2, <1>3 DEF OutInit, OutTypeOK

\* Every step keeps the types.
LEMMA StepTypes ==
    ASSUME OutTypeOK, [OutNext]_allOutVars
    PROVE  OutTypeOK'
<1>1. ASSUME NEW c \in Caller, Write(c)
      PROVE  OutTypeOK'
  BY <1>1, TypeWrite
<1>2. CASE LoopWrite
  BY <1>2, TypeLoop
<1>3. CASE OutClose
  BY <1>3 DEF OutClose, Close, OutTypeOK, AgentTypeOK, outVars
<1>4. CASE OutFinalize
  BY <1>4 DEF OutFinalize, FinCleanup, OutTypeOK, AgentTypeOK, outVars
<1>5. CASE UNCHANGED allOutVars
  BY <1>5 DEF allOutVars, OutTypeOK, AgentTypeOK
<1>6. QED
  BY <1>1, <1>2, <1>3, <1>4, <1>5 DEF OutNext

\* The variables of the write path always have their types.
THEOREM OutTypeCorrect == OutSpec => []OutTypeOK
BY InitTypes, StepTypes, PTL DEF OutSpec

-----------------------------------------------------------------------------
(* The inductive invariant.                                                *)

\* Init establishes the parts of the invariant beside the types.
LEMMA InitInv == OutInit => BatchHeld /\ LoggedOnce /\ WakeupPending /\ NoneLost /\ LoopEnded
BY EmptySeq DEF OutInit, BatchHeld, LoggedOnce, WakeupPending, NoneLost, Appended,
                LoopEnded

\* loopWrite holds a batch only around Flush: preserved by every step.
LEMMA StepBatchHeld ==
    ASSUME OutTypeOK, BatchHeld, [OutNext]_allOutVars
    PROVE  BatchHeld'
<1> USE DEF BatchHeld, agentVars, outVars
<1>1. ASSUME NEW c \in Caller, Write(c)
      PROVE  BatchHeld'
  BY <1>1 DEF Write, WriteCheck, WriteAppend, WriteNotify, WriteBlock,
              WriteTimeout, WriteLate
<1>2. CASE LoopWrite
  BY <1>2 DEF LoopWrite, LoopRecv, LoopPop, LoopFlush, LoopFlushFail,
              LoopDone, LoopReturn
<1>3. CASE OutClose \/ OutFinalize
  BY <1>3 DEF OutClose, OutFinalize
<1>4. CASE UNCHANGED allOutVars
  BY <1>4 DEF allOutVars
<1>5. QED
  BY <1>1, <1>2, <1>3, <1>4 DEF OutNext

\* What the sequences of a state in its types give.
LEMMA FrameTypes ==
    ASSUME OutTypeOK
    PROVE  /\ cpc \in [Caller -> {"idle", "append", "select", "blocked", "done", "late", "rejected"}]
           /\ wd \in 0..WdCap /\ WdCap \in Nat \ {0}
           /\ b \in Seq(Caller) /\ batch \in Seq(Caller) /\ wire \in Seq(Caller)
           /\ Len(b) \in Nat /\ Len(batch) \in Nat /\ Len(wire) \in Nat
           /\ \A i \in 1..Len(b) : b[i] \in Caller
           /\ \A i \in 1..Len(batch) : batch[i] \in Caller
           /\ \A i \in 1..Len(wire) : wire[i] \in Caller
BY OutboundAssumption, LenProperties, ElementOfSeq DEF OutTypeOK

\* Every step keeps the wakeup of every frame.
LEMMA StepWakeup ==
    ASSUME OutTypeOK, WakeupPending, [OutNext]_allOutVars
    PROVE  WakeupPending'
<1> USE FrameTypes DEF WakeupPending, agentVars, outVars
<1>1. ASSUME NEW c \in Caller, WriteAppend(c)
      PROVE  WakeupPending'
  <2>1. /\ Len(b') = Len(b) + 1
        /\ \A i \in 1..Len(b) : b'[i] = b[i]
        /\ b'[Len(b) + 1] = c
    BY <1>1, AppendProperties DEF WriteAppend
  <2>2. QED
    BY <1>1, <2>1 DEF WriteAppend
<1>2. ASSUME NEW c \in Caller,
             WriteCheck(c) \/ WriteNotify(c) \/ WriteBlock(c) \/ WriteTimeout(c) \/ WriteLate(c)
      PROVE  WakeupPending'
  \* A token is left, or wd is full, or the caller was parked before; one that
  \* was late leaves the set.
  BY <1>2 DEF WriteCheck, WriteNotify, WriteBlock, WriteTimeout, WriteLate
<1>3. CASE LoopRecv
  BY <1>3 DEF LoopRecv, Parked
<1>4. CASE LoopPop
  BY <1>4, EmptySeq DEF LoopPop
<1>5. CASE LoopFlush \/ LoopFlushFail \/ LoopDone \/ LoopReturn
  BY <1>5 DEF LoopFlush, LoopFlushFail, LoopDone, LoopReturn
<1>6. CASE OutClose \/ OutFinalize
  BY <1>6 DEF OutClose, OutFinalize
<1>7. CASE UNCHANGED allOutVars
  BY <1>7 DEF allOutVars
<1>8. QED
  BY <1>1, <1>2, <1>3, <1>4, <1>5, <1>6, <1>7 DEF OutNext, Write, LoopWrite

\* A frame is in the log only after its caller appended it: preserved by every
\* step.
LEMMA StepLoggedOnce ==
    ASSUME OutTypeOK, LoggedOnce, [OutNext]_allOutVars
    PROVE  LoggedOnce'
<1> USE DEF LoggedOnce, Appended, agentVars, outVars
<1>0. /\ cpc \in [Caller -> {"idle", "append", "select", "blocked", "done", "late", "rejected"}]
      /\ b \in Seq(Caller) /\ batch \in Seq(Caller) /\ wire \in Seq(Caller)
      /\ Len(b) \in Nat /\ Len(batch) \in Nat /\ Len(wire) \in Nat
      /\ \A i \in 1..Len(b) : b[i] \in Caller
      /\ \A i \in 1..Len(batch) : batch[i] \in Caller
      /\ \A i \in 1..Len(wire) : wire[i] \in Caller
  BY LenProperties, ElementOfSeq DEF OutTypeOK
<1>1. ASSUME NEW c \in Caller, Write(c)
      PROVE  LoggedOnce'
  <2>1. CASE WriteAppend(c)
    <3>1. /\ Len(b') = Len(b) + 1
          /\ \A i \in 1..Len(b) : b'[i] = b[i]
          /\ b'[Len(b) + 1] = c
      BY <1>0, <2>1, AppendProperties DEF WriteAppend
    <3>2. QED
      BY <1>0, <2>1, <3>1 DEF WriteAppend
  <2>2. CASE WriteCheck(c) \/ WriteNotify(c) \/ WriteBlock(c) \/ WriteTimeout(c) \/ WriteLate(c)
    <3>1. \A d \in Caller : cpc[d] \in Appended => cpc'[d] \in Appended
      BY <1>0, <2>2 DEF WriteCheck, WriteNotify, WriteBlock, WriteTimeout, WriteLate
    <3>2. UNCHANGED <<b, batch, wire>>
      BY <2>2 DEF WriteCheck, WriteNotify, WriteBlock, WriteTimeout, WriteLate
    <3>3. QED
      BY <1>0, <3>1, <3>2
  <2>3. QED
    BY <1>1, <2>1, <2>2 DEF Write
<1>2. CASE LoopRecv
  BY <1>0, <1>2 DEF LoopRecv, Parked
<1>3. CASE LoopPop
  BY <1>0, <1>3, EmptySeq DEF LoopPop
<1>4. CASE LoopFlush
  <2>1. /\ Len(wire') = Len(wire) + Len(batch)
        /\ \A i \in 1..Len(wire) + Len(batch) :
             wire'[i] = IF i <= Len(wire) THEN wire[i] ELSE batch[i - Len(wire)]
    BY <1>0, <1>4, ConcatProperties DEF LoopFlush
  <2>2. batch' = <<>> /\ Len(batch') = 0
    BY <1>4, EmptySeq DEF LoopFlush
  <2>3. \A i \in 1..Len(wire') : cpc[wire'[i]] \in Appended
    BY <1>0, <2>1
  <2>4. QED
    BY <1>4, <2>2, <2>3 DEF LoopFlush
<1>5. CASE LoopFlushFail
  <2>1. PICK n \in 0..(Len(batch) - 1) :
          /\ wire' = wire \o SubSeq(batch, 1, n)
          /\ batch' = SubSeq(batch, n + 1, Len(batch))
    BY <1>5 DEF LoopFlushFail
  <2> DEFINE taken == SubSeq(batch, 1, n)
  <2>2. n \in 0..Len(batch)
    BY <1>0
  <2>3. /\ taken \in Seq(Caller)
        /\ Len(taken) = n
        /\ \A i \in 1..n : taken[i] = batch[i]
    BY <1>0, <2>2, SplitSeq
  <2>4. /\ Len(batch') = Len(batch) - n
        /\ \A i \in 1..(Len(batch) - n) : batch'[i] = batch[n + i]
    BY <1>0, <2>1, <2>2, SplitSeq
  <2>5. /\ Len(wire') = Len(wire) + n
        /\ \A i \in 1..Len(wire) + n :
             wire'[i] = IF i <= Len(wire) THEN wire[i] ELSE taken[i - Len(wire)]
    BY <1>0, <2>1, <2>3, ConcatProperties
  <2>6. \A i \in 1..Len(wire') : cpc[wire'[i]] \in Appended
    <3> TAKE i \in 1..Len(wire')
    <3>1. CASE i <= Len(wire)
      BY <1>0, <2>2, <2>5, <3>1
    <3>2. CASE i > Len(wire)
      <4>1. i - Len(wire) \in 1..n /\ wire'[i] = taken[i - Len(wire)]
        BY <1>0, <2>2, <2>5, <3>2
      <4>2. i - Len(wire) \in 1..Len(batch) /\ wire'[i] = batch[i - Len(wire)]
        BY <1>0, <2>2, <2>3, <4>1
      <4>3. QED
        BY <4>2
    <3>3. QED
      BY <1>0, <2>2, <2>5, <3>1, <3>2
  <2>7. \A i \in 1..Len(batch') : cpc[batch'[i]] \in Appended
    <3> TAKE i \in 1..Len(batch')
    <3>1. batch'[i] = batch[n + i] /\ n + i \in 1..Len(batch)
      BY <1>0, <2>2, <2>4
    <3>2. QED
      BY <3>1
  <2>8. QED
    BY <1>5, <2>6, <2>7 DEF LoopFlushFail
<1>6. CASE LoopDone \/ LoopReturn
  BY <1>6 DEF LoopDone, LoopReturn
<1>7. CASE OutClose \/ OutFinalize
  BY <1>7 DEF OutClose, OutFinalize
<1>8. CASE UNCHANGED allOutVars
  BY <1>8 DEF allOutVars
<1>9. QED
  BY <1>1, <1>2, <1>3, <1>4, <1>5, <1>6, <1>7, <1>8 DEF OutNext, LoopWrite

\* agent.go:255 "First write to cache, then notify to ensure delivery": no frame
\* is left in the buffer with nobody to wake loopWrite, unless its own caller was
\* held up for 5 ms between making its ticker and its select; for any number of
\* callers and any capacity of wd.
THEOREM NoStranded == OutSpec => []NoStrandedFrame
<1>1. OutInit => WakeupPending
  BY InitInv
<1>2. OutTypeOK /\ LoggedOnce /\ WakeupPending => NoStrandedFrame
  <2> SUFFICES ASSUME OutTypeOK, LoggedOnce, WakeupPending, wpc = "select", wd = 0,
                      NEW i \in DOMAIN b
               PROVE  cpc[b[i]] \in {"select", "late"}
    BY DEF NoStrandedFrame
  <2>1. i \in 1..Len(b)
    BY FrameTypes, LenProperties
  <2>2. QED
    BY <2>1, FrameTypes DEF LoggedOnce, Appended, WakeupPending
<1>3. OutInit => LoggedOnce
  BY InitInv
<1>4. QED
  BY <1>1, <1>2, <1>3, StepWakeup, StepLoggedOnce, OutTypeCorrect, PTL DEF OutSpec

\* Every step keeps every appended frame in the log.
LEMMA StepNoneLost ==
    ASSUME OutTypeOK, BatchHeld, NoneLost, [OutNext]_allOutVars
    PROVE  NoneLost'
<1> USE FrameTypes DEF Appended, agentVars, outVars
<1>1. ASSUME NEW c \in Caller, WriteAppend(c)
      PROVE  NoneLost'
  <2>1. /\ Len(b') = Len(b) + 1
        /\ \A i \in 1..Len(b) : b'[i] = b[i]
        /\ b'[Len(b) + 1] = c
    BY <1>1, AppendProperties DEF WriteAppend
  <2>2. Buffered(c)'
    <3>1. Len(b) + 1 \in 1..Len(b')
      BY <2>1
    <3>2. QED
      BY <2>1, <3>1 DEF Buffered
  <2>3. \A d \in Caller : Buffered(d) => Buffered(d)'
    BY <2>1 DEF Buffered
  <2>4. \A d \in Caller : Popped(d)' = Popped(d) /\ Sent(d)' = Sent(d)
    BY <1>1 DEF WriteAppend, Popped, Sent
  <2>5. \A d \in Caller : d # c => cpc'[d] = cpc[d]
    BY <1>1 DEF WriteAppend
  <2>6. QED
    BY <2>2, <2>3, <2>4, <2>5 DEF NoneLost
<1>2. ASSUME NEW c \in Caller,
             WriteCheck(c) \/ WriteNotify(c) \/ WriteBlock(c) \/ WriteTimeout(c) \/ WriteLate(c)
      PROVE  NoneLost'
  BY <1>2 DEF WriteCheck, WriteNotify, WriteBlock, WriteTimeout, WriteLate,
              NoneLost, Buffered, Popped, Sent
<1>3. CASE LoopRecv
  BY <1>3 DEF LoopRecv, Parked, NoneLost, Buffered, Popped, Sent
<1>4. CASE LoopPop
  <2>1. batch' = b /\ batch = <<>> /\ UNCHANGED <<wire, cpc>>
    BY <1>4 DEF LoopPop, BatchHeld
  <2>2. \A d \in Caller : (Buffered(d) => Popped(d)') /\ ~Popped(d) /\ (Sent(d) => Sent(d)')
    BY <2>1, EmptySeq DEF Buffered, Popped, Sent
  <2>3. QED
    BY <2>1, <2>2 DEF NoneLost
<1>5. CASE LoopFlush
  <2>1. /\ Len(wire') = Len(wire) + Len(batch)
        /\ \A i \in 1..Len(wire) + Len(batch) :
             wire'[i] = IF i <= Len(wire) THEN wire[i] ELSE batch[i - Len(wire)]
    BY <1>5, ConcatProperties DEF LoopFlush
  <2>2. ASSUME NEW d \in Caller, Popped(d)
        PROVE  Sent(d)'
    <3>1. PICK i \in 1..Len(batch) : batch[i] = d
      BY <2>2 DEF Popped
    <3>2. Len(wire) + i \in 1..Len(wire') /\ ~(Len(wire) + i <= Len(wire))
      BY <2>1, <3>1
    <3>3. wire'[Len(wire) + i] = batch[(Len(wire) + i) - Len(wire)]
      BY <2>1, <3>2
    <3>4. (Len(wire) + i) - Len(wire) = i
      BY <3>1
    <3>5. QED
      BY <3>1, <3>2, <3>3, <3>4 DEF Sent
  <2>3. ASSUME NEW d \in Caller, Sent(d)
        PROVE  Sent(d)'
    <3>1. PICK i \in 1..Len(wire) : wire[i] = d
      BY <2>3 DEF Sent
    <3>2. wire'[i] = d /\ i \in 1..Len(wire')
      BY <2>1, <3>1
    <3>3. QED
      BY <3>2 DEF Sent
  <2>4. UNCHANGED <<b, cpc>>
    BY <1>5 DEF LoopFlush
  <2>5. QED
    BY <2>2, <2>3, <2>4 DEF NoneLost, Buffered
<1>6. CASE LoopFlushFail
  <2>1. PICK n \in 0..(Len(batch) - 1) :
          /\ wire' = wire \o SubSeq(batch, 1, n)
          /\ batch' = SubSeq(batch, n + 1, Len(batch))
    BY <1>6 DEF LoopFlushFail
  <2> DEFINE taken == SubSeq(batch, 1, n)
  <2>2. /\ n \in 0..Len(batch)
        /\ taken \in Seq(Caller)
        /\ Len(taken) = n
        /\ \A i \in 1..n : taken[i] = batch[i]
    BY SplitSeq
  <2>3. /\ Len(batch') = Len(batch) - n
        /\ \A i \in 1..(Len(batch) - n) : batch'[i] = batch[n + i]
    BY <2>1, <2>2, SplitSeq
  <2>4. /\ Len(wire') = Len(wire) + n
        /\ \A i \in 1..Len(wire) + n :
             wire'[i] = IF i <= Len(wire) THEN wire[i] ELSE taken[i - Len(wire)]
    BY <2>1, <2>2, ConcatProperties
  <2> HIDE DEF taken
  <2>5. ASSUME NEW d \in Caller, Popped(d)
        PROVE  Popped(d)' \/ Sent(d)'
    <3>1. PICK i \in 1..Len(batch) : batch[i] = d
      BY <2>5 DEF Popped
    <3>2. CASE i <= n
      <4>1. Len(wire) + i \in 1..Len(wire') /\ ~(Len(wire) + i <= Len(wire))
        BY <2>2, <2>4, <3>1, <3>2
      <4>2. wire'[Len(wire) + i] = taken[(Len(wire) + i) - Len(wire)]
        BY <2>2, <2>4, <3>1, <3>2, <4>1
      <4>3. (Len(wire) + i) - Len(wire) = i /\ taken[i] = d
        BY <2>2, <3>1, <3>2
      <4>4. QED
        BY <4>1, <4>2, <4>3 DEF Sent
    <3>3. CASE i > n
      <4>1. i - n \in 1..Len(batch') /\ batch'[i - n] = d
        BY <2>2, <2>3, <3>1, <3>3
      <4>2. QED
        BY <4>1 DEF Popped
    <3>4. QED
      BY <2>2, <3>2, <3>3
  <2>6. ASSUME NEW d \in Caller, Sent(d)
        PROVE  Sent(d)'
    <3>1. PICK i \in 1..Len(wire) : wire[i] = d
      BY <2>6 DEF Sent
    <3>2. wire'[i] = d /\ i \in 1..Len(wire')
      BY <2>2, <2>4, <3>1
    <3>3. QED
      BY <3>2 DEF Sent
  <2>7. UNCHANGED <<b, cpc>>
    BY <1>6 DEF LoopFlushFail
  <2>8. QED
    BY <2>5, <2>6, <2>7 DEF NoneLost, Buffered
<1>7. CASE LoopDone \/ LoopReturn
  BY <1>7 DEF LoopDone, LoopReturn, NoneLost, Buffered, Popped, Sent
<1>8. CASE OutClose \/ OutFinalize
  BY <1>8 DEF OutClose, OutFinalize, NoneLost, Buffered, Popped, Sent
<1>9. CASE UNCHANGED allOutVars
  BY <1>9 DEF allOutVars, NoneLost, Buffered, Popped, Sent
<1>10. QED
  BY <1>1, <1>2, <1>3, <1>4, <1>5, <1>6, <1>7, <1>8, <1>9 DEF OutNext, Write, LoopWrite

\* Every step keeps what is known of a failed write and of a loop that is gone.
LEMMA StepEnded ==
    ASSUME OutTypeOK, LoopEnded, [OutNext]_allOutVars
    PROVE  LoopEnded'
<1> USE FrameTypes DEF LoopEnded, agentVars, outVars
<1>1. ASSUME NEW c \in Caller, Write(c)
      PROVE  LoopEnded'
  BY <1>1 DEF Write, WriteCheck, WriteAppend, WriteNotify, WriteBlock,
              WriteTimeout, WriteLate
<1>2. CASE LoopRecv
  BY <1>2 DEF LoopRecv, Parked
<1>3. CASE LoopPop \/ LoopFlush \/ LoopFlushFail \/ LoopDone \/ LoopReturn
  BY <1>3 DEF LoopPop, LoopFlush, LoopFlushFail, LoopDone, LoopReturn, Close
<1>4. CASE OutClose \/ OutFinalize
  BY <1>4 DEF OutClose, Close, OutFinalize, FinCleanup
<1>5. CASE UNCHANGED allOutVars
  BY <1>5 DEF allOutVars
<1>6. QED
  BY <1>1, <1>2, <1>3, <1>4, <1>5 DEF OutNext, LoopWrite

\* The inductive invariant as a whole.
OutInv == OutTypeOK /\ BatchHeld /\ LoggedOnce /\ WakeupPending /\ NoneLost /\ LoopEnded

\* Every step keeps it.
LEMMA OutInvKept == OutInv /\ [OutNext]_allOutVars => OutInv'
BY StepTypes, StepBatchHeld, StepLoggedOnce, StepWakeup, StepNoneLost, StepEnded DEF OutInv

\* Writer.Write and Flush: no frame that was appended is lost inside the gateway,
\* however Flush fails: it is on the connection, or in the batch of a loop, or in
\* the buffer.
THEOREM OutboundInv == OutSpec => []OutInv
<1>1. OutInit => OutTypeOK /\ OutInv
  BY InitTypes, InitInv DEF OutInv
<1>2. QED
  BY <1>1, OutInvKept, PTL DEF OutSpec

-----------------------------------------------------------------------------
(* The write path implements Stream.                                       *)

\* The facts about the log that the refinement steps share.
LEMMA LogFacts ==
    ASSUME OutTypeOK
    PROVE  /\ b \in Seq(Caller) /\ batch \in Seq(Caller) /\ wire \in Seq(Caller)
           /\ wire \o batch \in Seq(Caller)
           /\ wire \o batch \o b \in Seq(Caller)
           /\ Len(wire \o batch \o b) = Len(wire) + Len(batch) + Len(b)
           /\ Len(wire) \in Nat /\ Len(batch) \in Nat /\ Len(b) \in Nat
           /\ wire \o batch \o b = wire \o (batch \o b)
           /\ batch \o b \in Seq(Caller)
<1>1. b \in Seq(Caller) /\ batch \in Seq(Caller) /\ wire \in Seq(Caller)
  BY DEF OutTypeOK
<1>2. Len(wire) \in Nat /\ Len(batch) \in Nat /\ Len(b) \in Nat
  BY <1>1, LenProperties
<1>3. /\ wire \o batch \in Seq(Caller)
      /\ Len(wire \o batch) = Len(wire) + Len(batch)
      /\ batch \o b \in Seq(Caller)
  BY <1>1, ConcatProperties
<1>4. /\ wire \o batch \o b \in Seq(Caller)
      /\ Len(wire \o batch \o b) = Len(wire \o batch) + Len(b)
  BY <1>1, <1>3, ConcatProperties
<1>5. wire \o batch \o b = wire \o (batch \o b)
  BY <1>1, ConcatAssociative
<1>6. QED
  BY <1>1, <1>2, <1>3, <1>4, <1>5

\* Appending a frame is the Stream action Accept.
LEMMA AppendAccepts ==
    ASSUME OutTypeOK, LoggedOnce, NEW c \in Caller, WriteAppend(c)
    PROVE  Promise!Accept(c)
<1> DEFINE log == wire \o batch \o b
<1>1. log' = Append(log, c)
  <2>1. Append(b, c) = b \o <<c>> /\ <<c>> \in Seq(Caller)
    BY LogFacts, AppendIsConcat, EmptySeq, AppendProperties
  <2>2. (wire \o batch) \o (b \o <<c>>) = ((wire \o batch) \o b) \o <<c>>
    BY <2>1, LogFacts, ConcatAssociative
  <2>3. Append(log, c) = log \o <<c>>
    BY LogFacts, AppendIsConcat
  <2>4. QED
    BY <2>1, <2>2, <2>3 DEF WriteAppend
<1>2. ASSUME NEW i \in 1..Len(log), log[i] = c
      PROVE  FALSE
  <2>1. log[i] = IF i <= Len(wire \o batch) THEN (wire \o batch)[i]
                                            ELSE b[i - Len(wire \o batch)]
    BY LogFacts, ConcatProperties
  <2>2. /\ Len(wire \o batch) = Len(wire) + Len(batch)
        /\ \A j \in 1..Len(wire) + Len(batch) :
             (wire \o batch)[j] = IF j <= Len(wire) THEN wire[j]
                                                    ELSE batch[j - Len(wire)]
    BY LogFacts, ConcatProperties
  <2>3. CASE i <= Len(wire)
    <3>1. log[i] = wire[i] /\ i \in 1..Len(wire)
      BY <2>1, <2>2, <2>3, LogFacts
    <3>2. QED
      BY <1>2, <3>1 DEF LoggedOnce, Appended, WriteAppend
  <2>4. CASE i > Len(wire) /\ i <= Len(wire) + Len(batch)
    <3>1. log[i] = batch[i - Len(wire)] /\ i - Len(wire) \in 1..Len(batch)
      BY <2>1, <2>2, <2>4, LogFacts
    <3>2. QED
      BY <1>2, <3>1 DEF LoggedOnce, Appended, WriteAppend
  <2>5. CASE i > Len(wire) + Len(batch)
    <3>1. log[i] = b[i - (Len(wire) + Len(batch))]
          /\ i - (Len(wire) + Len(batch)) \in 1..Len(b)
      BY <2>1, <2>2, <2>5, LogFacts
    <3>2. QED
      BY <1>2, <3>1 DEF LoggedOnce, Appended, WriteAppend
  <2>6. QED
    BY <2>3, <2>4, <2>5, LogFacts
<1>3. c \notin Promise!Accepted
  BY <1>2 DEF Promise!Accepted
<1>4. QED
  BY <1>1, <1>3 DEF Promise!Accept, WriteAppend, agentVars

\* Popping the buffer moves frames inside the log and changes nothing else.
LEMMA PopStutters ==
    ASSUME OutTypeOK, BatchHeld, LoopPop
    PROVE  UNCHANGED Promise!vars
<1>1. wire \o batch = wire /\ wire \o b \in Seq(Caller)
  BY LogFacts, ConcatEmptySeq, ConcatProperties DEF BatchHeld, LoopPop
<1>2. (wire \o b) \o <<>> = wire \o b
  BY <1>1, ConcatEmptySeq
<1>3. (wire \o batch \o b)' = wire \o batch \o b
  BY <1>1, <1>2 DEF LoopPop
<1>4. QED
  BY <1>3 DEF Promise!vars, LoopPop

\* A successful Flush delivers the batch.
LEMMA FlushDelivers ==
    ASSUME OutTypeOK, BatchHeld, LoopFlush
    PROVE  \E n \in 1..Len(wire \o batch \o b) : Promise!Deliver(n)
<1> DEFINE n == Len(wire \o batch)
<1>1. n = Len(wire) + Len(batch) /\ Len(batch) > 0
  BY LogFacts, ConcatProperties, EmptySeq DEF BatchHeld, LoopFlush
<1>2. n \in 1..Len(wire \o batch \o b)
  BY <1>1, LogFacts
<1>3. wire' = SubSeq(wire \o batch \o b, 1, n)
  BY LogFacts, PrefixOfConcat DEF LoopFlush
<1>4. (wire \o batch \o b)' = wire \o batch \o b
  BY LogFacts, ConcatEmptySeq DEF LoopFlush
<1>5. Promise!Deliver(n)
  BY <1>1, <1>3, <1>4, LogFacts DEF Promise!Deliver, LoopFlush
<1>6. QED
  BY <1>2, <1>5

\* Concatenation of frame sequences is associative.
LEMMA FramesAssoc == \A r, s, t \in Seq(Caller) : (r \o s) \o t = r \o (s \o t)
<1> TAKE r, s, t \in Seq(Caller)
<1> QED
  BY ConcatAssociative

\* A sequence of frames in three parts, the middle one itself made of two.
LEMMA CutMiddle ==
    ASSUME NEW r \in Seq(Caller), NEW p \in Seq(Caller),
           NEW q \in Seq(Caller), NEW t \in Seq(Caller)
    PROVE  /\ r \o p \o q \o t = r \o (p \o q) \o t
           /\ Len(r \o p) \in 0..Len(r \o (p \o q) \o t)
           /\ SubSeq(r \o (p \o q) \o t, 1, Len(r \o p)) = r \o p
           /\ Len(r) <= Len(r \o p)
<1>1. PICK u \in Seq(Caller) : u = r \o p
  BY ConcatProperties
<1>2. u \o q = r \o (p \o q)
  BY <1>1, FramesAssoc
<1>3. (u \o q) \o t = u \o (q \o t)
  BY FramesAssoc
<1>4. /\ Len(u) \in 0..Len(u \o (q \o t))
      /\ SubSeq(u \o (q \o t), 1, Len(u)) = u
  <2>1. q \o t \in Seq(Caller)
    BY ConcatProperties
  <2>2. QED
    BY <2>1, PrefixOfConcat
<1>5. Len(r) <= Len(r \o p)
  BY ConcatProperties, LenProperties
<1>6. QED
  BY <1>1, <1>2, <1>3, <1>4, <1>5

\* A failed Flush breaks the stream after a prefix of the batch.
LEMMA FlushFailBreaks ==
    ASSUME OutTypeOK, LoopFlushFail
    PROVE  \E n \in 0..Len(wire \o batch \o b) : Promise!Break(n)
<1>1. PICK k \in 0..(Len(batch) - 1) :
        /\ wire' = wire \o SubSeq(batch, 1, k)
        /\ batch' = SubSeq(batch, k + 1, Len(batch))
  BY DEF LoopFlushFail
<1>2. k \in 0..Len(batch)
  BY <1>1, LogFacts
<1> DEFINE p == SubSeq(batch, 1, k)
           q == SubSeq(batch, k + 1, Len(batch))
<1>3. /\ wire' = wire \o p /\ batch' = q
      /\ p \in Seq(Caller) /\ q \in Seq(Caller)
      /\ p \o q = batch
  <2>1. batch \in Seq(Caller)
    BY LogFacts
  <2>2. p \in Seq(Caller) /\ q \in Seq(Caller) /\ p \o q = batch
    BY <1>2, <2>1, SplitSeq
  <2>3. QED
    BY <1>1, <2>2
<1> HIDE DEF p, q
<1>4. /\ wire \o p \o q \o b = wire \o (p \o q) \o b
      /\ Len(wire \o p) \in 0..Len(wire \o (p \o q) \o b)
      /\ SubSeq(wire \o (p \o q) \o b, 1, Len(wire \o p)) = wire \o p
      /\ Len(wire) <= Len(wire \o p)
  <2>1. /\ wire \in Seq(Caller) /\ b \in Seq(Caller)
        /\ p \in Seq(Caller) /\ q \in Seq(Caller)
    BY <1>3, LogFacts
  <2>2. QED
    BY <2>1, CutMiddle
<1>5. (wire \o batch \o b)' = wire \o batch \o b
  BY <1>3, <1>4 DEF LoopFlushFail
<1>6. Promise!Break(Len(wire \o p))
  BY <1>3, <1>4, <1>5 DEF Promise!Break, LoopFlushFail
<1>7. QED
  BY <1>3, <1>4, <1>6

\* A loop that sees the cancelled context breaks the stream where it is.
LEMMA DoneBreaks ==
    ASSUME OutTypeOK, LoopDone
    PROVE  \E n \in 0..Len(wire \o batch \o b) : Promise!Break(n)
<1>1. SubSeq(wire \o batch \o b, 1, Len(wire)) = wire
      /\ Len(wire) \in 0..Len(wire \o batch \o b)
  BY LogFacts, PrefixOfConcat
<1>2. (wire \o batch \o b)' = wire \o batch \o b
  BY DEF LoopDone
<1>3. Promise!Break(Len(wire))
  BY <1>1, <1>2, LogFacts DEF Promise!Break, LoopDone
<1>4. QED
  BY <1>1, <1>3

\* Every step of the write path is a Stream step or leaves the stream alone.
LEMMA StepRefines ==
    ASSUME OutTypeOK, BatchHeld, LoggedOnce, [OutNext]_allOutVars
    PROVE  [Promise!Next]_(Promise!vars)
<1> USE DEF agentVars, outVars
<1>1. ASSUME NEW c \in Caller, Write(c)
      PROVE  [Promise!Next]_(Promise!vars)
  <2>1. CASE WriteAppend(c)
    BY <2>1, AppendAccepts DEF Promise!Next
  <2>2. CASE WriteCheck(c) \/ WriteNotify(c) \/ WriteBlock(c) \/ WriteTimeout(c) \/ WriteLate(c)
    BY <2>2 DEF WriteCheck, WriteNotify, WriteBlock, WriteTimeout, WriteLate, Promise!vars
  <2>3. QED
    BY <1>1, <2>1, <2>2 DEF Write
<1>2. CASE LoopRecv
  BY <1>2 DEF LoopRecv, Promise!vars
<1>3. CASE LoopPop
  BY <1>3, PopStutters
<1>4. CASE LoopFlush
  BY <1>4, FlushDelivers DEF Promise!Next
<1>5. CASE LoopFlushFail
  BY <1>5, FlushFailBreaks DEF Promise!Next
<1>6. CASE LoopDone
  BY <1>6, DoneBreaks DEF Promise!Next
<1>7. CASE LoopReturn
  BY <1>7 DEF LoopReturn, Promise!vars
<1>8. CASE OutClose \/ OutFinalize
  BY <1>8 DEF OutClose, OutFinalize, Promise!vars
<1>9. CASE UNCHANGED allOutVars
  BY <1>9 DEF allOutVars, Promise!vars
<1>10. QED
  BY <1>1, <1>2, <1>3, <1>4, <1>5, <1>6, <1>7, <1>8, <1>9 DEF OutNext, LoopWrite

\* Frames reach the connection in the order in which Writer.Write appended
\* them, each once, none skipped, and nothing follows a failed write, whatever
\* callers, ticker, cancellation and finalizer do.
THEOREM OutboundIsStream == OutSpec => StreamSafety
<1>1. OutInit => BatchHeld /\ LoggedOnce
  BY InitInv
<1>2. OutInit => Promise!Init
  BY EmptySeq, ConcatEmptySeq DEF OutInit, Promise!Init
<1>3. OutTypeOK /\ BatchHeld /\ [OutNext]_allOutVars => BatchHeld'
  BY StepBatchHeld
<1>4. OutTypeOK /\ LoggedOnce /\ [OutNext]_allOutVars => LoggedOnce'
  BY StepLoggedOnce
<1>5. OutTypeOK /\ BatchHeld /\ LoggedOnce /\ [OutNext]_allOutVars
        => [Promise!Next]_(Promise!vars)
  BY StepRefines
<1>6. QED
  BY <1>1, <1>2, <1>3, <1>4, <1>5, OutTypeCorrect, PTL
  DEF OutSpec, StreamSafety, Promise!Spec

\* The agent of the write path lives the life that Gateway drives it through:
\* the loop may cancel it, and nothing but the finalizer closes its connection.
THEOREM OutboundIsAgent == OutSpec => AgentSpec
<1>1. OutInit => AgentInit
  BY DEF OutInit
<1>2. [OutNext]_allOutVars => [AgentNext]_agentVars
  <2> SUFFICES ASSUME [OutNext]_allOutVars
               PROVE  [AgentNext]_agentVars
    OBVIOUS
  <2>1. ASSUME NEW c \in Caller, Write(c)
        PROVE  UNCHANGED agentVars
    BY <2>1 DEF Write, WriteCheck, WriteAppend, WriteNotify, WriteBlock, WriteTimeout, WriteLate
  <2>2. LoopWrite => UNCHANGED agentVars \/ Close
    BY DEF LoopWrite, LoopRecv, LoopPop, LoopFlush, LoopFlushFail, LoopDone, LoopReturn
  <2>3. OutClose \/ OutFinalize => AgentNext
    BY DEF OutClose, OutFinalize, AgentNext
  <2>4. UNCHANGED allOutVars => UNCHANGED agentVars
    BY DEF allOutVars, agentVars
  <2>5. QED
    BY <2>1, <2>2, <2>3, <2>4 DEF OutNext, AgentNext
<1>3. QED
  BY <1>1, <1>2, PTL DEF OutSpec, AgentSpec
=============================================================================
