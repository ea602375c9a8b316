--------------------------- MODULE SessionProofs ---------------------------
(***************************************************************************)
(* Proofs about the read path, and about a whole connection: it keeps what *)
(* is proved of the read path and of the write path by themselves.  They   *)
(* hold for any number of frames, requests and sendAndClose handlers, any  *)
(* limits and any ranges of the numbers that are taken modulo a word.      *)
(***************************************************************************)
EXTENDS Session, OutboundProofs, FiniteSetTheorems

-----------------------------------------------------------------------------
(* The read path: the inductive invariant.                                 *)

\* The types, but for the bound of the counter, which follows from Exact.
ShapeOK ==
    /\ AgentTypeOK
    /\ rpc \in {"header", "body", "check", "limit", "ret", "exited"}
    /\ header \in Header
    /\ frames \in 0..MaxFrames
    /\ concurrent \in Int
    /\ hasSeq \in BOOLEAN
    /\ seq \in 0..(SeqWord - 1)
    /\ task \in [Request -> {"none", "echo", "cas", "add", "post", "sent",
                           "write", "end", "done"}]
    /\ stamp \in [Request -> 0..(SeqWord - 1)]
    /\ wraps \in Nat
    /\ kickedAt \in 0..MaxFrames

\* Where the reader is in the stream: it reads a body only for a frame it may
\* still count, and the frame it holds is one no goroutine has been given.
ReaderHolds ==
    /\ rpc = "body" => frames < MaxFrames /\ HookHeader(header)
    /\ rpc \in {"check", "limit"} => frames \in Frame /\ task[frames] = "none"
    /\ \A f \in Frame : f > frames => task[f] = "none"

\* The agent is disabled from kickedAt on, and the frame that is past the test
\* was read before.
KickKnown ==
    /\ ~disable => kickedAt = MaxFrames
    /\ rpc = "limit" => frames <= kickedAt
    /\ KickCutsOff

\* The requests that carry the number s.
Carriers(s) == {r \in Request : stamp[r] = s}

\* In the current round of the numbering the numbers up to seq are used, and
\* those above are not; every frame was numbered, because the first one that is
\* admitted sets the property.
Numbered ==
    /\ \A s \in 1..(SeqWord - 1) :
         Cardinality(Carriers(s)) <= wraps + (IF s <= seq THEN 1 ELSE 0)
    /\ \A f \in Frame : task[f] # "none" => hasSeq
    /\ \A f \in Frame : task[f] \in {"post", "sent", "write"} => stamp[f] # 0 \/ wraps > 0

-----------------------------------------------------------------------------
(* Facts about the operators.                                              *)

\* The constants are numbers.
LEMMA ConstantsNat ==
    /\ MaxFrames \in Nat /\ HeaderLen \in Nat /\ MaxSize \in Nat /\ MinSize \in Nat
    /\ MaxConcurrent \in Nat
    /\ SizeWord \in Nat \ {0} /\ SeqWord \in Nat \ {0}
BY InboundAssumption

\* Requests and frames are finitely many.
LEMMA RequestsFinite ==
    /\ IsFiniteSet(Request) /\ IsFiniteSet(Frame) /\ Frame \subseteq Request
    /\ Notice \in Request /\ Notice \notin Frame
<1>1. IsFiniteSet(0..MaxFrames) /\ IsFiniteSet(1..MaxFrames)
  BY ConstantsNat, FS_Interval
<1>2. QED
  BY <1>1, ConstantsNat DEF Request, Frame, Notice

\* The size of a body of an accepted frame: no wrap around.
LEMMA BodyFits ==
    ASSUME NEW h \in Header, HookHeader(h)
    PROVE  BodySize(h) = h.size - HeaderLen /\ BodySize(h) <= MaxSize - HeaderLen
<1> DEFINE n == h.size - HeaderLen
<1>1. /\ SizeWord \in Nat \ {0} /\ MaxSize \in Nat /\ HeaderLen \in Nat
      /\ n \in 0..(SizeWord - 1) /\ n <= MaxSize - HeaderLen
      /\ h.size + SizeWord - HeaderLen = n + SizeWord
  <2>1. h.size \in HeaderSize /\ MinSize <= h.size /\ h.size <= MaxSize
    BY DEF Header, HookHeader
  <2>2. h.size \in 0..(SizeWord - 1) /\ HeaderLen <= MinSize
    BY <2>1, InboundAssumption
  <2>3. QED
    BY <2>1, <2>2, ConstantsNat
<1> HIDE DEF n
<1>2. (n + SizeWord) % SizeWord = n
  BY <1>1
<1>3. QED
  BY <1>1, <1>2 DEF BodySize, n

\* The number after seq, in the width of the counter.
LEMMA NextSeq ==
    ASSUME NEW s \in 0..(SeqWord - 1)
    PROVE  /\ (s + 1) % SeqWord \in 0..(SeqWord - 1)
           /\ s + 1 < SeqWord => (s + 1) % SeqWord = s + 1
           /\ s + 1 = SeqWord => (s + 1) % SeqWord = 0
<1>1. SeqWord \in Nat \ {0} /\ s + 1 \in Nat
  BY InboundAssumption
<1>2. CASE s + 1 < SeqWord
  BY <1>1, <1>2
<1>3. CASE s + 1 = SeqWord
  BY <1>1, <1>3
<1>4. QED
  BY <1>1, <1>2, <1>3

\* A set that gains at most one request has at most one element more.
LEMMA OneMore ==
    ASSUME NEW S \in SUBSET Request, NEW T \in SUBSET Request, NEW r \in Request,
           T \subseteq S \cup {r}
    PROVE  Cardinality(T) <= Cardinality(S) + 1
           /\ Cardinality(S) \in Nat /\ Cardinality(T) \in Nat
<1>1. IsFiniteSet(S) /\ IsFiniteSet(T)
  BY RequestsFinite, FS_Subset
<1>2. IsFiniteSet(S \cup {r}) /\ Cardinality(S \cup {r}) <= Cardinality(S) + 1
      /\ Cardinality(S) \in Nat
  BY <1>1, FS_AddElement, FS_CardinalityType
<1>3. Cardinality(T) <= Cardinality(S \cup {r}) /\ Cardinality(T) \in Nat
      /\ Cardinality(S \cup {r}) \in Nat
  BY <1>1, <1>2, FS_Subset, FS_CardinalityType
<1>4. QED
  BY <1>2, <1>3

-----------------------------------------------------------------------------
(* Type correctness.                                                       *)

\* A step of the reader keeps the shape and what the reader holds.
LEMMA ReaderKeeps ==
    ASSUME ShapeOK, ReaderHolds, LoopRead
    PROVE  ShapeOK' /\ ReaderHolds'
<1> USE RequestsFinite, ConstantsNat DEF ShapeOK, ReaderHolds, AgentTypeOK, agentVars, seqVars
<1>1. CASE ReadHeader
  BY <1>1 DEF ReadHeader, HookHeader
<1>2. CASE ReadBody
  BY <1>2 DEF ReadBody, Frame
<1>3. CASE ReadFail
  BY <1>3 DEF ReadFail
<1>4. CASE CheckDisable
  BY <1>4 DEF CheckDisable
<1>5. CASE Refuse
  BY <1>5 DEF Refuse
<1>6. CASE Admit
  BY <1>6 DEF Admit
<1>7. CASE ReadReturn
  BY <1>7 DEF ReadReturn, Close
<1>8. QED
  BY <1>1, <1>2, <1>3, <1>4, <1>5, <1>6, <1>7 DEF LoopRead

\* A request that runs has been started, so the reader does not hold its frame.
LEMMA ForwardKeeps ==
    ASSUME ShapeOK, ReaderHolds, NEW r \in Request, Forward(r)
    PROVE  ShapeOK' /\ ReaderHolds'
<1> USE RequestsFinite, ConstantsNat
    DEF ShapeOK, ReaderHolds, AgentTypeOK, agentVars, readVars, seqVars
<1>1. CASE SeqSwap(r)
  BY <1>1, InboundAssumption DEF SeqSwap
<1>2. CASE SeqAdd(r)
  <2>1. seq' \in 0..(SeqWord - 1)
    BY <1>2, NextSeq DEF SeqAdd
  <2>2. QED
    BY <1>2, <2>1 DEF SeqAdd
<1>3. CASE Post(r)
  BY <1>3 DEF Post
<1>4. CASE Answer(r)
  BY <1>4 DEF Answer
<1>5. CASE Reply(r)
  BY <1>5 DEF Reply
<1>6. CASE r \in Frame /\ EndFrame(r)
  BY <1>6 DEF EndFrame
<1>7. CASE r = Notice /\ EndNotice
  BY <1>7 DEF EndNotice
<1>8. QED
  BY <1>1, <1>2, <1>3, <1>4, <1>5, <1>6, <1>7 DEF Forward

\* Every step keeps the shape and what the reader holds.
LEMMA ShapeKept ==
    ASSUME ShapeOK, ReaderHolds, [InNext]_allInVars
    PROVE  ShapeOK' /\ ReaderHolds'
<1> USE RequestsFinite, ConstantsNat
<1>1. CASE LoopRead
  BY <1>1, ReaderKeeps
<1>2. CASE \E r \in Request : Forward(r)
  BY <1>2, ForwardKeeps
<1>3. CASE InKick
  BY <1>3 DEF ShapeOK, ReaderHolds, AgentTypeOK, seqVars, InKick, Disable
<1>4. CASE InClose \/ InCleanup
  BY <1>4 DEF ShapeOK, ReaderHolds, AgentTypeOK, inVars, readVars, seqVars,
     InClose, Close, InCleanup, FinCleanup
<1>5. CASE InCheck
  <2>1. UNCHANGED <<rpc, header, frames, concurrent, seqVars>> /\ AgentTypeOK'
        /\ kickedAt' \in 0..MaxFrames
    BY <1>5 DEF InCheck, FinCheck, ShapeOK, AgentTypeOK
  <2>2. task' = task \/ task' = [task EXCEPT ![Notice] = "cas"]
    BY <1>5 DEF InCheck
  <2>3. QED
    BY <2>1, <2>2 DEF ShapeOK, ReaderHolds, seqVars
<1>6. CASE UNCHANGED allInVars
  BY <1>6 DEF ShapeOK, ReaderHolds, AgentTypeOK, allInVars
<1>7. QED
  BY <1>1, <1>2, <1>3, <1>4, <1>5, <1>6 DEF InNext

-----------------------------------------------------------------------------
(* The flow-control counter.                                               *)

\* The number of running frames when one is started and when one has ended.
LEMMA ActiveChanges ==
    ASSUME NEW f \in Frame
    PROVE  /\ Cardinality(Active) \in Nat
           /\ f \notin Active => Cardinality(Active \cup {f}) = Cardinality(Active) + 1
           /\ f \in Active => Cardinality(Active \ {f}) = Cardinality(Active) - 1
                             /\ Cardinality(Active) > 0
<1>1. IsFiniteSet(Active) /\ Active \subseteq Frame
  BY RequestsFinite, FS_Subset DEF Active
<1>2. Cardinality(Active) \in Nat /\ (f \in Active => Cardinality(Active) # 0)
  BY <1>1, FS_CardinalityType, FS_EmptySet
<1>3. f \notin Active => Cardinality(Active \cup {f}) = Cardinality(Active) + 1
  BY <1>1, FS_AddElement
<1>4. f \in Active => Cardinality(Active \ {f}) = Cardinality(Active) - 1
  BY <1>1, FS_RemoveElement
<1>5. QED
  BY <1>2, <1>3, <1>4

\* Every step keeps the counter equal to the number of running frames.
LEMMA ExactKept ==
    ASSUME ShapeOK, ReaderHolds, AdmissionExact, [InNext]_allInVars
    PROVE  AdmissionExact'
<1> USE RequestsFinite, ConstantsNat DEF AdmissionExact
<1>0. task \in [Request -> {"none", "echo", "cas", "add", "post", "sent", "write", "end", "done"}]
      /\ concurrent \in Int
  BY DEF ShapeOK
<1>1. CASE Admit
  <2>1. frames \in Frame /\ task[frames] = "none"
    BY <1>1 DEF Admit, ReaderHolds
  <2>2. Active' = Active \cup {frames} /\ frames \notin Active
    BY <1>0, <1>1, <2>1 DEF Admit, Active
  <2>3. Cardinality(Active') = Cardinality(Active) + 1
    BY <2>1, <2>2, ActiveChanges
  <2>4. QED
    BY <1>0, <1>1, <2>3 DEF Admit, Throttled
<1>2. ASSUME NEW f \in Frame, EndFrame(f)
      PROVE  AdmissionExact'
  <2>1. Active' = Active \ {f} /\ f \in Active
    BY <1>0, <1>2 DEF EndFrame, Active
  <2>2. Cardinality(Active') = Cardinality(Active) - 1
    BY <2>1, ActiveChanges
  <2>3. QED
    BY <1>0, <1>2, <2>2 DEF EndFrame
<1>3. ASSUME NEW r \in Request,
             SeqSwap(r) \/ SeqAdd(r) \/ Post(r) \/ Answer(r) \/ Reply(r)
                \/ (r = Notice /\ EndNotice)
      PROVE  AdmissionExact'
  \* A task that goes on was running and still is; the notice is no frame.
  <2>1. Active' = Active
    BY <1>0, <1>3 DEF Active, SeqSwap, SeqAdd, Post, Answer, Reply, EndNotice
  <2>2. UNCHANGED concurrent
    BY <1>3 DEF SeqSwap, SeqAdd, Post, Answer, Reply, EndNotice
  <2>3. QED
    BY <2>1, <2>2
<1>4. CASE ReadHeader \/ ReadBody \/ ReadFail \/ CheckDisable \/ Refuse \/ ReadReturn
  BY <1>4 DEF Active, ReadHeader, ReadBody, ReadFail, CheckDisable, Refuse, ReadReturn
<1>5. CASE InKick \/ InClose \/ InCleanup \/ InCheck
  <2>1. Active' = Active /\ UNCHANGED concurrent
    BY <1>0, <1>5 DEF Active, InKick, InClose, InCleanup, InCheck, inVars
  <2>2. QED
    BY <2>1
<1>6. CASE UNCHANGED allInVars
  BY <1>6 DEF Active, allInVars
<1> HIDE DEF AdmissionExact
<1>7. ASSUME NEW r \in Request, Forward(r)
      PROVE  AdmissionExact'
  <2>1. CASE r \in Frame /\ EndFrame(r)
    BY <1>2, <2>1
  <2>2. CASE SeqSwap(r) \/ SeqAdd(r) \/ Post(r) \/ Answer(r) \/ Reply(r)
               \/ (r = Notice /\ EndNotice)
    BY <1>3, <2>2
  <2>3. QED
    BY <1>7, <2>1, <2>2 DEF Forward
<1>8. QED
  BY <1>1, <1>4, <1>5, <1>6, <1>7 DEF InNext, LoopRead

-----------------------------------------------------------------------------
(* The kick.                                                               *)

\* Every step keeps what is known of the kick.
LEMMA KickKept ==
    ASSUME ShapeOK, ReaderHolds, KickKnown, [InNext]_allInVars
    PROVE  KickKnown'
<1> USE RequestsFinite, ConstantsNat DEF KickKnown, KickCutsOff
<1>0. /\ task \in [Request -> {"none", "echo", "cas", "add", "post", "sent", "write", "end", "done"}]
      /\ frames \in 0..MaxFrames /\ disable \in BOOLEAN /\ kickedAt \in 0..MaxFrames
  BY DEF ShapeOK, AgentTypeOK
<1>1. CASE LoopRead
  <2>1. CASE ReadHeader \/ ReadBody \/ ReadFail \/ CheckDisable \/ Refuse \/ ReadReturn
    BY <1>0, <2>1 DEF ReadHeader, ReadBody, ReadFail, CheckDisable, Refuse, ReadReturn,
                      Close, agentVars, seqVars
  <2>2. CASE Admit
    \* The frame was past the test, so it was read before the kick.
    BY <1>0, <2>2 DEF Admit, agentVars, seqVars
  <2>3. QED
    BY <1>1, <2>1, <2>2 DEF LoopRead
<1>2. ASSUME NEW r \in Request, Forward(r)
      PROVE  KickKnown'
  BY <1>0, <1>2 DEF Forward, SeqSwap, SeqAdd, Post, Answer, Reply, EndFrame, EndNotice,
                    agentVars, readVars, seqVars
<1>3. CASE InKick \/ InClose \/ InCleanup \/ InCheck
  BY <1>0, <1>3 DEF InKick, Disable, InClose, Close, InCleanup, FinCleanup, InCheck,
                    FinCheck, inVars, readVars, seqVars, ReaderHolds
<1>4. CASE UNCHANGED allInVars
  BY <1>4 DEF allInVars
<1>5. QED
  BY <1>1, <1>2, <1>3, <1>4 DEF InNext

-----------------------------------------------------------------------------
(* The numbering.                                                          *)

\* What a request does to the numbers: nothing, or it makes one step of
\* SeqSwap or SeqAdd.
LEMMA AddKeepsNumbered ==
    ASSUME ShapeOK, Numbered, NEW r \in Request, SeqAdd(r)
    PROVE  Numbered'
<1> USE RequestsFinite, ConstantsNat
<1>0. /\ task \in [Request -> {"none", "echo", "cas", "add", "post", "sent", "write", "end", "done"}]
      /\ stamp \in [Request -> 0..(SeqWord - 1)] /\ seq \in 0..(SeqWord - 1)
      /\ wraps \in Nat /\ hasSeq \in BOOLEAN
  BY DEF ShapeOK
<1>1. /\ seq' = (seq + 1) % SeqWord /\ seq' \in 0..(SeqWord - 1)
      /\ seq + 1 < SeqWord => seq' = seq + 1
      /\ seq + 1 = SeqWord => seq' = 0
  BY <1>0, NextSeq DEF SeqAdd
<1>2. stamp' = [stamp EXCEPT ![r] = seq'] /\ wraps' = IF seq' = 0 THEN wraps + 1 ELSE wraps
  BY DEF SeqAdd
<1>3. ASSUME NEW s \in 1..(SeqWord - 1)
      PROVE  Cardinality(Carriers(s)') <= wraps' + (IF s <= seq' THEN 1 ELSE 0)
  <2>1. /\ Carriers(s) \in SUBSET Request /\ Carriers(s)' \in SUBSET Request
        /\ s # seq' => Carriers(s)' \subseteq Carriers(s)
        /\ Carriers(s)' \subseteq Carriers(s) \cup {r}
    BY <1>0, <1>2 DEF Carriers
  <2>2. Cardinality(Carriers(s)) <= wraps + (IF s <= seq THEN 1 ELSE 0)
    BY DEF Numbered
  <2>3. /\ Cardinality(Carriers(s)) \in Nat /\ Cardinality(Carriers(s)') \in Nat
        /\ Cardinality(Carriers(s)') <= Cardinality(Carriers(s)) + 1
    BY <2>1, OneMore
  <2>4. CASE s = seq'
    \* The new number is above seq, so only earlier rounds have used it.
    BY <1>0, <1>1, <1>2, <2>2, <2>3, <2>4
  <2>5. CASE s # seq'
    <3>1. Cardinality(Carriers(s)') <= Cardinality(Carriers(s))
      BY <2>1, <2>5, FS_Subset
    <3>2. QED
      BY <1>0, <1>1, <1>2, <2>2, <2>3, <2>5, <3>1
  <2>6. QED
    BY <2>4, <2>5
<1>4. \A f \in Frame : task'[f] # "none" => hasSeq'
  BY <1>0 DEF SeqAdd, Numbered
<1>5. \A f \in Frame : task'[f] \in {"post", "sent", "write"} => stamp'[f] # 0 \/ wraps' > 0
  BY <1>0, <1>1, <1>2 DEF SeqAdd, Numbered
<1>6. QED
  BY <1>3, <1>4, <1>5 DEF Numbered

\* Starting over makes every number one that only earlier rounds have used.
LEMMA SwapKeepsNumbered ==
    ASSUME ShapeOK, Numbered, NEW r \in Request, SeqSwap(r)
    PROVE  Numbered'
<1> USE RequestsFinite, ConstantsNat
<1>0. /\ task \in [Request -> {"none", "echo", "cas", "add", "post", "sent", "write", "end", "done"}]
      /\ stamp \in [Request -> 0..(SeqWord - 1)] /\ seq \in 0..(SeqWord - 1)
      /\ wraps \in Nat /\ hasSeq \in BOOLEAN
  BY DEF ShapeOK
<1>1. ASSUME NEW s \in 1..(SeqWord - 1)
      PROVE  Cardinality(Carriers(s)') <= wraps' + (IF s <= seq' THEN 1 ELSE 0)
  <2>1. Carriers(s)' = Carriers(s) /\ Carriers(s) \in SUBSET Request
    BY DEF Carriers, SeqSwap
  <2>2. Cardinality(Carriers(s)) <= wraps + (IF s <= seq THEN 1 ELSE 0)
        /\ Cardinality(Carriers(s)) \in Nat
    BY <2>1, FS_Subset, FS_CardinalityType DEF Numbered
  <2>3. QED
    BY <1>0, <2>1, <2>2 DEF SeqSwap
<1>2. \A f \in Frame : task'[f] # "none" => hasSeq'
  BY <1>0 DEF SeqSwap, Numbered
<1>3. \A f \in Frame : task'[f] \in {"post", "sent", "write"} => stamp'[f] # 0 \/ wraps' > 0
  \* A frame that finds a number goes to Add first.
  BY <1>0 DEF SeqSwap, Numbered
<1>4. QED
  BY <1>1, <1>2, <1>3 DEF Numbered

\* Every step keeps the numbering.
LEMMA NumberedKept ==
    ASSUME ShapeOK, ReaderHolds, Numbered, [InNext]_allInVars
    PROVE  Numbered'
<1> USE RequestsFinite, ConstantsNat
<1>0. /\ task \in [Request -> {"none", "echo", "cas", "add", "post", "sent", "write", "end", "done"}]
      /\ hasSeq \in BOOLEAN
  BY DEF ShapeOK
<1>1. ASSUME NEW r \in Request, SeqSwap(r) \/ SeqAdd(r)
      PROVE  Numbered'
  BY <1>1, AddKeepsNumbered, SwapKeepsNumbered
<1>2. ASSUME NEW r \in Request,
             Post(r) \/ Answer(r) \/ Reply(r) \/ (r \in Frame /\ EndFrame(r))
               \/ (r = Notice /\ EndNotice)
      PROVE  Numbered'
  BY <1>0, <1>2 DEF Post, Answer, Reply, EndFrame, EndNotice, Numbered, Carriers, seqVars
<1>3. CASE LoopRead
  <2>1. CASE Admit
    BY <1>0, <2>1 DEF Admit, ReaderHolds, Numbered, Carriers
  <2>2. CASE ReadHeader \/ ReadBody \/ ReadFail \/ CheckDisable \/ Refuse \/ ReadReturn
    BY <2>2 DEF ReadHeader, ReadBody, ReadFail, CheckDisable, Refuse, ReadReturn,
                Numbered, Carriers, seqVars
  <2>3. QED
    BY <1>3, <2>1, <2>2 DEF LoopRead
<1>4. CASE InKick \/ InClose \/ InCleanup \/ InCheck
  BY <1>0, <1>4 DEF InKick, InClose, InCleanup, InCheck, inVars, seqVars, Numbered, Carriers
<1>5. CASE UNCHANGED allInVars
  BY <1>5 DEF allInVars, Numbered, Carriers
<1>6. QED
  BY <1>1, <1>2, <1>3, <1>4, <1>5 DEF InNext, Forward

-----------------------------------------------------------------------------
(* The inductive invariant and what follows from it.                       *)

InInv == ShapeOK /\ ReaderHolds /\ AdmissionExact /\ KickKnown /\ Numbered

\* It holds in the initial state.
LEMMA InvInit == InInit => InInv
<1> SUFFICES ASSUME InInit
             PROVE  InInv
  OBVIOUS
<1> USE RequestsFinite, ConstantsNat DEF InInit
<1>1. AgentTypeOK
  BY Zenon DEF AgentInit, AgentTypeOK
<1>2. header \in Header
  BY InboundAssumption DEF Header
<1>3. ShapeOK
  <2>1. task \in [Request -> {"none", "echo", "cas", "add", "post", "sent",
                             "write", "end", "done"}]
    OBVIOUS
  <2>2. stamp \in [Request -> 0..(SeqWord - 1)] /\ seq \in 0..(SeqWord - 1)
    OBVIOUS
  <2>3. frames \in 0..MaxFrames /\ kickedAt \in 0..MaxFrames /\ wraps \in Nat
        /\ concurrent \in Int
        /\ rpc \in {"header", "body", "check", "limit", "ret", "exited"}
    OBVIOUS
  <2>4. hasSeq \in BOOLEAN
    BY Zenon
  <2>5. QED
    BY <1>1, <1>2, <2>1, <2>2, <2>3, <2>4, Zenon DEF ShapeOK
<1>4. Active = {} /\ AdmissionExact
  BY FS_EmptySet DEF Active, AdmissionExact
<1>5. ReaderHolds /\ KickKnown
  BY DEF ReaderHolds, KickKnown, KickCutsOff, Frame, AgentInit
<1>6. ASSUME NEW s \in 1..(SeqWord - 1)
      PROVE  Cardinality(Carriers(s)) <= wraps + (IF s <= seq THEN 1 ELSE 0)
  <2>1. Carriers(s) = {}
    BY DEF Carriers
  <2>2. QED
    BY <2>1, FS_EmptySet
<1>7. Numbered
  BY <1>6 DEF Numbered
<1>8. QED
  BY <1>3, <1>4, <1>5, <1>7 DEF InInv

\* Every step keeps the inductive invariant.
LEMMA InvKept == InInv /\ [InNext]_allInVars => InInv'
BY ShapeKept, ExactKept, KickKept, NumberedKept DEF InInv

\* It holds in every state.
LEMMA InvHolds == InSpec => []InInv
BY InvInit, InvKept, PTL DEF InSpec

\* The invariant bounds the counter.
LEMMA InvTypes == InInv => InTypeOK
<1> SUFFICES ASSUME InInv
             PROVE  InTypeOK
  OBVIOUS
<1>1. Cardinality(Active) \in Nat
  BY RequestsFinite, FS_Subset, FS_CardinalityType DEF Active
<1>2. concurrent \in 0..(MaxConcurrent + 1)
  BY <1>1, ConstantsNat DEF InInv, AdmissionExact
<1>3. QED
  BY <1>2 DEF InInv, ShapeOK, InTypeOK

\* The variables of the read path always have their types; the counter is never
\* below 0 nor above MaxConcurrent + 1.
THEOREM InTypeCorrect == InSpec => []InTypeOK
BY InvTypes, InvHolds, PTL

\* plugins.go:59-66 and :104: the flow-control counter counts exactly the
\* goroutines that have not finished, so no way out of a request leaks a place
\* and a connection never has more than MaxConcurrent + 1 requests under way.
THEOREM AdmissionIsExact == InSpec => []AdmissionExact
<1>1. InInv => AdmissionExact
  BY DEF InInv
<1>2. QED
  BY <1>1, InvHolds, PTL

\* agent.go:212: no frame that is read after the agent was disabled is given to
\* the plugins, whenever Disable comes between the reader's steps.
THEOREM KickIsCutOff == InSpec => []KickCutsOff
<1>1. InInv => KickCutsOff
  BY DEF InInv, KickKnown
<1>2. QED
  BY <1>1, InvHolds, PTL

\* agent.go:195 and plugins.go:157-163: the body size never wraps around, and a
\* sequence number is used again only after the numbering started over, although
\* the swap and the addition are two steps and any number of requests take them.
THEOREM NumbersAreSafe == InSpec => []NumbersSafe
<1>1. InInv => NumbersSafe
  <2> SUFFICES ASSUME InInv
               PROVE  NumbersSafe
    OBVIOUS
  <2>1. BodyBounded
    BY BodyFits DEF InInv, ReaderHolds, ShapeOK, BodyBounded
  <2>2. ASSUME NEW s \in 1..(SeqWord - 1)
        PROVE  Cardinality({r \in Request : stamp[r] = s}) <= wraps + 1
    <3>1. Cardinality(Carriers(s)) <= wraps + (IF s <= seq THEN 1 ELSE 0)
      BY DEF InInv, Numbered
    <3>2. Cardinality(Carriers(s)) \in Nat /\ wraps \in Nat
      BY RequestsFinite, FS_Subset, FS_CardinalityType DEF Carriers, InInv, ShapeOK
    <3>3. QED
      BY <3>1, <3>2 DEF Carriers
  <2>3. QED
    BY <2>1, <2>2 DEF InInv, Numbered, SeqDistinct, NumbersSafe
<1>2. QED
  BY <1>1, InvHolds, PTL

-----------------------------------------------------------------------------
(* The read path is an intake, and its agent one agent.                    *)

Finished == {f \in Frame : task[f] = "done"}

\* A step of a request that changes no frame's place.
LEMMA GateStays ==
    ASSUME UNCHANGED <<frames, kickedAt>>, Active' = Active, Finished' = Finished
    PROVE  UNCHANGED Gate!vars
BY DEF Gate!vars, Finished

\* The intake counts as the read path does.
LEMMA SameCount == Gate!Cardinality(Active) = Cardinality(Active)
BY DEF Gate!Cardinality, Cardinality

\* RateLimitMiddle lets in the frame that was read last.
LEMMA AdmitStarts ==
    ASSUME InInv, Admit
    PROVE  [Gate!Next]_(Gate!vars)
<1> USE DEF InInv
<1>1. frames \in Frame /\ task[frames] = "none" /\ frames <= kickedAt
  BY DEF Admit, ReaderHolds, KickKnown
<1>2. task' = [task EXCEPT ![frames] = "echo"] \/ task' = [task EXCEPT ![frames] = "cas"]
  BY DEF Admit
<1>3. Active' = Active \cup {frames} /\ Finished' = Finished
  BY <1>1, <1>2, RequestsFinite DEF Active, Finished, ShapeOK
<1>4. frames \notin Active \cup Finished
  BY <1>1 DEF Active, Finished
<1>5. Cardinality(Active) < MaxConcurrent + 1
  BY ConstantsNat DEF Admit, Throttled, AdmissionExact, ShapeOK
<1>6. frames \in 1..kickedAt
  BY <1>1, ConstantsNat DEF Frame, ShapeOK
<1>7. UNCHANGED <<frames, kickedAt>>
  BY DEF Admit
<1> HIDE DEF InInv
<1>8. Gate!Start
  BY <1>3, <1>4, <1>5, <1>6, <1>7, SameCount DEF Gate!Start, Finished
<1>9. QED
  BY <1>8 DEF Gate!Next

\* RateLimitEndMiddle ends a frame.
LEMMA EndFinishes ==
    ASSUME InInv, NEW f \in Frame, EndFrame(f)
    PROVE  [Gate!Next]_(Gate!vars)
<1>1. task[f] = "end" /\ task' = [task EXCEPT ![f] = "done"] /\ UNCHANGED <<frames, kickedAt>>
  BY DEF EndFrame, readVars
<1>2. f \in Active /\ Active' = Active \ {f} /\ Finished' = Finished \cup {f}
  BY <1>1, RequestsFinite DEF Active, Finished, InInv, ShapeOK
<1>3. Gate!Finish(f)
  BY <1>1, <1>2 DEF Gate!Finish, Finished
<1>4. QED
  BY <1>3 DEF Gate!Next, Frame

\* Every other step of a request keeps the place of every frame.
LEMMA RequestGoesOn ==
    ASSUME InInv, NEW r \in Request,
           SeqSwap(r) \/ SeqAdd(r) \/ Post(r) \/ Answer(r) \/ Reply(r) \/ (r = Notice /\ EndNotice)
    PROVE  UNCHANGED Gate!vars
<1>0. task \in [Request -> {"none", "echo", "cas", "add", "post", "sent", "write", "end", "done"}]
  BY DEF InInv, ShapeOK
<1>1. Active' = Active /\ Finished' = Finished
  BY <1>0, RequestsFinite
  DEF Active, Finished, SeqSwap, SeqAdd, Post, Answer, Reply, EndNotice
<1>2. UNCHANGED <<frames, kickedAt>>
  BY DEF SeqSwap, SeqAdd, Post, Answer, Reply, EndNotice, readVars
<1>3. QED
  BY <1>1, <1>2, GateStays

\* Whoever disables the agent first cuts the intake off.
LEMMA DisableCutsOff ==
    ASSUME InInv, InKick \/ InCheck
    PROVE  [Gate!Next]_(Gate!vars)
<1>1. UNCHANGED frames /\ Active' = Active /\ Finished' = Finished
  BY RequestsFinite DEF Active, Finished, InInv, ShapeOK, InKick, InCheck
<1>2. kickedAt' = kickedAt \/ (~disable /\ kickedAt' = frames)
  BY DEF InKick, InCheck
<1>3. CASE kickedAt' = kickedAt
  BY <1>1, <1>3, GateStays
<1>4. CASE ~disable /\ kickedAt' = frames
  <2>1. frames <= kickedAt
    BY <1>4, ConstantsNat DEF InInv, ShapeOK, KickKnown
  <2>2. Gate!CutOff
    BY <1>1, <1>4, <2>1 DEF Gate!CutOff, Finished
  <2>3. QED
    BY <2>2 DEF Gate!Next
<1>5. QED
  BY <1>2, <1>3, <1>4

\* Every step of the read path is a step of the intake, or none.
LEMMA StepTakesIn ==
    ASSUME InInv, [InNext]_allInVars
    PROVE  [Gate!Next]_(Gate!vars)
<1>1. CASE ReadBody
  <2>1. frames < MaxFrames /\ frames' = frames + 1 /\ UNCHANGED <<task, kickedAt>>
    BY <1>1 DEF ReadBody, InInv, ReaderHolds
  <2>2. Gate!Read
    BY <2>1 DEF Gate!Read, Active
  <2>3. QED
    BY <2>2 DEF Gate!Next
<1>2. CASE ReadHeader \/ ReadFail \/ CheckDisable \/ Refuse \/ ReadReturn
  <2>1. UNCHANGED <<frames, task, kickedAt>>
    BY <1>2 DEF ReadHeader, ReadFail, CheckDisable, Refuse, ReadReturn
  <2>2. QED
    BY <2>1 DEF Gate!vars, Active
<1>3. ASSUME NEW r \in Request, Forward(r)
      PROVE  [Gate!Next]_(Gate!vars)
  BY <1>3, EndFinishes, RequestGoesOn DEF Forward
<1>4. CASE InClose \/ InCleanup \/ UNCHANGED allInVars
  <2>1. UNCHANGED <<frames, task, kickedAt>>
    BY <1>4 DEF InClose, InCleanup, inVars, readVars, allInVars
  <2>2. QED
    BY <2>1 DEF Gate!vars, Active
<1>5. QED
  BY <1>1, <1>2, <1>3, <1>4, AdmitStarts, DisableCutsOff DEF InNext, LoopRead

\* The frames of a client are let in in order, once each and within the flow
\* control, and none that was read after Disable, for any number of frames and
\* requests and every order of reader, requests, kicks and finalizer.
THEOREM InboundIsIntake == InSpec => IntakeSafety
<1>1. InInit => Gate!Init
  <2> SUFFICES ASSUME InInit
               PROVE  Gate!Init
    OBVIOUS
  <2>1. Active = {} /\ Finished = {}
    BY RequestsFinite DEF InInit, Active, Finished
  <2>2. QED
    BY <2>1 DEF InInit, Gate!Init, Finished
<1>2. InInv /\ [InNext]_allInVars => [Gate!Next]_(Gate!vars)
  BY StepTakesIn
<1>3. QED
  BY <1>1, <1>2, InvHolds, PTL DEF InSpec, IntakeSafety, Gate!Spec

\* The notice that the client has gone is under way exactly while the finalizer,
\* which posts it itself, has not come back from ForwadHttp.
NoticeKnown ==
    /\ fpc = "notify" <=> task[Notice] \notin {"none", "done"}
    /\ fpc \in {"wait", "check"} => task[Notice] = "none"

\* Every step keeps that.
LEMMA NoticeKept ==
    ASSUME ShapeOK, ReaderHolds, NoticeKnown, [InNext]_allInVars
    PROVE  NoticeKnown'
<1> USE RequestsFinite DEF NoticeKnown
<1>0. task \in [Request -> {"none", "echo", "cas", "add", "post", "sent", "write", "end", "done"}]
      /\ fpc \in {"wait", "check", "notify", "done"}
  BY DEF ShapeOK, AgentTypeOK
<1>1. CASE ReadHeader \/ ReadBody \/ ReadFail \/ CheckDisable \/ Refuse \/ ReadReturn
  BY <1>1 DEF ReadHeader, ReadBody, ReadFail, CheckDisable, Refuse, ReadReturn, Close, agentVars
<1>2. CASE Admit
  <2>1. frames # Notice
    BY <1>2 DEF Admit, ReaderHolds
  <2>2. QED
    BY <1>0, <1>2, <2>1 DEF Admit, agentVars
<1>3. ASSUME NEW r \in Request,
             SeqSwap(r) \/ SeqAdd(r) \/ Post(r) \/ Answer(r) \/ Reply(r)
      PROVE  NoticeKnown'
  BY <1>0, <1>3 DEF SeqSwap, SeqAdd, Post, Answer, Reply, agentVars
<1>4. ASSUME NEW f \in Frame, EndFrame(f)
      PROVE  NoticeKnown'
  BY <1>0, <1>4 DEF EndFrame, agentVars
<1>5. CASE EndNotice
  BY <1>0, <1>5 DEF EndNotice
<1>6. CASE InKick \/ InClose \/ InCleanup
  BY <1>0, <1>6 DEF InKick, Disable, InClose, Close, InCleanup, FinCleanup, inVars
<1>7. CASE InCheck
  BY <1>0, <1>7 DEF InCheck, FinCheck
<1>8. CASE UNCHANGED allInVars
  BY <1>8 DEF allInVars
<1>9. QED
  BY <1>1, <1>2, <1>3, <1>4, <1>5, <1>6, <1>7, <1>8 DEF InNext, LoopRead, Forward

\* What the read path does to its agent is a step of one agent's life, or none.
LEMMA StepOfAgent ==
    ASSUME NoticeKnown, [InNext]_allInVars
    PROVE  [AgentNext]_agentVars
<1> USE DEF AgentNext
<1>1. CASE ReadHeader \/ ReadBody \/ ReadFail \/ CheckDisable \/ Refuse \/ Admit
  BY <1>1 DEF ReadHeader, ReadBody, ReadFail, CheckDisable, Refuse, Admit
<1>2. CASE ReadReturn \/ InKick \/ InClose \/ InCleanup \/ InCheck
  BY <1>2 DEF ReadReturn, InKick, InClose, InCleanup, InCheck
<1>3. ASSUME NEW r \in Request, Forward(r)
      PROVE  [AgentNext]_agentVars
  <2>1. CASE r = Notice /\ EndNotice
    BY <2>1 DEF EndNotice, FinNotify, NoticeKnown
  <2>2. QED
    BY <1>3, <2>1 DEF Forward, SeqSwap, SeqAdd, Post, Answer, Reply, EndFrame
<1>4. CASE UNCHANGED allInVars
  BY <1>4 DEF allInVars, agentVars
<1>5. QED
  BY <1>1, <1>2, <1>3, <1>4 DEF InNext, LoopRead

\* The agent of the read path lives the life that Gateway drives it through: its
\* connection is closed after the cancellation, once, and the notice goes out
\* after that, once, unless somebody disabled the agent before.
THEOREM InboundIsAgent == InSpec => AgentSpec
<1>1. InInit => AgentInit /\ NoticeKnown
  BY RequestsFinite DEF InInit, AgentInit, NoticeKnown
<1>2. InInv /\ NoticeKnown /\ [InNext]_allInVars => NoticeKnown'
  BY NoticeKept DEF InInv
<1>3. NoticeKnown /\ [InNext]_allInVars => [AgentNext]_agentVars
  BY StepOfAgent
<1>4. QED
  BY <1>1, <1>2, <1>3, InvHolds, PTL DEF InSpec, AgentSpec

-----------------------------------------------------------------------------
(* The whole connection: the inductive invariant.                          *)

\* How far a sendAndClose is, and what that says of its call of Agent.Write.
KickerKnown ==
    /\ kpc \in [Kicker -> {"none", "write", "disable", "sleep", "done"}]
    /\ cut \subseteq Kicker
    /\ \A k \in Kicker : kpc[k] \in {"sleep", "done"} => Returned(k)
    /\ \A k \in cut : kpc[k] = "done"

\* The message of every kick that cut the connection is on the wire, by its own
\* call or, if that call was held up, perhaps not.
LastWordSent == \A k \in cut : cpc[k] # "late" => Sent(k)

\* The inductive invariant.
SessInv == InInv /\ OutInv /\ KickerKnown /\ LastWordSent

-----------------------------------------------------------------------------
(* A step of the connection, seen from each of its halves.                 *)

\* A step of the write path changes nothing of the agent but that it may cancel
\* the context.
LEMMA WriterAndAgent ==
    ASSUME OutTypeOK, LoopWrite
    PROVE  UNCHANGED agentVars \/ (~ctxDone /\ Close)
BY DEF LoopWrite, LoopRecv, LoopPop, LoopFlush, LoopFlushFail, LoopDone, LoopReturn,
       Close, agentVars, OutTypeOK, AgentTypeOK

\* Agent.Write changes nothing of the agent.
LEMMA WriteLeavesAgent ==
    ASSUME NEW c \in Caller, Write(c)
    PROVE  UNCHANGED agentVars
BY DEF Write, WriteCheck, WriteAppend, WriteNotify, WriteBlock, WriteTimeout, WriteLate

\* The read path sees steps of its own, or a cancellation, or nothing.
LEMMA SeenByReader ==
    ASSUME OutTypeOK, [SessNext]_allVars
    PROVE  [InNext]_allInVars
<1> USE DEF allInVars, agentVars, readVars, seqVars
<1>1. CASE Reader
  BY <1>1 DEF Reader, InNext
<1>2. CASE Writer
  <2>1. UNCHANGED agentVars \/ (~ctxDone /\ Close)
    BY <1>2, WriterAndAgent DEF Writer
  <2>2. QED
    BY <1>2, <2>1 DEF Writer, InNext, InClose, inVars
<1>3. ASSUME NEW r \in Request, Requests(r)
      PROVE  [InNext]_allInVars
  <2>1. CASE Write(r) /\ UNCHANGED inVars
    BY <2>1, WriteLeavesAgent, SessionAssumption DEF inVars
  <2>2. CASE Forward(r)
    BY <2>2 DEF InNext
  <2>3. QED
    BY <1>3, <2>1, <2>2 DEF Requests
<1>4. ASSUME NEW k \in Kicker,
             KickBegin(k) \/ KickWrite(k) \/ KickDisable(k) \/ KickClose(k)
      PROVE  [InNext]_allInVars
  <2>1. CASE KickBegin(k)
    BY <2>1 DEF KickBegin, inVars
  <2>2. CASE KickWrite(k)
    BY <2>2, WriteLeavesAgent, SessionAssumption DEF KickWrite, inVars
  <2>3. CASE KickDisable(k)
    BY <2>3 DEF KickDisable, InNext, inVars
  <2>4. CASE KickClose(k)
    BY <2>4 DEF KickClose, Close, InNext, InClose, inVars, OutTypeOK, AgentTypeOK
  <2>5. QED
    BY <1>4, <2>1, <2>2, <2>3, <2>4
<1>5. CASE Finalizer
  BY <1>5 DEF Finalizer, InNext
<1>6. CASE UNCHANGED allVars
  BY <1>6 DEF allVars
<1>7. QED
  BY <1>1, <1>2, <1>3, <1>4, <1>5, <1>6 DEF SessNext

\* The reader and the requests change nothing of the agent that the write path
\* looks at, but that the reader may cancel the context.
LEMMA ReaderAndContext ==
    ASSUME LoopRead \/ \E r \in Request : Forward(r)
    PROVE  UNCHANGED ctxDone \/ ctxDone'
BY DEF LoopRead, ReadHeader, ReadBody, ReadFail, CheckDisable, Refuse, Admit, ReadReturn,
       Forward, SeqSwap, SeqAdd, Post, Answer, Reply, EndFrame, EndNotice, Close, agentVars

\* The write path sees steps of its own, or none at all while the agent around it
\* may be cancelled, disabled or finalized.
LEMMA SeenByWriter ==
    ASSUME [SessNext]_allVars
    PROVE  [OutNext]_allOutVars \/ (UNCHANGED outVars /\ (UNCHANGED ctxDone \/ ctxDone'))
<1> USE DEF allOutVars, agentVars, outVars
<1>1. CASE Reader
  BY <1>1, ReaderAndContext DEF Reader
<1>2. CASE Writer
  BY <1>2 DEF Writer, OutNext
<1>3. ASSUME NEW r \in Request, Requests(r)
      PROVE  [OutNext]_allOutVars \/ (UNCHANGED outVars /\ (UNCHANGED ctxDone \/ ctxDone'))
  <2>1. CASE Write(r)
    BY <2>1, SessionAssumption DEF OutNext
  <2>2. CASE Forward(r) /\ UNCHANGED outVars
    BY <2>2, ReaderAndContext
  <2>3. QED
    BY <1>3, <2>1, <2>2 DEF Requests
<1>4. ASSUME NEW k \in Kicker,
             KickBegin(k) \/ KickWrite(k) \/ KickDisable(k) \/ KickClose(k)
      PROVE  [OutNext]_allOutVars \/ (UNCHANGED outVars /\ (UNCHANGED ctxDone \/ ctxDone'))
  <2>1. CASE KickWrite(k)
    BY <2>1, SessionAssumption DEF KickWrite, OutNext
  <2>2. CASE KickBegin(k) \/ KickDisable(k) \/ KickClose(k)
    BY <2>2 DEF KickBegin, KickDisable, KickClose, InKick, Disable, Close
  <2>3. QED
    BY <1>4, <2>1, <2>2
<1>5. CASE Finalizer
  BY <1>5 DEF Finalizer, InCleanup, FinCleanup, InCheck, FinCheck
<1>6. CASE UNCHANGED allVars
  BY <1>6 DEF allVars, allInVars
<1>7. QED
  BY <1>1, <1>2, <1>3, <1>4, <1>5, <1>6 DEF SessNext

\* The write path keeps its invariant whatever happens to the agent around it.
LEMMA AroundWriter ==
    ASSUME OutInv, AgentTypeOK', UNCHANGED outVars, UNCHANGED ctxDone \/ ctxDone'
    PROVE  OutInv'
<1> USE DEF outVars
<1>1. OutTypeOK'
  BY DEF OutInv, OutTypeOK
<1>2. LoopEnded'
  BY DEF OutInv, LoopEnded
<1>3. BatchHeld' /\ LoggedOnce' /\ WakeupPending'
  BY DEF OutInv, BatchHeld, LoggedOnce, WakeupPending
<1>4. NoneLost'
  BY DEF OutInv, NoneLost, Buffered, Popped, Sent
<1>5. QED
  BY <1>1, <1>2, <1>3, <1>4 DEF OutInv

\* Both halves keep their invariants.
LEMMA HalvesKept ==
    ASSUME InInv, OutInv, [SessNext]_allVars
    PROVE  InInv' /\ OutInv'
<1>1. InInv'
  BY SeenByReader, InvKept DEF OutInv
<1>2. CASE [OutNext]_allOutVars
  BY <1>1, <1>2, OutInvKept
<1>3. CASE UNCHANGED outVars /\ (UNCHANGED ctxDone \/ ctxDone')
  <2>1. AgentTypeOK'
    BY <1>1 DEF InInv, ShapeOK
  <2>2. QED
    BY <1>1, <1>3, <2>1, AroundWriter
<1>4. QED
  BY <1>2, <1>3, SeenByWriter

-----------------------------------------------------------------------------
(* The last word.                                                          *)

\* A frame that is on the wire stays there.
LEMMA SentStays ==
    ASSUME OutTypeOK, LoopWrite, NEW c \in Caller, Sent(c)
    PROVE  Sent(c)'
<1>1. ASSUME NEW t \in Seq(Caller), wire' = wire \o t
      PROVE  Sent(c)'
  <2>1. PICK i \in 1..Len(wire) : wire[i] = c
    BY DEF Sent
  <2>2. i \in 1..Len(wire') /\ wire'[i] = wire[i]
    BY <1>1, FrameTypes, ConcatProperties, LenProperties
  <2>3. QED
    BY <2>1, <2>2 DEF Sent
<1>2. CASE LoopFlush
  BY <1>1, <1>2, FrameTypes DEF LoopFlush
<1>3. CASE LoopFlushFail
  <2>1. PICK n \in 0..(Len(batch) - 1) : wire' = wire \o SubSeq(batch, 1, n)
    BY <1>3 DEF LoopFlushFail
  <2>2. n \in 0..Len(batch) /\ batch \in Seq(Caller)
    BY FrameTypes
  <2>3. SubSeq(batch, 1, n) \in Seq(Caller)
    BY <2>2, SplitSeq
  <2>4. QED
    BY <1>1, <2>1, <2>3
<1>4. CASE LoopRecv \/ LoopPop \/ LoopDone \/ LoopReturn
  BY <1>4 DEF LoopRecv, LoopPop, LoopDone, LoopReturn, Sent
<1>5. QED
  BY <1>2, <1>3, <1>4 DEF LoopWrite

\* A call of Agent.Write that has returned stays as it is.
LEMMA ReturnedStays ==
    ASSUME OutTypeOK, [SessNext]_allVars, NEW c \in Caller, Returned(c)
    PROVE  cpc'[c] = cpc[c]
<1>1. CASE UNCHANGED outVars
  BY <1>1 DEF outVars
<1>2. ASSUME NEW d \in Caller, Write(d)
      PROVE  cpc'[c] = cpc[c]
  BY <1>2, FrameTypes DEF Write, WriteCheck, WriteAppend, WriteNotify, WriteBlock,
     WriteTimeout, WriteLate, Returned
<1>3. CASE LoopWrite
  BY <1>3, FrameTypes DEF LoopWrite, LoopRecv, LoopPop, LoopFlush, LoopFlushFail,
     LoopDone, LoopReturn, Parked, Returned
<1>4. QED
  BY <1>1, <1>2, <1>3, SeenByWriter DEF OutNext, OutClose, OutFinalize, allOutVars, outVars

\* When loopWrite rests, the message of a call that has returned and was not held
\* up is on the wire: nothing is in its hands, and the buffer would have waked it.
LEMMA RestMeansSent ==
    ASSUME OutInv, NEW c \in Caller, Returned(c), cpc[c] # "late",
           Rested, wpc # "flush", ~ctxDone
    PROVE  Sent(c)
<1>1. wpc = "select" /\ wd = 0
  BY DEF OutInv, LoopEnded, Rested
<1>2. cpc[c] = "done"
  BY <1>1 DEF Returned, OutInv, LoopEnded
<1>3. ~Popped(c)
  BY <1>1, EmptySeq DEF OutInv, BatchHeld, Popped
<1>4. ~Buffered(c)
  BY <1>1, <1>2 DEF OutInv, WakeupPending, Buffered
<1>5. QED
  BY <1>2, <1>3, <1>4 DEF OutInv, NoneLost, Appended

\* Every step but the end of a kick leaves the kicks that cut the connection, and
\* what they wrote, alone.
LEMMA LastWordKept ==
    ASSUME OutInv, KickerKnown, LastWordSent, [SessNext]_allVars, UNCHANGED cut
    PROVE  LastWordSent'
<1> SUFFICES ASSUME NEW k \in cut, cpc'[k] # "late"
             PROVE  Sent(k)'
  BY DEF LastWordSent
<1>1. k \in Caller /\ Returned(k)
  BY SessionAssumption DEF KickerKnown
<1>2. cpc'[k] = cpc[k]
  BY <1>1, ReturnedStays DEF OutInv
<1>3. Sent(k)
  BY <1>2 DEF LastWordSent
<1>4. CASE LoopWrite
  BY <1>1, <1>3, <1>4, SentStays DEF OutInv
<1>5. CASE UNCHANGED wire
  BY <1>3, <1>5 DEF Sent
<1>6. LoopWrite \/ UNCHANGED wire
  BY SeenByWriter DEF OutNext, OutClose, OutFinalize, Write, WriteCheck, WriteAppend,
     WriteNotify, WriteBlock, WriteTimeout, WriteLate, allOutVars, outVars
<1>7. QED
  BY <1>4, <1>5, <1>6

\* Every step keeps what is known of the kicks.
LEMMA KickerKept ==
    ASSUME OutInv, KickerKnown, LastWordSent, [SessNext]_allVars
    PROVE  KickerKnown' /\ LastWordSent'
<1>0. \A k \in Kicker : k \in Caller /\ (Returned(k) => Returned(k)')
  <2> TAKE k \in Kicker
  <2>1. k \in Caller
    BY SessionAssumption
  <2>2. QED
    BY <2>1, ReturnedStays DEF OutInv, Returned
<1>1. CASE UNCHANGED sessVars
  <2>1. KickerKnown'
    BY <1>0, <1>1 DEF KickerKnown, sessVars
  <2>2. QED
    BY <1>1, <2>1, LastWordKept DEF sessVars
<1>2. ASSUME NEW k \in Kicker, KickBegin(k) \/ KickDisable(k)
      PROVE  KickerKnown' /\ LastWordSent'
  <2>1. UNCHANGED cut
    BY <1>2 DEF KickBegin, KickDisable
  <2>2. KickerKnown'
    BY <1>0, <1>2, <2>1 DEF KickBegin, KickDisable, KickerKnown
  <2>3. QED
    BY <2>1, <2>2, LastWordKept
<1>3. ASSUME NEW k \in Kicker, KickClose(k)
      PROVE  KickerKnown' /\ LastWordSent'
  <2>1. KickerKnown'
    BY <1>0, <1>3 DEF KickClose, KickerKnown
  <2>2. CASE UNCHANGED cut
    BY <2>1, <2>2, LastWordKept
  <2>3. CASE cut' = {k} /\ ~ctxDone /\ wpc # "flush"
    <3>1. Returned(k) /\ k \in Caller
      BY <1>0, <1>3 DEF KickClose, KickerKnown
    <3>2. cpc[k] # "late" => Sent(k)
      BY <1>3, <2>3, <3>1, RestMeansSent DEF KickClose
    <3>3. UNCHANGED <<cpc, wire>>
      BY <1>3 DEF KickClose, outVars
    <3>4. LastWordSent'
      BY <2>3, <3>2, <3>3 DEF LastWordSent, Sent
    <3>5. QED
      BY <2>1, <3>4
  <2>4. QED
    BY <1>3, <2>2, <2>3 DEF KickClose
<1>4. QED
  BY <1>1, <1>2, <1>3
  DEF SessNext, Reader, Writer, Requests, KickWrite, Finalizer, allVars, sessVars

-----------------------------------------------------------------------------
(* The theorems.                                                           *)

\* The inductive invariant holds in every state.
LEMMA SessInvHolds == SessSpec => []SessInv
<1>1. SessInit => SessInv
  <2> SUFFICES ASSUME SessInit
               PROVE  SessInv
    OBVIOUS
  <2>1. InInv
    BY InvInit DEF SessInit
  <2>2. OutInv
    BY InitTypes, InitInv DEF SessInit, OutInv
  <2>3. KickerKnown /\ LastWordSent
    BY DEF SessInit, KickerKnown, LastWordSent
  <2>4. QED
    BY <2>1, <2>2, <2>3 DEF SessInv
<1>2. SessInv /\ [SessNext]_allVars => SessInv'
  BY HalvesKept, KickerKept DEF SessInv
<1>3. QED
  BY <1>1, <1>2, PTL DEF SessSpec

\* Both halves of the connection keep their types together, and a sendAndClose
\* whose own call of Agent.Write was not held up has its message on the wire
\* before its kick cuts a client that reads.
THEOREM SessionIsSafe == SessSpec => []SessSafe
<1>1. SessInv => SessSafe
  <2> SUFFICES ASSUME SessInv
               PROVE  SessSafe
    OBVIOUS
  <2>1. SessTypeOK
    BY InvTypes DEF SessInv, OutInv, KickerKnown, SessTypeOK
  <2>2. wire \in Seq(Caller) /\ DOMAIN wire = 1..Len(wire)
    BY LenProperties DEF SessInv, OutInv, OutTypeOK
  <2>3. LastWordOut
    BY <2>2 DEF SessInv, LastWordSent, Sent, LastWordOut
  <2>4. QED
    BY <2>1, <2>3 DEF SessSafe
<1>2. QED
  BY <1>1, SessInvHolds, PTL

\* The whole connection implements the read path: what is proved of Inbound by
\* itself holds of it with the write path and the kicks of Session around it.
THEOREM SessionIsInbound == SessSpec => InSpec
<1>1. SessInit => InInit
  BY DEF SessInit
<1>2. SessInv /\ [SessNext]_allVars => [InNext]_allInVars
  BY SeenByReader DEF SessInv, OutInv
<1>3. QED
  BY <1>1, <1>2, SessInvHolds, PTL DEF SessSpec, InSpec

\* The frames of requests and kicks reach the client in the order in which they
\* were written, each once, none skipped, whatever reader, finalizer and kicks do.
THEOREM SessionIsStream == SessSpec => StreamSafety
<1>1. SessInit => Promise!Init
  BY EmptySeq, ConcatEmptySeq DEF SessInit, OutInit, Promise!Init
<1>2. SessInv /\ [SessNext]_allVars => [Promise!Next]_(Promise!vars)
  <2> SUFFICES ASSUME SessInv, [SessNext]_allVars
               PROVE  [Promise!Next]_(Promise!vars)
    OBVIOUS
  <2>1. CASE [OutNext]_allOutVars
    BY <2>1, StepRefines DEF SessInv, OutInv
  <2>2. CASE UNCHANGED outVars
    BY <2>2 DEF outVars, Promise!vars
  <2>3. QED
    BY <2>1, <2>2, SeenByWriter
<1>3. QED
  BY <1>1, <1>2, SessInvHolds, PTL DEF SessSpec, StreamSafety, Promise!Spec

\* No frame that a request or a kick appended is lost inside the gateway, and the
\* flow control, the cut-off of a kick and the numbering hold in the whole
\* connection.
THEOREM SessionKeepsHalves ==
    SessSpec => [](OutInv /\ AdmissionExact /\ KickCutsOff /\ NumbersSafe)
<1>1. SessSpec => []OutInv
  BY SessInvHolds, PTL DEF SessInv
<1>2. QED
  BY <1>1, SessionIsInbound, AdmissionIsExact, KickIsCutOff, NumbersAreSafe, PTL

\* A whole connection, with its writers and its kicks, is such an intake, and its
\* agent lives the same life: what Gateway says of each of its agents and what
\* Session says of one are about the same agent.
THEOREM SessionIsIntakeAndAgent == SessSpec => IntakeSafety /\ AgentSpec
BY SessionIsInbound, InboundIsIntake, InboundIsAgent, PTL
=============================================================================
