----------------------------- MODULE CodecProofs ----------------------------
(***************************************************************************)
(* Proofs about the message codec: the encoder's walk over a message, for  *)
(* any nodes and links, any threshold and any depth of the stack, and the  *)
(* leaves of a message, for bytes of any size.                             *)
(***************************************************************************)
EXTENDS Walk, Wire, DataLemmas, SequenceTheorems

\* The frames lead from the root along links, each over the last one that its
\* frame has come to.
OnPath ==
    /\ stack # <<>> => stack[1].node = root
    /\ \A i \in 1..Len(stack) : stack[i].at \in 1..(Len(links[stack[i].node]) + 1)
    /\ \A i \in 1..(Len(stack) - 1) :
         stack[i].at > 1 /\ links[stack[i].node][stack[i].at - 1].to = stack[i + 1].node

\* The recorded pointers are those of different frames, and no others.
SeenIsStack ==
    /\ ptrSeen = {stack[i].node : i \in {j \in 1..Len(stack) : stack[j].recorded}}
    /\ \A i, j \in 1..Len(stack) :
         (i # j /\ stack[i].recorded /\ stack[j].recorded) => stack[i].node # stack[j].node

PtrFrames(s) == {i \in 1..Len(s) : s[i].kind = "ptr"}

\* ptrLevel counts the frames of pointers.
LevelIsStack == ptrLevel = Cardinality(PtrFrames(stack))

\* The nodes from which no cycle can be reached.
Trees == {n \in Node : Acyclic(n)}

\* As long as there is no error, nothing behind a frame has a cycle: what its links
\* up to the current one led to has been walked to the end.
WalkedIsAcyclic ==
    outcome = "busy" =>
      /\ stack = <<>> => root \in Trees
      /\ \A i \in 1..Len(stack) :
           \A j \in 1..(stack[i].at - (IF i < Len(stack) THEN 2 ELSE 1)) :
             links[stack[i].node][j].to \in Trees \cup {Nil}

\* The encodeStates in the pool are clean.
PoolEmptied == pool \subseteq {{}}

\* The inductive invariant.
WalkInv ==
    /\ WalkTypeOK /\ OnPath /\ SeenIsStack /\ LevelIsStack /\ WalkedIsAcyclic
    /\ PoolEmptied /\ CycleVerdict /\ PoolClean

-----------------------------------------------------------------------------
(* What the steps do to the frames.                                        *)

\* The links of a node are a sequence.
LEMMA LinksAre ==
    ASSUME WalkTypeOK, NEW p \in Node
    PROVE  /\ Len(links[p]) \in Nat /\ DOMAIN links[p] = 1..Len(links[p])
           /\ \A i \in 1..Len(links[p]) : /\ links[p][i].to \in Node \cup {Nil}
                                          /\ links[p][i].kind \in Kind
                                          /\ links[p][i].kind \in {"ptr", "slice"}
<1>1. PICK n \in 0..MaxLinks : links[p] \in [1..n -> Link]
  BY DEF WalkTypeOK, Links
<1>2. n \in Nat
  BY WalkAssumption
<1>3. links[p] \in Seq(Link) /\ Len(links[p]) = n /\ DOMAIN links[p] = 1..n
  BY <1>1, <1>2
<1>4. \A i \in 1..n : links[p][i] \in Link
  BY <1>1
<1>5. QED
  BY <1>2, <1>3, <1>4, WalkAssumption DEF Link

\* The call of encode for a link l on this level.
CallOf(l, level) ==
    [node |-> l.to, at |-> 1, kind |-> l.kind,
     recorded |-> l.kind = "ptr" /\ Watching(LevelIn(l.kind, level))]

\* A call that is made, or refused because of a nil pointer or a cycle.
LEMMA EncodeLinkIs ==
    ASSUME NEW l, NEW s, NEW level, NEW seen, EncodeLink(l, s, level, seen)
    PROVE  \/ /\ l.to = Nil /\ stack' = s /\ ptrLevel' = level /\ ptrSeen' = seen
              /\ outcome' = IF l.kind = "ptr" THEN "nil" ELSE "busy"
           \/ /\ l.to # Nil /\ l.to \in seen
              /\ stack' = s /\ ptrLevel' = level /\ ptrSeen' = seen /\ outcome' = "cycle"
           \/ /\ l.to # Nil /\ (CallOf(l, level).recorded => l.to \notin seen)
              /\ stack' = Append(s, CallOf(l, level))
              /\ ptrLevel' = LevelIn(l.kind, level)
              /\ ptrSeen' = IF CallOf(l, level).recorded THEN seen \cup {l.to} ELSE seen
              /\ outcome' = IF Len(s) = MaxDepth THEN "overflow" ELSE "busy"
<1> DEFINE watch == l.kind = "ptr" /\ Watching(LevelIn(l.kind, level))
           call == CallOf(l, level)
<1>1. call = [node |-> l.to, at |-> 1, kind |-> l.kind, recorded |-> watch]
  BY DEF CallOf
<1>2. call.recorded = watch
  BY <1>1
<1>3. CASE l.to = Nil
  BY <1>3, Zenon DEF EncodeLink
<1>4. CASE l.to # Nil /\ watch /\ l.to \in seen
  BY <1>4, Zenon DEF EncodeLink
<1>5. CASE l.to # Nil /\ ~(watch /\ l.to \in seen)
  <2>1. /\ stack' = Append(s, call)
        /\ ptrLevel' = LevelIn(l.kind, level)
        /\ ptrSeen' = IF watch THEN seen \cup {l.to} ELSE seen
        /\ outcome' = IF Len(s) = MaxDepth THEN "overflow" ELSE "busy"
    BY <1>1, <1>5, Zenon DEF EncodeLink
  <2> HIDE DEF watch, call
  <2>2. QED
    BY <1>2, <1>5, <2>1 DEF call
<1>6. QED
  BY <1>3, <1>4, <1>5

\* The stack without its top frame.
LEMMA FrontIs ==
    ASSUME NEW q \in Seq(Frame), q # <<>>
    PROVE  LET N == Len(q)
               b == SubSeq(q, 1, N - 1)
           IN  /\ N \in Nat \ {0} /\ b \in Seq(Frame) /\ Len(b) = N - 1
               /\ \A i \in 1..(N - 1) : b[i] = q[i]
<1> DEFINE N == Len(q)
           b == SubSeq(q, 1, N - 1)
<1>1. N \in Nat \ {0} /\ \A i \in 1..N : q[i] \in Frame
  BY EmptySeq, LenProperties
<1>2. 1 \in Int /\ N - 1 \in Int /\ \A i \in 1..(N - 1) : q[i] \in Frame
  BY <1>1
<1>3. /\ b \in Seq(Frame)
      /\ Len(b) = IF 1 <= N - 1 THEN (N - 1) - 1 + 1 ELSE 0
      /\ \A i \in 1..((N - 1) - 1 + 1) : b[i] = q[1 + i - 1]
  BY <1>2, SubSeqProperties
<1> HIDE DEF b
<1>4. (N - 1) - 1 + 1 = N - 1 /\ \A i \in 1..(N - 1) : 1 + i - 1 = i
  BY <1>1
<1>5. Len(b) = N - 1
  <2>1. 1 <= N - 1 \/ N - 1 = 0
    BY <1>1
  <2>2. QED
    BY <1>3, <1>4, <2>1
<1>6. ASSUME NEW i \in 1..(N - 1)
      PROVE  b[i] = q[i]
  <2>1. b[i] = q[1 + i - 1]
    BY <1>3, <1>4
  <2>2. QED
    BY <1>4, <2>1
<1>7. QED
  BY <1>1, <1>3, <1>5, <1>6 DEF b

\* The stack after the top frame has come to its next link.
LEMMA AdvancedIs ==
    ASSUME NEW q \in Seq(Frame), q # <<>>
    PROVE  LET N == Len(q)
               r == Append(SubSeq(q, 1, N - 1), [q[N] EXCEPT !.at = @ + 1])
           IN  /\ N \in Nat \ {0} /\ r \in Seq(Frame) /\ Len(r) = N
               /\ \A i \in 1..(N - 1) : r[i] = q[i]
               /\ r[N].node = q[N].node /\ r[N].kind = q[N].kind
               /\ r[N].recorded = q[N].recorded /\ r[N].at = q[N].at + 1
<1> DEFINE N == Len(q)
           f == [q[N] EXCEPT !.at = @ + 1]
           b == SubSeq(q, 1, N - 1)
<1>1. N \in Nat \ {0} /\ q[N] \in Frame /\ \A i \in 1..N : q[i] \in Frame
  BY EmptySeq, LenProperties
<1>2. /\ f \in Frame /\ f.node = q[N].node /\ f.kind = q[N].kind
      /\ f.recorded = q[N].recorded /\ f.at = q[N].at + 1
  <2>1. PICK x \in Frame : x = q[N]
    BY <1>1
  <2>2. f = [x EXCEPT !.at = x.at + 1]
    BY <2>1
  <2>3. /\ x = [node |-> x.node, at |-> x.at, kind |-> x.kind, recorded |-> x.recorded]
        /\ x.node \in Node /\ x.at \in Nat /\ x.kind \in {"ptr", "slice"}
        /\ x.recorded \in BOOLEAN
    BY DEF Frame
  <2>4. f = [node |-> x.node, at |-> x.at + 1, kind |-> x.kind, recorded |-> x.recorded]
    BY <2>2, <2>3
  <2>5. x.at + 1 \in Nat
    BY <2>3
  <2> HIDE DEF f
  <2>6. f \in Frame
    BY <2>3, <2>4, <2>5, Zenon DEF Frame
  <2>7. QED
    BY <2>1, <2>4, <2>6
<1>3. b \in Seq(Frame) /\ Len(b) = N - 1 /\ \A i \in 1..(N - 1) : b[i] = q[i]
  BY FrontIs
<1> HIDE DEF f, b
<1>4. /\ Append(b, f) \in Seq(Frame) /\ Len(Append(b, f)) = N
      /\ \A i \in 1..(N - 1) : Append(b, f)[i] = b[i]
      /\ Append(b, f)[N] = f
  BY <1>1, <1>2, <1>3, AppendProperties
<1>5. QED
  BY <1>1, <1>2, <1>3, <1>4 DEF f, b

\* What MarshalPointer does: it always finds a clean encodeState.
LEMMA MarshalIs ==
    ASSUME WalkInv, NEW n \in Node, MarshalPointer(n)
    PROVE  LET call == CallOf([kind |-> "ptr", to |-> n], 0)
           IN  /\ call \in Frame /\ call.node = n /\ call.at = 1 /\ call.kind = "ptr"
               /\ call.recorded = Watching(1)
               /\ stack = <<>> /\ stack' = <<call>> /\ ptrLevel' = 1
               /\ ptrSeen' = IF call.recorded THEN {n} ELSE {}
               /\ outcome' = IF 0 = MaxDepth THEN "overflow" ELSE "busy"
               /\ root' = n /\ links' = links /\ pool' \subseteq {{}}
               /\ calls' \in 0..MaxCalls
<1> DEFINE l == [kind |-> "ptr", to |-> n]
           call == CallOf(l, 0)
<1>1. /\ call = [node |-> n, at |-> 1, kind |-> "ptr", recorded |-> Watching(1)]
      /\ LevelIn("ptr", 0) = 1
  <2>1. LevelIn("ptr", 0) = 1 /\ l.kind = "ptr" /\ l.to = n
    BY DEF LevelIn
  <2>2. (l.kind = "ptr" /\ Watching(LevelIn(l.kind, 0))) = Watching(1)
    BY <2>1 DEF Watching
  <2>3. QED
    BY <2>1, <2>2, Zenon DEF CallOf
<1>2. call \in Frame /\ call.recorded = Watching(1) /\ call.node = n /\ call.at = 1
      /\ call.kind = "ptr"
  <2>1. Watching(1) \in BOOLEAN
    BY DEF Watching
  <2>2. 1 \in Nat /\ "ptr" \in {"ptr", "slice"}
    OBVIOUS
  <2> HIDE DEF call
  <2>3. call \in Frame
    BY <1>1, <2>1, <2>2, Zenon DEF Frame
  <2>4. QED
    BY <1>1, <2>3
<1>3. PICK old \in pool \cup {{}} :
        /\ pool' = pool \ {old}
        /\ IF old # {} THEN outcome' = "panic" /\ UNCHANGED <<stack, ptrLevel, ptrSeen>>
           ELSE EncodeLink(l, <<>>, 0, old)
  BY Zenon DEF MarshalPointer
<1>4. old = {} /\ pool' \subseteq {{}}
  BY <1>3 DEF WalkInv, PoolEmptied
<1>5. EncodeLink(l, <<>>, 0, {})
  BY <1>3, <1>4, Zenon
<1>6. l.to = n /\ l.kind = "ptr" /\ n # Nil
  BY WalkAssumption
<1> HIDE DEF l
<1>7. /\ stack' = Append(<<>>, call) /\ ptrLevel' = LevelIn("ptr", 0)
      /\ ptrSeen' = IF call.recorded THEN {} \cup {n} ELSE {}
      /\ outcome' = IF Len(<<>>) = MaxDepth THEN "overflow" ELSE "busy"
  BY <1>5, <1>6, EncodeLinkIs
<1>8. stack = <<>> /\ root' = n /\ links' = links /\ calls' = calls + 1 /\ calls < MaxCalls
  BY DEF MarshalPointer
<1>9. calls' \in 0..MaxCalls
  BY <1>8, WalkAssumption DEF WalkInv, WalkTypeOK
<1> HIDE DEF call
<1>10. Append(<<>>, call) = <<call>> /\ Len(<<>>) = 0
  OBVIOUS
<1>11. QED
  BY <1>1, <1>2, <1>4, <1>7, <1>8, <1>9, <1>10 DEF l, call

\* What all outcomes of Descend have in common: the top frame comes to its next link.
Advanced ==
    LET N == Len(stack)
    IN  /\ stack' \in Seq(Frame) /\ Len(stack') \in Nat
        /\ \A i \in 1..(N - 1) : stack'[i] = stack[i]
        /\ stack'[N].node = stack[N].node /\ stack'[N].kind = stack[N].kind
        /\ stack'[N].recorded = stack[N].recorded /\ stack'[N].at = stack[N].at + 1
        /\ UNCHANGED <<links, root, pool, calls>>

\* The link refers to nothing.
MeetsNil ==
    LET N == Len(stack)
        l == links[stack[N].node][stack[N].at]
    IN  /\ l.to = Nil /\ Len(stack') = N
        /\ UNCHANGED <<ptrLevel, ptrSeen>>
        /\ outcome' = IF l.kind = "ptr" THEN "nil" ELSE "busy"

\* The link is a pointer that was seen.
MeetsCycle ==
    LET N == Len(stack)
        l == links[stack[N].node][stack[N].at]
    IN  /\ l.to \in ptrSeen /\ Len(stack') = N
        /\ UNCHANGED <<ptrLevel, ptrSeen>>
        /\ outcome' = "cycle"

\* The link is followed.
Follows ==
    LET N == Len(stack)
        l == links[stack[N].node][stack[N].at]
        c == stack'[N + 1]
    IN  /\ l.to \in Node /\ Len(stack') = N + 1
        /\ c.node = l.to /\ c.at = 1 /\ c.kind = l.kind
        /\ c.recorded = (l.kind = "ptr" /\ Watching(ptrLevel + 1))
        /\ c.recorded => l.to \notin ptrSeen
        /\ ptrLevel' = LevelIn(l.kind, ptrLevel)
        /\ ptrSeen' = IF c.recorded THEN ptrSeen \cup {l.to} ELSE ptrSeen
        /\ outcome' = IF N = MaxDepth THEN "overflow" ELSE "busy"

\* What Descend does.
LEMMA DescendIs ==
    ASSUME WalkInv, Descend
    PROVE  LET t == stack[Len(stack)]
           IN  /\ Len(stack) \in Nat \ {0} /\ outcome = "busy"
               /\ \A i \in 1..Len(stack) : stack[i] \in Frame
               /\ t.at \in 1..Len(links[t.node])
               /\ links[t.node][t.at].to \in Node \cup {Nil}
               /\ links[t.node][t.at].kind \in Kind
               /\ links[t.node][t.at].kind \in {"ptr", "slice"}
               /\ Advanced
               /\ MeetsNil \/ MeetsCycle \/ Follows
<1> DEFINE N == Len(stack)
           t == stack[N]
           l == links[t.node][t.at]
           s == Append(SubSeq(stack, 1, N - 1), [t EXCEPT !.at = @ + 1])
           call == CallOf(l, ptrLevel)
<1>1. stack \in Seq(Frame) /\ stack # <<>> /\ outcome = "busy"
  BY DEF WalkInv, WalkTypeOK, Descend
<1>2. /\ N \in Nat \ {0} /\ s \in Seq(Frame) /\ Len(s) = N
      /\ \A i \in 1..(N - 1) : s[i] = stack[i]
      /\ s[N].node = t.node /\ s[N].kind = t.kind
      /\ s[N].recorded = t.recorded /\ s[N].at = t.at + 1
  BY <1>1, AdvancedIs
<1>3. \A i \in 1..N : stack[i] \in Frame
  BY <1>1, LenProperties
<1>4. t.node \in Node /\ t.at \in 1..Len(links[t.node])
  <2>1. t \in Frame
    BY <1>2, <1>3
  <2>2. t.node \in Node /\ t.at \in Nat
    BY <2>1 DEF Frame
  <2>3. t.at \in 1..(Len(links[t.node]) + 1)
    BY <1>2 DEF WalkInv, OnPath
  <2>4. t.at <= Len(links[t.node])
    BY DEF Descend, Top
  <2>5. Len(links[t.node]) \in Nat
    BY <2>2, LinksAre DEF WalkInv
  <2>6. QED
    BY <2>2, <2>3, <2>4, <2>5
<1>5. l.to \in Node \cup {Nil} /\ l.kind \in Kind /\ l.kind \in {"ptr", "slice"}
  BY <1>4, LinksAre DEF WalkInv
<1>6. EncodeLink(l, s, ptrLevel, ptrSeen) /\ UNCHANGED <<links, root, pool, calls>>
  BY DEF Descend, Top, Below
<1>7. /\ call = [node |-> l.to, at |-> 1, kind |-> l.kind,
                 recorded |-> l.kind = "ptr" /\ Watching(LevelIn(l.kind, ptrLevel))]
      /\ l.kind = "ptr" => LevelIn(l.kind, ptrLevel) = ptrLevel + 1
  BY DEF CallOf, LevelIn
<1> HIDE DEF l, s, call
<1>8. CASE l.to = Nil /\ stack' = s /\ ptrLevel' = ptrLevel /\ ptrSeen' = ptrSeen
           /\ outcome' = IF l.kind = "ptr" THEN "nil" ELSE "busy"
  <2>1. Advanced
    BY <1>2, <1>6, <1>8 DEF Advanced
  <2>2. MeetsNil
    BY <1>2, <1>8 DEF MeetsNil, l
  <2>3. QED
    BY <1>1, <1>2, <1>3, <1>4, <1>5, <2>1, <2>2 DEF l
<1>9. CASE l.to # Nil /\ l.to \in ptrSeen /\ stack' = s /\ ptrLevel' = ptrLevel
           /\ ptrSeen' = ptrSeen /\ outcome' = "cycle"
  <2>1. Advanced
    BY <1>2, <1>6, <1>9 DEF Advanced
  <2>2. MeetsCycle
    BY <1>2, <1>9 DEF MeetsCycle, l
  <2>3. QED
    BY <1>1, <1>2, <1>3, <1>4, <1>5, <2>1, <2>2 DEF l
<1>10. CASE /\ l.to # Nil /\ (call.recorded => l.to \notin ptrSeen)
            /\ stack' = Append(s, call)
            /\ ptrLevel' = LevelIn(l.kind, ptrLevel)
            /\ ptrSeen' = IF call.recorded THEN ptrSeen \cup {l.to} ELSE ptrSeen
            /\ outcome' = IF Len(s) = MaxDepth THEN "overflow" ELSE "busy"
  <2>1. l.to \in Node
    BY <1>5, <1>10
  <2>2. call \in Frame
    <3>1. 1 \in Nat /\ (l.kind = "ptr" /\ Watching(LevelIn(l.kind, ptrLevel))) \in BOOLEAN
      OBVIOUS
    <3>2. QED
      BY <1>5, <1>7, <2>1, <3>1, Zenon DEF Frame
  <2>3. /\ stack' \in Seq(Frame) /\ Len(stack') = N + 1
        /\ \A i \in 1..N : stack'[i] = s[i]
        /\ stack'[N + 1] = call
    BY <1>2, <1>10, <2>2, AppendProperties
  <2>4. Advanced
    BY <1>2, <1>6, <2>3 DEF Advanced
  <2>5. /\ call.node = l.to /\ call.at = 1 /\ call.kind = l.kind
        /\ call.recorded = (l.kind = "ptr" /\ Watching(ptrLevel + 1))
    BY <1>7
  <2>6. Follows
    BY <1>2, <1>10, <2>1, <2>3, <2>5 DEF Follows, l
  <2>7. QED
    BY <1>1, <1>2, <1>3, <1>4, <1>5, <2>4, <2>6 DEF l
<1>11. QED
  BY <1>6, <1>8, <1>9, <1>10, EncodeLinkIs DEF call

\* What Return does.
LEMMA ReturnIs ==
    ASSUME WalkInv, Return
    PROVE  LET N == Len(stack)
           IN  /\ N \in Nat \ {0} /\ \A i \in 1..N : stack[i] \in Frame
               /\ stack' \in Seq(Frame) /\ Len(stack') = N - 1
               /\ \A i \in 1..(N - 1) : stack'[i] = stack[i]
               /\ outcome \in {"nil", "cycle"}
                    \/ (outcome = "busy" /\ stack[N].at > Len(links[stack[N].node]))
               /\ ptrLevel' = IF stack[N].kind = "ptr" THEN ptrLevel - 1 ELSE ptrLevel
               /\ ptrSeen' = IF stack[N].recorded THEN ptrSeen \ {stack[N].node} ELSE ptrSeen
               /\ UNCHANGED <<links, root, outcome, pool, calls>>
<1>1. stack \in Seq(Frame) /\ stack # <<>>
  BY DEF WalkInv, WalkTypeOK, Return
<1>2. \A i \in 1..Len(stack) : stack[i] \in Frame
  BY <1>1, LenProperties
<1>3. stack' = SubSeq(stack, 1, Len(stack) - 1)
  BY DEF Return, Below
<1>4. QED
  BY <1>1, <1>2, <1>3, FrontIs DEF Return, Top, Forget

-----------------------------------------------------------------------------
(* Every step keeps the invariant.                                         *)

\* The level is a number.
LEMMA PtrFramesFinite ==
    ASSUME NEW s, Len(s) \in Nat
    PROVE  IsFiniteSet(PtrFrames(s)) /\ Cardinality(PtrFrames(s)) \in Nat
<1>1. IsFiniteSet(1..Len(s)) /\ PtrFrames(s) \in SUBSET (1..Len(s))
  BY FS_Interval DEF PtrFrames
<1>2. QED
  BY <1>1, FS_Subset, FS_CardinalityType

LEMMA WalkStepLevel ==
    ASSUME WalkInv, WalkNext
    PROVE  LevelIsStack' /\ ptrLevel' \in Nat
<1> DEFINE N == Len(stack)
           F == PtrFrames(stack)
           G == PtrFrames(stack')
<1>1. /\ stack \in Seq(Frame) /\ N \in Nat /\ ptrLevel = Cardinality(F)
      /\ IsFiniteSet(F) /\ Cardinality(F) \in Nat
  BY LenProperties, PtrFramesFinite DEF WalkInv, WalkTypeOK, LevelIsStack
<1>2. SUFFICES ptrLevel' = Cardinality(G) /\ ptrLevel' \in Nat
  BY DEF LevelIsStack
<1>3. ASSUME NEW n \in Node, MarshalPointer(n)
      PROVE  ptrLevel' = Cardinality(G) /\ ptrLevel' \in Nat
  <2>1. PICK call \in Frame : stack' = <<call>> /\ call.kind = "ptr" /\ ptrLevel' = 1
    BY <1>3, MarshalIs
  <2>2. G = {1}
    BY <2>1 DEF PtrFrames
  <2>3. QED
    BY <2>1, <2>2, FS_Singleton
<1>4. CASE Descend
  <2>1. N \in Nat \ {0} /\ Advanced /\ (MeetsNil \/ MeetsCycle \/ Follows)
    BY <1>4, DescendIs
  <2>2. \A i \in 1..N : stack'[i].kind = stack[i].kind
    BY <2>1 DEF Advanced
  <2>3. CASE MeetsNil \/ MeetsCycle
    <3>1. Len(stack') = N /\ ptrLevel' = ptrLevel
      BY <2>3 DEF MeetsNil, MeetsCycle
    <3>2. G = F
      BY <2>2, <3>1 DEF PtrFrames
    <3>3. QED
      BY <1>1, <3>1, <3>2
  <2>4. CASE Follows
    <3> DEFINE kind == stack'[N + 1].kind
    <3>1. Len(stack') = N + 1 /\ ptrLevel' = IF kind = "ptr" THEN ptrLevel + 1 ELSE ptrLevel
      BY <2>4 DEF Follows, LevelIn
    <3>2. CASE kind = "ptr"
      <4>1. G = F \cup {N + 1} /\ N + 1 \notin F
        BY <2>1, <2>2, <3>1, <3>2 DEF PtrFrames
      <4>2. Cardinality(F \cup {N + 1}) = Cardinality(F) + 1
        BY <1>1, <4>1, FS_AddElement
      <4>3. QED
        BY <1>1, <3>1, <3>2, <4>1, <4>2
    <3>3. CASE kind # "ptr"
      <4>1. G = F
        BY <2>1, <2>2, <3>1, <3>3 DEF PtrFrames
      <4>2. QED
        BY <1>1, <3>1, <3>3, <4>1
    <3>4. QED
      BY <3>2, <3>3
  <2>5. QED
    BY <2>1, <2>3, <2>4
<1>5. CASE Return
  <2>1. /\ N \in Nat \ {0} /\ Len(stack') = N - 1
        /\ \A i \in 1..(N - 1) : stack'[i] = stack[i]
        /\ ptrLevel' = IF stack[N].kind = "ptr" THEN ptrLevel - 1 ELSE ptrLevel
    BY <1>5, ReturnIs
  <2>2. CASE stack[N].kind = "ptr"
    <3>1. N \in F /\ G = F \ {N}
      BY <2>1, <2>2 DEF PtrFrames
    <3>2. IsFiniteSet(F \ {N}) /\ Cardinality(F \ {N}) = Cardinality(F) - 1
          /\ Cardinality(F \ {N}) \in Nat
      BY <1>1, <3>1, FS_RemoveElement, FS_CardinalityType
    <3>3. QED
      BY <1>1, <2>1, <2>2, <3>1, <3>2
  <2>3. CASE stack[N].kind # "ptr"
    <3>1. G = F
      BY <2>1, <2>3 DEF PtrFrames
    <3>2. QED
      BY <1>1, <2>1, <2>3, <3>1
  <2>4. QED
    BY <2>2, <2>3
<1>6. CASE Finish
  BY <1>1, <1>6 DEF Finish
<1>7. QED
  BY <1>3, <1>4, <1>5, <1>6 DEF WalkNext

\* What is recorded stays what the frames have recorded.
LEMMA WalkStepSeen ==
    ASSUME WalkInv, WalkNext
    PROVE  SeenIsStack'
<1> DEFINE N == Len(stack)
           R == {j \in 1..N : stack[j].recorded}
<1>1. /\ N \in Nat /\ ptrSeen = {stack[i].node : i \in R}
      /\ \A i, j \in R : i # j => stack[i].node # stack[j].node
  BY LenProperties DEF WalkInv, WalkTypeOK, SeenIsStack
\* It is enough to know which frames have recorded.
<1>2. ASSUME NEW Q, Q = {j \in 1..Len(stack') : stack'[j].recorded},
             ptrSeen' = {stack'[i].node : i \in Q},
             \A i, j \in Q : i # j => stack'[i].node # stack'[j].node
      PROVE  SeenIsStack'
  BY <1>2 DEF SeenIsStack
<1>3. ASSUME NEW n \in Node, MarshalPointer(n)
      PROVE  SeenIsStack'
  <2>1. PICK call \in Frame : /\ stack' = <<call>> /\ call.node = n
                              /\ ptrSeen' = IF call.recorded THEN {n} ELSE {}
    BY <1>3, MarshalIs
  <2>2. Len(stack') = 1 /\ stack'[1] = call
    BY <2>1
  <2>3. CASE call.recorded
    <3>1. {1} = {j \in 1..Len(stack') : stack'[j].recorded}
      BY <2>2, <2>3
    <3>2. ptrSeen' = {stack'[i].node : i \in {1}}
      BY <2>1, <2>2, <2>3
    <3>3. QED
      BY <1>2, <3>1, <3>2
  <2>4. CASE ~call.recorded
    <3>1. {} = {j \in 1..Len(stack') : stack'[j].recorded}
      BY <2>2, <2>4
    <3>2. ptrSeen' = {stack'[i].node : i \in {}}
      BY <2>1, <2>2, <2>4
    <3>3. QED
      BY <1>2, <3>1, <3>2
  <2>5. QED
    BY <2>3, <2>4
<1>4. CASE Descend
  <2>1. N \in Nat \ {0} /\ Advanced /\ (MeetsNil \/ MeetsCycle \/ Follows)
    BY <1>4, DescendIs
  <2>2. \A i \in 1..N : stack'[i].node = stack[i].node /\ stack'[i].recorded = stack[i].recorded
    BY <2>1 DEF Advanced
  <2>3. CASE MeetsNil \/ MeetsCycle
    <3>1. Len(stack') = N /\ ptrSeen' = ptrSeen
      BY <2>3 DEF MeetsNil, MeetsCycle
    <3>2. R = {j \in 1..Len(stack') : stack'[j].recorded}
      BY <2>2, <3>1
    <3>3. ptrSeen' = {stack'[i].node : i \in R}
      BY <1>1, <2>2, <3>1
    <3>4. \A i, j \in R : i # j => stack'[i].node # stack'[j].node
      BY <1>1, <2>2
    <3> HIDE DEF R
    <3>5. QED
      BY <1>2, <3>2, <3>3, <3>4
  <2>4. CASE Follows
    <3> DEFINE c == stack'[N + 1]
    <3>1. /\ Len(stack') = N + 1
          /\ c.recorded => c.node \notin ptrSeen
          /\ ptrSeen' = IF c.recorded THEN ptrSeen \cup {c.node} ELSE ptrSeen
      BY <2>4 DEF Follows
    <3>2. CASE c.recorded
      <4>1. R \cup {N + 1} = {j \in 1..Len(stack') : stack'[j].recorded}
        BY <2>1, <2>2, <3>1, <3>2
      <4>2. ptrSeen' = {stack'[i].node : i \in R \cup {N + 1}}
        BY <1>1, <2>2, <3>1, <3>2
      <4>3. \A i, j \in R \cup {N + 1} : i # j => stack'[i].node # stack'[j].node
        BY <1>1, <2>2, <3>1, <3>2
      <4> HIDE DEF R
      <4>4. QED
        BY <1>2, <4>1, <4>2, <4>3
    <3>3. CASE ~c.recorded
      <4>1. R = {j \in 1..Len(stack') : stack'[j].recorded}
        BY <2>1, <2>2, <3>1, <3>3
      <4>2. ptrSeen' = {stack'[i].node : i \in R}
        BY <1>1, <2>2, <3>1, <3>3
      <4>3. \A i, j \in R : i # j => stack'[i].node # stack'[j].node
        BY <1>1, <2>2
      <4> HIDE DEF R
      <4>4. QED
        BY <1>2, <4>1, <4>2, <4>3
    <3>4. QED
      BY <3>2, <3>3
  <2>5. QED
    BY <2>1, <2>3, <2>4
<1>5. CASE Return
  <2>1. /\ N \in Nat \ {0} /\ Len(stack') = N - 1
        /\ \A i \in 1..(N - 1) : stack'[i] = stack[i]
        /\ ptrSeen' = IF stack[N].recorded THEN ptrSeen \ {stack[N].node} ELSE ptrSeen
    BY <1>5, ReturnIs
  <2>2. R \ {N} = {j \in 1..Len(stack') : stack'[j].recorded}
    BY <2>1
  <2>3. ptrSeen' = {stack[i].node : i \in R \ {N}}
    <3>1. CASE stack[N].recorded
      <4>1. N \in R /\ \A i \in R \ {N} : stack[i].node # stack[N].node
        BY <1>1, <2>1, <3>1
      <4> HIDE DEF R
      <4>2. QED
        BY <1>1, <2>1, <3>1, <4>1
    <3>2. CASE ~stack[N].recorded
      <4>1. R \ {N} = R
        BY <3>2
      <4>2. QED
        BY <1>1, <2>1, <3>2, <4>1
    <3>3. QED
      BY <3>1, <3>2
  <2>4. \A i \in R \ {N} : stack'[i] = stack[i]
    BY <2>1
  <2> HIDE DEF R
  <2>5. ptrSeen' = {stack'[i].node : i \in R \ {N}}
    BY <2>3, <2>4
  <2>6. \A i, j \in R \ {N} : i # j => stack'[i].node # stack'[j].node
    BY <1>1, <2>4
  <2>7. QED
    BY <1>2, <2>2, <2>5, <2>6
<1>6. CASE Finish
  BY <1>6 DEF Finish, WalkInv, SeenIsStack
<1>7. QED
  BY <1>3, <1>4, <1>5, <1>6 DEF WalkNext

\* The encodeState put back is clean, and nothing else about the values changes.
LEMMA WalkStepTypes ==
    ASSUME WalkInv, WalkNext
    PROVE  WalkTypeOK' /\ PoolEmptied' /\ PoolClean'
<1> DEFINE N == Len(stack)
<1>1. /\ links \in [Node -> Links] /\ root \in Node /\ stack \in Seq(Frame) /\ N \in Nat
      /\ ptrSeen \subseteq Node /\ outcome \in Outcome \ {"panic"} /\ calls \in 0..MaxCalls
      /\ pool \subseteq {{}}
      /\ ptrLevel' \in Nat
  BY LenProperties, WalkStepLevel DEF WalkInv, WalkTypeOK, PoolEmptied, PoolClean
<1>2. ASSUME links' = links, root' \in Node, stack' \in Seq(Frame), ptrSeen' \subseteq Node,
             outcome' \in Outcome \ {"panic"}, pool' \subseteq {{}}, calls' \in 0..MaxCalls
      PROVE  WalkTypeOK' /\ PoolEmptied' /\ PoolClean'
  <2>1. pool' \subseteq SUBSET Node
    BY <1>2
  <2>2. QED
    BY <1>1, <1>2, <2>1 DEF WalkTypeOK, PoolEmptied, PoolClean
<1>3. {"idle", "busy", "ok", "nil", "cycle", "overflow"} = Outcome \ {"panic"}
  BY DEF Outcome
<1>4. ASSUME NEW n \in Node, MarshalPointer(n)
      PROVE  WalkTypeOK' /\ PoolEmptied' /\ PoolClean'
  <2>1. PICK call \in Frame :
          /\ stack' = <<call>> /\ ptrSeen' = IF call.recorded THEN {n} ELSE {}
          /\ outcome' = IF 0 = MaxDepth THEN "overflow" ELSE "busy"
          /\ root' = n /\ links' = links /\ pool' \subseteq {{}} /\ calls' \in 0..MaxCalls
    BY <1>4, MarshalIs
  <2>2. stack' \in Seq(Frame) /\ ptrSeen' \subseteq Node /\ outcome' \in Outcome \ {"panic"}
    BY <1>3, <2>1
  <2>3. QED
    BY <1>2, <2>1, <2>2
<1>5. CASE Descend
  <2>1. Advanced /\ (MeetsNil \/ MeetsCycle \/ Follows)
    BY <1>5, DescendIs
  <2>2. ptrSeen' \subseteq Node /\ outcome' \in Outcome \ {"panic"}
    <3>1. CASE MeetsNil \/ MeetsCycle
      BY <1>1, <1>3, <3>1 DEF MeetsNil, MeetsCycle
    <3>2. CASE Follows
      BY <1>1, <1>3, <3>2 DEF Follows
    <3>3. QED
      BY <2>1, <3>1, <3>2
  <2>3. QED
    BY <1>1, <1>2, <2>1, <2>2 DEF Advanced
<1>6. CASE Return
  <2>1. /\ stack' \in Seq(Frame)
        /\ ptrSeen' = IF stack[N].recorded THEN ptrSeen \ {stack[N].node} ELSE ptrSeen
        /\ UNCHANGED <<links, root, outcome, pool, calls>>
    BY <1>6, ReturnIs
  <2>2. ptrSeen' \subseteq Node
    BY <1>1, <2>1
  <2>3. QED
    BY <1>1, <1>2, <2>1, <2>2
<1>7. CASE Finish
  <2>1. /\ outcome' = "ok" /\ pool' \in {pool, pool \cup {ptrSeen}} /\ stack = <<>>
        /\ UNCHANGED <<links, root, stack, ptrLevel, ptrSeen, calls>>
    BY <1>7 DEF Finish
  <2>2. ptrSeen = {}
    BY <2>1 DEF WalkInv, SeenIsStack
  <2>3. pool' \subseteq {{}}
    BY <1>1, <2>1, <2>2
  <2>4. QED
    BY <1>1, <1>2, <1>3, <2>1, <2>3
<1>8. QED
  BY <1>4, <1>5, <1>6, <1>7 DEF WalkNext

\* The frames stay a way from the root.
LEMMA WalkStepPath ==
    ASSUME WalkInv, WalkNext
    PROVE  OnPath'
<1> DEFINE N == Len(stack)
<1>1. /\ N \in Nat /\ (N > 0 <=> stack # <<>>)
      /\ N > 0 => stack[1].node = root
      /\ \A i \in 1..N : stack[i] \in Frame /\ stack[i].at \in 1..(Len(links[stack[i].node]) + 1)
      /\ \A i \in 1..(N - 1) : stack[i].at > 1 /\ links[stack[i].node][stack[i].at - 1].to = stack[i + 1].node
  BY LenProperties, EmptySeq DEF WalkInv, WalkTypeOK, OnPath
<1>2. \A i \in 1..N : stack[i].node \in Node /\ stack[i].at \in Nat
                      /\ Len(links[stack[i].node]) \in Nat
  BY <1>1, LinksAre DEF Frame, WalkInv
<1>3. ASSUME NEW n \in Node, MarshalPointer(n)
      PROVE  OnPath'
  <2>1. PICK call \in Frame : /\ stack' = <<call>> /\ call.node = n /\ call.at = 1
                              /\ root' = n /\ links' = links
    BY <1>3, MarshalIs
  <2>2. Len(stack') = 1 /\ stack'[1] = call
    BY <2>1
  <2>3. Len(links[n]) \in Nat
    BY LinksAre DEF WalkInv
  <2>4. QED
    BY <2>1, <2>2, <2>3 DEF OnPath
<1>4. CASE Descend
  <2> DEFINE t == stack[N]
             l == links[t.node][t.at]
  <2>1. /\ N \in Nat \ {0} /\ t.at \in 1..Len(links[t.node])
        /\ Advanced /\ (MeetsNil \/ MeetsCycle \/ Follows)
    BY <1>4, DescendIs
  <2>2. /\ links' = links /\ root' = root
        /\ \A i \in 1..(N - 1) : stack'[i] = stack[i]
        /\ stack'[N].node = t.node /\ stack'[N].at = t.at + 1
    BY <2>1 DEF Advanced
  <2>3. /\ stack'[1].node = root
        /\ \A i \in 1..N : stack'[i].at \in 1..(Len(links[stack'[i].node]) + 1)
        /\ \A i \in 1..(N - 1) :
             stack'[i].at > 1 /\ links[stack'[i].node][stack'[i].at - 1].to = stack'[i + 1].node
    <3>1. stack'[1].node = root
      BY <1>1, <2>1, <2>2
    <3>2. ASSUME NEW i \in 1..N
          PROVE  stack'[i].at \in 1..(Len(links[stack'[i].node]) + 1)
      <4>1. CASE i = N
        BY <1>2, <2>1, <2>2, <4>1
      <4>2. CASE i # N
        BY <1>1, <2>1, <2>2, <4>2
      <4>3. QED
        BY <4>1, <4>2
    <3>3. ASSUME NEW i \in 1..(N - 1)
          PROVE  stack'[i].at > 1 /\ links[stack'[i].node][stack'[i].at - 1].to = stack'[i + 1].node
      <4>1. stack'[i] = stack[i] /\ stack'[i + 1].node = stack[i + 1].node
        BY <2>1, <2>2
      <4>2. QED
        BY <1>1, <4>1
    <3>4. QED
      BY <3>1, <3>2, <3>3
  <2>4. CASE MeetsNil \/ MeetsCycle
    <3>1. Len(stack') = N
      BY <2>4 DEF MeetsNil, MeetsCycle
    <3>2. QED
      BY <2>2, <2>3, <3>1 DEF OnPath
  <2>5. CASE Follows
    <3> DEFINE c == stack'[N + 1]
    <3>1. Len(stack') = N + 1 /\ c.node = l.to /\ c.at = 1 /\ l.to \in Node
      BY <2>5 DEF Follows
    <3>2. c.at \in 1..(Len(links[c.node]) + 1)
      <4>1. Len(links[c.node]) \in Nat
        BY <3>1, LinksAre DEF WalkInv
      <4> HIDE DEF c
      <4>2. 1 \in 1..(Len(links[c.node]) + 1)
        BY <4>1
      <4>3. c.at = 1
        BY <3>1 DEF c
      <4>4. QED
        BY <4>2, <4>3
    <3>3. stack'[N].at > 1 /\ links[stack'[N].node][stack'[N].at - 1].to = c.node
      <4>1. stack'[N].at - 1 = t.at
        BY <1>2, <2>1, <2>2
      <4>2. QED
        BY <2>1, <2>2, <3>1, <4>1
    <3> HIDE DEF c
    <3>4. \A i \in 1..(N + 1) : stack'[i].at \in 1..(Len(links[stack'[i].node]) + 1)
      BY <1>1, <2>3, <3>2 DEF c
    <3>5. \A i \in 1..N : stack'[i].at > 1 /\ links[stack'[i].node][stack'[i].at - 1].to = stack'[i + 1].node
      BY <1>1, <2>3, <3>3 DEF c
    <3>6. QED
      BY <1>1, <2>2, <2>3, <3>1, <3>4, <3>5 DEF OnPath
  <2>6. QED
    BY <2>1, <2>4, <2>5
<1>5. CASE Return
  <2>1. /\ N \in Nat \ {0} /\ stack' \in Seq(Frame) /\ Len(stack') = N - 1
        /\ \A i \in 1..(N - 1) : stack'[i] = stack[i]
        /\ links' = links /\ root' = root
    BY <1>5, ReturnIs
  <2>2. stack' # <<>> => stack'[1].node = root
    <3>1. stack' # <<>> => N - 1 > 0
      BY <2>1, EmptySeq
    <3>2. QED
      BY <1>1, <2>1, <3>1
  <2>3. \A i \in 1..(N - 1) : stack'[i].at \in 1..(Len(links[stack'[i].node]) + 1)
    BY <1>1, <2>1
  <2>4. \A i \in 1..((N - 1) - 1) :
          stack'[i].at > 1 /\ links[stack'[i].node][stack'[i].at - 1].to = stack'[i + 1].node
    BY <1>1, <2>1
  <2>5. QED
    BY <2>1, <2>2, <2>3, <2>4 DEF OnPath
<1>6. CASE Finish
  BY <1>6 DEF Finish, WalkInv, OnPath
<1>7. QED
  BY <1>3, <1>4, <1>5, <1>6 DEF WalkNext

-----------------------------------------------------------------------------
(* The verdict.                                                            *)

\* A node none of whose links leads to a cycle reaches none: the sets that show it
\* for its targets, taken together and with the node, show it.
LEMMA AcyclicNode ==
    ASSUME WalkTypeOK, NEW n \in Node, Targets(n) \subseteq Trees
    PROVE  n \in Trees
<1> DEFINE Good == {S \in SUBSET Node :
                      /\ \A p \in S : Targets(p) \subseteq S
                      /\ \A T \in SUBSET S : T # {} => \E p \in T : Targets(p) \cap T = {}}
           U == UNION Good
<1>1. U \in SUBSET Node /\ \A p \in U : Targets(p) \subseteq U
  OBVIOUS
<1>2. ASSUME NEW T, T \cap U # {}
      PROVE  \E p \in T \cap U : Targets(p) \cap T = {}
  <2>1. PICK S \in Good : T \cap S # {}
    BY <1>2
  <2>2. T \cap S \in SUBSET S
    OBVIOUS
  <2>3. PICK p \in T \cap S : Targets(p) \cap (T \cap S) = {}
    BY <2>1, <2>2
  <2>4. Targets(p) \subseteq S
    BY <2>3
  <2>5. QED
    BY <2>3, <2>4
<1>3. Targets(n) \subseteq U
  <2>1. \A p \in Trees : \E S \in Good : p \in S
    BY DEF Trees, Acyclic
  <2>2. QED
    BY <2>1
<1> DEFINE S == U \cup {n}
<1>4. S \in SUBSET Node /\ n \in S /\ \A p \in S : Targets(p) \subseteq S
  BY <1>1, <1>3
<1>5. ASSUME NEW T \in SUBSET S, T # {}
      PROVE  \E p \in T : Targets(p) \cap T = {}
  <2>1. CASE T \cap U # {}
    BY <1>2, <2>1
  <2>2. CASE T \cap U = {}
    <3>1. n \in T
      BY <1>5, <2>2
    <3>2. QED
      BY <1>3, <2>2, <3>1
  <2>3. QED
    BY <2>1, <2>2
<1> HIDE DEF S
<1>6. Acyclic(n)
  BY <1>4, <1>5 DEF Acyclic
<1>7. QED
  BY <1>6 DEF Trees

\* What the frames have left behind stays without a cycle.
LEMMA WalkStepWalked ==
    ASSUME WalkInv, WalkNext
    PROVE  WalkedIsAcyclic'
<1> DEFINE N == Len(stack)
           WalkedAt(i, j) == links[stack[i].node][j].to \in Trees \cup {Nil}
<1>1. /\ N \in Nat
      /\ \A i \in 1..N : stack[i].at \in Nat /\ stack[i].node \in Node
      /\ outcome = "busy" => \A i \in 1..(N - 1) : \A j \in 1..(stack[i].at - 2) : WalkedAt(i, j)
      /\ (outcome = "busy" /\ N > 0) => \A j \in 1..(stack[N].at - 1) : WalkedAt(N, j)
  <2>1. N \in Nat /\ \A i \in 1..N : stack[i] \in Frame
    BY LenProperties DEF WalkInv, WalkTypeOK
  <2>2. \A i \in 1..N : stack[i].at \in Nat /\ stack[i].node \in Node
    BY <2>1 DEF Frame
  <2>3. ASSUME outcome = "busy", NEW i \in 1..N,
               NEW j \in 1..(stack[i].at - (IF i < N THEN 2 ELSE 1))
        PROVE  WalkedAt(i, j)
    BY <2>3 DEF WalkInv, WalkedIsAcyclic
  <2>4. QED
    BY <2>1, <2>2, <2>3
<1>2. links' = links => Trees' = Trees
  BY DEF Trees, Acyclic, Targets
<1>3. ASSUME NEW n \in Node, MarshalPointer(n)
      PROVE  WalkedIsAcyclic'
  <2>1. PICK call \in Frame : stack' = <<call>> /\ call.at = 1
    BY <1>3, MarshalIs
  <2>2. Len(stack') = 1 /\ stack'[1].at = 1 /\ stack' # <<>>
    BY <2>1
  <2>3. QED
    BY <2>2 DEF WalkedIsAcyclic
<1>4. CASE Descend
  <2> DEFINE t == stack[N]
             l == links[t.node][t.at]
  <2>1. /\ N \in Nat \ {0} /\ outcome = "busy"
        /\ Advanced /\ (MeetsNil \/ MeetsCycle \/ Follows)
    BY <1>4, DescendIs
  <2>2. /\ links' = links /\ Trees' = Trees
        /\ \A i \in 1..(N - 1) : stack'[i] = stack[i]
        /\ stack'[N].node = t.node /\ stack'[N].at = t.at + 1
    BY <1>2, <2>1 DEF Advanced
  <2>3. CASE MeetsNil
    <3>1. Len(stack') = N /\ l.to = Nil
      BY <2>3 DEF MeetsNil
    <3>2. stack' # <<>>
      BY <2>1, <3>1
    <3>3. ASSUME NEW i \in 1..N, NEW j \in 1..(stack'[i].at - (IF i < N THEN 2 ELSE 1))
          PROVE  links[stack'[i].node][j].to \in Trees \cup {Nil}
      <4>1. CASE i = N
        <5>1. j \in 1..(t.at - 1) \/ j = t.at
          BY <1>1, <2>1, <2>2, <3>3, <4>1
        <5>2. QED
          BY <1>1, <2>1, <2>2, <3>1, <4>1, <5>1
      <4>2. CASE i # N
        <5>1. i \in 1..(N - 1) /\ j \in 1..(stack[i].at - 2)
          BY <2>1, <2>2, <3>3, <4>2
        <5>2. QED
          BY <1>1, <2>1, <2>2, <5>1
      <4>3. QED
        BY <4>1, <4>2
    <3>4. QED
      BY <2>2, <3>1, <3>2, <3>3 DEF WalkedIsAcyclic
  <2>4. CASE MeetsCycle
    BY <2>4 DEF MeetsCycle, WalkedIsAcyclic
  <2>5. CASE Follows
    <3>1. Len(stack') = N + 1 /\ stack'[N + 1].at = 1
      BY <2>5 DEF Follows
    <3>2. stack' # <<>>
      BY <2>1, <3>1
    <3>3. ASSUME NEW i \in 1..(N + 1), NEW j \in 1..(stack'[i].at - (IF i < N + 1 THEN 2 ELSE 1))
          PROVE  links[stack'[i].node][j].to \in Trees \cup {Nil}
      <4>1. CASE i = N + 1
        <5>1. j \in 1..0
          BY <2>1, <3>1, <3>3, <4>1
        <5>2. QED
          BY <5>1
      <4>2. CASE i = N
        <5>1. j \in 1..(t.at - 1)
          BY <1>1, <2>1, <2>2, <3>3, <4>2
        <5>2. QED
          BY <1>1, <2>1, <2>2, <4>2, <5>1
      <4>3. CASE i \in 1..(N - 1)
        <5>1. j \in 1..(stack[i].at - 2)
          BY <2>1, <2>2, <3>3, <4>3
        <5>2. QED
          BY <1>1, <2>1, <2>2, <4>3, <5>1
      <4>4. QED
        BY <2>1, <4>1, <4>2, <4>3
    <3>4. QED
      BY <2>2, <3>1, <3>2, <3>3 DEF WalkedIsAcyclic
  <2>6. QED
    BY <2>1, <2>3, <2>4, <2>5
<1>5. CASE Return
  <2> DEFINE t == stack[N]
  <2>1. /\ N \in Nat \ {0} /\ Len(stack') = N - 1
        /\ \A i \in 1..(N - 1) : stack'[i] = stack[i]
        /\ outcome' = "busy" => outcome = "busy" /\ t.at > Len(links[t.node])
        /\ links' = links /\ root' = root
    BY <1>5, ReturnIs
  <2> SUFFICES ASSUME outcome = "busy", t.at > Len(links[t.node])
               PROVE  WalkedIsAcyclic'
    BY <2>1 DEF WalkedIsAcyclic
  <2>2. t.node \in Trees
    <3>1. t.node \in Node /\ t.at \in Nat /\ Len(links[t.node]) \in Nat
          /\ DOMAIN links[t.node] = 1..Len(links[t.node])
      BY <1>1, <2>1, LinksAre DEF WalkInv
    <3>2. \A j \in DOMAIN links[t.node] : links[t.node][j].to \in Trees \cup {Nil}
      BY <1>1, <2>1, <3>1
    <3>3. Targets(t.node) \subseteq Trees
      BY <3>2 DEF Targets
    <3>4. QED
      BY <3>1, <3>3, AcyclicNode DEF WalkInv
  <2>3. stack' = <<>> => root' \in Trees'
    <3>1. ASSUME stack' = <<>>
          PROVE  N = 1
      BY <2>1, <3>1
    <3>2. stack[1].node = root
      BY <2>1, EmptySeq DEF WalkInv, OnPath
    <3>3. QED
      BY <1>2, <2>1, <2>2, <3>1, <3>2
  <2>4. ASSUME NEW i \in 1..(N - 1), NEW j \in 1..(stack[i].at - (IF i < N - 1 THEN 2 ELSE 1))
        PROVE  links[stack[i].node][j].to \in Trees \cup {Nil}
    <3>1. CASE i < N - 1 \/ j # stack[i].at - 1
      <4>1. j \in 1..(stack[i].at - 2)
        BY <1>1, <2>1, <2>4, <3>1
      <4>2. QED
        BY <1>1, <2>1, <4>1
    <3>2. CASE i = N - 1 /\ j = stack[i].at - 1
      <4>1. links[stack[i].node][stack[i].at - 1].to = stack[i + 1].node /\ i + 1 = N
        BY <2>1, <3>2 DEF WalkInv, OnPath
      <4>2. QED
        BY <2>2, <3>2, <4>1
    <3>3. QED
      BY <2>1, <3>1, <3>2
  <2>5. QED
    BY <1>2, <2>1, <2>3, <2>4 DEF WalkedIsAcyclic
<1>6. CASE Finish
  BY <1>6 DEF Finish, WalkedIsAcyclic
<1>7. QED
  BY <1>3, <1>4, <1>5, <1>6 DEF WalkNext

\* A pointer that was seen closes a cycle: the nodes of the frames from the one that
\* recorded it to the top all have a link to one of them.
LEMMA SeenIsCycle ==
    ASSUME WalkInv, Descend, MeetsCycle
    PROVE  ~Acyclic(root)
<1> DEFINE N == Len(stack)
           t == stack[N]
           l == links[t.node][t.at]
<1>1. /\ N \in Nat \ {0} /\ \A i \in 1..N : stack[i] \in Frame
      /\ t.at \in 1..Len(links[t.node])
  BY DescendIs
<1>2. \A i \in 1..N : /\ stack[i].node \in Node /\ stack[i].at \in Nat
                       /\ Len(links[stack[i].node]) \in Nat
                       /\ DOMAIN links[stack[i].node] = 1..Len(links[stack[i].node])
  BY <1>1, LinksAre DEF WalkInv, Frame
<1>3. ASSUME NEW i \in 1..(N - 1)
      PROVE  stack[i + 1].node \in Targets(stack[i].node)
  <2>1. /\ stack[i].at > 1 /\ stack[i].at \in 1..(Len(links[stack[i].node]) + 1)
        /\ links[stack[i].node][stack[i].at - 1].to = stack[i + 1].node
    BY <1>1 DEF WalkInv, OnPath
  <2>2. stack[i].at - 1 \in DOMAIN links[stack[i].node]
    BY <1>1, <1>2, <2>1
  <2>3. stack[i + 1].node \in Node /\ stack[i + 1].node # Nil
    BY <1>1, <1>2, WalkAssumption
  <2>4. QED
    BY <2>1, <2>2, <2>3 DEF Targets
<1>4. PICK k \in 1..N : l.to = stack[k].node
  BY DEF MeetsCycle, WalkInv, SeenIsStack
<1>5. stack[k].node \in Targets(t.node)
  <2>1. t.at \in DOMAIN links[t.node]
    BY <1>1, <1>2
  <2>2. stack[k].node # Nil
    BY <1>2, WalkAssumption
  <2>3. QED
    BY <1>4, <2>1, <2>2 DEF Targets
<1> SUFFICES ASSUME NEW S \in SUBSET Node, root \in S,
                    \A p \in S : Targets(p) \subseteq S,
                    \A T \in SUBSET S : T # {} => \E p \in T : Targets(p) \cap T = {}
             PROVE  FALSE
  BY Zenon DEF Acyclic
<1>6. \A i \in 1..N : stack[i].node \in S
  <2> DEFINE D == {m \in Nat : m + 1 \in 1..N => stack[m + 1].node \in S}
  <2>1. 0 \in D
    <3>1. stack[1].node = root
      BY <1>1, EmptySeq DEF WalkInv, OnPath
    <3>2. QED
      BY <3>1
  <2>2. ASSUME NEW m \in D
        PROVE  m + 1 \in D
    <3> SUFFICES ASSUME (m + 1) + 1 \in 1..N
                 PROVE  stack[(m + 1) + 1].node \in S
      OBVIOUS
    <3>1. m + 1 \in 1..(N - 1)
      BY <1>1
    <3>2. stack[m + 1].node \in S
      BY <1>1, <3>1
    <3>3. stack[(m + 1) + 1].node \in Targets(stack[m + 1].node)
      BY <1>3, <3>1
    <3>4. QED
      BY <3>2, <3>3
  <2>3. D = Nat
    <3> HIDE DEF D
    <3>1. D \in SUBSET Nat
      BY DEF D
    <3>2. QED
      BY <2>1, <2>2, <3>1, NatSet
  <2>4. ASSUME NEW i \in 1..N
        PROVE  stack[i].node \in S
    <3>1. i - 1 \in Nat /\ (i - 1) + 1 = i
      BY <1>1
    <3>2. i - 1 \in D
      <4> HIDE DEF D
      <4>1. QED
        BY <2>3, <3>1
    <3>3. QED
      BY <3>1, <3>2
  <2>5. QED
    BY <2>4
<1> DEFINE T == {stack[i].node : i \in k..N}
<1>7. T \in SUBSET S /\ T # {}
  <2>1. k \in k..N /\ k..N \subseteq 1..N
    BY <1>1
  <2>2. QED
    BY <1>6, <2>1
<1>8. PICK i \in k..N : Targets(stack[i].node) \cap T = {}
  BY <1>7
<1>9. CASE i = N
  <2>1. k \in k..N
    BY <1>1
  <2>2. QED
    BY <1>5, <1>8, <1>9, <2>1
<1>10. CASE i # N
  <2>1. i \in 1..(N - 1) /\ i + 1 \in k..N
    BY <1>1, <1>10
  <2>2. QED
    BY <1>3, <1>8, <2>1
<1>11. QED
  BY <1>9, <1>10

\* A verdict is given at the end of the walk, or where a cycle closes.
LEMMA WalkStepVerdict ==
    ASSUME WalkInv, WalkNext
    PROVE  CycleVerdict'
<1>1. links' = links /\ root' = root => (Acyclic(root)' <=> Acyclic(root))
  BY DEF Acyclic, Targets
<1>2. ASSUME NEW n \in Node, MarshalPointer(n)
      PROVE  CycleVerdict'
  <2>1. outcome' \notin {"ok", "cycle"}
    BY <1>2, MarshalIs
  <2>2. QED
    BY <2>1 DEF CycleVerdict
<1>3. CASE Descend
  <2>1. Advanced /\ (MeetsNil \/ MeetsCycle \/ Follows)
    BY <1>3, DescendIs
  <2>2. CASE MeetsNil \/ Follows
    <3>1. outcome' \notin {"ok", "cycle"}
      BY <2>2 DEF MeetsNil, Follows
    <3>2. QED
      BY <3>1 DEF CycleVerdict
  <2>3. CASE MeetsCycle
    <3>1. ~Acyclic(root) /\ outcome' = "cycle" /\ links' = links /\ root' = root
      BY <1>3, <2>1, <2>3, SeenIsCycle DEF Advanced, MeetsCycle
    <3>2. QED
      BY <1>1, <3>1 DEF CycleVerdict
  <2>4. QED
    BY <2>1, <2>2, <2>3
<1>4. CASE Return
  <2>1. UNCHANGED <<links, root, outcome>>
    BY <1>4 DEF Return
  <2>2. QED
    BY <1>1, <2>1 DEF WalkInv, CycleVerdict
<1>5. CASE Finish
  <2>1. outcome = "busy" /\ stack = <<>> /\ outcome' = "ok" /\ links' = links /\ root' = root
    BY <1>5 DEF Finish
  <2>2. Acyclic(root)
    BY <2>1 DEF WalkInv, WalkedIsAcyclic, Trees
  <2>3. QED
    BY <1>1, <2>1, <2>2 DEF CycleVerdict
<1>6. QED
  BY <1>2, <1>3, <1>4, <1>5 DEF WalkNext

-----------------------------------------------------------------------------
(* The theorems.                                                           *)

LEMMA WalkInvInit == WalkInit => WalkInv
<1> SUFFICES ASSUME WalkInit
             PROVE  WalkInv
  OBVIOUS
<1>1. /\ stack = <<>> /\ Len(stack) = 0 /\ ptrLevel = 0 /\ ptrSeen = {} /\ outcome = "idle"
      /\ pool = {} /\ calls = 0 /\ links \in [Node -> Links] /\ root \in Node
  BY DEF WalkInit
<1>2. WalkTypeOK
  <2>1. stack \in Seq(Frame) /\ calls \in 0..MaxCalls
    BY <1>1, WalkAssumption
  <2>2. outcome \in Outcome
    BY <1>1 DEF Outcome
  <2>3. QED
    BY <1>1, <2>1, <2>2 DEF WalkTypeOK
<1>3. OnPath /\ SeenIsStack
  BY <1>1 DEF OnPath, SeenIsStack
<1>4. LevelIsStack
  <2>1. PtrFrames(stack) = {}
    BY <1>1 DEF PtrFrames
  <2>2. QED
    BY <1>1, <2>1, FS_EmptySet DEF LevelIsStack
<1>5. WalkedIsAcyclic /\ PoolEmptied /\ CycleVerdict /\ PoolClean
  BY <1>1 DEF WalkedIsAcyclic, PoolEmptied, CycleVerdict, PoolClean
<1>6. QED
  BY <1>2, <1>3, <1>4, <1>5 DEF WalkInv

LEMMA WalkInvStep == WalkInv /\ [WalkNext]_walkVars => WalkInv'
<1> SUFFICES ASSUME WalkInv, [WalkNext]_walkVars
             PROVE  WalkInv'
  OBVIOUS
<1>1. CASE WalkNext
  BY <1>1, WalkStepTypes, WalkStepPath, WalkStepSeen, WalkStepLevel, WalkStepWalked,
     WalkStepVerdict DEF WalkInv
<1>2. CASE UNCHANGED walkVars
  <2>1. UNCHANGED <<links, root, stack, ptrLevel, ptrSeen, outcome, pool, calls>>
    BY <1>2 DEF walkVars
  <2>2. WalkTypeOK' /\ OnPath' /\ SeenIsStack' /\ PoolEmptied' /\ PoolClean'
    BY <2>1 DEF WalkInv, WalkTypeOK, OnPath, SeenIsStack, PoolEmptied, PoolClean
  <2>3. LevelIsStack'
    BY <2>1 DEF WalkInv, LevelIsStack, PtrFrames
  <2>4. Trees' = Trees /\ (Acyclic(root)' <=> Acyclic(root))
    BY <2>1 DEF Trees, Acyclic, Targets
  <2>5. WalkedIsAcyclic' /\ CycleVerdict'
    BY <2>1, <2>4 DEF WalkInv, WalkedIsAcyclic, CycleVerdict
  <2>6. QED
    BY <2>2, <2>3, <2>5 DEF WalkInv
<1>3. QED
  BY <1>1, <1>2

LEMMA WalkInvAlways == WalkSpec => []WalkInv
<1>1. QED
  BY WalkInvInit, WalkInvStep, PTL DEF WalkSpec

\* Marshal's verdict about cycles (encode.go, ptrEncoder.encode and newEncodeState): for
\* every message, every threshold and every depth of the stack, also when the message
\* has slices, one refused for a cycle has one, one that is marshalled has none, and no
\* encodeState comes back from the pool with pointers in it.
THEOREM WalkVerdict == WalkSpec => [](WalkTypeOK /\ CycleVerdict /\ PoolClean)
<1>1. WalkInv => WalkTypeOK /\ CycleVerdict /\ PoolClean
  BY DEF WalkInv
<1>2. QED
  BY <1>1, WalkInvAlways, PTL

\* Without slices, the frames above the threshold have all recorded their pointers.
PtrOnly == \A i \in 1..Len(stack) : stack[i].kind = "ptr" /\ (stack[i].recorded <=> i > Threshold)

\* Frames that have recorded different pointers above the threshold are no more than
\* there are nodes.
LEMMA DepthBound ==
    ASSUME IsFiniteSet(Node), NEW s \in Seq(Frame),
           \A i \in 1..Len(s) : s[i].recorded <=> i > Threshold,
           \A i, j \in 1..Len(s) :
             (i # j /\ s[i].recorded /\ s[j].recorded) => s[i].node # s[j].node
    PROVE  Len(s) <= Threshold + Cardinality(Node)
<1> DEFINE N == Len(s)
           C == Cardinality(Node)
           A == (Threshold + 1)..N
<1>1. /\ N \in Nat /\ Threshold \in Nat /\ C \in Nat
      /\ \A i \in 1..N : s[i] \in Frame
  BY LenProperties, FS_CardinalityType, WalkAssumption
<1>2. \A i \in 1..N : s[i].node \in Node
  BY <1>1 DEF Frame
<1> SUFFICES ASSUME N > Threshold + C
             PROVE  FALSE
  BY <1>1
<1>3. IsFiniteSet(A) /\ C < Cardinality(A)
  <2>1. Threshold + 1 \in Int /\ N \in Int
    BY <1>1
  <2>2. IsFiniteSet(A) /\ Cardinality(A) = IF Threshold + 1 > N THEN 0 ELSE N - (Threshold + 1) + 1
    BY <2>1, FS_Interval
  <2>3. QED
    BY <1>1, <2>2
<1>4. A \subseteq 1..N /\ \A i \in A : i > Threshold
  BY <1>1
<1> DEFINE f == [i \in A |-> s[i].node]
<1>5. f \in [A -> Node]
  BY <1>2, <1>4
<1> HIDE DEF A
<1>6. PICK i, j \in A : i # j /\ f[i] = f[j]
  <2> HIDE DEF f
  <2>1. QED
    BY <1>3, <1>5, FS_PigeonHole
<1>7. s[i].node = s[j].node
  BY <1>6
<1>8. QED
  BY <1>4, <1>6, <1>7

\* A message with pointers only never fills the stack: on the way down, the level is
\* the depth, so that a pointer is recorded at every depth above the threshold.
LEMMA WalkStepDepth ==
    ASSUME IsFiniteSet(Node), Kind = {"ptr"}, Threshold + Cardinality(Node) <= MaxDepth,
           WalkInv, PtrOnly, NoOverflow, WalkNext
    PROVE  PtrOnly' /\ NoOverflow'
<1> DEFINE N == Len(stack)
<1>1. N \in Nat /\ Threshold \in Nat /\ MaxDepth \in Nat /\ Cardinality(Node) \in Nat
  BY LenProperties, FS_CardinalityType, WalkAssumption DEF WalkInv, WalkTypeOK
<1>2. ptrLevel = N
  <2>1. PtrFrames(stack) = 1..N
    <3>1. \A i \in 1..N : stack[i].kind = "ptr"
      BY DEF PtrOnly
    <3>2. QED
      BY <3>1 DEF PtrFrames
  <2>2. Cardinality(1..N) = N
    <3>1. Cardinality(1..N) = IF 1 > N THEN 0 ELSE N - 1 + 1
      <4>1. 1 \in Int /\ N \in Int
        BY <1>1
      <4> HIDE DEF N
      <4>2. QED
        BY <4>1, FS_Interval
    <3>2. QED
      BY <1>1, <3>1
  <2>3. QED
    BY <2>1, <2>2 DEF WalkInv, LevelIsStack
<1>3. ASSUME NEW n \in Node, MarshalPointer(n)
      PROVE  PtrOnly' /\ NoOverflow'
  <2>1. PICK call \in Frame :
          /\ stack' = <<call>> /\ call.kind = "ptr" /\ call.recorded = Watching(1)
          /\ outcome' = IF 0 = MaxDepth THEN "overflow" ELSE "busy"
    <3> DEFINE call == CallOf([kind |-> "ptr", to |-> n], 0)
    <3>1. /\ call \in Frame /\ stack' = <<call>> /\ call.kind = "ptr"
          /\ call.recorded = Watching(1)
          /\ outcome' = IF 0 = MaxDepth THEN "overflow" ELSE "busy"
      BY <1>3, MarshalIs
    <3> HIDE DEF call
    <3>2. QED
      BY <3>1
  <2>2. PtrOnly'
    <3>1. Len(stack') = 1 /\ stack'[1] = call
      BY <2>1
    <3>2. call.recorded <=> 1 > Threshold
      BY <2>1 DEF Watching
    <3>3. QED
      BY <2>1, <3>1, <3>2 DEF PtrOnly
  <2>3. MaxDepth # 0
    <3>1. Cardinality(Node) # 0
      BY <1>3, FS_EmptySet
    <3>2. QED
      BY <1>1, <3>1
  <2>4. QED
    BY <2>1, <2>2, <2>3 DEF NoOverflow
<1>4. CASE Descend
  <2> DEFINE l == links[stack[N].node][stack[N].at]
  <2>1. /\ N \in Nat \ {0} /\ Advanced /\ (MeetsNil \/ MeetsCycle \/ Follows)
        /\ l.kind = "ptr"
    <3>1. /\ N \in Nat \ {0} /\ Advanced /\ (MeetsNil \/ MeetsCycle \/ Follows)
          /\ l.kind \in Kind
      BY <1>4, DescendIs
    <3>2. QED
      BY <3>1
  <2>2. \A i \in 1..N : stack'[i].kind = "ptr" /\ (stack'[i].recorded <=> i > Threshold)
    <3>1. \A i \in 1..N : stack'[i].kind = stack[i].kind /\ stack'[i].recorded = stack[i].recorded
      BY <2>1 DEF Advanced
    <3>2. QED
      BY <3>1 DEF PtrOnly
  <2>3. CASE MeetsNil \/ MeetsCycle
    <3>1. Len(stack') = N /\ outcome' # "overflow"
      BY <2>3 DEF MeetsNil, MeetsCycle
    <3>2. QED
      BY <2>2, <3>1 DEF PtrOnly, NoOverflow
  <2>4. CASE Follows
    <3>1. /\ Len(stack') = N + 1 /\ stack'[N + 1].kind = "ptr"
          /\ stack'[N + 1].recorded = Watching(N + 1)
          /\ outcome' = IF N = MaxDepth THEN "overflow" ELSE "busy"
      <4>1. /\ Len(stack') = N + 1 /\ stack'[N + 1].kind = l.kind
            /\ stack'[N + 1].recorded = (l.kind = "ptr" /\ Watching(ptrLevel + 1))
            /\ outcome' = IF N = MaxDepth THEN "overflow" ELSE "busy"
        BY <2>4 DEF Follows
      <4>2. (l.kind = "ptr" /\ Watching(ptrLevel + 1)) = Watching(N + 1)
        BY <1>2, <2>1 DEF Watching
      <4>3. QED
        BY <2>1, <4>1, <4>2
    <3>2. \A i \in 1..(N + 1) : stack'[i].kind = "ptr" /\ (stack'[i].recorded <=> i > Threshold)
      <4>1. stack'[N + 1].recorded <=> N + 1 > Threshold
        BY <3>1 DEF Watching
      <4>2. \A i \in 1..(N + 1) : i \in 1..N \/ i = N + 1
        BY <1>1
      <4>3. QED
        BY <2>2, <3>1, <4>1, <4>2
    <3>3. PtrOnly'
      BY <3>1, <3>2 DEF PtrOnly
    <3>4. Len(stack') <= Threshold + Cardinality(Node)
      <4>1. stack' \in Seq(Frame)
        BY <2>1 DEF Advanced
      <4>2. \A i, j \in 1..Len(stack') :
              (i # j /\ stack'[i].recorded /\ stack'[j].recorded) => stack'[i].node # stack'[j].node
        BY WalkStepSeen DEF SeenIsStack
      <4>3. \A i \in 1..Len(stack') : stack'[i].recorded <=> i > Threshold
        BY <3>1, <3>2
      <4>4. QED
        BY <4>1, <4>2, <4>3, DepthBound
    <3>5. N # MaxDepth
      BY <1>1, <3>1, <3>4
    <3>6. QED
      BY <3>1, <3>3, <3>5 DEF NoOverflow
  <2>5. QED
    BY <2>1, <2>3, <2>4
<1>5. CASE Return
  <2>1. /\ N \in Nat \ {0} /\ Len(stack') = N - 1 /\ outcome' = outcome
        /\ \A i \in 1..(N - 1) : stack'[i] = stack[i]
    BY <1>5, ReturnIs
  <2>2. QED
    BY <2>1 DEF PtrOnly, NoOverflow
<1>6. CASE Finish
  BY <1>6 DEF Finish, PtrOnly, NoOverflow
<1>7. QED
  BY <1>3, <1>4, <1>5, <1>6 DEF WalkNext

\* encode.go:32, "a cycle in a struct is an error": in a message without slices of structs
\* the recursion is never deeper than the threshold and the nodes of the message
\* together, with cycles or without.  Where the stack has room for that it does not
\* overflow, and the verdict is right.
THEOREM WalkIsSafe ==
    ASSUME IsFiniteSet(Node), Kind = {"ptr"}, Threshold + Cardinality(Node) <= MaxDepth
    PROVE  WalkSpec => []WalkSafe
<1>1. WalkInit => PtrOnly /\ NoOverflow
  BY DEF WalkInit, PtrOnly, NoOverflow
<1>2. WalkInv /\ (PtrOnly /\ NoOverflow) /\ [WalkNext]_walkVars => (PtrOnly /\ NoOverflow)'
  <2>1. CASE WalkNext
    BY <2>1, WalkStepDepth
  <2>2. CASE UNCHANGED walkVars
    BY <2>2 DEF walkVars, PtrOnly, NoOverflow
  <2>3. QED
    BY <2>1, <2>2
<1>3. WalkInv /\ PtrOnly /\ NoOverflow => WalkSafe
  BY DEF WalkInv, WalkSafe
<1>4. QED
  BY <1>1, <1>2, <1>3, WalkInvAlways, PTL DEF WalkSpec

-----------------------------------------------------------------------------
(* The leaves of a message: numbers.                                       *)

\* A number below m * m in two halves.
LEMMA Halves ==
    ASSUME NEW m \in Nat \ {0}, NEW n \in 0..(m * m - 1)
    PROVE  /\ n % m \in 0..(m - 1)
           /\ n \div m \in 0..(m - 1)
           /\ (n % m) + m * (n \div m) = n
OBVIOUS

\* There are numbers of every width.
LEMMA Moduli ==
    /\ Base \in Nat \ {0}
    /\ Mod16 \in Nat \ {0}
    /\ Mod32 \in Nat \ {0}
    /\ Mod64 \in Nat \ {0}
<1>1. \A m \in Nat \ {0} : m * m \in Nat \ {0}
  OBVIOUS
<1>2. QED
  BY <1>1, BaseAssumption DEF Mod16, Mod32, Mod64

\* The two halves of what was put together.
LEMMA TwoParts ==
    ASSUME NEW w \in Nat \ {0}, NEW first, first = w + 1, NEW last, last = 2 * w,
           NEW s \in Seq(Byte), NEW t \in Seq(Byte), Len(s) = w, Len(t) = w
    PROVE  /\ s \o t \in Seq(Byte)
           /\ Len(s \o t) = last
           /\ SubSeq(s \o t, 1, w) = s
           /\ SubSeq(s \o t, first, last) = t
<1>1. SubSeq(s \o t, 1, w) = SubSeq(s, 1, w)
  BY SubSeqOfConcat1
<1>2. SubSeq(s \o t, first, last) = SubSeq(t, first - Len(s), last - Len(s))
  BY SubSeqOfConcat2
<1>3. first - Len(s) = 1 /\ last - Len(s) = w
  OBVIOUS
<1>4. SubSeq(s, 1, w) = s /\ SubSeq(t, 1, w) = t
  BY SubSeqFull
<1>5. s \o t \in Seq(Byte) /\ Len(s \o t) = Len(s) + Len(t)
  BY ConcatProperties
<1>6. QED
  BY <1>1, <1>2, <1>3, <1>4, <1>5

\* One byte.
LEMMA Uint8Back ==
    ASSUME NEW n \in 0..(Base - 1)
    PROVE  /\ PutUint8(n) \in Seq(Byte)
           /\ Len(PutUint8(n)) = 1
           /\ Uint8(PutUint8(n)) = n
<1>1. n % Base = n
  BY Moduli
<1>2. QED
  BY <1>1 DEF PutUint8, Uint8, Byte

\* Two bytes.
LEMMA Uint16Back ==
    ASSUME NEW n \in 0..(Mod16 - 1)
    PROVE  /\ PutUint16(n) \in Seq(Byte)
           /\ Len(PutUint16(n)) = 2
           /\ Uint16(PutUint16(n)) = n
<1>1. /\ n % Base \in 0..(Base - 1)
      /\ n \div Base \in 0..(Base - 1)
      /\ (n % Base) + Base * (n \div Base) = n
  BY Halves, Moduli DEF Mod16
<1>2. /\ PutUint16(n) \in Seq(Byte)
      /\ Len(PutUint16(n)) = 2
      /\ SubSeq(PutUint16(n), 1, 1) = PutUint8(n % Base)
      /\ SubSeq(PutUint16(n), 2, 2) = PutUint8(n \div Base)
  BY <1>1, Uint8Back, TwoParts DEF PutUint16
<1>3. QED
  BY <1>1, <1>2, Uint8Back DEF Uint16

\* Four bytes.
LEMMA Uint32Back ==
    ASSUME NEW n \in 0..(Mod32 - 1)
    PROVE  /\ PutUint32(n) \in Seq(Byte)
           /\ Len(PutUint32(n)) = 4
           /\ Uint32(PutUint32(n)) = n
<1>1. /\ n % Mod16 \in 0..(Mod16 - 1)
      /\ n \div Mod16 \in 0..(Mod16 - 1)
      /\ (n % Mod16) + Mod16 * (n \div Mod16) = n
  BY Halves, Moduli DEF Mod32
<1>2. /\ PutUint32(n) \in Seq(Byte)
      /\ Len(PutUint32(n)) = 4
      /\ SubSeq(PutUint32(n), 1, 2) = PutUint16(n % Mod16)
      /\ SubSeq(PutUint32(n), 3, 4) = PutUint16(n \div Mod16)
  <2> DEFINE low == PutUint16(n % Mod16)
             high == PutUint16(n \div Mod16)
  <2>1. low \in Seq(Byte) /\ high \in Seq(Byte) /\ Len(low) = 2 /\ Len(high) = 2
    BY <1>1, Uint16Back
  <2>2. PutUint32(n) = low \o high
    BY DEF PutUint32
  <2> HIDE DEF low, high
  <2>3. PICK w, first, last : w = 2 /\ first = 3 /\ last = 4
    OBVIOUS
  <2>4. w \in Nat \ {0} /\ first = w + 1 /\ last = 2 * w
    BY <2>3
  <2>5. low \in Seq(Byte) /\ high \in Seq(Byte) /\ Len(low) = w /\ Len(high) = w
    BY <2>1, <2>3
  <2>6. /\ low \o high \in Seq(Byte)
        /\ Len(low \o high) = last
        /\ SubSeq(low \o high, 1, w) = low
        /\ SubSeq(low \o high, first, last) = high
    BY <2>4, <2>5, TwoParts
  <2>7. QED
    BY <2>2, <2>3, <2>6 DEF low, high
<1>3. QED
  BY <1>1, <1>2, Uint16Back DEF Uint32

\* Eight bytes.
LEMMA Uint64Back ==
    ASSUME NEW n \in 0..(Mod64 - 1)
    PROVE  /\ PutUint64(n) \in Seq(Byte)
           /\ Len(PutUint64(n)) = 8
           /\ Uint64(PutUint64(n)) = n
<1>1. /\ n % Mod32 \in 0..(Mod32 - 1)
      /\ n \div Mod32 \in 0..(Mod32 - 1)
      /\ (n % Mod32) + Mod32 * (n \div Mod32) = n
  BY Halves, Moduli DEF Mod64
<1>2. /\ PutUint64(n) \in Seq(Byte)
      /\ Len(PutUint64(n)) = 8
      /\ SubSeq(PutUint64(n), 1, 4) = PutUint32(n % Mod32)
      /\ SubSeq(PutUint64(n), 5, 8) = PutUint32(n \div Mod32)
  <2> DEFINE low == PutUint32(n % Mod32)
             high == PutUint32(n \div Mod32)
  <2>1. low \in Seq(Byte) /\ high \in Seq(Byte) /\ Len(low) = 4 /\ Len(high) = 4
    BY <1>1, Uint32Back
  <2>2. PutUint64(n) = low \o high
    BY DEF PutUint64
  <2> HIDE DEF low, high
  <2>3. PICK w, first, last : w = 4 /\ first = 5 /\ last = 8
    OBVIOUS
  <2>4. w \in Nat \ {0} /\ first = w + 1 /\ last = 2 * w
    BY <2>3
  <2>5. low \in Seq(Byte) /\ high \in Seq(Byte) /\ Len(low) = w /\ Len(high) = w
    BY <2>1, <2>3
  <2>6. /\ low \o high \in Seq(Byte)
        /\ Len(low \o high) = last
        /\ SubSeq(low \o high, 1, w) = low
        /\ SubSeq(low \o high, first, last) = high
    BY <2>4, <2>5, TwoParts
  <2>7. QED
    BY <2>2, <2>3, <2>6 DEF low, high
<1>3. QED
  BY <1>1, <1>2, Uint32Back DEF Uint64

\* The kinds of fixed size.
LEMMA Primitives ==
    /\ DOMAIN Width = {"bool", "byte", "int16", "uint16", "int32", "uint32", "float32", "float64"}
    /\ "bool" \notin Signed
BY DEF Width, Signed

\* What the values of these kinds are.
LEMMA PrimitiveValues ==
    ASSUME NEW k \in DOMAIN Width
    PROVE  Values(k) = IF k = "bool" THEN BOOLEAN
                       ELSE IF k \in Signed
                       THEN (-(Modulus(k) \div 2))..(Modulus(k) \div 2 - 1)
                       ELSE 0..(Modulus(k) - 1)
BY Primitives DEF Values

\* What is written for them.
LEMMA PrimitiveWritten ==
    ASSUME NEW k \in DOMAIN Width, NEW x
    PROVE  EncodeLeaf(k, x) = Written(IF k = "bool" THEN <<IF x THEN 1 ELSE 0>>
                                      ELSE PutUint(Width[k], x % Modulus(k)))
BY Primitives DEF EncodeLeaf

\* What their bytes stand for.
LEMMA PrimitiveRead ==
    ASSUME NEW k \in DOMAIN Width, NEW bs, NEW n, n = Uint(Width[k], bs)
    PROVE  FromBytes(k, bs) = IF k = "bool" THEN n # 0
                              ELSE IF k \in Signed /\ 2 * n >= Modulus(k)
                              THEN n - Modulus(k) ELSE n
BY Primitives DEF FromBytes

\* A kind of fixed size has one of these widths.
LEMMA Widths ==
    ASSUME NEW k \in DOMAIN Width
    PROVE  /\ Width[k] \in {1, 2, 4, 8}
           /\ Modulus(k) \in Nat \ {0}
           /\ k \in Signed => Width[k] \in {2, 4}
           /\ k = "bool" => Width[k] = 1
BY Moduli DEF Width, Modulus, Signed

\* What is written as a primitive is read as it was.
LEMMA UintBack ==
    ASSUME NEW k \in DOMAIN Width, NEW n \in 0..(Modulus(k) - 1)
    PROVE  /\ PutUint(Width[k], n) \in Seq(Byte)
           /\ Len(PutUint(Width[k], n)) = Width[k]
           /\ Uint(Width[k], PutUint(Width[k], n)) = n
<1>1. CASE Width[k] = 1
  BY <1>1, Uint8Back DEF Modulus, PutUint, Uint
<1>2. CASE Width[k] = 2
  BY <1>2, Uint16Back DEF Modulus, PutUint, Uint
<1>3. CASE Width[k] = 4
  BY <1>3, Uint32Back DEF Modulus, PutUint, Uint
<1>4. CASE Width[k] = 8
  BY <1>4, Uint64Back DEF Modulus, PutUint, Uint
<1>5. QED
  BY <1>1, <1>2, <1>3, <1>4, Widths

-----------------------------------------------------------------------------
(* The leaves of a message: every kind.                                    *)

\* Bytes s with others before and behind them: where they are.
LEMMA Within ==
    ASSUME NEW pre \in Seq(Byte), NEW s \in Seq(Byte), NEW post \in Seq(Byte)
    PROVE  LET d == pre \o s \o post
           IN  /\ d \in Seq(Byte)
               /\ Len(d) = Len(pre) + Len(s) + Len(post)
               /\ \A i \in 1..Len(s) : d[Len(pre) + i] = s[i]
<1> DEFINE d == (pre \o s) \o post
<1>1. /\ pre \o s \in Seq(Byte)
      /\ Len(pre \o s) = Len(pre) + Len(s)
      /\ \A i \in 1..(Len(pre) + Len(s)) :
           (pre \o s)[i] = IF i <= Len(pre) THEN pre[i] ELSE s[i - Len(pre)]
  BY ConcatProperties
<1>2. /\ d \in Seq(Byte)
      /\ Len(d) = Len(pre \o s) + Len(post)
      /\ \A i \in 1..(Len(pre \o s) + Len(post)) :
           d[i] = IF i <= Len(pre \o s) THEN (pre \o s)[i] ELSE post[i - Len(pre \o s)]
  BY <1>1, ConcatProperties
<1>3. Len(pre) \in Nat /\ Len(s) \in Nat /\ Len(post) \in Nat
  BY LenProperties
<1>4. ASSUME NEW i \in 1..Len(s)
      PROVE  d[Len(pre) + i] = s[i]
  <2> HIDE DEF d
  <2>1. Len(pre) + i \in 1..(Len(pre) + Len(s)) /\ ~(Len(pre) + i <= Len(pre))
        /\ (Len(pre) + i) - Len(pre) = i
    BY <1>3
  <2>2. Len(pre) + i \in 1..(Len(pre \o s) + Len(post)) /\ Len(pre) + i <= Len(pre \o s)
    BY <1>1, <1>3
  <2>3. d[Len(pre) + i] = (pre \o s)[Len(pre) + i]
    BY <1>2, <2>2
  <2>4. (pre \o s)[Len(pre) + i] = s[(Len(pre) + i) - Len(pre)]
    BY <1>1, <2>1
  <2>5. QED
    BY <2>1, <2>3, <2>4
<1>5. QED
  BY <1>1, <1>2, <1>3, <1>4

\* Bytes s are in d, from offset o on.
At(d, o, s) ==
    /\ d \in Seq(Byte)
    /\ s \in Seq(Byte)
    /\ o \in Nat
    /\ Len(d) >= o + Len(s)
    /\ \A i \in 1..Len(s) : d[o + i] = s[i]

\* Then they are what is read there.
LEMMA Found ==
    ASSUME NEW d, NEW s, NEW o, At(d, o, s)
    PROVE  ~Short(d, o, Len(s)) /\ Bytes(d, o, Len(s)) = s
<1>0. /\ d \in Seq(Byte) /\ s \in Seq(Byte) /\ o \in Nat
      /\ Len(d) >= o + Len(s)
      /\ \A i \in 1..Len(s) : d[o + i] = s[i]
  BY DEF At
<1>1. Len(s) \in Nat /\ Len(d) \in Nat
  BY <1>0, LenProperties
<1>2. \A i \in (o + 1)..(o + Len(s)) : d[i] \in Byte
  BY <1>0, <1>1, ElementOfSeq
<1>3. o + 1 \in Int /\ o + Len(s) \in Int /\ (o + Len(s)) - (o + 1) + 1 = Len(s)
      /\ \A i \in 1..Len(s) : (o + 1) + i - 1 = o + i
  BY <1>0, <1>1
<1>4. PICK p : p = Bytes(d, o, Len(s))
  OBVIOUS
<1>5. p \in Seq(Byte) /\ Len(p) = Len(s) /\ \A i \in 1..Len(s) : p[i] = d[o + i]
  BY <1>0, <1>1, <1>2, <1>3, <1>4, SubSeqProperties DEF Bytes
<1>6. p = s
  BY <1>0, <1>5, SeqEqual
<1>7. QED
  BY <1>0, <1>1, <1>4, <1>6 DEF Short

\* What a primitive is made of, and what is made of it again.
LEMMA PrimitiveBack ==
    ASSUME NEW k \in DOMAIN Width, NEW x \in Values(k)
    PROVE  /\ EncodeLeaf(k, x).err = "none"
           /\ EncodeLeaf(k, x).out \in Seq(Byte)
           /\ Len(EncodeLeaf(k, x).out) = Width[k]
           /\ FromBytes(k, EncodeLeaf(k, x).out) = x
<1>1. CASE k = "bool"
  <2>1. Width[k] = 1 /\ x \in BOOLEAN
    BY <1>1, PrimitiveValues DEF Width
  <2>2. /\ (IF x THEN 1 ELSE 0) \in Byte
        /\ EncodeLeaf(k, x) = Written(<<IF x THEN 1 ELSE 0>>)
    BY <1>1, BaseAssumption, PrimitiveWritten DEF Byte
  <2>3. FromBytes(k, <<IF x THEN 1 ELSE 0>>) = ((IF x THEN 1 ELSE 0) # 0)
    <3>1. Uint(Width[k], <<IF x THEN 1 ELSE 0>>) = IF x THEN 1 ELSE 0
      BY <2>1 DEF Uint, Uint8
    <3>2. QED
      BY <1>1, <3>1, PrimitiveRead
  <2>4. ((IF x THEN 1 ELSE 0) # 0) = x
    BY <2>1
  <2>5. QED
    BY <2>1, <2>2, <2>3, <2>4 DEF Written
<1>2. CASE k # "bool"
  <2> DEFINE n == x % Modulus(k)
  <2>0. Modulus(k) \in Nat \ {0}
    BY Widths
  <2>1. EncodeLeaf(k, x) = Written(PutUint(Width[k], n))
    BY <1>2, PrimitiveWritten
  <2>2. x \in Int /\ n \in 0..(Modulus(k) - 1)
    <3>1. x \in Int
      BY <1>2, <2>0, PrimitiveValues
    <3>2. QED
      BY <2>0, <3>1
  <2>3. /\ PutUint(Width[k], n) \in Seq(Byte)
        /\ Len(PutUint(Width[k], n)) = Width[k]
        /\ Uint(Width[k], PutUint(Width[k], n)) = n
    BY <2>2, UintBack
  <2>4. (IF k \in Signed /\ 2 * n >= Modulus(k) THEN n - Modulus(k) ELSE n) = x
    <3>1. CASE k \in Signed
      <4>1. x \in (-(Modulus(k) \div 2))..(Modulus(k) \div 2 - 1)
        BY <1>2, <3>1, PrimitiveValues
      <4>2. CASE x >= 0
        <5>1. n = x /\ ~(2 * n >= Modulus(k))
          BY <2>0, <4>1, <4>2
        <5>2. QED
          BY <5>1
      <4>3. CASE x < 0
        <5>1. n = x + Modulus(k) /\ 2 * n >= Modulus(k)
          BY <2>0, <4>1, <4>3
        <5>2. QED
          BY <2>0, <2>2, <3>1, <5>1
      <4>4. QED
        BY <2>2, <4>2, <4>3
    <3>2. CASE k \notin Signed
      <4>1. x \in 0..(Modulus(k) - 1)
        BY <1>2, <3>2, PrimitiveValues
      <4>2. n = x
        BY <2>0, <4>1
      <4>3. QED
        BY <3>2, <4>2
    <3>3. QED
      BY <3>1, <3>2
  <2>5. FromBytes(k, PutUint(Width[k], n)) = x
    <3> HIDE DEF n
    <3>1. QED
      BY <1>2, <2>3, <2>4, PrimitiveRead
  <2>6. QED
    BY <2>1, <2>3, <2>5 DEF Written
<1>3. QED
  BY <1>1, <1>2

\* A length that is let through is read as it was.
LEMMA LengthBack ==
    ASSUME NEW n \in Nat, ~TooLong(n)
    PROVE  /\ PutUint(2, n) \in Seq(Byte)
           /\ Len(PutUint(2, n)) = 2
           /\ Uint(2, PutUint(2, n)) = n
<1>1. n \in 0..(Mod16 - 1)
  BY Moduli DEF TooLong, MaxUint16
<1>2. QED
  BY <1>1, Uint16Back DEF PutUint, Uint

\* The limit is the right one: a length survives its two bytes exactly if it is
\* not refused (encode.go:109 and :176, math.MaxUint16); a longer one would be read
\* as a shorter one, and the rest of the slice as the next field.
THEOREM LengthsExact ==
    ASSUME NEW n \in Nat
    PROVE  Uint(2, PutUint(2, n)) = n <=> ~TooLong(n)
<1>1. CASE ~TooLong(n)
  BY <1>1, LengthBack
<1>2. CASE TooLong(n)
  <2>1. n >= Base * Base
    BY <1>2, Moduli DEF TooLong, MaxUint16, Mod16
  <2>2. PICK a, b : a = (n % Base) % Base /\ b = (n \div Base) % Base
    OBVIOUS
  <2>3. a \in 0..(Base - 1) /\ b \in 0..(Base - 1)
    <3>1. n % Base \in Nat /\ n \div Base \in Nat
      BY Moduli
    <3>2. QED
      BY <2>2, <3>1, Moduli
  <2>4. PutUint(2, n) = <<a, b>>
    <3>1. PutUint(2, n) = <<(n % Base) % Base>> \o <<(n \div Base) % Base>>
      BY DEF PutUint, PutUint16, PutUint8
    <3>2. <<a>> \o <<b>> = <<a, b>>
      <4>1. <<a>> \in Seq(Int) /\ <<b>> \in Seq(Int) /\ <<a, b>> \in Seq(Int)
        BY <2>3
      <4>2. PICK s : s = <<a>> \o <<b>>
        OBVIOUS
      <4>3. s \in Seq(Int) /\ Len(s) = 2 /\ s[1] = a /\ s[2] = b
        BY <4>1, <4>2, ConcatProperties
      <4>4. s = <<a, b>>
        BY <4>1, <4>3, SeqEqual
      <4>5. QED
        BY <4>2, <4>4
    <3>3. QED
      BY <2>2, <3>1, <3>2
  <2>5. Uint(2, <<a, b>>) = a + Base * b
    BY <2>3 DEF Uint, Uint16, Uint8
  <2>6. a + Base * b < Base * Base
    <3>1. Base * b <= Base * (Base - 1)
      BY <2>3, Moduli
    <3>2. Base * (Base - 1) = Base * Base - Base
      BY Moduli
    <3>3. QED
      BY <2>3, <3>1, <3>2, Moduli
  <2>7. a + Base * b # n
    BY <2>1, <2>3, <2>6, Moduli
  <2>8. QED
    BY <1>2, <2>4, <2>5, <2>7
<1>3. QED
  BY <1>1, <1>2

\* What is written for a string.
LEMMA StringWritten ==
    ASSUME NEW x \in Seq(Byte), EncodeLeaf("string", x).err = "none"
    PROVE  /\ EncodeLeaf("string", x).out \in Seq(Byte)
           /\ Len(EncodeLeaf("string", x).out) = Len(x) + 1
           /\ \A i \in 1..Len(x) : EncodeLeaf("string", x).out[i] = x[i] /\ x[i] # 0
           /\ EncodeLeaf("string", x).out[Len(x) + 1] = 0
<1>1. EncodeLeaf("string", x) = IF \E i \in DOMAIN x : x[i] = 0 THEN Refused("nul")
                                ELSE Written(Append(x, 0))
  BY Primitives DEF EncodeLeaf
<1>2. (\A i \in DOMAIN x : x[i] # 0) /\ EncodeLeaf("string", x).out = Append(x, 0)
  BY <1>1 DEF Refused, Written
<1>3. DOMAIN x = 1..Len(x) /\ 0 \in Byte
  BY BaseAssumption DEF Byte
<1>4. QED
  BY <1>2, <1>3, AppendProperties

\* What is written for a slice of bytes: its length comes first.
LEMMA BytesWritten ==
    ASSUME NEW x \in Seq(Byte), EncodeLeaf("bytes", x).err = "none"
    PROVE  LET out  == EncodeLeaf("bytes", x).out
               head == PutUint(2, Len(x))
           IN  /\ out \in Seq(Byte)
               /\ Len(out) = 2 + Len(x)
               /\ head \in Seq(Byte) /\ Len(head) = 2 /\ Uint(2, head) = Len(x)
               /\ \A i \in 1..2 : out[i] = head[i]
               /\ \A i \in 1..Len(x) : out[2 + i] = x[i]
<1> DEFINE head == PutUint(2, Len(x))
<1>1. EncodeLeaf("bytes", x) = IF TooLong(Len(x)) THEN Refused("long") ELSE Written(head \o x)
  BY Primitives DEF EncodeLeaf
<1>2. ~TooLong(Len(x)) /\ EncodeLeaf("bytes", x).out = head \o x
  BY <1>1 DEF Refused, Written
<1>3. Len(x) \in Nat
  BY LenProperties
<1>4. head \in Seq(Byte) /\ Len(head) = 2 /\ Uint(2, head) = Len(x)
  BY <1>2, <1>3, LengthBack
<1> HIDE DEF head
<1>5. /\ head \o x \in Seq(Byte)
      /\ Len(head \o x) = Len(head) + Len(x)
      /\ \A i \in 1..(Len(head) + Len(x)) :
           (head \o x)[i] = IF i <= Len(head) THEN head[i] ELSE x[i - Len(head)]
  BY <1>4, ConcatProperties
<1>6. \A i \in 1..2 : (head \o x)[i] = head[i]
  BY <1>3, <1>4, <1>5
<1>7. ASSUME NEW i \in 1..Len(x)
      PROVE  (head \o x)[2 + i] = x[i]
  <2>1. 2 + i \in 1..(Len(head) + Len(x)) /\ ~(2 + i <= Len(head)) /\ (2 + i) - Len(head) = i
    BY <1>3, <1>4
  <2>2. QED
    BY <1>5, <2>1
<1>8. QED
  BY <1>2, <1>4, <1>5, <1>6, <1>7 DEF head

\* How a string is read.
LEMMA StringRead ==
    ASSUME NEW d, NEW v, NEW o
    PROVE  DecodeLeaf(d, "string", v, o) =
             IF Zeros(d, o) = {} THEN Missing(v, o)
             ELSE Done(SubSeq(d, o + 1, Min(Zeros(d, o)) - 1), Min(Zeros(d, o)))
BY Primitives DEF DecodeLeaf

\* How a slice of bytes is read.
LEMMA BytesRead ==
    ASSUME NEW d, NEW v, NEW o
    PROVE  DecodeLeaf(d, "bytes", v, o) =
             IF Short(d, o, 2) THEN Missing(v, o)
             ELSE IF Short(d, o + 2, LengthAt(d, o)) THEN Missing(v, o + 2)
             ELSE Done(Bytes(d, o + 2, LengthAt(d, o)), o + 2 + LengthAt(d, o))
BY Primitives DEF DecodeLeaf

\* How a primitive is read.
LEMMA PrimitiveReadAt ==
    ASSUME NEW d, NEW k \in DOMAIN Width, NEW v, NEW o
    PROVE  DecodeLeaf(d, k, v, o) =
             IF Short(d, o, Width[k]) THEN Missing(v, o)
             ELSE Done(FromBytes(k, Bytes(d, o, Width[k])), o + Width[k])
BY Primitives DEF DecodeLeaf

\* A string is read as it was written.
LEMMA StringBack ==
    ASSUME NEW x \in Seq(Byte), EncodeLeaf("string", x).err = "none", NEW d, NEW o, NEW v,
           At(d, o, EncodeLeaf("string", x).out)
    PROVE  DecodeLeaf(d, "string", v, o) = Done(x, o + Len(EncodeLeaf("string", x).out))
<1>1. PICK out : out = EncodeLeaf("string", x).out
  OBVIOUS
<1>2. /\ out \in Seq(Byte)
      /\ Len(out) = Len(x) + 1
      /\ \A i \in 1..Len(x) : out[i] = x[i] /\ x[i] # 0
      /\ out[Len(x) + 1] = 0
  BY <1>1, StringWritten
<1>3. /\ d \in Seq(Byte) /\ o \in Nat
      /\ Len(d) >= o + Len(out)
      /\ \A i \in 1..Len(out) : d[o + i] = out[i]
  BY <1>1 DEF At
<1>4. Len(x) \in Nat /\ Len(d) \in Nat
  BY <1>3, LenProperties
<1>5. PICK l : l = Len(x)
  OBVIOUS
<1>6. \A i \in 1..l : d[o + i] = x[i] /\ d[o + i] # 0
  BY <1>2, <1>3, <1>4, <1>5
<1>7. d[o + (l + 1)] = 0
  BY <1>2, <1>3, <1>4, <1>5
<1>8. o + (l + 1) \in Zeros(d, o)
  <2>1. o + (l + 1) \in (o + 1)..Len(d)
    BY <1>2, <1>3, <1>4, <1>5
  <2>2. QED
    BY <1>7, <2>1 DEF Zeros
<1>9. ASSUME NEW z \in Zeros(d, o)
      PROVE  o + (l + 1) <= z
  <2> SUFFICES ASSUME ~(o + (l + 1) <= z)
               PROVE  FALSE
    OBVIOUS
  <2>1. z \in (o + 1)..Len(d) /\ d[z] = 0
    BY DEF Zeros
  <2>2. z - o \in 1..l /\ o + (z - o) = z
    BY <1>3, <1>4, <1>5, <2>1
  <2>3. QED
    BY <1>6, <2>1, <2>2
<1>10. Min(Zeros(d, o)) = o + (l + 1)
  <2>1. Zeros(d, o) \subseteq Int
    BY <1>3, <1>4 DEF Zeros
  <2>2. QED
    BY <1>8, <1>9, <2>1 DEF Min
<1>11. At(d, o, x)
  BY <1>2, <1>3, <1>4, <1>5, <1>6 DEF At
<1>12. SubSeq(d, o + 1, o + l) = x
  BY <1>5, <1>11, Found DEF Bytes
<1>13. (o + (l + 1)) - 1 = o + l /\ o + (l + 1) = o + Len(out)
  BY <1>2, <1>3, <1>4, <1>5
<1>14. QED
  BY <1>1, <1>8, <1>10, <1>12, <1>13, StringRead

\* So is a slice of bytes.
LEMMA BytesBack ==
    ASSUME NEW x \in Seq(Byte), EncodeLeaf("bytes", x).err = "none", NEW d, NEW o, NEW v,
           At(d, o, EncodeLeaf("bytes", x).out)
    PROVE  DecodeLeaf(d, "bytes", v, o) = Done(x, o + Len(EncodeLeaf("bytes", x).out))
<1>1. PICK out, head : out = EncodeLeaf("bytes", x).out /\ head = PutUint(2, Len(x))
  OBVIOUS
<1>2. /\ Len(out) = 2 + Len(x)
      /\ head \in Seq(Byte) /\ Len(head) = 2 /\ Uint(2, head) = Len(x)
      /\ \A i \in 1..2 : out[i] = head[i]
      /\ \A i \in 1..Len(x) : out[2 + i] = x[i]
  BY <1>1, BytesWritten
<1>3. /\ d \in Seq(Byte) /\ o \in Nat
      /\ Len(d) >= o + Len(out)
      /\ \A i \in 1..Len(out) : d[o + i] = out[i]
  BY <1>1 DEF At
<1>4. Len(x) \in Nat /\ Len(d) \in Nat
  BY <1>3, LenProperties
<1>5. PICK l : l = Len(x)
  OBVIOUS
<1>6. ASSUME NEW i \in 1..2
      PROVE  d[o + i] = head[i]
  <2>1. i \in 1..Len(out)
    BY <1>2, <1>4
  <2>2. QED
    BY <1>2, <1>3, <2>1
<1>7. ASSUME NEW i \in 1..l
      PROVE  d[(o + 2) + i] = x[i]
  <2>1. PICK j : j = 2 + i
    OBVIOUS
  <2>2. j \in 1..Len(out)
    BY <1>2, <1>4, <1>5, <2>1
  <2>3. o + j = (o + 2) + i
    BY <1>3, <2>1
  <2>4. d[o + j] = out[j] /\ out[j] = x[i]
    BY <1>2, <1>3, <1>5, <2>1, <2>2
  <2>5. QED
    BY <2>3, <2>4
<1>8. o + 2 \in Nat /\ Len(d) >= o + 2 /\ Len(d) >= (o + 2) + l /\ o + 2 + l = o + Len(out)
  BY <1>2, <1>3, <1>4, <1>5
<1>9. At(d, o, head)
  BY <1>2, <1>3, <1>6, <1>8 DEF At
<1>10. At(d, o + 2, x)
  BY <1>3, <1>5, <1>7, <1>8 DEF At
<1>11. ~Short(d, o, Len(head)) /\ Bytes(d, o, Len(head)) = head
  BY <1>9, Found
<1>12. ~Short(d, o, 2) /\ LengthAt(d, o) = l
  BY <1>2, <1>5, <1>11 DEF LengthAt
<1>13. ~Short(d, o + 2, l) /\ Bytes(d, o + 2, l) = x
  BY <1>5, <1>10, Found
<1>14. QED
  BY <1>1, <1>8, <1>12, <1>13, BytesRead

-----------------------------------------------------------------------------
\* Whatever native value is marshalled comes back, wherever it is in a message,
\* whatever comes before and after it and whatever the variable held, and exactly
\* its bytes are consumed: for bytes of any size.
THEOREM LeafRoundTrip ==
    ASSUME NEW k \in Leaf, NEW x \in Values(k), EncodeLeaf(k, x).err = "none",
           NEW pre \in Seq(Byte), NEW post \in Seq(Byte), NEW v
    PROVE  LET out == EncodeLeaf(k, x).out
           IN  DecodeLeaf(pre \o out \o post, k, v, Len(pre)) = Done(x, Len(pre) + Len(out))
<1> DEFINE out == EncodeLeaf(k, x).out
           d == pre \o out \o post
<1>1. PICK o : o = Len(pre)
  OBVIOUS
<1>2. PICK dd : dd = d
  OBVIOUS
<1>3. ASSUME out \in Seq(Byte)
      PROVE  At(dd, o, out)
  <2> HIDE DEF out
  <2>1. Len(pre) \in Nat /\ Len(out) \in Nat /\ Len(post) \in Nat
    BY <1>3, LenProperties
  <2>2. /\ d \in Seq(Byte)
        /\ Len(d) = Len(pre) + Len(out) + Len(post)
        /\ \A i \in 1..Len(out) : d[Len(pre) + i] = out[i]
    BY <1>3, Within
  <2> HIDE DEF d
  <2>3. QED
    BY <1>1, <1>2, <1>3, <2>1, <2>2 DEF At
<1>4. CASE k \in DOMAIN Width
  <2>1. out \in Seq(Byte) /\ Len(out) = Width[k] /\ FromBytes(k, out) = x
    BY <1>4, PrimitiveBack
  <2>2. ~Short(dd, o, Len(out)) /\ Bytes(dd, o, Len(out)) = out
    BY <1>3, <2>1, Found
  <2> HIDE DEF out, d
  <2>3. DecodeLeaf(dd, k, v, o) = Done(x, o + Len(out))
    BY <1>4, <2>1, <2>2, PrimitiveReadAt
  <2>4. QED
    BY <1>1, <1>2, <2>3 DEF d, out
<1>5. CASE k = "string"
  <2>1. x \in Seq(Byte)
    BY <1>5, Primitives DEF Values, Signed
  <2>2. out \in Seq(Byte)
    BY <1>5, <2>1, StringWritten
  <2>3. DecodeLeaf(dd, k, v, o) = Done(x, o + Len(out))
    BY <1>3, <1>5, <2>1, <2>2, StringBack
  <2>4. QED
    BY <1>1, <1>2, <2>3
<1>6. CASE k = "bytes"
  <2>1. x \in Seq(Byte)
    BY <1>6, Primitives DEF Values, Signed
  <2>2. out \in Seq(Byte)
    BY <1>6, <2>1, BytesWritten
  <2>3. DecodeLeaf(dd, k, v, o) = Done(x, o + Len(out))
    BY <1>3, <1>6, <2>1, <2>2, BytesBack
  <2>4. QED
    BY <1>1, <1>2, <2>3
<1>7. QED
  BY <1>4, <1>5, <1>6 DEF Leaf

\* The first n of the bytes s are in d from offset o on, and d ends there.
CutAt(d, o, s, n) ==
    /\ d \in Seq(Byte)
    /\ o \in Nat
    /\ n \in Nat
    /\ Len(d) = o + n
    /\ \A i \in 1..n : d[o + i] = s[i]

\* Bytes with their end cut off.
LEMMA CutSeq ==
    ASSUME NEW pre \in Seq(Byte), NEW s \in Seq(Byte), NEW n \in 0..Len(s)
    PROVE  CutAt(pre \o SubSeq(s, 1, n), Len(pre), s, n)
<1>1. Len(s) \in Nat /\ Len(pre) \in Nat
  BY LenProperties
<1>2. \A i \in 1..n : s[i] \in Byte
  BY <1>1, ElementOfSeq
<1>3. PICK t : t = SubSeq(s, 1, n)
  OBVIOUS
<1>4. /\ t \in Seq(Byte)
      /\ Len(t) = n
      /\ \A i \in 1..n : t[i] = s[i]
  <2>1. 1 \in Int /\ n \in Int /\ n - 1 + 1 = n /\ \A i \in 1..n : 1 + i - 1 = i
    BY <1>1
  <2>2. QED
    BY <1>1, <1>2, <1>3, <2>1, SubSeqProperties
<1>5. /\ pre \o t \in Seq(Byte)
      /\ Len(pre \o t) = Len(pre) + Len(t)
      /\ \A i \in 1..(Len(pre) + Len(t)) :
           (pre \o t)[i] = IF i <= Len(pre) THEN pre[i] ELSE t[i - Len(pre)]
  BY <1>4, ConcatProperties
<1>6. ASSUME NEW i \in 1..n
      PROVE  (pre \o t)[Len(pre) + i] = s[i]
  <2>1. /\ Len(pre) + i \in 1..(Len(pre) + Len(t))
        /\ ~(Len(pre) + i <= Len(pre))
        /\ (Len(pre) + i) - Len(pre) = i
    BY <1>1, <1>4
  <2>2. QED
    BY <1>4, <1>5, <2>1
<1>7. PICK d : d = pre \o t
  OBVIOUS
<1>8. /\ d \in Seq(Byte)
      /\ Len(d) = Len(pre) + n
      /\ \A i \in 1..n : d[Len(pre) + i] = s[i]
  BY <1>4, <1>5, <1>6, <1>7
<1>9. CutAt(d, Len(pre), s, n)
  BY <1>1, <1>8 DEF CutAt
<1>10. QED
  BY <1>3, <1>7, <1>9

\* A string without its zero is not found.
LEMMA StringCut ==
    ASSUME NEW x \in Seq(Byte), EncodeLeaf("string", x).err = "none", NEW d, NEW o, NEW v, NEW n,
           n < Len(EncodeLeaf("string", x).out), CutAt(d, o, EncodeLeaf("string", x).out, n)
    PROVE  DecodeLeaf(d, "string", v, o) = Missing(v, o)
<1>1. PICK out : out = EncodeLeaf("string", x).out
  OBVIOUS
<1>2. /\ Len(out) = Len(x) + 1
      /\ \A i \in 1..Len(x) : out[i] = x[i] /\ x[i] # 0
  BY <1>1, StringWritten
<1>3. /\ o \in Nat /\ n \in Nat /\ Len(d) = o + n
      /\ \A i \in 1..n : d[o + i] = out[i]
  BY <1>1 DEF CutAt
<1>4. Len(x) \in Nat
  BY LenProperties
<1>5. n <= Len(x)
  BY <1>1, <1>2, <1>3, <1>4
<1>6. ASSUME NEW z \in Zeros(d, o)
      PROVE  FALSE
  <2>1. z \in (o + 1)..(o + n) /\ d[z] = 0
    BY <1>3 DEF Zeros
  <2>2. PICK i : i = z - o
    OBVIOUS
  <2>3. i \in 1..n /\ i \in 1..Len(x) /\ o + i = z
    BY <1>3, <1>4, <1>5, <2>1, <2>2
  <2>4. d[o + i] = x[i] /\ x[i] # 0
    BY <1>2, <1>3, <2>3
  <2>5. QED
    BY <2>1, <2>3, <2>4
<1>7. QED
  BY <1>6, StringRead

\* Of a slice of bytes the length or some of the bytes are missing.
LEMMA BytesCut ==
    ASSUME NEW x \in Seq(Byte), EncodeLeaf("bytes", x).err = "none", NEW d, NEW o, NEW v, NEW n,
           n < Len(EncodeLeaf("bytes", x).out), CutAt(d, o, EncodeLeaf("bytes", x).out, n)
    PROVE  \/ DecodeLeaf(d, "bytes", v, o) = Missing(v, o)
           \/ DecodeLeaf(d, "bytes", v, o) = Missing(v, o + 2) /\ o + 2 <= Len(d)
<1>1. PICK out, head : out = EncodeLeaf("bytes", x).out /\ head = PutUint(2, Len(x))
  OBVIOUS
<1>2. /\ Len(out) = 2 + Len(x)
      /\ head \in Seq(Byte) /\ Len(head) = 2 /\ Uint(2, head) = Len(x)
      /\ \A i \in 1..2 : out[i] = head[i]
  BY <1>1, BytesWritten
<1>3. /\ d \in Seq(Byte) /\ o \in Nat /\ n \in Nat /\ Len(d) = o + n
      /\ \A i \in 1..n : d[o + i] = out[i]
  BY <1>1 DEF CutAt
<1>4. Len(x) \in Nat
  BY LenProperties
<1>5. n < 2 + Len(x)
  BY <1>1, <1>2
<1>6. CASE n < 2
  <2>1. Short(d, o, 2)
    BY <1>3, <1>6 DEF Short
  <2>2. QED
    BY <2>1, BytesRead
<1>7. CASE n >= 2
  <2>1. ASSUME NEW i \in 1..2
        PROVE  d[o + i] = head[i]
    <3>1. i \in 1..n
      BY <1>3, <1>7
    <3>2. QED
      BY <1>2, <1>3, <3>1
  <2>2. Len(d) >= o + 2
    BY <1>3, <1>7
  <2>3. At(d, o, head)
    BY <1>2, <1>3, <2>1, <2>2 DEF At
  <2>4. ~Short(d, o, Len(head)) /\ Bytes(d, o, Len(head)) = head
    BY <2>3, Found
  <2>5. ~Short(d, o, 2) /\ LengthAt(d, o) = Len(x)
    BY <1>2, <2>4 DEF LengthAt
  <2>6. Short(d, o + 2, Len(x))
    BY <1>3, <1>4, <1>5 DEF Short
  <2>7. QED
    BY <2>2, <1>3, <2>5, <2>6, BytesRead
<1>8. QED
  BY <1>3, <1>6, <1>7

\* A native value whose last bytes are missing is never taken for a value: the
\* decoder reports it, leaves the variable alone and stays within its input.
THEOREM LeafTruncated ==
    ASSUME NEW k \in Leaf, NEW x \in Values(k), EncodeLeaf(k, x).err = "none",
           NEW pre \in Seq(Byte), NEW v, NEW n \in 0..(Len(EncodeLeaf(k, x).out) - 1)
    PROVE  LET d == pre \o SubSeq(EncodeLeaf(k, x).out, 1, n)
               r == DecodeLeaf(d, k, v, Len(pre))
           IN  r.err = "eof" /\ r.val = v /\ r.off \in Len(pre)..Len(d)
<1>1. PICK out, d, o : /\ out = EncodeLeaf(k, x).out
                       /\ d = pre \o SubSeq(out, 1, n)
                       /\ o = Len(pre)
  OBVIOUS
<1>2. out \in Seq(Byte) => CutAt(d, o, out, n) /\ n < Len(out)
  <2> SUFFICES ASSUME out \in Seq(Byte)
               PROVE  CutAt(d, o, out, n) /\ n < Len(out)
    OBVIOUS
  <2>1. Len(out) \in Nat
    BY LenProperties
  <2>2. n \in 0..Len(out) /\ n < Len(out)
    BY <1>1, <2>1
  <2>3. QED
    BY <1>1, <2>2, CutSeq
<1>3. CASE k \in DOMAIN Width
  <2>1. out \in Seq(Byte) /\ Len(out) = Width[k]
    BY <1>1, <1>3, PrimitiveBack
  <2>2. o \in Nat /\ n \in Nat /\ Len(d) = o + n /\ n < Width[k] /\ Width[k] \in Nat
    BY <1>2, <1>3, <2>1, Widths DEF CutAt
  <2>3. Short(d, o, Width[k])
    BY <2>2 DEF Short
  <2>4. DecodeLeaf(d, k, v, o) = Missing(v, o)
    BY <1>3, <2>3, PrimitiveReadAt
  <2>5. o \in o..Len(d)
    BY <2>2
  <2>6. QED
    BY <1>1, <2>4, <2>5 DEF Missing
<1>4. CASE k = "string"
  <2>1. x \in Seq(Byte)
    BY <1>4, Primitives DEF Values, Signed
  <2>2. out \in Seq(Byte)
    BY <1>1, <1>4, <2>1, StringWritten
  <2>3. DecodeLeaf(d, k, v, o) = Missing(v, o)
    <3>1. /\ n < Len(EncodeLeaf("string", x).out)
          /\ CutAt(d, o, EncodeLeaf("string", x).out, n)
          /\ EncodeLeaf("string", x).err = "none"
      BY <1>1, <1>2, <1>4, <2>2
    <3>2. DecodeLeaf(d, "string", v, o) = Missing(v, o)
      BY <2>1, <3>1, StringCut
    <3>3. QED
      BY <1>4, <3>2
  <2>4. o \in o..Len(d)
    BY <1>2, <2>2 DEF CutAt
  <2>5. QED
    BY <1>1, <2>3, <2>4 DEF Missing
<1>5. CASE k = "bytes"
  <2>1. x \in Seq(Byte)
    BY <1>5, Primitives DEF Values, Signed
  <2>2. out \in Seq(Byte)
    BY <1>1, <1>5, <2>1, BytesWritten
  <2>3. \/ DecodeLeaf(d, k, v, o) = Missing(v, o)
        \/ DecodeLeaf(d, k, v, o) = Missing(v, o + 2) /\ o + 2 <= Len(d)
    <3>1. /\ n < Len(EncodeLeaf("bytes", x).out)
          /\ CutAt(d, o, EncodeLeaf("bytes", x).out, n)
          /\ EncodeLeaf("bytes", x).err = "none"
      BY <1>1, <1>2, <1>5, <2>2
    <3>2. \/ DecodeLeaf(d, "bytes", v, o) = Missing(v, o)
          \/ DecodeLeaf(d, "bytes", v, o) = Missing(v, o + 2) /\ o + 2 <= Len(d)
      BY <2>1, <3>1, BytesCut
    <3>3. QED
      BY <1>5, <3>2
  <2>4. o \in o..Len(d) /\ (o + 2 <= Len(d) => o + 2 \in o..Len(d))
    <3>1. o \in Nat /\ n \in Nat /\ Len(d) = o + n
      BY <1>2, <2>2 DEF CutAt
    <3>2. QED
      BY <3>1
  <2>5. QED
    BY <1>1, <2>3, <2>4 DEF Missing
<1>6. QED
  BY <1>3, <1>4, <1>5 DEF Leaf
=============================================================================
