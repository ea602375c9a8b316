----------------------------- MODULE PushProofs -----------------------------
(***************************************************************************)
(* Proofs about Push, for every set of connections and of requests and      *)
(* every length of a broadcast's list.                                     *)
(***************************************************************************)
EXTENDS Push, FiniteSetTheorems, SequenceTheorems, TLAPS

\* Where a request stands, and the length of its list.
HandlerShape ==
    \A r \in Request :
      /\ hpc[r] = "none" => bpc[r] = "none" /\ at[r] = 1
      /\ hpc[r] # "none" /\ path[r] \in {"close", "send", "sendAndClose"} => Len(list[r]) = 1
      /\ hpc[r] = "write" => path[r] \in {"send", "sendAndClose"}
      /\ hpc[r] \in {"disable", "cancel"} => path[r] = "close"
      /\ hpc[r] = "cancel" => list[r][1] \in disabled

\* What a handler leaves behind: the kick of sendAndClose, or the loop of a
\* broadcast, which is at a position of its list or behind it.
BackgroundShape ==
    \A r \in Request :
      /\ bpc[r] # "none" => hpc[r] \in {"answer", "answered"}
                            /\ path[r] \in {"sendAndClose", "broadcast"}
      /\ bpc[r] \in {"disable", "cancel"} => path[r] = "sendAndClose"
      /\ bpc[r] = "cancel" => list[r][1] \in disabled
      /\ bpc[r] \in {"lookup", "write"} => path[r] = "broadcast"
      /\ bpc[r] = "none" => at[r] = 1
      /\ bpc[r] = "lookup" => at[r] <= Len(list[r]) + 1
      /\ bpc[r] = "write" => at[r] <= Len(list[r])
      /\ path[r] = "broadcast" /\ bpc[r] = "done" => at[r] = Len(list[r]) + 1

\* A handler that has not written has left no message anywhere.
Unsent ==
    \A r \in Request : hpc[r] \in {"none", "begin", "write"} => \A c \in Conn : Times(r, c) = 0

\* The message of sendAndClose is in the queue before its kick begins.
KickAfterWord ==
    \A r \in Request :
      path[r] = "sendAndClose" /\ bpc[r] # "none" => Times(r, list[r][1]) = 1

\* How often the list of a request names a connection up to a position.
Named(r, c, n) == Cardinality({i \in 1..n : list[r][i] = c})

\* A broadcast has passed its message on as far as it has come.
PassedOn ==
    \A r \in Request : path[r] = "broadcast" =>
      \A c \in Conn :
        /\ Times(r, c) <= Named(r, c, at[r] - 1)
        /\ life[c] = "up" => Times(r, c) = Named(r, c, at[r] - 1)

\* The request that has ended a connection was a kick of that connection, which
\* had disabled it, and has nothing left to do.
EndedByKick ==
    \A c \in Conn : ender[c] # None =>
      /\ hpc[ender[c]] # "none"
      /\ path[ender[c]] \in {"close", "sendAndClose"}
      /\ list[ender[c]][1] = c
      /\ c \in disabled
      /\ path[ender[c]] = "sendAndClose" => bpc[ender[c]] = "done"

\* Who came earlier has been answered, and stays so.
EarlierAnswered ==
    \A r \in Request : \A q \in earlier[r] : hpc[q] = "answered"

\* The inductive invariant.
PushInv ==
    /\ PushTypeOK
    /\ HandlerShape /\ BackgroundShape
    /\ Unsent /\ KickAfterWord /\ PassedOn
    /\ EndedByKick /\ EarlierAnswered /\ SendOrder

-----------------------------------------------------------------------------
(* Sequences and counts.                                                   *)

\* A list of a request is a sequence, and its length is bounded.
LEMMA ListIsSeq ==
    ASSUME NEW l \in BoundedSeq(Conn, MaxList)
    PROVE  /\ l \in Seq(Conn) /\ Len(l) \in 0..MaxList
           /\ DOMAIN l = 1..Len(l) /\ \A i \in 1..Len(l) : l[i] \in Conn
<1>1. PICK n \in 0..MaxList : l \in [1..n -> Conn]
  BY DEF BoundedSeq, SeqOf
<1>2. n \in Nat
  BY <1>1, PushAssumption
<1>3. l \in Seq(Conn)
  BY <1>1, <1>2, IsASeq
<1>4. QED
  BY <1>1, <1>2, <1>3, LenProperties

\* The positions of a value in a sequence are finitely many.
LEMMA PositionsFinite ==
    ASSUME NEW n \in Nat, NEW P \in SUBSET (1..n)
    PROVE  IsFiniteSet(P) /\ Cardinality(P) \in Nat
<1>1. IsFiniteSet(1..n)
  BY FS_Interval
<1>2. QED
  BY <1>1, FS_Subset, FS_CardinalityType

\* An interval with one number more.
LEMMA IntervalNext ==
    ASSUME NEW n \in Nat
    PROVE  1..(n + 1) = (1..n) \cup {n + 1} /\ n + 1 \notin 1..n
OBVIOUS

\* How often a message is in a queue is a number.
LEMMA TimesNat ==
    ASSUME PushTypeOK, NEW r \in Request, NEW c \in Conn
    PROVE  Times(r, c) \in Nat
<1>1. DOMAIN queue[c] = 1..Len(queue[c]) /\ Len(queue[c]) \in Nat
  BY LenProperties DEF PushTypeOK
<1>2. QED
  BY <1>1, PositionsFinite DEF Times

\* Write puts one message more into one queue.
LEMMA WriteTimes ==
    ASSUME PushTypeOK, NEW q \in Request, NEW d \in Conn, Write(q, d),
           NEW r \in Request, NEW c \in Conn
    PROVE  Times(r, c)' = IF r = q /\ c = d THEN Times(r, c) + 1 ELSE Times(r, c)
<1> DEFINE n == Len(queue[c])
           P == {i \in DOMAIN queue[c] : queue[c][i] = r}
<1>0. /\ queue[c] \in Seq(Request) /\ n \in Nat /\ DOMAIN queue[c] = 1..n
      /\ P \subseteq 1..n
  BY LenProperties DEF PushTypeOK
<1>1. IsFiniteSet(P) /\ Cardinality(P) \in Nat
  BY <1>0, PositionsFinite
<1>2. CASE c # d
  BY <1>2 DEF Write, Times, PushTypeOK
<1>3. CASE c = d
  <2>1. /\ queue'[c] = Append(queue[c], q)
        /\ DOMAIN queue'[c] = 1..(n + 1)
        /\ \A i \in 1..n : queue'[c][i] = queue[c][i]
        /\ queue'[c][n + 1] = q
    BY <1>0, <1>3, AppendProperties DEF Write, PushTypeOK
  <2>2. CASE r = q
    <3>1. {i \in DOMAIN queue'[c] : queue'[c][i] = r} = P \cup {n + 1}
      <4>1. DOMAIN queue'[c] = (1..n) \cup {n + 1}
        BY <1>0, <2>1, IntervalNext
      <4>2. QED
        BY <1>0, <2>1, <2>2, <4>1
    <3>2. Cardinality(P \cup {n + 1}) = Cardinality(P) + 1
      BY <1>0, <1>1, IntervalNext, FS_AddElement
    <3>3. QED
      BY <1>3, <2>2, <3>1, <3>2 DEF Times
  <2>3. CASE r # q
    <3>1. {i \in DOMAIN queue'[c] : queue'[c][i] = r} = P
      BY <1>0, <2>1, <2>3
    <3>2. QED
      BY <2>3, <3>1 DEF Times
  <2>4. QED
    BY <2>2, <2>3
<1>4. QED
  BY <1>2, <1>3

\* A list names at one position more what it names up to there, and the
\* connection at that position.
LEMMA NamedNext ==
    ASSUME NEW r, NEW c, NEW n \in Nat
    PROVE  /\ Named(r, c, n) \in Nat
           /\ Named(r, c, n + 1) = IF list[r][n + 1] = c THEN Named(r, c, n) + 1 ELSE Named(r, c, n)
<1> DEFINE P == {i \in 1..n : list[r][i] = c}
<1>1. IsFiniteSet(P) /\ Cardinality(P) \in Nat
  BY PositionsFinite
<1>2. CASE list[r][n + 1] = c
  <2>1. {i \in 1..(n + 1) : list[r][i] = c} = P \cup {n + 1}
    BY <1>2, IntervalNext
  <2>2. Cardinality(P \cup {n + 1}) = Cardinality(P) + 1
    BY <1>1, IntervalNext, FS_AddElement
  <2>3. QED
    BY <1>1, <1>2, <2>1, <2>2 DEF Named
<1>3. CASE list[r][n + 1] # c
  <2>1. {i \in 1..(n + 1) : list[r][i] = c} = P
    BY <1>3, IntervalNext
  <2>2. QED
    BY <1>1, <1>3, <2>1 DEF Named
<1>4. QED
  BY <1>2, <1>3

-----------------------------------------------------------------------------
(* The steps.                                                              *)

\* A position in a list that is not at its end has a connection, and a position
\* after it within the bound.
LEMMA Position ==
    ASSUME PushTypeOK, NEW r \in Request, at[r] <= Len(list[r])
    PROVE  list[r][at[r]] \in Conn /\ at[r] + 1 \in 1..(MaxList + 1)
<1>1. list[r] \in BoundedSeq(Conn, MaxList) /\ at[r] \in 1..(MaxList + 1)
  BY DEF PushTypeOK
<1>2. Len(list[r]) \in 0..MaxList /\ \A i \in 1..Len(list[r]) : list[r][i] \in Conn
  BY <1>1, ListIsSeq
<1>3. QED
  BY <1>1, <1>2, PushAssumption

\* The one connection of a list of length 1.
LEMMA Target ==
    ASSUME PushTypeOK, NEW r \in Request, Len(list[r]) = 1
    PROVE  list[r][1] \in Conn
<1>1. \A i \in 1..Len(list[r]) : list[r][i] \in Conn
  BY ListIsSeq DEF PushTypeOK
<1>2. QED
  BY <1>1

\* Every step keeps the types.
LEMMA StepTypes ==
    ASSUME PushTypeOK, HandlerShape, BackgroundShape, [Next]_vars
    PROVE  PushTypeOK'
<1> USE DEF PushTypeOK, Handler, Background, connVars, reqVars
<1>1. ASSUME NEW r \in Request, NEW p \in Path, NEW l \in BoundedSeq(Conn, MaxList), Arrive(r, p, l)
      PROVE  PushTypeOK'
  BY <1>1 DEF Arrive
<1>2. ASSUME NEW r \in Request, Lookup(r)
      PROVE  PushTypeOK'
  BY <1>2 DEF Lookup
<1>3. ASSUME NEW r \in Request, Send(r) \/ SendAndClose(r)
      PROVE  PushTypeOK'
  <2>1. list[r][1] \in Conn
    BY <1>3, Target DEF Send, SendAndClose, HandlerShape
  <2>2. queue' = [queue EXCEPT ![list[r][1]] = Append(queue[list[r][1]], r)]
    BY <1>3 DEF Send, SendAndClose, Write
  <2>3. queue' \in [Conn -> Seq(Request)]
    BY <2>1, <2>2, AppendProperties
  <2>4. CASE Send(r)
    BY <2>3, <2>4 DEF Send
  <2>5. CASE SendAndClose(r)
    BY <2>3, <2>5 DEF SendAndClose
  <2>6. QED
    BY <1>3, <2>4, <2>5
<1>4. ASSUME NEW r \in Request, CloseDisable(r) \/ KickDisable(r)
      PROVE  PushTypeOK'
  <2>1. list[r][1] \in Conn
    BY <1>4, Target DEF CloseDisable, KickDisable, HandlerShape, BackgroundShape
  <2>2. CASE CloseDisable(r)
    BY <2>1, <2>2 DEF CloseDisable
  <2>3. CASE KickDisable(r)
    BY <2>1, <2>3 DEF KickDisable
  <2>4. QED
    BY <1>4, <2>2, <2>3
<1>5. ASSUME NEW r \in Request, CloseCancel(r) \/ KickCancel(r)
      PROVE  PushTypeOK'
  <2>1. CASE CloseCancel(r)
    BY <2>1 DEF CloseCancel, Cancel
  <2>2. CASE KickCancel(r)
    BY <2>2 DEF KickCancel, Cancel
  <2>3. QED
    BY <1>5, <2>1, <2>2
<1>6. ASSUME NEW r \in Request, Broadcast(r) \/ AnswerRequest(r)
      PROVE  PushTypeOK'
  <2>1. CASE Broadcast(r)
    BY <2>1 DEF Broadcast
  <2>2. CASE AnswerRequest(r)
    BY <2>2 DEF AnswerRequest
  <2>3. QED
    BY <1>6, <2>1, <2>2
<1>7. ASSUME NEW r \in Request, BroadcastLookup(r)
      PROVE  PushTypeOK'
  <2>1. CASE at[r] > Len(list[r])
    BY <1>7, <2>1 DEF BroadcastLookup
  <2>2. CASE ~(at[r] > Len(list[r]))
    <3>1. at[r] <= Len(list[r])
      BY <2>2, ListIsSeq
    <3>2. at[r] + 1 \in 1..(MaxList + 1)
      BY <3>1, Position
    <3>3. QED
      BY <1>7, <2>2, <3>2 DEF BroadcastLookup, Skip
  <2>3. QED
    BY <2>1, <2>2
<1>8. ASSUME NEW r \in Request, BroadcastWrite(r)
      PROVE  PushTypeOK'
  <2>1. list[r][at[r]] \in Conn /\ at[r] + 1 \in 1..(MaxList + 1)
    BY <1>8, Position DEF BroadcastWrite, BackgroundShape
  <2>2. queue' = [queue EXCEPT ![list[r][at[r]]] = Append(queue[list[r][at[r]]], r)]
    BY <1>8 DEF BroadcastWrite, Write
  <2>3. queue' \in [Conn -> Seq(Request)]
    BY <2>1, <2>2, AppendProperties
  <2>4. QED
    BY <1>8, <2>1, <2>3 DEF BroadcastWrite
<1>9. ASSUME NEW c \in Conn, Leave(c) \/ RemoveAgent(c)
      PROVE  PushTypeOK'
  BY <1>9 DEF Leave, RemoveAgent, Cancel
<1>10. CASE UNCHANGED vars
  BY <1>10 DEF vars
<1>11. QED
  BY <1>1, <1>2, <1>3, <1>4, <1>5, <1>6, <1>7, <1>8, <1>9, <1>10
     DEF Next, HandlerStep, BackgroundStep

\* Every step keeps where requests stand.
LEMMA StepShapes ==
    ASSUME PushTypeOK, HandlerShape, BackgroundShape, EarlierAnswered, [Next]_vars
    PROVE  HandlerShape' /\ BackgroundShape' /\ EarlierAnswered'
<1> USE DEF PushTypeOK, HandlerShape, BackgroundShape, EarlierAnswered,
            Handler, Background, connVars, reqVars
<1>1. ASSUME NEW r \in Request, NEW p \in Path, NEW l \in BoundedSeq(Conn, MaxList), Arrive(r, p, l)
      PROVE  HandlerShape' /\ BackgroundShape' /\ EarlierAnswered'
  <2>1. Len(l) \in Nat /\ Len(list[r]) \in Nat
    BY ListIsSeq
  <2>2. HandlerShape'
    BY <1>1 DEF Arrive, Path
  <2>3. BackgroundShape'
    BY <1>1, <2>1 DEF Arrive
  <2>4. EarlierAnswered'
    BY <1>1 DEF Arrive
  <2>5. QED
    BY <2>2, <2>3, <2>4
<1>2. ASSUME NEW r \in Request, Lookup(r)
      PROVE  HandlerShape' /\ BackgroundShape' /\ EarlierAnswered'
  BY <1>2 DEF Lookup, Path
<1>3. ASSUME NEW r \in Request, Send(r)
      PROVE  HandlerShape' /\ BackgroundShape' /\ EarlierAnswered'
  BY <1>3 DEF Send
<1>4. ASSUME NEW r \in Request, SendAndClose(r)
      PROVE  HandlerShape' /\ BackgroundShape' /\ EarlierAnswered'
  BY <1>4 DEF SendAndClose
<1>5. ASSUME NEW r \in Request, CloseDisable(r)
      PROVE  HandlerShape' /\ BackgroundShape' /\ EarlierAnswered'
  BY <1>5 DEF CloseDisable
<1>6. ASSUME NEW r \in Request, CloseCancel(r)
      PROVE  HandlerShape' /\ BackgroundShape' /\ EarlierAnswered'
  BY <1>6 DEF CloseCancel
<1>7. ASSUME NEW r \in Request, Broadcast(r)
      PROVE  HandlerShape' /\ BackgroundShape' /\ EarlierAnswered'
  <2>1. Len(list[r]) \in Nat
    BY ListIsSeq
  <2>2. QED
    BY <1>7, <2>1 DEF Broadcast
<1>8. ASSUME NEW r \in Request, AnswerRequest(r)
      PROVE  HandlerShape' /\ BackgroundShape' /\ EarlierAnswered'
  BY <1>8 DEF AnswerRequest
<1>9. ASSUME NEW r \in Request, KickDisable(r)
      PROVE  HandlerShape' /\ BackgroundShape' /\ EarlierAnswered'
  BY <1>9 DEF KickDisable
<1>10. ASSUME NEW r \in Request, KickCancel(r)
       PROVE  HandlerShape' /\ BackgroundShape' /\ EarlierAnswered'
  BY <1>10 DEF KickCancel
<1>11. ASSUME NEW r \in Request, BroadcastLookup(r)
       PROVE  HandlerShape' /\ BackgroundShape' /\ EarlierAnswered'
  <2>1. Len(list[r]) \in Nat
    BY ListIsSeq
  <2>2. CASE at[r] > Len(list[r])
    BY <1>11, <2>1, <2>2 DEF BroadcastLookup
  <2>3. CASE ~(at[r] > Len(list[r])) /\ Registered(list[r][at[r]])
    BY <1>11, <2>1, <2>3 DEF BroadcastLookup
  <2>4. CASE ~(at[r] > Len(list[r])) /\ ~Registered(list[r][at[r]])
    BY <1>11, <2>1, <2>4 DEF BroadcastLookup, Skip
  <2>5. QED
    BY <2>2, <2>3, <2>4
<1>12. ASSUME NEW r \in Request, BroadcastWrite(r)
       PROVE  HandlerShape' /\ BackgroundShape' /\ EarlierAnswered'
  <2>1. Len(list[r]) \in Nat
    BY ListIsSeq
  <2>2. QED
    BY <1>12, <2>1 DEF BroadcastWrite
<1>13. ASSUME NEW c \in Conn, Leave(c) \/ RemoveAgent(c)
       PROVE  HandlerShape' /\ BackgroundShape' /\ EarlierAnswered'
  BY <1>13 DEF Leave, RemoveAgent
<1>14. CASE UNCHANGED vars
  BY <1>14 DEF vars
<1>15. QED
  BY <1>1, <1>2, <1>3, <1>4, <1>5, <1>6, <1>7, <1>8, <1>9, <1>10, <1>11, <1>12, <1>13, <1>14
     DEF Next, HandlerStep, BackgroundStep

\* A message that is nowhere in a queue is at no position of it.
LEMMA TimesZero ==
    ASSUME PushTypeOK, NEW r \in Request, NEW c \in Conn, Times(r, c) = 0
    PROVE  \A i \in DOMAIN queue[c] : queue[c][i] # r
<1> DEFINE P == {i \in DOMAIN queue[c] : queue[c][i] = r}
<1>1. DOMAIN queue[c] = 1..Len(queue[c]) /\ Len(queue[c]) \in Nat
  BY LenProperties DEF PushTypeOK
<1>2. IsFiniteSet(P)
  BY <1>1, PositionsFinite
<1>3. P = {}
  BY <1>2, FS_EmptySet DEF Times
<1>4. QED
  BY <1>3

\* What is said of the queues.
Counts == Unsent /\ KickAfterWord /\ PassedOn /\ SendOrder

\* A step that writes nothing and moves no position keeps what is said of the
\* queues.
LEMMA QuietStep ==
    ASSUME Counts, UNCHANGED <<queue, path, list, at, earlier>>,
           \A r \in Request : hpc'[r] \in {"none", "begin", "write"}
                              => hpc[r] \in {"none", "begin", "write"},
           \A r \in Request : path[r] = "sendAndClose" /\ bpc'[r] # "none" => bpc[r] # "none",
           \A c \in Conn : life'[c] = "up" => life[c] = "up"
    PROVE  Counts'
<1>1. \A r, c : Times(r, c)' = Times(r, c)
  BY DEF Times
<1>2. \A r, c : Named(r, c, at[r] - 1)' = Named(r, c, at[r] - 1)
  BY DEF Named
<1>3. Unsent' /\ KickAfterWord' /\ PassedOn'
  BY <1>1, <1>2 DEF Counts, Unsent, KickAfterWord, PassedOn
<1>4. SendOrder'
  BY DEF Counts, SendOrder
<1>5. QED
  BY <1>3, <1>4 DEF Counts

\* A message that is written is behind the messages of all whose requests had been
\* answered when its own came.
LEMMA WriteOrder ==
    ASSUME PushTypeOK, SendOrder, NEW q \in Request, NEW d \in Conn, Write(q, d),
           UNCHANGED <<path, earlier>>,
           \A r \in Request : q \in earlier[r] => path[q] \notin {"send", "sendAndClose"}
    PROVE  SendOrder'
<1> SUFFICES ASSUME NEW x \in Request, NEW y \in Request, NEW c \in Conn,
                    y \in earlier[x], path[y] \in {"send", "sendAndClose"},
                    NEW i \in DOMAIN queue'[c], NEW j \in DOMAIN queue'[c],
                    queue'[c][i] = x, queue'[c][j] = y
             PROVE  j < i
  BY DEF SendOrder
<1>1. y # q
  OBVIOUS
<1>2. CASE c # d
  BY <1>2 DEF Write, SendOrder, PushTypeOK
<1>3. CASE c = d
  <2> DEFINE n == Len(queue[c])
  <2>1. queue[c] \in Seq(Request) /\ n \in Nat /\ DOMAIN queue[c] = 1..n
    BY LenProperties DEF PushTypeOK
  <2>2. /\ queue'[c] = Append(queue[c], q)
        /\ DOMAIN queue'[c] = 1..(n + 1)
        /\ \A k \in 1..n : queue'[c][k] = queue[c][k]
        /\ queue'[c][n + 1] = q
    BY <1>3, <2>1, AppendProperties DEF Write, PushTypeOK
  <2> HIDE DEF n
  <2>3. j \in 1..n
    BY <1>1, <2>1, <2>2
  <2>4. CASE i \in 1..n
    BY <2>1, <2>2, <2>3, <2>4 DEF SendOrder
  <2>5. CASE i = n + 1
    BY <2>1, <2>3, <2>5
  <2>6. QED
    BY <2>1, <2>2, <2>4, <2>5
<1>4. QED
  BY <1>2, <1>3

\* Every step keeps what is said of the queues.
LEMMA StepCounts ==
    ASSUME PushTypeOK, HandlerShape, BackgroundShape, EarlierAnswered, Counts, [Next]_vars
    PROVE  Counts'
<1> USE DEF PushTypeOK, Handler, Background, connVars, reqVars
<1>1. ASSUME NEW r \in Request, NEW p \in Path, NEW l \in BoundedSeq(Conn, MaxList), Arrive(r, p, l)
      PROVE  Counts'
  <2>1. hpc[r] = "none" /\ bpc[r] = "none" /\ at[r] = 1 /\ \A c \in Conn : Times(r, c) = 0
    BY <1>1 DEF Arrive, HandlerShape, Counts, Unsent
  <2>2. /\ UNCHANGED <<queue, life, bpc, at>>
        /\ hpc' = [hpc EXCEPT ![r] = "begin"] /\ path' = [path EXCEPT ![r] = p]
        /\ list' = [list EXCEPT ![r] = l]
        /\ \A x \in Request : x # r => earlier'[x] = earlier[x]
    BY <1>1 DEF Arrive
  <2>3. \A x, c : Times(x, c)' = Times(x, c)
    BY <2>2 DEF Times
  <2>4. \A x \in Request, c \in Conn :
          x # r => Named(x, c, at[x] - 1)' = Named(x, c, at[x] - 1)
    BY <2>2 DEF Named
  <2>5. Unsent' /\ KickAfterWord'
    BY <2>1, <2>2, <2>3 DEF Counts, Unsent, KickAfterWord
  <2>6. PassedOn'
    <3>1. \A c \in Conn : Named(r, c, at[r] - 1)' = 0
      <4>1. at'[r] - 1 = 0 /\ 1..0 = {}
        BY <2>1, <2>2
      <4>2. \A c : {i \in 1..(at'[r] - 1) : list'[r][i] = c} = {}
        BY <4>1
      <4>3. QED
        BY <4>2, FS_EmptySet DEF Named
    <3>2. QED
      BY <2>1, <2>2, <2>3, <2>4, <3>1 DEF Counts, PassedOn
  <2>7. SendOrder'
    <3>1. \A c \in Conn : \A i \in DOMAIN queue[c] : queue[c][i] # r
      BY <2>1, TimesZero
    <3>2. \A x \in Request : r \notin earlier[x]
      BY <2>1 DEF EarlierAnswered
    <3>3. QED
      BY <2>2, <3>1, <3>2 DEF Counts, SendOrder
  <2>8. QED
    BY <2>5, <2>6, <2>7 DEF Counts
<1>2. ASSUME NEW r \in Request, Lookup(r) \/ CloseDisable(r) \/ CloseCancel(r) \/ AnswerRequest(r)
      PROVE  Counts'
  <2>1. /\ UNCHANGED <<queue, path, list, at, earlier, bpc>>
        /\ \A x \in Request : hpc'[x] \in {"none", "begin", "write"}
                              => hpc[x] \in {"none", "begin", "write"}
        /\ \A c \in Conn : life'[c] = "up" => life[c] = "up"
    BY <1>2 DEF Lookup, CloseDisable, CloseCancel, AnswerRequest, Cancel
  <2>2. QED
    BY <2>1, QuietStep
<1>3. ASSUME NEW r \in Request, Send(r) \/ SendAndClose(r)
      PROVE  Counts'
  <2>0. list[r][1] \in Conn
    BY <1>3, Target DEF Send, SendAndClose, HandlerShape
  <2> PICK d \in Conn : d = list[r][1]
    BY <2>0
  <2>1. /\ hpc[r] = "write" /\ hpc'[r] = "answer" /\ Write(r, d)
        /\ path[r] \in {"send", "sendAndClose"}
        /\ \A x \in Request : x # r => hpc'[x] = hpc[x] /\ bpc'[x] = bpc[x]
        /\ UNCHANGED <<path, list, at, earlier, life>>
    BY <1>3 DEF Send, SendAndClose
  <2>2. \A x \in Request, c \in Conn :
          Times(x, c)' = IF x = r /\ c = d THEN Times(x, c) + 1 ELSE Times(x, c)
    BY <2>1, WriteTimes
  <2>3. Times(r, d) = 0
    BY <2>1 DEF Counts, Unsent
  <2>4. \A x \in Request, c \in Conn : x # r => Times(x, c)' = Times(x, c)
    BY <2>2
  <2>5. \A x, c : Named(x, c, at[x] - 1)' = Named(x, c, at[x] - 1)
    BY <2>1 DEF Named
  <2>6. Unsent'
    BY <2>1, <2>4 DEF Counts, Unsent
  <2>7. KickAfterWord'
    <3>1. Times(r, d)' = 1
      BY <2>2, <2>3
    <3>2. ASSUME NEW x \in Request, x # r, path[x] = "sendAndClose", bpc[x] # "none"
          PROVE  Times(x, list[x][1])' = 1
      <4>1. list[x][1] \in Conn
        BY <3>2, Target DEF HandlerShape, BackgroundShape
      <4>2. Times(x, list[x][1]) = 1 /\ list'[x] = list[x]
        BY <2>1, <3>2 DEF Counts, KickAfterWord
      <4>3. QED
        BY <2>2, <3>2, <4>1, <4>2
    <3>3. QED
      BY <2>1, <3>1, <3>2 DEF KickAfterWord
  <2>8. PassedOn'
    <3>1. ASSUME NEW x \in Request, path[x] = "broadcast", NEW c \in Conn
          PROVE  /\ Times(x, c)' <= Named(x, c, at[x] - 1)'
                 /\ life'[c] = "up" => Times(x, c)' = Named(x, c, at[x] - 1)'
      <4>1. Times(x, c)' = Times(x, c) /\ Named(x, c, at[x] - 1)' = Named(x, c, at[x] - 1)
        BY <2>1, <2>4, <2>5, <3>1
      <4>2. /\ Times(x, c) <= Named(x, c, at[x] - 1)
            /\ life[c] = "up" => Times(x, c) = Named(x, c, at[x] - 1)
        BY <3>1 DEF Counts, PassedOn
      <4>3. QED
        BY <2>1, <4>1, <4>2
    <3>2. QED
      BY <2>1, <3>1 DEF PassedOn
  <2>9. SendOrder'
    BY <2>1, WriteOrder DEF Counts, EarlierAnswered
  <2>10. QED
    BY <2>6, <2>7, <2>8, <2>9 DEF Counts
<1>4. ASSUME NEW r \in Request, Broadcast(r) \/ KickDisable(r) \/ KickCancel(r)
      PROVE  Counts'
  <2>1. /\ UNCHANGED <<queue, path, list, at, earlier>>
        /\ \A x \in Request : hpc'[x] \in {"none", "begin", "write"}
                              => hpc[x] \in {"none", "begin", "write"}
        /\ \A x \in Request : path[x] = "sendAndClose" /\ bpc'[x] # "none" => bpc[x] # "none"
        /\ \A c \in Conn : life'[c] = "up" => life[c] = "up"
    BY <1>4 DEF Broadcast, KickDisable, KickCancel, Cancel
  <2>2. QED
    BY <2>1, QuietStep
<1>5. ASSUME NEW r \in Request, BroadcastLookup(r)
      PROVE  Counts'
  <2>1. /\ UNCHANGED <<queue, path, list, earlier, hpc, life>>
        /\ bpc[r] = "lookup" /\ \A x \in Request : x # r => bpc'[x] = bpc[x]
        /\ path[r] = "broadcast"
    BY <1>5 DEF BroadcastLookup, BackgroundShape
  <2>2. CASE UNCHANGED at
    BY <2>1, <2>2, QuietStep
  <2>3. CASE at' = [at EXCEPT ![r] = at[r] + 1] /\ ~Registered(list[r][at[r]])
    <3>1. at[r] - 1 \in Nat /\ at'[r] - 1 = (at[r] - 1) + 1 /\ (at[r] - 1) + 1 = at[r]
      <4>1. at[r] \in Nat \ {0}
        BY PushAssumption
      <4>2. at'[r] = at[r] + 1
        BY <2>3
      <4>3. QED
        BY <4>1, <4>2
    <3>2. \A c \in Conn :
            /\ Named(r, c, at[r] - 1) \in Nat
            /\ \/ Named(r, c, (at[r] - 1) + 1) = Named(r, c, at[r] - 1)
               \/ Named(r, c, (at[r] - 1) + 1) = Named(r, c, at[r] - 1) + 1
            /\ list[r][at[r]] # c => Named(r, c, (at[r] - 1) + 1) = Named(r, c, at[r] - 1)
      BY <3>1, NamedNext
    <3>3. \A c : Named(r, c, at[r] - 1)' = Named(r, c, (at[r] - 1) + 1)
      BY <2>1, <3>1 DEF Named
    <3>4. \A x \in Request, c \in Conn :
            x # r => Named(x, c, at[x] - 1)' = Named(x, c, at[x] - 1)
      BY <2>1, <2>3 DEF Named
    <3>5. \A x, c : Times(x, c)' = Times(x, c)
      BY <2>1 DEF Times
    <3>6. ASSUME NEW c \in Conn
          PROVE  /\ Times(r, c) <= Named(r, c, (at[r] - 1) + 1)
                 /\ life[c] = "up" => Times(r, c) = Named(r, c, (at[r] - 1) + 1)
      <4>1. /\ Times(r, c) <= Named(r, c, at[r] - 1)
            /\ life[c] = "up" => Times(r, c) = Named(r, c, at[r] - 1)
        BY <2>1 DEF Counts, PassedOn
      <4>2. life[c] = "up" => list[r][at[r]] # c
        BY <2>3 DEF Registered
      <4>3. Times(r, c) \in Nat /\ Named(r, c, at[r] - 1) \in Nat
        BY <3>2, TimesNat
      <4>4. CASE Named(r, c, (at[r] - 1) + 1) = Named(r, c, at[r] - 1)
        BY <4>1, <4>4
      <4>5. CASE Named(r, c, (at[r] - 1) + 1) = Named(r, c, at[r] - 1) + 1 /\ life[c] # "up"
        BY <4>1, <4>3, <4>5
      <4>6. QED
        BY <3>2, <4>2, <4>4, <4>5
    <3>7. PassedOn'
      <4>1. \A c \in Conn :
              /\ Times(r, c)' <= Named(r, c, at[r] - 1)'
              /\ life'[c] = "up" => Times(r, c)' = Named(r, c, at[r] - 1)'
        BY <2>1, <3>3, <3>5, <3>6
      <4>2. QED
        BY <2>1, <3>4, <3>5, <4>1 DEF Counts, PassedOn
    <3>8. Unsent' /\ KickAfterWord'
      BY <2>1, <3>5 DEF Counts, Unsent, KickAfterWord
    <3>9. SendOrder'
      BY <2>1 DEF Counts, SendOrder
    <3>10. QED
      BY <3>7, <3>8, <3>9 DEF Counts
  <2>4. QED
    BY <1>5, <2>2, <2>3 DEF BroadcastLookup, Skip
<1>6. ASSUME NEW r \in Request, BroadcastWrite(r)
      PROVE  Counts'
  <2>0. list[r][at[r]] \in Conn
    BY <1>6, Position DEF BroadcastWrite, BackgroundShape
  <2> PICK d \in Conn : d = list[r][at[r]]
    BY <2>0
  <2>1. /\ UNCHANGED <<path, list, earlier, hpc, life>>
        /\ bpc[r] = "write" /\ \A x \in Request : x # r => bpc'[x] = bpc[x]
        /\ path[r] = "broadcast" /\ hpc[r] \in {"answer", "answered"}
        /\ Write(r, d) /\ at' = [at EXCEPT ![r] = at[r] + 1]
    BY <1>6 DEF BroadcastWrite, BackgroundShape
  <2>2. at[r] - 1 \in Nat /\ at'[r] - 1 = (at[r] - 1) + 1 /\ (at[r] - 1) + 1 = at[r]
    <3>1. at[r] \in Nat \ {0}
      BY PushAssumption
    <3>2. at'[r] = at[r] + 1
      BY <2>1
    <3>3. QED
      BY <3>1, <3>2
  <2>3. \A c \in Conn :
          /\ Named(r, c, at[r] - 1) \in Nat
          /\ Named(r, c, (at[r] - 1) + 1) =
               IF c = d THEN Named(r, c, at[r] - 1) + 1 ELSE Named(r, c, at[r] - 1)
    BY <2>2, NamedNext
  <2>4. \A c : Named(r, c, at[r] - 1)' = Named(r, c, (at[r] - 1) + 1)
    BY <2>1, <2>2 DEF Named
  <2>5. \A x \in Request, c \in Conn :
          x # r => Named(x, c, at[x] - 1)' = Named(x, c, at[x] - 1)
    BY <2>1 DEF Named
  <2>6. \A x \in Request, c \in Conn :
          Times(x, c)' = IF x = r /\ c = d THEN Times(x, c) + 1 ELSE Times(x, c)
    BY <2>1, WriteTimes
  <2>7. ASSUME NEW c \in Conn
        PROVE  /\ Times(r, c)' <= Named(r, c, (at[r] - 1) + 1)
               /\ life[c] = "up" => Times(r, c)' = Named(r, c, (at[r] - 1) + 1)
    <3>1. /\ Times(r, c) <= Named(r, c, at[r] - 1)
          /\ life[c] = "up" => Times(r, c) = Named(r, c, at[r] - 1)
      BY <2>1 DEF Counts, PassedOn
    <3>2. Times(r, c) \in Nat /\ Named(r, c, at[r] - 1) \in Nat
      BY <2>3, TimesNat
    <3>3. CASE c = d
      <4>1. /\ Times(r, c)' = Times(r, c) + 1
            /\ Named(r, c, (at[r] - 1) + 1) = Named(r, c, at[r] - 1) + 1
        BY <2>3, <2>6, <3>3
      <4>2. QED
        BY <3>1, <3>2, <4>1
    <3>4. CASE c # d
      <4>1. /\ Times(r, c)' = Times(r, c)
            /\ Named(r, c, (at[r] - 1) + 1) = Named(r, c, at[r] - 1)
        BY <2>3, <2>6, <3>4
      <4>2. QED
        BY <3>1, <4>1
    <3>5. QED
      BY <3>3, <3>4
  <2>8. PassedOn'
    BY <2>1, <2>4, <2>5, <2>6, <2>7 DEF Counts, PassedOn
  <2>9. Unsent'
    BY <2>1, <2>6 DEF Counts, Unsent
  <2>10. KickAfterWord'
    <3>1. ASSUME NEW x \in Request, path[x] = "sendAndClose", bpc[x] # "none"
          PROVE  Times(x, list[x][1])' = 1
      <4>1. list[x][1] \in Conn
        BY <3>1, Target DEF HandlerShape, BackgroundShape
      <4>2. QED
        BY <2>1, <2>6, <3>1, <4>1 DEF Counts, KickAfterWord
    <3>2. QED
      BY <2>1, <3>1 DEF KickAfterWord
  <2>11. SendOrder'
    BY <2>1, WriteOrder DEF Counts
  <2>12. QED
    BY <2>8, <2>9, <2>10, <2>11 DEF Counts
<1>7. ASSUME NEW c \in Conn, Leave(c) \/ RemoveAgent(c)
      PROVE  Counts'
  <2>1. /\ UNCHANGED <<queue, path, list, at, earlier, hpc, bpc>>
        /\ \A d \in Conn : life'[d] = "up" => life[d] = "up"
    BY <1>7 DEF Leave, RemoveAgent, Cancel
  <2>2. QED
    BY <2>1, QuietStep
<1>8. CASE UNCHANGED vars
  <2>1. UNCHANGED <<queue, path, list, at, earlier, hpc, bpc, life>>
    BY <1>8 DEF vars
  <2>2. QED
    BY <2>1, QuietStep
<1>9. QED
  BY <1>1, <1>2, <1>3, <1>4, <1>5, <1>6, <1>7, <1>8 DEF Next, HandlerStep, BackgroundStep

\* Every step keeps what is known of the request that has ended a connection.
LEMMA StepEnded ==
    ASSUME PushTypeOK, HandlerShape, BackgroundShape, EndedByKick, [Next]_vars
    PROVE  EndedByKick'
<1> USE DEF PushTypeOK, HandlerShape, BackgroundShape, EndedByKick,
            Handler, Background, connVars, reqVars
<1>1. ASSUME NEW r \in Request, NEW p \in Path, NEW l \in BoundedSeq(Conn, MaxList), Arrive(r, p, l)
      PROVE  EndedByKick'
  BY <1>1, PushAssumption DEF Arrive
<1>2. ASSUME NEW r \in Request,
             Lookup(r) \/ Send(r) \/ CloseDisable(r) \/ AnswerRequest(r) \/ BroadcastLookup(r)
      PROVE  EndedByKick'
  <2>1. /\ UNCHANGED <<path, list, ender>> /\ disabled \subseteq disabled'
        /\ \A x \in Request : /\ hpc[x] # "none" => hpc'[x] # "none"
                              /\ bpc[x] = "done" => bpc'[x] = "done"
    BY <1>2 DEF Lookup, Send, CloseDisable, AnswerRequest, BroadcastLookup
  <2>2. QED
    BY <2>1, PushAssumption
<1>3. ASSUME NEW r \in Request, SendAndClose(r) \/ Broadcast(r)
      PROVE  EndedByKick'
  <2>1. bpc[r] = "none" /\ \A c \in Conn : ender[c] = r => path[r] # "sendAndClose"
    <3>1. hpc[r] \in {"begin", "write"}
      BY <1>3 DEF SendAndClose, Broadcast
    <3>2. bpc[r] = "none"
      BY <3>1
    <3>3. ASSUME NEW c \in Conn, ender[c] = r
          PROVE  path[r] # "sendAndClose"
      <4>1. ender[c] # None
        BY <3>3, PushAssumption
      <4>2. path[ender[c]] = "sendAndClose" => bpc[ender[c]] = "done"
        BY <4>1
      <4>3. QED
        BY <3>2, <3>3, <4>2
    <3>4. QED
      BY <3>2, <3>3
  <2>2. /\ UNCHANGED <<path, list, ender, disabled>>
        /\ \A x \in Request : /\ hpc[x] # "none" => hpc'[x] # "none"
                              /\ x # r => bpc'[x] = bpc[x]
    BY <1>3 DEF SendAndClose, Broadcast
  <2>3. QED
    BY <2>1, <2>2, PushAssumption
<1>4. ASSUME NEW r \in Request, CloseCancel(r)
      PROVE  EndedByKick'
  BY <1>4, PushAssumption DEF CloseCancel, Cancel
<1>5. ASSUME NEW r \in Request, KickCancel(r)
      PROVE  EndedByKick'
  BY <1>5, PushAssumption DEF KickCancel, Cancel
<1>6. ASSUME NEW r \in Request, KickDisable(r) \/ BroadcastWrite(r)
      PROVE  EndedByKick'
  <2>1. /\ UNCHANGED <<path, list, ender, hpc>> /\ disabled \subseteq disabled'
        /\ \A x \in Request : bpc[x] = "done" => bpc'[x] = "done"
    BY <1>6 DEF KickDisable, BroadcastWrite
  <2>2. QED
    BY <2>1, PushAssumption
<1>7. ASSUME NEW c \in Conn, Leave(c) \/ RemoveAgent(c)
      PROVE  EndedByKick'
  BY <1>7 DEF Leave, RemoveAgent, Cancel
<1>8. CASE UNCHANGED vars
  BY <1>8 DEF vars
<1>9. QED
  BY <1>1, <1>2, <1>3, <1>4, <1>5, <1>6, <1>7, <1>8 DEF Next, HandlerStep, BackgroundStep

\* Nothing has been sent at the beginning.
LEMMA InitInv == Init => PushInv
<1> SUFFICES ASSUME Init
             PROVE  PushInv
  OBVIOUS
<1>1. PushTypeOK
  <2>1. \A r \in Request : list[r] = <<>>
    BY DEF Init
  <2>2. <<>> \in BoundedSeq(Conn, MaxList)
    BY PushAssumption DEF BoundedSeq, SeqOf
  <2>3. QED
    BY <2>2, PushAssumption, EmptySeq DEF Init, PushTypeOK, Path
<1>2. \A r, c : c \in Conn => Times(r, c) = 0
  <2>1. \A r, c : c \in Conn => {i \in DOMAIN queue[c] : queue[c][i] = r} = {}
    BY EmptySeq DEF Init
  <2>2. QED
    BY <2>1, FS_EmptySet DEF Times
<1>3. HandlerShape /\ BackgroundShape /\ EndedByKick /\ EarlierAnswered
  BY DEF Init, HandlerShape, BackgroundShape, EndedByKick, EarlierAnswered
<1>4. Unsent /\ KickAfterWord /\ PassedOn /\ SendOrder
  BY <1>2 DEF Init, Unsent, KickAfterWord, PassedOn, SendOrder
<1>5. QED
  BY <1>1, <1>3, <1>4 DEF PushInv

\* Every step keeps the invariant.
LEMMA InvKept == PushInv /\ [Next]_vars => PushInv'
BY StepTypes, StepShapes, StepCounts, StepEnded DEF PushInv, Counts

\* The invariant holds always.
LEMMA PushInvariant == Spec => []PushInv
BY InitInv, InvKept, PTL DEF Spec

-----------------------------------------------------------------------------
(* The theorems.                                                           *)

\* Connections, requests, handlers and what they leave behind have their types.
THEOREM PushTypeCorrect == Spec => []PushTypeOK
<1>1. PushInv => PushTypeOK
  BY DEF PushInv
<1>2. QED
  BY <1>1, PushInvariant, PTL

\* The message of a send or sendAndClose that was answered (Gateway.Run) comes
\* before the message of every request made after that, for any number of
\* connections and requests, whatever other handlers, broadcasts and ends of
\* connections come between.
THEOREM SendsInOrder == Spec => []SendOrder
<1>1. PushInv => SendOrder
  BY DEF PushInv
<1>2. QED
  BY <1>1, PushInvariant, PTL

\* A broadcast that is through has given its message to the connections of its
\* list that are still up as often as the list names them, and to no other, for
\* lists of any length, with repetitions, and connections that end meanwhile.
THEOREM BroadcastIsExact == Spec => []BroadcastExact
<1>1. PushInv => BroadcastExact
  <2> SUFFICES ASSUME PushInv, NEW r \in Request, path[r] = "broadcast", bpc[r] = "done",
                      NEW c \in Conn
               PROVE  /\ Times(r, c) <= Cardinality({i \in DOMAIN list[r] : list[r][i] = c})
                      /\ life[c] = "up" =>
                           Times(r, c) = Cardinality({i \in DOMAIN list[r] : list[r][i] = c})
    BY DEF BroadcastExact
  <2>1. list[r] \in BoundedSeq(Conn, MaxList) /\ at[r] = Len(list[r]) + 1
    BY DEF PushInv, PushTypeOK, BackgroundShape
  <2>2. Len(list[r]) \in Nat /\ DOMAIN list[r] = 1..Len(list[r])
    BY <2>1, ListIsSeq, PushAssumption
  <2>3. at[r] - 1 = Len(list[r])
    BY <2>1, <2>2
  <2>4. Named(r, c, at[r] - 1) = Cardinality({i \in DOMAIN list[r] : list[r][i] = c})
    BY <2>2, <2>3 DEF Named
  <2>5. QED
    BY <2>4 DEF PushInv, PassedOn
<1>2. QED
  BY <1>1, PushInvariant, PTL

\* When a kick has ended a connection, forwarding had been stopped, and the
\* message of sendAndClose was in the queue, once.
THEOREM WordBeforeEnd == Spec => []LastWord
<1>1. PushInv => LastWord
  <2> SUFFICES ASSUME PushInv, NEW c \in Conn, ender[c] # None
               PROVE  /\ c \in disabled
                      /\ path[ender[c]] = "sendAndClose" => Times(ender[c], c) = 1
    BY DEF LastWord
  <2>1. ender[c] \in Request
    BY DEF PushInv, PushTypeOK
  <2>2. /\ c \in disabled /\ list[ender[c]][1] = c
        /\ path[ender[c]] = "sendAndClose" => bpc[ender[c]] = "done"
    BY DEF PushInv, EndedByKick
  <2>3. QED
    BY <2>1, <2>2 DEF PushInv, KickAfterWord
<1>2. QED
  BY <1>1, PushInvariant, PTL

\* The service keeps its types, and the last word comes before the end.
THEOREM PushIsSafe == Spec => []PushSafe
BY PushTypeCorrect, WordBeforeEnd, PTL DEF PushSafe

-----------------------------------------------------------------------------
(* The service works on the directory that Gateway keeps.                  *)

Stages == [c \in Conn |-> StageOf[life[c]]]
Dir == [c \in {d \in Conn : Registered(d)} |-> c]
Helds == [r \in Request |-> Held(r)]

\* The stages of a connection.
LEMMA StageFacts ==
    StageOf["up"] = "listed" /\ StageOf["cancelled"] = "cancelled" /\ StageOf["gone"] = "ended"
BY DEF StageOf

\* A connection that moves from one stage to the next.
LEMMA StageMoves ==
    ASSUME PushTypeOK, NEW c \in Conn, NEW s, life' = [life EXCEPT ![c] = s]
    PROVE  Stages' = [Stages EXCEPT ![c] = StageOf[s]]
BY DEF PushTypeOK, Stages

\* Everybody finds itself under its uid.
LEMMA OwnEntry ==
    ASSUME NEW c \in Conn
    PROVE  Listing!Entries(c) = {d \in {c} : Registered(d)}
BY DEF Listing!Entries

\* A step that touches neither connections nor what handlers hold.
LEMMA NothingSeen ==
    ASSUME life' = life, Helds' = Helds
    PROVE  UNCHANGED Listing!vars
BY DEF Helds, Listing!vars, Registered

\* The handler of r is through with what it found.
LEMMA LetGo ==
    ASSUME NEW r \in Request, life' = life, Helds' = [Helds EXCEPT ![r] = None]
    PROVE  [Listing!Next]_(Listing!vars)
<1>1. Listing!Release(r)
  BY DEF Listing!Release, Helds, Registered
<1>2. QED
  BY <1>1 DEF Listing!Next

\* GetAgent finds a connection that is up.
LEMMA LookedUp ==
    ASSUME NEW r \in Request, NEW c \in Conn, life' = life, Registered(c),
           Helds' = [Helds EXCEPT ![r] = c]
    PROVE  [Listing!Next]_(Listing!vars)
<1>1. Listing!Find(r, c)
  BY DEF Listing!Find, Helds, Registered
<1>2. QED
  BY <1>1 DEF Listing!Next

\* A kick cancels the connection the handler holds, if nobody did before.
LEMMA Kicked ==
    ASSUME PushTypeOK, NEW r \in Request, NEW c \in Conn, Held(r) = c, Cancel(c, r),
           Helds' = [Helds EXCEPT ![r] = None]
    PROVE  [Listing!Next]_(Listing!vars)
<1>1. CASE life[c] = "up"
  <2>1. life' = [life EXCEPT ![c] = "cancelled"]
    BY <1>1 DEF Cancel
  <2>2. Stages' = [Stages EXCEPT ![c] = "cancelled"] /\ Stages[c] = "listed"
    <3>1. Stages' = [Stages EXCEPT ![c] = StageOf["cancelled"]]
      BY <2>1, StageMoves
    <3>2. Stages[c] = StageOf["up"]
      BY <1>1 DEF Stages
    <3>3. QED
      BY <3>1, <3>2, StageFacts
  <2>3. Dir' = Dir
    BY <1>1, <2>1 DEF PushTypeOK, Dir, Registered
  <2>4. Listing!Kick(r)
    BY <2>2, <2>3 DEF Listing!Kick, Stages, Dir, Helds
  <2>5. QED
    BY <2>4 DEF Listing!Next
<1>2. CASE life[c] # "up"
  <2>1. life' = life
    BY <1>2 DEF Cancel
  <2>2. Stages[c] # "listed"
    BY <1>2, StageFacts DEF PushTypeOK, Stages
  <2>3. Stages' = [Stages EXCEPT ![c] = IF Stages[c] = "listed" THEN "cancelled" ELSE Stages[c]]
    BY <2>1, <2>2 DEF Stages
  <2>4. Listing!Kick(r)
    BY <2>1, <2>3 DEF Listing!Kick, Stages, Helds, Registered
  <2>5. QED
    BY <2>4 DEF Listing!Next
<1>3. QED
  BY <1>1, <1>2

\* What the handlers do is a step of the directory, or none.
LEMMA HandlersListed ==
    ASSUME PushTypeOK, HandlerShape, BackgroundShape, NEW r \in Request, HandlerStep(r)
    PROVE  [Listing!Next]_(Listing!vars)
<1> USE DEF PushTypeOK, Handler, connVars, reqVars
<1>1. CASE Lookup(r)
  <2>1. CASE path[r] = "bad" \/ ~Registered(list[r][1])
    <3>1. /\ hpc[r] = "begin" /\ hpc' = [hpc EXCEPT ![r] = "answer"]
          /\ UNCHANGED <<life, list, at, bpc>>
      BY <1>1, <2>1 DEF Lookup
    <3>2. Helds' = Helds
      BY <3>1 DEF Helds, Held, BackgroundShape
    <3>3. QED
      BY <3>1, <3>2, NothingSeen
  <2>2. CASE ~(path[r] = "bad" \/ ~Registered(list[r][1]))
    <3>1. list[r][1] \in Conn
      BY <1>1, <2>2, Target DEF Lookup, HandlerShape, Path
    <3>2. life' = life /\ Helds' = [Helds EXCEPT ![r] = list[r][1]]
      BY <1>1, <2>2 DEF Lookup, Helds, Held, BackgroundShape
    <3>3. QED
      BY <2>2, <3>1, <3>2, LookedUp
  <2>3. QED
    BY <2>1, <2>2
<1>2. CASE Send(r)
  <2>1. life' = life /\ Helds' = [Helds EXCEPT ![r] = None]
    BY <1>2 DEF Send, Helds, Held, BackgroundShape
  <2>2. QED
    BY <2>1, LetGo
<1>3. CASE SendAndClose(r)
  <2>1. life' = life /\ Helds' = Helds
    BY <1>3 DEF SendAndClose, Helds, Held
  <2>2. QED
    BY <2>1, NothingSeen
<1>4. CASE CloseDisable(r)
  <2>1. life' = life /\ Helds' = Helds
    BY <1>4 DEF CloseDisable, Helds, Held
  <2>2. QED
    BY <2>1, NothingSeen
<1>5. CASE CloseCancel(r)
  <2>1. list[r][1] \in Conn /\ Held(r) = list[r][1] /\ Cancel(list[r][1], r)
    BY <1>5, Target DEF CloseCancel, HandlerShape, Held
  <2>2. Helds' = [Helds EXCEPT ![r] = None]
    BY <1>5 DEF CloseCancel, Helds, Held, BackgroundShape
  <2>3. QED
    BY <2>1, <2>2, Kicked
<1>6. CASE Broadcast(r) \/ AnswerRequest(r)
  <2>1. life' = life /\ Helds' = Helds
    BY <1>6 DEF Broadcast, AnswerRequest, Helds, Held, BackgroundShape
  <2>2. QED
    BY <2>1, NothingSeen
<1>7. QED
  BY <1>1, <1>2, <1>3, <1>4, <1>5, <1>6 DEF HandlerStep

\* So is what they leave behind.
LEMMA BackgroundListed ==
    ASSUME PushTypeOK, HandlerShape, BackgroundShape, NEW r \in Request, BackgroundStep(r)
    PROVE  [Listing!Next]_(Listing!vars)
<1> USE DEF PushTypeOK, Background, connVars, reqVars
<1>1. CASE KickDisable(r)
  <2>1. life' = life /\ Helds' = Helds
    BY <1>1 DEF KickDisable, Helds, Held
  <2>2. QED
    BY <2>1, NothingSeen
<1>2. CASE KickCancel(r)
  <2>1. list[r][1] \in Conn /\ Held(r) = list[r][1] /\ Cancel(list[r][1], r)
    BY <1>2, Target DEF KickCancel, HandlerShape, BackgroundShape, Held
  <2>2. Helds' = [Helds EXCEPT ![r] = None]
    BY <1>2 DEF KickCancel, Helds, Held, BackgroundShape
  <2>3. QED
    BY <2>1, <2>2, Kicked
<1>3. CASE BroadcastLookup(r)
  <2>1. life' = life
    BY <1>3 DEF BroadcastLookup
  <2>2. CASE at[r] > Len(list[r]) \/ ~Registered(list[r][at[r]])
    <3>1. Helds' = Helds
      BY <1>3, <2>2 DEF BroadcastLookup, Helds, Held, BackgroundShape
    <3>2. QED
      BY <2>1, <3>1, NothingSeen
  <2>3. CASE ~(at[r] > Len(list[r])) /\ Registered(list[r][at[r]])
    <3>1. list[r][at[r]] \in Conn
      BY <2>3, Position, ListIsSeq
    <3>2. Helds' = [Helds EXCEPT ![r] = list[r][at[r]]]
      BY <1>3, <2>3 DEF BroadcastLookup, Helds, Held, BackgroundShape
    <3>3. QED
      BY <2>1, <2>3, <3>1, <3>2, LookedUp
  <2>4. QED
    BY <2>2, <2>3
<1>4. CASE BroadcastWrite(r)
  <2>1. life' = life /\ Helds' = [Helds EXCEPT ![r] = None]
    BY <1>4 DEF BroadcastWrite, Helds, Held, BackgroundShape
  <2>2. QED
    BY <2>1, LetGo
<1>5. QED
  BY <1>1, <1>2, <1>3, <1>4 DEF BackgroundStep

\* A connection that ends, and a request that comes.
LEMMA OthersListed ==
    ASSUME PushTypeOK, HandlerShape, NEW c \in Conn, Leave(c) \/ RemoveAgent(c)
    PROVE  [Listing!Next]_(Listing!vars)
<1>1. Helds' = Helds
  BY DEF Leave, RemoveAgent, Helds, Held, reqVars
<1>2. CASE Leave(c)
  <2>1. life' = [life EXCEPT ![c] = "cancelled"] /\ life[c] = "up"
    BY <1>2 DEF Leave, Cancel
  <2>2. Stages' = [Stages EXCEPT ![c] = "cancelled"] /\ Stages[c] = "listed"
    <3>1. Stages' = [Stages EXCEPT ![c] = StageOf["cancelled"]]
      BY <2>1, StageMoves
    <3>2. Stages[c] = StageOf["up"]
      BY <2>1 DEF Stages
    <3>3. QED
      BY <3>1, <3>2, StageFacts
  <2>3. Dir' = Dir
    BY <2>1 DEF PushTypeOK, Dir, Registered
  <2>4. Listing!Cancel(c)
    BY <1>1, <2>2, <2>3 DEF Listing!Cancel, Stages, Dir, Helds
  <2>5. QED
    BY <2>4 DEF Listing!Next
<1>3. CASE RemoveAgent(c)
  <2>1. life' = [life EXCEPT ![c] = "gone"] /\ life[c] = "cancelled"
    BY <1>3 DEF RemoveAgent
  <2>2. Stages' = [Stages EXCEPT ![c] = "ended"] /\ Stages[c] = "cancelled"
    <3>1. Stages' = [Stages EXCEPT ![c] = StageOf["gone"]]
      BY <2>1, StageMoves
    <3>2. Stages[c] = StageOf["cancelled"]
      BY <2>1 DEF Stages
    <3>3. QED
      BY <3>1, <3>2, StageFacts
  <2>3. {d \in Conn : Registered(d)}' = {d \in Conn : Registered(d)} \ {c}
    BY <2>1 DEF PushTypeOK, Registered
  <2>4. Listing!Entries(c) = {c}
    BY <2>1, OwnEntry DEF Registered
  <2>5. Dir' = [u \in DOMAIN Dir \ Listing!Entries(c) |-> Dir[u]]
    BY <2>3, <2>4 DEF Dir
  <2>6. Listing!Leave(c)
    BY <1>1, <2>2, <2>5 DEF Listing!Leave, Stages, Dir, Helds
  <2>7. QED
    BY <2>6 DEF Listing!Next
<1>4. QED
  BY <1>2, <1>3

\* The handlers see of the registry what Gateway shows them: they act on agents
\* they found there, a kick that comes late cancels nothing and nobody else, and
\* only the end of a connection takes its entry away.
THEOREM PushUsesDirectory == Spec => DirectorySafety
<1>1. Init => Listing!Init
  <2> SUFFICES ASSUME Init
               PROVE  Listing!Init
    OBVIOUS
  <2>1. Stages = [c \in Conn |-> "listed"]
    BY StageFacts DEF Init, Stages
  <2>2. \A c \in Conn : Registered(c)
    BY DEF Init, Registered
  <2>3. Dir = [c \in Conn |-> c]
    BY <2>2 DEF Dir
  <2>4. Dir \in [Conn -> {c \in Conn : Stages[c] = "listed"}]
    BY <2>1, <2>3
  <2>5. Dir \in UNION {[D -> {c \in Conn : Stages[c] = "listed"}] : D \in SUBSET Conn}
    BY <2>4
  <2>6. \A c \in Conn : Listing!Entries(c) = {c}
    BY <2>2, OwnEntry
  <2>7. Helds = [r \in Request |-> None]
    BY DEF Init, Helds, Held
  <2>8. QED
    BY <2>1, <2>5, <2>6, <2>7 DEF Listing!Init, Stages, Dir, Helds
<1>2. PushInv /\ [Next]_vars => [Listing!Next]_(Listing!vars)
  <2> SUFFICES ASSUME PushInv, [Next]_vars
               PROVE  [Listing!Next]_(Listing!vars)
    OBVIOUS
  <2>1. ASSUME NEW r \in Request, NEW p \in Path, NEW l \in BoundedSeq(Conn, MaxList), Arrive(r, p, l)
        PROVE  UNCHANGED Listing!vars
    <3>1. life' = life /\ Helds' = Helds
      BY <2>1 DEF Arrive, Handler, Helds, Held, PushInv, PushTypeOK, HandlerShape, connVars
    <3>2. QED
      BY <3>1, NothingSeen
  <2>2. CASE UNCHANGED vars
    <3>1. life' = life /\ Helds' = Helds
      BY <2>2 DEF vars, Helds, Held
    <3>2. QED
      BY <3>1, NothingSeen
  <2>3. QED
    BY <2>1, <2>2, HandlersListed, BackgroundListed, OthersListed DEF Next, PushInv
<1>3. QED
  BY <1>1, <1>2, PushInvariant, PTL DEF Spec, DirectorySafety, Listing!Spec
=============================================================================
