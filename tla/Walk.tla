-------------------------------- MODULE Walk --------------------------------
(***************************************************************************)
(* How Marshal walks over what a message refers to (pkg/encoding,          *)
(* encode.go): the recursion of encode, encodeStruct and encodeArray, the  *)
(* detection of cycles with ptrLevel and ptrSeen, which the deferred calls *)
(* undo, and the pool of encodeStates.  The bytes are the business of      *)
(* Codec.                                                                  *)
(*                                                                         *)
(* A node is a struct that a pointer refers to or the array of a slice of  *)
(* structs; the links of a node are the pointers and slices met in it, in  *)
(* the order of encodeStruct and encodeArray.  A frame is a call of encode *)
(* that has not returned.                                                  *)
(***************************************************************************)
EXTENDS Integers, Sequences, FiniteSets

CONSTANTS
    Node,       \* what pointers and slices refer to
    Nil,        \* the nil pointer
    Kind,       \* the kinds of links: a subset of {"ptr", "slice"}
    MaxLinks,   \* bound: links of a node
    MaxCalls,   \* bound: calls of Marshal
    Threshold,  \* startDetectingCyclesAfter
    MaxDepth    \* frames for which the stack of a goroutine has room

ASSUME WalkAssumption ==
    /\ Nil \notin Node
    /\ Kind \subseteq {"ptr", "slice"}
    /\ {Threshold, MaxDepth, MaxCalls, MaxLinks} \subseteq Nat

VARIABLES
    links,     \* the message: the links of every node
    root,      \* the pointer Marshal was called with
    stack,     \* the calls of encode that have not returned
    ptrLevel,  \* encodeState.ptrLevel
    ptrSeen,   \* encodeState.ptrSeen
    outcome,   \* idle, busy, or what the last call of Marshal ended with
    pool,      \* the ptrSeen of every encodeState in the pool
    calls      \* calls of Marshal

walkVars == <<links, root, stack, ptrLevel, ptrSeen, outcome, pool, calls>>

Link == [kind : Kind, to : Node \cup {Nil}]
Links == UNION {[1..n -> Link] : n \in 0..MaxLinks}
Frame == [node : Node, at : Nat, kind : {"ptr", "slice"}, recorded : BOOLEAN]
Outcome == {"idle", "busy", "ok", "nil", "cycle", "overflow", "panic"}

Top == stack[Len(stack)]
Below == SubSeq(stack, 1, Len(stack) - 1)

\* Whether a pointer met on this level is looked up and recorded.
Watching(level) == level > Threshold

\* ptrLevel in a call for a link of this kind.
LevelIn(kind, level) == IF kind = "ptr" THEN level + 1 ELSE level

\* Seeded defect of Forget: the pointer stays in ptrSeen.
ForgetNot(f) == ptrSeen

\* ptrSeen after the deferred calls of frame f.
Forget(f) == IF f.recorded THEN ptrSeen \ {f.node} ELSE ptrSeen

-----------------------------------------------------------------------------
WalkInit ==
    /\ links \in [Node -> Links]
    /\ root \in Node
    /\ stack = <<>>
    /\ ptrLevel = 0
    /\ ptrSeen = {}
    /\ outcome = "idle"
    /\ pool = {}
    /\ calls = 0

\* The call of encode for a link l, under the frames s: a nil pointer is an
\* error, a nil slice is written as empty; above the threshold a pointer is
\* refused if it was seen and recorded if not.
EncodeLink(l, s, level, seen) ==
    LET here  == LevelIn(l.kind, level)
        watch == l.kind = "ptr" /\ Watching(here)
        call  == [node |-> l.to, at |-> 1, kind |-> l.kind, recorded |-> watch]
        stop  == l.to = Nil \/ (watch /\ l.to \in seen)
    IN  /\ stack' = IF stop THEN s ELSE Append(s, call)
        /\ ptrLevel' = IF stop THEN level ELSE here
        /\ ptrSeen' = IF ~stop /\ watch THEN seen \cup {l.to} ELSE seen
        /\ outcome' = CASE l.to = Nil -> IF l.kind = "ptr" THEN "nil" ELSE "busy"
                        [] l.to # Nil /\ stop -> "cycle"
                        [] OTHER -> IF Len(s) = MaxDepth THEN "overflow" ELSE "busy"

\* Marshal or MarshalToWriter of a pointer to n: newEncodeState takes a state
\* from the pool, which must be clean, or makes one, and encode is called.
MarshalPointer(n) ==
    /\ stack = <<>>
    /\ outcome \in {"idle", "ok", "nil", "cycle"}
    /\ calls < MaxCalls
    /\ calls' = calls + 1
    /\ root' = n
    /\ \E old \in pool \cup {{}} :
         /\ pool' = pool \ {old}
         /\ IF old # {} THEN outcome' = "panic" /\ UNCHANGED <<stack, ptrLevel, ptrSeen>>
            ELSE EncodeLink([kind |-> "ptr", to |-> n], <<>>, 0, old)
    /\ UNCHANGED links

\* encodeStruct or encodeArray comes to the next pointer or slice.
Descend ==
    /\ outcome = "busy" /\ stack # <<>>
    /\ Top.at <= Len(links[Top.node])
    /\ EncodeLink(links[Top.node][Top.at], Append(Below, [Top EXCEPT !.at = @ + 1]), ptrLevel, ptrSeen)
    /\ UNCHANGED <<links, root, pool, calls>>

\* encode returns, at the end of its value or with an error: its deferred calls.
Return ==
    /\ stack # <<>>
    /\ \/ outcome = "busy" /\ Top.at > Len(links[Top.node])
       \/ outcome \in {"nil", "cycle"}
    /\ stack' = Below
    /\ ptrLevel' = IF Top.kind = "ptr" THEN ptrLevel - 1 ELSE ptrLevel
    /\ ptrSeen' = Forget(Top)
    /\ UNCHANGED <<links, root, outcome, pool, calls>>

\* Marshal returns the bytes and puts the encodeState back; a writer that fails
\* makes MarshalToWriter return before that.
Finish ==
    /\ stack = <<>> /\ outcome = "busy"
    /\ outcome' = "ok"
    /\ pool' \in {pool, pool \cup {ptrSeen}}
    /\ UNCHANGED <<links, root, stack, ptrLevel, ptrSeen, calls>>

WalkNext == (\E n \in Node : MarshalPointer(n)) \/ Descend \/ Return \/ Finish

WalkSpec == WalkInit /\ [][WalkNext]_walkVars

-----------------------------------------------------------------------------
(* Properties.                                                             *)

WalkTypeOK ==
    /\ links \in [Node -> Links]
    /\ root \in Node
    /\ stack \in Seq(Frame)
    /\ ptrLevel \in Nat
    /\ ptrSeen \subseteq Node
    /\ outcome \in Outcome
    /\ pool \subseteq SUBSET Node
    /\ calls \in 0..MaxCalls

\* What the links of p lead to.
Targets(p) == {links[p][i].to : i \in DOMAIN links[p]} \ {Nil}

\* There is no way back in what can be reached from n: some node of every part
\* of it has no link into that part.
Acyclic(n) ==
    \E S \in SUBSET Node :
      /\ n \in S
      /\ \A p \in S : Targets(p) \subseteq S
      /\ \A T \in SUBSET S : T # {} => \E p \in T : Targets(p) \cap T = {}

\* The verdict is exact although pointers are recorded from the threshold on
\* only: a message refused for a cycle has one, however often parts of it are
\* shared, and one that is marshalled has none.
CycleVerdict ==
    /\ outcome = "cycle" => ~Acyclic(root)
    /\ outcome = "ok" => Acyclic(root)

\* encode.go:56, "ptrEncoder.encode should have emptied ptrSeen via defers":
\* no encodeState comes back from the pool with pointers of an earlier message.
PoolClean == outcome # "panic"

\* encode.go:32, "a cycle in a struct is an error": no message makes the
\* recursion grow until the stack of the goroutine overflows, which would end
\* the process.
NoOverflow == outcome # "overflow"

\* Every walk ends with the right verdict and leaves nothing behind.
WalkSafe == WalkTypeOK /\ CycleVerdict /\ PoolClean /\ NoOverflow
=============================================================================
