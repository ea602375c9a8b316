------------------------------- MODULE Codec --------------------------------
(***************************************************************************)
(* The message codec (pkg/encoding): what Marshal writes for a value of a  *)
(* type, what Unmarshal makes of bytes, and which types CheckRegisterType  *)
(* lets pass.  Both directions are recursive operators over types; a small *)
(* state machine registers a type, marshals messages of it and unmarshals  *)
(* them one after the other into the same variable.                        *)
(*                                                                         *)
(* Whatever is not a struct, a slice or a pointer is in Wire.  Types are   *)
(* finite trees: a struct that refers to itself is the business of Walk.   *)
(*                                                                         *)
(* The decoder is modelled with memory, because it reuses memory: a slice  *)
(* is a reference to an array in the heap and a length, a pointer is a     *)
(* reference, 0 is nil.  []byte and string are always fresh copies and     *)
(* stand for themselves.                                                   *)
(***************************************************************************)
EXTENDS Wire

CONSTANTS
    Types,     \* the struct types of messages
    MaxMsgs,   \* bound: messages unmarshalled into one variable
    MaxLen,    \* bound: elements of a slice
    MaxStr,    \* bound: bytes of a string
    MinCap     \* elements for which the first append to a nil slice makes room

ASSUME CodecAssumption == MinCap \in Nat \ {0}

VARIABLES
    ty,     \* the message type
    pc,     \* what has been done with the current message
    msgs,   \* messages so far
    msg,    \* the message that was marshalled
    coded,  \* what Marshal returned for it
    got,    \* the bytes that are unmarshalled
    off,    \* decodeState.off at the end
    err,    \* the error
    dest,   \* the variable Unmarshal writes to
    heap    \* the memory dest refers to

vars == <<ty, pc, msgs, msg, coded, got, off, err, dest, heap>>

\* reflect's Kind of a type: that of what a named native type is made from.  (A
\* named struct is a struct, and a named []byte a slice of bytes.)
KindOf(t) == IF t.kind = "named" THEN t.of ELSE t.kind

\* The fields that are encoded and decoded: names that begin with a lower case
\* letter are skipped.
Visible(t) == SelectSeq(t.fields, LAMBDA f : f.exported)

-----------------------------------------------------------------------------
(* The values of a type.  A pointer is <<>> or <<what it points to>>.       *)

RECURSIVE Product(_)
Product(sets) ==
    IF sets = <<>> THEN {<<>>}
    ELSE {<<x>> \o rest : x \in Head(sets), rest \in Product(Tail(sets))}

RECURSIVE Value(_)
Value(t) ==
    CASE t.kind \in DOMAIN Width -> Values(t.kind)
      [] t.kind = "string"    -> BoundedSeq(Byte, MaxStr)
      [] t.kind = "bytes"     -> BoundedSeq(Byte, MaxLen)
      [] t.kind = "ptr"       -> {<<>>} \cup {<<x>> : x \in Value(t.elem)}
      [] t.kind = "slice"     -> BoundedSeq(Value(t.elem), MaxLen)
      [] t.kind = "struct"    -> Product([i \in DOMAIN Visible(t) |-> Value(Visible(t)[i].type)])
      [] OTHER                -> {0}

-----------------------------------------------------------------------------
(* types.go: CheckRegisterTypeInner.                                       *)

\* "a pointer can only point to a struct"
PointsToStruct(t) == t.elem.kind = "struct"

RECURSIVE CheckRegisterTypeInner(_)
CheckRegisterTypeInner(t) ==
    CASE t.kind = "ptr"    -> PointsToStruct(t) /\ CheckRegisterTypeInner(t.elem)
      [] t.kind = "slice"  -> CheckRegisterTypeInner(t.elem)
      [] t.kind = "struct" -> \A i \in DOMAIN Visible(t) :
                                CheckRegisterTypeInner(Visible(t)[i].type)
      [] OTHER             -> KindOf(t) \in DOMAIN Width \cup {"int8", "string", "bytes"}

-----------------------------------------------------------------------------
(* encode.go.  The first switch of encode is on concrete types: int8 and a *)
(* named type are in none of its cases, whatever their kind.               *)

\* Parts are written one after the other until one fails.
Join(parts) ==
    LET bad == {i \in DOMAIN parts : parts[i].err # "none"}
    IN  IF bad = {} THEN Written(FlattenSeq([i \in DOMAIN parts |-> parts[i].out]))
        ELSE Refused(parts[Min(bad)].err)

RECURSIVE Encode(_, _)
Encode(t, x) ==
    CASE t.kind \in Leaf         -> EncodeLeaf(t.kind, x)
      [] t.kind = "ptr"          -> IF x = <<>> THEN Refused("nil")
                                    ELSE IF t.elem.kind \in {"struct", "slice"}
                                    THEN Encode(t.elem, x[1]) ELSE Refused("panic")
      [] t.kind = "struct"       -> Join([i \in DOMAIN x |-> Encode(Visible(t)[i].type, x[i])])
      [] t.kind = "slice"        -> IF TooLong(Len(x)) THEN Refused("long")
                                    ELSE Join(<<Written(PutUint(2, Len(x)))>> \o
                                              [i \in DOMAIN x |-> Encode(t.elem, x[i])])
      [] OTHER                   -> Refused("panic")

-----------------------------------------------------------------------------
(* decode.go.  Decoding d at offset o into a place that holds v gives what *)
(* the place holds then, the next offset, the memory and an error.         *)

NilSlice == [ref |-> 0, len |-> 0]

RECURSIVE ZeroOf(_)
ZeroOf(t) ==
    CASE t.kind = "bool"              -> FALSE
      [] t.kind \in {"string", "bytes"} -> <<>>
      [] t.kind = "slice"             -> NilSlice
      [] t.kind = "struct"            -> [i \in DOMAIN Visible(t) |-> ZeroOf(Visible(t)[i].type)]
      [] OTHER                        -> 0

\* A result that leaves the memory h.
With(r, h) == [val |-> r.val, off |-> r.off, heap |-> h, err |-> r.err]

\* reflect.Append: in place while the array has room, else in a new array.
AppendTo(s, v, h) ==
    IF s.ref # 0 /\ s.len < Len(h[s.ref])
    THEN [val |-> [s EXCEPT !.len = @ + 1], heap |-> [h EXCEPT ![s.ref][s.len + 1] = v]]
    ELSE LET cap == IF s.len = 0 THEN MinCap ELSE 2 * s.len
             new == [i \in 1..cap |-> IF i <= s.len THEN h[s.ref][i]
                                      ELSE IF i = s.len + 1 THEN v ELSE 0]
         IN  [val |-> [ref |-> Len(h) + 1, len |-> s.len + 1], heap |-> Append(h, new)]

\* Seeded defect of Emptied: the old elements stay.
EmptiedNot(s) == s

\* v.SetLen(0)
Emptied(s) == [s EXCEPT !.len = 0]

RECURSIVE Decode(_, _, _, _, _)
RECURSIVE DecodeStruct(_, _, _, _, _, _)
RECURSIVE DecodeElems(_, _, _, _, _, _, _)

\* The fields from the i-th on, into v.
DecodeStruct(d, fields, i, v, o, h) ==
    IF i > Len(fields) THEN With(Done(v, o), h)
    ELSE LET r == Decode(d, fields[i].type, v[i], o, h)
             now == [v EXCEPT ![i] = r.val]
         IN  IF r.err # "none" THEN [r EXCEPT !.val = now]
             ELSE DecodeStruct(d, fields, i + 1, now, r.off, r.heap)

\* n more elements of type t, appended to s; every element is decoded into the
\* same variable vv, which still holds the element before it.
DecodeElems(d, t, n, vv, s, o, h) ==
    IF n = 0 THEN With(Done(s, o), h)
    ELSE LET r == Decode(d, t, vv, o, h)
             a == AppendTo(s, r.val, r.heap)
         IN  IF r.err # "none" THEN [r EXCEPT !.val = s]
             ELSE DecodeElems(d, t, n - 1, r.val, a.val, r.off, a.heap)

Decode(d, t, v, o, h) ==
    CASE t.kind \in Leaf -> With(DecodeLeaf(d, t.kind, v, o), h)
      [] t.kind = "ptr" /\ t.elem.kind \in {"struct", "slice"} ->
           LET h1 == IF v = 0 THEN Append(h, ZeroOf(t.elem)) ELSE h
               at == IF v = 0 THEN Len(h1) ELSE v
               r  == Decode(d, t.elem, h1[at], o, h1)
           IN  [r EXCEPT !.val = at, !.heap[at] = r.val]
      [] t.kind = "struct" -> DecodeStruct(d, Visible(t), 1, v, o, h)
      [] t.kind = "slice" ->
           IF Short(d, o, 2) THEN With(Missing(v, o), h)
           ELSE DecodeElems(d, t.elem, LengthAt(d, o), ZeroOf(t.elem), Emptied(v), o + 2, h)
      [] OTHER -> [With(Missing(v, o), h) EXCEPT !.err = "panic"]

\* The value a reader sees who follows every reference.
RECURSIVE Deep(_, _, _)
Deep(t, v, h) ==
    CASE t.kind = "ptr"    -> IF v = 0 THEN <<>> ELSE <<Deep(t.elem, h[v], h)>>
      [] t.kind = "slice"  -> [i \in 1..v.len |-> Deep(t.elem, h[v.ref][i], h)]
      [] t.kind = "struct" -> [i \in DOMAIN v |-> Deep(Visible(t)[i].type, v[i], h)]
      [] OTHER             -> v

-----------------------------------------------------------------------------
Init ==
    /\ ty \in Types
    /\ pc = "new"
    /\ msgs = 0
    /\ msg = ZeroOf(ty)
    /\ coded = <<>>
    /\ got = <<>>
    /\ off = 0
    /\ err = "none"
    /\ dest = ZeroOf(ty)
    /\ heap = <<>>

\* CheckRegisterType of a pointer to the struct.
Register ==
    /\ pc = "new"
    /\ pc' = IF CheckRegisterTypeInner([kind |-> "ptr", elem |-> ty]) THEN "idle" ELSE "refused"
    /\ UNCHANGED <<ty, msgs, msg, coded, got, off, err, dest, heap>>

\* Marshal or MarshalToWriter of a pointer to a message.
Marshal ==
    /\ pc \in {"idle", "decoded"}
    /\ err = "none"
    /\ msgs < MaxMsgs
    /\ msgs' = msgs + 1
    /\ msg' \in Value(ty)
    /\ LET r == Encode([kind |-> "ptr", elem |-> ty], <<msg'>>)
       IN  err' = r.err /\ coded' = r.out
    /\ pc' = "encoded"
    /\ UNCHANGED <<ty, got, off, dest, heap>>

\* Unmarshal of the bytes, of a part of them, or with others behind them.
Unmarshal ==
    /\ pc = "encoded"
    /\ err = "none"
    /\ got' \in Prefixes(coded) \cup {Append(coded, x) : x \in Byte}
    /\ LET r == Decode(got', ty, dest, 0, heap)
       IN  /\ off' = r.off
           /\ err' = r.err
           /\ dest' = r.val
           /\ heap' = r.heap
    /\ pc' = "decoded"
    /\ UNCHANGED <<ty, msgs, msg, coded>>

Next == Register \/ Marshal \/ Unmarshal

Spec == Init /\ [][Next]_vars

-----------------------------------------------------------------------------
(* Properties.                                                             *)

\* decode_test.go:22 ("read wrong bytes") for every type and value, and for a
\* variable that held another message before: what was marshalled comes back,
\* nothing of the old message shows, and exactly its bytes are consumed, also
\* when others follow.
RoundTrip ==
    (pc = "decoded" /\ Len(got) >= Len(coded)) =>
        err = "none" /\ off = Len(coded) /\ Deep(ty, dest, heap) = msg

\* No proper part of a message is taken for a message, and the decoder never
\* gets past the end of its input.
TruncationDetected ==
    pc = "decoded" =>
        off <= Len(got) /\ (Len(got) < Len(coded) => err = "eof")

\* The types that encode.go:17-31 lists as supported, with pointers wherever the
\* list has them: to structs and to slices.
RECURSIVE Listed(_)
Listed(t) ==
    CASE t.kind = "ptr"    -> t.elem.kind \in {"struct", "slice"} /\ Listed(t.elem)
      [] t.kind = "slice"  -> Listed(t.elem)
      [] t.kind = "struct" -> \A i \in DOMAIN Visible(t) : Listed(Visible(t)[i].type)
      [] OTHER             -> t.kind \in Leaf

\* No message of listed types, in whatever nesting, ends in the panic "Unknown
\* type" (encode.go:153, decode.go:125) when it is marshalled or unmarshalled, and
\* no input leads the decoder astray.
CodecSafe == TruncationDetected /\ (err = "panic" => ~Listed(ty))

\* A type that CheckRegisterType accepts is one that the codec supports
\* (encode.go:17, "only the following native types are supported"): a message of
\* it never ends in the panic.  The code does not keep this: the check goes by
\* the kind of a type and knows int8, the codec goes by the type and does not.
RegisteredSupported == err # "panic"
=============================================================================
