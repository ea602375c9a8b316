-------------------------------- MODULE Wire ---------------------------------
(***************************************************************************)
(* The leaves of the message codec (pkg/encoding): how a value of a native *)
(* type is written, and how it is read from a place in a message.  Codec   *)
(* builds structs, slices and pointers of them.                            *)
(*                                                                         *)
(* A byte has Base values, so that the 16-bit length prefix reaches its    *)
(* limit with small slices.  Floats are their bit patterns.                *)
(***************************************************************************)
EXTENDS Integers, SequencesExt

CONSTANT Base      \* values of a byte: 256

ASSUME BaseAssumption == Base \in Nat \ {0, 1}

Byte == 0..(Base - 1)

\* The numbers of values of 8, 16, 32 and 64 bits.
Mod16 == Base * Base
Mod32 == Mod16 * Mod16
Mod64 == Mod32 * Mod32
MaxUint16 == Mod16 - 1

\* Bytes of the primitive types of fixed size; the ones with a sign.
Width == [bool |-> 1, byte |-> 1, int16 |-> 2, uint16 |-> 2, int32 |-> 4,
          uint32 |-> 4, float32 |-> 4, float64 |-> 8]
Signed == {"int16", "int32"}
Modulus(k) == CASE Width[k] = 1 -> Base  [] Width[k] = 2 -> Mod16
                [] Width[k] = 4 -> Mod32 [] Width[k] = 8 -> Mod64

Leaf == DOMAIN Width \cup {"string", "bytes"}

\* The values of a leaf.
Values(k) ==
    CASE k = "bool" -> BOOLEAN
      [] k \in Signed -> (-(Modulus(k) \div 2))..(Modulus(k) \div 2 - 1)
      [] k \in DOMAIN Width \ (Signed \cup {"bool"}) -> 0..(Modulus(k) - 1)
      [] k \in {"string", "bytes"} -> Seq(Byte)

-----------------------------------------------------------------------------
(* binary.LittleEndian: the lower half of a number comes first.            *)

PutUint8(n) == <<n % Base>>
PutUint16(n) == PutUint8(n % Base) \o PutUint8(n \div Base)
PutUint32(n) == PutUint16(n % Mod16) \o PutUint16(n \div Mod16)
PutUint64(n) == PutUint32(n % Mod32) \o PutUint32(n \div Mod32)

PutUint(w, n) == CASE w = 1 -> PutUint8(n)  [] w = 2 -> PutUint16(n)
                   [] w = 4 -> PutUint32(n) [] w = 8 -> PutUint64(n)

Uint8(bs) == bs[1]
Uint16(bs) == Uint8(SubSeq(bs, 1, 1)) + Base * Uint8(SubSeq(bs, 2, 2))
Uint32(bs) == Uint16(SubSeq(bs, 1, 2)) + Mod16 * Uint16(SubSeq(bs, 3, 4))
Uint64(bs) == Uint32(SubSeq(bs, 1, 4)) + Mod32 * Uint32(SubSeq(bs, 5, 8))

Uint(w, bs) == CASE w = 1 -> Uint8(bs)  [] w = 2 -> Uint16(bs)
                 [] w = 4 -> Uint32(bs) [] w = 8 -> Uint64(bs)

-----------------------------------------------------------------------------
(* encode.go.                                                              *)

Written(bs) == [err |-> "none", out |-> bs]
Refused(e) == [err |-> e, out |-> <<>>]

\* Seeded defect of TooLong: the limit is off by one.
TooLongLate(n) == n > MaxUint16 + 1

\* A length that does not fit into its two bytes.
TooLong(n) == n > MaxUint16

\* A string must not hold the zero that ends it.
EncodeLeaf(k, x) ==
    CASE k = "bool" -> Written(<<IF x THEN 1 ELSE 0>>)
      [] k \in DOMAIN Width \ {"bool"} -> Written(PutUint(Width[k], x % Modulus(k)))
      [] k = "string" -> IF \E i \in DOMAIN x : x[i] = 0 THEN Refused("nul")
                         ELSE Written(Append(x, 0))
      [] k = "bytes"  -> IF TooLong(Len(x)) THEN Refused("long")
                         ELSE Written(PutUint(2, Len(x)) \o x)

-----------------------------------------------------------------------------
(* decode.go: what a place that holds v holds after data d was read at     *)
(* offset o, the next offset and the error.                                *)

Done(v, o) == [val |-> v, off |-> o, err |-> "none"]
Missing(v, o) == [val |-> v, off |-> o, err |-> "eof"]

\* The tests before every read.
Short(d, o, n) == o + n > Len(d)

\* d[o : o+n]
Bytes(d, o, n) == SubSeq(d, o + 1, o + n)

\* What a primitive of kind k reads from its bytes.
FromBytes(k, bs) ==
    LET n == Uint(Width[k], bs)
    IN  CASE k = "bool"   -> n # 0
          [] k \in Signed -> IF 2 * n >= Modulus(k) THEN n - Modulus(k) ELSE n
          [] k \in DOMAIN Width \ (Signed \cup {"bool"}) -> n

\* bytes.IndexByte(d[o:], 0): where zeros are.
Zeros(d, o) == {i \in (o + 1)..Len(d) : d[i] = 0}

\* The length that is written before a slice.
LengthAt(d, o) == Uint(2, Bytes(d, o, 2))

DecodeLeaf(d, k, v, o) ==
    CASE k \in DOMAIN Width ->
           IF Short(d, o, Width[k]) THEN Missing(v, o)
           ELSE Done(FromBytes(k, Bytes(d, o, Width[k])), o + Width[k])
      [] k = "string" ->
           IF Zeros(d, o) = {} THEN Missing(v, o)
           ELSE Done(SubSeq(d, o + 1, Min(Zeros(d, o)) - 1), Min(Zeros(d, o)))
      [] k = "bytes" ->
           IF Short(d, o, 2) THEN Missing(v, o)
           ELSE IF Short(d, o + 2, LengthAt(d, o)) THEN Missing(v, o + 2)
           ELSE Done(Bytes(d, o + 2, LengthAt(d, o)), o + 2 + LengthAt(d, o))
=============================================================================
