------------------------------ MODULE MCCodec -------------------------------
(***************************************************************************)
(* The message types of the codec's instances.                             *)
(***************************************************************************)
EXTENDS Codec

Prim(k) == [kind |-> k]
Named(k) == [kind |-> "named", of |-> k]
Slice(t) == [kind |-> "slice", elem |-> t]
Ptr(t) == [kind |-> "ptr", elem |-> t]
Struct(ts) == [kind |-> "struct",
               fields |-> [i \in DOMAIN ts |-> [exported |-> TRUE, type |-> ts[i]]]]
Hidden(t, hidden) == [t EXCEPT !.fields = Append(@, [exported |-> FALSE, type |-> hidden])]

\* Structs of primitives, of slices of primitives and of such structs, with
\* pointers to structs and fields that are not encoded.
FlatTypes ==
    {Struct(<<Prim("bool"), Prim("int16"), Prim("string"), Prim("uint16")>>),
     Struct(<<Prim("bytes"), Ptr(Hidden(Struct(<<Prim("byte")>>), Prim("map")))>>),
     Struct(<<Slice(Prim("string"))>>),
     Struct(<<Prim("int32"), Prim("bool")>>),
     Struct(<<Slice(Struct(<<Prim("bool")>>)), Prim("bool")>>),
     Struct(<<Ptr(Struct(<<Prim("byte"), Slice(Prim("bool"))>>))>>),
     Struct(<<Ptr(Prim("byte"))>>),
     Struct(<<Slice(Prim("int8"))>>),
     Struct(<<Prim("bool"), Named("uint16")>>),
     Struct(<<>>)}

\* Structs with a type that is not among the listed ones but of a kind that
\* CheckRegisterType lets pass.
UnlistedTypes ==
    {Struct(<<Prim("int8")>>),
     Struct(<<Prim("bool"), Named("uint16")>>),
     Struct(<<Slice(Named("string"))>>)}

\* Slices of slices, of pointers and of structs with slices.
NestedTypes ==
    {Struct(<<Slice(Slice(Prim("bool")))>>),
     Struct(<<Slice(Ptr(Struct(<<Prim("byte")>>)))>>),
     Struct(<<Slice(Struct(<<Slice(Prim("byte"))>>))>>)}
=============================================================================
