----------------------------- MODULE AnchorCodec -----------------------------
(***************************************************************************)
(* The bytes of Anchor programs: what AnchorProgram and IdlUtils make of   *)
(* the arguments of an instruction, what a GenericAnchorResource writes,   *)
(* and how the data of an account are read back by their IDL types         *)
(* (src/src/anchor).  Bytes are numbers, little endian.  TLC only.         *)
(***************************************************************************)
EXTENDS Integers, Sequences, SequencesExt

-----------------------------------------------------------------------------
(* Godot's PackedByteArray: encode_*, decode_* and slice.                  *)

Huge == 2 ^ 24 \* stands for every number from there on
PUBKEY_LENGTH == 32

Digits(n, width) ==
  LET rest[i \in 1 .. width] == IF i = 1 THEN n ELSE rest[i - 1] \div 256
  IN [i \in 1 .. width |-> rest[i] % 256]

Unsigned(digits) ==
  LET At(i) == IF i <= Len(digits) THEN digits[i] ELSE 0
  IN IF \E i \in 4 .. Len(digits) : digits[i] # 0 THEN Huge
     ELSE At(1) + 256 * At(2) + 65536 * At(3)

Signed(digits) ==
  IF digits # <<>> /\ Last(digits) >= 128
  THEN -1 - Unsigned([i \in DOMAIN digits |-> 255 - digits[i]])
  ELSE Unsigned(digits)

\* The bit patterns of a number in the three formats have nothing in common.
Half(x) == x
Single(x) == x + 1000
Double(x) == x + 2000

Slice(bytes, from) == SubSeq(bytes, from + 1, Len(bytes))
Head_(bytes, width) == SubSeq(bytes, 1, IF width < Len(bytes) THEN width ELSE Len(bytes))

-----------------------------------------------------------------------------
(* Variants and IDL types.                                                 *)

Nil == [kind |-> "nil"]
Number(n) == [kind |-> "int", n |-> n]
Bool(b) == [kind |-> "bool", n |-> IF b THEN 1 ELSE 0]
Float(x) == [kind |-> "float", n |-> x]
Text(bytes) == [kind |-> "text", bytes |-> bytes]
Key(bytes) == [kind |-> "key", bytes |-> bytes]
Array(items) == [kind |-> "array", items |-> items]
Dict(names, items) == [kind |-> "dict", names |-> names, items |-> items]
\* A resource of a class an IDL defines: its properties in order, "on" where an
\* enable_ property is.
Resource(class, items, on) == [kind |-> "resource", class |-> class, items |-> items, on |-> on]

\* AnchorProgram::u8, ..., f64 and option
Typed(dataType, n) == [kind |-> "typed", dataType |-> dataType, n |-> n]
Option(v) == [kind |-> "option", value |-> v]

Prim(name) == [kind |-> "prim", name |-> name]
OptionOf(type) == [kind |-> "option", of |-> type]
VecOf(type) == [kind |-> "vec", of |-> type]
ArrayOf(type, length) == [kind |-> "array", of |-> type, length |-> length]
Struct(names, types) == [kind |-> "struct", names |-> names, types |-> types]
Enum == [kind |-> "enum"]
\* {"defined": name}, with what find_idl_type finds for the name
Defined(name, type) == [kind |-> "defined", name |-> name, type |-> type]

UnsignedTypes == {"u8", "u16", "u32", "u64"}
SignedTypes == {"i8", "i16", "i32", "i64"}
Width(name) ==
  CASE name \in {"u8", "i8"} -> 1
    [] name \in {"u16", "i16"} -> 2
    [] name \in {"u32", "i32", "f32"} -> 4
    [] name \in {"u64", "i64", "f64"} -> 8

-----------------------------------------------------------------------------
(* Writing.                                                                *)

\* PackedByteArray serialize_typed_primitive(dict): an f32 is written as a half
\* into four bytes.
SerializeTypedPrimitive(dataType, n) ==
  CASE dataType = "f32" -> Digits(Half(n), 2) \o <<0, 0>>
    [] dataType = "f64" -> Digits(Double(n), 8)
    [] OTHER -> Digits(n, Width(dataType))

\* bool is_option(anchor_type) of a type looks for "dataType", which no IDL type has.
IsOption(type) == FALSE

\* String get_int_type_info(anchor_type)
TypeInfo(type) == IF type.kind = "prim" /\ type.name \in UnsignedTypes \cup SignedTypes \cup {"f32", "f64"} THEN type.name ELSE ""

\* Dictionary get_decorated_integer, get_decorated_float: the signed types are
\* looked for as s8, ..., s64.
Decorated(type, v) ==
  CASE v.kind = "int" /\ TypeInfo(type) \in UnsignedTypes -> Typed(type.name, v.n)
    [] v.kind = "float" /\ TypeInfo(type) \in {"f32", "f64"} -> Typed(type.name, v.n)
    [] OTHER -> v

\* Variant decorate_instruction_argument(anchor_type, argument)
DecorateInstructionArgument(type, v) == IF IsOption(type) THEN Option(v) ELSE Decorated(type, v)

IsEnum(type) == type.kind = "defined" /\ type.type.kind = "enum"
IsOptional(type) == type.kind = "option"
Unwrapped(type) == IF IsOptional(type) THEN type.of ELSE type
IsNumber(type) == Unwrapped(type).kind = "prim" /\ TypeInfo(Unwrapped(type)) # ""

RECURSIVE SerializeVariant(_), SerializeResource(_, _, _)
Concatenated(items) == FoldLeft(LAMBDA bytes, v : bytes \o SerializeVariant(v), <<>>, items)

\* PackedByteArray serialize_variant(variant) and what it calls
SerializeVariant(v) ==
  CASE v.kind = "nil" -> <<>>
    [] v.kind = "int" -> Digits(v.n, 8)
    [] v.kind = "bool" -> <<v.n>>
    [] v.kind = "float" -> Digits(Double(v.n), 8)
    [] v.kind = "text" -> Digits(Len(v.bytes), 4) \o v.bytes
    [] v.kind = "key" -> v.bytes
    [] v.kind = "array" -> Digits(Len(v.items), 4) \o Concatenated(v.items)
    [] v.kind = "dict" -> Concatenated(v.items)
    [] v.kind = "typed" -> SerializeTypedPrimitive(v.dataType, v.n)
    [] v.kind = "option" -> IF v.value = Nil THEN <<0>> ELSE <<1>> \o SerializeVariant(v.value)
    [] v.kind = "resource" -> SerializeResource(v.class.types, v.items, v.on)

\* Property i of a resource: a number without an unsigned type of its own, which
\* an optional one has not, is not written.
SerializeProperty(type, v, on) ==
  LET flag == IF IsOptional(type) THEN <<IF on THEN 1 ELSE 0>> ELSE <<>>
      info == TypeInfo(type)
  IN flag \o (CASE ~on -> <<>>
                [] on /\ IsEnum(Unwrapped(type)) -> Digits(v.n, 1)
                [] on /\ ~IsEnum(Unwrapped(type)) /\ IsNumber(type) ->
                     IF info \in UnsignedTypes \cup {"f32", "f64"} THEN SerializeTypedPrimitive(info, v.n) ELSE <<>>
                [] OTHER -> SerializeVariant(v))

\* PackedByteArray GenericAnchorResource::serialize()
SerializeResource(types, items, on) ==
  IF types = <<>> THEN <<>>
  ELSE SerializeProperty(Head(types), Head(items), Head(on))
       \o SerializeResource(Tail(types), Tail(items), Tail(on))

-----------------------------------------------------------------------------
(* Reading: the value and the bytes it took.                               *)

Read(value, consumed) == [value |-> value, consumed |-> consumed]

\* The scalar types of deserialize_variant.  Texts and keys are cut where the
\* data end.
ReadPrim(bytes, name) ==
  CASE name \in UnsignedTypes -> Read(Number(Unsigned(Head_(bytes, Width(name)))), Width(name))
    [] name \in SignedTypes -> Read(Number(Signed(Head_(bytes, Width(name)))), Width(name))
    [] name = "f32" -> Read(Float(Unsigned(Head_(bytes, 2)) - Half(0)), 4)
    [] name = "f64" -> Read(Float(Unsigned(Head_(bytes, 8)) - Double(0)), 8)
    [] name = "string" ->
         LET length == Unsigned(Head_(bytes, 4))
         IN IF Len(bytes) < length THEN Read(Nil, 0)
            ELSE Read(Text(Head_(Slice(bytes, 4), length)), 4 + length)
    [] name = "publicKey" -> Read(Key(Head_(bytes, PUBKEY_LENGTH)), PUBKEY_LENGTH)
    [] name = "bool" -> Read(Bool(bytes[1] = 1), 1)
    [] OTHER -> Read(Nil, 0)

RECURSIVE DeserializeVariant(_, _), ReadEach(_, _)

\* One value after another, of these types; the loops of deserialize_dict.
ReadEach(bytes, types) ==
  IF types = <<>> THEN Read(<<>>, 0)
  ELSE LET first == DeserializeVariant(bytes, Head(types))
           others == ReadEach(Slice(bytes, first.consumed), Tail(types))
       IN Read(<<first.value>> \o others.value, first.consumed + others.consumed)

\* Mutant: the flag is not counted.
DeserializeOptionUncounted(bytes, type) ==
  IF bytes[1] = 0 THEN Read(Nil, 1) ELSE DeserializeVariant(Slice(bytes, 1), type.of)

DeserializeOption(bytes, type) ==
  IF bytes[1] = 0 THEN Read(Nil, 1)
  ELSE LET inner == DeserializeVariant(Slice(bytes, 1), type.of)
       IN Read(inner.value, 1 + inner.consumed)

\* The length is compared with nothing: a vector longer than the data is read past
\* their end, here for one value more than there are bytes.
DeserializeVec(bytes, type) ==
  LET length == Unsigned(Head_(bytes, 4))
      turns == IF length > Len(bytes) THEN Len(bytes) + 1 ELSE length
      inner == ReadEach(Slice(bytes, 4), [i \in 1 .. turns |-> type.of])
  IN Read(Array(inner.value), 4 + inner.consumed)

\* deserialize_variant and deserialize_dict(bytes, type, consumed_bytes).  Past the end
\* of the data the code fails or reads zeros; here nothing is read there.
DeserializeVariant(bytes, type) ==
  CASE bytes = <<>> -> Read(Nil, 0)
    [] bytes # <<>> /\ type.kind = "prim" -> ReadPrim(bytes, type.name)
    [] bytes # <<>> /\ type.kind = "struct" ->
         LET inner == ReadEach(bytes, type.types) IN Read(Dict(type.names, inner.value), inner.consumed)
    [] bytes # <<>> /\ type.kind = "enum" -> Read(Number(bytes[1]), 1)
    [] bytes # <<>> /\ type.kind = "defined" -> DeserializeVariant(bytes, type.type)
    [] bytes # <<>> /\ type.kind = "vec" -> DeserializeVec(bytes, type)
    [] bytes # <<>> /\ type.kind = "option" -> DeserializeOption(bytes, type)
    [] bytes # <<>> /\ type.kind = "array" ->
         LET inner == ReadEach(bytes, [i \in 1 .. type.length |-> type.of])
         IN Read(Array(inner.value), inner.consumed)

\* Dictionary parse_account_data(account_data, reference, emit): the fields, one
\* after another.
ParseAccountData(bytes, reference) ==
  Dict(reference.names, ReadEach(bytes, reference.types).value)

\* Property of from_bytes: whether it is read, its value and the bytes it took.
\* A u16 is read and not passed over; signed numbers, booleans, enumerations and
\* objects are not read.
PropertyFromBytes(bytes, type, on) ==
  LET flag == IF IsOptional(type) THEN 1 ELSE 0
      rest == Slice(bytes, flag)
      info == TypeInfo(type)
      Skipped == Read(Nil, flag)
      Passed(r) == Read(r.value, flag + r.consumed)
      name == Unwrapped(type).name
  IN CASE ~on \/ Unwrapped(type).kind # "prim" -> Skipped
       [] on /\ info \in {"u8", "u32", "u64", "f64"} -> Passed(ReadPrim(rest, info))
       [] on /\ info = "u16" -> Read(ReadPrim(rest, info).value, flag)
       [] on /\ info = "f32" -> Read(Float(Unsigned(Head_(rest, 4)) - Single(0)), flag + 4)
       [] on /\ name \in {"string", "publicKey"} -> Passed(ReadPrim(rest, name))
       [] OTHER -> Skipped

RECURSIVE FromBytes(_, _, _)
\* void GenericAnchorResource::from_bytes(other), of one with these properties enabled
FromBytes(bytes, types, on) ==
  IF types = <<>> THEN <<>>
  ELSE LET first == PropertyFromBytes(bytes, Head(types), Head(on))
       IN <<first.value>> \o FromBytes(Slice(bytes, first.consumed), Tail(types), Tail(on))
=============================================================================
