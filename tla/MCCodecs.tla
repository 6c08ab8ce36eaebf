------------------------------ MODULE MCCodecs ------------------------------
(* What is given to one encoder of the SDK, and what it makes of it: a     *)
(* transaction that is edited and its message, or an argument, a request   *)
(* or the URLs of a client, which are encoded once.                        *)
EXTENDS Message, SolanaClient, FiniteSets, TLC

VARIABLES given, made

-----------------------------------------------------------------------------
(* Message: two instructions of one and two accounts.                      *)

CONSTANTS a, b, p, m1, m2, m3, fresh, nopayer, nomessage, norequest \* accounts and metas

TwoInstructions ==
  [ix1 |-> [program |-> a, accounts |-> <<m1, m2>>],
   ix2 |-> [program |-> b, accounts |-> <<m3>>]]

PayerKey == [addr |-> p, kind |-> "keypair"]
OnePayer == {PayerKey}

-----------------------------------------------------------------------------
(* The other encoders.                                                     *)

HC == INSTANCE HoneyCombTypes
AC == INSTANCE AnchorCodec

Nothing == [codec |-> "none"]

-----------------------------------------------------------------------------
(* HoneyComb: arguments of the classes of its API.                         *)

\* What may be assigned to a property, nested objects without properties set.
ValuesOf(c, f) ==
  IF f \in c.lists
  THEN {HC!List(<<HC!Datum>>), HC!List(<<HC!Object("AssociatedProgramInput", HC!NewFields("AssociatedProgramInput"))>>)}
  ELSE IF f \in c.keys THEN {HC!Key, HC!Datum}
  ELSE {HC!Datum}

\* Objects of a class, with one property set.
Shallow(class) ==
  LET c == HC!Classes[class]
  IN UNION {{HC!Object(class, [HC!NewFields(class) EXCEPT ![f] = v]) : v \in ValuesOf(c, f)} :
              f \in HC!FieldsOf(class) \ DOMAIN c.objects}

\* The same one and two properties further down.
Nested(class) ==
  LET c == HC!Classes[class]
      Of(f) == Shallow(c.objects[f])
      Below(f) ==
        LET d == HC!Classes[c.objects[f]]
        IN UNION {{HC!Object(c.objects[f], [HC!NewFields(c.objects[f]) EXCEPT ![g] = v]) :
                     v \in Shallow(d.objects[g])} : g \in DOMAIN d.objects}
  IN UNION {{HC!Object(class, [HC!NewFields(class) EXCEPT ![f] = v]) : v \in Of(f) \cup Below(f)} :
              f \in DOMAIN c.objects}

ApiArguments == UNION {Shallow(class) \cup Nested(class) : class \in DOMAIN HC!Classes}

Placed(v, place) ==
  CASE place = "object" -> v
    [] place = "list" -> HC!List(<<HC!Datum, v>>)
    [] place = "table" -> HC!Dict([x |-> v])

\* to_dict is called for an argument that is an object; objects in lists and
\* tables are left to build().
AsArgument(v, place) == IF place = "object" THEN HC!ToDict(v) ELSE Placed(v, place)

RECURSIVE Leaves(_, _)
\* What is written in a value, by where it is: a list is read through, an
\* object only if it was given and not if it was sent.
Leaves(v, opaque) ==
  LET In(fields) == UNION {{<<<<f>> \o l[1], l[2]>> : l \in Leaves(fields[f], opaque)} : f \in DOMAIN fields}
  IN CASE v.kind \in {"null", "empty"} -> {}
       [] v.kind = "list" -> In(v.items)
       [] v.kind = "dict" -> In(v.fields)
       [] v.kind = "object" -> IF opaque THEN {<<<<>>, "object">>} ELSE In(v.fields)
       [] v.kind = "key" -> {<<<<>>, IF opaque THEN "object" ELSE "datum">>}
       [] OTHER -> {<<<<>>, v.kind>>}

RECURSIVE ListsObjects(_)
\* It has an object in a list, which is sent as it is when the list is that of
\* an object that is itself in a list or a table.
ListsObjects(v) ==
  \/ v.kind = "list" /\ \E i \in DOMAIN v.items : v.items[i].kind = "object"
  \/ v.kind = "object" /\ \E f \in DOMAIN v.fields : ListsObjects(v.fields[f])

-----------------------------------------------------------------------------
(* URLs with and without each component.                                   *)

SomeTokens ==
  URL!Delimiters \cup URL!Ports \cup {"http", "https", "ws", "wss", "user", "node", "localhost", "v1", "x", "y", "key", "top"}
Optional(name, values) == {<<>>} \cup {name :> v : v \in values}
Rests ==
  {<<>>, "userinfo" :> <<"user">>, "path" :> <<"/", "v1", ":", "x", "/", "y">>,
   [path |-> <<"/", "v1">>, query |-> <<"key", "://", "/", ":", "@">>],
   [userinfo |-> <<"user">>, query |-> <<>>, fragment |-> <<"top", "?", "/">>]}
SomeUrls ==
  {scheme @@ port @@ rest @@ [host |-> <<"node">>] :
     scheme \in Optional("scheme", {<<"http">>, <<"https">>}), port \in Optional("port", {"80", "8899"}),
     rest \in Rests}
Localhost == [scheme |-> <<"http">>, host |-> <<"localhost">>]

-----------------------------------------------------------------------------
(* Anchor: arguments as the documentation has them, numbers inside of      *)
(* others decorated with their type, and resources.                        *)

Numerals == [u8 |-> {0, 200}, u16 |-> {513}, u32 |-> {66000}, u64 |-> {7}, i8 |-> {-2, 5},
             i16 |-> {-300}, i32 |-> {-1}, i64 |-> {-70000}, f32 |-> {3}, f64 |-> {4}]
Others == [bool |-> {AC!Bool(TRUE), AC!Bool(FALSE)}, string |-> {AC!Text(<<>>), AC!Text(<<104, 105>>)},
           publicKey |-> {AC!Key([i \in 1 .. AC!PUBKEY_LENGTH |-> i])}]

Given(type, value) == [type |-> type, value |-> value]
Undecorated(name, n) == IF name \in {"f32", "f64"} THEN AC!Float(n) ELSE AC!Number(n)

\* Values of a type as they are written inside of another value.
OfOthers == UNION {{Given(AC!Prim(name), v) : v \in Others[name]} : name \in DOMAIN Others}
OfPrims ==
  OfOthers \cup UNION {{Given(AC!Prim(name), AC!Typed(name, n)) : n \in Numerals[name]} : name \in DOMAIN Numerals}
OfEnum == {Given(AC!Defined("E", AC!Enum), AC!Typed("u8", 2))}

\* A Dictionary of fields x and y.  (An enumeration with fields is read as its
\* number, an array of fixed length is written with its length.)
Pair(g, h) == Given(AC!Defined("S", AC!Struct(<<"x", "y">>, <<g.type, h.type>>)), AC!Dict(<<"x", "y">>, <<g.value, h.value>>))
Wrapped(G) ==
  {Given(AC!OptionOf(g.type), AC!Option(g.value)) : g \in G}
  \cup {Given(AC!OptionOf(g.type), AC!Option(AC!Nil)) : g \in G}
  \cup {Given(AC!VecOf(g.type), AC!Array(<<>>)) : g \in G}
  \cup {Given(AC!VecOf(g.type), AC!Array(<<g.value, g.value>>)) : g \in G}
Pairs(G, H) == {Pair(g, h) : g \in G, h \in H}

\* At the top numbers may be left to build_argument_dictionary, which has no
\* name for the shorter signed types.
Bare == UNION {{Given(AC!Prim(name), Undecorated(name, n)) : n \in Numerals[name]} :
                 name \in DOMAIN Numerals \ {"i8", "i16", "i32"}}
Simple == OfPrims \cup OfEnum
AnchorArguments ==
  Bare \cup Simple \cup Wrapped(Simple) \cup Pairs(Simple, Simple) \cup Wrapped(Wrapped(Simple))
  \cup Pairs(Wrapped(OfPrims), OfOthers) \cup Pairs(OfOthers, Wrapped(OfPrims)) \cup Wrapped(Pairs(OfOthers, OfPrims))

\* Fields of a resource: numbers without sign and without an option, and
\* anything else; an option is on or off.
Field(g, on) == [type |-> g.type, value |-> g.value, on |-> on]
PlainFields ==
  UNION {{Field(Given(AC!Prim(name), Undecorated(name, n)), TRUE) : n \in Numerals[name]} :
           name \in AC!UnsignedTypes \cup {"f32", "f64"}}
  \cup {Field(g, TRUE) : g \in OfOthers}
  \cup {Field(Given(AC!Defined("E", AC!Enum), AC!Number(1)), TRUE)}
OptionFields == {Field(Given(AC!OptionOf(g.type), g.value), on) : g \in OfOthers, on \in BOOLEAN}
ResourceOf(f, g) ==
  LET class == AC!Struct(<<"x", "y">>, <<f.type, g.type>>)
  IN Given(AC!Defined("S", class), AC!Resource(class, <<f.value, g.value>>, <<f.on, g.on>>))
FlatResources == {ResourceOf(f, g) : f \in PlainFields \cup OptionFields, g \in PlainFields \cup OptionFields}
Resources == FlatResources \cup {ResourceOf(Field(r, TRUE), f) : r \in FlatResources, f \in PlainFields}

RECURSIVE Meant(_)
\* What a value says, without its decoration.
Meant(v) ==
  CASE v.kind = "typed" -> Undecorated(v.dataType, v.n)
    [] v.kind = "option" -> Meant(v.value)
    [] v.kind = "array" -> AC!Array([i \in DOMAIN v.items |-> Meant(v.items[i])])
    [] v.kind = "dict" -> AC!Dict(v.names, [i \in DOMAIN v.items |-> Meant(v.items[i])])
    [] v.kind = "resource" ->
         AC!Dict(v.class.names, [i \in DOMAIN v.items |-> IF v.on[i] THEN Meant(v.items[i]) ELSE AC!Nil])
    [] OTHER -> v

\* A resource whose from_bytes knows all its types.
ReadableTypes == {AC!Prim(name) : name \in {"u8", "u32", "u64", "f64", "string", "publicKey"}}
HasFromBytes(r) == \A i \in DOMAIN r.class.types : r.class.types[i] \in ReadableTypes

-----------------------------------------------------------------------------

NoTransaction ==
  /\ heap = <<>> /\ instructions = <<>> /\ payer = NoPayer /\ message = NoMessage
  /\ asked = <<>> /\ replaced = FALSE

InitCodecs ==
  /\ made = Nothing /\ InitClient
  /\ \/ Init /\ given = [codec |-> "message"]
     \/ /\ NoTransaction
        /\ given \in [codec : {"honeycomb"}, place : {"object", "list", "table"}, value : ApiArguments]
        /\ given.place = "object" \/ ~ListsObjects(given.value)
     \/ NoTransaction /\ given \in [codec : {"request", "url"}]
     \/ NoTransaction /\ given \in [codec : {"anchor argument"}, of : AnchorArguments]
     \/ NoTransaction /\ given \in [codec : {"anchor resource"}, of : Resources]

Encode ==
  /\ given.codec \notin {"message", "request", "url"} /\ made = Nothing
  /\ made' =
       CASE given.codec = "honeycomb" ->
              [codec |-> "honeycomb", value |-> HC!Payload(AsArgument(given.value, given.place))]
         [] given.codec = "anchor argument" ->
              LET bytes == AC!SerializeVariant(AC!DecorateInstructionArgument(given.of.type, given.of.value))
                  read == AC!DeserializeVariant(bytes, given.of.type)
              IN [codec |-> "anchor argument", value |-> read.value, left |-> Len(bytes) - read.consumed]
         [] given.codec = "anchor resource" ->
              LET r == given.of.value
                  bytes == AC!SerializeVariant(r)
              IN [codec |-> "anchor resource", value |-> AC!ParseAccountData(bytes, r.class),
                  items |-> AC!FromBytes(bytes, r.class.types, r.on)]
  /\ UNCHANGED <<given, vars, clientVars>>

Edit == given.codec = "message" /\ Next /\ UNCHANGED <<given, made, clientVars>>

\* A request reads nothing of an earlier one, nor of the URL.
Request == given.codec = "request" /\ request = NoRequest /\ AskAny /\ UNCHANGED <<given, made, vars>>
Set == given.codec = "url" /\ Configure /\ UNCHANGED <<given, made, vars>>

SpecCodecs == InitCodecs /\ [][Encode \/ Edit \/ Request \/ Set]_<<given, made, vars, clientVars>>

-----------------------------------------------------------------------------
(* Properties.                                                             *)

\* Of what is written in a value, what the program has assigned.
Assigned(leaves) == {l \in leaves : l[2] \notin {HC!Garbage.kind, HC!Blank.kind}}

\* An argument of a query holds all that was put into its properties, at its place,
\* however it is nested, and of assigned values nothing else.  Beside them go out the
\* properties nobody assigned that to_dict writes all the same: empty packed ones, and
\* numbers no constructor initializes, with whatever was in the memory.
\* to_dict, process_wrapped_objects.
QueryHoldsItsTree ==
  made.codec = "honeycomb" =>
    Assigned(Leaves(made.value, TRUE)) = Assigned(Leaves(Placed(given.value, given.place), FALSE))

\* What the SDK writes for a program it reads back as what was meant, byte for
\* byte: the arguments of an instruction, and a resource, whether its bytes come
\* from an account or are given to a resource.  serialize_variant, serialize,
\* deserialize_variant, parse_account_data, from_bytes.
ReadsWhatItWrites ==
  /\ made.codec = "anchor argument" => made.value = Meant(given.of.value) /\ made.left = 0
  /\ made.codec = "anchor resource" =>
       /\ made.value = Meant(given.of.value)
       /\ HasFromBytes(given.of.value) => made.items = given.of.value.items
=============================================================================
