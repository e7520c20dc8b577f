---------------------------- MODULE SchemaModules ----------------------------
(***************************************************************************)
(* The schema of a contract module, from the functions of the contracts to *)
(* the tool that asks for the type of a parameter: generated by running    *)
(* the exported schema functions (wasm-chain-integration/utils.rs), written*)
(* and embedded in a custom section, found again, parsed in one of four    *)
(* versions and looked up (schema.rs of concordium-contracts-common).      *)
(*                                                                         *)
(* Types are the tuples of SchemaValues.  The output is a sequence of      *)
(* tokens: <<"b", n>> a byte, <<"h", n>> a u16, <<"w", n>> a u32 and       *)
(* <<"s", name>> a string with its length.  An option is a set with at     *)
(* most one member.  A function is a record of three options.              *)
(***************************************************************************)
EXTENDS Integers, Sequences, FiniteSets, SequencesExt

CONSTANTS
  Contracts, Functions_,     \* names of contracts and of receive functions
  Declarations,              \* pairs of a version and the exports of a module
  Stale                      \* pairs of a version and exports of an older build

VARIABLES
  ver, exports,              \* version of the schema, exported schema functions
  phase,
  schema,                    \* VersionedModuleSchema: version and contracts
  sections,                  \* custom sections: name and contents
  loaded,                    \* the schema that was found, or an error
  query, answer              \* last request and its result

vars == <<ver, exports, phase, schema, sections, loaded, query, answer>>

---------------------------------------------------------------------------
(* Writing.                                                                *)

B(n) == << <<"b", n>> >>
W(n) == << <<"w", n>> >>
S(name) == << <<"s", name>> >>

SizeTag == [U8 |-> 0, U16 |-> 1, U32 |-> 2, U64 |-> 3]

TypeTag ==
  [Unit |-> 0, Bool |-> 1, U8 |-> 2, U16 |-> 3, U32 |-> 4, U64 |-> 5, I8 |-> 6, I16 |-> 7,
   I32 |-> 8, I64 |-> 9, Amount |-> 10, AccountAddress |-> 11, ContractAddress |-> 12,
   Timestamp |-> 13, Duration |-> 14, Pair |-> 15, List |-> 16, Set |-> 17, Map |-> 18,
   Array |-> 19, Struct |-> 20, Enum |-> 21, String |-> 22, U128 |-> 23, I128 |-> 24,
   ContractName |-> 25, ReceiveName |-> 26, ULeb128 |-> 27, ILeb128 |-> 28, ByteList |-> 29,
   ByteArray |-> 30, TaggedEnum |-> 31]

RECURSIVE SerialType(_), SerialFields(_)

Flat(f(_), n) == FlattenSeq([i \in 1 .. n |-> f(i)])

SerialFields(f) ==
  CASE f[1] = "Named" -> B(0) \o W(Len(f[2])) \o Flat(LAMBDA i : S(f[2][i][1]) \o SerialType(f[2][i][2]), Len(f[2]))
    [] f[1] = "Unnamed" -> B(1) \o W(Len(f[2])) \o Flat(LAMBDA i : SerialType(f[2][i]), Len(f[2]))
    [] f[1] = "None" -> B(2)

SerialType(t) ==
  B(TypeTag[t[1]]) \o
  CASE t[1] = "Pair" -> SerialType(t[2]) \o SerialType(t[3])
    [] t[1] \in {"List", "Set"} -> B(SizeTag[t[2]]) \o SerialType(t[3])
    [] t[1] = "Map" -> B(SizeTag[t[2]]) \o SerialType(t[3]) \o SerialType(t[4])
    [] t[1] = "Array" -> W(t[2]) \o SerialType(t[3])
    [] t[1] = "Struct" -> SerialFields(t[2])
    [] t[1] = "Enum" -> W(Len(t[2])) \o Flat(LAMBDA i : S(t[2][i][2]) \o SerialFields(t[2][i][3]), Len(t[2]))
    [] t[1] = "TaggedEnum" ->
         W(Len(t[2])) \o Flat(LAMBDA i : B(t[2][i][1]) \o S(t[2][i][2]) \o SerialFields(t[2][i][3]), Len(t[2]))
    [] t[1] \in {"String", "ContractName", "ReceiveName", "ByteList"} -> B(SizeTag[t[2]])
    [] t[1] \in {"ULeb128", "ILeb128", "ByteArray"} -> W(t[2])
    [] OTHER -> <<>>

Each(option) == FlattenSeq(SetToSeq({SerialType(t) : t \in option}))
SerialOption(option) == IF option = {} THEN B(0) ELSE B(1) \o Each(option)

FunctionV1Tag(f) ==
  CASE f.parameter # {} /\ f.return_value = {} -> 0
    [] f.parameter = {} /\ f.return_value # {} -> 1
    [] OTHER -> 2

FunctionV2Tag(f) ==
  LET has == <<f.parameter # {}, f.return_value # {}, f.error # {}>>
  IN  CASE has = <<TRUE, FALSE, FALSE>> -> 0 [] has = <<FALSE, TRUE, FALSE>> -> 1
        [] has = <<TRUE, TRUE, FALSE>> -> 2 [] has = <<FALSE, FALSE, TRUE>> -> 3
        [] has = <<TRUE, FALSE, TRUE>> -> 4 [] has = <<FALSE, TRUE, TRUE>> -> 5
        [] has = <<TRUE, TRUE, TRUE>> -> 6 [] has = <<FALSE, FALSE, FALSE>> -> 7

SerialFunction(v, f) ==
  CASE v = 0 -> Each(f.parameter)
    [] v = 1 -> B(FunctionV1Tag(f)) \o Each(f.parameter) \o Each(f.return_value)
    [] OTHER -> B(FunctionV2Tag(f)) \o Each(f.parameter) \o Each(f.return_value) \o Each(f.error)

SerialMap(m, item(_)) ==
  LET keys == SetToSeq(DOMAIN m)
  IN  W(Len(keys)) \o Flat(LAMBDA i : S(keys[i]) \o item(m[keys[i]]), Len(keys))

SerialContract(v, c) ==
  (IF v = 0 THEN SerialOption(c.state) ELSE <<>>)
  \o (IF c.init = {} THEN B(0) ELSE B(1) \o FlattenSeq(SetToSeq({SerialFunction(v, f) : f \in c.init})))
  \o SerialMap(c.receive, LAMBDA f : SerialFunction(v, f))
  \o (IF v = 3 THEN SerialOption(c.event) ELSE <<>>)

SerialModule(s) == SerialMap(s.contracts, LAMBDA c : SerialContract(s.version, c))

U16MAX == 65535
SerialVersioned(s) == << <<"h", U16MAX>> >> \o B(s.version) \o SerialModule(s)

---------------------------------------------------------------------------
(* Reading.  A result is the value and the tokens left, in a set that is   *)
(* empty when parsing fails.                                               *)

Byte_(src) == IF src # <<>> /\ src[1][1] = "b" THEN {<<src[1][2], Tail(src)>>} ELSE {}
U32_(src) == IF src # <<>> /\ src[1][1] = "w" THEN {<<src[1][2], Tail(src)>>} ELSE {}
String_(src) == IF src # <<>> /\ src[1][1] = "s" THEN {<<src[1][2], Tail(src)>>} ELSE {}

\* A u16 read where a u32 was written gives its lower half.
U16_(src) == IF src # <<>> /\ src[1][1] \in {"h", "w"} THEN {<<src[1][2] % 65536, Tail(src)>>} ELSE {}

\* One after the other, and several of the same kind.
Then(a, next(_, _)) == UNION {next(x[1], x[2]) : x \in a}

RECURSIVE Many(_, _, _, _)
Many(n, read(_), src, done) ==
  IF n = 0 THEN {<<done, src>>}
  ELSE UNION {Many(n - 1, read, x[2], Append(done, x[1])) : x \in read(src)}

DeserialSize(src) ==
  {<<CHOOSE s \in DOMAIN SizeTag : SizeTag[s] = x[1], x[2]>> : x \in {x \in Byte_(src) : x[1] <= 3}}

\* The table of Type::deserial.
TypeOf ==
  <<"Unit", "Bool", "U8", "U16", "U32", "U64", "I8", "I16", "I32", "I64", "Amount", "AccountAddress",
    "ContractAddress", "Timestamp", "Duration", "Pair", "List", "Set", "Map", "Array", "Struct", "Enum",
    "String", "U128", "I128", "ContractName", "ReceiveName", "ULeb128", "ILeb128", "ByteList",
    "ByteArray", "TaggedEnum">>

RECURSIVE DeserialType(_), DeserialFields(_)

Named(read(_), src) == Then(String_(src), LAMBDA n, r : {<<<<n, x[1]>>, x[2]>> : x \in read(r)})

DeserialFields(src) ==
  Then(Byte_(src), LAMBDA idx, r :
    CASE idx = 0 -> Then(U32_(r), LAMBDA n, r1 :
                      {<<<<"Named", x[1]>>, x[2]>> : x \in Many(n, LAMBDA y : Named(DeserialType, y), r1, <<>>)})
      [] idx = 1 -> Then(U32_(r), LAMBDA n, r1 :
                      {<<<<"Unnamed", x[1]>>, x[2]>> : x \in Many(n, DeserialType, r1, <<>>)})
      [] idx = 2 -> {<<<<"None">>, r>>}
      [] OTHER -> {})

Tagged(src) == Then(Byte_(src), LAMBDA b, r :
                 {<<<<b, x[1][1], x[1][2]>>, x[2]>> : x \in Named(DeserialFields, r)})

DeserialType(src) ==
  Then(Byte_(src), LAMBDA idx, r :
    IF idx >= Len(TypeOf) THEN {}
    ELSE LET name == TypeOf[idx + 1]
         IN  CASE name = "Pair" -> {<<<<name, x[1][1], x[1][2]>>, x[2]>> : x \in Many(2, DeserialType, r, <<>>)}
               [] name \in {"List", "Set"} -> Then(DeserialSize(r), LAMBDA s, r1 :
                    {<<<<name, s, x[1]>>, x[2]>> : x \in DeserialType(r1)})
               [] name = "Map" -> Then(DeserialSize(r), LAMBDA s, r1 :
                    {<<<<name, s, x[1][1], x[1][2]>>, x[2]>> : x \in Many(2, DeserialType, r1, <<>>)})
               [] name = "Array" -> Then(U32_(r), LAMBDA n, r1 :
                    {<<<<name, n, x[1]>>, x[2]>> : x \in DeserialType(r1)})
               [] name = "Struct" -> {<<<<name, x[1]>>, x[2]>> : x \in DeserialFields(r)}
               [] name = "Enum" -> Then(U32_(r), LAMBDA n, r1 :
                    {<<<<name, [i \in 1 .. n |-> <<i - 1>> \o x[1][i]]>>, x[2]>> :
                       x \in Many(n, LAMBDA y : Named(DeserialFields, y), r1, <<>>)})
               [] name = "TaggedEnum" -> Then(U32_(r), LAMBDA n, r1 :
                    {<<<<name, x[1]>>, x[2]>> : x \in {x \in Many(n, Tagged, r1, <<>>) :
                       \A i \in 1 .. n - 1 : x[1][i][1] < x[1][i + 1][1]}})
               [] name \in {"String", "ContractName", "ReceiveName", "ByteList"} ->
                    {<<<<name, x[1]>>, x[2]>> : x \in DeserialSize(r)}
               [] name \in {"ULeb128", "ILeb128", "ByteArray"} -> {<<<<name, x[1]>>, x[2]>> : x \in U32_(r)}
               [] OTHER -> {<<<<name>>, r>>})

If(cond, src) == IF cond THEN {<<{x[1]}, x[2]>> : x \in DeserialType(src)} ELSE {<<{}, src>>}

DeserialOption(read(_), src) ==
  Then(Byte_(src), LAMBDA b, r :
    CASE b = 0 -> {<<{}, r>>} [] b = 1 -> {<<{x[1]}, x[2]>> : x \in read(r)} [] OTHER -> {})

DeserialTriple(tags1, tags2, tags3, idx, src) ==
  Then(If(idx \in tags1, src), LAMBDA p, r1 : Then(If(idx \in tags2, r1), LAMBDA rv, r2 :
    {<<[parameter |-> p, return_value |-> rv, error |-> x[1]], x[2]>> : x \in If(idx \in tags3, r2)}))

DeserialFunction(v, src) ==
  CASE v = 0 -> {<<[parameter |-> {x[1]}, return_value |-> {}, error |-> {}], x[2]>> : x \in DeserialType(src)}
    [] v = 1 -> Then(Byte_(src), LAMBDA idx, r :
                  IF idx > 2 THEN {} ELSE DeserialTriple({0, 2}, {1, 2}, {}, idx, r))
    [] OTHER -> Then(Byte_(src), LAMBDA idx, r :
                  IF idx > 7 THEN {} ELSE DeserialTriple({0, 2, 4, 6}, {1, 2, 5, 6}, 3 .. 6, idx, r))

AsMap(pairs) == [k \in {p[1] : p \in Range(pairs)} |-> (CHOOSE p \in Range(pairs) : p[1] = k)[2]]

DeserialMap(read(_), src) ==
  Then(U32_(src), LAMBDA n, r :
    {<<AsMap(x[1]), x[2]>> : x \in Many(n, LAMBDA y : Named(read, y), r, <<>>)})

DeserialContract(v, src) ==
  Then(IF v = 0 THEN DeserialOption(DeserialType, src) ELSE {<<{}, src>>}, LAMBDA st, r1 :
  Then(DeserialOption(LAMBDA y : DeserialFunction(v, y), r1), LAMBDA i, r2 :
  Then(DeserialMap(LAMBDA y : DeserialFunction(v, y), r2), LAMBDA rec, r3 :
    {<<[state |-> st, init |-> i, receive |-> rec, event |-> x[1]], x[2]>> :
       x \in IF v = 3 THEN DeserialOption(DeserialType, r3) ELSE {<<{}, r3>>}})))

DeserialModule(v, src) ==
  {[version |-> v, contracts |-> x[1]] : x \in DeserialMap(LAMBDA y : DeserialContract(v, y), src)}

DeserialVersioned(src) ==
  Then(U16_(src), LAMBDA prefix, r : IF prefix # U16MAX THEN {} ELSE
    Then(Byte_(r), LAMBDA v, r1 : IF v > 3 THEN {} ELSE DeserialModule(v, r1)))

\* VersionedModuleSchema::new, with the version the caller believes in.
LoadBytes(src, hint) ==
  IF DeserialVersioned(src) # {} THEN DeserialVersioned(src)
  ELSE IF hint \in 0 .. 3 THEN DeserialModule(hint, src) ELSE {}

---------------------------------------------------------------------------
(* Generation.  An export is <<kind, contract, function>>; its value is    *)
(* what the schema function writes to memory.                              *)

\* generate_schema_run: the bytes in memory are parsed as the function of
\* the version (as a type for state and event).
generate_schema_run(v, e) ==
  IF e[1] \in {"state", "event"} THEN {x[1] : x \in DeserialType(SerialType(exports[e]))}
  ELSE {x[1] : x \in DeserialFunction(v, SerialFunction(v, exports[e]))}

Relevant(v) == {e \in DOMAIN exports : /\ e[1] = "state" => v = 0
                                       /\ e[1] = "event" => v = 3}

\* The entry of a contract, put together export by export.
ContractOf(v, c) ==
  [state |-> UNION {generate_schema_run(v, e) : e \in {e \in Relevant(v) : e[1] = "state" /\ e[2] = c}},
   init |-> UNION {generate_schema_run(v, e) : e \in {e \in Relevant(v) : e[1] = "init" /\ e[2] = c}},
   receive |-> [f \in {e[3] : e \in {e \in Relevant(v) : e[1] = "receive" /\ e[2] = c}} |->
                  CHOOSE s \in generate_schema_run(v, <<"receive", c, f>>) : TRUE],
   event |-> UNION {generate_schema_run(v, e) : e \in {e \in Relevant(v) : e[1] = "event" /\ e[2] = c}}]

generate_contract_schema(v) ==
  [version |-> v, contracts |-> [c \in {e[2] : e \in Relevant(v)} |-> ContractOf(v, c)]]

Generate ==
  /\ phase = "declared"
  /\ schema' = generate_contract_schema(ver)
  /\ phase' = "generated"
  /\ UNCHANGED <<ver, exports, sections, loaded, query, answer>>

---------------------------------------------------------------------------
(* Custom sections.                                                        *)

Unversioned(v) == IF v = 0 THEN "concordium-schema-v1" ELSE "concordium-schema-v2"

\* The schema is embedded, with its version or, for versions 0 and 1, in the
\* older way.  Sections of an older build and others may follow.
Embed ==
  /\ phase = "generated"
  /\ \E versioned \in IF ver \in {0, 1} THEN BOOLEAN ELSE {TRUE},
        rest \in {<<>>} \cup {<<[name |-> n, contents |-> SerialVersioned(s)]>> :
                                n \in {"concordium-schema", "name"}, s \in Stale} :
       sections' = <<IF versioned THEN [name |-> "concordium-schema", contents |-> SerialVersioned(schema)]
                     ELSE [name |-> Unversioned(ver), contents |-> SerialModule(schema)]>>
                   \o IF versioned THEN rest ELSE SelectSeq(rest, LAMBDA x : x.name = "name")
  /\ phase' = "embedded"
  /\ UNCHANGED <<ver, exports, schema, loaded, query, answer>>

First(name) == IF \E i \in DOMAIN sections : sections[i].name = name
               THEN {sections[CHOOSE i \in DOMAIN sections : /\ sections[i].name = name
                                                            /\ \A k \in 1 .. i - 1 : sections[k].name # name]}
               ELSE {}

get_embedded_schema(old, v) ==
  IF First("concordium-schema") # {}
  THEN UNION {DeserialVersioned(s.contents) : s \in First("concordium-schema")}
  ELSE UNION {DeserialModule(v, s.contents) : s \in First(old)}

\* get_embedded_schema_v0 for modules of version 0, get_embedded_schema_v1
\* for the others.
Extract ==
  /\ phase = "embedded"
  /\ loaded' = IF ver = 0 THEN get_embedded_schema("concordium-schema-v1", 0)
               ELSE get_embedded_schema("concordium-schema-v2", 1)
  /\ phase' = "loaded" /\ query' = <<"embedded">>
  /\ UNCHANGED <<ver, exports, schema, sections, answer>>

\* The contents of the first section, given to VersionedModuleSchema::new
\* (or from_base64_str, without a hint).
LoadContents ==
  /\ phase = "embedded"
  /\ loaded' = LoadBytes(sections[1].contents, ver)
  /\ phase' = "loaded" /\ query' = <<"contents">>
  /\ UNCHANGED <<ver, exports, schema, sections, answer>>

---------------------------------------------------------------------------
(* Lookups.  An answer is a type in a set or the name of an error.         *)

Error(name) == <<"error", name>>
Found(t) == <<"type", t>>

Pick(option, missing) == IF option = {} THEN Error(missing) ELSE Found(CHOOSE t \in option : TRUE)

\* One of the getters for a part of a receive function of the module s.
get_receive_schema(s, c, f, part) ==
  IF c \notin DOMAIN s.contracts THEN Error("NoContractInModule")
  ELSE IF part = "error" /\ s.version < 2 THEN Error("ErrorNotSupported")
  ELSE IF part = "return_value" /\ s.version = 0 THEN Error("ReturnValueNotSupported")
  ELSE IF f \notin DOMAIN s.contracts[c].receive THEN Error("NoReceiveInContract")
  ELSE Pick(s.contracts[c].receive[f][part], <<"receive", part>>)

get_init_schema(s, c, part) ==
  IF c \notin DOMAIN s.contracts THEN Error("NoContractInModule")
  ELSE IF part = "error" /\ s.version < 2 THEN Error("ErrorNotSupported")
  ELSE IF s.contracts[c].init = {} THEN Error("NoInitInContract")
  ELSE Pick((CHOOSE f \in s.contracts[c].init : TRUE)[part], <<"init", part>>)

get_event_schema(s, c) ==
  IF c \notin DOMAIN s.contracts THEN Error("NoContractInModule")
  ELSE IF s.version < 3 THEN Error("EventNotSupported")
  ELSE Pick(s.contracts[c].event, "NoEventInContract")

\* Display for VersionedModuleSchema: the lines of a function are those of
\* its parts, in this order, under the contract and the name.
FunctionLines(v, c, where, f) ==
  LET line(part) == Flat(LAMBDA i : <<<<c, where, part, CHOOSE t \in f[part] : TRUE>>>>, Cardinality(f[part]))
  IN  CASE v = 0 -> line("parameter")
        [] v = 1 -> line("parameter") \o line("return_value")
        [] OTHER -> line("parameter") \o line("error") \o line("return_value")

TypeLines(c, where, option) ==
  Flat(LAMBDA i : <<<<c, where, where, CHOOSE t \in option : TRUE>>>>, Cardinality(option))

ContractLines(v, c, k) ==
  LET methods == SetToSeq(DOMAIN k.receive)
  IN  TypeLines(c, "state", k.state)
      \o (IF k.init = {} THEN <<>> ELSE FunctionLines(v, c, "init", CHOOSE f \in k.init : TRUE))
      \o Flat(LAMBDA i : FunctionLines(v, c, methods[i], k.receive[methods[i]]), Len(methods))
      \o TypeLines(c, "event", k.event)

DisplayLines(s) ==
  LET names == SetToSeq(DOMAIN s.contracts)
  IN  Flat(LAMBDA i : ContractLines(s.version, names[i], s.contracts[names[i]]), Len(names))

DisplayModule ==
  /\ phase = "loaded" /\ loaded # {}
  /\ query' = <<"display">>
  /\ answer' = <<"lines", DisplayLines(CHOOSE s \in loaded : TRUE)>>
  /\ phase' = "displayed"
  /\ UNCHANGED <<ver, exports, schema, sections, loaded>>

Ask(q, a(_)) ==
  /\ phase = "loaded" /\ loaded # {}
  /\ query' = q
  /\ answer' = a(CHOOSE s \in loaded : TRUE)
  /\ phase' = "answered"
  /\ UNCHANGED <<ver, exports, schema, sections, loaded>>

Query ==
  \/ \E c \in Contracts, f \in Functions_, part \in {"parameter", "return_value", "error"} :
       Ask(<<"receive", c, f, part>>, LAMBDA s : get_receive_schema(s, c, f, part))
  \/ \E c \in Contracts, part \in {"parameter", "error"} :
       Ask(<<"init", c, "", part>>, LAMBDA s : get_init_schema(s, c, part))
  \/ \E c \in Contracts : Ask(<<"event", c, "", "event">>, LAMBDA s : get_event_schema(s, c))

Init == /\ \E d \in Declarations : ver = d[1] /\ exports = d[2]
        /\ phase = "declared"
        /\ schema = [version |-> 0, contracts |-> <<>>]
        /\ sections = <<>> /\ loaded = {}
        /\ query = <<"none">> /\ answer = <<"none">>

Next == Generate \/ Embed \/ Extract \/ LoadContents \/ Query \/ DisplayModule
Spec == Init /\ [][Next]_vars

---------------------------------------------------------------------------
(* Properties.                                                             *)

\* The part of a function that a version of the schema can hold.
Held(f) == [f EXCEPT !.error = IF ver < 2 THEN {} ELSE @,
                     !.return_value = IF ver = 0 THEN {} ELSE @]

\* What is found in the module is what its contracts declare: every function
\* under its contract, in every version, whatever other sections there are.
LoadedIsDeclared ==
  phase = "loaded" =>
    /\ Cardinality(loaded) = 1
    /\ \A s \in loaded :
         /\ s.version = ver
         /\ \A e \in DOMAIN exports :
              CASE e[1] = "receive" -> s.contracts[e[2]].receive[e[3]] = Held(exports[e])
                [] e[1] = "init" -> s.contracts[e[2]].init = {Held(exports[e])}
                [] e[1] = "state" /\ ver = 0 -> s.contracts[e[2]].state = {exports[e]}
                [] e[1] = "event" /\ ver = 3 -> s.contracts[e[2]].event = {exports[e]}
                [] OTHER -> TRUE
         /\ \A c \in DOMAIN s.contracts : \A f \in DOMAIN s.contracts[c].receive :
              <<"receive", c, f>> \in DOMAIN exports

\* A lookup answers with the type that the function of the contract declared,
\* and with an error exactly when there is none for it in this version.
AnswersAreDeclared ==
  phase = "answered" =>
    LET e == IF query[1] = "receive" THEN <<"receive", query[2], query[3]>> ELSE <<query[1], query[2]>>
        has == e \in Relevant(ver)
        declared == IF ~has THEN {} ELSE IF query[1] = "event" THEN {exports[e]} ELSE Held(exports[e])[query[4]]
    IN  answer[1] = "type" <=> declared # {} /\ (answer[1] = "type" => answer[2] \in declared)

\* The schema printed for a person has a line for every part of every
\* function that was declared, and for nothing else.
DisplayedIsDeclared ==
  phase = "displayed" =>
    LET name(e) == IF e[1] = "receive" THEN e[3] ELSE e[1]
        parts == {"parameter", "return_value", "error"}
    IN  Range(answer[2]) =
          UNION {IF e[1] \in {"state", "event"} THEN {<<e[2], e[1], e[1], exports[e]>>}
                 ELSE UNION {{<<e[2], name(e), part, t>> : t \in Held(exports[e])[part]} : part \in parts} :
                 e \in Relevant(ver)}
=============================================================================
