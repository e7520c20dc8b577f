------------------------------ MODULE MCChain ------------------------------
(***************************************************************************)
(* Instances of what users and wallets exchange with the chain: contract    *)
(* schemas, account transactions, governance updates and the decimals in    *)
(* them.  A behaviour is that of one part.  The variables that a part does  *)
(* not use stay 0.                                                          *)
(***************************************************************************)
EXTENDS Integers, Sequences, SequencesExt

CONSTANT Parts     \* the parts of a run

VARIABLES
  part,
  phase,                                                   \* SchemaValues, SchemaModules
  ty, json, out, shown, end, err, cur, lines,              \* SchemaValues
  ver, exports, schema, sections, loaded, query, answer,   \* SchemaModules
  accepted,                                                \* Transactions, ChainUpdates
  account, wallet, pre, wire, signed,                      \* Transactions
  keys, queues, params, clock, view, made,                 \* ChainUpdates
  decimal, fraction, rate, ratio                              \* ChainParameters

ofValues == <<ty, json, out, shown, end, err, cur, lines>>
ofModules == <<ver, exports, schema, sections, loaded, query, answer>>
ofTransactions == <<account, wallet, pre, wire, signed>>
ofUpdates == <<keys, queues, params, clock, view, made>>
ofDecimals == <<decimal, fraction, rate, ratio>>
vars == <<part, phase, accepted, ofValues, ofModules, ofTransactions, ofUpdates, ofDecimals>>

NoValues ==
  /\ ty = 0 /\ json = 0 /\ out = 0 /\ shown = 0
  /\ end = 0 /\ err = 0 /\ cur = 0 /\ lines = 0
NoModules ==
  /\ ver = 0 /\ exports = 0 /\ schema = 0 /\ sections = 0
  /\ loaded = 0 /\ query = 0 /\ answer = 0
NoTransactions == account = 0 /\ wallet = 0 /\ pre = 0 /\ wire = 0 /\ signed = 0
NoUpdates == keys = 0 /\ queues = 0 /\ params = 0 /\ clock = 0 /\ view = 0 /\ made = 0
NoDecimals == decimal = 0 /\ fraction = 0 /\ rate = 0 /\ ratio = 0

-----------------------------------------------------------------------------
(* Schema values: every constructor, and compositions of two and three.  A  *)
(* byte has 8 values, so that a U8 length overflows with 8 elements and a   *)
(* LEB128 digit has 2 bits.                                                 *)

Byte == 8
MaxDate == 100

Of == INSTANCE SchemaValues WITH
  MaxName <- 3, MaxPrealloc <- 2, Chunk <- 2, Values <- {}, Encodings <- {}

U8 == <<"U8">>
Leaf(name) == <<name>>

Edges(name) ==
  LET M == Byte ^ Of!Width[name]
  IN  {-(M \div 2) - 1, -(M \div 2), -1, 0, 1, (M \div 2) - 1, M \div 2, M - 1, M}

Letters(n) == [i \in 1 .. n |-> 4 + (i % 2)]

NumberTypes == {Leaf(n) : n \in {"U8", "U16", "U32", "U64", "I8", "I16", "I32", "I64"}}
Numbers == {<<t, <<"num", n>>>> : t \in NumberTypes, n \in UNION {Edges(x) : x \in DOMAIN Of!Width}}
           \cup {<<t, <<"int", 1>>>> : t \in NumberTypes}
Large == {<<Leaf(t), <<"int", n>>>> : t \in {"U128", "I128", "Amount"}, n \in UNION {Edges(x) : x \in DOMAIN Of!Width}}

LebTypes == {<<k, c>> : k \in {"ULeb128", "ILeb128"}, c \in 1 .. 3}
Lebs == {<<t, <<"int", n>>>> : t \in LebTypes, n \in -70 .. 70}

Durations == {<<Leaf("Duration"), <<"dur", m>>>> :
                m \in {<<>>} \cup {<< <<a, u>>, <<b, v>> >> : a, b \in {0, 1, 3}, u, v \in DOMAIN Of!UnitMillis}}
Timestamps == {<<Leaf("Timestamp"), <<"int", n>>>> : n \in {0, 7, MaxDate, MaxDate + 1, (Byte ^ 4) \div 2}}
              \cup {<<Leaf("Timestamp"), <<"date", n>>>> : n \in {-1, 0, 7, MaxDate}}
Addresses == {<<Leaf("AccountAddress"), j>> : j \in {<<"acc", 0>>, <<"acc", 9>>, <<"text", <<4>>>>}}
             \cup {<<Leaf("ContractAddress"), <<"obj", o>>>> :
                     o \in {[index |-> <<"num", 3>>], [index |-> <<"num", 3>>, subindex |-> <<"num", 9>>],
                            [index |-> <<"num", -1>>], [subindex |-> <<"num", 1>>]}}
Texts == {<< <<"String", s>>, <<"text", Letters(n)>> >> : s \in {"U8", "U16"}, n \in {0, 1, 2, 7, 8}}
         \cup {<< <<"ByteList", s>>, <<"hex", Letters(n)>> >> : s \in {"U8", "U16"}, n \in {0, 1, 2, 7, 8}}
         \cup {<< <<"ByteArray", k>>, <<"hex", Letters(n)>> >> : k \in 0 .. 2, n \in 0 .. 3}
Names == {<< <<"ContractName", "U8">>, <<"obj", [contract |-> <<"text", Letters(n)>>]>> >> : n \in 0 .. 2}
         \cup {<< <<"ReceiveName", "U8">>, <<"obj", [contract |-> <<"text", Letters(n)>>, func |-> <<"text", f>>]>> >> :
                 n \in 0 .. 1, f \in {<<>>, <<4>>, <<Of!Dot>>}}

Leaves == {<<Leaf("Unit"), <<"null">>>>, <<Leaf("Bool"), <<"bool", TRUE>>>>, <<Leaf("Bool"), <<"bool", FALSE>>>>,
           <<U8, <<"num", 5>>>>, <<U8, <<"num", 9>>>>, << <<"ILeb128", 2>>, <<"int", -5>> >>,
           << <<"String", "U8">>, <<"text", <<4>>>> >>}

Some(t, f) == <<"Enum", << <<0, "None", <<"None">>>>, <<1, "Some", f>> >>>>

\* Values made of one or two values.
Wrapped(vs) ==
  UNION {
    {<< <<"List", "U8", v[1]>>, <<"arr", <<v[2]>>>> >> : v \in vs},
    {<< <<"List", "U8", v[1]>>, <<"arr", [i \in 1 .. Byte |-> v[2]]>> >> : v \in vs},
    {<< <<"Set", "U16", v[1]>>, <<"arr", [i \in 1 .. Byte |-> v[2]]>> >> : v \in vs},
    {<< <<"Array", 2, v[1]>>, <<"arr", [i \in 1 .. n |-> v[2]]>> >> : v \in vs, n \in {1, 2}},
    {<<Some(v[1], <<"Unnamed", <<v[1]>>>>), <<"obj", [Some |-> <<"arr", <<v[2]>>>>]>> >> : v \in vs},
    {<<Some(v[1], <<"Unnamed", <<v[1]>>>>), <<"obj", [None |-> <<"arr", <<>>>>]>> >> : v \in vs},
    {<< <<"TaggedEnum", << <<3, "A", <<"None">>>>, <<5, "B", <<"Named", << <<"x", v[1]>> >>>>>> >>>>,
        <<"obj", [B |-> <<"obj", [x |-> v[2]]>>]>> >> : v \in vs},
    {<< <<"TaggedEnum", << <<3, "A", <<"None">>>>, <<5, "B", <<"Named", << <<"x", v[1]>> >>>>>> >>>>,
        <<"obj", [C |-> v[2]]>> >> : v \in vs}}

Coupled(vs, ws) ==
  UNION {
    {<< <<"Pair", v[1], w[1]>>, <<"arr", <<v[2], w[2]>>>> >> : v \in vs, w \in ws},
    {<< <<"Struct", <<"Named", << <<"a", v[1]>>, <<"b", w[1]>> >>>>>>,
        <<"obj", [a |-> v[2], b |-> w[2]]>> >> : v \in vs, w \in ws},
    {<< <<"Struct", <<"Named", << <<"a", v[1]>>, <<"b", w[1]>> >>>>>>,
        <<"obj", [b |-> v[2]]>> >> : v \in vs, w \in ws},
    {<< <<"Struct", <<"Unnamed", <<v[1], w[1]>>>>>>, <<"arr", <<v[2], w[2]>>>> >> : v \in vs, w \in ws}}

Mapped(vs, ws) ==
  {<< <<"Map", "U8", v[1], w[1]>>, <<"arr", << <<"arr", <<v[2], w[2]>>>> >>>> >> : v \in vs, w \in ws}

AllLeaves == UNION {Numbers, Large, Lebs, Durations, Timestamps, Addresses, Texts, Names, Leaves}

Good == {v \in Leaves : v[2] # <<"num", 9>>}

\* Everything, with maps only of values that are accepted.
AllValues == UNION {AllLeaves, Wrapped(Leaves), Wrapped(Wrapped(Leaves)), Wrapped(Coupled(Leaves, {<<U8, <<"num", 9>>>>})),
                    Coupled(Leaves, Leaves), Coupled(Wrapped(Leaves), Wrapped({<<U8, <<"num", 9>>>>})),
                    Mapped(Good, Good)}

\* Bytes: all short sequences for types whose values take few bytes, and samples for the fixed
\* widths.
Seqs(n) == UNION {[1 .. k -> 0 .. Byte - 1] : k \in 0 .. n}
Inner == {Leaf("Bool"), U8, <<"ULeb128", 2>>, <<"String", "U8">>}
ShortTypes == UNION {
  Inner, LebTypes, {Leaf("Unit"), Leaf("I8"), Leaf("U16"), Leaf("I16"), Leaf("AccountAddress"), <<"ByteList", "U8">>, <<"ByteArray", 2>>},
  {<<"ContractName", "U8">>, <<"ReceiveName", "U8">>},
  {<<"List", "U8", t>> : t \in Inner}, {<<"Set", "U8", t>> : t \in Inner}, {<<"Array", 2, t>> : t \in Inner},
  {<<"Pair", t, u>> : t, u \in Inner \ {<<"String", "U8">>}}, {<<"Map", "U8", t, u>> : t, u \in {Leaf("Bool"), U8}},
  {Some(t, <<"Unnamed", <<t>>>>) : t \in Inner},
  {<<"TaggedEnum", << <<1, "A", <<"None">>>>, <<5, "B", <<"Named", << <<"x", t>> >>>>>> >>>> : t \in Inner},
  {<<"Struct", <<"Named", << <<"a", t>>, <<"b", <<"List", "U8", t>>>> >>>>>> : t \in Inner}}
Samples(n) == {[i \in 1 .. n |-> (a * i + b) % Byte] : a \in {0, 1, 3}, b \in 0 .. Byte - 1}
LongTypes == {Leaf(n) : n \in {"U32", "I32", "U64", "I64", "U128", "I128", "Amount", "Duration", "ContractAddress"}}
AllEncodings == {<<t, s>> : t \in ShortTypes, s \in Seqs(3) \cup [1 .. 4 -> {0, 1, 5, 7}]}
                \cup {<<t, s>> : t \in LongTypes, s \in Samples(3) \cup Samples(5) \cup Samples(8)}

\* Besides json and bytes, the inputs that meet one disagreement each.
LongString == << <<"String", "U8">>, <<"text", Letters(7)>> >>
ValueParts == {"json", "bytes", "map_trace", "long_string", "duration", "timestamp"}
ValuesOf(p) ==
  CASE p = "json" -> AllValues
    [] p = "map_trace" -> Mapped(Leaves, Leaves)
    [] p = "long_string" -> Coupled({LongString}, {<<U8, <<"num", 1>>>>})
    [] p = "duration" -> {<<Leaf("Duration"), <<"dur", << <<n, "d">> >>>>>> : n \in {1, (Byte ^ 4) \div 16}}
    [] OTHER -> {}
EncodingsOf(p) ==
  CASE p = "bytes" -> AllEncodings
    [] p = "timestamp" -> {<<Leaf("Timestamp"), s>> : s \in [1 .. 4 -> {0, Byte - 1}]}
    [] OTHER -> {}

Schemas(p) == INSTANCE SchemaValues WITH
  MaxName <- 3, MaxPrealloc <- IF p = "bytes" THEN 7 ELSE 2, Chunk <- 2,
  Values <- ValuesOf(p), Encodings <- EncodingsOf(p)

-----------------------------------------------------------------------------
(* Schema modules of two contracts.  One function takes every type of a set *)
(* that covers all constructors, the others every combination of parts.     *)

Plain == {<<n>> : n \in {"Unit", "Bool", "U8", "U16", "U32", "U64", "U128", "I8", "I16", "I32", "I64", "I128", "Amount",
                         "AccountAddress", "ContractAddress", "Timestamp", "Duration"}}
         \cup {<<n, s>> : n \in {"String", "ContractName", "ReceiveName", "ByteList"}, s \in {"U8", "U16", "U32", "U64"}}
         \cup {<<n, k>> : n \in {"ULeb128", "ILeb128", "ByteArray"}, k \in {0, 5}}
Few == {<<"U8">>, <<"String", "U16">>, <<"ULeb128", 5>>}
Nested(ts) == UNION {
  {<<"Pair", t, u>> : t, u \in ts}, {<<n, "U16", t>> : n \in {"List", "Set"}, t \in ts}, {<<"Map", "U64", t, u>> : t, u \in ts},
  {<<"Array", 3, t>> : t \in ts}, {<<"Struct", <<"None">>>>},
  {<<"Struct", <<"Named", << <<"x", t>>, <<"y", u>> >>>>>> : t, u \in ts},
  {<<"Struct", <<"Unnamed", <<t>>>>>> : t \in ts},
  {<<"Enum", << <<0, "A", <<"None">>>>, <<1, "B", <<"Unnamed", <<t>>>>>> >>>> : t \in ts},
  {<<"TaggedEnum", << <<4, "A", <<"Named", << <<"x", t>> >>>>>>, <<7, "B", <<"None">>>> >>>> : t \in ts}}

Types == Plain \cup Nested(Few) \cup Nested({<<"List", "U8", <<"Bool">>>>, <<"Struct", <<"Named", <<>>>>>>})
Opt(t) == {{}, {t}}
\* The functions a version can express.
Function(p, r, e) == [parameter |-> p, return_value |-> r, error |-> e]
FunctionsOf(v) ==
  {f \in {Function(p, r, e) : p \in Opt(<<"U8">>), r \in Opt(<<"U16">>), e \in Opt(<<"Bool">>)} :
     /\ v = 0 => f.parameter # {} /\ f.return_value = {} /\ f.error = {}
     /\ v = 1 => f.error = {} /\ (f.parameter # {} \/ f.return_value # {})}

Export(names, vals) == [n \in Range(names) |-> vals[CHOOSE i \in DOMAIN names : names[i] = n]]

Combined == UNION {
  {<<v, Export(<< <<"receive", "a", "f">>, <<"receive", "b", "f">>, <<"init", "a">> >>, <<f, g, h>>)>> :
     f \in FunctionsOf(v), g \in FunctionsOf(v), h \in FunctionsOf(v)} : v \in 0 .. 3}
Typed == {<<v, Export(<< <<"receive", "a", "f">>, <<"receive", "a", "g">> >>, <<Function({t}, {}, {}), Function({t}, {}, {})>>)>> :
             v \in 0 .. 3, t \in Types}
StateEvent == {<<v, Export(<< <<"state", "a">>, <<"event", "a">>, <<"event", "b">> >>, <<t, <<"U8">>, t>>)>> :
                 v \in 0 .. 3, t \in Few}
AllDeclarations == UNION {Combined, Typed, StateEvent}

OldSchema == {[version |-> 3, contracts |-> [c \in {"a"} |-> [state |-> {}, init |-> {}, receive |-> <<>>, event |-> {}]]]}

Modules == INSTANCE SchemaModules WITH
  Contracts <- {"a", "b", "c"}, Functions_ <- {"f", "g"}, Declarations <- AllDeclarations, Stale <- OldSchema

-----------------------------------------------------------------------------
(* Account transactions: counts of two bits, accounts of one and two        *)
(* credentials, and wallets that hold all, some or outdated keys.  The      *)
(* longest payload of the library just fits.                                *)

Encoder == INSTANCE Transactions WITH
  U8 <- 4, MaxMemo <- 2, MaxPayload <- 15, HeaderSize <- 60, MaxSigs <- 3, MaxExisting <- 2,
  Accounts <- {}, Wallets <- {}, Payloads <- {}, Foreign <- {}, Signers <- {"keys", "map"}

Cred(t, ks) == [threshold |-> t, keys |-> ks]
At0(c) == [i \in {0} |-> c]

Simple  == [threshold |-> 1, creds |-> At0(Cred(1, [k \in {0} |-> 1]))]
Rotated == [threshold |-> 1, creds |-> At0(Cred(1, [k \in {0} |-> 2]))]
TwoOfTwo == [threshold |-> 2,
             creds |-> [c \in {0, 2} |-> IF c = 0 THEN Cred(2, [k \in {0, 3} |-> IF k = 0 THEN 1 ELSE 2])
                                        ELSE Cred(1, [k \in {1} |-> 3])]]
OneOfTwo == [TwoOfTwo EXCEPT !.threshold = 1]
\* A wallet that holds one of the two keys its credential asks for.
Partial == [threshold |-> 2,
            creds |-> [c \in {0, 2} |-> IF c = 0 THEN Cred(2, [k \in {3} |-> 2])
                                       ELSE Cred(1, [k \in {1} |-> 3])]]

P(kind, fields) == [kind |-> kind, parts |-> fields]
Ones(n) == [i \in 1..n |-> 1]

TransferPayloads ==
  {P("Transfer", <<1, 2>>), P("TransferWithMemo", <<1, 2, 1>>),
   P("EncryptedAmountTransfer", <<1, 2>>), P("EncryptedAmountTransferWithMemo", <<1, 0, 2>>),
   P("TransferToEncrypted", <<1>>), P("TransferToPublic", <<1>>)}
  \cup {P("TransferWithSchedule", <<1, Ones(n)>>) : n \in 0..3}
  \cup {P("TransferWithScheduleAndMemo", <<1, 1, Ones(n)>>) : n \in {0, 3}}
\* More releases than a byte can count.
LongSchedules ==
  {P("TransferWithSchedule", <<1, Ones(4)>>), P("TransferWithScheduleAndMemo", <<1, 1, Ones(5)>>)}
BakerPayloads ==
  {P("AddBaker", <<1, 2, 3, 4, 5, 6, 7, 0>>), P("UpdateBakerKeys", <<1, 2, 3, 4, 5, 6>>),
   P("RemoveBaker", <<>>), P("UpdateBakerStake", <<1>>), P("UpdateBakerRestakeEarnings", <<1>>)}
ContractPayloads ==
  {P("RegisterData", <<n>>) : n \in 0..2}
  \cup {P("DeployModule", <<40>>), P("InitContract", <<1, 2, 3, 1>>), P("Update", <<1, 2, 3, 0>>)}
ConfigurePayloads ==
  {P("ConfigureBaker", << [i \in S |-> i] >>) : S \in {{}, {1}, {4}, {2, 4, 8}, 1..8, {3, 5}, {6, 7}}}
  \cup {P("ConfigureDelegation", << [i \in S |-> i] >>) : S \in SUBSET {1, 2, 3}}
CredentialPayloads ==
  {P("UpdateCredentialKeys", <<0, Cred(1, [k \in {0} |-> 2])>>),
   P("UpdateCredentialKeys", <<0, Cred(2, [k \in {0, 3} |-> IF k = 0 THEN 1 ELSE 2])>>),
   P("UpdateCredentials", << [c \in {2, 5} |-> c - 1], <<>>, 2>>),
   P("UpdateCredentials", << [c \in {} |-> 0], <<1, 2>>, 1>>)}

AllPayloads == TransferPayloads \cup BakerPayloads \cup ContractPayloads
                 \cup ConfigurePayloads \cup CredentialPayloads

SomeAccounts == {Simple, TwoOfTwo, OneOfTwo}
SomeWallets  == {Simple, Rotated, TwoOfTwo, OneOfTwo, Partial}

\* Encoded payloads of other implementations: known, unordered, truncated, with more behind, and
\* one more than the limit.
OtherEncodings ==
  {Encoder!encode(P("InitContract", <<1, 2, 3, n>>)) : n \in {10, 11}} \cup
  {Encoder!encode(P("Transfer", <<1, 2>>)), Encoder!encode(P("Transfer", <<1, 2>>)) \o << <<"byte", 0>> >>,
   << <<"tag", 3>>, <<"account", 1>> >>, << <<"tag", 9>> >>,
   << <<"tag", 26>>, <<"u16", 9>>, <<"amount", 1>> >>,
   << <<"tag", 20>>, <<"u8", 2>>, <<"index", 5>>, <<"credential", 1>>, <<"index", 2>>,
      <<"credential", 1>>, <<"u8", 0>>, <<"threshold", 1>> >>}
\* A later protocol's ConfigureBaker: bit 8 is set.
LaterEncodings == {<< <<"tag", 25>>, <<"u16", 257>>, <<"amount", 1>> >>}

TransactionParts == {"transactions", "later_payload", "long_schedule"}

Chain(p) == INSTANCE Transactions WITH
  U8 <- 4, MaxMemo <- 2, MaxPayload <- 15, HeaderSize <- 60, MaxSigs <- 3, MaxExisting <- 2,
  Accounts <- SomeAccounts, Wallets <- SomeWallets, Signers <- {"keys", "map"},
  Payloads <- CASE p = "transactions" -> AllPayloads [] p = "later_payload" -> TransferPayloads
                [] p = "long_schedule" -> LongSchedules,
  Foreign <- CASE p = "transactions" -> OtherEncodings [] p = "later_payload" -> LaterEncodings
               [] p = "long_schedule" -> {}

-----------------------------------------------------------------------------
(* Governance updates: exchange rates and the fee distribution with rules   *)
(* that overlap in one key; and updates of the keys themselves.             *)

Level2(x, y) == [keys |-> <<"k0", "k1", "k2">>,
                 access |-> [f \in {"EuroPerEnergy", "MicroGTUPerEuro",
                                    "TransactionFeeDistribution", "consensus", "pool"} |->
                               IF f = "EuroPerEnergy" THEN x ELSE y]]
Two(s) == [authorized |-> s, threshold |-> 2]
One(s) == [authorized |-> s, threshold |-> 1]

SomeGenesis == [root   |-> [keys |-> <<"k0", "k1">>, threshold |-> 2],
              level1 |-> [keys |-> <<"k1", "k2">>, threshold |-> 1],
              level2 |-> Level2(Two({0, 1}), One({1, 2}))]

\* Parameters.
Rates == {<<"EuroPerEnergy", <<1, 1>>>>, <<"MicroGTUPerEuro", <<1, 1>>>>, <<"MicroGTUPerEuro", <<1, 2>>>>}

\* Keys: a root key is replaced, a threshold is set too high, level 1 hands over and level 2
\* changes its rules.
KeyUpdates ==
  {<<"Root", <<"RootKeys", [keys |-> <<"k2", "k0">>, threshold |-> 1]>>>>,
   <<"Root", <<"RootKeys", [keys |-> <<"k1">>, threshold |-> 2]>>>>,
   <<"Level1", <<"Level2Keys", Level2(One({2}), One({0}))>>>>,
   <<"TransactionFeeDistribution", <<3, 3>>>>}

UpdateParts == {"rates", "keys"}
Updates(p) == INSTANCE ChainUpdates WITH
  Keys <- {"k0", "k1", "k2"}, Genesis <- SomeGenesis, Payloads <- IF p = "rates" THEN Rates ELSE KeyUpdates, Hundred <- 4,
  MaxTime <- 2, MaxMade <- 2, MaxAccepted <- 2

\* Decimals of up to three digits behind the point.
Decimals == INSTANCE ChainParameters WITH
  Decimals <- 2, U32 <- 60, U64 <- 120, MaxMantissa <- 130, MaxScale <- 3

-----------------------------------------------------------------------------
Init ==
  \/ \E p \in Parts \cap ValueParts :
       /\ part = p /\ Schemas(p)!Init
       /\ accepted = 0 /\ NoModules /\ NoTransactions /\ NoUpdates /\ NoDecimals
  \/ /\ "modules" \in Parts /\ part = "modules" /\ Modules!Init
     /\ accepted = 0 /\ NoValues /\ NoTransactions /\ NoUpdates /\ NoDecimals
  \/ \E p \in Parts \cap TransactionParts :
       /\ part = p /\ Chain(p)!Init
       /\ phase = 0 /\ NoValues /\ NoModules /\ NoUpdates /\ NoDecimals
  \/ \E p \in Parts \cap UpdateParts :
       /\ part = p /\ Updates(p)!Init
       /\ phase = 0 /\ NoValues /\ NoModules /\ NoTransactions /\ NoDecimals
  \/ /\ "decimals" \in Parts /\ part = "decimals" /\ Decimals!Init
     /\ phase = 0 /\ accepted = 0 /\ NoValues /\ NoModules /\ NoTransactions /\ NoUpdates

Convert ==
  \E p \in Parts \cap ValueParts :
    /\ part = p /\ Schemas(p)!Next
    /\ UNCHANGED <<part, accepted, ofModules, ofTransactions, ofUpdates, ofDecimals>>
Declare ==
  /\ part = "modules" /\ Modules!Next
  /\ UNCHANGED <<part, accepted, ofValues, ofTransactions, ofUpdates, ofDecimals>>
Transact ==
  \E p \in Parts \cap TransactionParts :
    /\ part = p /\ Chain(p)!Next
    /\ UNCHANGED <<part, phase, ofValues, ofModules, ofUpdates, ofDecimals>>
Govern ==
  \E p \in Parts \cap UpdateParts :
    /\ part = p /\ Updates(p)!Next
    /\ UNCHANGED <<part, phase, ofValues, ofModules, ofTransactions, ofDecimals>>
EnterDecimal ==
  /\ part = "decimals" /\ Decimals!Next
  /\ UNCHANGED <<part, phase, accepted, ofValues, ofModules, ofTransactions, ofUpdates>>

Next == Convert \/ Declare \/ Transact \/ Govern \/ EnterDecimal

Spec == Init /\ [][Next]_vars

-----------------------------------------------------------------------------
\* What one side writes means the same to the side that reads it: a value given as JSON
\* (schema_json.rs), bytes that were shown and are sent again, a schema found in a module
\* (schema.rs, utils.rs), a transaction in its two forms whose lists fit their one byte counts
\* (transactions.rs), and a decimal (updates.rs, base.rs).  The parts long_string, duration,
\* timestamp, later_payload and long_schedule have the inputs for which this is not so.
WrittenIsUnderstood ==
  /\ \A p \in Parts \cap ValueParts :
       part = p => /\ Schemas(p)!MeaningSurvives
                   /\ Schemas(p)!TemplateIsAccepted
                   /\ Schemas(p)!ShownCanBeSent
  /\ part = "modules" =>
       Modules!LoadedIsDeclared /\ Modules!AnswersAreDeclared /\ Modules!DisplayedIsDeclared
  /\ \A p \in Parts \cap TransactionParts :
       part = p => /\ Chain(p)!SentIsReadable
                   /\ Chain(p)!FormsAgree
  /\ part = "decimals" => Decimals!ConversionIsExact

\* The error of a refused value or of refused bytes leads from the root to the place that is
\* wrong, through every list, set, array, pair, struct and enum in between (schema_json.rs).  An
\* error in a map is the part map_trace, where the trace starts at the entry.
TraceLeadsToCause ==
  \A p \in Parts \cap ValueParts :
    part = p => /\ Schemas(p)!TraceLeadsToCause
                /\ Schemas(p)!ReadTraceDescends

\* The chain accepts only what was authorised: enough current keys signed exactly this, also
\* when keys change while it is on its way (verify_data_signature, checkAuthorizedUpdate).
AcceptedIsAuthorised ==
  /\ \A p \in Parts \cap TransactionParts : part = p => Chain(p)!AcceptedIsAuthorised
  /\ \A p \in Parts \cap UpdateParts : part = p => Updates(p)!AcceptedIsAuthorised

\* Who follows the rules is served: an authorised holder's transaction is accepted and has the
\* energy it needs, a fresh update by current key holders is acceptable, the last decision is
\* in force, and no update leaves the chain without governance.
AuthorisedIsServed ==
  /\ \A p \in Parts \cap TransactionParts :
       part = p => Chain(p)!EnergySuffices /\ Chain(p)!HolderIsAccepted
  /\ \A p \in Parts \cap UpdateParts :
       part = p => /\ Updates(p)!FreshIsAcceptable
                   /\ Updates(p)!LastDecisionIsInForce
                   /\ Updates(p)!GovernanceCanAct
=============================================================================
