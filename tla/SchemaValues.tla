---------------------------- MODULE SchemaValues ----------------------------
(***************************************************************************)
(* A value of a contract, from JSON to bytes and back (schema_json.rs of   *)
(* concordium-contracts-common).  A user gives JSON, serial_value writes   *)
(* bytes as the schema type says, to_json shows bytes as JSON, and an      *)
(* error carries a trace from the root of the JSON to its cause.           *)
(*                                                                         *)
(* A type is a tuple headed by its constructor, <<"List", "U8", <<"Bool">>>>.*)
(* A JSON value is a tuple headed by its kind.  A JSON string is one of    *)
(* several texts that the code tells apart by parsing: characters, the     *)
(* decimals of an integer, hex, a duration, an RFC3339 date, an address.   *)
(* A byte has Byte values instead of 256; widths are scaled with Width.    *)
(***************************************************************************)
EXTENDS Integers, Sequences, FiniteSets, SequencesExt

CONSTANTS
  Byte,              \* number of values of a byte, a multiple of 4
  MaxName,           \* MAX_FUNC_NAME_SIZE
  MaxPrealloc,       \* MAX_PREALLOCATED_CAPACITY
  Chunk,             \* size of the buffer deserial_string reads into
  MaxDate,           \* last millisecond chrono can represent
  Values,            \* pairs of a type and a JSON value a user may give
  Encodings          \* pairs of a type and bytes that may be shown

VARIABLES
  ty,                \* the schema type
  json,              \* the JSON given, or shown first
  phase,             \* what has been done so far
  out,               \* the bytes
  shown,             \* the JSON that to_json made of them
  end,               \* cursor position after to_json
  err,               \* error: layers from the root to the cause
  cur,               \* current_error, out of the loops over an error
  lines              \* what display_nested has put together

vars == <<ty, json, phase, out, shown, end, err, cur, lines>>

---------------------------------------------------------------------------
(* Bytes and integers.                                                     *)

Width == [U8 |-> 1, U16 |-> 2, U32 |-> 3, U64 |-> 4, U128 |-> 5,
          I8 |-> 1, I16 |-> 2, I32 |-> 3, I64 |-> 4, I128 |-> 5]

Bits(w) == Byte ^ w

LittleEndian(n, w) == [i \in 1 .. w |-> (n \div (Byte ^ (i - 1))) % Byte]

Unsigned(bs) == FoldLeft(LAMBDA a, i : a + bs[i] * (Byte ^ (i - 1)), 0,
                         [i \in 1 .. Len(bs) |-> i])

Signed(bs) == IF Unsigned(bs) < Bits(Len(bs)) \div 2
              THEN Unsigned(bs) ELSE Unsigned(bs) - Bits(Len(bs))

\* Results.  A failure has its layers in err, the root first.
Ok(bs) == [out |-> bs, err |-> <<>>]
Fail(cause) == [out |-> <<>>, err |-> << <<"cause", cause>> >>]
Failed(r) == r.err # <<>>

Read(v, p) == [v |-> v, pos |-> p, err |-> <<>>]
deserial_error(t, p) == [v |-> <<"null">>, pos |-> p, err |-> << <<"cause", t, p>> >>]

---------------------------------------------------------------------------
(* The traces.                                                             *)

add_trace(r, field, whole) ==
  [r EXCEPT !.err = << <<"in", field, whole>> >> \o @]

read_trace(r, t, p) ==
  IF Failed(r) THEN [r EXCEPT !.err = << <<"in", t, p>> >> \o @] ELSE r

---------------------------------------------------------------------------
(* JSON to bytes.                                                          *)

Fits(n, name) ==
  IF name \in {"U8", "U16", "U32", "U64", "U128"}
  THEN n \in 0 .. Bits(Width[name]) - 1
  ELSE n \in -(Bits(Width[name]) \div 2) .. (Bits(Width[name]) \div 2) - 1

write_bytes_for_length_of_size(n, size_len) ==
  IF Fits(n, size_len) THEN Ok(LittleEndian(n, Width[size_len])) ELSE Fail("TryFromInt")

WriteNumber(t, j) ==
  IF j[1] # "num" THEN Fail("WrongJsonType")
  ELSE IF ~Fits(j[2], t[1]) THEN Fail("TryFromInt")
  ELSE Ok(LittleEndian(j[2], Width[t[1]]))

WriteLarge(name, j) ==
  IF j[1] # "int" THEN Fail("WrongJsonType")
  ELSE IF ~Fits(j[2], name) THEN Fail("ParseInt")
  ELSE Ok(LittleEndian(j[2], Width[name]))

\* Units of a duration, scaled: 2 ms a second, 2 s a minute, ...
UnitMillis == [ms |-> 1, s |-> 2, m |-> 4, h |-> 8, d |-> 16]

ParseDuration(measures) ==
  FoldLeft(LAMBDA a, m : (a + m[1] * UnitMillis[m[2]]) % Bits(Width["U64"]), 0, measures)

DisplayDuration(n) ==
  << <<n \div 16, "d">>, <<(n % 16) \div 8, "h">>, <<(n % 8) \div 4, "m">>,
     <<(n % 4) \div 2, "s">>, <<n % 2, "ms">> >>

\* Timestamp::from_str: decimals, or a date that may be before 1970.
WriteTimestamp(j) ==
  CASE j[1] = "int" /\ Fits(j[2], "U64") -> Ok(LittleEndian(j[2], Width["U64"]))
    [] j[1] = "date" /\ j[2] >= 0 -> Ok(LittleEndian(j[2], Width["U64"]))
    [] j[1] = "date" -> Fail("BeforeUnixEpoch")
    [] OTHER -> Fail("ParseTimestamp")

\* Timestamp::fmt casts to i64 first.
DisplayTimestamp(n) ==
  LET i64 == IF n < Bits(Width["U64"]) \div 2 THEN n ELSE n - Bits(Width["U64"])
  IN  IF -MaxDate <= i64 /\ i64 <= MaxDate THEN <<"date", i64>> ELSE <<"int", n>>

WriteTime(t, j) ==
  IF t[1] = "Timestamp" THEN WriteTimestamp(j)
  ELSE IF j[1] = "dur" THEN Ok(LittleEndian(ParseDuration(j[2]), Width["U64"]))
  ELSE Fail("WrongJsonType")

AddressWidth == 2

\* A member of an object that is a JSON number that fits a u64.
U64Field(o, name) ==
  IF name \in DOMAIN o /\ o[name][1] = "num" /\ Fits(o[name][2], "U64")
  THEN {o[name][2]} ELSE {}

WriteAddress(t, j) ==
  IF t[1] = "AccountAddress"
  THEN IF j[1] = "acc" THEN Ok(LittleEndian(j[2], AddressWidth)) ELSE Fail("WrongJsonType")
  ELSE IF j[1] # "obj" THEN Fail("WrongJsonType")
  ELSE IF Cardinality(DOMAIN j[2]) > 2 \/ U64Field(j[2], "index") = {} THEN Fail("FieldError")
  ELSE Ok(LittleEndian(CHOOSE n \in U64Field(j[2], "index") : TRUE, Width["U64"])
          \o LittleEndian(IF U64Field(j[2], "subindex") = {} THEN 0
                          ELSE CHOOSE n \in U64Field(j[2], "subindex") : TRUE, Width["U64"]))

\* Characters of names: Dot, Init for the prefix init_, Space is not allowed
\* in a name, and the last value of a byte is never a part of UTF-8.
Dot == 1
Init_ == 2
Space == 3
ValidUtf8(s) == Byte - 1 \notin Range(s)

WithLength(bs, size_len) ==
  LET n == write_bytes_for_length_of_size(Len(bs), size_len)
  IN  IF Failed(n) THEN n ELSE Ok(n.out \o bs)

WriteText(t, j) ==
  CASE t[1] = "String" ->
         IF j[1] = "text" THEN WithLength(j[2], t[2]) ELSE Fail("WrongJsonType")
    [] t[1] = "ByteList" ->
         IF j[1] = "hex" THEN WithLength(j[2], t[2]) ELSE Fail("WrongJsonType")
    [] t[1] = "ByteArray" ->
         IF j[1] # "hex" THEN Fail("WrongJsonType")
         ELSE IF Len(j[2]) # t[2] THEN Fail("ByteArrayError") ELSE Ok(j[2])

WriteName(t, j) ==
  IF j[1] # "obj" THEN Fail("WrongJsonType")
  ELSE IF DOMAIN j[2] # (IF t[1] = "ContractName" THEN {"contract"} ELSE {"contract", "func"})
  THEN Fail("FieldError")
  ELSE IF \E f \in DOMAIN j[2] : j[2][f][1] # "text" THEN Fail("WrongJsonType")
  ELSE WithLength(IF t[1] = "ContractName" THEN <<Init_>> \o j[2].contract[2]
                  ELSE j[2].contract[2] \o <<Dot>> \o j[2].func[2], t[2])

\* LEB128: half of a byte is payload, the other half says that more follows.
Payload == Byte \div 2

RECURSIVE serial_biguint(_, _)
serial_biguint(n, constraint) ==
  IF constraint = 0 THEN Fail("FailedWriting")
  ELSE IF n \div Payload = 0 THEN Ok(<<n % Payload>>)
  ELSE LET r == serial_biguint(n \div Payload, constraint - 1)
       IN  IF Failed(r) THEN r ELSE Ok(<<(n % Payload) + Payload>> \o r.out)

\* Mutant of LastSigned: the sign bit of the last byte is not looked at.
LastSignedZero(n) == n \div Payload \in {0, -1}

LastSigned(n) ==
  \/ n \div Payload = 0 /\ n % Payload < Payload \div 2
  \/ n \div Payload = -1 /\ n % Payload >= Payload \div 2

RECURSIVE serial_bigint(_, _)
serial_bigint(n, constraint) ==
  IF constraint = 0 THEN Fail("FailedWriting")
  ELSE IF LastSigned(n) THEN Ok(<<n % Payload>>)
  ELSE LET r == serial_bigint(n \div Payload, constraint - 1)
       IN  IF Failed(r) THEN r ELSE Ok(<<(n % Payload) + Payload>> \o r.out)

WriteLeb(t, j) ==
  IF j[1] # "int" THEN Fail("WrongJsonType")
  ELSE IF t[1] = "ILeb128" THEN serial_bigint(j[2], t[2])
  ELSE IF j[2] < 0 THEN Fail("ParseError") ELSE serial_biguint(j[2], t[2])

RECURSIVE write_bytes_from_json_schema_type(_, _), WriteEach(_, _, _), WriteEntries(_, _, _, _)

\* Items are triples of the place, the type and the value, or <<"missing">>.
WriteEach(items, whole, done) ==
  IF items = <<>> THEN Ok(done)
  ELSE IF Head(items)[3] = <<"missing">> THEN Fail("FieldError")
  ELSE LET r == write_bytes_from_json_schema_type(Head(items)[2], Head(items)[3])
       IN  IF Failed(r) THEN add_trace(r, Head(items)[1], whole)
           ELSE WriteEach(Tail(items), whole, done \o r.out)

\* The entries of a map.  The operator ? in the block leaves the function, so
\* the trace of the entry's index is never added.
WriteEntries(entries, t, whole, done) ==
  IF entries = <<>> THEN Ok(done)
  ELSE IF Head(entries)[1] # "arr" THEN Fail("WrongJsonType")
  ELSE IF Len(Head(entries)[2]) # 2 THEN Fail("MapError")
  ELSE LET e == Head(entries)
           r == WriteEach(<< << <<"i", 0>>, t[3], e[2][1]>>, << <<"i", 1>>, t[4], e[2][2]>> >>,
                          e, <<>>)
       IN  IF Failed(r) THEN r ELSE WriteEntries(Tail(entries), t, whole, done \o r.out)

\* Mutant of Place0: the place of an element is counted from one.
PlaceFromOne(i) == <<"i", i>>

Place0(i) == <<"i", i - 1>>

Elements(j, elem(_)) == [i \in 1 .. Len(j[2]) |-> <<Place0(i), elem(i), j[2][i]>>]

WriteSequence(t, j) ==
  IF j[1] # "arr" THEN Fail("WrongJsonType")
  ELSE CASE t[1] = "Pair" -> IF Len(j[2]) # 2 THEN Fail("PairError")
                             ELSE WriteEach(Elements(j, LAMBDA i : t[i + 1]), j, <<>>)
         [] t[1] = "Array" -> IF Len(j[2]) # t[2] THEN Fail("ArrayError")
                              ELSE WriteEach(Elements(j, LAMBDA i : t[3]), j, <<>>)
         [] OTHER -> LET n == write_bytes_for_length_of_size(Len(j[2]), t[2])
                     IN  IF Failed(n) THEN n
                         ELSE IF t[1] = "Map" THEN WriteEntries(j[2], t, j, n.out)
                         ELSE WriteEach(Elements(j, LAMBDA i : t[3]), j, n.out)

\* Fields are <<"Named", <<name, type>>...>>, <<"Unnamed", types>> or <<"None">>.
write_bytes_from_json_schema_fields(f, j) ==
  CASE f[1] = "None" -> Ok(<<>>)
    [] f[1] = "Unnamed" ->
         IF j[1] # "arr" THEN Fail("WrongJsonType")
         ELSE IF Len(f[2]) # Len(j[2]) THEN Fail("FieldError")
         ELSE WriteEach(Elements(j, LAMBDA i : f[2][i]), j, <<>>)
    [] f[1] = "Named" ->
         IF j[1] # "obj" THEN Fail("WrongJsonType")
         ELSE IF Cardinality(DOMAIN j[2]) > Len(f[2]) THEN Fail("FieldError")
         ELSE WriteEach([i \in 1 .. Len(f[2]) |->
                           << <<"f", f[2][i][1]>>, f[2][i][2],
                              IF f[2][i][1] \in DOMAIN j[2] THEN j[2][f[2][i][1]]
                              ELSE <<"missing">> >>], j, <<>>)

\* Variants are triples of a tag, a name and fields; the tag of an Enum is its
\* place, written in two bytes when there are more variants than a byte counts.
TagWidth(t) == IF t[1] = "Enum" /\ Len(t[2]) > Byte THEN 2 ELSE 1

WriteEnum(t, j) ==
  IF j[1] # "obj" THEN Fail("WrongJsonType")
  ELSE IF Cardinality(DOMAIN j[2]) # 1 THEN Fail("EnumError")
  ELSE LET name == CHOOSE n \in DOMAIN j[2] : TRUE
           known == {i \in DOMAIN t[2] : t[2][i][2] = name}
       IN  IF known = {} \/ Len(t[2]) > Byte * Byte THEN Fail("EnumError")
           ELSE LET i == CHOOSE i \in known : \A k \in known : i <= k
                    r == write_bytes_from_json_schema_fields(t[2][i][3], j[2][name])
                IN  IF Failed(r) THEN add_trace(r, <<"f", name>>, j)
                    ELSE Ok(LittleEndian(t[2][i][1], TagWidth(t)) \o r.out)

write_bytes_from_json_schema_type(t, j) ==
  CASE t[1] = "Unit" -> Ok(<<>>)
    [] t[1] = "Bool" -> IF j[1] = "bool" THEN Ok(<<IF j[2] THEN 1 ELSE 0>>) ELSE Fail("WrongJsonType")
    [] t[1] \in {"U8", "U16", "U32", "U64", "I8", "I16", "I32", "I64"} -> WriteNumber(t, j)
    [] t[1] = "Amount" -> WriteLarge("U64", j)
    [] t[1] \in {"U128", "I128"} -> WriteLarge(t[1], j)
    [] t[1] \in {"AccountAddress", "ContractAddress"} -> WriteAddress(t, j)
    [] t[1] \in {"Timestamp", "Duration"} -> WriteTime(t, j)
    [] t[1] \in {"Pair", "List", "Set", "Map", "Array"} -> WriteSequence(t, j)
    [] t[1] = "Struct" -> write_bytes_from_json_schema_fields(t[2], j)
    [] t[1] \in {"Enum", "TaggedEnum"} -> WriteEnum(t, j)
    [] t[1] \in {"String", "ByteList", "ByteArray"} -> WriteText(t, j)
    [] t[1] \in {"ContractName", "ReceiveName"} -> WriteName(t, j)
    [] t[1] \in {"ULeb128", "ILeb128"} -> WriteLeb(t, j)

---------------------------------------------------------------------------
(* Bytes to JSON.  p is the number of bytes read so far.                   *)

Left(bs, p) == Len(bs) - p
Take(bs, p, n) == SubSeq(bs, p + 1, p + n)

ReadNumber(t, bs, p) ==
  LET w == Width[t[1]]
  IN  IF Left(bs, p) < w THEN deserial_error(t, p)
      ELSE Read(<<IF t[1] \in {"U128", "I128"} THEN "int" ELSE "num",
                  IF t[1] \in {"I8", "I16", "I32", "I64", "I128"}
                  THEN Signed(Take(bs, p, w)) ELSE Unsigned(Take(bs, p, w))>>, p + w)

ReadFixed(t, bs, p) ==
  LET w == CASE t[1] = "AccountAddress" -> AddressWidth
             [] t[1] = "ContractAddress" -> 2 * Width["U64"]
             [] OTHER -> Width["U64"]
      n == Unsigned(Take(bs, p, w))
  IN  IF Left(bs, p) < w THEN deserial_error(t, p)
      ELSE Read(CASE t[1] = "AccountAddress" -> <<"acc", n>>
                  [] t[1] = "Amount" -> <<"int", n>>
                  [] t[1] = "Timestamp" -> DisplayTimestamp(n)
                  [] t[1] = "Duration" -> <<"dur", DisplayDuration(n)>>
                  [] t[1] = "ContractAddress" ->
                       <<"obj", [index |-> <<"num", Unsigned(Take(bs, p, w \div 2))>>,
                                 subindex |-> <<"num", Unsigned(Take(bs, p + w \div 2, w \div 2))>>]>>,
                p + w)

\* deserial_length: a set of at most one length, and the place after it.
deserial_length(bs, p, size_len) ==
  IF Left(bs, p) < Width[size_len] THEN {} ELSE {Unsigned(Take(bs, p, Width[size_len]))}

\* The long way of deserial_string fills a buffer of Chunk bytes at a time,
\* from all that is left of the source and not only from the string.
ReadLong(bs, p, n) ==
  LET rounds == (n + Chunk - 1) \div Chunk
      got == IF Left(bs, p) < rounds * Chunk THEN Left(bs, p) ELSE rounds * Chunk
  IN  IF got = n THEN {Take(bs, p, n)} ELSE {}

deserial_string(bs, p, size_len) ==
  LET len == deserial_length(bs, p, size_len)
      q == p + Width[size_len]
      n == CHOOSE l \in len : TRUE
  IN  IF len = {} THEN {}
      ELSE {s \in IF n > MaxPrealloc THEN ReadLong(bs, q, n)
                  ELSE IF Left(bs, q) < n THEN {} ELSE {Take(bs, q, n)} : ValidUtf8(s)}

NameCharacters(s) == Space \notin Range(s)
is_valid_contract_name(s) ==
  Len(s) > 0 /\ s[1] = Init_ /\ Len(s) <= MaxName /\ Dot \notin Range(s) /\ NameCharacters(s)
is_valid_receive_name(s) == Dot \in Range(s) /\ Len(s) <= MaxName /\ NameCharacters(s)

FirstDot(s) == CHOOSE i \in DOMAIN s : s[i] = Dot /\ \A k \in DOMAIN s : s[k] = Dot => i <= k

ReadText(t, bs, p) ==
  LET found == deserial_string(bs, p, t[2])
      s == CHOOSE x \in found : TRUE
      q == p + Width[t[2]] + Len(s)
  IN  IF found = {} THEN deserial_error(t, p)
      ELSE CASE t[1] = "String" -> Read(<<"text", s>>, q)
             [] t[1] = "ContractName" ->
                  IF ~is_valid_contract_name(s) THEN deserial_error(t, p)
                  ELSE Read(<<"obj", [contract |-> <<"text", Tail(s)>>]>>, q)
             [] t[1] = "ReceiveName" ->
                  IF ~is_valid_receive_name(s) THEN deserial_error(t, p)
                  ELSE Read(<<"obj", [contract |-> <<"text", SubSeq(s, 1, FirstDot(s) - 1)>>,
                                      func |-> <<"text", SubSeq(s, FirstDot(s) + 1, Len(s))>>]>>, q)

ReadBytes(t, bs, p) ==
  LET len == IF t[1] = "ByteArray" THEN {t[2]} ELSE deserial_length(bs, p, t[2])
      q == IF t[1] = "ByteArray" THEN p ELSE p + Width[t[2]]
      n == CHOOSE l \in len : TRUE
  IN  IF len = {} \/ Left(bs, q) < n THEN deserial_error(t, p)
      ELSE Read(<<"hex", Take(bs, q, n)>>, q + n)

RECURSIVE ReadDigits(_, _, _)
\* The digits of a LEB128 number, the last one below Payload; {} on failure.
ReadDigits(bs, p, constraint) ==
  IF constraint = 0 \/ Left(bs, p) = 0 THEN {}
  ELSE IF bs[p + 1] < Payload THEN {<<bs[p + 1]>>}
  ELSE {<<bs[p + 1] - Payload>> \o d : d \in ReadDigits(bs, p + 1, constraint - 1)}

LebValue(d) == FoldLeft(LAMBDA a, i : a + d[i] * (Payload ^ (i - 1)), 0, [i \in 1 .. Len(d) |-> i])

deserial_biguint(d) == LebValue(d)
deserial_bigint(d) ==
  IF d[Len(d)] >= Payload \div 2 THEN LebValue(d) - Payload ^ Len(d) ELSE LebValue(d)

ReadLeb(t, bs, p) ==
  LET found == ReadDigits(bs, p, t[2])
      d == CHOOSE x \in found : TRUE
  IN  IF found = {} THEN deserial_error(t, p)
      ELSE Read(<<"int", IF t[1] = "ULeb128" THEN deserial_biguint(d) ELSE deserial_bigint(d)>>,
                p + Len(d))

RECURSIVE to_json(_, _, _), ReadEach(_, _, _, _), ReadPairs(_, _, _, _, _)

\* Values of the types, one after the other; the first failure ends it.
ReadEach(types, bs, p, done) ==
  IF types = <<>> THEN Read(<<"arr", done>>, p)
  ELSE LET r == to_json(Head(types), bs, p)
       IN  IF Failed(r) THEN r ELSE ReadEach(Tail(types), bs, r.pos, Append(done, r.v))

ReadPairs(n, t, bs, p, done) ==
  IF n = 0 THEN Read(<<"arr", done>>, p)
  ELSE LET r == ReadEach(<<t[3], t[4]>>, bs, p, <<>>)
       IN  IF Failed(r) THEN r ELSE ReadPairs(n - 1, t, bs, r.pos, Append(done, r.v))

Times(n, t) == [i \in 1 .. n |-> t]

item_list_to_json(t, bs, p) ==
  LET len == deserial_length(bs, p, t[2])
      n == CHOOSE l \in len : TRUE
      q == p + Width[t[2]]
  IN  IF len = {} THEN deserial_error(t, p)
      ELSE IF t[1] = "Map" THEN ReadPairs(n, t, bs, q, <<>>)
      ELSE ReadEach(Times(n, t[3]), bs, q, <<>>)

\* Only the length of a map is outside of the trace.
ReadSequence(t, bs, p) ==
  CASE t[1] = "Pair" -> read_trace(ReadEach(<<t[2], t[3]>>, bs, p, <<>>), t, p)
    [] t[1] = "Array" -> read_trace(ReadEach(Times(t[2], t[3]), bs, p, <<>>), t, p)
    [] t[1] = "Map" /\ deserial_length(bs, p, t[2]) = {} -> item_list_to_json(t, bs, p)
    [] OTHER -> read_trace(item_list_to_json(t, bs, p), t, p)

FieldsToJson(f, bs, p) ==
  CASE f[1] = "None" -> Read(<<"arr", <<>>>>, p)
    [] f[1] = "Unnamed" -> ReadEach(f[2], bs, p, <<>>)
    [] f[1] = "Named" ->
         LET r == ReadEach([i \in 1 .. Len(f[2]) |-> f[2][i][2]], bs, p, <<>>)
             at(n) == CHOOSE i \in 1 .. Len(f[2]) : f[2][i][1] = n
         IN  IF Failed(r) THEN r
             ELSE Read(<<"obj", [n \in {f[2][i][1] : i \in 1 .. Len(f[2])} |-> r.v[2][at(n)]]>>, r.pos)

ReadEnum(t, bs, p) ==
  LET w == TagWidth(t)
      tagged == {i \in DOMAIN t[2] : t[2][i][1] = Unsigned(Take(bs, p, w))}
      i == CHOOSE i \in tagged : TRUE
  IN  IF Left(bs, p) < w \/ tagged = {} THEN deserial_error(t, p)
      ELSE LET r == FieldsToJson(t[2][i][3], bs, p + w)
           IN  IF Failed(r) THEN read_trace(r, t, p)
               ELSE Read(<<"obj", [n \in {t[2][i][2]} |-> r.v]>>, r.pos)

to_json(t, bs, p) ==
  CASE t[1] = "Unit" -> Read(<<"null">>, p)
    [] t[1] = "Bool" -> IF Left(bs, p) < 1 \/ bs[p + 1] \notin {0, 1} THEN deserial_error(t, p)
                        ELSE Read(<<"bool", bs[p + 1] = 1>>, p + 1)
    [] t[1] \in DOMAIN Width -> ReadNumber(t, bs, p)
    [] t[1] \in {"Amount", "AccountAddress", "ContractAddress", "Timestamp", "Duration"} ->
         ReadFixed(t, bs, p)
    [] t[1] \in {"Pair", "List", "Set", "Map", "Array"} -> ReadSequence(t, bs, p)
    [] t[1] = "Struct" -> read_trace(FieldsToJson(t[2], bs, p), t, p)
    [] t[1] \in {"Enum", "TaggedEnum"} -> ReadEnum(t, bs, p)
    [] t[1] \in {"String", "ContractName", "ReceiveName"} -> ReadText(t, bs, p)
    [] t[1] \in {"ByteList", "ByteArray"} -> ReadBytes(t, bs, p)
    [] t[1] \in {"ULeb128", "ILeb128"} -> ReadLeb(t, bs, p)

---------------------------------------------------------------------------
(* The template of a type.  A hole stands for a text such as "<UInt8>";    *)
(* its second part is the type and its third the size the text announces.  *)

RECURSIVE to_json_template(_)

FieldsTemplate(f) ==
  CASE f[1] = "None" -> <<"arr", <<>>>>
    [] f[1] = "Unnamed" -> <<"arr", [i \in 1 .. Len(f[2]) |-> to_json_template(f[2][i])]>>
    [] f[1] = "Named" ->
         <<"obj", [n \in {f[2][i][1] : i \in 1 .. Len(f[2])} |->
                     to_json_template(f[2][CHOOSE i \in 1 .. Len(f[2]) : f[2][i][1] = n][2])]>>

to_json_template(t) ==
  CASE t[1] \in {"Enum", "TaggedEnum"} ->
         <<"Enum", [i \in 1 .. Len(t[2]) |-> <<"obj", [n \in {t[2][i][2]} |-> FieldsTemplate(t[2][i][3])]>>]>>
    [] t[1] = "Struct" -> FieldsTemplate(t[2])
    [] t[1] = "Unit" -> <<"arr", <<>>>>
    [] t[1] \in {"ByteArray", "ULeb128", "ILeb128"} -> <<"hole", t, 2 * t[2]>>
    [] t[1] = "ContractAddress" ->
         <<"obj", [index |-> <<"hole", <<"U64">>, 0>>, subindex |-> <<"hole", <<"U64">>, 0>>]>>
    [] t[1] = "Pair" -> <<"arr", <<to_json_template(t[2]), to_json_template(t[3])>>>>
    [] t[1] \in {"List", "Set"} -> <<"arr", <<to_json_template(t[3])>>>>
    [] t[1] = "Array" -> <<"arr", [i \in 1 .. t[2] |-> to_json_template(t[3])]>>
    [] t[1] = "Map" -> <<"arr", << <<"arr", <<to_json_template(t[3]), to_json_template(t[4])>>>> >>>>
    [] t[1] \in {"ContractName", "ReceiveName"} ->
         <<"obj", [n \in IF t[1] = "ContractName" THEN {"contract"} ELSE {"contract", "func"} |->
                     <<"hole", <<"String", t[2]>>, 0>>]>>
    [] OTHER -> <<"hole", t, 0>>

---------------------------------------------------------------------------
(* Steps.                                                                  *)

Start(t, j, p, bs) ==
  /\ ty = t /\ json = j /\ phase = p /\ out = bs
  /\ shown = <<"null">> /\ end = 0 /\ err = <<>> /\ cur = 0 /\ lines = <<>>

Init == \/ \E v \in Values : Start(v[1], v[2], "given", <<>>)
        \/ \E e \in Encodings : Start(e[1], <<"null">>, "encoded", e[2])

\* The user asks for the template before the value is given.
ShowTemplate ==
  /\ phase = "given"
  /\ phase' = "templated"
  /\ shown' = to_json_template(ty)
  /\ UNCHANGED <<ty, json, out, end, err, cur, lines>>

serial_value ==
  /\ phase = "given"
  /\ \E r \in {write_bytes_from_json_schema_type(ty, json)} :
       /\ phase' = IF Failed(r) THEN "failed" ELSE "written"
       /\ out' = r.out
       /\ err' = r.err
  /\ UNCHANGED <<ty, json, shown, end, cur, lines>>

ShowBytes ==
  /\ phase \in {"written", "encoded"}
  /\ \E r \in {to_json(ty, out, 0)} :
       /\ phase' = IF phase = "written" THEN (IF Failed(r) THEN "lost" ELSE "shown")
                   ELSE IF Failed(r) THEN "unreadable" ELSE "decoded"
       /\ shown' = r.v
       /\ end' = r.pos
       /\ err' = r.err
  /\ UNCHANGED <<ty, json, out, cur, lines>>

\* What was shown is given back as input.
SendShown ==
  /\ phase = "decoded"
  /\ \E r \in {write_bytes_from_json_schema_type(ty, shown)} :
       /\ phase' = IF Failed(r) THEN "refused" ELSE "sent"
       /\ out' = r.out
       /\ err' = r.err
  /\ UNCHANGED <<ty, json, shown, end, cur, lines>>

\* display_nested, one layer a step; the last one has no next error.
StartDisplay ==
  /\ phase = "failed"
  /\ \E verbose \in BOOLEAN : phase' = IF verbose THEN "verbose" ELSE "brief"
  /\ cur' = 1
  /\ UNCHANGED <<ty, json, out, shown, end, err, lines>>

display_nested ==
  /\ phase \in {"verbose", "brief"} /\ cur <= Len(err)
  /\ lines' = IF phase = "verbose" THEN <<err[cur]>> \o lines ELSE Append(lines, err[cur])
  /\ cur' = cur + 1
  /\ UNCHANGED <<ty, json, phase, out, shown, end, err>>

\* get_innermost_error.  The loop asks self, the first layer, every time.
StartGetError ==
  /\ phase = "failed"
  /\ phase' = "ask" /\ cur' = 1
  /\ UNCHANGED <<ty, json, out, shown, end, err, lines>>

get_inner_error(k) == Len(err) > k

AskInner ==
  /\ phase = "ask"
  /\ phase' = IF get_inner_error(1) THEN "assign" ELSE "got"
  /\ UNCHANGED <<ty, json, out, shown, end, err, cur, lines>>

AssignInner ==
  /\ phase = "assign"
  /\ cur' = 2 /\ phase' = "ask"
  /\ UNCHANGED <<ty, json, out, shown, end, err, lines>>

Next == \/ ShowTemplate \/ serial_value \/ ShowBytes \/ SendShown
        \/ StartDisplay \/ display_nested
        \/ StartGetError \/ AskInner \/ AssignInner

\* A call runs to its end: the loops are steps of one thread.
Spec == Init /\ [][Next]_vars /\ WF_vars(AskInner \/ AssignInner)

---------------------------------------------------------------------------
(* What JSON means, independently of bytes.                                *)

TotalMillis(measures) == FoldLeft(LAMBDA a, m : a + m[1] * UnitMillis[m[2]], 0, measures)

RECURSIVE Meaning(_, _), FieldsMeaning(_, _)

FieldsMeaning(f, j) ==
  CASE f[1] = "None" -> <<"unit">>
    [] f[1] = "Unnamed" -> <<"seq", [i \in 1 .. Len(f[2]) |-> Meaning(f[2][i], j[2][i])]>>
    [] f[1] = "Named" -> <<"seq", [i \in 1 .. Len(f[2]) |-> Meaning(f[2][i][2], j[2][f[2][i][1]])]>>

Meaning(t, j) ==
  CASE t[1] = "Unit" -> <<"unit">>
    [] t[1] = "Duration" -> <<"millis", TotalMillis(j[2])>>
    [] t[1] = "Timestamp" -> <<"millis", j[2]>>
    [] t[1] = "ContractAddress" ->
         <<"address", j[2].index[2], IF "subindex" \in DOMAIN j[2] THEN j[2].subindex[2] ELSE 0>>
    [] t[1] = "Pair" -> <<"seq", <<Meaning(t[2], j[2][1]), Meaning(t[3], j[2][2])>>>>
    [] t[1] \in {"List", "Set", "Array"} -> <<"seq", [i \in 1 .. Len(j[2]) |-> Meaning(t[3], j[2][i])]>>
    [] t[1] = "Map" -> <<"seq", [i \in 1 .. Len(j[2]) |->
                          <<Meaning(t[3], j[2][i][2][1]), Meaning(t[4], j[2][i][2][2])>>]>>
    [] t[1] = "Struct" -> FieldsMeaning(t[2], j)
    [] t[1] \in {"Enum", "TaggedEnum"} ->
         LET name == CHOOSE n \in DOMAIN j[2] : TRUE
             i == CHOOSE i \in DOMAIN t[2] : t[2][i][2] = name
         IN  <<"variant", t[2][i][1], FieldsMeaning(t[2][i][3], j[2][name])>>
    [] OTHER -> j

(* Properties.                                                             *)

\* The bytes written from accepted JSON are shown, to the last byte, as JSON
\* that means the same (serial_value then to_json of the same type).
MeaningSurvives ==
  /\ phase # "lost"
  /\ phase = "shown" => Meaning(ty, shown) = Meaning(ty, json) /\ end = Len(out)

\* Whatever bytes a contract produced, the JSON that to_json shows of them is
\* accepted as input and stands for a value that is shown the same way.
ShownCanBeSent ==
  /\ phase # "refused"
  /\ phase = "sent" => to_json(ty, out, 0).v = shown

\* Every place of the displayed error lies in the one before it, the first
\* in the root of the JSON given: following them leads to the cause.
Place(j, field) ==
  IF field[1] = "i" THEN IF j[1] = "arr" /\ field[2] + 1 \in DOMAIN j[2] THEN j[2][field[2] + 1] ELSE <<"none">>
  ELSE IF j[1] = "obj" /\ field[2] \in DOMAIN j[2] THEN j[2][field[2]] ELSE <<"none">>

TraceLeadsToCause ==
  (phase \in {"brief", "verbose"} /\ cur > Len(err)) =>
    LET path == IF phase = "brief" THEN lines ELSE Reverse(lines)
        n == Len(path)
    IN  /\ path[n][1] = "cause"
        /\ \A k \in 1 .. n - 1 : path[k][1] = "in"
        /\ n > 1 => path[1][3] = json
        /\ \A k \in 1 .. n - 2 : path[k + 1][3] = Place(path[k][3], path[k][2])
        /\ n > 1 => Place(path[n - 1][3], path[n - 1][2]) # <<"none">>

\* The layers of an error of to_json go forward through the bytes and down
\* through the type: where reading stopped is inside what was being read.
RECURSIVE Pieces(_), FieldTypes(_)
FieldTypes(f) == CASE f[1] = "None" -> {}
                   [] f[1] = "Unnamed" -> Range(f[2])
                   [] f[1] = "Named" -> {f[2][i][2] : i \in 1 .. Len(f[2])}
Pieces(t) ==
  {t} \cup CASE t[1] = "Pair" -> Pieces(t[2]) \cup Pieces(t[3])
             [] t[1] \in {"List", "Set", "Array"} -> Pieces(t[3])
             [] t[1] = "Map" -> Pieces(t[3]) \cup Pieces(t[4])
             [] t[1] = "Struct" -> UNION {Pieces(x) : x \in FieldTypes(t[2])}
             [] t[1] \in {"Enum", "TaggedEnum"} ->
                  UNION {Pieces(x) : x \in UNION {FieldTypes(t[2][i][3]) : i \in DOMAIN t[2]}}
             [] OTHER -> {}

ReadTraceDescends ==
  phase = "unreadable" =>
    /\ err[1][2] = ty
    /\ \A k \in 1 .. Len(err) - 1 : err[k][3] <= err[k + 1][3] /\ err[k + 1][2] \in Pieces(err[k][2])
    /\ err[Len(err)][3] <= Len(out)

\* The template, with its holes filled as they say, is accepted as input.
Sample(t) ==
  CASE t[1] = "Bool" -> <<"bool", TRUE>>
    [] t[1] \in {"U8", "U16", "U32", "U64", "I8", "I16", "I32", "I64"} -> <<"num", 1>>
    [] t[1] \in {"U128", "I128", "Amount", "ULeb128", "ILeb128"} -> <<"int", 1>>
    [] t[1] = "AccountAddress" -> <<"acc", 1>>
    [] t[1] = "Timestamp" -> <<"date", 1>>
    [] t[1] = "Duration" -> <<"dur", << <<1, "d">> >>>>
    [] t[1] = "String" -> <<"text", <<Dot + 3>>>>
    [] t[1] = "ByteList" -> <<"hex", <<0>>>>
    [] t[1] = "ByteArray" -> <<"hex", [i \in 1 .. t[2] |-> 0]>>

RECURSIVE Filled(_)
\* The ways to fill a template: one for each choice of a variant.
Filled(x) ==
  CASE x[1] = "hole" -> {Sample(x[2])}
    [] x[1] = "Enum" -> UNION {Filled(x[2][i]) : i \in DOMAIN x[2]}
    [] x[1] = "arr" -> {<<"arr", s>> : s \in {s \in [DOMAIN x[2] -> UNION {Filled(x[2][i]) : i \in DOMAIN x[2]}] :
                                                \A i \in DOMAIN x[2] : s[i] \in Filled(x[2][i])}}
    [] x[1] = "obj" -> {<<"obj", s>> : s \in {s \in [DOMAIN x[2] -> UNION {Filled(x[2][i]) : i \in DOMAIN x[2]}] :
                                                \A i \in DOMAIN x[2] : s[i] \in Filled(x[2][i])}}

TemplateIsAccepted ==
  phase = "templated" =>
    \A j \in Filled(shown) : ~Failed(write_bytes_from_json_schema_type(ty, j))

=============================================================================
