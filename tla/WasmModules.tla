---------------------------- MODULE WasmModules ----------------------------
(***************************************************************************)
(* Smart contract modules: a module is a list of sections, which is parsed  *)
(* (parse.rs), validated (validate.rs), compiled to an artifact             *)
(* (artifact.rs), written to the chain's database and read back for each    *)
(* execution (artifact_output.rs, artifact_input.rs), and repackaged by     *)
(* tools that add or strip custom sections (output.rs, utils.rs).           *)
(*                                                                         *)
(* A section is a pair of its id and its contents, a list of records; the   *)
(* contents of an artifact on disk is a sequence of tokens.  The bodies of  *)
(* functions are the subject of WasmValidation and WasmMachine: here a      *)
(* body lists its opcodes, its locals, its stack height and whether it is   *)
(* well typed.  Names are records of what the checks look at.  Integers     *)
(* have W bits, and the limits of constants.rs are scaled down.             *)
(***************************************************************************)
EXTENDS Integers, Sequences, SequencesExt, FiniteSetsExt, Functions

CONSTANTS Sections,        \* sections the author may write
          Customs,         \* custom sections tools may add
          Configs,         \* subset of {"V0", "V1"}
          MaxSections, MaxRepackaged,
          W,               \* bits of an integer
          ALLOWED_LOCALS, MAX_INIT_TABLE_SIZE, PAGE_SIZE, MAX_INIT_MEMORY_SIZE,
          MAX_NUM_PAGES, MAX_PAGES, MAX_ALLOWED_STACK_HEIGHT, MAX_NUM_GLOBALS,
          MAX_NUM_EXPORTS, MAX_NAME_SIZE, MAX_FUNC_NAME_SIZE

VARIABLES module,     \* the sections, in the order in which they stand
          source,     \* the sections as the author wrote them
          config,     \* the version of the chain's rules
          artifact,   \* <<>>, or what validation and compilation produced
          stored,     \* its bytes in the database
          loaded      \* <<>>, or the artifact read back from them

vars == <<module, source, config, artifact, stored, loaded>>

U32 == 2^W
I64I32 == [parameters |-> <<"I64">>, result |-> <<"I32">>]

-----------------------------------------------------------------------------
\* parse.rs

\* Sections other than custom ones stand in the order of their ids, once each.
parse_skeleton(m) ==
  /\ \A i \in DOMAIN m : m[i][1] \in 0 .. 11
  /\ \A i, j \in DOMAIN m : i < j /\ m[i][1] # 0 /\ m[j][1] # 0 => m[i][1] < m[j][1]

\* The contents of a section, empty by default.
parse_sec_with_default(m, id) ==
  IF \E i \in DOMAIN m : m[i][1] = id
  THEN m[CHOOSE i \in DOMAIN m : m[i][1] = id /\ \A j \in DOMAIN m : m[j][1] = id => j <= i][2]
  ELSE <<>>

Types(m) == parse_sec_with_default(m, 1)
Imports(m) == parse_sec_with_default(m, 2)
FuncTypes(m) == parse_sec_with_default(m, 3)
Tables(m) == parse_sec_with_default(m, 4)
Memories(m) == parse_sec_with_default(m, 5)
Globals(m) == parse_sec_with_default(m, 6)
Exports(m) == parse_sec_with_default(m, 7)
Elements(m) == parse_sec_with_default(m, 9)
Codes(m) == parse_sec_with_default(m, 10)
Datas(m) == parse_sec_with_default(m, 11)
Custom(m) == SelectSeq(m, LAMBDA s : s[1] = 0)

Name_parse(n) == n.len <= MAX_NAME_SIZE /\ n.ascii
Limits_parse(l) == l.max # <<>> => l.min <= l.max[1]
FunctionType_parse(t) == Len(t.result) <= 1
TableType_parse(t) == Limits_parse(t) /\ t.min <= MAX_INIT_TABLE_SIZE
MemoryType_parse(t) ==
  /\ Limits_parse(t)
  /\ t.min <= MAX_INIT_MEMORY_SIZE
  /\ IF t.max # <<>> THEN t.max[1] <= MAX_PAGES ELSE t.min <= MAX_PAGES
Import_parse(i) == Name_parse(i.mod) /\ Name_parse(i.item)
Export_parse(e) ==
  /\ Name_parse(e.name)
  /\ e.kind \in {"table", "memory"} => e.index = 0
  /\ e.kind = "func" => e.name.len <= MAX_FUNC_NAME_SIZE
StartSection_parse(m) == \A i \in DOMAIN m : m[i][1] # 8

\* The opcodes the chain knows: those of Wasm 1.0 without floats, and since
\* version 1 the sign extensions.
ControlAndMemory == (0 .. 5) \cup {11} \cup (12 .. 17) \cup {26, 27} \cup (32 .. 36)
                    \cup {40, 41} \cup (44 .. 55) \cup (58 .. 62)
Numeric == (63 .. 66) \cup (69 .. 90) \cup (103 .. 138) \cup {167, 172, 173}
SignExtensions == 192 .. 196
decode_opcode(b, version) ==
  b \in ControlAndMemory \cup Numeric \cup (IF version = "V1" THEN SignExtensions ELSE {})

\* A constant expression: a constant of the right type, or, where allowed, a
\* constant global of it.  <<>> when it is refused.
read_constant_expr(e, ty, globals) ==
  IF e.op = "const" THEN IF e.ty = ty THEN <<e.value>> ELSE <<>>
  ELSE IF e.index + 1 \notin DOMAIN globals THEN <<>>
  ELSE LET g == globals[e.index + 1]
       IN  IF g.init.op = "const" /\ g.ty = ty /\ ~g.mutable THEN <<g.init.value>> ELSE <<>>

Global_parse(g) == g.init.op = "const" /\ read_constant_expr(g.init, g.ty, <<>>) # <<>>
Segment_parse(s, globals) == s.index = 0 /\ read_constant_expr(s.offset, "I32", globals) # <<>>

Parses(m) ==
  /\ parse_skeleton(m)
  /\ StartSection_parse(m)
  /\ \A t \in Range(Types(m)) : FunctionType_parse(t)
  /\ \A i \in Range(Imports(m)) : Import_parse(i)
  /\ Len(Tables(m)) <= 1 /\ \A t \in Range(Tables(m)) : TableType_parse(t)
  /\ Len(Memories(m)) <= 1 /\ \A t \in Range(Memories(m)) : MemoryType_parse(t)
  /\ \A g \in Range(Globals(m)) : Global_parse(g)
  /\ \A e \in Range(Exports(m)) : Export_parse(e)
  /\ \A c \in Range(Custom(m)) : Name_parse(c[2].name)

-----------------------------------------------------------------------------
\* validate.rs

\* Offsets are read as signed and used as unsigned numbers.
AsU32(n) == n % U32

\* What version 0 and version 1 of the chain allow to be exported.
\* (an import is allowed when the host offers it: HostV0, HostV1)
ValidName(n) == n.len <= MAX_FUNC_NAME_SIZE /\ n.graphic
validate_export_function(version, n, t) ==
  LET entrypoint == IF n.init THEN ~n.dot ELSE n.dot
  IN  /\ ValidName(n)
      /\ IF version = "V0" THEN t = I64I32 /\ entrypoint
         ELSE entrypoint => t = I64I32

FunctionTypes(m) == [i \in DOMAIN Imports(m) |-> Imports(m)[i].ty] \o FuncTypes(m)
TypeOf(m, f) == Types(m)[FunctionTypes(m)[f + 1] + 1]

ImportsValid(m) ==
  /\ \A i \in Range(Imports(m)) : i.ty + 1 \in DOMAIN Types(m) /\ i.offered
  /\ \A i, j \in DOMAIN Imports(m) : i # j =>
       <<Imports(m)[i].mod, Imports(m)[i].item>> # <<Imports(m)[j].mod, Imports(m)[j].item>>

make_locals(t, c) == Len(t.parameters) + FoldLeft(LAMBDA n, l : n + l.multiplicity, 0, c.locals)

CodeValid(m, version) ==
  /\ \A f \in Range(FuncTypes(m)) : f + 1 \in DOMAIN Types(m)
  /\ Len(FuncTypes(m)) = Len(Codes(m))
  /\ \A i \in DOMAIN Codes(m) :
       LET c == Codes(m)[i]
           locals == make_locals(Types(m)[FuncTypes(m)[i] + 1], c)
       IN  /\ locals <= ALLOWED_LOCALS
           /\ \A b \in c.opcodes : decode_opcode(b, version)
           /\ c.typed
           /\ locals + c.height <= MAX_ALLOWED_STACK_HEIGHT

ExportsValid(m, version) ==
  /\ Len(Exports(m)) <= MAX_NUM_EXPORTS
  /\ \A i, j \in DOMAIN Exports(m) : i # j => Exports(m)[i].name # Exports(m)[j].name
  /\ \A e \in Range(Exports(m)) :
       CASE e.kind = "func" -> /\ e.index + 1 \in DOMAIN FunctionTypes(m)
                               /\ validate_export_function(version, e.name, TypeOf(m, e.index))
         [] e.kind = "table" -> Tables(m) # <<>>
         [] e.kind = "memory" -> Memories(m) # <<>>
         [] e.kind = "global" -> e.index + 1 \in DOMAIN Globals(m)

\* Globals may be used in offsets in version 0 only.
InitGlobals(m, version) == IF version = "V0" THEN Globals(m) ELSE <<>>
Offset(m, version, s) == read_constant_expr(s.offset, "I32", InitGlobals(m, version))[1]

ElementsValid(m, version) ==
  /\ Elements(m) # <<>> => Tables(m) # <<>>
  /\ \A e \in Range(Elements(m)) :
       /\ Segment_parse(e, InitGlobals(m, version))
       /\ Len(e.inits) <= MAX_INIT_TABLE_SIZE
       /\ LET end == AsU32(Offset(m, version, e)) + Len(e.inits)
          IN  end < U32 /\ end <= Tables(m)[1].min
       /\ \A f \in Range(e.inits) : f < Len(FunctionTypes(m))

DataValid(m, version) ==
  /\ Datas(m) # <<>> => Memories(m) # <<>>
  /\ \A d \in Range(Datas(m)) :
       /\ Segment_parse(d, InitGlobals(m, version))
       /\ LET offset == Offset(m, version, d)
              end == offset + Len(d.init)
          IN  /\ Len(d.init) <= Memories(m)[1].min * PAGE_SIZE
              /\ offset >= 0
              /\ end < U32 /\ end <= Memories(m)[1].min * PAGE_SIZE

validate_module(m, version) ==
  /\ Parses(m)
  /\ ImportsValid(m)
  /\ Len(Globals(m)) <= MAX_NUM_GLOBALS
  /\ CodeValid(m, version)
  /\ ExportsValid(m, version)
  /\ ElementsValid(m, version)
  /\ DataValid(m, version)

-----------------------------------------------------------------------------
\* Module::compile

\* Segments are written into the table one after the other.
\* Mutant of InstantiatedTable: a place once set keeps its function
InstantiatedTable_mut(m, version) ==
  LET empty == [i \in 1 .. Tables(m)[1].min |-> <<>>]
      Set(t, e) == [i \in DOMAIN t |->
                      LET k == i - AsU32(Offset(m, version, e))
                      IN  IF k \in DOMAIN e.inits /\ t[i] = <<>> THEN <<e.inits[k]>> ELSE t[i]]
  IN  IF Tables(m) = <<>> THEN <<>> ELSE FoldLeft(Set, empty, Elements(m))
InstantiatedTable(m, version) ==
  LET empty == [i \in 1 .. Tables(m)[1].min |-> <<>>]
      Set(t, e) == [i \in DOMAIN t |->
                      LET k == i - AsU32(Offset(m, version, e))
                      IN  IF k \in DOMAIN e.inits THEN <<e.inits[k]>> ELSE t[i]]
  IN  IF Tables(m) = <<>> THEN <<>> ELSE FoldLeft(Set, empty, Elements(m))

ArtifactMemory(m, version) ==
  IF Memories(m) = <<>> THEN <<>>
  ELSE <<[init_size |-> Memories(m)[1].min,
          max_size |-> IF Memories(m)[1].max = <<>> THEN MAX_NUM_PAGES
                       ELSE Min({Memories(m)[1].max[1], MAX_NUM_PAGES}),
          init |-> [i \in DOMAIN Datas(m) |-> [offset |-> Offset(m, version, Datas(m)[i]),
                                               init |-> Datas(m)[i].init]]]>>

FunctionExports(m) == SelectSeq(Exports(m), LAMBDA e : e.kind = "func")

compile(m, version) ==
  [imports |-> [i \in DOMAIN Imports(m) |-> [mod |-> Imports(m)[i].mod, item |-> Imports(m)[i].item,
                                            ty |-> Types(m)[Imports(m)[i].ty + 1]]],
   ty |-> Types(m),
   table |-> InstantiatedTable(m, version),
   memory |-> ArtifactMemory(m, version),
   global |-> [i \in DOMAIN Globals(m) |-> <<Globals(m)[i].ty, Globals(m)[i].init.value>>],
   export |-> {<<FunctionExports(m)[i].name, FunctionExports(m)[i].index>> :
                 i \in DOMAIN FunctionExports(m)},
   code |-> [i \in DOMAIN Codes(m) |->
               LET t == Types(m)[FuncTypes(m)[i] + 1]
               IN  [type_idx |-> FuncTypes(m)[i], params |-> t.parameters, result |-> t.result,
                    num_locals |-> make_locals(t, Codes(m)[i]) - Len(t.parameters),
                    locals |-> Codes(m)[i].locals, body |-> Codes(m)[i].body]]]

-----------------------------------------------------------------------------
\* Writing and reading an artifact.  Every item is a token of its kind; a list
\* is its length followed by its items.

Vector(kind, s) == <<<<kind, Len(s)>>>> \o s
Each(s, Write(_)) == FlattenSeq([i \in DOMAIN s |-> Write(s[i])])
TypeTokens(t) == Vector("u32", t.parameters) \o Vector("u32", t.result)
ExportList(a) == SetToSeq(a.export)

artifact_output(a) ==
  <<<<"byte", 255>>>>
  \o <<<<"u16", Len(a.imports)>>>>
  \o Each(a.imports, LAMBDA i : <<i.mod, i.item>> \o TypeTokens(i.ty))
  \o <<<<"u32", Len(a.ty)>>>> \o Each(a.ty, TypeTokens)
  \o <<<<"u32", Len(a.table)>>>> \o Each(a.table, LAMBDA f : Vector("byte", f))
  \o (IF a.memory = <<>> THEN <<<<"byte", 0>>>>
      ELSE <<<<"byte", 1>>, <<"u32", a.memory[1].init_size>>, <<"u32", a.memory[1].max_size>>,
             <<"u32", Len(a.memory[1].init)>>>>
           \o Each(a.memory[1].init, LAMBDA d : <<<<"i32", d.offset>>>> \o Vector("u32", d.init)))
  \o <<<<"u32", Len(a.global)>>>>
  \o Each(a.global, LAMBDA g : <<<<"byte", IF g[1] = "I32" THEN 0 ELSE 1>>, <<"int", g[2]>>>>)
  \o <<<<"u32", Len(ExportList(a))>>>>
  \o Each(ExportList(a), LAMBDA e : <<e[1], <<"u32", e[2]>>>>)
  \o <<<<"u32", Len(a.code)>>>>
  \o Each(a.code, LAMBDA c : <<<<"u32", c.type_idx>>>> \o Vector("block", c.result)
       \o Vector("u32", c.params) \o <<<<"u32", c.num_locals>>, <<"u32", Len(c.locals)>>>>
       \o Each(c.locals, LAMBDA l : <<<<"u16", l.multiplicity>>, l.ty>>) \o <<c.body>>)

\* A cursor over tokens: at is the next token, out what the last read gave.
At(c) == c.tokens[c.at]
Skip(c, n) == [c EXCEPT !.at = @ + n]
Out(c, x) == [c EXCEPT !.out = x]
ReadList(c, Item(_)) ==
  FoldLeft(LAMBDA d, i : LET e == Item([d EXCEPT !.out = <<>>]) IN Out(e, Append(d.out, e.out)),
           Out(Skip(c, 1), <<>>), [i \in 1 .. At(c)[2] |-> i])
Token(c) == Out(Skip(c, 1), At(c))
ReadType(c) == LET p == ReadList(c, Token)
                   r == ReadList(p, Token)
               IN  Out(r, [parameters |-> p.out, result |-> r.out])
ReadImport(c) == LET t == ReadType(Skip(c, 2))
                 IN  Out(t, [mod |-> At(c), item |-> c.tokens[c.at + 1], ty |-> t.out])
ReadFunction(c) == ReadList(c, Token)
ReadData(c) == LET d == ReadList(Skip(c, 1), Token)
               IN  Out(d, [offset |-> At(c)[2], init |-> d.out])
ReadMemory(c) ==
  IF At(c)[2] = 0 THEN Out(Skip(c, 1), <<>>)
  ELSE LET d == ReadList(Skip(c, 3), ReadData)
       IN  Out(d, <<[init_size |-> c.tokens[c.at + 1][2], max_size |-> c.tokens[c.at + 2][2],
                     init |-> d.out]>>)
ReadGlobal(c) == Out(Skip(c, 2), <<IF At(c)[2] = 0 THEN "I32" ELSE "I64", c.tokens[c.at + 1][2]>>)
ReadExport(c) == Out(Skip(c, 2), <<At(c), c.tokens[c.at + 1][2]>>)
ReadLocal(c) == Out(Skip(c, 2), [multiplicity |-> At(c)[2], ty |-> c.tokens[c.at + 1]])
ReadCode(c) ==
  LET result == ReadList(Skip(c, 1), Token)
      params == ReadList(result, Token)
      locals == ReadList(Skip(params, 1), ReadLocal)
  IN  Out(Skip(locals, 1),
          [type_idx |-> At(c)[2], params |-> params.out, result |-> result.out,
           num_locals |-> At(params)[2], locals |-> locals.out, body |-> At(locals)])

parse_artifact(tokens) ==
  IF tokens = <<>> \/ tokens[1] # <<"byte", 255>> THEN <<>>
  ELSE LET imports == ReadList([tokens |-> tokens, at |-> 2, out |-> <<>>], ReadImport)
           ty == ReadList(imports, ReadType)
           table == ReadList(ty, ReadFunction)
           memory == ReadMemory(table)
           global == ReadList(memory, ReadGlobal)
           export == ReadList(global, ReadExport)
           code == ReadList(export, ReadCode)
       IN  IF \E i, j \in DOMAIN export.out : i # j /\ export.out[i][1] = export.out[j][1] THEN <<>>
           ELSE <<[imports |-> imports.out, ty |-> ty.out, table |-> table.out,
                   memory |-> memory.out, global |-> global.out, export |-> Range(export.out),
                   code |-> code.out]>>

skeleton_output(m) == SelectSeq(m, LAMBDA s : s[1] # 0) \o Custom(m)
strip(m) == SelectSeq(m, LAMBDA s : s[1] # 0)

-----------------------------------------------------------------------------
\* The actions

Init == /\ module = <<>> /\ source = <<>> /\ config \in Configs
        /\ artifact = <<>> /\ stored = <<>> /\ loaded = <<>>

\* The author writes the next section; a misplaced one is the last.
Write(s) ==
  /\ module = source /\ artifact = <<>> /\ Len(module) < MaxSections /\ parse_skeleton(module)
  /\ module' = Append(module, s) /\ source' = module'
  /\ UNCHANGED <<config, artifact, stored, loaded>>

\* A tool strips the custom sections, or writes one more.
Repackage(m) ==
  /\ artifact = <<>> /\ parse_skeleton(module)
  /\ Len(m) <= MaxSections + MaxRepackaged
  /\ module' = m
  /\ UNCHANGED <<source, config, artifact, stored, loaded>>

\* The module is deployed: validated, compiled and stored.
validate_and_process ==
  /\ artifact = <<>>
  /\ validate_module(module, config)
  /\ artifact' = <<compile(module, config)>>
  /\ stored' = artifact_output(artifact'[1])
  /\ UNCHANGED <<module, source, config, loaded>>

\* The artifact is read for an execution.
Load ==
  /\ stored # <<>> /\ loaded = <<>>
  /\ loaded' = parse_artifact(stored)
  /\ UNCHANGED <<module, source, config, artifact, stored>>

Next == \/ \E s \in Sections : Write(s)
        \/ \E c \in Customs : Repackage(Append(skeleton_output(module), c))
        \/ Repackage(skeleton_output(strip(module)))
        \/ validate_and_process
        \/ Load

Spec == Init /\ [][Next]_vars

-----------------------------------------------------------------------------
\* Properties

\* Starting the artifact never reaches outside what it declares: the entry of every export and
\* of every place in the table is a function there is, segments of data end within the
\* initial memory and that within the maximal one, and the registers a function starts with
\* agree with its type.  The interpreter relies on this without checking (machine.rs).
StartsWithinBounds ==
  \A n \in DOMAIN loaded :
    LET a == loaded[n]
        functions == Len(a.imports) + Len(a.code)
    IN  /\ \A e \in a.export : e[2] < functions
        /\ \A i \in DOMAIN a.table : a.table[i] # <<>> => a.table[i][1] < functions
        /\ \A k \in DOMAIN a.memory :
             /\ a.memory[k].init_size <= a.memory[k].max_size
             /\ a.memory[k].max_size <= MAX_NUM_PAGES
             /\ \A d \in Range(a.memory[k].init) :
                  d.offset >= 0 /\ d.offset + Len(d.init) <= a.memory[k].init_size * PAGE_SIZE
        /\ \A c \in Range(a.code) : /\ c.type_idx + 1 \in DOMAIN a.ty
                                    /\ a.ty[c.type_idx + 1].parameters = c.params
                                    /\ Len(c.params) + c.num_locals <= ALLOWED_LOCALS

\* The table of an artifact that went through the database holds what the module's segments
\* say in the order in which they stand: at each place the function of the last segment that
\* covers it, and nothing where none does.  Every segment lies within the table.
TableIsAsDeclared ==
  \A n \in DOMAIN loaded :
    /\ \A e \in Range(Elements(module)) :
         Offset(module, config, e) \in 0 .. Len(loaded[n].table) - Len(e.inits)
    /\ \A i \in DOMAIN loaded[n].table :
         LET Start(e) == Offset(module, config, e)
             Covers == {k \in DOMAIN Elements(module) :
                          i - Start(Elements(module)[k]) \in DOMAIN Elements(module)[k].inits}
             e == Elements(module)[Max(Covers)]
         IN  IF Covers = {} THEN loaded[n].table[i] = <<>>
             ELSE loaded[n].table[i] = <<e.inits[i - Start(e)]>>

\* What tools do to custom sections changes neither that a module is accepted nor the artifact
\* it becomes, they leave no custom sections but the author's and their own, and what is read
\* back from the database is what was compiled.  (Stripping can make a module acceptable: the
\* name of a custom section is checked as well.)
PackagingIsNeutral ==
  /\ validate_module(source, config) => validate_module(module, config)
  /\ artifact # <<>> => /\ validate_module(strip(source), config)
                        /\ artifact[1] = compile(strip(source), config)
  /\ loaded # <<>> => loaded = artifact
  /\ \A c \in Range(Custom(module)) : c \in Range(Custom(source)) \cup Customs

\* A function that is listed among the init or receive methods of a module (get_inits,
\* get_receives) takes an amount and returns a status, as the callers assume.
get_inits(m) == SelectSeq(FunctionExports(m), LAMBDA e : e.name.init /\ ~e.name.dot)
get_receives(m) == SelectSeq(FunctionExports(m), LAMBDA e : e.name.dot)
EntrypointsHaveTheirType ==
  artifact # <<>> => \A e \in Range(get_inits(module)) \cup Range(get_receives(module)) :
                       TypeOf(module, e.index) = I64I32
=============================================================================
