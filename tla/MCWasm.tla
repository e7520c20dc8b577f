------------------------------ MODULE MCWasm ------------------------------
(***************************************************************************)
(* Instances of the modules on Wasm.  A behaviour is that of one part: the  *)
(* compiler and the interpreter on bodies of the opcodes of Bodies, the     *)
(* metering of the bodies of MeteredBodies, the instructions on numbers, or *)
(* the modules made of the sections of ModuleSections.  The variables that  *)
(* a part does not use stay 0.                                              *)
(***************************************************************************)
EXTENDS Integers, Sequences

CONSTANT Parts     \* the parts of a run

VARIABLES
  part,
  ops, v, phase, args, c, m,                              \* WasmMachine, WasmMetering
  t,                                                      \* WasmMetering
  reg, ty, val, mem, spec, n, trap, mustTrap,             \* WasmNumeric
  module, source, config, artifact, stored, loaded        \* WasmModules

ofBodies == <<ops, v, phase, args>>
ofMachine == <<c, m>>
ofNumbers == <<reg, ty, val, mem, spec, n, trap, mustTrap>>
ofModules == <<module, source, config, artifact, stored, loaded>>
vars == <<part, ofBodies, ofMachine, t, ofNumbers, ofModules>>

NoBodies == ops = 0 /\ v = 0 /\ phase = 0 /\ args = 0
NoMachine == c = 0 /\ m = 0
NoNumbers ==
  /\ reg = 0 /\ ty = 0 /\ val = 0 /\ mem = 0
  /\ spec = 0 /\ n = 0 /\ trap = 0 /\ mustTrap = 0
NoModules ==
  /\ module = 0 /\ source = 0 /\ config = 0
  /\ artifact = 0 /\ stored = 0 /\ loaded = 0

-----------------------------------------------------------------------------
\* Bodies.

I32 == "i32"
None == "none"
Globals == <<[ty |-> I32, mutable |-> TRUE]>>
\* Function 1 is a host function of one parameter, function 2 the body itself.
Signatures == <<[params |-> <<I32>>, result |-> I32], [params |-> <<I32>>, result |-> None]>>
Table == <<1, 2>>
HasMemory == TRUE
HasTable == TRUE
MAX_SWITCH_SIZE == 2
NumImports == 1
MemoryAlloc == 0
MaxPages == 2
MaxFrames == 1
MaxSteps == 30

Body(locals, result, mod, max, opcodes) ==
  [locals |-> [i \in 1 .. locals |-> I32], result |-> result, mod |-> mod, max |-> max,
   functions |-> IF result = None THEN <<1, 2>> ELSE <<1, 1>>, opcodes |-> opcodes]

Bodies == [
  \* Values move between the stack, the locals, a global and a block, without conditional jumps.
  straight |-> Body(2, I32, 5, 7,
    {<<"Const", I32, 1>>, <<"LocalGet", 0>>, <<"LocalGet", 1>>, <<"LocalSet", 0>>, <<"LocalTee", 1>>,
     <<"GlobalGet", 1>>, <<"GlobalSet", 1>>, <<"Binary", I32, I32>>, <<"Block", I32>>, <<"Drop">>}),
  \* Jumps without a value, over what charges energy.
  jumps |-> Body(1, None, 3, 8,
    {<<"Block", None>>, <<"Loop", None>>, <<"If", None>>, <<"Else">>, <<"BrIf", 0>>, <<"BrIf", 1>>,
     <<"Br", 1>>, <<"LocalGet", 0>>, <<"TickEnergy", 1>>}),
  \* Jumps that carry a value, and the code behind them that is never reached.
  results |-> Body(1, I32, 3, 8,
    {<<"Block", I32>>, <<"Loop", I32>>, <<"If", I32>>, <<"Else">>, <<"Br", 0>>, <<"Return">>,
     <<"BrTable", <<1>>, 0>>, <<"LocalGet", 0>>, <<"Binary", I32, I32>>}),
  \* Calls of the host and of the function itself, and what ends an execution.
  calls |-> Body(1, I32, 3, 7,
    {<<"Call", 1>>, <<"Call", 2>>, <<"CallIndirect", 1>>, <<"LocalGet", 0>>, <<"Drop">>,
     <<"Unary", I32, I32>>, <<"If", None>>, <<"TickEnergy", 2>>, <<"Unreachable">>}),
  \* The memory and the operations that read more than two operands.
  memory |-> Body(1, I32, 3, 7,
    {<<"Load", I32, 4, 2>>, <<"Load", I32, 1, 1>>, <<"Store", I32, 4, 2>>, <<"MemorySize">>,
     <<"MemoryGrow">>, <<"LocalGet", 0>>, <<"Select">>, <<"Nop">>, <<"BrTable", <<0>>, 0>>}),
  \* Values kept on the stack across conditional code that writes their local.
  preserve |-> Body(1, I32, 3, 7,
    {<<"Const", I32, 0>>, <<"LocalGet", 0>>, <<"LocalSet", 0>>, <<"If", None>>}),
  \* A conditional jump to the end of a function with a result.
  br_if_return |-> Body(1, I32, 3, 7,
    {<<"Const", I32, 0>>, <<"Const", I32, 1>>, <<"LocalGet", 0>>, <<"BrIf", 0>>, <<"Drop">>})]

Machine(s) == INSTANCE WasmMachine WITH
  LocalTypes <- s.locals, ReturnType <- s.result, Functions <- s.functions, Mod <- s.mod,
  Opcodes <- s.opcodes, MaxOps <- s.max, MaxEnergy <- 3

MeteredBodies == [
  metered_branches |-> [version |-> 0, max |-> 7, opcodes |->
    {<<"Block", I32>>, <<"Block", None>>, <<"Loop", None>>, <<"BrIf", 0>>, <<"BrIf", 1>>,
     <<"LocalGet", 0>>, <<"LocalTee", 0>>, <<"Call", 1>>, <<"Br", 0>>}],
  metered_memory |-> [version |-> 1, max |-> 7, opcodes |->
    {<<"LocalGet", 0>>, <<"MemoryGrow">>, <<"If", I32>>, <<"Else">>, <<"Call", 2>>, <<"CallIndirect", 1>>,
     <<"Return">>, <<"Unreachable">>, <<"BrTable", <<0>>, 0>>, <<"Unary", I32, I32>>}]]

Metering(s) == INSTANCE WasmMetering WITH
  LocalTypes <- <<I32, I32>>, ReturnType <- I32, Signatures <- <<Signatures[1]>>, Functions <- <<1, 1>>,
  Mod <- 3, CostVersion <- s.version, Opcodes <- s.opcodes, MaxOps <- s.max, MaxEnergy <- 1000

-----------------------------------------------------------------------------
\* Instructions on numbers: bytes of one bit.  Number i has the values of Values.

Instructions == [
  numbers |-> [max |-> 4,
    unary |-> {"Eqz", "Clz", "Ctz", "Popcnt", "Extend8S", "Extend16S", "Extend32S", "Wrap", "ExtendS", "ExtendU"},
    binary |-> {"Add", "Sub", "Mul", "DivS", "DivU", "RemU", "And", "Or", "Xor", "Shl", "ShrS", "ShrU", "Rotl",
                "Rotr", "Eq", "Ne", "LtS", "LtU", "GtS", "GtU", "LeS", "LeU", "GeS", "GeU"}],
  rem_s |-> [max |-> 3, unary |-> {}, binary |-> {"RemS"}]]

Numeric(s) == INSTANCE WasmNumeric WITH
  B <- 1, Values <- {0, 1, 3, 7, 8, 127, 128, 200, 255}, MaxOps <- s.max, Ops1 <- s.unary, Ops2 <- s.binary

ASSUME Numeric([max |-> 0, unary |-> {}, binary |-> {}])!WidthAssumption

-----------------------------------------------------------------------------
\* Modules: sections around tables, around memory and around exports.

Const(x) == [op |-> "const", ty |-> "I32", value |-> x, index |-> 0]
Long(x) == [op |-> "const", ty |-> "I64", value |-> x, index |-> 0]
Get(i) == [op |-> "get", ty |-> "I32", value |-> 0, index |-> i]
Name(len, init, dot) == [len |-> len, ascii |-> TRUE, graphic |-> TRUE, init |-> init, dot |-> dot]
Code(b) == [opcodes |-> {0, 11}, locals |-> <<>>, height |-> 1, typed |-> TRUE, body |-> b]
Limits(min, max) == [min |-> min, max |-> max]
Global(type, mutable, init) == <<6, <<[ty |-> type, mutable |-> mutable, init |-> init]>>>>
TypeSection ==
  <<1, <<[parameters |-> <<"I64">>, result |-> <<"I32">>], [parameters |-> <<>>, result |-> <<>>]>>>>
ImportSection == <<2, <<[mod |-> Name(1, FALSE, FALSE), item |-> Name(2, FALSE, FALSE), ty |-> 0, offered |-> TRUE]>>>>
Segment(o, fs) == [index |-> 0, offset |-> o, inits |-> fs]
Data(o, bs) == [index |-> 0, offset |-> o, init |-> bs]
Export(x, kind, i) == [name |-> x, kind |-> kind, index |-> i]
InitName == Name(4, TRUE, FALSE)
Custom(len) == <<0, [name |-> Name(len, FALSE, FALSE)]>>

ModuleSections == [
  tables |-> [max |-> 7, repackaged |-> 0, configs |-> {"V0", "V1"}, sections |->
    {TypeSection, ImportSection, <<3, <<0>>>>, <<10, <<Code("c0")>>>>,
     <<4, <<Limits(2, <<>>)>>>>, <<4, <<Limits(3, <<1>>)>>>>, Global("I32", FALSE, Const(1)),
     <<9, <<Segment(Const(0), <<0, 0>>), Segment(Const(1), <<1>>)>>>>, <<9, <<Segment(Get(0), <<0>>)>>>>,
     <<9, <<Segment(Const(-1), <<0>>)>>>>, <<9, <<Segment(Const(-1), <<0, 0, 0>>)>>>>,
     <<9, <<Segment(Const(0), <<2>>)>>>>}],
  memories |-> [max |-> 4, repackaged |-> 1, configs |-> {"V0", "V1"}, sections |->
    {<<5, <<Limits(1, <<>>)>>>>, <<5, <<Limits(2, <<3>>)>>>>, <<5, <<Limits(2, <<4>>)>>>>,
     <<5, <<Limits(3, <<>>)>>>>, <<5, <<Limits(1, <<5>>)>>>>,
     Global("I32", FALSE, Const(2)), Global("I32", TRUE, Const(2)),
     Global("I64", FALSE, Const(2)), Global("I64", FALSE, Long(2)),
     <<8, <<>>>>, Custom(1), Custom(9),
     <<11, <<Data(Const(0), <<7, 8>>), Data(Const(1), <<9>>)>>>>,
     <<11, <<Data(Get(0), <<7>>)>>>>, <<11, <<Data(Const(-1), <<7>>)>>>>,
     <<11, <<Data(Const(3), <<7, 8>>)>>>>, <<11, <<Data(Long(0), <<7>>)>>>>}],
  exports |-> [max |-> 5, repackaged |-> 0, configs |-> {"V0", "V1"}, sections |->
    {TypeSection, ImportSection, <<3, <<0, 1>>>>, <<3, <<1>>>>,
     <<10, <<Code("c0"), Code("c1")>>>>, <<10, <<[Code("c2") EXCEPT !.opcodes = {0, 192}]>>>>,
     <<10, <<[Code("c3") EXCEPT !.locals = <<[multiplicity |-> 2, ty |-> "I32"]>>]>>>>,
     <<10, <<[Code("c4") EXCEPT !.locals = <<[multiplicity |-> 3, ty |-> "I32"]>>], Code("c1")>>>>,
     <<10, <<[Code("c5") EXCEPT !.height = 9]>>>>,
     <<7, <<Export(InitName, "func", 0), Export(Name(3, FALSE, TRUE), "func", 0)>>>>,
     <<7, <<Export(InitName, "func", 1)>>>>, <<7, <<Export(Name(2, FALSE, FALSE), "func", 1)>>>>,
     <<7, <<Export(InitName, "func", 0), Export(InitName, "func", 0)>>>>,
     <<7, <<Export(Name(3, FALSE, TRUE), "func", 3)>>>>, <<7, <<Export(Name(1, FALSE, FALSE), "memory", 0)>>>>}],
  \* A method whose name begins as those of init methods do and contains a dot.
  dotted |-> [max |-> 4, repackaged |-> 0, configs |-> {"V1"}, sections |->
    {TypeSection, <<3, <<1>>>>, <<10, <<Code("c0")>>>>, <<7, <<Export(Name(5, TRUE, TRUE), "func", 0)>>>>}]]

Modules(s) == INSTANCE WasmModules WITH
  Sections <- s.sections, Customs <- {Custom(1)}, Configs <- s.configs, MaxSections <- s.max,
  MaxRepackaged <- s.repackaged, W <- 4, ALLOWED_LOCALS <- 3, MAX_INIT_TABLE_SIZE <- 3, PAGE_SIZE <- 2,
  MAX_INIT_MEMORY_SIZE <- 2, MAX_NUM_PAGES <- 3, MAX_PAGES <- 4, MAX_ALLOWED_STACK_HEIGHT <- 4,
  MAX_NUM_GLOBALS <- 2, MAX_NUM_EXPORTS <- 2, MAX_NAME_SIZE <- 8, MAX_FUNC_NAME_SIZE <- 6

-----------------------------------------------------------------------------
InitParts ==
  \/ \E p \in Parts \cap DOMAIN Bodies :
       part = p /\ Machine(Bodies[p])!Init /\ t = 0 /\ NoNumbers /\ NoModules
  \/ \E p \in Parts \cap DOMAIN MeteredBodies :
       part = p /\ Metering(MeteredBodies[p])!Init /\ NoMachine /\ NoNumbers /\ NoModules
  \/ \E p \in Parts \cap DOMAIN Instructions :
       part = p /\ Numeric(Instructions[p])!Init /\ NoBodies /\ NoMachine /\ t = 0 /\ NoModules
  \/ \E p \in Parts \cap DOMAIN ModuleSections :
       part = p /\ Modules(ModuleSections[p])!Init /\ NoBodies /\ NoMachine /\ t = 0 /\ NoNumbers

CompileAndRun ==
  \E p \in Parts \cap DOMAIN Bodies :
    part = p /\ Machine(Bodies[p])!Next /\ UNCHANGED <<part, t, ofNumbers, ofModules>>
Meter ==
  \E p \in Parts \cap DOMAIN MeteredBodies :
    part = p /\ Metering(MeteredBodies[p])!Next /\ UNCHANGED <<part, ofMachine, ofNumbers, ofModules>>
Calculate ==
  \E p \in Parts \cap DOMAIN Instructions :
    part = p /\ Numeric(Instructions[p])!Next /\ UNCHANGED <<part, ofBodies, ofMachine, t, ofModules>>
Deploy ==
  \E p \in Parts \cap DOMAIN ModuleSections :
    part = p /\ Modules(ModuleSections[p])!Next /\ UNCHANGED <<part, ofBodies, ofMachine, t, ofNumbers>>

NextParts == CompileAndRun \/ Meter \/ Calculate \/ Deploy

Spec == InitParts /\ [][NextParts]_vars

-----------------------------------------------------------------------------
\* The compiled code, run by the interpreter with or without interrupts, computes what the
\* body means (machine.rs run_config), and the instructions on numbers and bytes compute the
\* values and fail in the cases that Wasm prescribes.
ComputesTheMeaning ==
  /\ \A p \in Parts \cap DOMAIN Bodies : part = p => Machine(Bodies[p])!ComputesTheMeaning
  /\ \A p \in Parts \cap DOMAIN Instructions :
       part = p => Numeric(Instructions[p])!RegistersHoldValues /\ Numeric(Instructions[p])!TrapsAsSpecified

\* What the compiler promises to an interpreter that checks nothing: operands are in registers
\* of the frame and in no free one, providers follow the validator's stack, jumps are patched,
\* and no execution has a higher stack than validation computed (artifact.rs, validate.rs).
CodeIsWellFormed ==
  \A p \in Parts \cap DOMAIN Bodies :
    part = p => /\ Machine(Bodies[p])!RegistersOfFrame
                /\ Machine(Bodies[p])!ProvidersFollowOperands
                /\ Machine(Bodies[p])!JumpsArePatched
                /\ Machine(Bodies[p])!HeightIsBounded

\* Metering changes nothing but the energy, energy is charged before it is used and exactly
\* on every path, and memory is paid before it grows (metering_transformation.rs).
MeteringIsExact ==
  \A p \in Parts \cap DOMAIN MeteredBodies :
    part = p => /\ Metering(MeteredBodies[p])!MeteringPreservesMeaning
                /\ Metering(MeteredBodies[p])!ChargedWhatItCosts
                /\ Metering(MeteredBodies[p])!MemoryIsPaid

\* The artifact that is read back for an execution is what the author's module declares: it
\* starts within its bounds, its table holds the module's segments, custom sections do not
\* matter, and init and receive methods have their type (validate.rs, artifact_input.rs).
ArtifactIsAsDeclared ==
  \A p \in Parts \cap DOMAIN ModuleSections :
    part = p => /\ Modules(ModuleSections[p])!StartsWithinBounds
                /\ Modules(ModuleSections[p])!TableIsAsDeclared
                /\ Modules(ModuleSections[p])!PackagingIsNeutral
                /\ Modules(ModuleSections[p])!EntrypointsHaveTheirType
===========================================================================
