---------------------------- MODULE WasmMachine ---------------------------
(***************************************************************************)
(* A function is validated and compiled opcode by opcode, and the code is   *)
(* run by the interpreter for registers                                     *)
(* (smart-contracts/wasm-transform/src/machine.rs).  The opcodes are chosen *)
(* freely, so all valid bodies of at most MaxOps opcodes are compiled and   *)
(* run on all arguments.  m is the state of run_config:                     *)
(*   pc, base, ret   the position, locals_base and return_type              *)
(*   frames          function_frames                                        *)
(*   regs            locals_vec, the registers of all frames                *)
(*   globals, mem, energy, trace (the calls of the host)                    *)
(*   rloc            return_value_loc of an interrupted call                *)
(*   status          "run", "interrupted", "done" or "trap"                 *)
(***************************************************************************)
EXTENDS WasmValidation, FiniteSetsExt

(***************************************************************************)
(* The compilation of a validated function to code for registers            *)
(* (smart-contracts/wasm-transform/src/artifact.rs).  BackPatch is the      *)
(* handler that validate calls after every opcode; it mirrors the stack of  *)
(* operands with a stack of providers, the registers that hold them:        *)
(*   out     the instructions.  An instruction [i, arg, src, dst, to] has   *)
(*           the registers it reads, the one it writes (NoReg for none) and *)
(*           its jump targets [pos, copy]; positions are counted in         *)
(*           instructions, the code counts bytes                            *)
(*   jumps   the stack of jump targets: Known positions, or Unknown ones    *)
(*           with the places to patch and the provider of the result        *)
(*   stack   the providers; next, free: the registers beyond the locals     *)
(*   consts  the constants; the k-th one is read as register -k             *)
(*   last    the instruction that has just provided a value, 0 for none     *)
(***************************************************************************)
NoReg == 99
NoProvider == <<"none", NoReg>>
Dynamic(i) == <<"dynamic", i>>
Local(i) == <<"local", i>>
Constant(i) == <<"constant", i>>
RETURN_VALUE_LOCATION == Local(0)

(***************************************************************************)
(* Providers.                                                               *)
(***************************************************************************)
\* The lowest register that was freed, or a new one.
GetLocation(c) == IF c.free # {} THEN Min(c.free) ELSE c.next
TakeLocation(c) ==
  IF c.free # {} THEN [c EXCEPT !.free = @ \ {Min(@)}] ELSE [c EXCEPT !.next = @ + 1]

\* consume: the register of the operand is free again once no other operand uses it.
\* An empty stack is an error of the compiler.
Consume(c) ==
  IF ~c.ok \/ c.stack = <<>> THEN [c EXCEPT !.ok = FALSE]
  ELSE LET operand == Last(c.stack)
           rest == Front(c.stack)
       IN  [c EXCEPT !.stack = rest, !.top = operand,
                     !.free = IF operand[1] = "dynamic" /\ operand \notin Range(rest)
                              THEN @ \union {operand[2]} ELSE @]

Provide(c) == [TakeLocation(c) EXCEPT !.stack = Append(@, Dynamic(GetLocation(c)))]

ProvideExisting(c, p) ==
  [c EXCEPT !.stack = Append(@, p), !.free = IF p[1] = "dynamic" THEN @ \ {p[2]} ELSE @]

\* A constant has one place however often it is pushed.
PushConstant(c, x) ==
  LET known == {k \in DOMAIN c.consts : c.consts[k] = x}
      k == IF known = {} THEN Len(c.consts) + 1 ELSE Min(known)
  IN  [c EXCEPT !.consts = IF known = {} THEN Append(@, x) ELSE @,
                !.stack = Append(@, Constant(0 - k))]

RECURSIVE ConsumeMany(_, _)
ConsumeMany(c, n) == IF n <= 0 THEN c ELSE ConsumeMany(Consume(c), n - 1)

Truncate(c, height) == ConsumeMany(c, Len(c.stack) - height)

(***************************************************************************)
(* Instructions and jump targets.                                           *)
(***************************************************************************)
Instr(i, arg, src, dst, to) == [i |-> i, arg |-> arg, src |-> src, dst |-> dst, to |-> to]
Emit(c, instr) == [c EXCEPT !.out = Append(@, instr)]

Copy(c, from, to) == Emit(c, Instr("Copy", 0, <<from[2]>>, to[2], <<>>))
CopyUnlessSame(c, from, to) == IF from = to THEN c ELSE Copy(c, from, to)

\* An instruction that consumes n operands, the top one first, and provides a result.
RECURSIVE Operands(_, _)
Operands(c, n) ==
  IF n = 0 THEN <<>>
  ELSE LET w == Consume(c) IN IF w.ok THEN <<w.top[2]>> \o Operands(w, n - 1) ELSE <<>>

PushConsuming(c, i, arg, n) ==
  Emit(ConsumeMany(c, n), Instr(i, arg, Operands(c, n), NoReg, <<>>))

PushProvide(c) ==
  LET w == Provide(c)
      n == Len(w.out)
  IN  [w EXCEPT !.out[n].dst = Last(w.stack)[2], !.last = n]

PushOperation(c, i, arg, n) == PushProvide(PushConsuming(c, i, arg, n))

\* The jump target with a label, counted from the innermost one.
Target(c, label) == c.jumps[Len(c.jumps) - label]
\* insert_jump_location: the n-th target of the last instruction jumps to label.
InsertJumpLocation(c, label, copy) ==
  LET t == Target(c, label)
      n == Len(c.out)
      slot == Len(c.out[n].to) + 1
      w == [c EXCEPT !.out[n].to = Append(@, [pos |-> IF t.known THEN t.pos ELSE 0,
                                               copy |-> copy])]
  IN  IF t.known THEN w
      ELSE [w EXCEPT !.jumps[Len(c.jumps) - label].locs = Append(@, <<n, slot>>)]

BackPatchAll(out, locs, pos) ==
  [n \in DOMAIN out |->
     [out[n] EXCEPT !.to = [s \in DOMAIN @ |-> IF <<n, s>> \in Range(locs)
                                                THEN [@[s] EXCEPT !.pos = pos] ELSE @[s]]]]

PushJumpTarget(c, known, locs, res) ==
  [c EXCEPT !.jumps = Append(@, [known |-> known, pos |-> Len(c.out), locs |-> locs, res |-> res])]

\* A block with a result reserves the register where its end provides the result.
ReserveResult(c, t) == IF t = NoType THEN c ELSE TakeLocation(c)
ResultOf(c, t) == IF t = NoType THEN NoProvider ELSE Dynamic(GetLocation(c))

\* The value that a jump to the label carries is copied to the label's provider.
CarryValue(c, res) ==
  LET w == Consume(c) IN IF w.ok THEN CopyUnlessSame(w, w.top, res) ELSE w

PushBrJump(c, reachable, label) ==
  LET res == Target(c, label).res
      w == IF reachable /\ res # NoProvider THEN CarryValue(c, res) ELSE c
  IN  InsertJumpLocation(Emit(w, Instr("Br", 0, <<>>, NoReg, <<>>)), label, NoReg)

\* br_if: the code after the jump continues with the value in the label's provider.
PushBrIf(c, label) ==
  LET cond == Consume(c)
      res == Target(c, label).res
      w == IF res = NoProvider THEN cond ELSE ProvideExisting(CarryValue(cond, res), res)
  IN  InsertJumpLocation(Emit(w, Instr("BrIf", 0, <<cond.top[2]>>, NoReg, <<>>)), label, NoReg)

PushBrTable(c, labels, default, carries) ==
  LET w == IF carries THEN PushConsuming(c, "BrTableCarry", 0, 2)
                      ELSE PushConsuming(c, "BrTable", 0, 1)
      Insert(d, label) == InsertJumpLocation(d, label, Target(d, label).res[2])
  IN  FoldLeft(Insert, Insert(w, default), labels)

\* The end of a loop is only reached in sequence.  After unreachable code the
\* stack may lack the value that the loop leaves: a dummy provider stands for it.
EndLoop(c, v, reachable) ==
  IF ~reachable /\ Len(c.stack) < Len(v.opds) THEN Provide(c) ELSE c

\* Mutant of EndBlock: the jumps to the end of the block are not patched.
EndBlockUnpatched(c, v, reachable, t) ==
  IF t.res = NoProvider THEN c ELSE ProvideExisting(IF reachable THEN CarryValue(c, t.res) ELSE c, t.res)

EndBlock(c, v, reachable, t) ==
  LET w == IF t.res = NoProvider THEN c
           ELSE ProvideExisting(
                  IF reachable THEN CarryValue(c, t.res)
                  ELSE IF Len(c.stack) = Len(v.opds) THEN Consume(c) ELSE c, t.res)
  IN  [w EXCEPT !.out = BackPatchAll(@, t.locs, Len(w.out))]

\* Else ends the first branch with a jump to the end, and patches the jump of the If.
PatchElse(c) ==
  LET locs == Target(c, 0).locs
  IN  [c EXCEPT !.out = BackPatchAll(@, <<Head(locs)>>, Len(c.out)),
                !.jumps[Len(c.jumps)].locs = Tail(@)]

HandleBlocks(c, v, reachable, op) ==
  CASE op[1] = "End" ->
         LET t == Target(c, 0)
             w == [c EXCEPT !.jumps = Front(@)]
         IN  IF t.known THEN EndLoop(w, v, reachable) ELSE EndBlock(w, v, reachable, t)
    [] op[1] = "Block" -> PushJumpTarget(ReserveResult(c, op[2]), FALSE, <<>>, ResultOf(c, op[2]))
    [] op[1] = "Loop" -> PushJumpTarget(c, TRUE, <<>>, NoProvider)
    [] op[1] = "If" ->
         LET w == PushConsuming(c, "If", 0, 1)
             d == [w EXCEPT !.out[Len(w.out)].to = <<[pos |-> 0, copy |-> NoReg]>>]
         IN  PushJumpTarget(ReserveResult(d, op[2]), FALSE, <<<<Len(d.out), 1>>>>,
                            ResultOf(d, op[2]))
    [] op[1] = "Else" -> PatchElse(PushBrJump(c, reachable, 0))

\* The height of the stack after an unconditional jump is the validator's.
HandleJumps(c, v, reachable, op) ==
  CASE op[1] = "Br" -> Truncate(PushBrJump(c, reachable, op[2]), Len(v.opds))
    [] op[1] = "BrIf" -> PushBrIf(c, op[2])
    [] op[1] = "BrTable" ->
         Truncate(PushBrTable(c, op[2], op[3], LabelType(v, op[3]) # NoType), Len(v.opds))
    [] op[1] = "Return" ->
         LET w == IF ReturnType = NoType THEN c ELSE CarryValue(c, RETURN_VALUE_LOCATION)
         IN  Truncate(Emit(w, Instr("Return", 0, <<>>, NoReg, <<>>)), Len(v.opds))
    [] op[1] = "Unreachable" ->
         Truncate(Emit(c, Instr("Unreachable", 0, <<>>, NoReg, <<>>)), Len(v.opds))

PushCall(c, i, f, sig, extra) ==
  LET n == extra + Len(sig.params)
  IN  IF sig.result = NoType THEN PushConsuming(c, i, f, n) ELSE PushOperation(c, i, f, n)

HandleCalls(c, op) ==
  IF op[1] = "Call" THEN PushCall(c, "Call", op[2], Signatures[Functions[op[2]]], 0)
  ELSE PushCall(c, "CallIndirect", op[2], Signatures[op[2]], 1)

\* local.set and local.tee: operands that are still in the local move to a reserve
\* register first; then the last instruction is made to write the local, when it
\* has just provided the value and no copy stands in between.
PreserveLocal(c, idx) ==
  IF Local(idx) \in Range(c.stack)
  THEN LET reserve == Dynamic(GetLocation(c))
           w == TakeLocation(c)
       IN  Copy([w EXCEPT !.stack = [k \in DOMAIN @ |-> IF @[k] = Local(idx) THEN reserve ELSE @[k]]],
                Local(idx), reserve)
  ELSE c

WriteLocal(c, idx, lastProvide, preserved) ==
  LET w == Consume(c)
  IN  IF lastProvide # 0 /\ ~preserved
      THEN [w EXCEPT !.out[lastProvide].dst = idx]
      ELSE Copy(w, w.top, Local(idx))

HandleVariables(c, op, lastProvide) ==
  CASE op[1] = "Nop" -> c
    [] op[1] = "Drop" -> Consume(c)
    [] op[1] = "Select" -> PushOperation(c, "Select", 0, 3)
    [] op[1] = "LocalGet" -> ProvideExisting(c, Local(op[2]))
    [] op[1] = "LocalSet" ->
         WriteLocal(PreserveLocal(c, op[2]), op[2], lastProvide, Local(op[2]) \in Range(c.stack))
    [] op[1] = "LocalTee" ->
         ProvideExisting(WriteLocal(PreserveLocal(c, op[2]), op[2], lastProvide,
                                    Local(op[2]) \in Range(c.stack)), Local(op[2]))
    [] op[1] = "GlobalGet" -> PushOperation(c, "GlobalGet", op[2], 0)
    [] op[1] = "GlobalSet" -> PushConsuming(c, "GlobalSet", op[2], 1)
    [] op[1] = "TickEnergy" -> Emit(c, Instr("TickEnergy", op[2], <<>>, NoReg, <<>>))

HandleMemory(c, op) ==
  CASE op[1] = "Load" -> PushOperation(c, "Load", 0, 1)
    [] op[1] = "Store" -> PushConsuming(c, "Store", 0, 2)
    [] op[1] = "MemorySize" -> PushOperation(c, "MemorySize", 0, 0)
    [] op[1] = "MemoryGrow" -> PushOperation(c, "MemoryGrow", 0, 1)

\* A constant produces no code.
HandleNumeric(c, op) ==
  CASE op[1] = "Const" -> PushConstant(c, op[3])
    [] op[1] = "Unary" -> PushOperation(c, "Unary", 0, 1)
    [] op[1] = "Binary" -> PushOperation(c, "Binary", 0, 2)

\* Unreachable instructions produce no code, except that the End or Else of a
\* frame that was entered does.
HandleOpcode(c0, v, reachability, op) ==
  LET c == [c0 EXCEPT !.last = 0]
      reachable == reachability = "Reachable"
      w == CASE op[1] \in BlockOps -> HandleBlocks(c, v, reachable, op)
             [] op[1] \in JumpOps -> HandleJumps(c, v, reachable, op)
             [] op[1] \in CallOps -> HandleCalls(c, op)
             [] op[1] \in MemoryOps -> HandleMemory(c, op)
             [] op[1] \in NumericOps -> HandleNumeric(c, op)
             [] OTHER -> HandleVariables(c, op, c0.last)
  IN  IF \/ reachability = "UnreachableFrame"
         \/ reachability = "UnreachableInstruction" /\ op[1] \notin {"Else", "End"}
      THEN c ELSE [w EXCEPT !.top = NoProvider]

\* BackPatch::new: one register is kept for the result of a function without locals.
NewBackPatch ==
  [out |-> <<>>, stack |-> <<>>, free |-> {}, consts |-> <<>>, last |-> 0, top |-> NoProvider,
   ok |-> TRUE,
   next |-> IF Len(LocalTypes) = 0 /\ ReturnType # NoType THEN 1 ELSE Len(LocalTypes),
   jumps |-> <<[known |-> FALSE, pos |-> 0, locs |-> <<>>,
                res |-> IF ReturnType = NoType THEN NoProvider ELSE RETURN_VALUE_LOCATION]>>]

\* finish, and the Return that Module::compile adds at the end of every function.
FinishCode(c) == Emit(c, Instr("Return", 0, <<>>, NoReg, <<>>))

-----------------------------------------------------------------------------

CONSTANTS
  Opcodes,     \* the opcodes a body is made of, End aside
  MaxOps       \* the longest body

VARIABLES
  ops,       \* the body so far
  v,         \* the state of the validator
  c,         \* the state of the compiler
  phase,     \* "compile", "run" or "end"
  args,      \* the arguments of the run
  m          \* the state of the interpreter

vars == <<ops, v, c, phase, args, m>>

NumParams == Len(Signatures[Functions[NumImports + 1]].params)
NumRegisters == c.next

NoRun == [pc |-> 0, base |-> 0, ret |-> NoReg, frames |-> <<>>, regs |-> <<>>, globals |-> <<>>,
          mem |-> <<>>, trace |-> <<>>, energy |-> 0, rloc |-> NoReg, pending |-> 0, status |-> "none",
          result |-> <<>>]

Init ==
  /\ ops = <<>> /\ v = InitialState /\ c = NewBackPatch
  /\ phase = "compile" /\ args = <<>> /\ m = NoRun

(***************************************************************************)
(* The loop of validate: an opcode is validated, then handled.              *)
(***************************************************************************)
Compile(op) ==
  /\ phase = "compile" /\ ~Done(v)
  /\ \E w \in {ValidateOpcode(v, op)} :
       /\ w.ok
       /\ Len(ops) + 1 + Len(w.ctrls) <= MaxOps
       /\ v' = w
       /\ c' = HandleOpcode(c, w, Reachability(v), op)
  /\ ops' = Append(ops, op)
  /\ UNCHANGED <<phase, args, m>>

(***************************************************************************)
(* run: the arguments are the first registers, all others are zero.         *)
(***************************************************************************)
Registers(a) == a \o [i \in 1..(NumRegisters - Len(a)) |-> 0]

Start(a) ==
  /\ phase = "compile" /\ Done(v) /\ c.ok
  /\ Meaning(ops, a).status # "run"
  /\ c' = FinishCode(c)
  /\ phase' = "run" /\ args' = a
  /\ m' = [pc |-> 0, base |-> 0, ret |-> IF ReturnType = NoType THEN NoReg ELSE 0,
           frames |-> <<>>, regs |-> Registers(a), globals |-> [g \in DOMAIN Globals |-> 0],
           mem |-> <<0>>, trace |-> <<>>, energy |-> MaxEnergy, rloc |-> NoReg, pending |-> 0,
           status |-> "run", result |-> <<>>]
  /\ UNCHANGED <<ops, v>>

Instruction == c.out[m.pc + 1]
Reg(r) == IF r < 0 THEN c.consts[0 - r] ELSE m.regs[m.base + r + 1]
Src(k) == Reg(Instruction.src[k])
Write(r, x) == [m.regs EXCEPT ![m.base + r + 1] = x]
Running(kinds) == phase = "run" /\ m.status = "run" /\ Instruction.i \in kinds
Machine(n) == m' = n /\ UNCHANGED <<ops, v, c, phase, args>>
MachineTrap == Machine([m EXCEPT !.status = "trap"])

\* If jumps when its condition is 0, BrIf when it is not; a table has its default
\* target first and takes it for every index beyond the labels.
TableTarget(i) == Instruction.to[IF i < Len(Instruction.to) - 1 THEN i + 2 ELSE 1]

ExecuteJump ==
  /\ Running({"If", "Br", "BrIf", "BrTable", "BrTableCarry"})
  /\ \/ /\ Instruction.i = "If"
        /\ Machine([m EXCEPT !.pc = IF Src(1) = 0 THEN Instruction.to[1].pos ELSE @ + 1])
     \/ /\ Instruction.i = "Br"
        /\ Machine([m EXCEPT !.pc = Instruction.to[1].pos])
     \/ /\ Instruction.i = "BrIf"
        /\ Machine([m EXCEPT !.pc = IF Src(1) # 0 THEN Instruction.to[1].pos ELSE @ + 1])
     \/ /\ Instruction.i = "BrTable"
        /\ Machine([m EXCEPT !.pc = TableTarget(Src(1)).pos])
     \/ /\ Instruction.i = "BrTableCarry"
        /\ Machine([m EXCEPT !.regs = Write(TableTarget(Src(1)).copy, Src(2)),
                             !.pc = TableTarget(Src(1)).pos])

\* Return: the result, in register 0, goes to the register the caller named.
ExecuteReturn ==
  /\ Running({"Return"})
  /\ IF m.frames = <<>>
     THEN Machine([m EXCEPT !.status = "done",
                            !.result = IF m.ret = NoReg THEN <<>> ELSE <<Reg(m.ret)>>])
     ELSE LET f == Last(m.frames)
              regs == IF m.ret = NoReg THEN m.regs
                      ELSE [m.regs EXCEPT ![f.base + m.ret + 1] = Reg(0)]
          IN  Machine([m EXCEPT !.pc = f.pc, !.base = f.base, !.ret = f.ret,
                                !.frames = Front(@), !.regs = SubSeq(regs, 1, m.base)])

\* The operands of a call are in the code from the last parameter to the first.
CallArguments(extra) == Reverse([k \in 1..(Len(Instruction.src) - extra) |-> Src(k + extra)])

\* An imported function is run by the host, which may interrupt the execution.
CallImport(idx, extra) ==
  \E interrupts \in BOOLEAN :
    Machine([m EXCEPT
      !.trace = Append(@, CallArguments(extra)),
      !.pc = @ + 1,
      !.status = IF interrupts THEN "interrupted" ELSE "run",
      !.rloc = IF interrupts THEN Instruction.dst ELSE @,
      !.pending = IF interrupts THEN HostResult(idx, CallArguments(extra)) ELSE @,
      !.regs = IF interrupts \/ Instruction.dst = NoReg THEN @
               ELSE Write(Instruction.dst, HostResult(idx, CallArguments(extra)))])

\* A function of the module gets registers of its own above all others.
CallLocal(extra) ==
  IF Len(m.frames) >= MaxFrames THEN MachineTrap
  ELSE Machine([m EXCEPT
         !.frames = Append(@, [pc |-> m.pc + 1, base |-> m.base, ret |-> m.ret]),
         !.base = Len(m.regs),
         !.regs = @ \o Registers(CallArguments(extra)),
         !.ret = Instruction.dst,
         !.pc = 0])

ExecuteCall ==
  /\ Running({"Call"})
  /\ IF Instruction.arg <= NumImports THEN CallImport(Instruction.arg, 0) ELSE CallLocal(0)

\* The function in the table must have the type the instruction expects.
ExecuteCallIndirect ==
  /\ Running({"CallIndirect"})
  /\ IF /\ Src(1) + 1 \in DOMAIN Table
        /\ Signatures[Functions[Table[Src(1) + 1]]] = Signatures[Instruction.arg]
     THEN IF Table[Src(1) + 1] <= NumImports THEN CallImport(Table[Src(1) + 1], 1) ELSE CallLocal(1)
     ELSE MachineTrap

\* Mutant of Resume: the answer of the host is not stored.
ResumeWithoutAnswer ==
  /\ phase = "run" /\ m.status = "interrupted"
  /\ Machine([m EXCEPT !.status = "run", !.rloc = NoReg, !.pending = 0])

\* RunConfig::push_value and run_config: the answer is stored and the run goes on.
Resume ==
  /\ phase = "run" /\ m.status = "interrupted"
  /\ Machine([m EXCEPT !.status = "run", !.rloc = NoReg, !.pending = 0,
                       !.regs = IF m.rloc = NoReg THEN @ ELSE Write(m.rloc, m.pending)])

\* Instructions that compute a register from registers.
Computed ==
  CASE Instruction.i = "Copy" -> Src(1)
    [] Instruction.i = "Select" -> IF Src(1) = 0 THEN Src(2) ELSE Src(3)
    [] Instruction.i = "GlobalGet" -> m.globals[Instruction.arg]
    [] Instruction.i = "Unary" -> Unop(Src(1))
    [] Instruction.i = "Binary" -> Binop(Src(2), Src(1))
    [] Instruction.i = "MemorySize" -> Len(m.mem)

ExecuteOperation ==
  /\ Running({"Copy", "Select", "GlobalGet", "Unary", "Binary", "MemorySize"})
  /\ Machine([m EXCEPT !.regs = Write(Instruction.dst, Computed), !.pc = @ + 1])

ExecuteEffect ==
  /\ Running({"GlobalSet", "TickEnergy", "Unreachable"})
  /\ \/ /\ Instruction.i = "GlobalSet"
        /\ Machine([m EXCEPT !.globals[Instruction.arg] = Src(1), !.pc = @ + 1])
     \/ /\ Instruction.i = "TickEnergy"
        /\ IF m.energy < Instruction.arg THEN MachineTrap
           ELSE Machine([m EXCEPT !.energy = @ - Instruction.arg, !.pc = @ + 1])
     \/ Instruction.i = "Unreachable" /\ MachineTrap

\* An access beyond the memory fails; memory.grow beyond the maximum returns -1.
ExecuteMemory ==
  /\ Running({"Load", "Store", "MemoryGrow"})
  /\ \/ /\ Instruction.i = "Load"
        /\ IF Src(1) >= Len(m.mem) THEN MachineTrap
           ELSE Machine([m EXCEPT !.regs = Write(Instruction.dst, m.mem[Src(1) + 1]), !.pc = @ + 1])
     \/ /\ Instruction.i = "Store"
        /\ IF Src(2) >= Len(m.mem) THEN MachineTrap
           ELSE Machine([m EXCEPT !.mem[Src(2) + 1] = Src(1), !.pc = @ + 1])
     \/ /\ Instruction.i = "MemoryGrow"
        /\ IF Len(m.mem) + Src(1) > MaxPages
           THEN Machine([m EXCEPT !.regs = Write(Instruction.dst, Mod - 1), !.pc = @ + 1])
           ELSE Machine([m EXCEPT !.regs = Write(Instruction.dst, Len(m.mem)), !.pc = @ + 1,
                                  !.mem = @ \o [i \in 1..Src(1) |-> 0]])

Execute ==
  \/ ExecuteJump \/ ExecuteReturn \/ ExecuteCall \/ ExecuteCallIndirect
  \/ ExecuteOperation \/ ExecuteEffect \/ ExecuteMemory \/ Resume

Next ==
  \/ \E op \in Opcodes \union {<<"End">>} : Compile(op)
  \/ \E a \in [1..NumParams -> 0..1] : Start(a)
  \/ Execute

Spec == Init /\ [][Next]_vars

(***************************************************************************)
(* Properties.                                                              *)
(***************************************************************************)
\* After every opcode in reachable code the stack of providers is as high as the stack
\* of operands, and the compiler has not run out of providers (the assertion that ends
\* handle_opcode, and the errors of consume).
ProvidersFollowOperands ==
  /\ c.ok
  /\ phase = "compile" /\ Reachability(v) = "Reachable" => Len(c.stack) = Len(v.opds)

\* No live operand is in a register that the next value may be written to, and the
\* operands of the code so far are in registers of the frame: the interpreter reads
\* and writes them without a bounds check.
RegistersOfFrame ==
  /\ \A k \in DOMAIN c.stack : c.stack[k][1] = "dynamic" => c.stack[k][2] \notin c.free
  /\ \A n \in DOMAIN c.out :
       LET i == c.out[n]
       IN  /\ \A k \in DOMAIN i.src : i.src[k] < c.next /\ i.src[k] >= 0 - Len(c.consts)
           /\ i.dst = NoReg \/ i.dst \in 0..(c.next - 1)
           /\ \A k \in DOMAIN i.to : i.to[k].copy = NoReg \/ i.to[k].copy \in 0..(c.next - 1)

\* Once a function is finished all its jumps lead to an instruction of the code, and
\* a jump forward leads beyond the jump: no place was left to patch.
JumpsArePatched ==
  phase = "run" =>
    \A n \in DOMAIN c.out : \A k \in DOMAIN c.out[n].to :
      LET pos == c.out[n].to[k].pos
      IN  /\ pos \in 0..(Len(c.out) - 1)
          /\ pos < n => \E i \in DOMAIN ops : ops[i][1] = "Loop"

\* The compiled code computes what the body means: the same result, memory, energy and
\* calls of the host, with or without interrupts.
ComputesTheMeaning ==
  phase = "run" /\ m.status \in {"done", "trap"} => Observed(m) = Meaning(ops, args)

\* No execution of a validated body has a higher stack than max_reachable_height, which
\* is what the limit on the stack of a function is compared with.
HeightIsBounded ==
  phase = "run" /\ m.status = "done" => HighestStack(ops, args) <= v.max
=============================================================================
