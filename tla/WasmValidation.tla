-------------------------- MODULE WasmValidation --------------------------
(***************************************************************************)
(* The validation of the body of a Wasm function, and what a body means     *)
(* (smart-contracts/wasm-transform/src/validate.rs).  The state of the      *)
(* validator is the record                                                  *)
(*   opds         the stack of operand types                                *)
(*   ctrls        the stack of control frames                               *)
(*   max          max_reachable_height                                      *)
(*   unreachable  the index of the frame where unreachable code begins,     *)
(*                0 when the code is reachable                              *)
(*   top          the type the last pop returned                            *)
(*   ok           FALSE once an operation has failed                        *)
(* and every opcode is an operator from such a record to the next.  An      *)
(* opcode is a tuple that starts with its name; the opcodes of one group    *)
(* that differ in their types only are one name with the types as arguments.*)
(***************************************************************************)
EXTENDS Integers, Sequences, SequencesExt

CONSTANTS
  LocalTypes,       \* the types of the parameters and the locals, a sequence
  ReturnType,       \* the type the function returns, NoType for none
  Globals,          \* a sequence of records [ty, mutable]
  Signatures,       \* the types of functions: a sequence of [params, result]
  Functions,        \* the index into Signatures of every function
  HasMemory,        \* whether the module has a memory
  HasTable,         \* whether the module has a table
  MAX_SWITCH_SIZE,  \* the longest list of labels of a br_table
  NumImports,       \* the functions 1..NumImports are imported
  MemoryAlloc,      \* the imported function account_memory, 0 when there is none
  Mod,              \* values are the numbers below Mod
  Table,            \* the function at every place of the table
  MaxPages,         \* the largest number of pages of the memory
  MaxFrames,        \* the deepest nesting of calls the host allows
  MaxEnergy,        \* the energy of an execution
  MaxSteps          \* executions of the reference that take longer are not compared

Unknown == "unknown"
NoType == "none"

(***************************************************************************)
(* Stacks of operands and frames.                                           *)
(***************************************************************************)
Frame(v) == Last(v.ctrls)

\* A failure is final: the state keeps what it was when the check failed.
Fail(v) == [v EXCEPT !.ok = FALSE]

PushOpd(v, t) ==
  LET opds == Append(v.opds, t)
      reachable == v.ctrls # <<>> /\ ~Frame(v).unreachable
  IN  [v EXCEPT !.opds = opds,
                !.max = IF reachable /\ Len(opds) > @ THEN Len(opds) ELSE @]

PopOpd(v) ==
  IF ~v.ok \/ v.ctrls = <<>> THEN Fail(v)
  ELSE IF Len(v.opds) = Frame(v).height
       THEN IF Frame(v).unreachable THEN [v EXCEPT !.top = Unknown] ELSE Fail(v)
       ELSE [v EXCEPT !.opds = Front(@), !.top = Last(v.opds)]

\* Known types must agree; an unknown one on either side is replaced by the other.
Expect(v, t) ==
  IF v.top = Unknown THEN [v EXCEPT !.top = t]
  ELSE IF t = Unknown \/ v.top = t THEN v ELSE Fail(v)

PopExpectOpd(v, t) == Expect(PopOpd(v), t)

PushOpds(v, bt) == IF bt = NoType THEN v ELSE PushOpd(v, bt)

PopOpds(v, bt) == IF bt = NoType THEN v ELSE PopExpectOpd(v, bt)

PopParams(v, params) == FoldRight(LAMBDA t, w : PopExpectOpd(w, t), params, v)

PushCtrl(v, isIf, label, end) ==
  [v EXCEPT !.ctrls = Append(@, [isIf |-> isIf, label |-> label, end |-> end,
                                 height |-> Len(v.opds), unreachable |-> FALSE])]

\* pop_ctrl: the frame must leave exactly its end type above its height, and
\* unreachable code ends with the frame in which it began.
ClosedFrame(w) ==
  IF ~w.ok \/ Len(w.opds) # Frame(w).height THEN Fail(w)
  ELSE [w EXCEPT !.ctrls = Front(@),
                 !.unreachable = IF @ = Len(w.ctrls) THEN 0 ELSE @]

PopCtrl(v) == IF v.ctrls = <<>> THEN Fail(v) ELSE ClosedFrame(PopOpds(v, Frame(v).end))

MarkUnreachable(v) ==
  IF ~v.ok \/ v.ctrls = <<>> THEN Fail(v)
  ELSE LET n == Len(v.ctrls)
       IN  [v EXCEPT !.opds = SubSeq(@, 1, Frame(v).height),
                     !.ctrls[n].unreachable = TRUE,
                     !.unreachable = IF @ # 0 /\ @ < n THEN @ ELSE n]

Reachability(v) ==
  IF v.unreachable = 0 THEN "Reachable"
  ELSE IF v.unreachable < Len(v.ctrls) THEN "UnreachableFrame" ELSE "UnreachableInstruction"

HasLabel(v, n) == n < Len(v.ctrls)
LabelType(v, n) == v.ctrls[Len(v.ctrls) - n].label

(***************************************************************************)
(* The opcodes.                                                             *)
(***************************************************************************)
\* End, Block, Loop, If and Else.
EndFrame(v, frame) ==
  LET w == PopCtrl(v)
  IN  IF frame.isIf /\ frame.end # NoType THEN Fail(w)
      ELSE IF w.ok THEN PushOpds(w, frame.end) ELSE w

ElseFrame(v, frame) ==
  LET w == PopCtrl(v)
  IN  IF w.ok /\ frame.isIf THEN PushCtrl(w, FALSE, frame.end, frame.end) ELSE Fail(w)

IfFrame(w, t) == IF w.ok THEN PushCtrl(w, TRUE, t, t) ELSE w

ValidateBlocks(v, op) ==
  CASE op[1] = "End"   -> IF v.ctrls = <<>> THEN Fail(v) ELSE EndFrame(v, Frame(v))
    [] op[1] = "Else"  -> IF v.ctrls = <<>> THEN Fail(v) ELSE ElseFrame(v, Frame(v))
    [] op[1] = "Block" -> PushCtrl(v, FALSE, op[2], op[2])
    [] op[1] = "Loop"  -> PushCtrl(v, FALSE, NoType, op[2])
    [] op[1] = "If"    -> IfFrame(PopExpectOpd(v, "i32"), op[2])

\* Jumps: an unconditional one makes the rest of its frame unreachable.
ValidateJumps(v, op) ==
  CASE op[1] = "Br" ->
         IF HasLabel(v, op[2]) THEN MarkUnreachable(PopOpds(v, LabelType(v, op[2]))) ELSE Fail(v)
    [] op[1] = "BrIf" ->
         IF ~HasLabel(v, op[2]) THEN Fail(v)
         ELSE LET w == PopOpds(PopExpectOpd(v, "i32"), LabelType(v, op[2]))
              IN  IF w.ok THEN PushOpds(w, LabelType(v, op[2])) ELSE w
    [] op[1] = "BrTable" ->
         IF /\ Len(op[2]) <= MAX_SWITCH_SIZE
            /\ HasLabel(v, op[3])
            /\ \A i \in DOMAIN op[2] : /\ HasLabel(v, op[2][i])
                                       /\ LabelType(v, op[2][i]) = LabelType(v, op[3])
         THEN MarkUnreachable(PopOpds(PopExpectOpd(v, "i32"), LabelType(v, op[3])))
         ELSE Fail(v)
    [] op[1] = "Return" -> MarkUnreachable(PopOpds(v, v.ctrls[1].label))
    [] op[1] = "Unreachable" -> MarkUnreachable(v)

\* Calls take the parameters from the stack, the last one first.
ValidateCalls(v, op) ==
  CASE op[1] = "Call" ->
         IF op[2] \notin DOMAIN Functions THEN Fail(v)
         ELSE LET sig == Signatures[Functions[op[2]]]
                  w == PopParams(v, sig.params)
              IN  IF w.ok THEN PushOpds(w, sig.result) ELSE w
    [] op[1] = "CallIndirect" ->
         IF ~HasTable \/ op[2] \notin DOMAIN Signatures THEN Fail(v)
         ELSE LET w == PopParams(PopExpectOpd(v, "i32"), Signatures[op[2]].params)
              IN  IF w.ok THEN PushOpds(w, Signatures[op[2]].result) ELSE w

\* Drop and select, locals (numbered from 0) and globals.
Selected(v) ==
  LET w == PopOpd(PopExpectOpd(v, "i32")) IN PopExpectOpd(w, w.top)

ValidateVariables(v, op) ==
  CASE op[1] = "Nop"  -> v
    [] op[1] = "Drop" -> PopOpd(v)
    [] op[1] = "Select" -> LET w == Selected(v) IN IF w.ok THEN PushOpd(w, w.top) ELSE w
    [] op[1] = "LocalGet" ->
         IF op[2] < Len(LocalTypes) THEN PushOpd(v, LocalTypes[op[2] + 1]) ELSE Fail(v)
    [] op[1] = "LocalSet" ->
         IF op[2] < Len(LocalTypes) THEN PopExpectOpd(v, LocalTypes[op[2] + 1]) ELSE Fail(v)
    [] op[1] = "LocalTee" ->
         IF op[2] < Len(LocalTypes)
         THEN LET w == PopExpectOpd(v, LocalTypes[op[2] + 1])
              IN  IF w.ok THEN PushOpd(w, w.top) ELSE w
         ELSE Fail(v)
    [] op[1] = "GlobalGet" ->
         IF op[2] \in DOMAIN Globals THEN PushOpd(v, Globals[op[2]].ty) ELSE Fail(v)
    [] op[1] = "GlobalSet" ->
         IF op[2] \in DOMAIN Globals /\ Globals[op[2]].mutable
         THEN PopExpectOpd(v, Globals[op[2]].ty) ELSE Fail(v)

\* The largest alignment exponent of an access of the given number of bytes.
MaxAlignment(bytes) == CASE bytes = 1 -> 0 [] bytes = 2 -> 1 [] bytes = 4 -> 2 [] bytes = 8 -> 3

\* Loads <<"Load", type, bytes, align>> and stores, memory.size and memory.grow.
ValidateMemory(v, op) ==
  IF ~HasMemory THEN Fail(v)
  ELSE CASE op[1] = "Load" ->
              IF op[4] > MaxAlignment(op[3]) THEN Fail(v)
              ELSE LET w == PopExpectOpd(v, "i32") IN IF w.ok THEN PushOpd(w, op[2]) ELSE w
         [] op[1] = "Store" ->
              IF op[4] > MaxAlignment(op[3]) THEN Fail(v)
              ELSE PopExpectOpd(PopExpectOpd(v, op[2]), "i32")
         [] op[1] = "MemorySize" -> PushOpd(v, "i32")
         [] op[1] = "MemoryGrow" ->
              LET w == PopExpectOpd(v, "i32") IN IF w.ok THEN PushOpd(w, "i32") ELSE w

\* Constants <<"Const", type, value>>; tests, arithmetic and conversions
\* <<"Unary", from, to>> and <<"Binary", from, to>>.
ValidateNumeric(v, op) ==
  CASE op[1] = "Const" -> PushOpd(v, op[2])
    [] op[1] = "Unary" ->
         LET w == PopExpectOpd(v, op[2]) IN IF w.ok THEN PushOpd(w, op[3]) ELSE w
    [] op[1] = "Binary" ->
         LET w == PopExpectOpd(PopExpectOpd(v, op[2]), op[2])
         IN  IF w.ok THEN PushOpd(w, op[3]) ELSE w

BlockOps == {"End", "Else", "Block", "Loop", "If"}
JumpOps == {"Br", "BrIf", "BrTable", "Return", "Unreachable"}
CallOps == {"Call", "CallIndirect"}
MemoryOps == {"Load", "Store", "MemorySize", "MemoryGrow"}
NumericOps == {"Const", "Unary", "Binary"}

\* One round of the loop of validate: TickEnergy has no effect.
ValidateOpcode(v, op) ==
  LET w == CASE op[1] \in BlockOps   -> ValidateBlocks(v, op)
             [] op[1] \in JumpOps    -> ValidateJumps(v, op)
             [] op[1] \in CallOps    -> ValidateCalls(v, op)
             [] op[1] \in MemoryOps  -> ValidateMemory(v, op)
             [] op[1] \in NumericOps -> ValidateNumeric(v, op)
             [] op[1] = "TickEnergy" -> v
             [] OTHER                -> ValidateVariables(v, op)
  IN  [w EXCEPT !.top = NoType]

InitialState ==
  PushCtrl([opds |-> <<>>, ctrls |-> <<>>, max |-> 0, unreachable |-> 0, top |-> NoType,
            ok |-> TRUE], FALSE, ReturnType, ReturnType)

Done(v) == v.ctrls = <<>>

(***************************************************************************)
(* The meaning of a function body by the rules of Wasm: a machine with a    *)
(* stack of operands and structured control.  It is what the compiler and   *)
(* the interpreter of registers promise to implement, and models no code of *)
(* the repository.  All functions with an index above NumImports are the    *)
(* body itself; a value is a number below Mod.  paid and grown are the      *)
(* pages that were accounted for and that were asked for.                   *)
(***************************************************************************)
\* The stand-ins for all unary and binary operations and for what a host returns.
Unop(x) == (x + 1) % Mod
Binop(l, r) == (2 * l + r) % Mod
HostResult(idx, args) ==
  IF idx = MemoryAlloc THEN args[1] ELSE (FoldLeft(LAMBDA a, b : a + b, 0, args) + 1) % Mod

\* The Else (if any) and the End that belong to the block opened at i.
RECURSIVE Closing(_, _, _, _)
Closing(ops, i, depth, wanted) ==
  IF depth = 0 /\ ops[i][1] \in wanted THEN i
  ELSE Closing(ops, i + 1, depth + (CASE ops[i][1] \in {"Block", "Loop", "If"} -> 1
                                      [] ops[i][1] = "End" -> 0 - 1
                                      [] OTHER -> 0), wanted)
EndOf(ops, i) == Closing(ops, i + 1, 0, {"End"})
ElseOrEndOf(ops, i) == Closing(ops, i + 1, 0, {"Else", "End"})

NewActivation(ops, args) ==
  [pc |-> 1, stack |-> <<>>,
   locals |-> args \o [i \in 1..(Len(LocalTypes) - Len(args)) |-> 0],
   labels |-> <<[to |-> Len(ops) + 1, arity |-> IF ReturnType = NoType THEN 0 ELSE 1, height |-> 0]>>]

Initially(ops, args) ==
  [calls |-> <<NewActivation(ops, args)>>, globals |-> [g \in DOMAIN Globals |-> 0],
   mem |-> <<0>>, trace |-> <<>>, energy |-> MaxEnergy, status |-> "run", result |-> <<>>,
   high |-> 0, paid |-> <<>>, grown |-> <<>>]

Trap(s) == [s EXCEPT !.status = "trap"]
Here(s) == s.calls[Len(s.calls)]
TopN(stack, n) == SubSeq(stack, Len(stack) - n + 1, Len(stack))
DropN(stack, n) == SubSeq(stack, 1, Len(stack) - n)
\* Continue the innermost activation at pc with the given stack.
Go(s, pc, stack) == [s EXCEPT !.calls[Len(s.calls)].pc = pc, !.calls[Len(s.calls)].stack = stack]
GoLabels(s, pc, stack, labels) ==
  [Go(s, pc, stack) EXCEPT !.calls[Len(s.calls)].labels = labels]

\* A return carries the result to the caller, the outermost one ends the execution.
ReturnFrom(s) ==
  LET f == Here(s)
      res == IF ReturnType = NoType THEN <<>> ELSE <<Last(f.stack)>>
      rest == Front(s.calls)
  IN  IF rest = <<>> THEN [s EXCEPT !.status = "done", !.result = res]
      ELSE Go([s EXCEPT !.calls = rest], Last(rest).pc + 1, Last(rest).stack \o res)

\* A jump to a label carries the label's values and forgets what is above it.
BranchTo(s, ops, stack, n) ==
  LET f == Here(s)
      k == Len(f.labels) - n
      l == f.labels[k]
      kept == SubSeq(stack, 1, l.height) \o TopN(stack, l.arity)
  IN  IF k = 1 THEN ReturnFrom(Go(s, f.pc, kept))
      ELSE IF ops[l.to][1] = "Loop" THEN GoLabels(s, l.to + 1, kept, SubSeq(f.labels, 1, k))
      ELSE GoLabels(s, l.to + 1, kept, SubSeq(f.labels, 1, k - 1))

Enter(s, ops, to, arity, stack, pc) ==
  GoLabels(s, pc, stack, Append(Here(s).labels, [to |-> to, arity |-> arity, height |-> Len(stack)]))

Arity(t) == IF t = NoType THEN 0 ELSE 1

StepBlocks(s, ops, op, f) ==
  CASE op[1] = "Block" -> Enter(s, ops, EndOf(ops, f.pc), Arity(op[2]), f.stack, f.pc + 1)
    [] op[1] = "Loop" -> Enter(s, ops, f.pc, 0, f.stack, f.pc + 1)
    [] op[1] = "If" ->
         LET e == ElseOrEndOf(ops, f.pc)
             rest == Front(f.stack)
         IN  IF Last(f.stack) # 0
             THEN Enter(s, ops, EndOf(ops, f.pc), Arity(op[2]), rest, f.pc + 1)
             ELSE IF ops[e][1] = "End" THEN Go(s, e + 1, rest)
             ELSE Enter(s, ops, EndOf(ops, f.pc), Arity(op[2]), rest, e + 1)
    [] op[1] = "Else" -> GoLabels(s, EndOf(ops, f.pc) + 1, f.stack, Front(f.labels))
    [] op[1] = "End" ->
         IF Len(f.labels) = 1 THEN ReturnFrom(s)
         ELSE GoLabels(s, f.pc + 1, f.stack, Front(f.labels))

StepJumps(s, ops, op, f) ==
  CASE op[1] = "Br" -> BranchTo(s, ops, f.stack, op[2])
    [] op[1] = "BrIf" ->
         IF Last(f.stack) # 0 THEN BranchTo(s, ops, Front(f.stack), op[2])
         ELSE Go(s, f.pc + 1, Front(f.stack))
    [] op[1] = "BrTable" ->
         LET i == Last(f.stack)
         IN  BranchTo(s, ops, Front(f.stack), IF i < Len(op[2]) THEN op[2][i + 1] ELSE op[3])
    [] op[1] = "Return" -> ReturnFrom(s)
    [] op[1] = "Unreachable" -> Trap(s)

CallFunction(s, ops, idx, stack, f) ==
  LET sig == Signatures[Functions[idx]]
      args == TopN(stack, Len(sig.params))
      rest == DropN(stack, Len(sig.params))
  IN  IF idx <= NumImports
      THEN [Go(s, f.pc + 1, rest \o IF sig.result = NoType THEN <<>> ELSE <<HostResult(idx, args)>>)
              EXCEPT !.trace = IF idx = MemoryAlloc THEN @ ELSE Append(@, args),
                     !.paid = IF idx = MemoryAlloc THEN Append(@, args[1]) ELSE @]
      ELSE IF Len(s.calls) > MaxFrames THEN Trap(s)
      ELSE [Go(s, f.pc, rest) EXCEPT !.calls = Append(@, NewActivation(ops, args))]

StepCalls(s, ops, op, f) ==
  IF op[1] = "Call" THEN CallFunction(s, ops, op[2], f.stack, f)
  ELSE LET i == Last(f.stack) + 1
       IN  IF i \in DOMAIN Table /\ Signatures[Functions[Table[i]]] = Signatures[op[2]]
           THEN CallFunction(s, ops, Table[i], Front(f.stack), f) ELSE Trap(s)

StepVariables(s, op, f) ==
  LET next == f.pc + 1
      rest == Front(f.stack)
      x == Last(f.stack)
      here == Len(s.calls)
  IN CASE op[1] = "Nop" -> Go(s, next, f.stack)
       [] op[1] = "Drop" -> Go(s, next, rest)
       [] op[1] = "Select" ->
            Go(s, next, Append(DropN(f.stack, 3), IF x # 0 THEN f.stack[Len(f.stack) - 2]
                                                  ELSE f.stack[Len(f.stack) - 1]))
       [] op[1] = "LocalGet" -> Go(s, next, Append(f.stack, f.locals[op[2] + 1]))
       [] op[1] = "LocalSet" -> [Go(s, next, rest) EXCEPT !.calls[here].locals[op[2] + 1] = x]
       [] op[1] = "LocalTee" -> [Go(s, next, f.stack) EXCEPT !.calls[here].locals[op[2] + 1] = x]
       [] op[1] = "GlobalGet" -> Go(s, next, Append(f.stack, s.globals[op[2]]))
       [] op[1] = "GlobalSet" -> [Go(s, next, rest) EXCEPT !.globals[op[2]] = x]
       [] op[1] = "TickEnergy" ->
            IF s.energy < op[2] THEN Trap(s) ELSE [Go(s, next, f.stack) EXCEPT !.energy = @ - op[2]]

\* A page holds one value.
StepOperations(s, op, f) ==
  LET next == f.pc + 1
      rest == Front(f.stack)
      x == Last(f.stack)
  IN CASE op[1] = "Const" -> Go(s, next, Append(f.stack, op[3]))
       [] op[1] = "Unary" -> Go(s, next, Append(rest, Unop(x)))
       [] op[1] = "Binary" -> Go(s, next, Append(DropN(f.stack, 2), Binop(Last(rest), x)))
       [] op[1] = "Load" -> IF x < Len(s.mem) THEN Go(s, next, Append(rest, s.mem[x + 1])) ELSE Trap(s)
       [] op[1] = "Store" ->
            IF Last(rest) < Len(s.mem)
            THEN [Go(s, next, DropN(f.stack, 2)) EXCEPT !.mem[Last(rest) + 1] = x] ELSE Trap(s)
       [] op[1] = "MemorySize" -> Go(s, next, Append(f.stack, Len(s.mem)))
       [] op[1] = "MemoryGrow" ->
            [Go(s, next, Append(rest, IF Len(s.mem) + x > MaxPages THEN Mod - 1 ELSE Len(s.mem)))
               EXCEPT !.mem = IF Len(s.mem) + x > MaxPages THEN @ ELSE @ \o [i \in 1..x |-> 0],
                      !.grown = Append(@, x)]

Step(s, ops) ==
  LET f == Here(s)
      op == ops[f.pc]
  IN  CASE op[1] \in BlockOps -> StepBlocks(s, ops, op, f)
        [] op[1] \in JumpOps -> StepJumps(s, ops, op, f)
        [] op[1] \in CallOps -> StepCalls(s, ops, op, f)
        [] op[1] \in MemoryOps \union NumericOps -> StepOperations(s, op, f)
        [] OTHER -> StepVariables(s, op, f)

\* The highest stack of operands of an activation is recorded on the way.
Height(s) == Len(Here(s).stack)
RECURSIVE Run(_, _, _)
Run(s, ops, n) ==
  IF n = 0 \/ s.status # "run" THEN s
  ELSE Run([Step(s, ops) EXCEPT !.high = IF Height(s) > @ THEN Height(s) ELSE @], ops, n - 1)

\* What can be observed of an execution: a trap forgets the memory and the globals.
Observed(s) ==
  [status |-> s.status, trace |-> s.trace, energy |-> s.energy,
   result |-> IF s.status = "done" THEN s.result ELSE <<>>,
   mem |-> IF s.status = "done" THEN s.mem ELSE <<>>]

HighestStack(ops, args) == Run(Initially(ops, args), ops, MaxSteps).high

Meaning(ops, args) == Observed(Run(Initially(ops, args), ops, MaxSteps))
=============================================================================
