---------------------------- MODULE WasmMetering --------------------------
(***************************************************************************)
(* The instructions that charge energy                                      *)
(* (smart-contracts/wasm-transform/src/metering_transformation.rs).  The    *)
(* opcodes of a body are collected in pending together with the energy they *)
(* cost until control may leave the sequence; then one TickEnergy and the   *)
(* pending opcodes are output.  A body is chosen opcode by opcode while it  *)
(* is validated and transformed; the transformed body is then compared with *)
(* the original one.                                                        *)
(***************************************************************************)
EXTENDS WasmValidation

CONSTANTS
  CostVersion,   \* 0 or 1: CostConfigurationV0 or V1
  Opcodes,       \* the opcodes a body is made of, End aside
  MaxOps         \* the longest body

VARIABLES
  ops,       \* the body so far
  v,         \* the state of the validator
  t,         \* the transformer: labels, out (new_seq), energy, pending
  phase,     \* "transform" or "compare"
  args       \* the arguments of the comparison

vars == <<ops, v, t, phase, args>>

(***************************************************************************)
(* Costs.  An opcode with a type or a width has the cost of its group.      *)
(***************************************************************************)
ArityOf(labels, n) == IF labels[Len(labels) - n] = NoType THEN 0 ELSE 1

JUMP == IF CostVersion = 0 THEN 8 ELSE 2
Branch(arity) == IF CostVersion = 0 THEN JUMP + arity ELSE JUMP
InvokeAfter(locals) == IF CostVersion = 0 THEN 4 * locals ELSE locals \div 16

InvokeBefore(sig) ==
  (IF CostVersion = 0 THEN 10 ELSE 2) + Len(sig.params) + JUMP + Arity(sig.result) + JUMP
TypeCheck(n) == IF CostVersion = 0 THEN n ELSE n \div 10

\* The costs that do not depend on labels or types: version 0, version 1.
PlainCost ==
  [Nop |-> <<1, 1>>, Drop |-> <<2, 0>>, Select |-> <<3, 2>>, LocalGet |-> <<3, 0>>,
   LocalSet |-> <<3, 0>>, LocalTee |-> <<3, 0>>, GlobalGet |-> <<3, 1>>, GlobalSet |-> <<3, 1>>,
   Load |-> <<4, 1>>, Store |-> <<8, 2>>, MemorySize |-> <<4, 1>>, MemoryGrow |-> <<10, 10>>,
   Const |-> <<2, 0>>, Unary |-> <<3, 1>>, Binary |-> <<4, 1>>, If |-> <<10, 4>>, BrIf |-> <<10, 4>>]

GetCost(op, labels) ==
  CASE op[1] \in DOMAIN PlainCost -> PlainCost[op[1]][CostVersion + 1]
    [] op[1] = "Br" -> Branch(ArityOf(labels, op[2]))
    [] op[1] = "BrTable" -> IF CostVersion = 0 THEN 2 + Branch(ArityOf(labels, op[3])) ELSE 5 + JUMP
    [] op[1] = "Return" -> Branch(Arity(labels[1]))
    [] op[1] = "Call" -> InvokeBefore(Signatures[Functions[op[2]]])
    [] op[1] = "CallIndirect" ->
         LET sig == Signatures[op[2]]
         IN  2 + TypeCheck(Len(sig.params) + Arity(sig.result)) + InvokeBefore(sig)
    [] OTHER -> 0

\* Mutant of Flush: the accumulated energy is not reset.
FlushKeepsEnergy(w, after) ==
  [w EXCEPT !.out = @ \o (IF w.energy > 0 THEN <<<<"TickEnergy", w.energy>>>> ELSE <<>>)
                      \o w.pending \o after, !.pending = <<>>]

(***************************************************************************)
(* The transformation of one opcode.                                        *)
(***************************************************************************)
\* account_energy_push_pending, then the opcodes that are not pending.
Flush(w, after) ==
  [w EXCEPT !.out = @ \o (IF w.energy > 0 THEN <<<<"TickEnergy", w.energy>>>> ELSE <<>>)
                      \o w.pending \o after,
            !.energy = 0, !.pending = <<>>]

Pend(w, more) == [w EXCEPT !.pending = @ \o more]
PushLabel(w, bt) == [w EXCEPT !.labels = Append(@, bt)]

\* br_if charges for the branch only when it is taken: by an if around the jump, or,
\* when the label carries a value, by an if that gives the condition back.
MeteredBrIf(label, arity) ==
  IF arity = 0
  THEN <<<<"If", NoType>>, <<"TickEnergy", Branch(0)>>, <<"Br", label + 1>>, <<"End">>>>
  ELSE <<<<"If", "i32">>, <<"TickEnergy", Branch(1)>>, <<"Const", "i32", 1>>, <<"Else">>,
         <<"Const", "i32", 0>>, <<"End">>, <<"BrIf", label>>>>

\* What precedes a loop is charged once, its body in every iteration.
EnterLoop(w, op) == PushLabel(Flush(w, <<op>>), NoType)

\* account_memory gives back the number of pages it was called with.
GrowMemory(w, op) == Pend(w, <<<<"Call", 1>>, op>>)

\* Functions are renumbered: account_memory is the first one.
MeteredCall(w, op) == Flush(w, <<<<"Call", op[2] + 1>>>>)

TransformOpcode(w, op) ==
  CASE op[1] = "Block" -> Pend(PushLabel(w, op[2]), <<op>>)
    [] op[1] = "Loop" -> EnterLoop(w, op)
    [] op[1] = "If" -> PushLabel(Flush(w, <<op>>), op[2])
    [] op[1] = "End" -> [Flush(w, <<op>>) EXCEPT !.labels = Front(@)]
    [] op[1] = "BrIf" -> Flush(w, MeteredBrIf(op[2], ArityOf(w.labels, op[2])))
    [] op[1] = "MemoryGrow" -> GrowMemory(w, op)
    [] op[1] = "Call" -> MeteredCall(w, op)
    [] op[1] \in {"Else", "Return", "Unreachable", "Br", "BrTable", "CallIndirect"} -> Flush(w, <<op>>)
    [] OTHER -> Pend(w, <<op>>)

\* inject_accounting: the cost of the locals is charged with the first opcodes.
Init ==
  /\ ops = <<>> /\ v = InitialState /\ phase = "transform" /\ args = <<>>
  /\ t = [labels |-> <<ReturnType>>, out |-> <<>>, pending |-> <<>>,
          energy |-> InvokeAfter(Len(LocalTypes) - Len(Signatures[Functions[NumImports + 1]].params))]

Transform(op) ==
  /\ phase = "transform" /\ ~Done(v)
  /\ \E w \in {ValidateOpcode(v, op)} :
       /\ w.ok /\ Len(ops) + 1 + Len(w.ctrls) <= MaxOps
       /\ v' = w
  /\ t' = TransformOpcode([t EXCEPT !.energy = @ + GetCost(op, t.labels)], op)
  /\ ops' = Append(ops, op)
  /\ UNCHANGED <<phase, args>>

\* inject_metering: the new type, the new import and the shift of the table.
Metered ==
  INSTANCE WasmValidation WITH
    Signatures <- Append(Signatures, [params |-> <<"i32">>, result |-> "i32"]),
    Functions <- <<Len(Signatures) + 1>> \o Functions,
    NumImports <- NumImports + 1,
    MemoryAlloc <- 1,
    Table <- [i \in DOMAIN Table |-> Table[i] + 1]

Compare(a) ==
  /\ phase = "transform" /\ Done(v)
  /\ Meaning(ops, a).status # "run"
  /\ phase' = "compare" /\ args' = a
  /\ UNCHANGED <<ops, v, t>>

Next ==
  \/ \E op \in Opcodes \union {<<"End">>} : Transform(op)
  \/ \E a \in [1..Len(Signatures[Functions[NumImports + 1]].params) -> 0..1] : Compare(a)

Spec == Init /\ [][Next]_vars

(***************************************************************************)
(* The cost of an execution of the original body: the costs of the opcodes  *)
(* it executes, of the branches it takes and of the activations.            *)
(***************************************************************************)
LabelTypes(f) == [i \in DOMAIN f.labels |-> IF f.labels[i].arity = 0 THEN NoType ELSE "i32"]

StepCost(s) ==
  LET f == Here(s)
      op == ops[f.pc]
      taken == op[1] = "BrIf" /\ Last(f.stack) # 0
      invoked == Len(Step(s, ops).calls) > Len(s.calls)
  IN  GetCost(op, LabelTypes(f))
      + (IF taken THEN Branch(f.labels[Len(f.labels) - op[2]].arity) ELSE 0)
      + (IF invoked THEN InvokeAfter(Len(LocalTypes) - Len(Signatures[Functions[NumImports + 1]].params)) ELSE 0)

\* The cost at every call of the host, the call included, and the cost in the end.
RECURSIVE Costs(_, _, _, _)
Costs(s, total, log, k) ==
  IF k = 0 \/ s.status # "run" THEN [log |-> log, total |-> total]
  ELSE LET w == Step(s, ops)
           c == total + StepCost(s)
       IN  Costs(w, c, IF Len(w.trace) > Len(s.trace) THEN Append(log, c) ELSE log, k - 1)

\* The energy that the transformed body has charged at every call of the host.
RECURSIVE Charges(_, _, _)
Charges(s, log, k) ==
  IF k = 0 \/ s.status # "run"
  THEN [log |-> log, total |-> MaxEnergy - s.energy, end |-> s]
  ELSE LET w == Metered!Step(s, t.out)
       IN  Charges(w, IF Len(w.trace) > Len(s.trace) THEN Append(log, MaxEnergy - w.energy) ELSE log,
                   k - 1)

Original == Costs(Initially(ops, args),
                  InvokeAfter(Len(LocalTypes) - Len(Signatures[Functions[NumImports + 1]].params)),
                  <<>>, MaxSteps)
Charged == Charges(Metered!Initially(t.out, args), <<>>, 3 * MaxSteps)

(***************************************************************************)
(* Properties.                                                              *)
(***************************************************************************)
\* The injected opcodes change nothing but the energy: with enough of it the result,
\* the memory and the calls of the host are those of the original body.
MeteringPreservesMeaning ==
  phase = "compare" =>
    [Observed(Charged.end) EXCEPT !.energy = 0] = [Meaning(ops, args) EXCEPT !.energy = 0]

\* Energy is charged before it is used, and an execution that ends is charged exactly
\* what it costs, on every path through loops, branches and calls.
ChargedWhatItCosts ==
  phase = "compare" =>
    /\ Len(Charged.log) = Len(Original.log)
    /\ \A i \in DOMAIN Original.log : Charged.log[i] >= Original.log[i]
    /\ Charged.total >= Original.total
    /\ Charged.end.status = "done" => Charged.total = Original.total

\* Memory is accounted for before it grows: whenever the memory is asked for, the same
\* number of pages has just been paid, and paying does not change the number asked for.
MemoryIsPaid == phase = "compare" => Charged.end.grown = Charged.end.paid
=============================================================================
