------------------------------- MODULE MCCalls -------------------------------
(***************************************************************************)
(* Two instances of ContractExecution.  A behaviour is that of one part.    *)
(* The constants of this module, in the cfg, are the larger ones of both,   *)
(* so that its properties speak of either part.                             *)
(***************************************************************************)
EXTENDS ContractExecution, TLC

CONSTANT Parts     \* the parts of a run

VARIABLE part

ASSUME ExecutionAssumption

Symmetry == Permutations(Iters)
MCKeys == {<<0>>, <<0, 1>>}

\* In nested, calls three deep on one key with two values; in shared, two calls with two
\* entries and two iterators each, on a key and one below it.  The iterators are alike.
Calls(p) == INSTANCE ContractExecution WITH
  Keys <- IF p = "nested" THEN {<<0>>} ELSE Keys,
  Values <- IF p = "nested" THEN Values ELSE {Empty},
  MaxCount <- IF p = "nested" THEN 1 ELSE MaxCount,
  MaxDepth <- IF p = "nested" THEN MaxDepth ELSE 2,
  MaxEntries <- IF p = "nested" THEN 1 ELSE MaxEntries,
  MaxCounter <- IF p = "nested" THEN MaxCounter ELSE 1,
  MaxSteps <- IF p = "nested" THEN MaxSteps ELSE 7

CallsInit == \E p \in Parts : part = p /\ Calls(p)!Init
CallsNext == \E p \in Parts : part = p /\ Calls(p)!Next /\ UNCHANGED part
CallsSpec == CallsInit /\ [][CallsNext]_<<part, vars>>
=============================================================================
