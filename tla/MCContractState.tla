--------------------------- MODULE MCContractState ---------------------------
EXTENDS ContractState

CONSTANT MaxGenerations   \* bound on the depth of nested calls

(* Two keys that part, with one above both. *)
MCKeys == {<<0>>, <<0, 1>>, <<0, 2>>}

Depth == Top <= MaxGenerations
=============================================================================
