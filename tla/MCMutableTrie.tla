---------------------------- MODULE MCMutableTrie ----------------------------
(***************************************************************************)
(* Instances of MutableTrie, on key sets on which the tree has to split, to *)
(* branch and to collapse.  A behaviour is that of one part:                *)
(*   structure    keys that part at the root and at a low nibble            *)
(*   generations  nested generations, entry ids that outlive them           *)
(*   iterators    an iterator over a tree that changes around it            *)
(*   lock_limit   two iterators where one root may have one                 *)
(* The constants of this module, in the cfg, are the larger ones of all     *)
(* parts, so that its properties speak of every part.                       *)
(***************************************************************************)
EXTENDS MutableTrie

CONSTANT Parts     \* the parts of a run

VARIABLE part

KeysOf(p) ==
  CASE p = "structure" -> {<<0, 16>>, <<0, 17>>, <<1>>}
    [] p = "iterators" -> {<<0>>, <<0, 16>>, <<0, 17>>}
    [] OTHER           -> {<<0>>, <<0, 16>>}
MCKeys == UNION {KeysOf(p) : p \in Parts}
ItersOf(p) ==
  CASE p = "iterators"  -> {CHOOSE i \in Iters : TRUE}
    [] p = "lock_limit" -> Iters
    [] OTHER            -> {}

Tree(p) == INSTANCE MutableTrie WITH
  Keys <- KeysOf(p), Iters <- ItersOf(p),
  Values <- IF p = "generations" THEN Values ELSE {Empty},
  MaxGenerations <- CASE p = "generations" -> MaxGenerations
                      [] p = "lock_limit"  -> 2
                      [] OTHER             -> 1,
  MaxIds <- IF p = "generations" THEN MaxIds ELSE 0

-----------------------------------------------------------------------------
TrieInit == \E p \in Parts : part = p /\ Tree(p)!Init
TrieNext == \E p \in Parts : part = p /\ Tree(p)!Next /\ UNCHANGED part

TrieSpec == TrieInit /\ [][TrieNext]_<<part, vars>>

-----------------------------------------------------------------------------
\* The trie, with copy on write, path compression, locks and truncation of its arenas, does to
\* the stack of maps what ContractState says (low_level.rs, MutableTrie).
ImplementsContractState ==
  /\ \A p \in Parts : part = p => Tree(p)!StartsLikeContractState
  /\ [][\A p \in Parts : part = p => Tree(p)!StepsLikeContractState]_<<part, vars>>
=============================================================================
