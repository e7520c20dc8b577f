------------------------------- MODULE KeyOrder -------------------------------
(***************************************************************************)
(* Keys of the contract state are byte sequences.  This module has the     *)
(* relations on them that the rest of the development shares: what a       *)
(* prefix is, the order in which iterators visit keys, and the split of a  *)
(* key into the 4-bit chunks that label the edges of the trie.             *)
(***************************************************************************)
EXTENDS Integers, Sequences

(* The first i steps of a key. *)
Pre(key, i) == SubSeq(key, 1, i)

(* p is a prefix of k, both ends included. *)
Extends(k, p) == Len(p) <= Len(k) /\ Pre(k, Len(p)) = p

(* Lexicographic order, a prefix before what extends it. *)
Less(a, b) ==
  \/ a # b /\ Extends(b, a)
  \/ \E i \in 1 .. Len(a) :
       /\ i <= Len(b)
       /\ Pre(a, i - 1) = Pre(b, i - 1)
       /\ a[i] < b[i]

(* The chunks of a key, high nibble first (StemIter). *)
Nibbles(key) ==
  [i \in 1 .. 2 * Len(key) |->
     IF i % 2 = 1 THEN key[(i + 1) \div 2] \div 16 ELSE key[i \div 2] % 16]

(* Back to bytes: the key of a node with a value has whole bytes, and the  *)
(* code ignores the length of a stem there (Iterator::get_key).            *)
Bytes(chunks) ==
  [i \in 1 .. Len(chunks) \div 2 |-> 16 * chunks[2 * i - 1] + chunks[2 * i]]
=============================================================================
