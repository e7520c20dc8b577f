----------------------------- MODULE PrefixesMap -----------------------------
(***************************************************************************)
(* The reference-counted prefix map in which a generation of the mutable   *)
(* trie records the key prefixes locked by its iterators                   *)
(* (v1/trie/low_level.rs, PrefixesMap).                                    *)
(*                                                                         *)
(* The code keeps a slab of nodes, each with an optional non-zero count    *)
(* and children ordered by byte.  A node is determined by the path that    *)
(* leads to it, so here a map is a function from the paths of its nodes to *)
(* their counts, 0 standing for a node without a value.  The map with no   *)
(* node is the one whose root is None.                                     *)
(***************************************************************************)
EXTENDS KeyOrder

CONSTANT MaxCount   \* the largest count a node can hold, u32::MAX in the code

ASSUME MaxCountAssumption == MaxCount \in Nat \ {0}

new == [p \in {} |-> 0]

(* The walk along key passes the node after i steps. *)
Reaches(m, key, i) == \A j \in 0 .. i : Pre(key, j) \in DOMAIN m

(* The counts of m with the path to key created, as the walk of insert does. *)
WithPath(m, key) ==
  [p \in DOMAIN m \cup {Pre(key, i) : i \in 0 .. Len(key)} |->
     IF p \in DOMAIN m THEN m[p] ELSE 0]

(* The call returns TooManyIterators and leaves the map as it was. *)
insertFails(m, key) == key \in DOMAIN m /\ m[key] = MaxCount

insert(m, key) ==
  IF insertFails(m, key)
  THEN m
  ELSE [WithPath(m, key) EXCEPT ![key] = @ + 1]

(* Mutant of check_has_no_prefix: the node of key itself is not looked at. *)
checkStopsEarly(m, key) ==
  ~ \E i \in 0 .. Len(key) - 1 : Reaches(m, key, i) /\ m[Pre(key, i)] > 0

(* Whether the call succeeds: no key of the map is a prefix of key. *)
check_has_no_prefix(m, key) ==
  ~ \E i \in 0 .. Len(key) : Reaches(m, key, i) /\ m[Pre(key, i)] > 0

(* Mutant of is_or_has_prefix: only values on the way count, as in          *)
(* check_has_no_prefix.                                                     *)
onlyPrefixes(m, key) ==
  \E i \in 0 .. Len(key) : Reaches(m, key, i) /\ m[Pre(key, i)] > 0

(* The walk meets a value, or it comes to the end of key. *)
is_or_has_prefix(m, key) ==
  \/ \E i \in 0 .. Len(key) - 1 : Reaches(m, key, i) /\ m[Pre(key, i)] > 0
  \/ Reaches(m, key, Len(key))

(* The nodes one byte below the node at p. *)
Children(m, p) == {q \in DOMAIN m : Len(q) = Len(p) + 1 /\ Extends(q, p)}

(* delete backs up from the node of key, removing nodes until one has       *)
(* another child or a value of its own.                                     *)
Pruned(m, key) ==
  {Pre(key, i) : i \in {i \in 0 .. Len(key) :
     \A j \in i .. Len(key) :
        IF j = Len(key)
        THEN Children(m, key) = {}
        ELSE m[Pre(key, j)] = 0 /\ Children(m, Pre(key, j)) = {Pre(key, j + 1)}}}

(* Mutant of Prune: nodes stay. *)
PruneNothing(m, key) == m

Prune(m, key) == [p \in DOMAIN m \ Pruned(m, key) |-> m[p]]

(* Mutant of deleteFinds: a node on the way to a longer key counts. *)
deleteFindsPath(m, key) == Reaches(m, key, Len(key))

(* Whether delete finds a count to decrease. *)
deleteFinds(m, key) == Reaches(m, key, Len(key)) /\ m[key] > 0

delete(m, key) ==
  IF ~ Reaches(m, key, Len(key)) THEN m
  ELSE IF m[key] > 1 THEN [m EXCEPT ![key] = @ - 1]
  ELSE Prune([m EXCEPT ![key] = 0], key)
=============================================================================
