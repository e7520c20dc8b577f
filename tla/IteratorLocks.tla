---------------------------- MODULE IteratorLocks ----------------------------
(***************************************************************************)
(* The life of one PrefixesMap: iterators are created and deleted in any   *)
(* order, several may share a root, and between those steps the map        *)
(* answers the two questions that guard every change of the tree.          *)
(*                                                                         *)
(* held is a history variable: how many live iterators have each root.     *)
(***************************************************************************)
EXTENDS PrefixesMap

CONSTANT Keys       \* the keys iterators are created with

ASSUME KeysAssumption == Keys \subseteq Seq(Nat)

VARIABLES
  map,              \* the PrefixesMap of the generation
  held,             \* the number of live iterators on each key
  ret               \* what the last call returned

vars == <<map, held, ret>>

TypeOK ==
  /\ DOMAIN map \subseteq Seq(Nat)
  /\ map \in [DOMAIN map -> 0 .. MaxCount]
  /\ held \in [Keys -> 0 .. MaxCount]
  /\ ret \in BOOLEAN

Init ==
  /\ map = new
  /\ held = [k \in Keys |-> 0]
  /\ ret = FALSE

(* iter() takes a lock on its root; the call fails when the count is full. *)
Insert(k) ==
  /\ map' = insert(map, k)
  /\ ret' = ~ insertFails(map, k)
  /\ held' = IF held[k] < MaxCount THEN [held EXCEPT ![k] = @ + 1] ELSE held

(* delete_iter() gives the lock back.  It is called with the root of any   *)
(* iterator, also one the generation holds no lock for.                    *)
Delete(k) ==
  /\ map' = delete(map, k)
  /\ ret' = deleteFinds(map, k)
  /\ held' = IF held[k] > 0 THEN [held EXCEPT ![k] = @ - 1] ELSE held

Next == \E k \in Keys : Insert(k) \/ Delete(k)

Spec == Init /\ [][Next]_vars

-----------------------------------------------------------------------------

Locked == {k \in Keys : held[k] > 0}

(* The reference counts of the map are the numbers of live iterators, and  *)
(* a node survives exactly as long as it leads to a locked key: the        *)
(* pruning of delete leaves no dead branch and removes no live one.        *)
NodesAreLivePaths ==
  /\ DOMAIN map = UNION {{Pre(k, i) : i \in 0 .. Len(k)} : k \in Locked}
  /\ \A p \in DOMAIN map : map[p] = IF p \in Keys THEN held[p] ELSE 0

(* check_has_no_prefix, which guards insert and delete of the tree,        *)
(* refuses exactly the keys that lie in the area of a live iterator.       *)
PointLockExact ==
  \A k \in Keys :
    check_has_no_prefix(map, k) <=> ~ \E p \in Locked : Extends(k, p)

(* is_or_has_prefix, which guards delete_prefix of the tree, refuses       *)
(* exactly the subtrees that lie in, or contain, the area of a live        *)
(* iterator.                                                               *)
SubtreeLockExact ==
  \A k \in Keys :
    is_or_has_prefix(map, k) <=>
      \E p \in Locked : Extends(k, p) \/ Extends(p, k)

(* insert and delete report success exactly when the number of live        *)
(* iterators changes: no lock is taken by a failing iter(), and none is    *)
(* lost or invented by delete_iter().                                      *)
SuccessIffCounted == [][ret' <=> held' # held]_vars
=============================================================================
