---------------------------- MODULE ContractState ----------------------------
(***************************************************************************)
(* What the mutable state of a contract promises: a stack of generations,  *)
(* each a finite map from keys to values with the areas its iterators      *)
(* lock.  Operations act on the top of the stack.  A nested call works in  *)
(* a new generation, and undoing it is forgetting that generation.  The    *)
(* trie of v1/trie/low_level.rs is shown to implement this module.         *)
(***************************************************************************)
EXTENDS KeyOrder, FiniteSets

CONSTANTS
  Keys,             \* the keys that contracts use
  Values,           \* the values entries can have
  Iters,            \* names for the iterators a contract may hold
  NoIter,           \* the state of a name that is not in use
  MaxCount          \* how many iterators one key can carry

ASSUME StateAssumption ==
  /\ Keys \subseteq Seq(Nat)
  /\ IsFiniteSet(Iters)
  /\ MaxCount \in Nat \ {0}
  /\ NoIter \notin [gen : Nat, root : Keys, snap : SUBSET Keys, given : SUBSET Keys]

VARIABLES
  gens,             \* the stack of generations, oldest first
  iters,            \* the iterators, each of one generation
  saved,            \* the persistent state that the execution started from
  broken,           \* the top generation was left half changed
  ret               \* what the last call returned

vars == <<gens, iters, saved, broken, ret>>

Map == UNION {[K -> Values] : K \in SUBSET Keys}
IterState == [gen : Nat, root : Keys, snap : SUBSET Keys, given : SUBSET Keys]
Rets == {"New", "Replaced", "Deleted", "Locked", "NotFound", "NoMatch", "TooMany",
         "Ok", "Key", "End", "OutOfEnergy"}

TypeOK ==
  /\ gens \in Seq([map : Map, locks : [Keys -> 0 .. MaxCount]])
  /\ Len(gens) > 0
  /\ iters \in [Iters -> IterState \cup {NoIter}]
  /\ saved \in Map
  /\ broken \in BOOLEAN
  /\ ret \in Rets

NoLocks == [k \in Keys |-> 0]
Gen(map) == [map |-> map, locks |-> NoLocks]

Top == Len(gens)
map == gens[Top].map
Below(p) == {k \in DOMAIN map : Extends(k, p)}

Locked == {p \in Keys : gens[Top].locks[p] > 0}
(* Mutant of PointFree: the root of an iterator is not protected. *)
PointFreeBelow(k) == \A p \in Locked : ~ (k # p /\ Extends(k, p))
PointFree(k) == \A p \in Locked : ~ Extends(k, p)
SubtreeFree(k) == \A p \in Locked : ~ Extends(k, p) /\ ~ Extends(p, k)

Without(f, S) == [k \in DOMAIN f \ S |-> f[k]]
With(f, key, v) == [k \in DOMAIN f \cup {key} |-> IF k = key THEN v ELSE f[k]]
ChangeTop(f) == gens' = [gens EXCEPT ![Top].map = f]

Init ==
  /\ saved \in Map
  /\ gens = <<Gen(saved)>>
  /\ iters = [i \in Iters |-> NoIter]
  /\ broken = FALSE
  /\ ret = "Ok"

-----------------------------------------------------------------------------

Insert(k, v) ==
  /\ ~ broken
  /\ \/ /\ ~ PointFree(k)
        /\ ret' = "Locked"
        /\ UNCHANGED gens
     \/ /\ PointFree(k)
        /\ ret' = IF k \in DOMAIN map THEN "Replaced" ELSE "New"
        /\ ChangeTop(With(map, k, v))
  /\ UNCHANGED <<iters, saved, broken>>

Delete(k) ==
  /\ ~ broken
  /\ \/ /\ ~ PointFree(k)
        /\ ret' = "Locked"
        /\ UNCHANGED gens
     \/ /\ PointFree(k)
        /\ ret' = IF k \in DOMAIN map THEN "Deleted" ELSE "NotFound"
        /\ ChangeTop(Without(map, {k}))
  /\ UNCHANGED <<iters, saved, broken>>

DeletePrefix(p) ==
  /\ ~ broken
  /\ \/ /\ ~ SubtreeFree(p)
        /\ ret' = "Locked"
        /\ UNCHANGED gens
     \/ /\ SubtreeFree(p)
        /\ ret' = IF Below(p) = {} THEN "NotFound" ELSE "Deleted"
        /\ ChangeTop(Without(map, Below(p)))
  /\ UNCHANGED <<iters, saved, broken>>

(* The energy runs out while entries of the subtree are being invalidated. *)
(* The execution cannot go on in this generation.                          *)
DeletePrefixStops(p) ==
  /\ ~ broken
  /\ SubtreeFree(p)
  /\ Below(p) # {}
  /\ \E S \in SUBSET Below(p) : ChangeTop(Without(map, S))
  /\ broken' = TRUE
  /\ ret' = "OutOfEnergy"
  /\ UNCHANGED <<iters, saved>>

(* Look a key up, and get an entry for it. *)
Get(k) ==
  /\ ~ broken
  /\ ret' = IF k \in DOMAIN map THEN "Key" ELSE "NotFound"
  /\ UNCHANGED <<gens, iters, saved, broken>>

(* Write through an entry.  Locks do not stop writes: they protect which   *)
(* keys there are.                                                         *)
Write(k, v) ==
  /\ ~ broken
  /\ k \in DOMAIN map
  /\ ret' = "Ok"
  /\ ChangeTop(With(map, k, v))
  /\ UNCHANGED <<iters, saved, broken>>

(* Use an entry whose key is gone, or an iterator that is: nothing happens. *)
StaleHandle ==
  /\ ~ broken
  /\ ret' = "NotFound"
  /\ UNCHANGED <<gens, iters, saved, broken>>

(* Mutant of Iter: no limit on the iterators of one root. *)
IterUnlimited(i, p) ==
  /\ ~ broken
  /\ iters[i] = NoIter
  /\ Below(p) # {}
  /\ ret' = "Ok"
  /\ gens' = [gens EXCEPT ![Top].locks[p] = @ + 1]
  /\ iters' = [iters EXCEPT ![i] = [gen |-> Top, root |-> p, snap |-> Below(p), given |-> {}]]
  /\ UNCHANGED <<saved, broken>>

Iter(i, p) ==
  /\ ~ broken
  /\ iters[i] = NoIter
  /\ \/ /\ Below(p) = {}
        /\ ret' = "NoMatch"
        /\ UNCHANGED <<gens, iters>>
     \/ /\ Below(p) # {}
        /\ gens[Top].locks[p] = MaxCount
        /\ ret' = "TooMany"
        /\ UNCHANGED <<gens, iters>>
     \/ /\ Below(p) # {}
        /\ gens[Top].locks[p] < MaxCount
        /\ ret' = "Ok"
        /\ gens' = [gens EXCEPT ![Top].locks[p] = @ + 1]
        /\ iters' = [iters EXCEPT ![i] = [gen |-> Top, root |-> p, snap |-> Below(p), given |-> {}]]
  /\ UNCHANGED <<saved, broken>>

Live(i) == iters[i] # NoIter
Usable(i) == Live(i) /\ iters[i].gen = Top

Remaining(i) == Below(iters[i].root) \ iters[i].given

(* Mutant of Next_: any key that is left. *)
NextAny(i) ==
  /\ ~ broken
  /\ Usable(i)
  /\ \E k \in Remaining(i) : iters' = [iters EXCEPT ![i].given = @ \cup {k}]
  /\ ret' = "Key"
  /\ UNCHANGED <<gens, saved, broken>>

(* An iterator gives out the first key it has not given out yet. *)
Next_(i) ==
  /\ ~ broken
  /\ Usable(i)
  /\ \/ /\ Remaining(i) = {}
        /\ ret' = "End"
        /\ UNCHANGED iters
     \/ \E k \in Remaining(i) :
          /\ \A q \in Remaining(i) \ {k} : Less(k, q)
          /\ ret' = "Key"
          /\ iters' = [iters EXCEPT ![i].given = @ \cup {k}]
  /\ UNCHANGED <<gens, saved, broken>>

(* Mutant of DeleteIter: the lock stays. *)
DeleteIterKeepsLock(i) ==
  /\ ~ broken
  /\ Usable(i)
  /\ ret' = "Ok"
  /\ iters' = [iters EXCEPT ![i] = NoIter]
  /\ UNCHANGED <<gens, saved, broken>>

DeleteIter(i) ==
  /\ ~ broken
  /\ Usable(i)
  /\ ret' = "Ok"
  /\ gens' = [gens EXCEPT ![Top].locks[iters[i].root] = @ - 1]
  /\ iters' = [iters EXCEPT ![i] = NoIter]
  /\ UNCHANGED <<saved, broken>>

NewGeneration ==
  /\ ~ broken
  /\ gens' = Append(gens, Gen(map))
  /\ ret' = "Ok"
  /\ UNCHANGED <<iters, saved, broken>>

(* Forget the generations above g, and the iterators that lived there. *)
Normalize(g) ==
  /\ g \in 1 .. Top - 1
  /\ gens' = SubSeq(gens, 1, g)
  /\ iters' = [i \in Iters |-> IF Live(i) /\ iters[i].gen > g THEN NoIter ELSE iters[i]]
  /\ broken' = FALSE
  /\ ret' = "Ok"
  /\ UNCHANGED saved

(* Make the top generation persistent, and start a new execution on it. *)
Freeze ==
  /\ ~ broken
  /\ saved' = map
  /\ gens' = <<Gen(map)>>
  /\ iters' = [i \in Iters |-> NoIter]
  /\ ret' = "Ok"
  /\ UNCHANGED broken

(* Drop everything, and start a new execution on the persistent state. *)
Discard ==
  /\ gens' = <<Gen(saved)>>
  /\ iters' = [i \in Iters |-> NoIter]
  /\ broken' = FALSE
  /\ ret' = "Ok"
  /\ UNCHANGED saved

Next ==
  \/ \E k \in Keys, v \in Values : Insert(k, v) \/ Write(k, v)
  \/ \E k \in Keys : Delete(k) \/ DeletePrefix(k) \/ DeletePrefixStops(k) \/ Get(k)
  \/ StaleHandle
  \/ \E i \in Iters, k \in Keys : Iter(i, k)
  \/ \E i \in Iters : Next_(i) \/ DeleteIter(i)
  \/ NewGeneration
  \/ \E g \in 1 .. Top : Normalize(g)
  \/ Freeze
  \/ Discard

Spec == Init /\ [][Next]_vars

-----------------------------------------------------------------------------

Of(g, p) == {i \in Iters : Live(i) /\ iters[i].gen = g /\ iters[i].root = p}

(* Every lock is held by exactly the iterators that stand for it, in the   *)
(* generation they were made in, through nested calls and rollbacks: no    *)
(* lock is left behind when iterators are gone, and none is missing while  *)
(* one is alive (iterator_roots against the iterators handed out).         *)
LocksCounted ==
  \A g \in 1 .. Top, p \in Keys : gens[g].locks[p] = Cardinality(Of(g, p))

(* An iterator works on the keys there were when it was made: no operation *)
(* adds a key to its subtree or removes one from it while it is alive.     *)
IteratorSeesSnapshot ==
  \A i \in Iters : Live(i) =>
    iters[i].snap = {k \in DOMAIN gens[iters[i].gen].map : Extends(k, iters[i].root)}

(* What an iterator has given out is an initial segment of its snapshot in *)
(* lexicographic order: no key is skipped, none is out of order.           *)
IterationInOrder ==
  \A i \in Iters : Live(i) =>
    /\ iters[i].given \subseteq iters[i].snap
    /\ \A a \in iters[i].given, b \in iters[i].snap \ iters[i].given : Less(a, b)
=============================================================================
