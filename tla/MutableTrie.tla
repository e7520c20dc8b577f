----------------------------- MODULE MutableTrie -----------------------------
(***************************************************************************)
(* Executions on the mutable trie: every operation of MutableTrie in any   *)
(* order, on the current generation, with iterators that outlive changes   *)
(* of the tree around them, entry ids that outlive generations above them, *)
(* rollback, freezing, and thawing what was frozen.                        *)
(*                                                                         *)
(* The trie is shown to implement ContractState, the stack of plain maps.  *)
(***************************************************************************)
EXTENDS LowLevelTrie

CONSTANTS
  Keys,             \* the keys of the contract
  Values,           \* the values entries can have, Empty among them
  Iters,            \* names for iterators
  MaxNodes,         \* bound on the arena of nodes
  MaxEntries,       \* bound on the arena of entries
  MaxGenerations,   \* bound on the depth of nested calls
  MaxIds,           \* bound on the number of entry ids held
  MaxSteps          \* bound on the operations of one execution

ASSUME KeysAssumption == Keys \subseteq Seq(Nat) /\ IsFiniteSet(Keys)
ASSUME GenerationsAssumption == MaxGenerations \in Nat

VARIABLES
  trie,             \* the MutableTrie
  persistent,       \* the persistent tree it was thawed from, or None
  iters,            \* live iterators by name, with their history
  ids,              \* entry ids handed out, with the key they are for
  broken,           \* delete_prefix ran out of energy in this generation
  ret,              \* what the last call returned
  maps,             \* history: the map that each generation stands for
  saved,            \* history: the map that the persistent tree stands for
  steps             \* operations since the execution started

vars == <<trie, persistent, iters, ids, broken, ret, maps, saved, steps>>

Thaw(p) == IF p = None THEN empty ELSE make_mutable(p)

-----------------------------------------------------------------------------
(* The maps that a trie stands for.                                        *)

(* The value of a key in generation g, as get_entry and with_entry give it *)
(* once g is current again.                                                *)
Lookup(t, g, k) ==
  LET r == get_entry([t EXCEPT !.generations = SubSeq(@, 1, g)], k)
  IN IF r.entry = None THEN None ELSE with_entry(r.trie, r.entry)

MapOf(t, g) == LET v == [k \in Keys |-> Lookup(t, g, k)]
               IN [k \in {k \in Keys : v[k] # None} |-> v[k]]

MapsOf(t) == [g \in 1 .. Current(t) |-> MapOf(t, g)]
map == maps[Current(trie)]

(* The canonical radix tree of a map m: a node for every key and for every *)
(* place where keys part, and for nothing else.                            *)
Canonical(m) ==
  LET paths == {Nibbles(k) : k \in DOMAIN m}
      all == UNION {{Pre(q, i) : i \in 0 .. Len(q)} : q \in paths}
      tree[p \in all] ==
        LET here == {q \in paths : Extends(q, p)}
            stem == LongestCommonPrefix(here)
            parts == {q[Len(stem) + 1] : q \in here \ {stem}}
            order == SetToSortSeq(parts, <)
        IN [value |-> IF stem \in paths THEN m[Bytes(stem)] ELSE None,
            path |-> SubSeq(stem, Len(p) + 1, Len(stem)),
            children |-> [j \in DOMAIN order |->
                            [key |-> order[j], node |-> tree[Append(stem, order[j])]]]]
  IN IF m = [k \in {} |-> None] THEN None ELSE tree[<<>>]

-----------------------------------------------------------------------------

(* A new contract has no state.  Later executions start with the           *)
(* persistent tree that an earlier one froze.                              *)
Init ==
  /\ persistent = None
  /\ trie = Thaw(persistent)
  /\ iters = [i \in Iters |-> None]
  /\ ids = {}
  /\ broken = FALSE
  /\ ret = "Ok"
  /\ maps = MapsOf(trie)
  /\ saved = maps[1]
  /\ steps = 0

Id(k, entry) == [gen |-> Current(trie), key |-> k, id |-> entry]
Remember(new) == ids' = IF Cardinality(ids \cup {new}) <= MaxIds THEN ids \cup {new} ELSE ids

(* create_entry, the only caller during an execution, passes Vec::new().   *)
Insert(k) ==
  /\ ~ broken
  /\ \E r \in {insert(trie, k, Empty)} :
       /\ trie' = r.trie
       /\ ret' = r.ret
       /\ IF r.entry = None THEN UNCHANGED ids ELSE Remember(Id(k, r.entry))
       /\ UNCHANGED <<persistent, iters, broken>>

Delete(k) ==
  /\ ~ broken
  /\ \E r \in {delete(trie, k)} :
       /\ trie' = r.trie
       /\ ret' = r.ret
       /\ UNCHANGED <<persistent, iters, ids, broken>>

DeletePrefix(k) ==
  /\ ~ broken
  /\ \E r \in {delete_prefix(trie, k)} :
       /\ trie' = r.trie
       /\ ret' = r.ret
       /\ UNCHANGED <<persistent, iters, ids, broken>>

DeletePrefixOutOfEnergy(k) ==
  /\ ~ broken
  /\ trie' \in DeletePrefixStops(trie, k)
  /\ ret' = "OutOfEnergy"
  /\ broken' = TRUE
  /\ UNCHANGED <<persistent, iters, ids>>

Get(k) ==
  /\ ~ broken
  /\ \E r \in {get_entry(trie, k)} :
       /\ trie' = r.trie
       /\ ret' = IF r.entry = None THEN "NotFound" ELSE "Key"
       /\ IF r.entry = None THEN UNCHANGED ids ELSE Remember(Id(k, r.entry))
       /\ UNCHANGED <<persistent, iters, broken>>

(* The entries a contract may use are those of the current generation. *)
Usable == {e \in ids : e.gen = Current(trie)}

(* entry_write: copy the value if need be, then change it in place. *)
WriteTo(t, entry, v) ==
  LET u == get_mut(t, entry)
  IN IF u.entries[entry] = Deleted THEN u ELSE [u EXCEPT !.values[u.entries[entry].idx] = v]

(* Look a key up and write it at once. *)
Write(k, v) ==
  /\ ~ broken
  /\ \E r \in {get_entry(trie, k)} :
       /\ r.entry # None
       /\ trie' = WriteTo(r.trie, r.entry, v)
       /\ ret' = "Ok"
       /\ UNCHANGED <<persistent, iters, ids, broken>>

(* Write through an id obtained earlier. *)
WriteId(e, v) ==
  /\ ~ broken
  /\ trie' = WriteTo(trie, e.id, v)
  /\ ret' = IF trie.entries[e.id] = Deleted THEN "NotFound" ELSE "Ok"
  /\ UNCHANGED <<persistent, iters, ids, broken>>

Iter(i, k) ==
  /\ ~ broken
  /\ iters[i] = None
  /\ \E r \in {iter(trie, k)} :
       /\ trie' = r.trie
       /\ ret' = r.ret
       /\ iters' = IF r.iterator = None THEN iters
                   ELSE [iters EXCEPT ![i] =
                           [it |-> r.iterator, gen |-> Current(trie), given |-> {},
                            snap |-> {q \in DOMAIN map : Extends(q, k)}]]
       /\ UNCHANGED <<persistent, ids, broken>>

(* Enough rounds for one call of next on the trees of this model. *)
Rounds == 8 * Cardinality(Keys) + 4

Next_(i) ==
  /\ ~ broken
  /\ iters[i] # None
  /\ iters[i].gen = Current(trie)
  /\ \E r \in {next(trie, iters[i].it, Rounds)} :
       /\ trie' = r.trie
       /\ ret' = IF r.entry = None THEN "End" ELSE "Key"
       /\ iters' = [iters EXCEPT ![i].it = r.iterator,
                                 ![i].given = IF r.entry = None THEN @
                                              ELSE @ \cup {get_key(r.iterator)}]
       /\ IF r.entry = None THEN UNCHANGED ids
          ELSE Remember(Id(get_key(r.iterator), r.entry))
       /\ UNCHANGED <<persistent, broken>>

DeleteIter(i) ==
  /\ ~ broken
  /\ iters[i] # None
  /\ iters[i].gen = Current(trie)
  /\ trie' = delete_iter(trie, iters[i].it)
  /\ iters' = [iters EXCEPT ![i] = None]
  /\ ret' = "Ok"
  /\ UNCHANGED <<persistent, ids, broken>>

NewGeneration ==
  /\ ~ broken
  /\ Current(trie) < MaxGenerations
  /\ trie' = new_generation(trie)
  /\ ret' = "Ok"
  /\ UNCHANGED <<persistent, iters, ids, broken>>

(* Iterators and entry ids belong to a generation and go with it. *)
Normalize(g) ==
  /\ g < Current(trie)
  /\ trie' = normalize(trie, g - 1)
  /\ iters' = [i \in Iters |-> IF iters[i] # None /\ iters[i].gen > g THEN None ELSE iters[i]]
  /\ ids' = {e \in ids : e.gen <= g}
  /\ broken' = FALSE
  /\ ret' = "Ok"
  /\ UNCHANGED persistent

Restart(p) ==
  /\ persistent' = p
  /\ trie' = Thaw(p)
  /\ iters' = [i \in Iters |-> None]
  /\ ids' = {}
  /\ broken' = FALSE
  /\ ret' = "Ok"

Freeze == ~ broken /\ Restart(freeze(trie))

Discard == Restart(persistent)

InBounds ==
  /\ steps < MaxSteps
  /\ Len(trie.nodes) <= MaxNodes
  /\ Len(trie.entries) <= MaxEntries

Operation ==
  \/ \E k \in Keys : Insert(k) \/ Delete(k) \/ Get(k)
  \/ \E k \in Keys : DeletePrefix(k) \/ DeletePrefixOutOfEnergy(k)
  \/ \E k \in Keys, v \in Values : Write(k, v)
  \/ \E e \in Usable, v \in Values : WriteId(e, v)
  \/ \E i \in Iters, k \in Keys : Iter(i, k)
  \/ \E i \in Iters : Next_(i) \/ DeleteIter(i)
  \/ NewGeneration
  \/ \E g \in 1 .. MaxGenerations : Normalize(g)

Next ==
  /\ \/ InBounds /\ Operation /\ steps' = steps + 1
     \/ (Freeze \/ Discard) /\ steps' = 0
  /\ maps' = MapsOf(trie')
  /\ saved' = IF persistent' = persistent THEN saved ELSE maps'[1]

Spec == Init /\ [][Next]_vars

-----------------------------------------------------------------------------

(* The maps, locks and iterators that a state stands for. *)
LocksOf(g) ==
  LET m == trie.generations[g].iterator_roots
  IN [k \in Keys |-> IF k \in DOMAIN m THEN m[k] ELSE 0]

Abs == INSTANCE ContractState WITH
  NoIter <- None,
  gens <- [g \in 1 .. Current(trie) |-> [map |-> maps[g], locks |-> LocksOf(g)]],
  iters <- [i \in Iters |-> IF iters[i] = None THEN None
                            ELSE [gen |-> iters[i].gen, root |-> iters[i].it.root,
                                  snap |-> iters[i].snap, given |-> iters[i].given]]

(* Every operation of the trie, copy on write, path compression, locks and *)
(* truncation of the arenas included, does to the stack of maps what       *)
(* ContractState says, and returns what it says.                           *)
StartsLikeContractState == Abs!Init
StepsLikeContractState == [Abs!Next]_(Abs!vars)

(* The tree of the current generation is the canonical radix tree of its   *)
(* contents, whatever the order of the operations that led there.  The     *)
(* hash of the contract state is a function of this tree, so nodes that    *)
(* executed the same calls agree on it.                                    *)
FreezeIsCanonical == ~ broken => freeze(trie) = Canonical(map)

(* An entry id of the current generation either reads and writes the key   *)
(* it was handed out for, or is dead.  It never comes to mean another key, *)
(* not even after the tree around it was split or collapsed.               *)
EntryIdsDenoteTheirKey ==
  ~ broken => \A e \in Usable :
     trie.entries[e.id] = Deleted \/ get_entry(trie, e.key).entry = e.id

(* An entry id dies only when its key is deleted. *)
DiesWithItsKey ==
  \A e \in ids \cap ids' :
    /\ trie.entries[e.id] # Deleted
    /\ ~ broken'
    /\ e.gen = Current(trie)
    /\ trie'.entries[e.id] = Deleted
    => e.key \notin DOMAIN map'
EntryDiesWithItsKey == [][DiesWithItsKey]_vars

(* Truncation leaves no dangling pointer: what an older generation can     *)
(* reach lies below the checkpoint of the generation above it, so dropping *)
(* that one removes nothing the older one needs.                           *)
CheckpointsCoverOlderGenerations ==
  \A g \in 1 .. Current(trie) - 1 :
    LET c == trie.generations[g + 1].checkpoint
        old == 1 .. c.num_nodes
    IN /\ trie.generations[g].root # None => trie.generations[g].root \in old
       /\ \A i \in old :
            LET n == trie.nodes[i]
            IN /\ n.generation < g
               /\ n.value # None => n.value <= c.num_entries
               /\ n.children.kind = "Owned" =>
                    \A j \in DOMAIN n.children.list : n.children.list[j].index \in old
       /\ \A e \in 1 .. c.num_entries :
            LET en == trie.entries[e]
            IN en.kind # "Deleted" =>
                 en.idx <= IF en.kind = "ReadOnly" /\ en.borrowed THEN c.num_borrowed_nodes
                           ELSE c.num_values
=============================================================================
