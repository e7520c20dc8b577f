----------------------------- MODULE LowLevelTrie -----------------------------
(***************************************************************************)
(* The mutable trie of a contract execution (v1/trie/low_level.rs,         *)
(* MutableTrie) as a value, with the operations on it as operators that    *)
(* return the new trie and what the call returns.                          *)
(*                                                                         *)
(* A trie is a record of five append-only arenas, as in the code.  Indices *)
(* start at 1 here.  A persistent node is the record itself: where it is   *)
(* kept (memory or backing store) is the concern of CachedRef, not of the  *)
(* algorithms.  Every generation owns a root, and a node of an older       *)
(* generation is copied before the current one may change it.              *)
(***************************************************************************)
EXTENDS KeyOrder, FiniteSets, SequencesExt

CONSTANTS
  None,             \* Option::None
  Empty,            \* the empty byte vector, what mem::take leaves behind
  MaxCount          \* see PrefixesMap

Locks == INSTANCE PrefixesMap

(* Entries: pointers from a node to one of the two arenas of values. *)
ReadOnly(borrowed, idx) == [kind |-> "ReadOnly", borrowed |-> borrowed, idx |-> idx]
Mutable(idx) == [kind |-> "Mutable", idx |-> idx]
Deleted == [kind |-> "Deleted"]

(* Children: links into the persistent tree, or indices of own nodes. *)
Borrowed(list) == [kind |-> "Borrowed", list |-> list]
Owned(generation, list) == [kind |-> "Owned", generation |-> generation, list |-> list]

Child(key, index) == [key |-> key, index |-> index]

MutableNode(generation, value, path, children, origin) ==
  [generation |-> generation, value |-> value, path |-> path,
   children |-> children, origin |-> origin]

(* What mem::take leaves in the place of a node. *)
DefaultNode == MutableNode(0, None, <<>>, Owned(0, <<>>), None)

(* Mutant of Checkpoint: two of the counts are swapped. *)
CheckpointSwapped(nodes, values, borrowed, entries) ==
  [num_nodes |-> nodes, num_values |-> borrowed,
   num_borrowed_nodes |-> values, num_entries |-> entries]

Checkpoint(nodes, values, borrowed, entries) ==
  [num_nodes |-> nodes, num_values |-> values,
   num_borrowed_nodes |-> borrowed, num_entries |-> entries]

Generation(root, checkpoint) ==
  [root |-> root, checkpoint |-> checkpoint, iterator_roots |-> Locks!new]

empty ==
  [generations |-> <<Generation(None, Checkpoint(0, 0, 0, 0))>>,
   entries |-> <<>>, values |-> <<>>, borrowed_values |-> <<>>, nodes |-> <<>>]

(* The generation that operations work on, and its number. *)
Current(t) == Len(t.generations)
Root(t) == t.generations[Current(t)].root
WithRoot(t, root) == [t EXCEPT !.generations[Current(t)].root = root]

-----------------------------------------------------------------------------
(* Copying on the way down.                                                *)

(* The owned copy of a persistent node; its entry is at index value. *)
ThawNode(p, generation, value) ==
  MutableNode(generation, IF p.value = None THEN None ELSE value,
              p.path, Borrowed(p.children), p)

(* Mutant of MigrateEntry: the copy may write the value it shares. *)
MigrateEntryMutable(e) == e

(* A mutable entry is shared by the copy, which may then only read it. *)
MigrateEntry(e) == IF e.kind = "Mutable" THEN ReadOnly(FALSE, e.idx) ELSE e

(* The copy of an owned node for a newer generation. *)
MigrateNode(n, generation, value) ==
  [n EXCEPT !.generation = generation,
            !.value = IF @ = None THEN None ELSE value]

make_mutable(p) ==
  LET values == IF p.value = None THEN <<>> ELSE <<p.value>>
  IN [generations |-> <<Generation(1, Checkpoint(0, 0, 0, 0))>>,
      entries |-> <<>> \o [i \in DOMAIN values |-> ReadOnly(TRUE, i)],
      values |-> <<>>,
      borrowed_values |-> values,
      nodes |-> <<ThawNode(p, 0, 1)>>]

(* The children that have a value, and how many of them there are up to j. *)
Valued(kids) == {j \in DOMAIN kids : kids[j].value # None}
Rank(S, j) == Cardinality({i \in S : i <= j})
InOrder(S) == [r \in 1 .. Cardinality(S) |-> CHOOSE j \in S : Rank(S, j) = r]

(* Append copies of the children of node i, with the entries of those that *)
(* have a value, and point the node to the copies.  (The concatenation     *)
(* with <<>> only makes TLC evaluate the list at once.)                    *)
Adopt(t, i, kids, Copy(_, _, _), newEntries) ==
  LET g == t.nodes[i].generation
      keys == t.nodes[i].children.list
      links == <<>> \o [j \in DOMAIN kids |-> Child(keys[j].key, Len(t.nodes) + j)]
      copies == [j \in DOMAIN kids |->
                   Copy(kids[j], g, Len(t.entries) + Rank(Valued(kids), j))]
  IN [t EXCEPT !.nodes = [@ EXCEPT ![i].children = Owned(g, links)] \o copies,
               !.entries = @ \o newEntries]

make_owned(t, i) ==
  LET n == t.nodes[i]
      kids == IF n.children.kind = "Borrowed"
              THEN [j \in DOMAIN n.children.list |-> n.children.list[j].node]
              ELSE [j \in DOMAIN n.children.list |-> t.nodes[n.children.list[j].index]]
      valued == InOrder(Valued(kids))
  IN IF n.children.kind = "Borrowed" THEN
       Adopt([t EXCEPT !.borrowed_values = @ \o [r \in DOMAIN valued |-> kids[valued[r]].value]],
             i, kids, ThawNode,
             [r \in DOMAIN valued |-> ReadOnly(TRUE, Len(t.borrowed_values) + r)])
     ELSE IF n.children.generation # n.generation THEN
       Adopt(t, i, kids, MigrateNode,
             [r \in DOMAIN valued |-> MigrateEntry(t.entries[kids[valued[r]].value])])
     ELSE t

-----------------------------------------------------------------------------
(* Following a key.                                                        *)

follow_stem(key, stem) ==
  LET common == CHOOSE n \in 0 .. Len(key) :
                  /\ n <= Len(stem) /\ Pre(key, n) = Pre(stem, n)
                  /\ n = Len(key) \/ n = Len(stem) \/ key[n + 1] # stem[n + 1]
  IN [common |-> common,
      how |-> CASE common = Len(key) /\ common = Len(stem) -> "Equal"
                [] common = Len(key) /\ common < Len(stem) -> "KeyIsPrefix"
                [] common < Len(key) /\ common = Len(stem) -> "StemIsPrefix"
                [] OTHER -> "Diff"]

(* Where the walk is: the node, the chunks of the key still to follow from *)
(* it, and the nodes passed, each with the position of the child taken.    *)
Cursor(t, node, rest, trail, stuck) ==
  [trie |-> t, node |-> node, rest |-> rest, trail |-> trail, stuck |-> stuck]

(* Go on to the child for the next chunk, if there is one, in the trie t in *)
(* which the children of the node are owned.                                *)
Descend(c, t) ==
  LET kids == t.nodes[c.node].children.list
      len == Len(t.nodes[c.node].path)
      hits == {j \in DOMAIN kids : kids[j].key = c.rest[len + 1]}
      hit == CHOOSE j \in hits : TRUE
  IN IF hits = {} THEN Cursor(t, c.node, c.rest, c.trail, TRUE)
     ELSE Cursor(t, kids[hit].index, SubSeq(c.rest, len + 2, Len(c.rest)),
                 Append(c.trail, [node |-> c.node, child |-> hit]), FALSE)

(* One round of the loop that insert, delete, delete_prefix, get_entry and *)
(* iter share: when the stem of the node is a prefix of the rest of the    *)
(* key, own the children and go on to the one for the next chunk.          *)
Advance(c) ==
  IF c.stuck \/ follow_stem(c.rest, c.trie.nodes[c.node].path).how # "StemIsPrefix" THEN c
  ELSE Descend(c, make_owned(c.trie, c.node))

(* The loop takes at least one chunk per round. *)
Walk(t, root, key) ==
  LET chunks == Nibbles(key)
      at[n \in 0 .. Len(chunks)] ==
        IF n = 0 THEN Cursor(t, root, chunks, <<>>, FALSE) ELSE Advance(at[n - 1])
  IN at[Len(chunks)]

(* Why the walk stopped: there was no child for the next chunk, or what    *)
(* follow_stem says of the last node.                                      *)
Outcome(c) ==
  IF c.stuck THEN "NoChild" ELSE follow_stem(c.rest, c.trie.nodes[c.node].path).how

EntryAt(c) ==
  [trie |-> c.trie,
   entry |-> IF Outcome(c) = "Equal" THEN c.trie.nodes[c.node].value ELSE None]

get_entry(t, key) ==
  IF Root(t) = None THEN [trie |-> t, entry |-> None]
  ELSE EntryAt(Walk(t, Root(t), key))

-----------------------------------------------------------------------------
(* Entries and values.                                                     *)

(* What an entry reads, None once it is deleted. *)
with_entry(t, entry) ==
  LET e == t.entries[entry]
  IN CASE e.kind = "Deleted" -> None
       [] e.kind = "Mutable" -> t.values[e.idx]
       [] e.kind = "ReadOnly" -> IF e.borrowed THEN t.borrowed_values[e.idx] ELSE t.values[e.idx]

(* Push a value and make the entry point to it, as the only owner. *)
OwnValue(t, entry, v) ==
  [t EXCEPT !.values = Append(@, v), !.entries[entry] = Mutable(Len(t.values) + 1)]

(* Copy on write: the entry becomes the owner of a copy of its value.  The *)
(* caller then changes the value in place.                                 *)
get_mut(t, entry) ==
  IF t.entries[entry].kind = "ReadOnly" THEN OwnValue(t, entry, with_entry(t, entry)) ELSE t

(* Overwrite without the copy. *)
set_entry_value(t, entry, v) ==
  LET e == t.entries[entry]
  IN IF e.kind = "Mutable" THEN [t EXCEPT !.values[e.idx] = v] ELSE OwnValue(t, entry, v)

(* A new entry at the end of the table, with a value of its own. *)
NewEntry(t, v) ==
  [t EXCEPT !.values = Append(@, v), !.entries = Append(@, Mutable(Len(t.values) + 1))]

(* Mutant of Invalidate: entry ids survive their key. *)
InvalidateNothing(t, dead) == t

(* Mark entries as deleted and free the values they own. *)
Invalidate(t, dead) ==
  LET freed == {t.entries[e].idx : e \in {e \in dead : t.entries[e].kind = "Mutable"}}
  IN [t EXCEPT !.entries = <<>> \o [e \in DOMAIN @ |-> IF e \in dead THEN Deleted ELSE @[e]],
               !.values = <<>> \o [i \in DOMAIN @ |-> IF i \in freed THEN Empty ELSE @[i]]]

-----------------------------------------------------------------------------
(* Changing the tree.                                                      *)

(* Mutant of Touch: changed nodes keep their origin. *)
TouchNothing(t, dirty) == t

(* Forget the persistent origin of nodes that no longer equal it. *)
Touch(t, dirty) ==
  [t EXCEPT !.nodes = <<>> \o [i \in DOMAIN @ |->
                         IF i \in dirty THEN [t.nodes[i] EXCEPT !.origin = None] ELSE @[i]]]

(* Point the last step of a trail, or the root, to another node. *)
Repoint(t, trail, index) ==
  IF trail = <<>> THEN WithRoot(t, index)
  ELSE LET up == Last(trail)
       IN [t EXCEPT !.nodes[up.node].children.list[up.child].index = index]

AddNode(t, n) == [t EXCEPT !.nodes = Append(@, n)]

(* The leaf that a new key ends in, for the entry just pushed. *)
Leaf(t, generation, path) ==
  MutableNode(generation, Len(t.entries), path, Owned(generation, <<>>), None)

(* Where a chunk belongs among the ordered children (binary_search). *)
Place(list, key) == 1 + Cardinality({j \in DOMAIN list : list[j].key < key})

(* Split the stem of the node the walk stopped at: a new node takes what   *)
(* the stem has in common with the key, the old one keeps what is left.    *)
Shorten(t, node, common) ==
  [t EXCEPT !.nodes[node].path = SubSeq(@, common + 2, Len(@))]

(* The key ends at the node, or between two nodes, or it leaves the tree   *)
(* at a node or in the middle of a stem.  t is the trie with the new entry *)
(* pushed, f what follow_stem says of the last node.                       *)
InsertAtCursor(c, t, f) ==
  LET n == t.nodes[c.node]
      g == t.nodes[Root(t)].generation
      keyStep == c.rest[f.common + 1]
      restOfKey == SubSeq(c.rest, f.common + 2, Len(c.rest))
      index == Len(t.nodes) + 1
      below == Child(n.path[f.common + 1], c.node)
      leaf == Child(keyStep, index)
  IN CASE f.how = "Equal" ->
            [t EXCEPT !.nodes[c.node].value = Len(t.entries)]
       [] f.how = "KeyIsPrefix" ->
            Repoint(AddNode(Shorten(t, c.node, f.common),
                            MutableNode(g, Len(t.entries), c.rest, Owned(g, <<below>>), None)),
                    c.trail, index)
       [] f.how = "StemIsPrefix" ->
            AddNode([t EXCEPT !.nodes[c.node].children.list = InsertAt(@, Place(@, keyStep), leaf)],
                    Leaf(t, g, restOfKey))
       [] f.how = "Diff" ->
            Repoint(AddNode(AddNode(Shorten(t, c.node, f.common), Leaf(t, g, restOfKey)),
                            MutableNode(g, None, Pre(c.rest, f.common),
                              Owned(g, IF leaf.key < below.key THEN <<leaf, below>>
                                                               ELSE <<below, leaf>>), None)),
                    c.trail, index + 1)

(* Mutant of Replace: the key gets a new entry. *)
ReplaceAfresh(t, node, e, v) ==
  [NewEntry(Invalidate(t, {e}), v) EXCEPT !.nodes[node].value = Len(t.entries) + 1]

(* The value of a key that is there already is overwritten. *)
Replace(t, node, e, v) == set_entry_value(t, e, v)

(* The walk marked the nodes it passed as modified, which gave t. *)
InsertOrReplace(c, t, v) ==
  LET e == t.nodes[c.node].value
  IN IF Outcome(c) = "Equal" /\ e # None
     THEN [trie |-> Replace(t, c.node, e, v), entry |-> e, ret |-> "Replaced"]
     ELSE [trie |-> InsertAtCursor(c, NewEntry(t, v), follow_stem(c.rest, t.nodes[c.node].path)),
           entry |-> Len(t.entries) + 1, ret |-> "New"]

Passed(c) == {c.trail[j].node : j \in DOMAIN c.trail} \cup {c.node}
InsertFrom(c, v) == InsertOrReplace(c, Touch(c.trie, Passed(c)), v)

(* The root of a tree that was empty. *)
InsertRoot(t, key) ==
  WithRoot(AddNode(t, Leaf(t, Current(t) - 1, Nibbles(key))), Len(t.nodes) + 1)

insert(t, key, v) ==
  IF ~ Locks!check_has_no_prefix(t.generations[Current(t)].iterator_roots, key)
  THEN [trie |-> t, entry |-> None, ret |-> "Locked"]
  ELSE IF Root(t) = None
  THEN [trie |-> InsertRoot(NewEntry(t, v), key), entry |-> Len(t.entries) + 1, ret |-> "New"]
  ELSE InsertFrom(Walk(t, Root(t), key), v)

(* Path compression: the only child of node i takes its place under the    *)
(* last step of the trail, and its stem grows by the stem of the node.     *)
Collapse(t, i, trail) ==
  LET child == t.nodes[i].children.list[1]
      stem == t.nodes[i].path \o <<child.key>> \o t.nodes[child.index].path
      u == [t EXCEPT !.nodes[i] = DefaultNode,
                     !.nodes[child.index].path = stem,
                     !.nodes[child.index].origin = None]
  IN Repoint(u, trail, child.index)

(* A node left with neither a value nor two children is collapsed. *)
CollapseIfSingle(t, i, above) ==
  IF t.nodes[i].value = None /\ Len(t.nodes[i].children.list) = 1
  THEN Collapse(IF above = <<>> THEN t ELSE Touch(t, {Last(above).node}), i, above)
  ELSE t

(* Remove the child that the last step of the trail leads to. *)
RemoveChild(t, trail) ==
  LET up == Last(trail)
  IN CollapseIfSingle([make_owned(Touch(t, {up.node}), up.node) EXCEPT
                         !.nodes[up.node].children.list = RemoveAt(@, up.child)],
                      up.node, Front(trail))

(* Fix the tree up around a node that lost its value. *)
Unlink(t, c) ==
  LET kids == Len(t.nodes[c.node].children.list)
  IN IF kids = 1 THEN Collapse(t, c.node, c.trail)
     ELSE IF kids > 1 THEN t
     ELSE IF c.trail = <<>> THEN WithRoot(t, None)
     ELSE RemoveChild(t, c.trail)

DropValue(t, i) ==
  [Touch(Invalidate(t, {t.nodes[i].value}), {i}) EXCEPT !.nodes[i].value = None]

DeleteAt(c) ==
  LET e == c.trie.nodes[c.node].value
  IN IF Outcome(c) # "Equal" \/ e = None THEN [trie |-> c.trie, ret |-> "NotFound"]
     ELSE [ret |-> IF c.trie.entries[e].kind = "Deleted" THEN "NotFound" ELSE "Deleted",
           trie |-> Unlink(make_owned(DropValue(c.trie, c.node), c.node), c)]

delete(t, key) ==
  IF Root(t) = None THEN [trie |-> t, ret |-> "NotFound"]
  ELSE IF ~ Locks!check_has_no_prefix(t.generations[Current(t)].iterator_roots, key)
  THEN [trie |-> t, ret |-> "Locked"]
  ELSE DeleteAt(Walk(t, Root(t), key))

(* The nodes of the current generation below node i, in the order in which *)
(* delete_prefix takes them off its stack.  Entries were only ever handed  *)
(* out for these: borrowed children, and children of older generations,    *)
(* have none of this generation.                                           *)
OwnedBelow(t, i) ==
  LET kids(n) == IF n.children.kind = "Owned" /\ n.children.generation = n.generation
                 THEN [j \in DOMAIN n.children.list |-> n.children.list[j].index]
                 ELSE <<>>
      pop[n \in 0 .. Len(t.nodes)] ==
        IF n = 0 THEN [stack |-> <<i>>, order |-> <<>>]
        ELSE LET p == pop[n - 1]
             IN IF p.stack = <<>> THEN p
                ELSE [stack |-> Front(p.stack) \o kids(t.nodes[Last(p.stack)]),
                      order |-> Append(p.order, Last(p.stack))]
  IN pop[Len(t.nodes)].order

EntriesOf(t, nodes) == {t.nodes[i].value : i \in nodes} \ {None}

(* What the lock check and the walk of delete_prefix come to. *)
PrefixFound(c) ==
  [ret |-> IF Outcome(c) \in {"NoChild", "Diff"} THEN "NotFound" ELSE "Found",
   trie |-> c.trie, cursor |-> c]

PrefixCursor(t, key) ==
  IF Root(t) = None THEN [ret |-> "NotFound", trie |-> t]
  ELSE IF Locks!is_or_has_prefix(t.generations[Current(t)].iterator_roots, key)
  THEN [ret |-> "Locked", trie |-> t]
  ELSE PrefixFound(Walk(t, Root(t), key))

RemoveSubtree(t, trail) ==
  IF trail = <<>> THEN WithRoot(t, None) ELSE RemoveChild(t, trail)

DeleteBelow(p) ==
  IF p.ret # "Found" THEN p
  ELSE [ret |-> "Deleted",
        trie |-> RemoveSubtree(
                   Invalidate(p.trie, EntriesOf(p.trie, ToSet(OwnedBelow(p.trie, p.cursor.node)))),
                   p.cursor.trail)]

delete_prefix(t, key) == DeleteBelow(PrefixCursor(t, key))

(* The energy runs out after n nodes of the subtree: their entries are     *)
(* gone, and the tree is not fixed up.                                     *)
StopsIn(t, below) ==
  {Invalidate(t, EntriesOf(t, ToSet(SubSeq(below, 1, n)))) : n \in 0 .. Len(below) - 1}

StopsBelow(p) == IF p.ret # "Found" THEN {} ELSE StopsIn(p.trie, OwnedBelow(p.trie, p.cursor.node))

DeletePrefixStops(t, key) == StopsBelow(PrefixCursor(t, key))

-----------------------------------------------------------------------------
(* Generations.                                                            *)

new_generation(t) ==
  LET checkpoint == Checkpoint(Len(t.nodes), Len(t.values), Len(t.borrowed_values), Len(t.entries))
      root == t.nodes[Root(t)]
  IN IF Root(t) = None
     THEN [t EXCEPT !.generations = Append(@, Generation(None, checkpoint))]
     ELSE [t EXCEPT !.generations = Append(@, Generation(Len(t.nodes) + 1, checkpoint)),
                    !.nodes = Append(@, MigrateNode(root, root.generation + 1, Len(t.entries) + 1)),
                    !.entries = IF root.value = None THEN @
                                ELSE Append(@, MigrateEntry(@[root.value]))]

Truncate(s, n) == SubSeq(s, 1, IF n < Len(s) THEN n ELSE Len(s))

(* Make generation number root, counted from 0, the current one. *)
normalize(t, root) ==
  IF root + 1 >= Current(t) THEN t
  ELSE LET c == t.generations[root + 2].checkpoint
       IN [generations |-> Truncate(t.generations, root + 1),
           nodes |-> Truncate(t.nodes, c.num_nodes),
           values |-> Truncate(t.values, c.num_values),
           borrowed_values |-> Truncate(t.borrowed_values, c.num_borrowed_nodes),
           entries |-> Truncate(t.entries, c.num_entries)]

-----------------------------------------------------------------------------
(* Freezing.                                                               *)

freeze_value(t, value) ==
  IF value = None THEN [changed |-> FALSE, value |-> None]
  ELSE LET e == t.entries[value]
       IN [changed |-> ~ (e.kind = "ReadOnly" /\ e.borrowed), value |-> with_entry(t, value)]

(* The frozen form of a node, given that of the nodes below it.  A node    *)
(* that did not change, with children that did not, is the one it was      *)
(* thawed from.                                                            *)
FreezeNode(t, n, frozen) ==
  LET list == n.children.list
      v == freeze_value(t, n.value)
      owned == n.children.kind = "Owned"
      changed == v.changed \/ (owned /\ \E j \in DOMAIN list : frozen[list[j].index].changed)
  IN IF n.origin # None /\ ~ changed THEN [changed |-> FALSE, node |-> n.origin]
     ELSE [changed |-> TRUE,
           node |-> [value |-> v.value, path |-> n.path,
                     children |-> IF owned
                                  THEN [j \in DOMAIN list |->
                                          [key |-> list[j].key, node |-> frozen[list[j].index].node]]
                                  ELSE list]]

(* The persistent tree of the current generation, from trees of depth 0    *)
(* up.  No path is longer than there are nodes.                            *)
freeze(t) ==
  LET cut == [changed |-> TRUE, node |-> [value |-> None, path |-> <<>>, children |-> <<>>]]
      upTo[d \in 0 .. Len(t.nodes)] ==
        IF d = 0 THEN [i \in DOMAIN t.nodes |-> cut]
        ELSE [i \in DOMAIN t.nodes |-> FreezeNode(t, t.nodes[i], upTo[d - 1])]
  IN IF Root(t) = None THEN None ELSE upTo[Len(t.nodes)][Root(t)].node

-----------------------------------------------------------------------------
(* Iterators.                                                              *)

Iterator(root, node, key) ==
  [root |-> root, current_node |-> node, key |-> key, next_child |-> None,
   stack |-> <<>>, started |-> FALSE]

(* The iterator, and the lock on its root in the current generation. *)
IterFrom(c, key) ==
  LET chunks == Nibbles(key)
      roots == c.trie.generations[Current(c.trie)].iterator_roots
      path == Pre(chunks, Len(chunks) - Len(c.rest)) \o c.trie.nodes[c.node].path
  IN IF Outcome(c) \in {"NoChild", "Diff"}
     THEN [trie |-> c.trie, iterator |-> None, ret |-> "NoMatch"]
     ELSE IF Locks!insertFails(roots, key)
     THEN [trie |-> c.trie, iterator |-> None, ret |-> "TooMany"]
     ELSE [trie |-> [c.trie EXCEPT !.generations[Current(c.trie)].iterator_roots = Locks!insert(roots, key)],
           iterator |-> Iterator(key, c.node, path), ret |-> "Ok"]

iter(t, key) ==
  IF Root(t) = None THEN [trie |-> t, iterator |-> None, ret |-> "NoMatch"]
  ELSE IterFrom(Walk(t, Root(t), key), key)

(* Go down to the next child, whose parent owns its children in t. *)
VisitChild(c, t) ==
  LET it == c.iterator
      child == t.nodes[it.current_node].children.list[it.next_child]
  IN [c EXCEPT !.trie = t,
        !.iterator = [it EXCEPT !.stack = Append(@, [node |-> it.current_node,
                                                     next |-> it.next_child + 1,
                                                     len |-> Len(it.key)]),
                                !.next_child = None,
                                !.current_node = child.index,
                                !.key = @ \o <<child.key>> \o t.nodes[child.index].path]]

(* One round of the loop of next: give out the value of the node, go down  *)
(* to the next child, or pop back up.                                      *)
NextStep(c) ==
  LET it == c.iterator
      n == c.trie.nodes[it.current_node]
      up == Last(it.stack)
  IN IF c.done THEN c
     ELSE IF it.next_child = None
     THEN [c EXCEPT !.iterator.next_child = 1, !.entry = n.value, !.done = n.value # None]
     ELSE IF it.next_child <= Len(n.children.list)
     THEN VisitChild(c, make_owned(c.trie, it.current_node))
     ELSE IF it.stack = <<>> THEN [c EXCEPT !.done = TRUE]
     ELSE [c EXCEPT !.iterator = [it EXCEPT !.stack = Front(@), !.key = Pre(@, up.len),
                                            !.current_node = up.node, !.next_child = up.next]]

(* The loop passes every node below the iterator at most three times. *)
next(t, iterator, rounds) ==
  LET at[n \in 0 .. rounds] ==
        IF n = 0 THEN [trie |-> t, iterator |-> [iterator EXCEPT !.started = TRUE],
                       entry |-> None, done |-> FALSE]
        ELSE NextStep(at[n - 1])
  IN at[rounds]

(* What Iterator::get_key returns. *)
get_key(iterator) == IF iterator.started THEN Bytes(iterator.key) ELSE iterator.root

delete_iter(t, iterator) ==
  [t EXCEPT !.generations[Current(t)].iterator_roots = Locks!delete(@, iterator.root)]
=============================================================================
