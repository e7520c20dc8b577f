-------------------------- MODULE PersistentTrees --------------------------
(***************************************************************************)
(* The persistent trees of contract states between transactions: nodes that *)
(* are in memory, on disk or both (CachedRef), shared between trees through *)
(* links (low_level.rs, Link), stored to and loaded from an append only     *)
(* backing store (store_update, load), migrated to the store of the next    *)
(* protocol version (migrate), and serialised as a whole (serialize,        *)
(* deserialize).  Trees are used from several threads: the loop of          *)
(* store_update takes one node at a time, and other threads derive, cache   *)
(* and store trees that share its nodes in between.                         *)
(*                                                                         *)
(* The shape of a tree is fixed (how it changes is the subject of           *)
(* MutableTrie): Shape is a set of positions, each a sequence of keys, and   *)
(* PathLen gives the length of the stem of each.  A value is a sequence of   *)
(* bytes; up to INLINE_VALUE_LEN of them are kept in the node.  Hashes are   *)
(* the terms they are computed from, a reference is an index into the store. *)
(***************************************************************************)
EXTENDS Integers, Sequences, SequencesExt, FiniteSetsExt

CONSTANTS Shape, PathLen, Fresh,            \* Fresh: the contents of new trees
          Places, Values,                  \* where trees are changed, and to what
          Handles, Threads, Stores,        \* Stores: a sequence, oldest first
          INLINE_VALUE_LEN, StemBits, MaxRecords, MaxCells,
          Serializing,                     \* trees are also serialised
          KeepOld                          \* trees are used after their migration

VARIABLES mem,     \* links: heap (to nodes) and vals (to values)
          store,   \* the records of each backing store
          trees,   \* <<>>, or the root and the store of each handle
          jobs,    \* <<>>, or the tree, stack and ref_stack of each thread's store_update
          saved    \* the references that were handed out, and what was stored there

vars == <<mem, store, trees, jobs, saved>>

Marker == 255
INLINE_STEM_LENGTH == 2^StemBits - 1
Bit(n, k) == (n \div 2^k) % 2 = 1

-----------------------------------------------------------------------------
\* Values and nodes

Disk(r) == [tag |-> "Disk", ref |-> r, node |-> <<>>]
Memory(n) == [tag |-> "Memory", ref |-> 0, node |-> <<n>>]
Cached(r, n) == [tag |-> "Cached", ref |-> r, node |-> <<n>>]

\* InlineOrHashed::new
ValueHash(bytes) == <<Len(bytes), bytes>>
NewValue(bytes) == [tag |-> IF Len(bytes) <= INLINE_VALUE_LEN THEN "Inline" ELSE "Memory",
                    hash |-> ValueHash(bytes), bytes |-> bytes, ref |-> 0]
\* A record of the store, <<>> when there is none of this kind.
load_raw(s, r, kind) == IF r \in DOMAIN store[s] /\ store[s][r].kind = kind
                        THEN <<store[s][r]>> ELSE <<>>
\* InlineOrHashed::get
Bytes(v, s) == IF v.tag # "Disk" THEN v.bytes
               ELSE IF load_raw(s, v.ref, "value") = <<>> THEN <<-1>>
               ELSE load_raw(s, v.ref, "value")[1].bytes

\* Node::hash, over the hashes of its value and of its children
NodeHash(value, path, children) == <<value, path, Len(children), children>>

\* write_node_path_and_value_tag, read_node_path_and_value_tag
StemTag(len, has) ==
  LET mask == IF has THEN 2^StemBits ELSE 0
  IN  IF len <= INLINE_STEM_LENGTH THEN <<len + mask>> ELSE <<2^(StemBits + 1) + mask, len>>
ReadStem(tag) ==
  [path |-> IF Bit(tag[1], StemBits + 1) THEN tag[2] ELSE tag[1] % 2^StemBits,
   has |-> Bit(tag[1], StemBits)]

NoRecord == [kind |-> "none", hash |-> <<>>, tag |-> <<0>>, len |-> 0, bytes |-> <<>>,
             vhash |-> <<>>, vref |-> 0, children |-> <<>>, ref |-> 0]
ValueRecord(bytes) == [NoRecord EXCEPT !.kind = "value", !.bytes = bytes]
TopRecord(r) == [NoRecord EXCEPT !.kind = "top", !.ref = r]

\* Node::load: what a record says, with references for the children.
LoadedValue(rec) ==
  IF rec.len <= INLINE_VALUE_LEN
  THEN [tag |-> "Inline", hash |-> ValueHash(rec.bytes), bytes |-> rec.bytes, ref |-> 0]
  ELSE [tag |-> "Disk", hash |-> rec.vhash, bytes |-> <<>>, ref |-> rec.vref]
NodeOf(rec, stem) ==
  [hash |-> rec.hash, path |-> stem.path,
   value |-> IF stem.has THEN <<LoadedValue(rec)>> ELSE <<>>,
   children |-> [i \in DOMAIN rec.children |-> <<rec.children[i][1], Disk(rec.children[i][2])>>]]
Loaded(s, r) == LET raw == load_raw(s, r, "node")
                IN  [i \in DOMAIN raw |-> NodeOf(raw[i], ReadStem(raw[i].tag))]

\* CachedRef::get: the node with what its links hold, <<>> when it cannot be read.
WithContents(m, n) == [n EXCEPT !.value = [i \in DOMAIN @ |-> m.vals[@[i]]],
                                !.children = [i \in DOMAIN @ |-> <<@[i][1], m.heap[@[i][2]]>>]]
Get(m, c, s) == IF c.tag = "Disk" THEN Loaded(s, c.ref) ELSE <<WithContents(m, c.node[1])>>

\* The same node with links, new ones if it comes from the store.
WithLinks(m, n) ==
  [m |-> [heap |-> m.heap \o [i \in DOMAIN n.children |-> n.children[i][2]],
          vals |-> m.vals \o n.value],
   node |-> [n EXCEPT !.value = [i \in DOMAIN @ |-> Len(m.vals) + i],
                      !.children = [i \in DOMAIN @ |-> <<@[i][1], Len(m.heap) + i>>]]]
Owned(m, c, s) == IF c.tag # "Disk" THEN [m |-> m, node |-> c.node[1]]
                  ELSE WithLinks(m, Loaded(s, c.ref)[1])

HashOf(m, c, s) == Get(m, c, s)[1].hash
Hashed(m, n, s) ==
  [n EXCEPT !.hash = NodeHash([i \in DOMAIN n.value |-> m.vals[n.value[i]].hash], n.path,
                              [i \in DOMAIN n.children |->
                                 <<n.children[i][1], HashOf(m, m.heap[n.children[i][2]], s)>>])]

-----------------------------------------------------------------------------
\* What a tree means: its nodes with values and hashes, whatever is on disk.

ChildKeys(p) == SetToSortSeq({k \in 0 .. 3 : Append(p, k) \in Shape}, <)
RECURSIVE Meaning(_, _), View(_, _, _, _)
MeaningOf(bytes, path, below) ==
  [value |-> bytes, path |-> path, children |-> below,
   hash |-> NodeHash([i \in DOMAIN bytes |-> ValueHash(bytes[i])], path,
                     [i \in DOMAIN below |-> <<below[i][1], below[i][2].hash>>])]
Meaning(contents, p) ==
  MeaningOf(contents[p], PathLen[p],
            LET keys == ChildKeys(p)
            IN  [i \in DOMAIN keys |-> <<keys[i], Meaning(contents, Append(p, keys[i]))>>])
Unreadable == [value |-> <<>>, path |-> -1, children |-> <<>>, hash |-> <<>>]
ViewOf(m, n, s, depth) ==
  [value |-> [i \in DOMAIN n.value |-> Bytes(n.value[i], s)], path |-> n.path, hash |-> n.hash,
   children |-> [i \in DOMAIN n.children |->
                   <<n.children[i][1], View(m, n.children[i][2], s, depth - 1)>>]]
View(m, c, s, depth) == LET got == Get(m, c, s)
                        IN  IF depth = 0 \/ got = <<>> THEN Unreadable
                            ELSE ViewOf(m, got[1], s, depth)
Depth == 4

-----------------------------------------------------------------------------
\* Making trees

\* A child is linked, and a node is made of what is below it.
Linked(acc, k, r) == [m |-> [r.m EXCEPT !.heap = Append(@, r.root)],
                      links |-> Append(acc.links, <<k, Len(r.m.heap) + 1>>)]
Frozen(m, n, s) == [m |-> m, root |-> Memory(Hashed(m, n, s))]

\* freeze of a tree without origins: all of it in memory
WithValue(m, links, path, value) ==
  Frozen([m EXCEPT !.vals = @ \o [i \in DOMAIN value |-> NewValue(value[i])]],
         [hash |-> <<>>, path |-> path, children |-> links,
          value |-> [i \in DOMAIN value |-> Len(m.vals) + i]], Stores[1])
RECURSIVE Build(_, _, _)
Build(m, contents, p) ==
  LET below == FoldLeft(LAMBDA acc, k : Linked(acc, k, Build(acc.m, contents, Append(p, k))),
                        [m |-> m, links |-> <<>>], ChildKeys(p))
  IN  WithValue(below.m, below.links, PathLen[p], contents[p])

\* thaw, a change of the value at p, and freeze: nodes above p are rebuilt, and their
\* other children are copied; the node at p keeps its links.
\* Mutant of Changed: the value is written through the link
Changed_mut(m, n, v, s) ==
  IF n.value # <<>> THEN Frozen([m EXCEPT !.vals[n.value[1]] = NewValue(v)], n, s)
  ELSE Frozen([m EXCEPT !.vals = Append(@, NewValue(v))],
              [n EXCEPT !.value = <<Len(m.vals) + 1>>], s)
Changed(m, n, v, s) == Frozen([m EXCEPT !.vals = Append(@, NewValue(v))],
                              [n EXCEPT !.value = <<Len(m.vals) + 1>>], s)
RECURSIVE Derive(_, _, _, _, _)
DeriveBelow(m, n, s, p, v) ==
  FoldLeft(LAMBDA acc, child : Linked(acc, child[1],
             IF child[1] = p[1] THEN Derive(acc.m, acc.m.heap[child[2]], s, Tail(p), v)
             ELSE [m |-> acc.m, root |-> acc.m.heap[child[2]]]),
           [m |-> m, links |-> <<>>], n.children)
Rebuilt(all, n, s) == Frozen(all.m, [n EXCEPT !.children = all.links], s)
DeriveOwned(o, s, p, v) == IF p = <<>> THEN Changed(o.m, o.node, v, s)
                           ELSE Rebuilt(DeriveBelow(o.m, o.node, s, p, v), o.node, s)
Derive(m, c, s, p, v) == DeriveOwned(Owned(m, c, s), s, p, v)

CachedAt(o, r) == [m |-> o.m, root |-> Cached(r, o.node)]
load_and_cache(m, c, s) == IF c.tag # "Disk" THEN [m |-> m, root |-> c]
                           ELSE CachedAt(Owned(m, c, s), c.ref)
CachedValue(v, s) ==
  IF v.tag # "Disk" THEN v ELSE [v EXCEPT !.tag = "Cached", !.bytes = Bytes(v, s)]

\* Node::cache
RECURSIVE cache(_, _, _)
Placed(r, link) == [r.m EXCEPT !.heap[link] = r.root]
ValuesCached(m, n, s) == [m EXCEPT !.vals = [i \in DOMAIN @ |-> IF i \in ToSet(n.value)
                                                THEN CachedValue(@[i], s) ELSE @[i]]]
CacheBelow(m, n, s) ==
  FoldLeft(LAMBDA acc, child : Placed(cache(acc, acc.heap[child[2]], s), child[2]),
           ValuesCached(m, n, s), n.children)
cache(m, c, s) == LET r == load_and_cache(m, c, s)
                  IN  [m |-> CacheBelow(r.m, r.root.node[1], s), root |-> r.root]

-----------------------------------------------------------------------------
\* Storing

\* The value of a node: stored if it is only in memory, and no longer cached.
OnDisk(m, link, r) == [m EXCEPT !.vals[link].tag = "Disk", !.vals[link].bytes = <<>>,
                                !.vals[link].ref = r]
store_and_uncache(m, st, link) ==
  LET v == m.vals[link]
  IN  IF v.tag = "Inline" THEN [m |-> m, st |-> st]
      ELSE IF v.tag = "Memory"
      THEN [m |-> OnDisk(m, link, Len(st) + 1), st |-> Append(st, ValueRecord(v.bytes))]
      ELSE [m |-> OnDisk(m, link, v.ref), st |-> st]

\* The record of a node whose value is stored and whose children are at refs.
NodeRecord(m, n, refs) ==
  LET v == m.vals[n.value[1]]
      base == [NoRecord EXCEPT !.kind = "node", !.hash = n.hash,
                 !.tag = StemTag(n.path, n.value # <<>>),
                 !.children = [i \in DOMAIN n.children |-> <<n.children[i][1], refs[i]>>]]
  IN  IF n.value = <<>> THEN base
      ELSE IF v.tag = "Inline" THEN [base EXCEPT !.len = Len(v.bytes), !.bytes = v.bytes]
      ELSE [base EXCEPT !.len = Marker, !.vhash = v.hash, !.vref = v.ref]

\* store_node: the references of the children are popped from ref_stack.
\* Mutant of Popped: the references are taken in the order in which they were pushed
Popped_mut(refs, n) == [i \in 1 .. n |-> refs[Len(refs) - n + i]]
Popped(refs, n) == [i \in 1 .. n |-> refs[Len(refs) + 1 - i]]
WithNode(v, n, refs) ==
  [m |-> v.m, st |-> Append(v.st, NodeRecord(v.m, n, Popped(refs, Len(n.children)))),
   ref |-> Len(v.st) + 1, refs |-> SubSeq(refs, 1, Len(refs) - Len(n.children))]
store_node(m, st, n, refs) ==
  WithNode(IF n.value = <<>> THEN [m |-> m, st |-> st] ELSE store_and_uncache(m, st, n.value[1]),
           n, refs)

Links(n, done) == [i \in DOMAIN n.children |-> <<n.children[i][2], done>>]

-----------------------------------------------------------------------------
MigratedValue(st, v, s) ==
  IF v = <<>> \/ v[1].tag = "Inline" THEN [st |-> st, ref |-> 0]
  ELSE [st |-> Append(st, ValueRecord(Bytes(v[1], s))), ref |-> Len(st) + 1]
Redirected(m, n, refs) ==
  [m EXCEPT !.heap = FoldLeft(LAMBDA h, i : [h EXCEPT ![n.children[i][2]] = Disk(refs[i])], @,
                              [i \in DOMAIN n.children |-> i])]
MigratedNode(below, n, w) ==
  [m |-> Redirected(below.m, n, below.refs), ref |-> Len(w.st) + 1,
   st |-> Append(w.st, [NodeRecord(below.m, n, below.refs) EXCEPT !.vref = w.ref])]
WithValueMigrated(below, n, s) ==
  MigratedNode(below, n, MigratedValue(below.st, [i \in DOMAIN n.value |->
                                                    below.m.vals[n.value[i]]], s))
Pushed(r, refs) == [m |-> r.m, st |-> r.st, refs |-> <<r.ref>> \o refs]
RECURSIVE Migrated(_, _, _, _)
MigratedBelow(m, st, n, s) ==
  FoldRight(LAMBDA child, acc : Pushed(Migrated(acc.m, acc.st, acc.m.heap[child[2]], s), acc.refs),
            n.children, [m |-> m, st |-> st, refs |-> <<>>])
MigratedOwned(o, st, s) == WithValueMigrated(MigratedBelow(o.m, st, o.node, s), o.node, s)
Migrated(m, st, c, s) == MigratedOwned(Owned(m, c, s), st, s)

-----------------------------------------------------------------------------
\* Serialising: the nodes in breadth first order, each with the distance to its parent.

Item(n, offset, s) == [offset |-> offset, hash |-> n.hash, tag |-> StemTag(n.path, n.value # <<>>),
                       value |-> [i \in DOMAIN n.value |-> Bytes(n.value[i], s)],
                       keys |-> [i \in DOMAIN n.children |-> n.children[i][1]]]
RECURSIVE SerialLoop(_, _, _, _, _)
SerialNode(m, s, n, queue, counter, out) ==
  SerialLoop(m, s, Tail(queue) \o [i \in DOMAIN n.children |-> <<n.children[i][2], counter>>],
             counter + 1, Append(out, Item(n, counter - queue[1][2], s)))
SerialLoop(m, s, queue, counter, out) ==
  IF queue = <<>> THEN out
  ELSE SerialNode(m, s, Get(m, queue[1][1], s)[1], queue, counter, out)
serialize(m, c, s) == SerialLoop(m, s, <<<<c, 0>>>>, 0, <<>>)

Todo(items) == <<0>> \o FlattenSeq([i \in DOMAIN items |-> items[i].keys])
ChildrenOf(items, j) == SetToSortSeq({i \in DOMAIN items : items[i].offset > 0
                                                            /\ i - items[i].offset = j}, <)
ReadNode(m, item, j, todo, below) ==
  [hash |-> item.hash, path |-> ReadStem(item.tag).path,
   value |-> [i \in DOMAIN item.value |-> Len(m.vals) + j],
   children |-> [i \in DOMAIN below |-> <<todo[below[i]], Len(m.heap) + below[i]>>]]
WithNodes(m, items, nodes) ==
  [m |-> [heap |-> m.heap \o nodes,
          vals |-> m.vals \o [j \in DOMAIN items |-> NewValue(FlattenSeq(items[j].value))]],
   root |-> nodes[1]]
deserialize(m, items) ==
  LET todo == Todo(items)
  IN  WithNodes(m, items, [j \in DOMAIN items |->
                             Memory(ReadNode(m, items[j], j, todo, ChildrenOf(items, j)))])

-----------------------------------------------------------------------------
\* The actions

NoMem == [heap |-> <<>>, vals |-> <<>>]
Init == /\ mem = NoMem
        /\ store = [s \in ToSet(Stores) |-> <<>>]
        /\ trees = [h \in Handles |-> <<>>]
        /\ jobs = [t \in Threads |-> <<>>]
        /\ saved = {}

Free(h) == trees[h] = <<>> /\ \A g \in Handles : g < h => trees[g] # <<>>
Idle(h) == trees[h] # <<>> /\ \A t \in Threads : jobs[t] # <<>> => jobs[t][1].tree # h
Tree(root, s, contents) == <<[root |-> root, store |-> s, contents |-> contents]>>
Put(h, results, s, contents) ==
  \E r \in results : /\ mem' = r.m /\ Len(r.m.heap) + Len(r.m.vals) <= MaxCells
                      /\ trees' = [trees EXCEPT ![h] = Tree(r.root, s, contents)]

\* from_iterator, or the freeze of a new contract's state
Create(h) == /\ Free(h) /\ trees = [g \in Handles |-> <<>>] /\ saved = {}
             /\ Put(h, {Build(mem, Fresh, <<>>)}, Stores[1], Fresh)
             /\ UNCHANGED <<store, jobs, saved>>

\* A transaction changes a value of the state of g.
Update(g, h, p, v) ==
  /\ trees[g] # <<>> /\ Free(h)
  /\ trees[g][1].contents[p] # <<v>>
  /\ Put(h, {Derive(mem, trees[g][1].root, trees[g][1].store, p, v)}, trees[g][1].store,
         [trees[g][1].contents EXCEPT ![p] = <<v>>])
  /\ UNCHANGED <<store, jobs, saved>>

\* PersistentState::cache
Cache(h) ==
  /\ Idle(h)
  /\ Put(h, {cache(mem, trees[h][1].root, trees[h][1].store)}, trees[h][1].store,
         trees[h][1].contents)
  /\ UNCHANGED <<store, jobs, saved>>

\* store_persistent_tree_v1: at once when the root is stored already
Room(s) == Len(store[s]) < MaxRecords
Save(s, st, root, contents) ==
  /\ store' = [store EXCEPT ![s] = Append(st, TopRecord(root))]
  /\ saved' = saved \cup {[store |-> s, ref |-> Len(st) + 1, contents |-> contents]}
StoreStored(h) ==
  /\ Idle(h) /\ Room(trees[h][1].store) /\ trees[h][1].root.tag # "Memory"
  /\ \A x \in saved : x.contents # trees[h][1].contents \/ x.store # trees[h][1].store
  /\ Save(trees[h][1].store, store[trees[h][1].store], trees[h][1].root.ref, trees[h][1].contents)
  /\ UNCHANGED <<mem, trees, jobs>>
StoreBegin(t, h) ==
  /\ jobs[t] = <<>> /\ Idle(h) /\ Room(trees[h][1].store) /\ trees[h][1].root.tag = "Memory"
  /\ jobs' = [jobs EXCEPT ![t] = <<[tree |-> h, refs |-> <<>>,
                                    stack |-> Links(trees[h][1].root.node[1], FALSE)]>>]
  /\ UNCHANGED <<mem, store, trees, saved>>

\* One iteration of the loop of store_update_buf: a node that has a reference, a node whose
\* children have been visited, and one whose children have not.
Top(j) == Last(j.stack)[1]
Go(t, st, refs) == jobs' = [jobs EXCEPT ![t][1].stack = st, ![t][1].refs = refs]
Marked(stack, n) == Append(Front(stack), <<Last(stack)[1], TRUE>>) \o Links(n, FALSE)
VisitStored(t, j, c) ==
  /\ c.tag # "Memory"
  /\ Go(t, Front(j.stack), Append(j.refs, c.ref))
  /\ UNCHANGED <<mem, store>>
VisitAgain(t, j, c, s) ==
  /\ c.tag = "Memory" /\ Last(j.stack)[2]
  /\ \E r \in {store_node(mem, store[s], c.node[1], j.refs)} :
       /\ mem' = [r.m EXCEPT !.heap[Top(j)] = Disk(r.ref)]
       /\ store' = [store EXCEPT ![s] = r.st]
       /\ Go(t, Front(j.stack), Append(r.refs, r.ref))
VisitFirst(t, j, c) ==
  /\ c.tag = "Memory" /\ ~Last(j.stack)[2]
  /\ Go(t, Marked(j.stack, c.node[1]), j.refs)
  /\ UNCHANGED <<mem, store>>
StoreStep(t) ==
  /\ jobs[t] # <<>> /\ jobs[t][1].stack # <<>>
  /\ \E j \in {jobs[t][1]} : \E c \in {mem.heap[Top(j)]} :
       VisitStored(t, j, c) \/ VisitAgain(t, j, c, trees[j.tree][1].store) \/ VisitFirst(t, j, c)
  /\ UNCHANGED <<trees, saved>>

\* The root and the tag before it are stored; the root itself stays in memory.
StoreEnd(t) ==
  /\ jobs[t] # <<>> /\ jobs[t][1].stack = <<>>
  /\ \E tree \in {trees[jobs[t][1].tree][1]} :
       \E r \in {store_node(mem, store[tree.store], tree.root.node[1], jobs[t][1].refs)} :
         mem' = r.m /\ Save(tree.store, r.st, r.ref, tree.contents)
  /\ jobs' = [jobs EXCEPT ![t] = <<>>]
  /\ UNCHANGED trees

\* load_persistent_tree_v1
Load(h, x) ==
  /\ Free(h)
  /\ \A g \in Handles : trees[g] # <<>> => trees[g][1].contents # x.contents
                                           \/ trees[g][1].store # x.store
  /\ Put(h, {[m |-> mem, root |-> Disk(store[x.store][x.ref].ref)]}, x.store, x.contents)
  /\ UNCHANGED <<store, jobs, saved>>

\* migrate_persistent_tree_v1, to the next store.  The trees of the old store are freed
\* unless they are still used.
Migrate(g, h) ==
  /\ trees[g] # <<>> /\ \A t \in Threads : jobs[t] = <<>>
  /\ \E i \in 1 .. Len(Stores) - 1 :
       /\ Stores[i] = trees[g][1].store /\ Room(Stores[i + 1])
       /\ \A k \in Handles : trees[k] # <<>> => trees[k][1].store = Stores[i]
       /\ IF KeepOld THEN Free(h) ELSE h = g
       /\ \E r \in {Migrated(mem, store[Stores[i + 1]], trees[g][1].root, Stores[i])} :
            /\ mem' = r.m /\ Len(r.m.heap) + Len(r.m.vals) <= MaxCells
            /\ store' = [store EXCEPT ![Stores[i + 1]] = r.st]
            /\ trees' = [k \in Handles |->
                           IF k = h THEN Tree(Disk(r.ref), Stores[i + 1], trees[g][1].contents)
                           ELSE IF KeepOld THEN trees[k] ELSE <<>>]
  /\ UNCHANGED <<jobs, saved>>

\* serialize_persistent_state_v1 and deserialize_persistent_state_v1
Copy(g, h) ==
  /\ Serializing /\ trees[g] # <<>> /\ Free(h)
  /\ Put(h, {deserialize(mem, serialize(mem, trees[g][1].root, trees[g][1].store))},
         trees[g][1].store, trees[g][1].contents)
  /\ UNCHANGED <<store, jobs, saved>>

\* free_persistent_state_v1
Drop(h) == /\ Idle(h) /\ saved # {} /\ \A g \in Handles : trees[g] # <<>>
           /\ trees' = [trees EXCEPT ![h] = <<>>]
           /\ UNCHANGED <<mem, store, jobs, saved>>

\* The node stops and starts again: memory is lost, and a store_update with it.
Crash == /\ saved # {} /\ mem # NoMem
         /\ mem' = NoMem
         /\ trees' = [h \in Handles |-> <<>>] /\ jobs' = [t \in Threads |-> <<>>]
         /\ UNCHANGED <<store, saved>>

Step(t) == StoreStep(t) \/ StoreEnd(t)
Next == \/ \E h \in Handles : Create(h) \/ Cache(h) \/ StoreStored(h) \/ Drop(h)
        \/ \E g, h \in Handles, p \in Places, v \in Values : Update(g, h, p, v)
        \/ \E g, h \in Handles : Migrate(g, h) \/ Copy(g, h)
        \/ \E t \in Threads : Step(t) \/ \E h \in Handles : StoreBegin(t, h)
        \/ \E h \in Handles, x \in saved : Load(h, x)
        \/ Crash

Spec == Init /\ [][Next]_vars /\ \A t \in Threads : WF_vars(Step(t))

-----------------------------------------------------------------------------
\* Properties

\* A tree keeps its contents, and the hash of every node stays the hash of what is below it:
\* whatever is stored, cached, derived from it or migrated, one operation at a time, reading
\* it through its store gives the values it was made with.
TreesKeepTheirContents ==
  \A h \in Handles : trees[h] # <<>> =>
    View(mem, trees[h][1].root, trees[h][1].store, Depth) = Meaning(trees[h][1].contents, <<>>)

\* A reference that store_persistent_tree_v1 returned loads the tree that was stored, at any
\* later time and without the memory of the process: whatever other trees that share its
\* nodes were stored before and since.  One thread stores at a time.
StoredTreesLoad ==
  \A x \in saved :
    View(NoMem, Disk(store[x.store][x.ref].ref), x.store, Depth) = Meaning(x.contents, <<>>)

\* "a cached (on disk) node has children and values that are cached or on disk", and what is
\* cached is what is on disk: store_update relies on it when it does not look below a node
\* that has a reference.
StoredNodesAreClosed ==
  \A h \in Handles : trees[h] # <<>> => LET s == trees[h][1].store IN
    \A c \in {mem.heap[i] : i \in DOMAIN mem.heap} \cup {trees[h][1].root} : c.tag = "Cached" =>
      /\ \A i \in DOMAIN c.node[1].children : mem.heap[c.node[1].children[i][2]].tag # "Memory"
      /\ \A i \in DOMAIN c.node[1].value : mem.vals[c.node[1].value[i]].tag # "Memory"
      /\ View(mem, c, s, Depth) = View(NoMem, Disk(c.ref), s, Depth)

=============================================================================
