------------------------- MODULE MutableTrie_proofs -------------------------
(***************************************************************************)
(* The operations of MutableTrie keep the invariant of LowLevelTrie_proofs *)
(* on every trie, and so do the actions of an execution.  From that: what  *)
(* older generations can reach survives truncation, no operation changes   *)
(* an older generation, and no index leaves its arena.                     *)
(***************************************************************************)
EXTENDS MutableTrie, LowLevelTrie_proofs

(* An iterator within the nodes from lo + 1 to hi. *)
IsIterator(it, lo, hi) ==
  /\ it = [root |-> it.root, current_node |-> it.current_node, key |-> it.key,
           next_child |-> it.next_child, stack |-> it.stack, started |-> it.started]
  /\ it.current_node \in lo + 1 .. hi
  /\ it.next_child = None \/ it.next_child \in Nat \ {0}
  /\ IsSeq(it.stack)
  /\ \A s \in 1 .. Len(it.stack) : it.stack[s].node \in lo + 1 .. hi /\ it.stack[s].next \in Nat \ {0}

(* An entry id handed out in a generation, and an iterator of one. *)
IdOK(t, e) ==
  /\ e.gen \in 1 .. Current(t)
  /\ e.id \in Low(t, e.gen).num_entries + 1 .. Limit(t, e.gen).num_entries

HeldOK(t, x) ==
  /\ x = [it |-> x.it, gen |-> x.gen, given |-> x.given, snap |-> x.snap]
  /\ x.gen \in 1 .. Current(t)
  /\ IsIterator(x.it, Low(t, x.gen).num_nodes, Limit(t, x.gen).num_nodes)

IdsInv == \A e \in ids : IdOK(trie, e)

ItersInv ==
  /\ iters = [i \in Iters |-> iters[i]]
  /\ \A i \in Iters : iters[i] # None => HeldOK(trie, iters[i])

PersistentInv == persistent # None => WellFormed(persistent)

Inv == TrieInv(trie) /\ IdsInv /\ ItersInv /\ PersistentInv

(* A write through an entry id. *)
LEMMA WriteToGood ==
  ASSUME NEW t, TrieInv(t), NEW x, IsEntry(t, x), NEW v
  PROVE  Good(t, WriteTo(t, x, v)) /\ SameTree(t, WriteTo(t, x, v))
<1>1. PICK u : u = get_mut(t, x)
  OBVIOUS
<1>2. Good(t, u) /\ SameTree(t, u) /\ (u.entries[x] # Deleted => u.entries[x].kind = "Mutable")
  BY <1>1, GetMutGood
<1>3. CASE u.entries[x] = Deleted
  BY <1>1, <1>2, <1>3 DEF WriteTo
<1>4. CASE u.entries[x] # Deleted
  <2>1. PICK w : w = [u EXCEPT !.values[u.entries[x].idx] = v]
    OBVIOUS
  <2>2. TrieInv(u) /\ IsTrie(t) /\ Bounds(t) /\ Bounds(u)
    BY <1>2, Now DEF Good
  <2>3. IsEntry(u, x)
    <3>1. Lo(u) = Lo(t)
      BY <1>2 DEF SameTree, Lo, Low, Current
    <3>2. Len(t.entries) <= Len(u.entries)
      BY <1>2 DEF SameTree
    <3> QED  BY <2>2, <3>1, <3>2 DEF IsEntry, Bounds
  <2>4. Good(u, w) /\ SameTree(u, w)
    BY <1>2, <1>4, <2>1, <2>2, <2>3, SetValueGood
  <2>5. Good(t, w)
    BY <1>2, <2>2, <2>4, GoodThen
  <2>6. SameTree(t, w)
    <3>1. Len(t.entries) <= Len(w.entries)
      <4>1. Bounds(w)
        BY <2>5, Now DEF Good
      <4>2. Len(t.entries) <= Len(u.entries) /\ Len(u.entries) <= Len(w.entries)
        BY <1>2, <2>4 DEF SameTree
      <4>3. Len(t.entries) \in Nat /\ Len(u.entries) \in Nat /\ Len(w.entries) \in Nat
        BY <2>2, <4>1 DEF Bounds
      <4> QED  BY <4>2, <4>3
    <3> QED  BY <1>2, <2>4, <3>1 DEF SameTree
  <2>7. WriteTo(t, x, v) = w
    BY <1>1, <1>4, <2>1 DEF WriteTo
  <2> QED  BY <2>5, <2>6, <2>7
<1> QED  BY <1>3, <1>4

-----------------------------------------------------------------------------
(* Deleting a key.                                                         *)

(* The value of a node of this generation is an entry of it. *)
LEMMA NodeValue ==
  ASSUME NEW t, TrieInv(t), NEW i \in Mine(t), t.nodes[i].value # None
  PROVE  IsEntry(t, t.nodes[i].value)
<1>1. /\ NodeOK(t.nodes[i], Len(t.nodes), Len(t.entries), Current(t))
      /\ OwnNode(t.nodes[i], Current(t), Lo(t))
  BY MyNode
<1>2. t.nodes[i].value \in 1 .. Len(t.entries) /\ t.nodes[i].value > Lo(t).num_entries
  BY <1>1 DEF NodeOK, OwnNode
<1>3. Len(t.entries) \in Nat /\ Lo(t).num_entries \in Nat
  BY Now DEF Bounds
<1> QED  BY <1>2, <1>3 DEF IsEntry

(* A node of the current generation stays one. *)
LEMMA MineKept ==
  ASSUME NEW t, NEW u, TrieInv(t), TrieInv(u), Keeps(t, u), NEW i \in Mine(t)
  PROVE  i \in Mine(u)
<1>1. Lo(u) = Lo(t) /\ Len(t.nodes) <= Len(u.nodes)
  BY DEF Keeps
<1>2. Len(t.nodes) \in Nat /\ Len(u.nodes) \in Nat /\ Lo(t).num_nodes \in Nat
  BY Now DEF Bounds
<1> QED  BY <1>1, <1>2 DEF Mine

(* Steps in a row that keep the tree. *)
Steps(t, u) == Good(t, u) /\ Keeps(t, u)

(* Steps that keep the tree compose. *)
LEMMA StepsThen ==
  ASSUME NEW t, NEW u, NEW v, TrieInv(t), Steps(t, u), Steps(u, v)
  PROVE  Steps(t, v)
<1>1. TrieInv(u) /\ TrieInv(v) /\ IsTrie(t)
  BY Now DEF Steps, Good
<1>2. Good(t, v)
  BY <1>1, GoodThen DEF Steps
<1>3. Keeps(t, v)
  BY <1>1, KeepsThen DEF Steps
<1> QED  BY <1>2, <1>3 DEF Steps

(* Steps that keep the tree, and then one that may not. *)
LEMMA StepsGood ==
  ASSUME NEW t, NEW u, NEW v, TrieInv(t), Steps(t, u), Good(u, v)
  PROVE  Good(t, v)
<1>1. IsTrie(t) /\ Good(t, u)
  BY Now DEF Steps
<1> QED  BY <1>1, GoodThen

(* Nodes and trails survive steps that keep the tree. *)
LEMMA StepsInv ==
  ASSUME NEW t, NEW u, TrieInv(t), Steps(t, u)
  PROVE  /\ TrieInv(u)
         /\ \A i \in Mine(t) : i \in Mine(u)
         /\ \A trail, node : TrailOK(t, trail, node) => TrailOK(u, trail, node)
<1>1. TrieInv(u) /\ Keeps(t, u)
  BY DEF Steps, Good
<1>2. \A i \in Mine(t) : i \in Mine(u)
  BY <1>1, MineKept
<1>3. ASSUME NEW trail, NEW node, TrailOK(t, trail, node)
      PROVE  TrailOK(u, trail, node)
  BY <1>1, <1>3, TrailAfter
<1> QED  BY <1>1, <1>2, <1>3

(* Changing the value of a node. *)
LEMMA NodeValueGood ==
  ASSUME NEW t, TrieInv(t), NEW i \in Mine(t), NEW x, x = None \/ IsEntry(t, x),
         NEW u, u = [t EXCEPT !.nodes[i].value = x]
  PROVE  Steps(t, u)
<1>1. PICK m : m = [t.nodes[i] EXCEPT !.value = x]
  OBVIOUS
<1>2. /\ t.nodes[i] = MutableNode(t.nodes[i].generation, t.nodes[i].value, t.nodes[i].path,
                                  t.nodes[i].children, t.nodes[i].origin)
      /\ IsSeq(t.nodes[i].path)
  BY MyNode
<1>3. m = MutableNode(t.nodes[i].generation, x, t.nodes[i].path, t.nodes[i].children, t.nodes[i].origin)
  BY <1>1, <1>2, NodeFields
<1>4. /\ m.generation = t.nodes[i].generation /\ m.value = x /\ m.path = t.nodes[i].path
      /\ m.children = t.nodes[i].children /\ m.origin = t.nodes[i].origin
  BY <1>3 DEF MutableNode
<1>5. m = MutableNode(m.generation, m.value, m.path, m.children, m.origin)
  BY <1>3, <1>4
<1>6. Cosmetic(t, t.nodes[i], m)
  BY <1>2, <1>4, <1>5 DEF Cosmetic
<1>7. u = [t EXCEPT !.nodes[i] = m]
  BY <1>1, Zenon
<1>8. Good(t, u) /\ Keeps(t, u)
  BY <1>6, <1>7, ChangeNodeGood
<1> QED  BY <1>8 DEF Steps

(* A node loses its value. *)
LEMMA DropValueGood ==
  ASSUME NEW t, TrieInv(t), NEW i \in Mine(t), t.nodes[i].value # None
  PROVE  Steps(t, DropValue(t, i))
<1>1. PICK e, a, b, u : /\ e = t.nodes[i].value /\ a = Invalidate(t, {e}) /\ b = Touch(a, {i})
                        /\ u = [b EXCEPT !.nodes[i].value = None]
  OBVIOUS
<1>2. Steps(t, a)
  <2>1. \A x \in {e} : IsEntry(t, x)
    BY <1>1, NodeValue
  <2>2. Good(t, a) /\ SameTree(t, a)
    BY <1>1, <2>1, InvalidateGood
  <2> QED  BY <2>2, KeepsSameTree DEF Steps
<1>3. TrieInv(a) /\ i \in Mine(a)
  BY <1>2, StepsInv
<1>4. Steps(a, b)
  BY <1>1, <1>3, TouchNode DEF Steps
<1>5. TrieInv(b) /\ i \in Mine(b)
  BY <1>3, <1>4, StepsInv
<1>6. Steps(b, u)
  BY <1>1, <1>5, NodeValueGood
<1>7. Steps(t, b)
  BY <1>2, <1>4, StepsThen
<1>8. Steps(t, u)
  BY <1>6, <1>7, StepsThen
<1>9. u = DropValue(t, i)
  BY <1>1, Zenon DEF DropValue
<1> QED  BY <1>8, <1>9

(* A cursor: the walk went from the root to the node. *)
CursorOK(c) == TrieInv(c.trie) /\ TrailOK(c.trie, c.trail, c.node) /\ IsSeq(c.rest)

(* The end of MutableTrie::delete. *)
LEMMA DeleteAtGood ==
  ASSUME NEW c, CursorOK(c)
  PROVE  Good(c.trie, DeleteAt(c).trie)
<1>1. PICK t : t = c.trie
  OBVIOUS
<1>2. TrieInv(t) /\ TrailOK(t, c.trail, c.node)
  BY <1>1 DEF CursorOK
<1>3. CASE Outcome(c) # "Equal" \/ c.trie.nodes[c.node].value = None
  <2>1. DeleteAt(c).trie = c.trie
    BY <1>3 DEF DeleteAt
  <2> QED  BY <1>1, <1>2, <2>1, GoodSame
<1>4. CASE Outcome(c) = "Equal" /\ c.trie.nodes[c.node].value # None
  <2>1. PICK a, b, u : a = DropValue(t, c.node) /\ b = make_owned(a, c.node) /\ u = Unlink(b, c)
    OBVIOUS
  <2>2. DeleteAt(c).trie = u
    BY <1>1, <1>4, <2>1 DEF DeleteAt
  <2>3. c.node \in Mine(t)
    BY <1>2, TrailNode
  <2>4. Steps(t, a)
    BY <1>1, <1>2, <1>4, <2>1, <2>3, DropValueGood
  <2>5. TrieInv(a) /\ c.node \in Mine(a) /\ TrailOK(a, c.trail, c.node)
    BY <1>2, <2>3, <2>4, StepsInv
  <2>6. OwnedAt(a, b, c.node)
    BY <2>1, <2>5, MakeOwnedGood
  <2>7. Steps(a, b) /\ Own(b.nodes[c.node])
    BY <2>6 DEF OwnedAt, Steps
  <2>8. TrieInv(b) /\ TrailOK(b, c.trail, c.node)
    BY <2>5, <2>7, StepsInv
  <2>9. Good(b, u)
    BY <2>1, <2>7, <2>8, UnlinkGood
  <2>10. Steps(t, b)
    BY <1>2, <2>4, <2>7, StepsThen
  <2>11. Good(t, u)
    BY <1>2, <2>9, <2>10, StepsGood
  <2> QED  BY <1>1, <2>2, <2>11
<1> QED  BY <1>3, <1>4

-----------------------------------------------------------------------------
(* Inserting a key.                                                        *)

(* A stem is cut at the front. *)
LEMMA ShortenGood ==
  ASSUME NEW t, TrieInv(t), NEW i \in Mine(t), NEW n \in Nat, NEW u, u = Shorten(t, i, n)
  PROVE  Steps(t, u) /\ Len(u.nodes) = Len(t.nodes) /\ u.entries = t.entries
<1>1. PICK p : p = SubSeq(t.nodes[i].path, n + 2, Len(t.nodes[i].path))
  OBVIOUS
<1>0. PICK m : m = [t.nodes[i] EXCEPT !.path = p]
  OBVIOUS
<1>2. /\ t.nodes[i] = MutableNode(t.nodes[i].generation, t.nodes[i].value, t.nodes[i].path,
                                  t.nodes[i].children, t.nodes[i].origin)
      /\ IsSeq(t.nodes[i].path)
  BY MyNode
<1>3. m = MutableNode(t.nodes[i].generation, t.nodes[i].value, p, t.nodes[i].children, t.nodes[i].origin)
  BY <1>0, <1>2, NodeFields
<1>4. /\ m.generation = t.nodes[i].generation /\ m.value = t.nodes[i].value /\ m.path = p
      /\ m.children = t.nodes[i].children /\ m.origin = t.nodes[i].origin
  BY <1>3 DEF MutableNode
<1>5. m = MutableNode(m.generation, m.value, m.path, m.children, m.origin)
  BY <1>3, <1>4
<1>6. IsSeq(p)
  <2>1. n + 2 \in Nat \ {0}
    OBVIOUS
  <2> QED  BY <1>1, <1>2, <2>1, SeqSuffix
<1>7. Cosmetic(t, t.nodes[i], m)
  BY <1>4, <1>5, <1>6 DEF Cosmetic
<1>8. u = [t EXCEPT !.nodes[i] = m]
  BY <1>0, <1>1, Zenon DEF Shorten
<1>9. Good(t, u) /\ Keeps(t, u) /\ u.entries = t.entries
  BY <1>7, <1>8, ChangeNodeGood
<1>10. Len(u.nodes) = Len(t.nodes)
  <2>1. t = [generations |-> t.generations, entries |-> t.entries, values |-> t.values,
             borrowed_values |-> t.borrowed_values, nodes |-> t.nodes]
    BY Now, TrieFields
  <2>2. u.nodes = Upd(t.nodes, i, m)
    BY <1>8, <2>1 DEF Upd
  <2>3. IsSeq(t.nodes)
    BY Now DEF IsTrie
  <2> QED  BY <2>2, <2>3, SeqExcept
<1> QED  BY <1>9, <1>10 DEF Steps

(* The binary search gives a place in the list or behind it. *)
LEMMA PlaceFacts ==
  ASSUME NEW L, IsSeq(L), NEW key
  PROVE  Place(L, key) \in 1 .. Len(L) + 1
<1>1. PICK S : S = {j \in DOMAIN L : L[j].key < key}
  OBVIOUS
<1>2. DOMAIN L = 1 .. Len(L) /\ Len(L) \in Nat
  BY SeqDomain
<1>3. S \subseteq 1 .. Len(L)
  BY <1>1, <1>2
<1>4. IsFiniteSet(1 .. Len(L)) /\ Cardinality(1 .. Len(L)) = Len(L)
  <2>1. 1 \in Int /\ Len(L) \in Int
    BY <1>2
  <2>2. /\ IsFiniteSet(1 .. Len(L))
        /\ Cardinality(1 .. Len(L)) = IF 1 > Len(L) THEN 0 ELSE Len(L) - 1 + 1
    BY <2>1, FS_Interval
  <2> QED  BY <1>2, <2>2
<1>5. IsFiniteSet(S) /\ Cardinality(S) <= Len(L)
  BY <1>3, <1>4, FS_Subset
<1>6. Cardinality(S) \in Nat
  BY <1>5, FS_CardinalityType
<1>7. Place(L, key) = 1 + Cardinality(S)
  BY <1>1 DEF Place
<1> QED  BY <1>2, <1>5, <1>6, <1>7

(* The trie with the new entry, the walk to where it goes, and what is     *)
(* known of the node there.                                                *)
Inserting(c, t, f) ==
  /\ TrieInv(t) /\ TrailOK(t, c.trail, c.node) /\ IsSeq(c.rest)
  /\ f = follow_stem(c.rest, t.nodes[c.node].path)
  /\ IsEntry(t, Len(t.entries))
  /\ f.how = "StemIsPrefix" => Own(t.nodes[c.node])

(* What is known where a key is inserted. *)
LEMMA InsertingFacts ==
  ASSUME NEW c, NEW t, NEW f, Inserting(c, t, f)
  PROVE  /\ c.node \in Mine(t)
         /\ t.nodes[Root(t)].generation = Current(t) - 1
         /\ f.common \in 0 .. Len(c.rest) /\ f.common \in Nat /\ Len(c.rest) \in Nat
         /\ f.how \in {"Equal", "KeyIsPrefix", "StemIsPrefix", "Diff"}
         /\ IsSeq(SubSeq(c.rest, f.common + 2, Len(c.rest)))
         /\ IsSeq(Pre(c.rest, f.common))
<1>1. TrieInv(t) /\ TrailOK(t, c.trail, c.node) /\ IsSeq(c.rest) /\ f = follow_stem(c.rest, t.nodes[c.node].path)
  BY DEF Inserting
<1>2. c.node \in Mine(t) /\ IsSeq(t.nodes[c.node].path)
  BY <1>1, TrailNode, MyNode
<1>3. NowNode(t, Root(t))
  <2>1. Root(t) # None
    BY <1>1 DEF TrailOK
  <2>2. PICK up, pos : Hangs(t, up, pos)
    BY <1>1, Hanging
  <2> QED  BY <2>1, <2>2 DEF Hangs
<1>4. f.common \in 0 .. Len(c.rest) /\ f.how \in {"Equal", "KeyIsPrefix", "StemIsPrefix", "Diff"}
  BY <1>1, <1>2, FollowStem
<1>5. Len(c.rest) \in Nat
  BY <1>1, SeqDomain
<1>6. f.common \in Nat /\ f.common + 2 \in Nat \ {0}
  BY <1>4, <1>5
<1>7. IsSeq(SubSeq(c.rest, f.common + 2, Len(c.rest)))
  BY <1>1, <1>6, SeqSuffix
<1>8. IsSeq(Pre(c.rest, f.common))
  BY <1>1, <1>4, SeqPrefix DEF Pre
<1> QED  BY <1>2, <1>3, <1>4, <1>5, <1>6, <1>7, <1>8 DEF NowNode

(* The node that insert makes for a new key is a leaf. *)
LEMMA LeafIsLeaf ==
  ASSUME NEW t, NEW g, g = Current(t) - 1, NEW p, IsSeq(p), NEW s, IsEntry(t, Len(s.entries)),
         NEW n, n = Leaf(s, g, p)
  PROVE  IsLeaf(t, n)
<1>1. n = MutableNode(g, Len(s.entries), p, Owned(g, <<>>), None)
  BY DEF Leaf
<1>2. n.value = Len(s.entries) /\ n.path = p
  BY <1>1 DEF MutableNode
<1> QED  BY <1>1, <1>2 DEF IsLeaf

(* The node that insert makes above others has a list of its own. *)
LEMMA InnerIsInner ==
  ASSUME NEW t, NEW g, g = Current(t) - 1, NEW p, IsSeq(p), NEW e, e = None \/ IsEntry(t, e), NEW L,
         NEW n, n = MutableNode(g, e, p, Owned(g, L), None)
  PROVE  IsInner(t, n, L)
<1>1. n.value = e /\ n.path = p
  BY DEF MutableNode
<1> QED  BY <1>1 DEF IsInner

(* The key ends within a stem, which is split. *)
LEMMA InsertStem ==
  ASSUME NEW c, NEW t, NEW f, Inserting(c, t, f), f.how = "KeyIsPrefix"
  PROVE  Good(t, InsertAtCursor(c, t, f))
<1>1. /\ TrieInv(t) /\ TrailOK(t, c.trail, c.node) /\ IsSeq(c.rest) /\ IsEntry(t, Len(t.entries))
  BY DEF Inserting
<1>2. c.node \in Mine(t) /\ t.nodes[Root(t)].generation = Current(t) - 1 /\ f.common \in Nat
  BY InsertingFacts
<1>3. PICK g, x, L, a, n, u :
        /\ g = t.nodes[Root(t)].generation
        /\ x = Child(t.nodes[c.node].path[f.common + 1], c.node)
        /\ L = <<x>>
        /\ a = Shorten(t, c.node, f.common)
        /\ n = MutableNode(g, Len(t.entries), c.rest, Owned(g, L), None)
        /\ u = Repoint(AddNode(a, n), c.trail, Len(t.nodes) + 1)
  OBVIOUS
<1>4. InsertAtCursor(c, t, f) = u
  <2>1. f.how # "Equal" /\ f.how # "StemIsPrefix" /\ f.how # "Diff"
    OBVIOUS
  <2> QED  BY <1>3, <2>1, Zenon DEF InsertAtCursor
<1>5. Steps(t, a) /\ Len(a.nodes) = Len(t.nodes) /\ a.entries = t.entries
  BY <1>1, <1>2, <1>3, ShortenGood
<1>6. TrieInv(a) /\ c.node \in Mine(a) /\ TrailOK(a, c.trail, c.node)
  BY <1>1, <1>2, <1>5, StepsInv
<1>7. Current(a) = Current(t) /\ Lo(a) = Lo(t)
  BY <1>5 DEF Steps, Keeps
<1>8. IsEntry(a, Len(t.entries))
  BY <1>1, <1>5, <1>7 DEF IsEntry
<1>9. IsInner(a, n, L)
  <2>1. g = Current(a) - 1
    BY <1>2, <1>3, <1>7
  <2> QED  BY <1>1, <1>3, <1>8, <2>1, InnerIsInner
<1>10. WrapList(a, L, c.node)
  <2>1. c.node \in 1 .. Len(a.nodes)
    BY <1>6, MyNode
  <2>2. IsSeq(L) /\ Len(L) = 1 /\ L[1] = x
    BY <1>3, SeqSmall
  <2>3. DOMAIN L = {1}
    BY <2>2, SeqDomain
  <2>4. x.index = c.node /\ x = Child(x.key, x.index)
    BY <1>3 DEF Child
  <2> QED  BY <2>1, <2>2, <2>3, <2>4 DEF WrapList, IsList
<1>11. Good(a, u)
  BY <1>3, <1>5, <1>6, <1>9, <1>10, WrapGood
<1>12. Good(t, u)
  BY <1>1, <1>5, <1>11, StepsGood
<1> QED  BY <1>4, <1>12

(* The key goes on where no child does. *)
LEMMA InsertChild ==
  ASSUME NEW c, NEW t, NEW f, Inserting(c, t, f), f.how = "StemIsPrefix"
  PROVE  Good(t, InsertAtCursor(c, t, f))
<1>1. /\ TrieInv(t) /\ IsEntry(t, Len(t.entries)) /\ Own(t.nodes[c.node])
  BY DEF Inserting
<1>2. /\ c.node \in Mine(t) /\ t.nodes[Root(t)].generation = Current(t) - 1
      /\ IsSeq(SubSeq(c.rest, f.common + 2, Len(c.rest)))
  BY InsertingFacts
<1>3. PICK g, k, p, L, n, u :
        /\ g = t.nodes[Root(t)].generation
        /\ k = c.rest[f.common + 1]
        /\ p = Place(t.nodes[c.node].children.list, k)
        /\ L = InsertAt(t.nodes[c.node].children.list, p, Child(k, Len(t.nodes) + 1))
        /\ n = Leaf(t, g, SubSeq(c.rest, f.common + 2, Len(c.rest)))
        /\ u = AddNode(SetList(t, c.node, L), n)
  OBVIOUS
<1>4. InsertAtCursor(c, t, f) = u
  <2>1. f.how # "Equal" /\ f.how # "KeyIsPrefix" /\ f.how # "Diff"
    OBVIOUS
  <2> QED  BY <1>3, <2>1, Zenon DEF InsertAtCursor, SetList
<1>5. p \in 1 .. Len(t.nodes[c.node].children.list) + 1
  BY <1>1, <1>2, <1>3, MyNode, PlaceFacts
<1>6. IsLeaf(t, n)
  BY <1>1, <1>2, <1>3, LeafIsLeaf
<1>7. Good(t, u)
  BY <1>1, <1>2, <1>3, <1>5, <1>6, AddChildGood
<1> QED  BY <1>4, <1>7

IsPair(L, a, b) == L = <<a, b>>
(* A list of two children. *)
LEMMA PairFacts ==
  ASSUME NEW a, NEW b, NEW L, IsPair(L, a, b)
  PROVE  IsSeq(L) /\ Len(L) = 2 /\ L[1] = a /\ L[2] = b
BY SeqSmall, Zenon DEF IsPair

(* The key leaves a stem, which is split in two. *)
LEMMA InsertFork ==
  ASSUME NEW c, NEW t, NEW f, Inserting(c, t, f), f.how = "Diff"
  PROVE  Good(t, InsertAtCursor(c, t, f))
<1>1. /\ TrieInv(t) /\ TrailOK(t, c.trail, c.node) /\ IsSeq(c.rest) /\ IsEntry(t, Len(t.entries))
  BY DEF Inserting
<1>2. /\ c.node \in Mine(t) /\ t.nodes[Root(t)].generation = Current(t) - 1 /\ f.common \in Nat
      /\ IsSeq(SubSeq(c.rest, f.common + 2, Len(c.rest))) /\ IsSeq(Pre(c.rest, f.common))
  BY InsertingFacts
<1>3. PICK g, x, y, L, a, m, b, n, u :
        /\ g = t.nodes[Root(t)].generation
        /\ x = Child(t.nodes[c.node].path[f.common + 1], c.node)
        /\ y = Child(c.rest[f.common + 1], Len(t.nodes) + 1)
        /\ L = IF y.key < x.key THEN <<y, x>> ELSE <<x, y>>
        /\ a = Shorten(t, c.node, f.common)
        /\ m = Leaf(t, g, SubSeq(c.rest, f.common + 2, Len(c.rest)))
        /\ b = AddNode(a, m)
        /\ n = MutableNode(g, None, Pre(c.rest, f.common), Owned(g, L), None)
        /\ u = Repoint(AddNode(b, n), c.trail, Len(t.nodes) + 1 + 1)
  OBVIOUS
<1>4. InsertAtCursor(c, t, f) = u
  <2>1. f.how # "Equal" /\ f.how # "KeyIsPrefix" /\ f.how # "StemIsPrefix"
    OBVIOUS
  <2> QED  BY <1>3, <2>1, Zenon DEF InsertAtCursor
<1>5. Steps(t, a) /\ Len(a.nodes) = Len(t.nodes) /\ a.entries = t.entries
  BY <1>1, <1>2, <1>3, ShortenGood
<1>6. TrieInv(a) /\ c.node \in Mine(a) /\ TrailOK(a, c.trail, c.node)
  BY <1>1, <1>2, <1>5, StepsInv
<1>7. Current(a) = Current(t) /\ Lo(a) = Lo(t)
  BY <1>5 DEF Steps, Keeps
<1>8. IsEntry(a, Len(t.entries))
  BY <1>1, <1>5, <1>7 DEF IsEntry
<1>9. g = Current(a) - 1
  BY <1>2, <1>3, <1>7
<1>10. IsLeaf(a, m)
  BY <1>2, <1>3, <1>8, <1>9, LeafIsLeaf
<1>11. /\ Steps(a, b) /\ Len(a.nodes) + 1 \in Mine(b) /\ NowNode(b, Len(a.nodes) + 1)
       /\ \A i, j \in Nat : ~ Edge(b, i, j, Len(a.nodes) + 1)
  BY <1>3, <1>6, <1>10, AddLeafGood DEF Steps
<1>12. Len(b.nodes) = Len(t.nodes) + 1
  <2>1. IsTrie(a)
    BY <1>6, Now
  <2>2. b = AddNode(a, m)
    BY <1>3
  <2>3. Len(b.nodes) = Len(a.nodes) + 1
    BY <2>1, <2>2, AddNodeFacts
  <2> QED  BY <1>5, <2>3
<1>13. TrieInv(b) /\ c.node \in Mine(b) /\ TrailOK(b, c.trail, c.node)
  BY <1>6, <1>11, StepsInv
<1>14. Current(b) = Current(a)
  BY <1>11 DEF Steps, Keeps
<1>15. IsInner(b, n, L)
  <2>1. g = Current(b) - 1
    BY <1>9, <1>14
  <2> QED  BY <1>2, <1>3, <2>1, InnerIsInner
<1>16. Len(t.nodes) \in Nat
  BY <1>1, Now DEF Bounds
<1>17. c.node \in 1 .. Len(t.nodes)
  BY <1>1, <1>2, MyNode
<1>18. Free(b, Len(t.nodes) + 1)
  <2>1. Root(a) # None /\ Root(b) = Root(a)
    BY <1>6, <1>11 DEF TrailOK, Steps, Keeps
  <2>2. PICK up, pos : Hangs(a, up, pos)
    BY <1>6, Hanging
  <2>3. Root(a) \in Mine(a)
    BY <2>1, <2>2 DEF Hangs
  <2>4. Root(a) \in 1 .. Len(t.nodes)
    BY <1>5, <1>6, <2>3, MyNode
  <2>5. Len(t.nodes) + 1 # Root(b)
    BY <1>16, <2>1, <2>4
  <2> QED  BY <1>5, <1>11, <2>5 DEF Free
<1>19. WrapList(b, L, c.node)
  <2>1. IsSeq(L) /\ Len(L) = 2 /\ ((L[1] = x /\ L[2] = y) \/ (L[1] = y /\ L[2] = x))
    <3>1. IsPair(L, y, x) \/ IsPair(L, x, y)
      BY <1>3 DEF IsPair
    <3> QED  BY <3>1, PairFacts
  <2>2. DOMAIN L = 1 .. 2
    BY <2>1, SeqDomain
  <2>3. x.index = c.node /\ x = Child(x.key, x.index) /\ y.index = Len(t.nodes) + 1 /\ y = Child(y.key, y.index)
    BY <1>3 DEF Child
  <2>4. c.node # Len(t.nodes) + 1 /\ c.node \in 1 .. Len(b.nodes) /\ Len(t.nodes) + 1 \in 1 .. Len(b.nodes)
    BY <1>12, <1>16, <1>17
  <2>5. IsList(L, Len(b.nodes))
    BY <2>1, <2>2, <2>3, <2>4 DEF IsList
  <2>6. \A i, j \in DOMAIN L : L[i].index = L[j].index => i = j
    BY <2>1, <2>2, <2>3, <2>4
  <2>7. \A j \in DOMAIN L : L[j].index = c.node \/ Free(b, L[j].index)
    BY <1>18, <2>1, <2>2, <2>3
  <2> QED  BY <2>5, <2>6, <2>7 DEF WrapList
<1>20. Good(b, u)
  BY <1>3, <1>12, <1>13, <1>15, <1>19, WrapGood
<1>21. Steps(t, b)
  BY <1>1, <1>5, <1>11, StepsThen
<1>22. Good(t, u)
  BY <1>1, <1>20, <1>21, StepsGood
<1> QED  BY <1>4, <1>22

(* The end of MutableTrie::insert, in all cases. *)
LEMMA InsertAtCursorGood ==
  ASSUME NEW c, NEW t, NEW f, Inserting(c, t, f)
  PROVE  Good(t, InsertAtCursor(c, t, f))
<1>1. CASE f.how = "Equal"
  <2>1. TrieInv(t) /\ c.node \in Mine(t) /\ IsEntry(t, Len(t.entries))
    BY InsertingFacts DEF Inserting
  <2>2. PICK x, u : x = Len(t.entries) /\ u = [t EXCEPT !.nodes[c.node].value = x]
    OBVIOUS
  <2>3. InsertAtCursor(c, t, f) = u
    BY <1>1, <2>2, Zenon DEF InsertAtCursor
  <2>4. Steps(t, u)
    BY <2>1, <2>2, NodeValueGood
  <2> QED  BY <2>3, <2>4 DEF Steps
<1> QED  BY <1>1, InsertingFacts, InsertStem, InsertChild, InsertFork

(* An entry of this generation stays one. *)
LEMMA EntryKept ==
  ASSUME NEW t, NEW u, TrieInv(t), Good(t, u), NEW e, IsEntry(t, e)
  PROVE  IsEntry(u, e)
<1>1. TrieInv(u) /\ Current(u) = Current(t) /\ Low(u, Current(t)) = Low(t, Current(t)) /\ Below(Lengths(t), Lengths(u))
  BY DEF Good, Frame
<1>2. Lo(u) = Lo(t)
  BY <1>1 DEF Lo
<1>3. Len(t.entries) <= Len(u.entries)
  <2>1. Lengths(t).num_entries = Len(t.entries) /\ Lengths(u).num_entries = Len(u.entries)
    BY <1>1, Now, LengthsFacts
  <2> QED  BY <1>1, <2>1 DEF Below
<1>4. Len(t.entries) \in Nat /\ Len(u.entries) \in Nat /\ Lo(t).num_entries \in Nat
  BY <1>1, Now DEF Bounds
<1> QED  BY <1>2, <1>3, <1>4 DEF IsEntry

(* The walk ended at a node that owns its children, if it was to go on. *)
Landed(c) ==
  /\ CursorOK(c)
  /\ follow_stem(c.rest, c.trie.nodes[c.node].path).how = "StemIsPrefix" => Own(c.trie.nodes[c.node])

(* A call gave a trie and, perhaps, an entry. *)
Returns(t, r) == Good(t, r.trie) /\ (r.entry # None => IsEntry(r.trie, r.entry))

(* The nodes that a walk passed belong to the current generation. *)
LEMMA PassedMine ==
  ASSUME NEW c, CursorOK(c)
  PROVE  \A i \in Passed(c) : i \in Mine(c.trie)
<1>1. TrailOK(c.trie, c.trail, c.node)
  BY DEF CursorOK
<1>2. /\ IsSeq(c.trail) /\ c.node \in Mine(c.trie)
      /\ \A j \in 1 .. Len(c.trail) : c.trail[j].node \in Mine(c.trie)
  BY <1>1, TrailNode
<1>3. DOMAIN c.trail = 1 .. Len(c.trail)
  BY <1>2, SeqDomain
<1> QED  BY <1>2, <1>3 DEF Passed

(* insert from where the walk ended. *)
LEMMA InsertFromGood ==
  ASSUME NEW c, Landed(c), NEW v
  PROVE  Returns(c.trie, InsertFrom(c, v))
<1>1. PICK t, a : t = c.trie /\ a = Touch(t, Passed(c))
  OBVIOUS
<1>2. /\ CursorOK(c) /\ TrieInv(t) /\ TrailOK(t, c.trail, c.node) /\ IsSeq(c.rest)
      /\ follow_stem(c.rest, t.nodes[c.node].path).how = "StemIsPrefix" => Own(t.nodes[c.node])
  BY <1>1 DEF Landed, CursorOK
<1>3. c.node \in Mine(t) /\ c.node \in 1 .. Len(t.nodes)
  BY <1>2, TrailNode, MyNode
<1>4. \A i \in Passed(c) : i \in Mine(t)
  BY <1>1, <1>2, PassedMine
<1>5. /\ Steps(t, a)
      /\ \A i \in 1 .. Len(t.nodes) : /\ a.nodes[i].value = t.nodes[i].value
                                      /\ a.nodes[i].path = t.nodes[i].path
                                      /\ a.nodes[i].children = t.nodes[i].children
  BY <1>1, <1>2, <1>4, TouchGood DEF Steps
<1>6. TrieInv(a) /\ TrailOK(a, c.trail, c.node) /\ c.node \in Mine(a)
  BY <1>2, <1>3, <1>5, StepsInv
<1>7. a.nodes[c.node].path = t.nodes[c.node].path /\ a.nodes[c.node].children = t.nodes[c.node].children
  BY <1>3, <1>5
<1>8. a.nodes[c.node].generation = t.nodes[c.node].generation
  BY <1>3, <1>5 DEF Steps, Keeps
<1>9. InsertFrom(c, v) = InsertOrReplace(c, a, v)
  BY <1>1 DEF InsertFrom
<1>10. PICK e, r : e = a.nodes[c.node].value /\ r = InsertOrReplace(c, a, v)
  OBVIOUS
<1>11. CASE Outcome(c) = "Equal" /\ e # None
  <2>1. r.trie = Replace(a, c.node, e, v) /\ r.entry = e
    BY <1>10, <1>11 DEF InsertOrReplace
  <2>2. r.trie = set_entry_value(a, e, v)
    BY <2>1 DEF Replace
  <2>3. IsEntry(a, e)
    BY <1>6, <1>10, <1>11, NodeValue
  <2>4. Good(a, r.trie)
    BY <1>6, <2>2, <2>3, SetEntryValueGood
  <2>5. Good(t, r.trie)
    BY <1>2, <1>5, <2>4, StepsGood
  <2>6. IsEntry(r.trie, r.entry)
    BY <1>6, <2>1, <2>3, <2>4, EntryKept
  <2> QED  BY <1>1, <1>9, <1>10, <2>5, <2>6 DEF Returns
<1>12. CASE ~ (Outcome(c) = "Equal" /\ e # None)
  <2>1. PICK b, f : b = NewEntry(a, v) /\ f = follow_stem(c.rest, a.nodes[c.node].path)
    OBVIOUS
  <2>2. r.trie = InsertAtCursor(c, b, f) /\ r.entry = Len(a.entries) + 1
    BY <1>10, <1>12, <2>1 DEF InsertOrReplace
  <2>3. Good(a, b) /\ SameTree(a, b) /\ Len(b.entries) = Len(a.entries) + 1
    BY <1>6, <2>1, NewEntryGood
  <2>4. Steps(a, b)
    BY <1>6, <2>3, KeepsSameTree DEF Steps
  <2>5. TrieInv(b) /\ TrailOK(b, c.trail, c.node)
    BY <1>6, <2>4, StepsInv
  <2>6. b.nodes = a.nodes
    BY <2>3 DEF SameTree
  <2>7. IsEntry(b, Len(b.entries))
    <3>1. Lo(b) = Lo(a)
      BY <2>4 DEF Steps, Keeps
    <3>2. Lo(a).num_entries \in 0 .. Len(a.entries) /\ Len(a.entries) \in Nat
      BY <1>6, Now DEF Bounds
    <3> QED  BY <2>3, <3>1, <3>2 DEF IsEntry
  <2>8. f.how = "StemIsPrefix" => Own(b.nodes[c.node])
    BY <1>2, <1>7, <1>8, <2>1, <2>6 DEF Own
  <2>9. Inserting(c, b, f)
    BY <1>2, <2>1, <2>5, <2>6, <2>7, <2>8 DEF Inserting
  <2>10. Good(b, r.trie)
    BY <2>2, <2>9, InsertAtCursorGood
  <2>11. Steps(t, b)
    BY <1>2, <1>5, <2>4, StepsThen
  <2>12. Good(t, r.trie)
    BY <1>2, <2>10, <2>11, StepsGood
  <2>13. IsEntry(r.trie, r.entry)
    BY <2>2, <2>3, <2>5, <2>7, <2>10, EntryKept
  <2> QED  BY <1>1, <1>9, <1>10, <2>12, <2>13 DEF Returns
<1> QED  BY <1>11, <1>12

(* Keys are sequences of bytes, and so are their chunks. *)
IsKey(key) == Len(key) \in Nat

(* A key has two chunks for every byte. *)
LEMMA NibblesSeq ==
  ASSUME NEW key, IsKey(key)
  PROVE  IsSeq(Nibbles(key)) /\ Len(Nibbles(key)) = 2 * Len(key)
<1>1. 2 * Len(key) \in Nat
  BY DEF IsKey
<1>2. PICK f : f = Nibbles(key)
  OBVIOUS
<1>3. f = [i \in 1 .. 2 * Len(key) |-> f[i]]
  <2>1. f = [i \in 1 .. 2 * Len(key) |->
               IF i % 2 = 1 THEN key[(i + 1) \div 2] \div 16 ELSE key[i \div 2] % 16]
    BY <1>2, Zenon DEF Nibbles
  <2> QED  BY <2>1, Zenon
<1>4. IsSeq(f) /\ Len(f) = 2 * Len(key)
  BY <1>1, <1>3, SeqFun
<1> QED  BY <1>2, <1>4

(* The first key of a tree. *)
LEMMA InsertRootGood ==
  ASSUME NEW t, TrieInv(t), NEW key, IsKey(key), IsEntry(t, Len(t.entries))
  PROVE  Good(t, InsertRoot(t, key))
<1>1. PICK g, p, n, a, r, u : /\ g = Current(t) - 1 /\ p = Nibbles(key) /\ n = Leaf(t, g, p)
                              /\ a = AddNode(t, n) /\ r = Len(t.nodes) + 1 /\ u = WithRoot(a, r)
  OBVIOUS
<1>2. InsertRoot(t, key) = u
  BY <1>1 DEF InsertRoot
<1>3. IsSeq(p)
  BY <1>1, NibblesSeq
<1>4. IsLeaf(t, n)
  BY <1>1, <1>3, LeafIsLeaf
<1>5. /\ Good(t, a) /\ Keeps(t, a)
      /\ \A i, j \in Nat : ~ Edge(a, i, j, r)
      /\ r \in Mine(a) /\ NowNode(a, r)
  BY <1>1, <1>4, AddLeafGood
<1>6. TrieInv(a)
  BY <1>5 DEF Good
<1>7. Good(a, u)
  BY <1>1, <1>5, <1>6, RerootGood
<1>8. Good(t, u)
  BY <1>5, <1>7, Now, GoodThen
<1> QED  BY <1>2, <1>8

-----------------------------------------------------------------------------
(* The walk down the tree.                                                 *)

(* The trail to a child. *)
LEMMA TrailDown ==
  ASSUME NEW t, TrieInv(t), NEW trail, NEW node, TrailOK(t, trail, node),
         NEW j, NEW ch, Edge(t, node, j, ch), NEW s, s = [node |-> node, child |-> j],
         NEW new, new = Append(trail, s)
  PROVE  TrailOK(t, new, ch)
<1>1. IsSeq(trail) /\ Len(trail) \in Nat /\ node \in Mine(t) /\ NowNode(t, node)
  BY TrailNode
<1>2. PICK K : K = Len(trail) + 1
  OBVIOUS
<1>3. K \in Nat \ {0} /\ K = Len(trail) + 1 /\ 1 .. K = 1 .. Len(trail) + 1
  BY <1>1, <1>2
<1>4. IsSeq(new) /\ Len(new) = K /\ new[K] = s /\ \A i \in 1 .. Len(trail) : new[i] = trail[i]
  BY <1>1, <1>2, SeqAppend
<1>5. PICK st : st = [i \in 1 .. K |-> Stop(trail, node, i)]
  OBVIOUS
<1>6. /\ \A i \in 1 .. K : st[i] \in Mine(t) /\ NowNode(t, st[i])
      /\ \A i \in 1 .. Len(trail) : Edge(t, trail[i].node, trail[i].child, st[i + 1])
      /\ \A i, k \in 1 .. K : i < k => st[i] # st[k]
      /\ Root(t) # None /\ st[1] = Root(t)
      /\ st[K] = node /\ \A i \in 1 .. Len(trail) : st[i] = trail[i].node
  <2>1. /\ \A i \in 1 .. K : st[i] = Stop(trail, node, i)
        /\ \A i \in 1 .. Len(trail) : i \in 1 .. K /\ i + 1 \in 1 .. K /\ i # K
        /\ 1 \in 1 .. K /\ K \in 1 .. K
    BY <1>3, <1>5
  <2>2. st[K] = node /\ \A i \in 1 .. Len(trail) : st[i] = trail[i].node
    BY <1>2, <2>1 DEF Stop
  <2> QED  BY <1>3, <2>1, <2>2 DEF TrailOK
<1>7. /\ Stop(new, ch, K + 1) = ch
      /\ \A i \in 1 .. K : Stop(new, ch, i) = st[i]
  <2>1. Stop(new, ch, K + 1) = ch
    BY <1>4 DEF Stop
  <2>2. ASSUME NEW i \in 1 .. K
        PROVE  Stop(new, ch, i) = st[i]
    <3>1. Stop(new, ch, i) = new[i].node
      BY <1>3, <1>4 DEF Stop
    <3>2. CASE i = K
      BY <1>4, <1>6, <3>1, <3>2
    <3>3. CASE i # K
      <4>1. i \in 1 .. Len(trail)
        BY <1>3, <3>3
      <4> QED  BY <1>4, <1>6, <3>1, <4>1
    <3> QED  BY <3>2, <3>3
  <2> QED  BY <2>1, <2>2
<1>8. PICK up, pos : Hangs(t, up, pos)
  BY Hanging
<1>9. ch \in Mine(t) /\ j \in Nat /\ ch \in Nat /\ node \in Nat /\ node # 0
  <2>1. node \in 1 .. Len(t.nodes)
    BY <1>1, MyNode
  <2> QED  BY <2>1, EdgeFacts
<1>10. up[ch] = node /\ NowNode(t, ch)
  BY <1>1, <1>8, <1>9 DEF Hangs
<1>11. \A i \in 1 .. K : st[i] # ch
  <2> SUFFICES ASSUME NEW i \in 1 .. K, st[i] = ch
               PROVE  FALSE
    OBVIOUS
  <2>1. CASE i = 1
    <3>1. up[ch] = 0
      BY <1>6, <1>8, <2>1 DEF Hangs
    <3> QED  BY <1>9, <1>10, <3>1
  <2>2. CASE i # 1
    <3>1. i - 1 \in 1 .. Len(trail) /\ i - 1 \in 1 .. K /\ K \in 1 .. K /\ i - 1 < K /\ (i - 1) + 1 = i
      BY <1>3, <2>2
    <3>2. Edge(t, trail[i - 1].node, trail[i - 1].child, ch)
      BY <1>6, <3>1
    <3>3. trail[i - 1].node \in Nat /\ trail[i - 1].child \in Nat
      BY <3>2, EdgeFacts
    <3>4. up[ch] = trail[i - 1].node
      BY <1>8, <1>9, <3>2, <3>3 DEF Hangs
    <3>5. st[i - 1] = st[K]
      BY <1>6, <1>10, <3>1, <3>4
    <3> QED  BY <1>6, <3>1, <3>5
  <2> QED  BY <2>1, <2>2
<1>12. \A i \in 1 .. Len(new) + 1 : i = K + 1 \/ i \in 1 .. K
  BY <1>3, <1>4
<1>13. \A i \in 1 .. Len(new) + 1 : Stop(new, ch, i) \in Mine(t) /\ NowNode(t, Stop(new, ch, i))
  BY <1>6, <1>7, <1>9, <1>10, <1>12
<1>14. \A i \in 1 .. Len(new) : Edge(t, new[i].node, new[i].child, Stop(new, ch, i + 1))
  <2> SUFFICES ASSUME NEW i \in 1 .. Len(new)
               PROVE  Edge(t, new[i].node, new[i].child, Stop(new, ch, i + 1))
    OBVIOUS
  <2>1. CASE i = K
    BY <1>4, <1>7, <2>1
  <2>2. CASE i # K
    <3>1. i \in 1 .. Len(trail) /\ i + 1 \in 1 .. K
      BY <1>3, <1>4, <2>2
    <3> QED  BY <1>4, <1>6, <1>7, <3>1
  <2> QED  BY <2>1, <2>2
<1>15. \A i, k \in 1 .. Len(new) + 1 : i < k => Stop(new, ch, i) # Stop(new, ch, k)
  <2> SUFFICES ASSUME NEW i \in 1 .. Len(new) + 1, NEW k \in 1 .. Len(new) + 1, i < k
               PROVE  Stop(new, ch, i) # Stop(new, ch, k)
    OBVIOUS
  <2>1. i \in 1 .. K
    BY <1>3, <1>4
  <2>2. CASE k = K + 1
    BY <1>7, <1>11, <2>1, <2>2
  <2>3. CASE k # K + 1
    <3>1. k \in 1 .. K
      BY <1>12, <2>3
    <3> QED  BY <1>6, <1>7, <2>1, <3>1
  <2> QED  BY <2>2, <2>3
<1>16. Stop(new, ch, 1) = Root(t) /\ Root(t) # None
  BY <1>3, <1>6, <1>7
<1> QED  BY <1>4, <1>13, <1>14, <1>15, <1>16 DEF TrailOK

(* What holds after n rounds: the walk is stuck, or stops, or has taken at *)
(* least n chunks.                                                         *)
Goes(c) == follow_stem(c.rest, c.trie.nodes[c.node].path).how = "StemIsPrefix"
Round(t, K, c, n) ==
  /\ Steps(t, c.trie) /\ CursorOK(c)
  /\ c.stuck \in BOOLEAN
  /\ c.stuck => Own(c.trie.nodes[c.node])
  /\ ~ c.stuck /\ Goes(c) => Len(c.rest) <= K - n

(* A step to a child takes at least one chunk. *)
LEMMA DescendRound ==
  ASSUME NEW t, TrieInv(t), NEW K \in Nat, NEW n \in Nat, NEW c, Round(t, K, c, n), ~ c.stuck, Goes(c)
  PROVE  Round(t, K, Descend(c, make_owned(c.trie, c.node)), n + 1)
<1>1. PICK s, u : s = c.trie /\ u = make_owned(s, c.node)
  OBVIOUS
<1>2. /\ Steps(t, s) /\ TrieInv(s) /\ TrailOK(s, c.trail, c.node) /\ IsSeq(c.rest) /\ Len(c.rest) <= K - n
      /\ follow_stem(c.rest, s.nodes[c.node].path).how = "StemIsPrefix"
  BY <1>1 DEF Round, CursorOK, Goes
<1>3. c.node \in Mine(s) /\ c.node \in 1 .. Len(s.nodes) /\ IsSeq(s.nodes[c.node].path)
  BY <1>2, TrailNode, MyNode
<1>4. OwnedAt(s, u, c.node)
  BY <1>1, <1>2, <1>3, MakeOwnedGood
<1>5. Steps(s, u) /\ Own(u.nodes[c.node]) /\ u.nodes[c.node].path = s.nodes[c.node].path
  BY <1>3, <1>4 DEF OwnedAt, Steps
<1>6. TrieInv(u) /\ TrailOK(u, c.trail, c.node) /\ c.node \in Mine(u)
  BY <1>2, <1>3, <1>5, StepsInv
<1>7. Steps(t, u)
  BY <1>2, <1>5, StepsThen
<1>8. PICK kids, len, hits, d :
        /\ kids = u.nodes[c.node].children.list /\ len = Len(u.nodes[c.node].path)
        /\ hits = {j \in DOMAIN kids : kids[j].key = c.rest[len + 1]}
        /\ d = Descend(c, u)
  OBVIOUS
<1>9. CASE hits = {}
  <2>1. d = Cursor(u, c.node, c.rest, c.trail, TRUE)
    BY <1>8, <1>9 DEF Descend
  <2>2. d.trie = u /\ d.node = c.node /\ d.rest = c.rest /\ d.trail = c.trail /\ d.stuck = TRUE
    BY <2>1 DEF Cursor
  <2>3. CursorOK(d)
    BY <1>2, <1>6, <2>2 DEF CursorOK
  <2>4. Round(t, K, d, n + 1)
    BY <1>5, <1>7, <2>2, <2>3 DEF Round
  <2> QED  BY <1>1, <1>8, <2>4
<1>10. CASE hits # {}
  <2>1. PICK hit : hit = CHOOSE j \in hits : TRUE
    OBVIOUS
  <2>2. hit \in hits
    BY <1>10, <2>1
  <2>3. hit \in DOMAIN kids
    BY <1>8, <2>2
  <2>4. PICK ch, st, new, rest : /\ ch = kids[hit].index /\ st = [node |-> c.node, child |-> hit]
                                 /\ new = Append(c.trail, st) /\ rest = SubSeq(c.rest, len + 2, Len(c.rest))
    OBVIOUS
  <2>5. d = Cursor(u, ch, rest, new, FALSE)
    BY <1>8, <1>10, <2>1, <2>4 DEF Descend
  <2>6. d.trie = u /\ d.node = ch /\ d.rest = rest /\ d.trail = new /\ d.stuck = FALSE
    BY <2>5 DEF Cursor
  <2>7. Edge(u, c.node, hit, ch)
    <3>1. hit \in 1 .. Len(kids)
      BY <1>5, <1>6, <1>8, <2>3, OwnList
    <3> QED  BY <1>5, <1>6, <1>8, <2>4, <3>1, OwnList
  <2>8. TrailOK(u, new, ch)
    BY <1>6, <2>4, <2>7, TrailDown
  <2>9. len \in Nat /\ len < Len(c.rest) /\ Len(c.rest) \in Nat /\ len + 2 \in Nat \ {0}
    <3>1. len = Len(s.nodes[c.node].path)
      BY <1>5, <1>8
    <3>2. len < Len(c.rest)
      BY <1>2, <1>3, <3>1, FollowStem
    <3>3. len \in Nat /\ Len(c.rest) \in Nat
      BY <1>2, <1>3, <3>1, SeqDomain
    <3> QED  BY <3>2, <3>3
  <2>10. IsSeq(rest) /\ Len(rest) = IF len + 2 <= Len(c.rest) THEN Len(c.rest) - (len + 2) + 1 ELSE 0
    BY <1>2, <2>4, <2>9, SeqSuffix
  <2>11. Len(rest) <= K - (n + 1)
    BY <1>2, <2>9, <2>10
  <2>12. CursorOK(d)
    BY <1>6, <2>6, <2>8, <2>10 DEF CursorOK
  <2>13. Round(t, K, d, n + 1)
    BY <1>7, <2>6, <2>11, <2>12 DEF Round
  <2> QED  BY <1>1, <1>8, <2>13
<1> QED  BY <1>9, <1>10

(* One round of the walk. *)
LEMMA AdvanceRound ==
  ASSUME NEW t, TrieInv(t), NEW K \in Nat, NEW n \in Nat, NEW c, Round(t, K, c, n)
  PROVE  Round(t, K, Advance(c), n + 1)
<1>1. CASE c.stuck \/ ~ Goes(c)
  <2>1. Advance(c) = c
    BY <1>1 DEF Advance, Goes
  <2>2. Round(t, K, c, n + 1)
    BY <1>1 DEF Round
  <2> QED  BY <2>1, <2>2
<1>2. CASE ~ c.stuck /\ Goes(c)
  <2>1. Advance(c) = Descend(c, make_owned(c.trie, c.node))
    BY <1>2 DEF Advance, Goes
  <2> QED  BY <1>2, <2>1, DescendRound
<1> QED  BY <1>1, <1>2

WalkFun(f, K, c) == f = [n \in 0 .. K |-> IF n = 0 THEN c ELSE Advance(f[n - 1])]

(* The walk is defined for any number of rounds. *)
LEMMA WalkExists ==
  ASSUME NEW c, NEW K \in Nat
  PROVE  \E f : WalkFun(f, K, c)
<1> DEFINE T == {k \in Nat : ~ \E f : WalkFun(f, k, c)}
<1> SUFFICES ASSUME T # {}
             PROVE  FALSE
  OBVIOUS
<1>1. PICK k \in T : \A m \in T : k <= m
  BY LeastNat
<1>2. k \in Nat /\ ~ \E f : WalkFun(f, k, c)
  OBVIOUS
<1> HIDE DEF T
<1>3. CASE k = 0
  <2>1. PICK g : g = [n \in 0 .. 0 |-> c]
    OBVIOUS
  <2>2. g = [n \in 0 .. 0 |-> IF n = 0 THEN c ELSE Advance(g[n - 1])]
    BY <2>1
  <2> QED  BY <1>2, <1>3, <2>2 DEF WalkFun
<1>4. CASE k # 0
  <2>1. k - 1 \in Nat /\ k - 1 \notin T
    BY <1>1, <1>2, <1>4
  <2>2. PICK f : WalkFun(f, k - 1, c)
    BY <2>1 DEF T
  <2>3. PICK g : g = [n \in 0 .. k |-> IF n = k THEN Advance(f[k - 1]) ELSE f[n]]
    OBVIOUS
  <2>4. \A n \in 0 .. k - 1 : f[n] = IF n = 0 THEN c ELSE Advance(f[n - 1])
    BY <2>2 DEF WalkFun
  <2>5. \A n \in 0 .. k : g[n] = IF n = 0 THEN c ELSE Advance(g[n - 1])
    <3> SUFFICES ASSUME NEW n \in 0 .. k
                 PROVE  g[n] = IF n = 0 THEN c ELSE Advance(g[n - 1])
      OBVIOUS
    <3>1. CASE n = k
      <4>1. n - 1 \in 0 .. k /\ n - 1 # k
        BY <1>2, <1>4, <3>1
      <4>2. g[n] = Advance(f[k - 1]) /\ g[n - 1] = f[k - 1]
        BY <2>3, <3>1, <4>1
      <4> QED  BY <1>4, <3>1, <4>2
    <3>2. CASE n # k
      <4>1. n \in 0 .. k - 1 /\ (n # 0 => n - 1 \in 0 .. k /\ n - 1 # k)
        BY <1>2, <3>2
      <4>2. g[n] = f[n] /\ (n # 0 => g[n - 1] = f[n - 1])
        BY <2>3, <3>2, <4>1
      <4> QED  BY <2>4, <4>1, <4>2
    <3> QED  BY <3>1, <3>2
  <2>6. g = [n \in 0 .. k |-> g[n]]
    BY <2>3
  <2>7. g = [n \in 0 .. k |-> IF n = 0 THEN c ELSE Advance(g[n - 1])]
    BY <2>5, <2>6
  <2> QED  BY <1>2, <2>7 DEF WalkFun
<1> QED  BY <1>3, <1>4

(* After n rounds. *)
LEMMA WalkRounds ==
  ASSUME NEW t, TrieInv(t), NEW K \in Nat, NEW c, Round(t, K, c, 0), NEW f, WalkFun(f, K, c)
  PROVE  Round(t, K, f[K], K)
<1> DEFINE T == {k \in Nat : k <= K /\ ~ Round(t, K, f[k], k)}
<1>0. SUFFICES ASSUME T # {}
               PROVE  FALSE
  OBVIOUS
<1>1. PICK k \in T : \A m \in T : k <= m
  BY <1>0, LeastNat
<1>2. k \in Nat /\ k <= K /\ ~ Round(t, K, f[k], k)
  OBVIOUS
<1>3. f[k] = IF k = 0 THEN c ELSE Advance(f[k - 1])
  <2>1. k \in 0 .. K
    BY <1>2
  <2> QED  BY <2>1 DEF WalkFun
<1>4. k # 0
  BY <1>2, <1>3
<1>5. k - 1 \in Nat /\ k - 1 <= K /\ ~ (k <= k - 1) /\ (k - 1) + 1 = k
  BY <1>2, <1>4
<1>6. Round(t, K, f[k - 1], k - 1)
  BY <1>1, <1>5
<1> HIDE DEF T
<1>7. Round(t, K, Advance(f[k - 1]), (k - 1) + 1)
  BY <1>5, <1>6, AdvanceRound
<1> QED  BY <1>2, <1>3, <1>4, <1>5, <1>7

(* Walk as a function of its rounds. *)
LEMMA WalkIs ==
  ASSUME NEW t, NEW r, NEW key
  PROVE  Walk(t, r, key) = (CHOOSE g : WalkFun(g, Len(Nibbles(key)), Cursor(t, r, Nibbles(key), <<>>, FALSE)))
                             [Len(Nibbles(key))]
BY Zenon DEF Walk, WalkFun

(* A walk ends at a node of the current generation, and keeps the tree. *)
LEMMA WalkLands ==
  ASSUME NEW t, TrieInv(t), Root(t) # None, NEW key, IsKey(key)
  PROVE  Steps(t, Walk(t, Root(t), key).trie) /\ Landed(Walk(t, Root(t), key))
<1>1. PICK s, K, c : s = Nibbles(key) /\ K = Len(s) /\ c = Cursor(t, Root(t), s, <<>>, FALSE)
  OBVIOUS
<1>2. IsSeq(s) /\ K \in Nat
  BY <1>1, NibblesSeq, SeqDomain
<1>3. PICK f : f = CHOOSE g : WalkFun(g, Len(Nibbles(key)), Cursor(t, Root(t), Nibbles(key), <<>>, FALSE))
  OBVIOUS
<1>4. WalkFun(f, K, c)
  <2>1. \E g : WalkFun(g, K, c)
    BY <1>2, WalkExists
  <2>2. \E g : WalkFun(g, Len(Nibbles(key)), Cursor(t, Root(t), Nibbles(key), <<>>, FALSE))
    BY <1>1, <2>1
  <2>3. WalkFun(f, Len(Nibbles(key)), Cursor(t, Root(t), Nibbles(key), <<>>, FALSE))
    BY <1>3, <2>2, Zenon
  <2> QED  BY <1>1, <2>3
<1>5. Walk(t, Root(t), key) = f[K]
  BY <1>1, <1>3, WalkIs
<1>6. c.trie = t /\ c.node = Root(t) /\ c.rest = s /\ c.trail = <<>> /\ c.stuck = FALSE
  BY <1>1 DEF Cursor
<1>7. TrailOK(t, <<>>, Root(t))
  <2>1. PICK up, pos : Hangs(t, up, pos)
    BY Hanging
  <2>2. Root(t) \in Mine(t) /\ NowNode(t, Root(t))
    BY <2>1 DEF Hangs
  <2>3. IsSeq(<<>>) /\ Len(<<>>) = 0
    BY SeqSmall
  <2>4. \A j \in 1 .. Len(<<>>) + 1 : j = 1
    BY <2>3
  <2>5. Stop(<<>>, Root(t), 1) = Root(t)
    BY <2>3 DEF Stop
  <2>6. ~ \E j \in 1 .. Len(<<>>) : TRUE
    BY <2>3
  <2>7. ~ \E i, j \in 1 .. Len(<<>>) + 1 : i < j
    BY <2>4
  <2> QED  BY <2>2, <2>3, <2>4, <2>5, <2>6, <2>7 DEF TrailOK
<1>8. Round(t, K, c, 0)
  <2>1. Steps(t, t)
    BY GoodSame, KeepsSame DEF Steps
  <2>2. CursorOK(c)
    <3>1. TrailOK(c.trie, c.trail, c.node)
      BY <1>6, <1>7
    <3> QED  BY <1>2, <1>6, <3>1 DEF CursorOK
  <2>3. Len(c.rest) <= K - 0
    <3>1. Len(c.rest) = K
      BY <1>1, <1>6
    <3> QED  BY <1>2, <3>1
  <2> QED  BY <1>6, <2>1, <2>2, <2>3 DEF Round
<1>9. PICK d : d = f[K]
  OBVIOUS
<1>10. Round(t, K, d, K)
  BY <1>2, <1>4, <1>8, <1>9, WalkRounds
<1>11. Steps(t, d.trie) /\ CursorOK(d)
  BY <1>10 DEF Round
<1>12. Goes(d) => Own(d.trie.nodes[d.node])
  <2> SUFFICES ASSUME Goes(d), ~ d.stuck
               PROVE  FALSE
    BY <1>10 DEF Round
  <2>1. Len(d.rest) <= K - K
    BY <1>10 DEF Round
  <2>2. IsSeq(d.rest) /\ TrieInv(d.trie) /\ TrailOK(d.trie, d.trail, d.node)
    BY <1>11 DEF CursorOK
  <2>3. IsSeq(d.trie.nodes[d.node].path)
    BY <2>2, TrailNode, MyNode
  <2>4. Len(d.trie.nodes[d.node].path) < Len(d.rest)
    BY <2>2, <2>3, FollowStem DEF Goes
  <2>5. Len(d.trie.nodes[d.node].path) \in Nat /\ Len(d.rest) \in Nat
    BY <2>2, <2>3, SeqDomain
  <2> QED  BY <1>2, <2>1, <2>4, <2>5
<1>13. Landed(d)
  BY <1>11, <1>12 DEF Landed, Goes
<1> QED  BY <1>5, <1>9, <1>11, <1>13

-----------------------------------------------------------------------------
(* Deleting what lies below a prefix.                                      *)

(* MutableTrie::get_entry. *)
LEMMA GetEntryGood ==
  ASSUME NEW t, TrieInv(t), NEW key, IsKey(key)
  PROVE  Returns(t, get_entry(t, key))
<1>1. PICK r : r = get_entry(t, key)
  OBVIOUS
<1>2. CASE Root(t) = None
  <2>1. r.trie = t /\ r.entry = None
    BY <1>1, <1>2 DEF get_entry
  <2> QED  BY <1>1, <2>1, GoodSame DEF Returns
<1>3. CASE Root(t) # None
  <2>1. PICK c : c = Walk(t, Root(t), key)
    OBVIOUS
  <2>2. Steps(t, c.trie) /\ CursorOK(c)
    BY <1>3, <2>1, WalkLands DEF Landed
  <2>3. r = EntryAt(c)
    BY <1>1, <1>3, <2>1 DEF get_entry
  <2>4. r.trie = c.trie /\ (r.entry = None \/ r.entry = c.trie.nodes[c.node].value)
    BY <2>3 DEF EntryAt
  <2>5. TrieInv(c.trie) /\ c.node \in Mine(c.trie)
    BY <2>2, TrailNode DEF CursorOK
  <2>6. r.entry # None => IsEntry(c.trie, r.entry)
    BY <2>4, <2>5, NodeValue
  <2> QED  BY <1>1, <2>2, <2>4, <2>6 DEF Returns, Steps
<1> QED  BY <1>2, <1>3

(* MutableTrie::insert. *)
LEMMA InsertGood ==
  ASSUME NEW t, TrieInv(t), NEW key, IsKey(key), NEW v
  PROVE  Returns(t, insert(t, key, v))
<1>1. PICK r : r = insert(t, key, v)
  OBVIOUS
<1>2. CASE ~ Locks!check_has_no_prefix(t.generations[Current(t)].iterator_roots, key)
  <2>1. r.trie = t /\ r.entry = None
    BY <1>1, <1>2 DEF insert
  <2> QED  BY <1>1, <2>1, GoodSame DEF Returns
<1>3. CASE Locks!check_has_no_prefix(t.generations[Current(t)].iterator_roots, key) /\ Root(t) = None
  <2>1. PICK a, u : a = NewEntry(t, v) /\ u = InsertRoot(a, key)
    OBVIOUS
  <2>2. r.trie = u /\ r.entry = Len(t.entries) + 1
    BY <1>1, <1>3, <2>1 DEF insert
  <2>3. Good(t, a) /\ SameTree(t, a) /\ Len(a.entries) = Len(t.entries) + 1
    BY <2>1, NewEntryGood
  <2>4. TrieInv(a)
    BY <2>3 DEF Good
  <2>5. IsEntry(a, Len(a.entries))
    <3>1. Lo(a) = Lo(t)
      BY <2>3, KeepsSameTree DEF Keeps
    <3>2. Lo(t).num_entries \in 0 .. Len(t.entries) /\ Len(t.entries) \in Nat
      BY Now DEF Bounds
    <3> QED  BY <2>3, <3>1, <3>2 DEF IsEntry
  <2>6. Good(a, u)
    BY <2>1, <2>4, <2>5, InsertRootGood
  <2>7. Good(t, u)
    BY <2>3, <2>6, Now, GoodThen
  <2>8. IsEntry(u, r.entry)
    BY <2>2, <2>3, <2>4, <2>5, <2>6, EntryKept
  <2> QED  BY <1>1, <2>2, <2>7, <2>8 DEF Returns
<1>4. CASE Locks!check_has_no_prefix(t.generations[Current(t)].iterator_roots, key) /\ Root(t) # None
  <2>1. PICK c : c = Walk(t, Root(t), key)
    OBVIOUS
  <2>2. Steps(t, c.trie) /\ Landed(c)
    BY <1>4, <2>1, WalkLands
  <2>3. r = InsertFrom(c, v)
    BY <1>1, <1>4, <2>1 DEF insert
  <2>4. Returns(c.trie, r)
    BY <2>2, <2>3, InsertFromGood
  <2>5. Good(t, r.trie)
    BY <2>2, <2>4, StepsGood DEF Returns
  <2> QED  BY <1>1, <2>4, <2>5 DEF Returns
<1> QED  BY <1>2, <1>3, <1>4

(* MutableTrie::delete. *)
LEMMA DeleteGood ==
  ASSUME NEW t, TrieInv(t), NEW key, IsKey(key)
  PROVE  Good(t, delete(t, key).trie)
<1>1. CASE Root(t) = None \/ ~ Locks!check_has_no_prefix(t.generations[Current(t)].iterator_roots, key)
  <2>1. delete(t, key).trie = t
    BY <1>1 DEF delete
  <2> QED  BY <2>1, GoodSame
<1>2. CASE Root(t) # None /\ Locks!check_has_no_prefix(t.generations[Current(t)].iterator_roots, key)
  <2>1. PICK c : c = Walk(t, Root(t), key)
    OBVIOUS
  <2>2. Steps(t, c.trie) /\ CursorOK(c)
    BY <1>2, <2>1, WalkLands DEF Landed
  <2>3. delete(t, key) = DeleteAt(c)
    BY <1>2, <2>1 DEF delete
  <2>4. Good(c.trie, DeleteAt(c).trie)
    BY <2>2, DeleteAtGood
  <2> QED  BY <2>2, <2>3, <2>4, StepsGood
<1> QED  BY <1>1, <1>2

(* The loop of delete_prefix that takes nodes off a stack. *)
KidIndices(n) ==
  IF n.children.kind = "Owned" /\ n.children.generation = n.generation
  THEN [j \in DOMAIN n.children.list |-> n.children.list[j].index]
  ELSE <<>>
PopStep(t, p) ==
  IF p.stack = <<>> THEN p
  ELSE [stack |-> Front(p.stack) \o KidIndices(t.nodes[Last(p.stack)]),
        order |-> Append(p.order, Last(p.stack))]
PopFun(f, K, t, c) == f = [n \in 0 .. K |-> IF n = 0 THEN c ELSE PopStep(t, f[n - 1])]

(* OwnedBelow as a function of its rounds. *)
LEMMA OwnedBelowIs ==
  ASSUME NEW t, NEW i
  PROVE  OwnedBelow(t, i) = (CHOOSE g : PopFun(g, Len(t.nodes), t, [stack |-> <<i>>, order |-> <<>>]))
                              [Len(t.nodes)].order
BY Zenon DEF OwnedBelow, PopFun, PopStep, KidIndices

(* A sequence of nodes of the current generation. *)
MySeq(t, s) == IsSeq(s) /\ \A j \in 1 .. Len(s) : s[j] \in Mine(t)
Popped(t, p) == MySeq(t, p.stack) /\ MySeq(t, p.order)

(* The children that delete_prefix puts on its stack. *)
LEMMA KidIndicesMine ==
  ASSUME NEW t, TrieInv(t), NEW i \in Mine(t)
  PROVE  MySeq(t, KidIndices(t.nodes[i]))
<1>1. PICK k : k = KidIndices(t.nodes[i])
  OBVIOUS
<1>2. CASE Own(t.nodes[i])
  <2>1. PICK L : L = t.nodes[i].children.list
    OBVIOUS
  <2>2. k = [j \in DOMAIN L |-> L[j].index]
    BY <1>1, <1>2, <2>1 DEF KidIndices, Own
  <2>3. IsSeq(L)
    BY <2>1, MyNode
  <2>4. DOMAIN k = DOMAIN L /\ k = [j \in DOMAIN k |-> k[j]]
    BY <2>2
  <2>5. IsSeq(k) /\ Len(k) = Len(L)
    BY <2>3, <2>4, SeqSame
  <2>6. \A j \in 1 .. Len(L) : Edge(t, i, j, L[j].index) /\ j \in DOMAIN L
    BY <1>2, <2>1, OwnList
  <2>7. \A j \in 1 .. Len(L) : L[j].index \in Mine(t)
    BY <2>6, EdgeFacts
  <2>8. \A j \in 1 .. Len(k) : k[j] \in Mine(t)
    BY <2>2, <2>5, <2>6, <2>7
  <2> QED  BY <1>1, <2>5, <2>8 DEF MySeq
<1>3. CASE ~ Own(t.nodes[i])
  <2>1. k = <<>>
    BY <1>1, <1>3 DEF KidIndices, Own
  <2>2. IsSeq(k) /\ Len(k) = 0
    BY <2>1, SeqSmall
  <2> QED  BY <1>1, <2>2 DEF MySeq
<1> QED  BY <1>2, <1>3

(* Two sequences of nodes of the current generation. *)
LEMMA MyConcat ==
  ASSUME NEW t, NEW a, NEW b, MySeq(t, a), MySeq(t, b)
  PROVE  MySeq(t, Cat(a, b))
<1>1. PICK s : s = Cat(a, b)
  OBVIOUS
<1>2. /\ IsSeq(s) /\ Len(s) = Len(a) + Len(b)
      /\ \A i \in 1 .. Len(a) : s[i] = a[i]
      /\ \A i \in Len(a) + 1 .. Len(a) + Len(b) : s[i] = b[i - Len(a)]
  BY <1>1, SeqConcat DEF MySeq
<1>3. Len(a) \in Nat /\ Len(b) \in Nat
  BY SeqDomain DEF MySeq
<1>4. ASSUME NEW j \in 1 .. Len(s)
      PROVE  s[j] \in Mine(t)
  <2>1. CASE j <= Len(a)
    <3>1. j \in 1 .. Len(a)
      BY <1>2, <1>3, <2>1
    <3> QED  BY <1>2, <3>1 DEF MySeq
  <2>2. CASE ~ (j <= Len(a))
    <3>1. j \in Len(a) + 1 .. Len(a) + Len(b) /\ j - Len(a) \in 1 .. Len(b)
      BY <1>2, <1>3, <2>2
    <3> QED  BY <1>2, <3>1 DEF MySeq
  <2> QED  BY <2>1, <2>2
<1> QED  BY <1>1, <1>2, <1>4 DEF MySeq

(* One round of the loop. *)
LEMMA PopStepOK ==
  ASSUME NEW t, TrieInv(t), NEW p, Popped(t, p)
  PROVE  Popped(t, PopStep(t, p))
<1>1. CASE p.stack = <<>>
  BY <1>1 DEF PopStep
<1>2. CASE p.stack # <<>>
  <2>1. PICK s, q, x, k : s = p.stack /\ q = Front(s) /\ x = Last(s) /\ k = KidIndices(t.nodes[x])
    OBVIOUS
  <2>2. PICK n : n = PopStep(t, p)
    OBVIOUS
  <2>3. n.stack = Cat(q, k) /\ n.order = Append(p.order, x)
    BY <1>2, <2>1, <2>2 DEF PopStep, Cat
  <2>4. MySeq(t, s) /\ s # <<>> /\ MySeq(t, p.order)
    BY <1>2, <2>1 DEF Popped
  <2>5. /\ Len(s) \in Nat \ {0} /\ x = s[Len(s)] /\ IsSeq(q) /\ Len(q) = Len(s) - 1
        /\ \A i \in 1 .. Len(s) - 1 : q[i] = s[i]
    BY <2>1, <2>4, SeqFront DEF MySeq
  <2>6. x \in Mine(t)
    BY <2>4, <2>5 DEF MySeq
  <2>7. MySeq(t, q)
    BY <2>4, <2>5 DEF MySeq
  <2>8. MySeq(t, k)
    BY <2>1, <2>6, KidIndicesMine
  <2>9. MySeq(t, n.stack)
    BY <2>3, <2>7, <2>8, MyConcat
  <2>10. MySeq(t, n.order)
    <3>1. PICK o : o = p.order
      OBVIOUS
    <3>2. IsSeq(o) /\ Len(o) \in Nat /\ \A j \in 1 .. Len(o) : o[j] \in Mine(t)
      BY <2>4, <3>1, SeqDomain DEF MySeq
    <3>3. PICK w : w = Append(o, x)
      OBVIOUS
    <3>4. IsSeq(w) /\ Len(w) = Len(o) + 1 /\ (\A i \in 1 .. Len(o) : w[i] = o[i]) /\ w[Len(o) + 1] = x
      BY <3>2, <3>3, SeqAppend
    <3>5. \A j \in 1 .. Len(w) : j \in 1 .. Len(o) \/ j = Len(o) + 1
      BY <3>2, <3>4
    <3>6. \A j \in 1 .. Len(w) : w[j] \in Mine(t)
      BY <2>6, <3>2, <3>4, <3>5
    <3> QED  BY <2>3, <3>1, <3>3, <3>4, <3>6 DEF MySeq
  <2> QED  BY <2>2, <2>9, <2>10 DEF Popped
<1> QED  BY <1>1, <1>2

(* The loop is defined for any number of rounds. *)
LEMMA PopExists ==
  ASSUME NEW t, NEW c, NEW K \in Nat
  PROVE  \E f : PopFun(f, K, t, c)
<1> DEFINE T == {k \in Nat : ~ \E f : PopFun(f, k, t, c)}
<1> SUFFICES ASSUME T # {}
             PROVE  FALSE
  OBVIOUS
<1>1. PICK k \in T : \A m \in T : k <= m
  BY LeastNat
<1>2. k \in Nat /\ ~ \E f : PopFun(f, k, t, c)
  OBVIOUS
<1> HIDE DEF T
<1>3. CASE k = 0
  <2>1. PICK g : g = [n \in 0 .. 0 |-> c]
    OBVIOUS
  <2>2. g = [n \in 0 .. 0 |-> IF n = 0 THEN c ELSE PopStep(t, g[n - 1])]
    BY <2>1
  <2> QED  BY <1>2, <1>3, <2>2 DEF PopFun
<1>4. CASE k # 0
  <2>1. k - 1 \in Nat /\ k - 1 \notin T
    BY <1>1, <1>2, <1>4
  <2>2. PICK f : PopFun(f, k - 1, t, c)
    BY <2>1 DEF T
  <2>3. PICK g : g = [n \in 0 .. k |-> IF n = k THEN PopStep(t, f[k - 1]) ELSE f[n]]
    OBVIOUS
  <2>4. \A n \in 0 .. k - 1 : f[n] = IF n = 0 THEN c ELSE PopStep(t, f[n - 1])
    BY <2>2 DEF PopFun
  <2>5. \A n \in 0 .. k : g[n] = IF n = 0 THEN c ELSE PopStep(t, g[n - 1])
    <3> SUFFICES ASSUME NEW n \in 0 .. k
                 PROVE  g[n] = IF n = 0 THEN c ELSE PopStep(t, g[n - 1])
      OBVIOUS
    <3>1. CASE n = k
      <4>1. n - 1 \in 0 .. k /\ n - 1 # k
        BY <1>2, <1>4, <3>1
      <4>2. g[n] = PopStep(t, f[k - 1]) /\ g[n - 1] = f[k - 1]
        BY <2>3, <3>1, <4>1
      <4> QED  BY <1>4, <3>1, <4>2
    <3>2. CASE n # k
      <4>1. n \in 0 .. k - 1 /\ (n # 0 => n - 1 \in 0 .. k /\ n - 1 # k)
        BY <1>2, <3>2
      <4>2. g[n] = f[n] /\ (n # 0 => g[n - 1] = f[n - 1])
        BY <2>3, <3>2, <4>1
      <4> QED  BY <2>4, <4>1, <4>2
    <3> QED  BY <3>1, <3>2
  <2>6. g = [n \in 0 .. k |-> g[n]]
    BY <2>3
  <2>7. g = [n \in 0 .. k |-> IF n = 0 THEN c ELSE PopStep(t, g[n - 1])]
    BY <2>5, <2>6
  <2> QED  BY <1>2, <2>7 DEF PopFun
<1> QED  BY <1>3, <1>4

(* After n rounds. *)
LEMMA PopRounds ==
  ASSUME NEW t, TrieInv(t), NEW K \in Nat, NEW c, Popped(t, c), NEW f, PopFun(f, K, t, c)
  PROVE  Popped(t, f[K])
<1> DEFINE T == {k \in Nat : k <= K /\ ~ Popped(t, f[k])}
<1>0. SUFFICES ASSUME T # {}
               PROVE  FALSE
  OBVIOUS
<1>1. PICK k \in T : \A m \in T : k <= m
  BY <1>0, LeastNat
<1>2. k \in Nat /\ k <= K /\ ~ Popped(t, f[k])
  OBVIOUS
<1>3. f[k] = IF k = 0 THEN c ELSE PopStep(t, f[k - 1])
  <2>1. k \in 0 .. K
    BY <1>2
  <2> QED  BY <2>1 DEF PopFun
<1>4. k # 0
  BY <1>2, <1>3
<1>5. k - 1 \in Nat /\ k - 1 <= K /\ ~ (k <= k - 1)
  BY <1>2, <1>4
<1>6. Popped(t, f[k - 1])
  BY <1>1, <1>5
<1> HIDE DEF T
<1>7. Popped(t, PopStep(t, f[k - 1]))
  BY <1>6, PopStepOK
<1> QED  BY <1>2, <1>3, <1>4, <1>7

(* delete_prefix visits nodes of the current generation only. *)
LEMMA OwnedBelowMine ==
  ASSUME NEW t, TrieInv(t), NEW i \in Mine(t)
  PROVE  MySeq(t, OwnedBelow(t, i))
<1>1. PICK K, c, f : /\ K = Len(t.nodes) /\ c = [stack |-> <<i>>, order |-> <<>>]
                     /\ f = CHOOSE g : PopFun(g, Len(t.nodes), t, [stack |-> <<i>>, order |-> <<>>])
  OBVIOUS
<1>2. K \in Nat
  BY <1>1, Now DEF Bounds
<1>3. PopFun(f, K, t, c)
  <2>1. \E g : PopFun(g, K, t, c)
    BY <1>2, PopExists
  <2>2. \E g : PopFun(g, Len(t.nodes), t, [stack |-> <<i>>, order |-> <<>>])
    BY <1>1, <2>1
  <2>3. PopFun(f, Len(t.nodes), t, [stack |-> <<i>>, order |-> <<>>])
    BY <1>1, <2>2, Zenon
  <2> QED  BY <1>1, <2>3
<1>4. Popped(t, c)
  <2>1. c.stack = <<i>> /\ c.order = <<>>
    BY <1>1
  <2>2. IsSeq(c.stack) /\ Len(c.stack) = 1 /\ c.stack[1] = i /\ IsSeq(c.order) /\ Len(c.order) = 0
    BY <2>1, SeqSmall
  <2> QED  BY <2>2 DEF Popped, MySeq
<1>5. Popped(t, f[K])
  BY <1>2, <1>3, <1>4, PopRounds
<1>6. OwnedBelow(t, i) = f[K].order
  BY <1>1, OwnedBelowIs
<1> QED  BY <1>5, <1>6 DEF Popped

(* The values of nodes of this generation are entries of it. *)
LEMMA EntriesOfMine ==
  ASSUME NEW t, TrieInv(t), NEW s, MySeq(t, s)
  PROVE  \A e \in EntriesOf(t, ToSet(s)) : IsEntry(t, e)
<1>1. DOMAIN s = 1 .. Len(s)
  BY SeqDomain DEF MySeq
<1>2. \A i \in ToSet(s) : i \in Mine(t)
  BY <1>1 DEF ToSet, MySeq
<1>3. SUFFICES ASSUME NEW e \in EntriesOf(t, ToSet(s))
               PROVE  IsEntry(t, e)
  OBVIOUS
<1>4. PICK i \in ToSet(s) : e = t.nodes[i].value /\ e # None
  BY DEF EntriesOf
<1> QED  BY <1>2, <1>4, NodeValue

(* The entries below the prefix die. *)
LEMMA DropEntries ==
  ASSUME NEW t, TrieInv(t), NEW s, MySeq(t, s), NEW u, u = Invalidate(t, EntriesOf(t, ToSet(s)))
  PROVE  Steps(t, u)
<1>1. \A e \in EntriesOf(t, ToSet(s)) : IsEntry(t, e)
  BY EntriesOfMine
<1>2. Good(t, u) /\ SameTree(t, u)
  BY <1>1, InvalidateGood
<1> QED  BY <1>2, KeepsSameTree DEF Steps

(* The walk of delete_prefix. *)
Found(t, p) == Steps(t, p.trie) /\ (p.ret = "Found" => CursorOK(p.cursor) /\ p.cursor.trie = p.trie)

(* The walk of delete_prefix finds a node or nothing. *)
LEMMA PrefixCursorOK ==
  ASSUME NEW t, TrieInv(t), NEW key, IsKey(key)
  PROVE  Found(t, PrefixCursor(t, key))
<1>1. PICK p : p = PrefixCursor(t, key)
  OBVIOUS
<1>2. CASE Root(t) = None \/ Locks!is_or_has_prefix(t.generations[Current(t)].iterator_roots, key)
  <2>1. p.trie = t /\ p.ret # "Found"
    BY <1>1, <1>2 DEF PrefixCursor
  <2> QED  BY <1>1, <2>1, GoodSame, KeepsSame DEF Found, Steps
<1>3. CASE Root(t) # None /\ ~ Locks!is_or_has_prefix(t.generations[Current(t)].iterator_roots, key)
  <2>1. PICK c : c = Walk(t, Root(t), key)
    OBVIOUS
  <2>2. Steps(t, c.trie) /\ CursorOK(c)
    BY <1>3, <2>1, WalkLands DEF Landed
  <2>3. p = PrefixFound(c)
    BY <1>1, <1>3, <2>1 DEF PrefixCursor
  <2>4. p.trie = c.trie /\ p.cursor = c
    BY <2>3 DEF PrefixFound
  <2> QED  BY <1>1, <2>2, <2>4 DEF Found
<1> QED  BY <1>2, <1>3

(* MutableTrie::delete_prefix. *)
LEMMA DeletePrefixGood ==
  ASSUME NEW t, TrieInv(t), NEW key, IsKey(key)
  PROVE  Good(t, delete_prefix(t, key).trie)
<1>1. PICK p, r : p = PrefixCursor(t, key) /\ r = DeleteBelow(p)
  OBVIOUS
<1>2. delete_prefix(t, key) = r
  BY <1>1 DEF delete_prefix
<1>3. Found(t, p)
  BY <1>1, PrefixCursorOK
<1>4. CASE p.ret # "Found"
  <2>1. r = p
    BY <1>1, <1>4 DEF DeleteBelow
  <2> QED  BY <1>2, <1>3, <2>1 DEF Found, Steps
<1>5. CASE p.ret = "Found"
  <2>1. PICK s, c, below, a, u : /\ s = p.trie /\ c = p.cursor /\ below = OwnedBelow(s, c.node)
                                 /\ a = Invalidate(s, EntriesOf(s, ToSet(below)))
                                 /\ u = RemoveSubtree(a, c.trail)
    OBVIOUS
  <2>2. r.trie = u
    BY <1>1, <1>5, <2>1 DEF DeleteBelow
  <2>3. Steps(t, s) /\ TrieInv(s) /\ TrailOK(s, c.trail, c.node)
    BY <1>3, <1>5, <2>1 DEF Found, CursorOK
  <2>4. c.node \in Mine(s)
    BY <2>3, TrailNode
  <2>5. MySeq(s, below)
    BY <2>1, <2>3, <2>4, OwnedBelowMine
  <2>6. Steps(s, a)
    BY <2>1, <2>3, <2>5, DropEntries
  <2>7. TrieInv(a) /\ TrailOK(a, c.trail, c.node)
    BY <2>3, <2>6, StepsInv
  <2>8. Good(a, u)
    BY <2>1, <2>7, RemoveSubtreeGood
  <2>9. Steps(t, a)
    BY <2>3, <2>6, StepsThen
  <2> QED  BY <1>2, <2>2, <2>8, <2>9, StepsGood
<1> QED  BY <1>4, <1>5

(* MutableTrie::delete_prefix when it runs out of energy. *)
LEMMA DeletePrefixStopsGood ==
  ASSUME NEW t, TrieInv(t), NEW key, IsKey(key), NEW u \in DeletePrefixStops(t, key)
  PROVE  Good(t, u)
<1>1. PICK p : p = PrefixCursor(t, key)
  OBVIOUS
<1>2. u \in StopsBelow(p)
  BY <1>1 DEF DeletePrefixStops
<1>3. p.ret = "Found"
  BY <1>2 DEF StopsBelow
<1>4. Found(t, p)
  BY <1>1, PrefixCursorOK
<1>5. PICK s, c, below : s = p.trie /\ c = p.cursor /\ below = OwnedBelow(s, c.node)
  OBVIOUS
<1>6. u \in StopsIn(s, below)
  BY <1>2, <1>3, <1>5 DEF StopsBelow
<1>7. PICK n \in 0 .. Len(below) - 1 : u = Invalidate(s, EntriesOf(s, ToSet(SubSeq(below, 1, n))))
  BY <1>6 DEF StopsIn
<1>8. Steps(t, s) /\ TrieInv(s) /\ TrailOK(s, c.trail, c.node)
  BY <1>3, <1>4, <1>5 DEF Found, CursorOK
<1>9. MySeq(s, below)
  BY <1>5, <1>8, TrailNode, OwnedBelowMine
<1>10. PICK w : w = SubSeq(below, 1, n)
  OBVIOUS
<1>11. MySeq(s, w)
  <2>1. Len(below) \in Nat /\ IsSeq(below)
    BY <1>9, SeqDomain DEF MySeq
  <2>2. n \in 0 .. Len(below) /\ \A j \in 1 .. n : j \in 1 .. Len(below)
    BY <2>1
  <2>3. IsSeq(w) /\ Len(w) = n /\ \A j \in 1 .. n : w[j] = below[j]
    BY <1>10, <2>1, <2>2, SeqPrefix
  <2> QED  BY <1>9, <2>2, <2>3 DEF MySeq
<1>12. Steps(s, u)
  BY <1>7, <1>8, <1>10, <1>11, DropEntries
<1>13. Steps(t, u)
  BY <1>8, <1>12, StepsThen
<1> QED  BY <1>13 DEF Steps

-----------------------------------------------------------------------------
(* Iterators.                                                              *)

(* Other locks in the current generation. *)
LEMMA LocksGood ==
  ASSUME NEW t, TrieInv(t), NEW x, NEW u, u = [t EXCEPT !.generations[Current(t)].iterator_roots = x]
  PROVE  Steps(t, u) /\ u.nodes = t.nodes
<1>0. IsTrie(t) /\ Bounds(t)
  BY Now
<1>1. t = [generations |-> t.generations, entries |-> t.entries, values |-> t.values,
           borrowed_values |-> t.borrowed_values, nodes |-> t.nodes]
  BY <1>0, TrieFields
<1>2. PICK c, last : c = Current(t) /\ last = [t.generations[c] EXCEPT !.iterator_roots = x]
  OBVIOUS
<1>3. PICK gs : gs = Upd(t.generations, c, last)
  OBVIOUS
<1>4. u = [t EXCEPT !.generations = gs]
  BY <1>2, <1>3, Zenon DEF Upd
<1>5. u = [generations |-> gs, entries |-> t.entries, values |-> t.values,
           borrowed_values |-> t.borrowed_values, nodes |-> t.nodes]
  BY <1>1, <1>4
<1>6. IsSeq(t.generations) /\ c = Len(t.generations) /\ c \in Nat \ {0}
  BY <1>0, <1>2, LengthsFacts DEF IsTrie, Current
<1>7. /\ IsSeq(gs) /\ Len(gs) = c
      /\ \A k \in 1 .. c : gs[k] = IF k = c THEN last ELSE t.generations[k]
  BY <1>3, <1>6, SeqExcept
<1>8. /\ u.generations = gs /\ u.entries = t.entries /\ u.values = t.values
      /\ u.borrowed_values = t.borrowed_values /\ u.nodes = t.nodes
  BY <1>5
<1>9. c \in 1 .. c
  BY <1>6
<1>10. t.generations[c] = [root |-> t.generations[c].root, checkpoint |-> t.generations[c].checkpoint,
                           iterator_roots |-> t.generations[c].iterator_roots]
  BY <1>0, <1>6, <1>9 DEF IsTrie
<1>11. last = [root |-> t.generations[c].root, checkpoint |-> t.generations[c].checkpoint,
               iterator_roots |-> x]
  BY <1>2, <1>10
<1>12. \A g \in 1 .. c : gs[g] = [root |-> gs[g].root, checkpoint |-> gs[g].checkpoint,
                                  iterator_roots |-> gs[g].iterator_roots]
  <2> SUFFICES ASSUME NEW g \in 1 .. c
               PROVE  gs[g] = [root |-> gs[g].root, checkpoint |-> gs[g].checkpoint,
                               iterator_roots |-> gs[g].iterator_roots]
    OBVIOUS
  <2>1. CASE g = c
    BY <1>7, <1>9, <1>11, <2>1
  <2>2. CASE g # c
    BY <1>0, <1>6, <1>7, <2>2 DEF IsTrie
  <2> QED  BY <2>1, <2>2
<1>13. IsTrie(u)
  BY <1>0, <1>5, <1>6, <1>7, <1>8, <1>12 DEF IsTrie
<1>14. gs[c] = last /\ last.root = t.generations[c].root /\ last.checkpoint = t.generations[c].checkpoint
  BY <1>7, <1>9, <1>11
<1>15. Current(u) = c /\ Current(t) = c
  BY <1>2, <1>7, <1>8 DEF Current
<1>16. Root(u) = Root(t) /\ Lo(u) = Lo(t)
  BY <1>8, <1>14, <1>15 DEF Root, Lo, Low
<1>17. \A g \in 1 .. c - 1 : u.generations[g] = t.generations[g]
  <2>1. \A g \in 1 .. c - 1 : g \in 1 .. c /\ g # c
    BY <1>6
  <2> QED  BY <1>7, <1>8, <2>1
<1>18. SameGenerations(t, u)
  BY <1>15, <1>16, <1>17 DEF SameGenerations
<1>19. PICK up, pos : Hangs(t, up, pos)
  BY Hanging
<1>20. Hangs(u, up, pos)
  BY <1>8, <1>15, <1>16, <1>19 DEF Hangs, Edge, NowNode, Mine
<1>21. /\ Len(t.nodes) <= Len(u.nodes)
       /\ \A i \in 1 .. Lo(t).num_nodes : u.nodes[i] = t.nodes[i]
  BY <1>0, <1>8 DEF Bounds
<1>22. \A i \in Lo(t).num_nodes + 1 .. Len(u.nodes) :
           /\ NodeOK(u.nodes[i], Len(u.nodes), Len(t.entries), Current(t))
           /\ OwnNode(u.nodes[i], Current(t), Lo(t))
  BY <1>8, MyNode DEF Mine
<1>23. Good(t, u)
  BY <1>8, <1>13, <1>18, <1>20, <1>21, <1>22, Rewire
<1>24. Keeps(t, u)
  <2>1. Len(t.entries) <= Len(u.entries)
    BY <1>0, <1>8 DEF Bounds
  <2> QED  BY <1>8, <1>15, <1>16, <1>21, <2>1 DEF Keeps
<1> QED  BY <1>8, <1>23, <1>24 DEF Steps

IterOK(t, it) == IsIterator(it, Lo(t).num_nodes, Len(t.nodes))

(* An iterator from its parts. *)
IterRec(root, node, key, nc, stack, started) ==
  [root |-> root, current_node |-> node, key |-> key, next_child |-> nc, stack |-> stack, started |-> started]
NextOK(nc) == nc = None \/ nc \in Nat \ {0}
StackOK(t, s) == IsSeq(s) /\ \A j \in 1 .. Len(s) : s[j].node \in Mine(t) /\ s[j].next \in Nat \ {0}

(* The parts of an iterator. *)
LEMMA IterParts ==
  ASSUME NEW t, NEW it, IterOK(t, it)
  PROVE  /\ it = IterRec(it.root, it.current_node, it.key, it.next_child, it.stack, it.started)
         /\ it.current_node \in Mine(t) /\ NextOK(it.next_child) /\ StackOK(t, it.stack)
BY DEF IterOK, IsIterator, IterRec, NextOK, StackOK, Mine

(* An iterator from good parts. *)
LEMMA IterIntro ==
  ASSUME NEW t, NEW root, NEW node \in Mine(t), NEW key, NEW nc, NextOK(nc), NEW stack, StackOK(t, stack),
         NEW started, NEW it, it = IterRec(root, node, key, nc, stack, started)
  PROVE  IterOK(t, it)
<1>1. /\ it.root = root /\ it.current_node = node /\ it.key = key /\ it.next_child = nc
      /\ it.stack = stack /\ it.started = started
  BY DEF IterRec
<1>2. it = [root |-> it.root, current_node |-> it.current_node, key |-> it.key,
            next_child |-> it.next_child, stack |-> it.stack, started |-> it.started]
  BY <1>1 DEF IterRec
<1> QED  BY <1>1, <1>2 DEF IterOK, IsIterator, NextOK, StackOK, Mine

(* An iterator survives steps that keep the tree. *)
LEMMA IterKept ==
  ASSUME NEW t, NEW u, TrieInv(t), Steps(t, u), NEW it, IterOK(t, it)
  PROVE  IterOK(u, it)
<1>1. /\ it = IterRec(it.root, it.current_node, it.key, it.next_child, it.stack, it.started)
      /\ it.current_node \in Mine(t) /\ NextOK(it.next_child) /\ StackOK(t, it.stack)
  BY IterParts
<1>2. \A i \in Mine(t) : i \in Mine(u)
  BY StepsInv
<1>3. StackOK(u, it.stack)
  BY <1>1, <1>2 DEF StackOK
<1> QED  BY <1>1, <1>2, <1>3, IterIntro

(* A call gave a trie and, perhaps, an iterator. *)
Iterates(t, r) == Steps(t, r.trie) /\ (r.iterator # None => IterOK(r.trie, r.iterator))

(* MutableTrie::iter. *)
LEMMA IterGood ==
  ASSUME NEW t, TrieInv(t), NEW key, IsKey(key)
  PROVE  Iterates(t, iter(t, key))
<1>1. PICK r : r = iter(t, key)
  OBVIOUS
<1>2. CASE Root(t) = None
  <2>1. r.trie = t /\ r.iterator = None
    BY <1>1, <1>2 DEF iter
  <2> QED  BY <1>1, <2>1, GoodSame, KeepsSame DEF Iterates, Steps
<1>3. CASE Root(t) # None
  <2>1. PICK c, roots : c = Walk(t, Root(t), key) /\ roots = c.trie.generations[Current(c.trie)].iterator_roots
    OBVIOUS
  <2>2. Steps(t, c.trie) /\ CursorOK(c)
    BY <1>3, <2>1, WalkLands DEF Landed
  <2>3. r = IterFrom(c, key)
    BY <1>1, <1>3, <2>1 DEF iter
  <2>4. CASE Outcome(c) \in {"NoChild", "Diff"} \/ Locks!insertFails(roots, key)
    <3>1. r.trie = c.trie /\ r.iterator = None
      BY <2>1, <2>3, <2>4 DEF IterFrom
    <3> QED  BY <1>1, <2>2, <3>1 DEF Iterates
  <2>5. CASE ~ (Outcome(c) \in {"NoChild", "Diff"}) /\ ~ Locks!insertFails(roots, key)
    <3>1. PICK s, x, p : /\ s = c.trie /\ x = Locks!insert(roots, key)
                         /\ p = Pre(Nibbles(key), Len(Nibbles(key)) - Len(c.rest)) \o c.trie.nodes[c.node].path
      OBVIOUS
    <3>2. PICK u : u = [s EXCEPT !.generations[Current(s)].iterator_roots = x]
      OBVIOUS
    <3>3. r.trie = u /\ r.iterator = Iterator(key, c.node, p)
      BY <2>1, <2>3, <2>5, <3>1, <3>2 DEF IterFrom
    <3>4. TrieInv(s) /\ c.node \in Mine(s)
      BY <2>2, <3>1, TrailNode DEF CursorOK
    <3>5. Steps(s, u)
      BY <3>2, <3>4, LocksGood
    <3>6. c.node \in Mine(u)
      BY <3>4, <3>5, StepsInv
    <3>7. r.iterator = IterRec(key, c.node, p, None, <<>>, FALSE)
      BY <3>3 DEF Iterator, IterRec
    <3>8. StackOK(u, <<>>) /\ NextOK(None)
      <4>1. IsSeq(<<>>) /\ Len(<<>>) = 0
        BY SeqSmall
      <4>2. ~ \E j \in 1 .. Len(<<>>) : TRUE
        BY <4>1
      <4> QED  BY <4>1, <4>2 DEF StackOK, NextOK
    <3>9. IterOK(u, r.iterator)
      BY <3>6, <3>7, <3>8, IterIntro
    <3>10. Steps(t, u)
      BY <2>2, <3>1, <3>5, StepsThen
    <3> QED  BY <1>1, <3>3, <3>9, <3>10 DEF Iterates
  <2> QED  BY <2>4, <2>5
<1> QED  BY <1>2, <1>3

(* MutableTrie::delete_iter. *)
LEMMA DeleteIterGood ==
  ASSUME NEW t, TrieInv(t), NEW it
  PROVE  Steps(t, delete_iter(t, it))
<1>1. PICK x, u : /\ x = Locks!delete(t.generations[Current(t)].iterator_roots, it.root)
                  /\ u = [t EXCEPT !.generations[Current(t)].iterator_roots = x]
  OBVIOUS
<1>2. delete_iter(t, it) = u
  BY <1>1, Zenon DEF delete_iter
<1> QED  BY <1>1, <1>2, LocksGood

-----------------------------------------------------------------------------
(* The loop of next.                                                       *)

NextRec(t, it, e, done) == [trie |-> t, iterator |-> it, entry |-> e, done |-> done]
OnTheWay(t, c) ==
  /\ c = NextRec(c.trie, c.iterator, c.entry, c.done)
  /\ Steps(t, c.trie) /\ TrieInv(c.trie) /\ IterOK(c.trie, c.iterator)
  /\ c.entry # None => IsEntry(c.trie, c.entry)
  /\ c.done \in BOOLEAN

(* A state of the loop from its parts. *)
LEMMA NextIntro ==
  ASSUME NEW t, TrieInv(t), NEW u, Steps(t, u), NEW it, IterOK(u, it), NEW e, e # None => IsEntry(u, e),
         NEW d \in BOOLEAN, NEW c, c = NextRec(u, it, e, d)
  PROVE  OnTheWay(t, c)
<1>1. c.trie = u /\ c.iterator = it /\ c.entry = e /\ c.done = d
  BY DEF NextRec
<1>2. TrieInv(u)
  BY StepsInv
<1> QED  BY <1>1, <1>2 DEF OnTheWay

(* An iterator with another next child. *)
LEMMA IterNextChild ==
  ASSUME NEW it, NEW nc, NEW new, it = IterRec(it.root, it.current_node, it.key, it.next_child, it.stack, it.started),
         new = [it EXCEPT !.next_child = nc]
  PROVE  new = IterRec(it.root, it.current_node, it.key, nc, it.stack, it.started)
BY DEF IterRec

NextUpd(c, it, e, d) == [c EXCEPT !.iterator = it, !.entry = e, !.done = d]
(* A state of the loop with another result. *)
LEMMA NextExcept ==
  ASSUME NEW t, NEW it, NEW e, NEW d, NEW c, c = NextRec(t, it, e, d), NEW i2, NEW e2, NEW d2, NEW n,
         n = NextUpd(c, i2, e2, d2)
  PROVE  n = NextRec(t, i2, e2, d2)
<1>1. PICK a : a = [c EXCEPT !.iterator = i2]
  OBVIOUS
<1>2. PICK b : b = [a EXCEPT !.entry = e2]
  OBVIOUS
<1>3. n = [b EXCEPT !.done = d2]
  BY <1>1, <1>2, Zenon DEF NextUpd
<1>4. a = NextRec(t, i2, e, d)
  BY <1>1 DEF NextRec
<1>5. b = NextRec(t, i2, e2, d)
  BY <1>2, <1>4 DEF NextRec
<1> QED  BY <1>3, <1>5 DEF NextRec

(* The node itself is given before its children. *)
LEMMA NextGives ==
  ASSUME NEW t, TrieInv(t), NEW c, OnTheWay(t, c), ~ c.done, c.iterator.next_child = None
  PROVE  OnTheWay(t, NextStep(c))
<1>1. PICK u, it, v, new, d, n : /\ u = c.trie /\ it = c.iterator /\ v = u.nodes[it.current_node].value
                                 /\ new = [it EXCEPT !.next_child = 1] /\ d = (v # None) /\ n = NextStep(c)
  OBVIOUS
<1>2. /\ c = NextRec(u, it, c.entry, c.done) /\ Steps(t, u) /\ TrieInv(u) /\ IterOK(u, it)
  BY <1>1 DEF OnTheWay
<1>3. n = NextUpd(c, new, v, d)
  <2>1. NextStep(c) = [c EXCEPT !.iterator.next_child = 1,
                                !.entry = c.trie.nodes[c.iterator.current_node].value,
                                !.done = c.trie.nodes[c.iterator.current_node].value # None]
    BY Zenon DEF NextStep
  <2>2. v = c.trie.nodes[c.iterator.current_node].value /\ new = [c.iterator EXCEPT !.next_child = 1]
    BY <1>1
  <2>3. d = (c.trie.nodes[c.iterator.current_node].value # None)
    BY <1>1
  <2>4. NextStep(c) = NextUpd(c, new, v, d)
    BY <2>1, <2>2, <2>3, Zenon DEF NextUpd
  <2> QED  BY <1>1, <2>4
<1>4. n = NextRec(u, new, v, d)
  BY <1>2, <1>3, NextExcept
<1>5. /\ it = IterRec(it.root, it.current_node, it.key, it.next_child, it.stack, it.started)
      /\ it.current_node \in Mine(u) /\ StackOK(u, it.stack)
  BY <1>2, IterParts
<1>6. new = IterRec(it.root, it.current_node, it.key, 1, it.stack, it.started)
  BY <1>1, <1>5, IterNextChild
<1>7. IterOK(u, new)
  <2>1. NextOK(1)
    BY DEF NextOK
  <2> QED  BY <1>5, <1>6, <2>1, IterIntro
<1>8. v # None => IsEntry(u, v)
  BY <1>1, <1>2, <1>5, NodeValue
<1>9. d \in BOOLEAN
  BY <1>1
<1> QED  BY <1>1, <1>2, <1>4, <1>7, <1>8, <1>9, NextIntro

DownIter(it, s, nc, node, key) ==
  [it EXCEPT !.stack = s, !.next_child = nc, !.current_node = node, !.key = key]
UpIter(it, s, key, node, nc) ==
  [it EXCEPT !.stack = s, !.key = key, !.current_node = node, !.next_child = nc]

(* An iterator one level down, and one level up. *)
LEMMA IterMoves ==
  ASSUME NEW it, it = IterRec(it.root, it.current_node, it.key, it.next_child, it.stack, it.started),
         NEW s, NEW nc, NEW node, NEW key
  PROVE  /\ DownIter(it, s, nc, node, key) = IterRec(it.root, node, key, nc, s, it.started)
         /\ UpIter(it, s, key, node, nc) = IterRec(it.root, node, key, nc, s, it.started)
<1>1. PICK a : a = [it EXCEPT !.stack = s]
  OBVIOUS
<1>2. a = IterRec(it.root, it.current_node, it.key, it.next_child, s, it.started)
  BY <1>1 DEF IterRec
<1>3. DownIter(it, s, nc, node, key) = IterRec(it.root, node, key, nc, s, it.started)
  <2>0. PICK b : b = [a EXCEPT !.next_child = nc]
    OBVIOUS
  <2>1. PICK c : c = [b EXCEPT !.current_node = node]
    OBVIOUS
  <2>9. PICK d : d = [c EXCEPT !.key = key]
    OBVIOUS
  <2>2. DownIter(it, s, nc, node, key) = d
    BY <1>1, <2>0, <2>1, <2>9, Zenon DEF DownIter
  <2>3. b = IterRec(it.root, it.current_node, it.key, nc, s, it.started)
    BY <1>2, <2>0 DEF IterRec
  <2>4. c = IterRec(it.root, node, it.key, nc, s, it.started)
    BY <2>1, <2>3 DEF IterRec
  <2>5. d = IterRec(it.root, node, key, nc, s, it.started)
    BY <2>4, <2>9 DEF IterRec
  <2> QED  BY <2>2, <2>5
<1>4. UpIter(it, s, key, node, nc) = IterRec(it.root, node, key, nc, s, it.started)
  <2>0. PICK b : b = [a EXCEPT !.key = key]
    OBVIOUS
  <2>1. PICK c : c = [b EXCEPT !.current_node = node]
    OBVIOUS
  <2>9. PICK d : d = [c EXCEPT !.next_child = nc]
    OBVIOUS
  <2>2. UpIter(it, s, key, node, nc) = d
    BY <1>1, <2>0, <2>1, <2>9, Zenon DEF UpIter
  <2>3. b = IterRec(it.root, it.current_node, key, it.next_child, s, it.started)
    BY <1>2, <2>0 DEF IterRec
  <2>4. c = IterRec(it.root, node, key, it.next_child, s, it.started)
    BY <2>1, <2>3 DEF IterRec
  <2>5. d = IterRec(it.root, node, key, nc, s, it.started)
    BY <2>4, <2>9 DEF IterRec
  <2> QED  BY <2>2, <2>5
<1> QED  BY <1>3, <1>4

NextMove(c, t, it) == [c EXCEPT !.trie = t, !.iterator = it]
(* A state of the loop with another iterator. *)
LEMMA NextMoved ==
  ASSUME NEW t, NEW it, NEW e, NEW d, NEW c, c = NextRec(t, it, e, d), NEW t2, NEW i2, NEW n, n = NextMove(c, t2, i2)
  PROVE  n = NextRec(t2, i2, e, d)
<1>1. PICK a : a = [c EXCEPT !.trie = t2]
  OBVIOUS
<1>2. n = [a EXCEPT !.iterator = i2]
  BY <1>1, Zenon DEF NextMove
<1>3. a = NextRec(t2, it, e, d)
  BY <1>1 DEF NextRec
<1> QED  BY <1>2, <1>3 DEF NextRec

(* The loop goes down to a child, which it makes the generation's own. *)
LEMMA NextVisits ==
  ASSUME NEW t, TrieInv(t), NEW c, OnTheWay(t, c), ~ c.done, c.iterator.next_child # None,
         c.iterator.next_child <= Len(c.trie.nodes[c.iterator.current_node].children.list)
  PROVE  OnTheWay(t, NextStep(c))
<1>1. PICK s, it, i, u, j : /\ s = c.trie /\ it = c.iterator /\ i = it.current_node
                            /\ u = make_owned(s, i) /\ j = it.next_child
  OBVIOUS
<1>2. /\ c = NextRec(s, it, c.entry, c.done) /\ Steps(t, s) /\ TrieInv(s) /\ IterOK(s, it)
      /\ c.entry # None => IsEntry(s, c.entry)
      /\ c.done \in BOOLEAN
  BY <1>1 DEF OnTheWay
<1>3. /\ it = IterRec(it.root, it.current_node, it.key, it.next_child, it.stack, it.started)
      /\ i \in Mine(s) /\ NextOK(it.next_child)
  BY <1>1, <1>2, IterParts
<1>4. OwnedAt(s, u, i)
  BY <1>1, <1>2, <1>3, MakeOwnedGood
<1>5. Steps(s, u) /\ Own(u.nodes[i]) /\ Len(u.nodes[i].children.list) = Len(s.nodes[i].children.list)
  BY <1>4 DEF OwnedAt, Steps
<1>6. TrieInv(u) /\ i \in Mine(u)
  BY <1>2, <1>3, <1>5, StepsInv
<1>7. j \in Nat \ {0}
  BY <1>1, <1>3 DEF NextOK
<1>8. j \in 1 .. Len(u.nodes[i].children.list)
  <2>1. Len(u.nodes[i].children.list) \in Nat
    BY <1>5, <1>6, OwnList
  <2> QED  BY <1>1, <1>5, <1>7, <2>1
<1>9. PICK ch : ch = u.nodes[i].children.list[j]
  OBVIOUS
<1>10. ch.index \in Mine(u)
  <2>1. Edge(u, i, j, ch.index)
    BY <1>5, <1>6, <1>8, <1>9, OwnList
  <2> QED  BY <1>6, <2>1, EdgeFacts
<1>11. PICK fr, stack, key, new, n :
         /\ fr = [node |-> it.current_node, next |-> it.next_child + 1, len |-> Len(it.key)]
         /\ stack = Append(it.stack, fr)
         /\ key = it.key \o <<ch.key>> \o u.nodes[ch.index].path
         /\ new = DownIter(it, stack, None, ch.index, key)
         /\ n = NextStep(c)
  OBVIOUS
<1>12. n = NextMove(c, u, new)
  <2>1. NextStep(c) = VisitChild(c, make_owned(c.trie, c.iterator.current_node))
    BY DEF NextStep
  <2>2. n = VisitChild(c, u)
    BY <1>1, <1>11, <2>1
  <2>3. ch = u.nodes[c.iterator.current_node].children.list[c.iterator.next_child]
    BY <1>1, <1>9
  <2>4. VisitChild(c, u) = [c EXCEPT !.trie = u, !.iterator = DownIter(it, stack, None, ch.index, key)]
    BY <1>1, <1>11, <2>3, Zenon DEF VisitChild, DownIter
  <2> QED  BY <1>11, <2>2, <2>4, Zenon DEF NextMove
<1>13. n = NextRec(u, new, c.entry, c.done)
  BY <1>2, <1>12, NextMoved
<1>14. new = IterRec(it.root, ch.index, key, None, stack, it.started)
  BY <1>3, <1>11, IterMoves
<1>15. StackOK(u, stack)
  <2>1. IterOK(u, it)
    BY <1>2, <1>5, IterKept
  <2>2. PICK o : o = it.stack
    OBVIOUS
  <2>3. IsSeq(o) /\ Len(o) \in Nat /\ \A k \in 1 .. Len(o) : o[k].node \in Mine(u) /\ o[k].next \in Nat \ {0}
    BY <2>1, <2>2, IterParts, SeqDomain DEF StackOK
  <2>4. stack = Append(o, fr)
    BY <1>11, <2>2
  <2>5. IsSeq(stack) /\ Len(stack) = Len(o) + 1 /\ (\A k \in 1 .. Len(o) : stack[k] = o[k]) /\ stack[Len(o) + 1] = fr
    BY <2>3, <2>4, SeqAppend
  <2>6. fr.node \in Mine(u) /\ fr.next \in Nat \ {0}
    <3>1. fr.node = i /\ fr.next = j + 1
      BY <1>1, <1>11
    <3> QED  BY <1>6, <1>7, <3>1
  <2>7. \A k \in 1 .. Len(stack) : k \in 1 .. Len(o) \/ k = Len(o) + 1
    BY <2>3, <2>5
  <2>8. \A k \in 1 .. Len(stack) : stack[k].node \in Mine(u) /\ stack[k].next \in Nat \ {0}
    BY <2>3, <2>5, <2>6, <2>7
  <2> QED  BY <2>5, <2>8 DEF StackOK
<1>16. IterOK(u, new)
  <2>1. NextOK(None)
    BY DEF NextOK
  <2> QED  BY <1>10, <1>14, <1>15, <2>1, IterIntro
<1>17. Steps(t, u)
  BY <1>2, <1>5, StepsThen
<1>18. c.entry # None => IsEntry(u, c.entry)
  BY <1>2, <1>5, EntryKept DEF Steps
<1> QED  BY <1>2, <1>11, <1>13, <1>16, <1>17, <1>18, NextIntro

(* The loop goes back to the parent. *)
LEMMA NextClimbs ==
  ASSUME NEW t, TrieInv(t), NEW c, OnTheWay(t, c), ~ c.done, c.iterator.next_child # None,
         ~ (c.iterator.next_child <= Len(c.trie.nodes[c.iterator.current_node].children.list)),
         c.iterator.stack # <<>>
  PROVE  OnTheWay(t, NextStep(c))
<1>1. PICK s, it, up : s = c.trie /\ it = c.iterator /\ up = Last(it.stack)
  OBVIOUS
<1>2. /\ c = NextRec(s, it, c.entry, c.done) /\ Steps(t, s) /\ TrieInv(s) /\ IterOK(s, it)
      /\ c.entry # None => IsEntry(s, c.entry)
      /\ c.done \in BOOLEAN
  BY <1>1 DEF OnTheWay
<1>3. /\ it = IterRec(it.root, it.current_node, it.key, it.next_child, it.stack, it.started)
      /\ StackOK(s, it.stack)
  BY <1>1, <1>2, IterParts
<1>4. PICK f, key, new, n : /\ f = Front(it.stack) /\ key = Pre(it.key, up.len)
                            /\ new = UpIter(it, f, key, up.node, up.next) /\ n = NextStep(c)
  OBVIOUS
<1>5. n = [c EXCEPT !.iterator = new]
  <2>1. NextStep(c) = [c EXCEPT !.iterator = UpIter(it, f, key, up.node, up.next)]
    BY <1>1, <1>4, Zenon DEF NextStep, UpIter
  <2> QED  BY <1>4, <2>1, Zenon
<1>6. n = NextRec(s, new, c.entry, c.done)
  BY <1>2, <1>5 DEF NextRec
<1>7. new = IterRec(it.root, up.node, key, up.next, f, it.started)
  BY <1>3, <1>4, IterMoves
<1>8. PICK o : o = it.stack
  OBVIOUS
<1>9. IsSeq(o) /\ o # <<>> /\ \A k \in 1 .. Len(o) : o[k].node \in Mine(s) /\ o[k].next \in Nat \ {0}
  BY <1>1, <1>3, <1>8 DEF StackOK
<1>10. /\ Len(o) \in Nat \ {0} /\ up = o[Len(o)] /\ IsSeq(f) /\ Len(f) = Len(o) - 1
       /\ \A k \in 1 .. Len(o) - 1 : f[k] = o[k]
  BY <1>1, <1>4, <1>8, <1>9, SeqFront
<1>11. up.node \in Mine(s) /\ NextOK(up.next)
  BY <1>9, <1>10 DEF NextOK
<1>12. StackOK(s, f)
  BY <1>9, <1>10 DEF StackOK
<1>13. IterOK(s, new)
  BY <1>7, <1>11, <1>12, IterIntro
<1> QED  BY <1>2, <1>4, <1>6, <1>13, NextIntro

(* One round of the loop. *)
LEMMA NextStepOK ==
  ASSUME NEW t, TrieInv(t), NEW c, OnTheWay(t, c)
  PROVE  OnTheWay(t, NextStep(c))
<1>1. CASE c.done
  BY <1>1 DEF NextStep
<1>2. CASE /\ ~ c.done /\ c.iterator.next_child # None
           /\ ~ (c.iterator.next_child <= Len(c.trie.nodes[c.iterator.current_node].children.list))
           /\ c.iterator.stack = <<>>
  <2>1. PICK n : n = NextStep(c)
    OBVIOUS
  <2>2. NextStep(c) = [c EXCEPT !.done = TRUE]
    BY <1>2 DEF NextStep
  <2>3. c = NextRec(c.trie, c.iterator, c.entry, c.done)
    BY DEF OnTheWay
  <2>4. n = NextRec(c.trie, c.iterator, c.entry, TRUE)
    BY <2>1, <2>2, <2>3 DEF NextRec
  <2>5. n.trie = c.trie /\ n.iterator = c.iterator /\ n.entry = c.entry /\ n.done = TRUE
    BY <2>4 DEF NextRec
  <2>6. n = NextRec(n.trie, n.iterator, n.entry, n.done)
    BY <2>4, <2>5
  <2> QED  BY <2>1, <2>5, <2>6 DEF OnTheWay
<1> QED  BY <1>1, <1>2, NextGives, NextVisits, NextClimbs

NextFun(f, K, c) == f = [n \in 0 .. K |-> IF n = 0 THEN c ELSE NextStep(f[n - 1])]

(* The loop is defined for any number of rounds. *)
LEMMA NextExists ==
  ASSUME NEW c, NEW K \in Nat
  PROVE  \E f : NextFun(f, K, c)
<1> DEFINE T == {k \in Nat : ~ \E f : NextFun(f, k, c)}
<1> SUFFICES ASSUME T # {}
             PROVE  FALSE
  OBVIOUS
<1>1. PICK k \in T : \A m \in T : k <= m
  BY LeastNat
<1>2. k \in Nat /\ ~ \E f : NextFun(f, k, c)
  OBVIOUS
<1> HIDE DEF T
<1>3. CASE k = 0
  <2>1. PICK g : g = [n \in 0 .. 0 |-> c]
    OBVIOUS
  <2>2. g = [n \in 0 .. 0 |-> IF n = 0 THEN c ELSE NextStep(g[n - 1])]
    BY <2>1
  <2> QED  BY <1>2, <1>3, <2>2 DEF NextFun
<1>4. CASE k # 0
  <2>1. k - 1 \in Nat /\ k - 1 \notin T
    BY <1>1, <1>2, <1>4
  <2>2. PICK f : NextFun(f, k - 1, c)
    BY <2>1 DEF T
  <2>3. PICK g : g = [n \in 0 .. k |-> IF n = k THEN NextStep(f[k - 1]) ELSE f[n]]
    OBVIOUS
  <2>4. \A n \in 0 .. k - 1 : f[n] = IF n = 0 THEN c ELSE NextStep(f[n - 1])
    BY <2>2 DEF NextFun
  <2>5. \A n \in 0 .. k : g[n] = IF n = 0 THEN c ELSE NextStep(g[n - 1])
    <3> SUFFICES ASSUME NEW n \in 0 .. k
                 PROVE  g[n] = IF n = 0 THEN c ELSE NextStep(g[n - 1])
      OBVIOUS
    <3>1. CASE n = k
      <4>1. n - 1 \in 0 .. k /\ n - 1 # k
        BY <1>2, <1>4, <3>1
      <4>2. g[n] = NextStep(f[k - 1]) /\ g[n - 1] = f[k - 1]
        BY <2>3, <3>1, <4>1
      <4> QED  BY <1>4, <3>1, <4>2
    <3>2. CASE n # k
      <4>1. n \in 0 .. k - 1 /\ (n # 0 => n - 1 \in 0 .. k /\ n - 1 # k)
        BY <1>2, <3>2
      <4>2. g[n] = f[n] /\ (n # 0 => g[n - 1] = f[n - 1])
        BY <2>3, <3>2, <4>1
      <4> QED  BY <2>4, <4>1, <4>2
    <3> QED  BY <3>1, <3>2
  <2>6. g = [n \in 0 .. k |-> g[n]]
    BY <2>3
  <2>7. g = [n \in 0 .. k |-> IF n = 0 THEN c ELSE NextStep(g[n - 1])]
    BY <2>5, <2>6
  <2> QED  BY <1>2, <2>7 DEF NextFun
<1> QED  BY <1>3, <1>4

(* After n rounds. *)
LEMMA NextRounds ==
  ASSUME NEW t, TrieInv(t), NEW K \in Nat, NEW c, OnTheWay(t, c), NEW f, NextFun(f, K, c)
  PROVE  OnTheWay(t, f[K])
<1> DEFINE T == {k \in Nat : k <= K /\ ~ OnTheWay(t, f[k])}
<1>0. SUFFICES ASSUME T # {}
               PROVE  FALSE
  OBVIOUS
<1>1. PICK k \in T : \A m \in T : k <= m
  BY <1>0, LeastNat
<1>2. k \in Nat /\ k <= K /\ ~ OnTheWay(t, f[k])
  OBVIOUS
<1>3. f[k] = IF k = 0 THEN c ELSE NextStep(f[k - 1])
  <2>1. k \in 0 .. K
    BY <1>2
  <2> QED  BY <2>1 DEF NextFun
<1>4. k # 0
  BY <1>2, <1>3
<1>5. k - 1 \in Nat /\ k - 1 <= K /\ ~ (k <= k - 1)
  BY <1>2, <1>4
<1>6. OnTheWay(t, f[k - 1])
  BY <1>1, <1>5
<1> HIDE DEF T
<1>7. OnTheWay(t, NextStep(f[k - 1]))
  BY <1>6, NextStepOK
<1> QED  BY <1>2, <1>3, <1>4, <1>7

NextStart(t, it) == [trie |-> t, iterator |-> [it EXCEPT !.started = TRUE], entry |-> None, done |-> FALSE]

(* next as a function of its rounds. *)
LEMMA NextIs ==
  ASSUME NEW t, NEW it, NEW K
  PROVE  next(t, it, K) = (CHOOSE g : NextFun(g, K, NextStart(t, it)))[K]
BY Zenon DEF next, NextFun, NextStart

(* MutableTrie::next. *)
LEMMA NextGood ==
  ASSUME NEW t, TrieInv(t), NEW it, IterOK(t, it), NEW K \in Nat
  PROVE  OnTheWay(t, next(t, it, K))
<1>1. PICK c, f : c = NextStart(t, it) /\ f = CHOOSE g : NextFun(g, K, NextStart(t, it))
  OBVIOUS
<1>2. NextFun(f, K, c)
  <2>1. \E g : NextFun(g, K, NextStart(t, it))
    BY NextExists
  <2>2. NextFun(f, K, NextStart(t, it))
    BY <1>1, <2>1, Zenon
  <2> QED  BY <1>1, <2>2
<1>3. OnTheWay(t, c)
  <2>1. PICK new : new = [it EXCEPT !.started = TRUE]
    OBVIOUS
  <2>2. c = NextRec(t, new, None, FALSE)
    BY <1>1, <2>1 DEF NextStart, NextRec
  <2>3. /\ it = IterRec(it.root, it.current_node, it.key, it.next_child, it.stack, it.started)
        /\ it.current_node \in Mine(t) /\ NextOK(it.next_child) /\ StackOK(t, it.stack)
    BY IterParts
  <2>4. new = IterRec(it.root, it.current_node, it.key, it.next_child, it.stack, TRUE)
    <3>1. it = IterRec(it.root, it.current_node, it.key, it.next_child, it.stack, it.started)
      BY <2>3
    <3> QED  BY <2>1, <3>1 DEF IterRec
  <2>5. IterOK(t, new)
    <3>1. PICK b : b = TRUE
      OBVIOUS
    <3>2. new = IterRec(it.root, it.current_node, it.key, it.next_child, it.stack, b)
      BY <2>4, <3>1
    <3> QED  BY <2>3, <3>2, IterIntro
  <2>6. Steps(t, t)
    BY GoodSame, KeepsSame DEF Steps
  <2>7. PICK d \in BOOLEAN : d = FALSE
    OBVIOUS
  <2>8. c = NextRec(t, new, None, d)
    BY <2>2, <2>7
  <2> QED  BY <2>5, <2>6, <2>8, NextIntro
<1>4. OnTheWay(t, f[K])
  BY <1>2, <1>3, NextRounds
<1>5. next(t, it, K) = f[K]
  BY <1>1, NextIs
<1> QED  BY <1>4, <1>5

-----------------------------------------------------------------------------
(* Generations.                                                            *)

(* A later generation accepts what an earlier one does. *)
LEMMA LaterNode ==
  ASSUME NEW N \in Nat, NEW M \in Nat, N <= M, NEW E \in Nat, NEW F \in Nat, E <= F,
         NEW g \in Nat, NEW h \in Nat, g <= h, NEW n, NodeOK(n, N, E, g)
  PROVE  NodeOK(n, M, F, h)
<1>1. NodeOK(n, M, F, g)
  BY MoreRoom
<1>2. 0 .. g - 1 \subseteq 0 .. h - 1
  OBVIOUS
<1> QED  BY <1>1, <1>2 DEF NodeOK, ChildrenOK

(* The copy of the root of generation g that the next one starts with. *)
LEMMA RootCopy ==
  ASSUME NEW N \in Nat, NEW E \in Nat, NEW g \in Nat \ {0}, NEW p, NodeOK(p, N, E, g),
         NEW lo, lo.num_nodes = N, lo.num_entries = E, NEW n, n = MigrateNode(p, g, E + 1)
  PROVE  /\ \A F \in Nat : (p.value = None \/ F > E) => NodeOK(n, N + 1, F, g + 1)
         /\ OwnNode(n, g + 1, lo)
         /\ ~ Own(n) /\ n.generation = g
<1>1. /\ p = MutableNode(p.generation, p.value, p.path, p.children, p.origin)
      /\ IsSeq(p.path)
      /\ p.origin = None \/ WellFormed(p.origin)
      /\ ChildrenOK(p.children, N, g)
  BY DEF NodeOK
<1>2. PICK v : v = IF p.value = None THEN None ELSE E + 1
  OBVIOUS
<1>3. n = MutableNode(g, v, p.path, p.children, p.origin)
  <2>1. PICK a : a = [p EXCEPT !.generation = g]
    OBVIOUS
  <2>2. n = [a EXCEPT !.value = v]
    BY <1>2, <2>1, Zenon DEF MigrateNode
  <2>3. a = MutableNode(g, p.value, p.path, p.children, p.origin)
    BY <1>1, <2>1 DEF MutableNode
  <2> QED  BY <2>2, <2>3 DEF MutableNode
<1>4. n.generation = g /\ n.value = v /\ n.path = p.path /\ n.children = p.children /\ n.origin = p.origin
  BY <1>3 DEF MutableNode
<1>5. n = MutableNode(n.generation, n.value, n.path, n.children, n.origin)
  BY <1>3, <1>4
<1>6. ChildrenOK(n.children, N + 1, g + 1)
  <2>1. 0 .. g - 1 \subseteq 0 .. (g + 1) - 1 /\ 1 .. N \subseteq 1 .. N + 1
    OBVIOUS
  <2> QED  BY <1>1, <1>4, <2>1 DEF ChildrenOK
<1>7. ASSUME NEW F \in Nat, p.value = None \/ F > E
      PROVE  NodeOK(n, N + 1, F, g + 1)
  <2>1. n.value = None \/ n.value \in 1 .. F
    BY <1>2, <1>4, <1>7
  <2>2. n.generation \in 0 .. (g + 1) - 1
    BY <1>4
  <2> QED  BY <1>1, <1>4, <1>5, <1>6, <2>1, <2>2 DEF NodeOK
<1>8. ~ Own(n)
  <2> SUFFICES ASSUME Own(n)
               PROVE  FALSE
    OBVIOUS
  <2>1. p.children.kind = "Owned" /\ p.children.generation = g
    BY <1>4 DEF Own
  <2>2. p.children.generation \in 0 .. g - 1
    BY <1>1, <2>1 DEF ChildrenOK
  <2> QED  BY <2>1, <2>2
<1>9. OwnNode(n, g + 1, lo)
  <2>1. n.value # None => n.value > lo.num_entries
    BY <1>2, <1>4
  <2>2. n.generation = (g + 1) - 1
    BY <1>4
  <2>3. n.children.kind = "Owned" => \A j \in DOMAIN n.children.list : n.children.list[j].index <= lo.num_nodes
    BY <1>1, <1>4 DEF ChildrenOK
  <2> QED  BY <2>1, <2>2, <2>3 DEF OwnNode
<1> QED  BY <1>4, <1>7, <1>8, <1>9

(* u is t with a generation on top of it, with its root and its copies. *)
OnTop(t, u, r) ==
  /\ u.generations = Append(t.generations, Generation(r, Lengths(t)))
  /\ IsTrie(u)
  /\ Below(Lengths(t), Lengths(u))
  /\ \A i \in 1 .. Len(t.nodes) : u.nodes[i] = t.nodes[i]
  /\ \A e \in 1 .. Len(t.entries) : u.entries[e] = t.entries[e]

(* A generation on top needs its own invariant only. *)
LEMMA OnTopInv ==
  ASSUME NEW t, TrieInv(t), NEW u, NEW r, OnTop(t, u, r),
         GenInv(u, Current(t) + 1, Lengths(t), Lengths(u))
  PROVE  /\ TrieInv(u) /\ Current(u) = Current(t) + 1
         /\ \A g \in 1 .. Current(t) : Low(u, g) = Low(t, g) /\ Limit(u, g) = Limit(t, g)
<1>1. IsTrie(t) /\ IsTrie(u) /\ Ordered(t) /\ \A g \in 1 .. Current(t) : GenInv(t, g, Low(t, g), Limit(t, g))
  BY DEF TrieInv, OnTop
<1>2. PICK G : G = Current(t)
  OBVIOUS
<1>3. G \in Nat \ {0} /\ IsSeq(t.generations) /\ Len(t.generations) = G
  BY <1>1, <1>2, LengthsFacts DEF IsTrie, Current
<1>4. PICK new : new = Generation(r, Lengths(t))
  OBVIOUS
<1>5. u.generations = Append(t.generations, new)
  BY <1>4 DEF OnTop
<1>6. /\ Len(u.generations) = G + 1 /\ u.generations[G + 1] = new
      /\ \A i \in 1 .. G : u.generations[i] = t.generations[i]
  BY <1>3, <1>5, SeqAppend
<1>7. Current(u) = G + 1
  BY <1>6 DEF Current
<1>8. Low(u, G + 1) = Lengths(t) /\ \A g \in 1 .. G : Low(u, g) = Low(t, g)
  BY <1>4, <1>6 DEF Low, Generation
<1>9. \A g \in 1 .. G : Limit(u, g) = Limit(t, g)
  <2> SUFFICES ASSUME NEW g \in 1 .. G
               PROVE  Limit(u, g) = Limit(t, g)
    OBVIOUS
  <2>1. Limit(u, g) = Low(u, g + 1)
    BY <1>3, <1>7 DEF Limit
  <2>2. CASE g = G
    BY <1>2, <1>8, <2>1, <2>2 DEF Limit
  <2>3. CASE g # G
    <3>1. g + 1 \in 1 .. G /\ g < G
      BY <1>3, <2>3
    <3> QED  BY <1>2, <1>8, <2>1, <3>1 DEF Limit
  <2> QED  BY <2>2, <2>3
<1>10. IsCheckpoint(Lengths(t)) /\ IsCheckpoint(Lengths(u)) /\ Below(Lengths(t), Lengths(u)) /\ Below(Lengths(t), Lengths(t))
  <2>1. IsCheckpoint(Lengths(t)) /\ IsCheckpoint(Lengths(u))
    BY <1>1, LengthsFacts
  <2> QED  BY <2>1 DEF OnTop, Below, IsCheckpoint
<1>11. \A g \in 1 .. G : IsCheckpoint(Low(t, g)) /\ Below(Low(t, g), Lengths(t))
  BY <1>1, <1>2 DEF Ordered
<1>12. \A g \in 1 .. G : Below(Low(t, g), Lengths(u))
  <2> SUFFICES ASSUME NEW g \in 1 .. G
               PROVE  Below(Low(t, g), Lengths(u))
    OBVIOUS
  <2>1. IsCheckpoint(Low(t, g)) /\ Below(Low(t, g), Lengths(t))
    BY <1>11
  <2> QED  BY <1>10, <2>1 DEF Below, IsCheckpoint
<1>13. \A g \in 1 .. G + 1 : g \in 1 .. G \/ g = G + 1
  BY <1>3
<1>14. Ordered(u)
  <2>1. \A g \in 1 .. G + 1 : IsCheckpoint(Low(u, g)) /\ Below(Low(u, g), Lengths(u))
    BY <1>8, <1>10, <1>11, <1>12, <1>13
  <2>2. ASSUME NEW g \in 1 .. G + 1, NEW h \in 1 .. G + 1, g < h
        PROVE  Below(Low(u, g), Low(u, h))
    <3>1. g \in 1 .. G
      BY <1>3, <2>2
    <3>2. CASE h = G + 1
      BY <1>8, <1>11, <3>1, <3>2
    <3>3. CASE h # G + 1
      <4>1. h \in 1 .. G
        BY <1>13, <3>3
      <4>2. Below(Low(t, g), Low(t, h))
        BY <1>1, <1>2, <2>2, <3>1, <4>1 DEF Ordered
      <4> QED  BY <1>8, <3>1, <4>1, <4>2
    <3> QED  BY <3>2, <3>3
  <2> QED  BY <1>7, <2>1, <2>2 DEF Ordered
<1>15. ASSUME NEW g \in 1 .. G
       PROVE  GenInv(u, g, Low(u, g), Limit(u, g))
  <2>1. PICK lo, h : lo = Low(t, g) /\ h = Limit(t, g)
    OBVIOUS
  <2>2. GenInv(t, g, lo, h) /\ IsCheckpoint(lo)
    BY <1>1, <1>2, <1>11, <2>1
  <2>3. IsCheckpoint(h) /\ Below(h, Lengths(t))
    <3>1. CASE g = G
      BY <1>2, <1>10, <2>1, <3>1 DEF Limit
    <3>2. CASE g # G
      <4>1. g + 1 \in 1 .. G /\ g < G
        BY <1>3, <3>2
      <4> QED  BY <1>2, <1>11, <2>1, <4>1 DEF Limit
    <3> QED  BY <3>1, <3>2
  <2>4. h.num_nodes <= Len(t.nodes) /\ h.num_entries <= Len(t.entries)
    BY <1>1, <2>3, LengthsFacts DEF Below
  <2>5. h.num_nodes \in Nat /\ h.num_entries \in Nat /\ Len(t.nodes) \in Nat /\ Len(t.entries) \in Nat
    BY <1>1, <2>3, LengthsFacts DEF IsCheckpoint
  <2>6. 1 .. h.num_nodes \subseteq 1 .. Len(t.nodes) /\ 1 .. h.num_entries \subseteq 1 .. Len(t.entries)
    BY <2>4, <2>5
  <2>7. /\ \A i \in 1 .. h.num_nodes : u.nodes[i] = t.nodes[i]
        /\ \A e \in 1 .. h.num_entries : u.entries[e] = t.entries[e]
    BY <2>6 DEF OnTop
  <2>8. GenInv(u, g, lo, h)
    BY <1>6, <2>2, <2>3, <2>7, GenInvLocal
  <2> QED  BY <1>8, <1>9, <2>1, <2>8
<1>16. GenInv(u, G + 1, Low(u, G + 1), Limit(u, G + 1))
  <2>1. Limit(u, G + 1) = Lengths(u)
    BY <1>3, <1>7 DEF Limit
  <2> QED  BY <1>2, <1>8, <2>1
<1>17. TrieInv(u)
  BY <1>1, <1>7, <1>13, <1>14, <1>15, <1>16 DEF TrieInv
<1> QED  BY <1>2, <1>7, <1>8, <1>9, <1>17

(* A generation without nodes. *)
LEMMA NewEmpty ==
  ASSUME NEW t, TrieInv(t), NEW u, u.nodes = t.nodes, u.entries = t.entries, Lengths(u) = Lengths(t),
         u.generations[Current(t) + 1].root = None
  PROVE  GenInv(u, Current(t) + 1, Lengths(t), Lengths(u))
<1>1. PICK G, h : G = Current(t) /\ h = Lengths(t)
  OBVIOUS
<1>2. IsTrie(t) /\ Bounds(t) /\ NodesNow(t) /\ EntriesNow(t)
  BY Now
<1>3. /\ h.num_nodes = Len(t.nodes) /\ h.num_values = Len(t.values)
      /\ h.num_borrowed_nodes = Len(t.borrowed_values) /\ h.num_entries = Len(t.entries)
      /\ Len(t.nodes) \in Nat /\ Len(t.entries) \in Nat
      /\ G \in Nat \ {0}
  BY <1>1, <1>2, LengthsFacts DEF Bounds
<1>4. Covered(u, G + 1, h)
  <2>1. ASSUME NEW i \in 1 .. Len(t.nodes)
        PROVE  NodeOK(t.nodes[i], Len(t.nodes), Len(t.entries), G + 1)
    <3>1. NodeOK(t.nodes[i], Len(t.nodes), Len(t.entries), G)
      BY <1>1, <1>2 DEF NodesNow
    <3>2. G \in Nat /\ G + 1 \in Nat /\ G <= G + 1 /\ Len(t.nodes) <= Len(t.nodes) /\ Len(t.entries) <= Len(t.entries)
      BY <1>3
    <3> QED  BY <1>3, <3>1, <3>2, LaterNode
  <2> QED  BY <1>2, <1>3, <2>1 DEF Covered, EntriesNow
<1>5. OwnPart(u, G + 1, h, h)
  <2>1. ~ \E i \in h.num_nodes + 1 .. h.num_nodes : TRUE
    BY <1>3
  <2>2. ~ \E i \in h.num_entries + 1 .. h.num_entries : TRUE
    BY <1>3
  <2> QED  BY <2>1, <2>2 DEF OwnPart
<1>6. Forest(u.nodes, None, G + 1, h.num_nodes, h.num_nodes)
  <2>1. ~ \E i \in h.num_nodes + 1 .. h.num_nodes : TRUE
    BY <1>3
  <2>2. Linked(u.nodes, None, G + 1, h.num_nodes, h.num_nodes, 0, 0)
    BY <2>1 DEF Linked, Points
  <2> QED  BY <2>2 DEF Forest
<1> QED  BY <1>1, <1>4, <1>5, <1>6 DEF GenInv

(* A generation whose only node is its root, which has no children yet. *)
LEMMA NewRoot ==
  ASSUME NEW t, TrieInv(t), NEW u, IsTrie(u), NEW n,
         Len(u.nodes) = Len(t.nodes) + 1, u.nodes[Len(t.nodes) + 1] = n,
         \A i \in 1 .. Len(t.nodes) : u.nodes[i] = t.nodes[i],
         Len(t.entries) <= Len(u.entries), u.values = t.values, u.borrowed_values = t.borrowed_values,
         \A e \in 1 .. Len(t.entries) : u.entries[e] = t.entries[e],
         \A e \in Len(t.entries) + 1 .. Len(u.entries) :
           EntryOK(u.entries[e], Len(t.values), Len(t.borrowed_values)) /\ u.entries[e].kind # "Mutable",
         NodeOK(n, Len(u.nodes), Len(u.entries), Current(t) + 1),
         OwnNode(n, Current(t) + 1, Lengths(t)), ~ Own(n), n.generation = Current(t),
         u.generations[Current(t) + 1].root = Len(t.nodes) + 1
  PROVE  GenInv(u, Current(t) + 1, Lengths(t), Lengths(u))
<1>1. PICK G, lo, h, N, M, E, F : /\ G = Current(t) /\ lo = Lengths(t) /\ h = Lengths(u)
                                  /\ N = Len(t.nodes) /\ M = Len(u.nodes) /\ E = Len(t.entries) /\ F = Len(u.entries)
  OBVIOUS
<1>2. IsTrie(t) /\ Bounds(t) /\ NodesNow(t) /\ EntriesNow(t)
  BY Now
<1>3. /\ lo.num_nodes = N /\ lo.num_entries = E
      /\ N \in Nat /\ E \in Nat /\ G \in Nat \ {0}
  BY <1>1, <1>2, LengthsFacts DEF Bounds
<1>4. /\ h.num_nodes = M /\ h.num_values = Len(t.values)
      /\ h.num_borrowed_nodes = Len(t.borrowed_values) /\ h.num_entries = F
      /\ M \in Nat /\ F \in Nat
  BY <1>1, LengthsFacts DEF IsCheckpoint
<1>5. M = N + 1 /\ E <= F /\ u.nodes[M] = n
  BY <1>1
<1>6. \A i \in 1 .. M : i \in 1 .. N \/ i = M
  BY <1>3, <1>5
<1>7. Covered(u, G + 1, h)
  <2>1. ASSUME NEW i \in 1 .. M
        PROVE  NodeOK(u.nodes[i], M, F, G + 1)
    <3>1. CASE i = M
      BY <1>1, <1>5, <3>1
    <3>2. CASE i # M
      <4>1. i \in 1 .. N
        BY <1>6, <3>2
      <4>2. NodeOK(t.nodes[i], N, E, G)
        BY <1>1, <1>2, <4>1 DEF NodesNow
      <4>3. G \in Nat /\ G + 1 \in Nat /\ G <= G + 1 /\ N <= M /\ E <= F
        BY <1>3, <1>5
      <4>4. PICK x, k : x = t.nodes[i] /\ k = G + 1
        OBVIOUS
      <4>5. /\ N \in Nat /\ M \in Nat /\ N <= M /\ E \in Nat /\ F \in Nat /\ E <= F
            /\ G \in Nat /\ k \in Nat /\ G <= k
        BY <1>3, <1>4, <4>3, <4>4
      <4>6. NodeOK(x, N, E, G)
        BY <4>2, <4>4
      <4>7. NodeOK(x, M, F, k)
        BY ONLY <4>5, <4>6, LaterNode
      <4> QED  BY <1>1, <4>1, <4>4, <4>7
    <3> QED  BY <3>1, <3>2
  <2>2. ASSUME NEW e \in 1 .. F
        PROVE  EntryOK(u.entries[e], Len(t.values), Len(t.borrowed_values))
    <3>1. CASE e \in 1 .. E
      BY <1>1, <1>2, <3>1 DEF EntriesNow
    <3>2. CASE e \notin 1 .. E
      <4>1. e \in E + 1 .. F
        BY <1>3, <1>4, <3>2
      <4> QED  BY <1>1, <4>1
    <3> QED  BY <3>1, <3>2
  <2> QED  BY <1>4, <2>1, <2>2 DEF Covered
<1>8. OwnPart(u, G + 1, lo, h)
  <2>1. \A i \in lo.num_nodes + 1 .. h.num_nodes : i = M
    BY <1>3, <1>4, <1>5
  <2>2. OwnNode(u.nodes[M], G + 1, lo)
    BY <1>1, <1>5
  <2>3. \A e \in lo.num_entries + 1 .. h.num_entries : u.entries[e].kind # "Mutable"
    BY <1>1, <1>3, <1>4
  <2> QED  BY <2>1, <2>2, <2>3 DEF OwnPart
<1>9. Forest(u.nodes, M, G + 1, lo.num_nodes, h.num_nodes)
  <2>1. \A i \in lo.num_nodes + 1 .. h.num_nodes : i = M
    BY <1>3, <1>4, <1>5
  <2>2. \A i, j, k \in Nat : ~ Points(u.nodes, lo.num_nodes, h.num_nodes, i, j, k)
    BY <1>5, <2>1 DEF Points
  <2>3. PICK up : up = [k \in {M} |-> 0]
    OBVIOUS
  <2>4. up[M] = 0
    BY <2>3
  <2>5. M \in lo.num_nodes + 1 .. h.num_nodes /\ u.nodes[M].generation = (G + 1) - 1
    BY <1>1, <1>3, <1>4, <1>5
  <2>6. Linked(u.nodes, M, G + 1, lo.num_nodes, h.num_nodes, up, up)
    BY <2>2, <2>4, <2>5 DEF Linked
  <2> QED  BY <2>6 DEF Forest
<1>10. u.generations[G + 1].root = M
  BY <1>1, <1>5
<1> QED  BY <1>1, <1>7, <1>8, <1>9, <1>10 DEF GenInv

(* The trie u is t with a generation rooted at r on top of its generations. *)
Shape(t, r, gs, es, ns, u) ==
  /\ gs = Append(t.generations, Generation(r, Lengths(t)))
  /\ u = [generations |-> gs, entries |-> es, values |-> t.values,
          borrowed_values |-> t.borrowed_values, nodes |-> ns]

Shaped(t, r, gs, es, ns, u) ==
  /\ IsTrie(u) /\ u.generations = gs /\ u.entries = es /\ u.nodes = ns
  /\ u.values = t.values /\ u.borrowed_values = t.borrowed_values
  /\ u.generations[Current(t) + 1].root = r

(* What new_generation makes. *)
LEMMA NewShape ==
  ASSUME NEW t, IsTrie(t), NEW r, NEW gs, NEW es, IsSeq(es), NEW ns, IsSeq(ns), NEW u,
         Shape(t, r, gs, es, ns, u)
  PROVE  Shaped(t, r, gs, es, ns, u)
<1>0. /\ gs = Append(t.generations, Generation(r, Lengths(t)))
      /\ u = [generations |-> gs, entries |-> es, values |-> t.values,
              borrowed_values |-> t.borrowed_values, nodes |-> ns]
  BY DEF Shape
<1>1. PICK G, new : G = Current(t) /\ new = Generation(r, Lengths(t))
  OBVIOUS
<1>2. G \in Nat \ {0} /\ IsSeq(t.generations) /\ Len(t.generations) = G
  BY <1>1, LengthsFacts DEF IsTrie, Current
<1>3. gs = Append(t.generations, new)
  BY <1>0, <1>1
<1>4. /\ IsSeq(gs) /\ Len(gs) = G + 1 /\ gs[G + 1] = new
      /\ \A i \in 1 .. G : gs[i] = t.generations[i]
  BY <1>2, <1>3, SeqAppend
<1>5. u.generations = gs /\ u.entries = es /\ u.nodes = ns /\ u.values = t.values /\ u.borrowed_values = t.borrowed_values
  BY <1>0
<1>6. new.root = r /\ new = [root |-> new.root, checkpoint |-> new.checkpoint, iterator_roots |-> new.iterator_roots]
  BY <1>1 DEF Generation
<1>7. ASSUME NEW g \in 1 .. G + 1
      PROVE  gs[g] = [root |-> gs[g].root, checkpoint |-> gs[g].checkpoint, iterator_roots |-> gs[g].iterator_roots]
  <2>1. CASE g = G + 1
    BY <1>4, <1>6, <2>1
  <2>2. CASE g # G + 1
    <3>1. g \in 1 .. G
      BY <1>2, <2>2
    <3>2. t.generations[g] = [root |-> t.generations[g].root, checkpoint |-> t.generations[g].checkpoint,
                              iterator_roots |-> t.generations[g].iterator_roots]
      BY <1>2, <3>1 DEF IsTrie
    <3> QED  BY <1>4, <3>1, <3>2
  <2> QED  BY <2>1, <2>2
<1>8. IsSeq(t.values) /\ IsSeq(t.borrowed_values)
  BY DEF IsTrie
<1>9. u = [generations |-> u.generations, entries |-> u.entries, values |-> u.values,
           borrowed_values |-> u.borrowed_values, nodes |-> u.nodes]
  BY <1>0, <1>5
<1>10. Len(gs) >= 1
  BY <1>2, <1>4
<1>11. IsTrie(u)
  BY <1>4, <1>5, <1>7, <1>8, <1>9, <1>10 DEF IsTrie
<1> QED  BY <1>1, <1>4, <1>5, <1>6, <1>11 DEF Shaped

(* The limits of the older generations do not move. *)
Stacked(t, u) ==
  /\ TrieInv(u) /\ Current(u) = Current(t) + 1
  /\ \A g \in 1 .. Current(t) : Low(u, g) = Low(t, g) /\ Limit(u, g) = Limit(t, g)

NewGen(t, r, es, ns) ==
  [generations |-> Append(t.generations, Generation(r, Lengths(t))), entries |-> es, values |-> t.values,
   borrowed_values |-> t.borrowed_values, nodes |-> ns]

(* new_generation on an empty tree. *)
LEMMA NewGenerationEmpty ==
  ASSUME NEW t, TrieInv(t), Root(t) = None
  PROVE  Stacked(t, new_generation(t))
<1>1. PICK u : u = new_generation(t)
  OBVIOUS
<1>2. IsTrie(t)
  BY Now
<1>3. u = NewGen(t, None, t.entries, t.nodes)
  <2>1. PICK gs : gs = Append(t.generations, Generation(None, Lengths(t)))
    OBVIOUS
  <2>2. new_generation(t) = [t EXCEPT !.generations = gs]
    BY <2>1, Zenon DEF new_generation, Lengths
  <2>3. u = [t EXCEPT !.generations = gs]
    BY <1>1, <2>2
  <2>4. t = [generations |-> t.generations, entries |-> t.entries, values |-> t.values,
             borrowed_values |-> t.borrowed_values, nodes |-> t.nodes]
    BY <1>2, TrieFields
  <2>5. u = [generations |-> gs, entries |-> t.entries, values |-> t.values,
             borrowed_values |-> t.borrowed_values, nodes |-> t.nodes]
    BY <2>3, <2>4
  <2> QED  BY <2>1, <2>5 DEF NewGen
<1>4. IsSeq(t.entries) /\ IsSeq(t.nodes)
  BY <1>2 DEF IsTrie
<1>5. PICK gs : gs = Append(t.generations, Generation(None, Lengths(t)))
  OBVIOUS
<1>6. u = [generations |-> gs, entries |-> t.entries, values |-> t.values,
           borrowed_values |-> t.borrowed_values, nodes |-> t.nodes]
  BY <1>3, <1>5 DEF NewGen
<1>7. /\ IsTrie(u) /\ u.generations = gs /\ u.entries = t.entries /\ u.nodes = t.nodes
      /\ u.values = t.values /\ u.borrowed_values = t.borrowed_values
      /\ u.generations[Current(t) + 1].root = None
  <2>1. Shape(t, None, gs, t.entries, t.nodes, u)
    BY <1>5, <1>6 DEF Shape
  <2>2. Shaped(t, None, gs, t.entries, t.nodes, u)
    BY ONLY <1>2, <1>4, <2>1, NewShape
  <2> QED  BY <2>2 DEF Shaped
<1>8. Lengths(u) = Lengths(t)
  BY <1>7 DEF Lengths
<1>9. Below(Lengths(t), Lengths(u))
  <2>1. IsCheckpoint(Lengths(t))
    BY <1>2, LengthsFacts
  <2> QED  BY <1>8, <2>1 DEF Below, IsCheckpoint
<1>10. OnTop(t, u, None)
  BY <1>5, <1>7, <1>9 DEF OnTop
<1>11. GenInv(u, Current(t) + 1, Lengths(t), Lengths(u))
  BY <1>7, <1>8, NewEmpty
<1> QED  BY <1>1, <1>10, <1>11, OnTopInv DEF Stacked

(* new_generation on a tree. *)
LEMMA NewGenerationRoot ==
  ASSUME NEW t, TrieInv(t), Root(t) # None
  PROVE  Stacked(t, new_generation(t))
<1>1. PICK p, G, n, es, ns, u :
        /\ p = t.nodes[Root(t)] /\ G = Current(t)
        /\ n = MigrateNode(p, p.generation + 1, Len(t.entries) + 1)
        /\ es = IF p.value = None THEN t.entries ELSE Append(t.entries, MigrateEntry(t.entries[p.value]))
        /\ ns = Append(t.nodes, n)
        /\ u = new_generation(t)
  OBVIOUS
<1>2. IsTrie(t) /\ Bounds(t) /\ EntriesNow(t)
  BY Now
<1>3. PICK N, E : N = Len(t.nodes) /\ E = Len(t.entries)
  OBVIOUS
<1>4. N \in Nat /\ E \in Nat /\ G \in Nat \ {0} /\ IsSeq(t.nodes) /\ IsSeq(t.entries)
  BY <1>1, <1>2, <1>3 DEF Bounds, IsTrie
<1>5. Root(t) \in Mine(t) /\ p.generation = G - 1
  <2>1. PICK up, pos : Hangs(t, up, pos)
    BY Hanging
  <2> QED  BY <1>1, <2>1 DEF Hangs, NowNode
<1>6. NodeOK(p, N, E, G)
  BY <1>1, <1>3, <1>5, MyNode
<1>7. n = MigrateNode(p, G, E + 1)
  <2>1. p.generation + 1 = G
    BY <1>4, <1>5
  <2> QED  BY <1>1, <1>3, <2>1
<1>8. Lengths(t).num_nodes = N /\ Lengths(t).num_entries = E
  BY <1>2, <1>3, LengthsFacts
<1>9. /\ \A F \in Nat : (p.value = None \/ F > E) => NodeOK(n, N + 1, F, G + 1)
      /\ OwnNode(n, G + 1, Lengths(t))
      /\ ~ Own(n) /\ n.generation = G
  <2>1. PICK lo : lo = Lengths(t)
    OBVIOUS
  <2>2. lo.num_nodes = N /\ lo.num_entries = E
    BY <1>8, <2>1
  <2>3. /\ \A F \in Nat : (p.value = None \/ F > E) => NodeOK(n, N + 1, F, G + 1)
        /\ OwnNode(n, G + 1, lo)
        /\ ~ Own(n) /\ n.generation = G
    BY ONLY <1>4, <1>6, <1>7, <2>2, RootCopy
  <2> QED  BY <2>1, <2>3
<1>10. /\ IsSeq(ns) /\ Len(ns) = N + 1 /\ ns[N + 1] = n
       /\ \A i \in 1 .. N : ns[i] = t.nodes[i]
  <2>1. ns = Append(t.nodes, n)
    BY <1>1
  <2> QED  BY <1>3, <1>4, <2>1, SeqAppend
<1>11. /\ IsSeq(es) /\ Len(es) \in Nat /\ E <= Len(es) /\ (p.value = None \/ Len(es) > E)
       /\ \A e \in 1 .. E : es[e] = t.entries[e]
       /\ \A e \in E + 1 .. Len(es) :
            EntryOK(es[e], Len(t.values), Len(t.borrowed_values)) /\ es[e].kind # "Mutable"
  <2>1. CASE p.value = None
    <3>1. es = t.entries
      BY <1>1, <2>1
    <3>2. Len(es) = E /\ ~ \E e \in E + 1 .. E : TRUE
      BY <1>3, <1>4, <3>1
    <3> QED  BY <1>4, <2>1, <3>1, <3>2
  <2>2. CASE p.value # None
    <3>1. PICK x : x = MigrateEntry(t.entries[p.value])
      OBVIOUS
    <3>2. es = Append(t.entries, x)
      BY <1>1, <2>2, <3>1
    <3>3. /\ IsSeq(es) /\ Len(es) = E + 1 /\ es[E + 1] = x
          /\ \A e \in 1 .. E : es[e] = t.entries[e]
      BY <1>3, <1>4, <3>2, SeqAppend
    <3>4. p.value \in 1 .. E
      BY <1>6, <2>2 DEF NodeOK
    <3>5. EntryOK(t.entries[p.value], Len(t.values), Len(t.borrowed_values))
      BY <1>2, <1>3, <3>4 DEF EntriesNow
    <3>6. EntryOK(x, Len(t.values), Len(t.borrowed_values)) /\ x.kind # "Mutable"
      BY <3>1, <3>5, MigrateEntryOK
    <3>7. \A e \in E + 1 .. Len(es) : e = E + 1
      BY <1>4, <3>3
    <3> QED  BY <1>4, <3>3, <3>6, <3>7
  <2> QED  BY <2>1, <2>2
<1>12. PICK gs : gs = Append(t.generations, Generation(Len(t.nodes) + 1, Lengths(t)))
  OBVIOUS
<1>13. u = [generations |-> gs, entries |-> es, values |-> t.values,
            borrowed_values |-> t.borrowed_values, nodes |-> ns]
  <2>1. new_generation(t) = [t EXCEPT !.generations = gs, !.nodes = ns, !.entries = es]
    BY <1>1, <1>12, Zenon DEF new_generation, Lengths
  <2>2. PICK a : a = [t EXCEPT !.generations = gs]
    OBVIOUS
  <2>3. PICK b : b = [a EXCEPT !.nodes = ns]
    OBVIOUS
  <2>4. u = [b EXCEPT !.entries = es]
    BY <1>1, <2>1, <2>2, <2>3, Zenon
  <2>5. t = [generations |-> t.generations, entries |-> t.entries, values |-> t.values,
             borrowed_values |-> t.borrowed_values, nodes |-> t.nodes]
    BY <1>2, TrieFields
  <2>6. a = [generations |-> gs, entries |-> t.entries, values |-> t.values,
             borrowed_values |-> t.borrowed_values, nodes |-> t.nodes]
    BY <2>2, <2>5
  <2>7. b = [generations |-> gs, entries |-> t.entries, values |-> t.values,
             borrowed_values |-> t.borrowed_values, nodes |-> ns]
    BY <2>3, <2>6
  <2> QED  BY <2>4, <2>7
<1>14. /\ IsTrie(u) /\ u.generations = gs /\ u.entries = es /\ u.nodes = ns
       /\ u.values = t.values /\ u.borrowed_values = t.borrowed_values
       /\ u.generations[Current(t) + 1].root = Len(t.nodes) + 1
  <2>0. PICK r : r = Len(t.nodes) + 1
    OBVIOUS
  <2>1. Shape(t, r, gs, es, ns, u)
    BY <1>12, <1>13, <2>0 DEF Shape
  <2>2. IsSeq(es) /\ IsSeq(ns)
    BY <1>10, <1>11
  <2>3. Shaped(t, r, gs, es, ns, u)
    BY ONLY <1>2, <2>1, <2>2, NewShape
  <2> QED  BY <2>0, <2>3 DEF Shaped
<1>15. Below(Lengths(t), Lengths(u))
  <2>1. /\ Lengths(u).num_nodes = N + 1 /\ Lengths(u).num_entries = Len(es)
        /\ Lengths(u).num_values = Lengths(t).num_values
        /\ Lengths(u).num_borrowed_nodes = Lengths(t).num_borrowed_nodes
    BY <1>10, <1>14 DEF Lengths, Checkpoint
  <2>2. IsCheckpoint(Lengths(t))
    BY <1>2, LengthsFacts
  <2> QED  BY <1>4, <1>8, <1>11, <2>1, <2>2 DEF Below, IsCheckpoint
<1>16. OnTop(t, u, Len(t.nodes) + 1)
  BY <1>3, <1>10, <1>11, <1>12, <1>14, <1>15 DEF OnTop
<1>17. NodeOK(n, Len(u.nodes), Len(u.entries), Current(t) + 1)
  BY <1>1, <1>9, <1>10, <1>11, <1>14
<1>18. GenInv(u, Current(t) + 1, Lengths(t), Lengths(u))
  <2>1. /\ Len(u.nodes) = Len(t.nodes) + 1 /\ u.nodes[Len(t.nodes) + 1] = n
        /\ \A i \in 1 .. Len(t.nodes) : u.nodes[i] = t.nodes[i]
    BY <1>3, <1>10, <1>14
  <2>2. /\ Len(t.entries) <= Len(u.entries)
        /\ \A e \in 1 .. Len(t.entries) : u.entries[e] = t.entries[e]
        /\ \A e \in Len(t.entries) + 1 .. Len(u.entries) :
             EntryOK(u.entries[e], Len(t.values), Len(t.borrowed_values)) /\ u.entries[e].kind # "Mutable"
    BY <1>3, <1>11, <1>14
  <2>3. OwnNode(n, Current(t) + 1, Lengths(t)) /\ ~ Own(n) /\ n.generation = Current(t)
    BY <1>1, <1>9
  <2> QED  BY <1>14, <1>17, <2>1, <2>2, <2>3, NewRoot
<1> QED  BY <1>1, <1>16, <1>18, OnTopInv DEF Stacked

-----------------------------------------------------------------------------
(* Rollback: normalize cuts the arenas back to a checkpoint.               *)

SameCounts(c, d) ==
  /\ c.num_nodes = d.num_nodes /\ c.num_values = d.num_values
  /\ c.num_borrowed_nodes = d.num_borrowed_nodes /\ c.num_entries = d.num_entries

(* Only the counts of a checkpoint matter. *)
LEMMA GenInvCounts ==
  ASSUME NEW t, NEW g, NEW lo, NEW h, NEW k, GenInv(t, g, lo, h), SameCounts(k, h)
  PROVE  GenInv(t, g, lo, k)
<1>1. /\ k.num_nodes = h.num_nodes /\ k.num_values = h.num_values
      /\ k.num_borrowed_nodes = h.num_borrowed_nodes /\ k.num_entries = h.num_entries
  BY DEF SameCounts
<1>2. Covered(t, g, h) /\ OwnPart(t, g, lo, h)
      /\ Forest(t.nodes, t.generations[g].root, g, lo.num_nodes, h.num_nodes)
  BY DEF GenInv
<1>3. Covered(t, g, k)
  BY <1>1, <1>2 DEF Covered
<1>4. OwnPart(t, g, lo, k)
  BY <1>1, <1>2 DEF OwnPart
<1>5. Forest(t.nodes, t.generations[g].root, g, lo.num_nodes, k.num_nodes)
  BY <1>1, <1>2
<1> QED  BY <1>3, <1>4, <1>5 DEF GenInv

(* Cutting a sequence at a place in it. *)
LEMMA TruncateSeq ==
  ASSUME NEW s, IsSeq(s), NEW n \in 0 .. Len(s)
  PROVE  /\ IsSeq(Truncate(s, n)) /\ Len(Truncate(s, n)) = n
         /\ \A i \in 1 .. n : Truncate(s, n)[i] = s[i]
<1>1. Len(s) \in Nat
  BY DEF IsSeq
<1>2. Truncate(s, n) = SubSeq(s, 1, n)
  BY <1>1 DEF Truncate
<1> QED  BY <1>2, SeqPrefix

(* The trie u is t cut back to generation g. *)
Rolled(t, u, g) ==
  /\ IsTrie(u) /\ Current(u) = g
  /\ \A h \in 1 .. g : u.generations[h] = t.generations[h]
  /\ SameCounts(Lengths(u), Low(t, g + 1))
  /\ \A i \in 1 .. Len(u.nodes) : u.nodes[i] = t.nodes[i]
  /\ \A e \in 1 .. Len(u.entries) : u.entries[e] = t.entries[e]
  /\ \A i \in 1 .. Len(u.values) : u.values[i] = t.values[i]
  /\ \A i \in 1 .. Len(u.borrowed_values) : u.borrowed_values[i] = t.borrowed_values[i]

(* normalize cuts every arena at the checkpoint. *)
LEMMA NormalizeShape ==
  ASSUME NEW t, TrieInv(t), NEW g \in Nat \ {0}, g < Current(t)
  PROVE  Rolled(t, normalize(t, g - 1), g)
<1>1. PICK c, u, gs, ns, vs, bs, es :
        /\ c = Low(t, g + 1)
        /\ u = normalize(t, g - 1)
        /\ gs = Truncate(t.generations, g)
        /\ ns = Truncate(t.nodes, c.num_nodes)
        /\ vs = Truncate(t.values, c.num_values)
        /\ bs = Truncate(t.borrowed_values, c.num_borrowed_nodes)
        /\ es = Truncate(t.entries, c.num_entries)
  OBVIOUS
<1>2. IsTrie(t) /\ Ordered(t)
  BY DEF TrieInv
<1>3. Current(t) \in Nat \ {0} /\ g + 1 \in 1 .. Current(t) /\ g \in 0 .. Current(t)
  BY <1>2, LengthsFacts
<1>4. /\ c.num_nodes \in 0 .. Len(t.nodes) /\ c.num_values \in 0 .. Len(t.values)
      /\ c.num_borrowed_nodes \in 0 .. Len(t.borrowed_values) /\ c.num_entries \in 0 .. Len(t.entries)
  <2>1. IsCheckpoint(c) /\ Below(c, Lengths(t))
    BY <1>1, <1>2, <1>3 DEF Ordered
  <2> QED  BY <1>2, <2>1, LengthsFacts DEF IsCheckpoint, Below
<1>5. /\ IsSeq(t.generations) /\ IsSeq(t.nodes) /\ IsSeq(t.values)
      /\ IsSeq(t.borrowed_values) /\ IsSeq(t.entries) /\ Len(t.generations) = Current(t)
  BY <1>2 DEF IsTrie, Current
<1>6. u = [generations |-> gs, nodes |-> ns, values |-> vs, borrowed_values |-> bs, entries |-> es]
  <2>1. (g - 1) + 1 = g /\ (g - 1) + 2 = g + 1 /\ ~ (g >= Current(t))
    BY <1>3
  <2>2. normalize(t, g - 1) =
          [generations |-> Truncate(t.generations, g),
           nodes |-> Truncate(t.nodes, Low(t, g + 1).num_nodes),
           values |-> Truncate(t.values, Low(t, g + 1).num_values),
           borrowed_values |-> Truncate(t.borrowed_values, Low(t, g + 1).num_borrowed_nodes),
           entries |-> Truncate(t.entries, Low(t, g + 1).num_entries)]
    BY <2>1, Zenon DEF normalize, Low
  <2> QED  BY <1>1, <2>2
<1>7. /\ IsSeq(gs) /\ Len(gs) = g /\ \A h \in 1 .. g : gs[h] = t.generations[h]
  BY <1>1, <1>3, <1>5, TruncateSeq
<1>8. /\ IsSeq(ns) /\ Len(ns) = c.num_nodes /\ \A i \in 1 .. c.num_nodes : ns[i] = t.nodes[i]
  BY <1>1, <1>4, <1>5, TruncateSeq
<1>9. /\ IsSeq(vs) /\ Len(vs) = c.num_values /\ \A i \in 1 .. c.num_values : vs[i] = t.values[i]
  BY <1>1, <1>4, <1>5, TruncateSeq
<1>10. /\ IsSeq(bs) /\ Len(bs) = c.num_borrowed_nodes
       /\ \A i \in 1 .. c.num_borrowed_nodes : bs[i] = t.borrowed_values[i]
  BY <1>1, <1>4, <1>5, TruncateSeq
<1>11. /\ IsSeq(es) /\ Len(es) = c.num_entries /\ \A e \in 1 .. c.num_entries : es[e] = t.entries[e]
  BY <1>1, <1>4, <1>5, TruncateSeq
<1>12. u.generations = gs /\ u.nodes = ns /\ u.values = vs /\ u.borrowed_values = bs /\ u.entries = es
  BY <1>6
<1>13. u = [generations |-> u.generations, entries |-> u.entries, values |-> u.values,
            borrowed_values |-> u.borrowed_values, nodes |-> u.nodes]
  BY <1>6, <1>12
<1>14. ASSUME NEW h \in 1 .. g
       PROVE  gs[h] = [root |-> gs[h].root, checkpoint |-> gs[h].checkpoint, iterator_roots |-> gs[h].iterator_roots]
  <2>1. h \in 1 .. Len(t.generations)
    BY <1>3, <1>5
  <2>2. t.generations[h] = [root |-> t.generations[h].root, checkpoint |-> t.generations[h].checkpoint,
                            iterator_roots |-> t.generations[h].iterator_roots]
    BY <1>2, <2>1 DEF IsTrie
  <2> QED  BY <1>7, <2>2
<1>15. IsTrie(u) /\ Current(u) = g
  <2>1. g >= 1
    OBVIOUS
  <2> QED  BY <1>7, <1>8, <1>9, <1>10, <1>11, <1>12, <1>13, <1>14, <2>1 DEF IsTrie, Current
<1>16. SameCounts(Lengths(u), c)
  BY <1>8, <1>9, <1>10, <1>11, <1>12, <1>15, LengthsFacts DEF SameCounts
<1> QED  BY <1>1, <1>7, <1>8, <1>9, <1>10, <1>11, <1>12, <1>15, <1>16 DEF Rolled

(* The limits of the generations that are left stay. *)
Shorter(t, u, g) ==
  /\ TrieInv(u) /\ Current(u) = g
  /\ \A h \in 1 .. g : Low(u, h) = Low(t, h) /\ SameCounts(Limit(u, h), Limit(t, h))

(* What is left after normalize keeps the invariant. *)
LEMMA NormalizeGood ==
  ASSUME NEW t, TrieInv(t), NEW g \in Nat \ {0}, g < Current(t)
  PROVE  Shorter(t, normalize(t, g - 1), g)
<1>1. PICK u : u = normalize(t, g - 1)
  OBVIOUS
<1>2. Rolled(t, u, g)
  BY <1>1, NormalizeShape
<1>3. IsTrie(t) /\ Ordered(t) /\ \A h \in 1 .. Current(t) : GenInv(t, h, Low(t, h), Limit(t, h))
  BY DEF TrieInv
<1>4. /\ IsTrie(u) /\ Current(u) = g
      /\ \A h \in 1 .. g : u.generations[h] = t.generations[h]
      /\ SameCounts(Lengths(u), Low(t, g + 1))
      /\ \A i \in 1 .. Len(u.nodes) : u.nodes[i] = t.nodes[i]
      /\ \A e \in 1 .. Len(u.entries) : u.entries[e] = t.entries[e]
  BY <1>2 DEF Rolled
<1>5. Current(t) \in Nat /\ g + 1 \in 1 .. Current(t) /\ \A h \in 1 .. g : h \in 1 .. Current(t)
  BY <1>3, LengthsFacts
<1>6. \A h \in 1 .. g : Low(u, h) = Low(t, h)
  BY <1>4 DEF Low
<1>7. ASSUME NEW h \in 1 .. g
      PROVE  SameCounts(Limit(u, h), Limit(t, h))
  <2>1. CASE h < g
    <3>1. h + 1 \in 1 .. g /\ h < Current(t)
      BY <1>5, <2>1
    <3>2. Limit(u, h) = Low(u, h + 1) /\ Limit(t, h) = Low(t, h + 1)
      BY <1>4, <2>1, <3>1 DEF Limit
    <3> QED  BY <1>6, <3>1, <3>2 DEF SameCounts
  <2>2. CASE ~ (h < g)
    <3>1. h = g
      BY <2>2
    <3>2. Limit(u, h) = Lengths(u) /\ Limit(t, h) = Low(t, g + 1)
      BY <1>4, <2>2, <3>1 DEF Limit
    <3> QED  BY <1>4, <3>2
  <2> QED  BY <2>1, <2>2
<1>8. ASSUME NEW h \in 1 .. g
      PROVE  Below(Limit(t, h), Lengths(u)) /\ IsCheckpoint(Limit(t, h)) /\ IsCheckpoint(Low(t, h))
             /\ Below(Low(t, h), Lengths(u))
  <2>1. h \in 1 .. Current(t) /\ h + 1 \in 1 .. Current(t) /\ Limit(t, h) = Low(t, h + 1)
    BY <1>5 DEF Limit
  <2>2. IsCheckpoint(Low(t, h)) /\ IsCheckpoint(Low(t, h + 1)) /\ IsCheckpoint(Low(t, g + 1))
    BY <1>3, <1>5, <2>1 DEF Ordered
  <2>3. Below(Low(t, h), Low(t, g + 1))
    <3>1. h < g + 1
      OBVIOUS
    <3> QED  BY <1>3, <1>5, <2>1, <3>1 DEF Ordered
  <2>4. Below(Low(t, h + 1), Low(t, g + 1))
    <3>1. CASE h + 1 < g + 1
      BY <1>3, <1>5, <2>1, <3>1 DEF Ordered
    <3>2. CASE ~ (h + 1 < g + 1)
      <4>1. h + 1 = g + 1
        BY <3>2
      <4> QED  BY <2>2, <4>1 DEF Below, IsCheckpoint
    <3> QED  BY <3>1, <3>2
  <2> QED  BY <1>4, <2>1, <2>2, <2>3, <2>4 DEF Below, SameCounts
<1>9. ASSUME NEW h \in 1 .. g
      PROVE  GenInv(u, h, Low(u, h), Limit(u, h))
  <2>1. GenInv(t, h, Low(t, h), Limit(t, h))
    BY <1>3, <1>5
  <2>2. /\ Limit(t, h).num_nodes \in Nat /\ Limit(t, h).num_entries \in Nat
        /\ Limit(t, h).num_nodes <= Len(u.nodes) /\ Limit(t, h).num_entries <= Len(u.entries)
        /\ Len(u.nodes) \in Nat /\ Len(u.entries) \in Nat
    <3>1. Below(Limit(t, h), Lengths(u)) /\ IsCheckpoint(Limit(t, h))
      BY <1>8
    <3>2. Lengths(u).num_nodes = Len(u.nodes) /\ Lengths(u).num_entries = Len(u.entries) /\ IsCheckpoint(Lengths(u))
      BY <1>4, LengthsFacts
    <3> QED  BY <3>1, <3>2 DEF Below, IsCheckpoint
  <2>3. /\ \A i \in 1 .. Limit(t, h).num_nodes : i \in 1 .. Len(u.nodes)
        /\ \A e \in 1 .. Limit(t, h).num_entries : e \in 1 .. Len(u.entries)
    BY <2>2
  <2>4. /\ \A i \in 1 .. Limit(t, h).num_nodes : u.nodes[i] = t.nodes[i]
        /\ \A e \in 1 .. Limit(t, h).num_entries : u.entries[e] = t.entries[e]
    BY <1>4, <2>3
  <2>5. GenInv(u, h, Low(t, h), Limit(t, h))
    <3>1. u.generations[h] = t.generations[h] /\ IsCheckpoint(Limit(t, h)) /\ IsCheckpoint(Low(t, h))
      BY <1>4, <1>8
    <3> QED  BY ONLY <2>1, <2>4, <3>1, GenInvLocal
  <2>6. GenInv(u, h, Low(u, h), Limit(t, h))
    BY <1>6, <2>5
  <2> QED  BY <1>7, <2>6, GenInvCounts
<1>10. Ordered(u)
  <2>1. \A h \in 1 .. g : IsCheckpoint(Low(u, h)) /\ Below(Low(u, h), Lengths(u))
    BY <1>6, <1>8
  <2>2. \A h, k \in 1 .. g : h < k => Below(Low(u, h), Low(u, k))
    BY <1>3, <1>5, <1>6 DEF Ordered
  <2> QED  BY <1>4, <2>1, <2>2 DEF Ordered
<1>11. TrieInv(u)
  BY <1>4, <1>9, <1>10 DEF TrieInv
<1> QED  BY <1>1, <1>4, <1>6, <1>7, <1>11 DEF Shorter

-----------------------------------------------------------------------------
(* An execution starts with one generation.                                *)

(* A trie of one generation. *)
LEMMA OneGeneration ==
  ASSUME NEW t, IsTrie(t), NEW lo, lo = Checkpoint(0, 0, 0, 0), NEW r,
         t.generations = <<Generation(r, lo)>>, GenInv(t, 1, lo, Lengths(t))
  PROVE  TrieInv(t) /\ Current(t) = 1
<1>1. /\ lo.num_nodes = 0 /\ lo.num_values = 0 /\ lo.num_borrowed_nodes = 0 /\ lo.num_entries = 0
  BY DEF Checkpoint
<1>2. PICK x : x = Generation(r, lo)
  OBVIOUS
<1>3. Current(t) = 1 /\ t.generations[1] = x
  BY <1>2, SeqSmall DEF Current
<1>4. x.checkpoint = lo
  BY <1>2 DEF Generation
<1>5. Low(t, 1) = lo
  BY <1>3, <1>4 DEF Low
<1>6. Limit(t, 1) = Lengths(t)
  BY <1>3 DEF Limit
<1>7. \A g \in 1 .. Current(t) : g = 1
  BY <1>3
<1>8. IsCheckpoint(lo) /\ Below(lo, Lengths(t))
  <2>1. IsCheckpoint(Lengths(t))
    BY LengthsFacts
  <2> QED  BY <1>1, <2>1 DEF IsCheckpoint, Below
<1>9. Ordered(t)
  <2>1. ~ (1 < 1)
    OBVIOUS
  <2> QED  BY <1>5, <1>7, <1>8, <2>1 DEF Ordered
<1> QED  BY <1>3, <1>5, <1>6, <1>7, <1>9 DEF TrieInv

(* A trie of one generation, with the given arenas. *)
One(r, es, bs, ns) ==
  [generations |-> <<Generation(r, Checkpoint(0, 0, 0, 0))>>, entries |-> es, values |-> <<>>,
   borrowed_values |-> bs, nodes |-> ns]

OneTrie(t, r, es, bs, ns) ==
  /\ IsTrie(t) /\ t.generations = <<Generation(r, Checkpoint(0, 0, 0, 0))>>
  /\ t.generations[1].root = r
  /\ t.entries = es /\ t.values = <<>> /\ t.borrowed_values = bs /\ t.nodes = ns
  /\ Lengths(t).num_nodes = Len(ns) /\ Lengths(t).num_entries = Len(es)
  /\ Lengths(t).num_values = 0 /\ Lengths(t).num_borrowed_nodes = Len(bs)

(* The fields of a trie of one generation. *)
LEMMA OneIsTrie ==
  ASSUME NEW r, NEW es, IsSeq(es), NEW bs, IsSeq(bs), NEW ns, IsSeq(ns), NEW t, t = One(r, es, bs, ns)
  PROVE  OneTrie(t, r, es, bs, ns)
<1>1. PICK x, gs, vs : x = Generation(r, Checkpoint(0, 0, 0, 0)) /\ gs = <<x>> /\ vs = <<>>
  OBVIOUS
<1>2. t = [generations |-> gs, entries |-> es, values |-> vs, borrowed_values |-> bs, nodes |-> ns]
  BY <1>1 DEF One
<1>3. t.generations = gs /\ t.entries = es /\ t.values = vs /\ t.borrowed_values = bs /\ t.nodes = ns
  BY <1>2
<1>4. IsSeq(gs) /\ Len(gs) = 1 /\ gs[1] = x
  BY <1>1, SeqSmall
<1>5. IsSeq(vs) /\ Len(vs) = 0
  BY <1>1, SeqSmall
<1>6. x.root = r /\ x = [root |-> x.root, checkpoint |-> x.checkpoint, iterator_roots |-> x.iterator_roots]
  BY <1>1 DEF Generation
<1>7. \A g \in 1 .. Len(gs) : gs[g] = x
  BY <1>4
<1>8. t = [generations |-> t.generations, entries |-> t.entries, values |-> t.values,
           borrowed_values |-> t.borrowed_values, nodes |-> t.nodes]
  BY <1>2, <1>3
<1>9. IsTrie(t)
  BY <1>3, <1>4, <1>5, <1>6, <1>7, <1>8 DEF IsTrie
<1>10. Lengths(t) = Checkpoint(Len(ns), Len(vs), Len(bs), Len(es))
  BY <1>3 DEF Lengths
<1>11. /\ Lengths(t).num_nodes = Len(ns) /\ Lengths(t).num_entries = Len(es)
       /\ Lengths(t).num_values = 0 /\ Lengths(t).num_borrowed_nodes = Len(bs)
  BY <1>5, <1>10 DEF Checkpoint
<1> QED  BY <1>1, <1>3, <1>4, <1>6, <1>9, <1>11 DEF OneTrie

(* The empty trie. *)
LEMMA EmptyGood == TrieInv(empty) /\ Current(empty) = 1
<1>1. PICK t, lo, s : t = empty /\ lo = Checkpoint(0, 0, 0, 0) /\ s = <<>>
  OBVIOUS
<1>2. t = One(None, s, s, s)
  BY <1>1 DEF empty, One
<1>3. IsSeq(s) /\ Len(s) = 0
  BY <1>1, SeqSmall
<1>4. /\ IsTrie(t) /\ t.generations = <<Generation(None, Checkpoint(0, 0, 0, 0))>>
      /\ t.generations[1].root = None
      /\ Lengths(t).num_nodes = Len(s) /\ Lengths(t).num_entries = Len(s)
  <2>1. OneTrie(t, None, s, s, s)
    BY ONLY <1>2, <1>3, OneIsTrie
  <2> QED  BY <2>1 DEF OneTrie
<1>5. lo.num_nodes = 0 /\ lo.num_entries = 0
  BY <1>1 DEF Checkpoint
<1>6. ~ \E i \in 1 .. 0 : TRUE
  OBVIOUS
<1>7. ~ \E i \in 0 + 1 .. 0 : TRUE
  OBVIOUS
<1>8. Covered(t, 1, Lengths(t))
  BY <1>3, <1>4, <1>6 DEF Covered
<1>9. OwnPart(t, 1, lo, Lengths(t))
  BY <1>3, <1>4, <1>5, <1>7 DEF OwnPart
<1>10. Forest(t.nodes, None, 1, lo.num_nodes, Lengths(t).num_nodes)
  <2>1. Linked(t.nodes, None, 1, 0, 0, 0, 0)
    BY <1>7 DEF Linked, Points
  <2> QED  BY <1>3, <1>4, <1>5, <2>1 DEF Forest
<1>11. GenInv(t, 1, lo, Lengths(t))
  BY <1>4, <1>8, <1>9, <1>10 DEF GenInv
<1> QED  BY <1>1, <1>4, <1>11, OneGeneration

(* The root that a persistent tree is thawed to. *)
LEMMA ThawedRoot ==
  ASSUME NEW p, WellFormed(p), NEW E \in Nat, p.value # None => E = 1, NEW n, n = ThawNode(p, 0, 1)
  PROVE  /\ NodeOK(n, 1, E, 1) /\ ~ Own(n) /\ n.generation = 0
         /\ \A lo : lo.num_entries = 0 => OwnNode(n, 1, lo)
<1>1. PICK v : v = IF p.value = None THEN None ELSE 1
  OBVIOUS
<1>2. /\ n.generation = 0 /\ n.value = v /\ n.path = p.path
      /\ n.children = Borrowed(p.children) /\ n.origin = p
  BY <1>1 DEF ThawNode, MutableNode
<1>3. n = MutableNode(n.generation, n.value, n.path, n.children, n.origin)
  BY <1>1, <1>2 DEF ThawNode
<1>4. n.children.kind = "Borrowed" /\ n.children.list = p.children
  BY <1>2 DEF Borrowed
<1>5. IsSeq(p.path) /\ IsSeq(p.children) /\ \A j \in DOMAIN p.children : WellFormed(p.children[j].node)
  BY WellFormedParts
<1>6. ChildrenOK(n.children, 1, 1)
  BY <1>2, <1>4, <1>5 DEF ChildrenOK
<1>7. n.value = None \/ n.value \in 1 .. E
  BY <1>1, <1>2
<1>8. n.generation \in 0 .. 1 - 1
  BY <1>2
<1>9. NodeOK(n, 1, E, 1)
  BY <1>2, <1>3, <1>5, <1>6, <1>7, <1>8 DEF NodeOK
<1>10. n.children.kind # "Owned"
  BY <1>4
<1>11. ASSUME NEW lo, lo.num_entries = 0
       PROVE  OwnNode(n, 1, lo)
  <2>1. n.value # None => n.value > lo.num_entries
    BY <1>1, <1>2, <1>11
  <2>2. n.generation = 1 - 1
    BY <1>2
  <2> QED  BY <1>10, <2>1, <2>2 DEF OwnNode
<1> QED  BY <1>2, <1>9, <1>10, <1>11 DEF Own

(* PersistentState::thaw. *)
LEMMA MakeMutableGood ==
  ASSUME NEW p, WellFormed(p)
  PROVE  TrieInv(make_mutable(p)) /\ Current(make_mutable(p)) = 1
<1>1. PICK t, lo, bs, es, n, ns :
        /\ t = make_mutable(p) /\ lo = Checkpoint(0, 0, 0, 0)
        /\ bs = (IF p.value = None THEN <<>> ELSE <<p.value>>)
        /\ es = <<>> \o [i \in DOMAIN bs |-> ReadOnly(TRUE, i)]
        /\ n = ThawNode(p, 0, 1) /\ ns = <<n>>
  OBVIOUS
<1>2. IsSeq(bs) /\ Len(bs) \in Nat /\ (p.value # None => Len(bs) = 1)
  <2>1. CASE p.value = None
    <3>1. bs = <<>>
      BY <1>1, <2>1
    <3> QED  BY <2>1, <3>1, SeqSmall
  <2>2. CASE p.value # None
    <3>1. bs = <<p.value>>
      BY <1>1, <2>2
    <3> QED  BY <2>2, <3>1, SeqSmall
  <2> QED  BY <2>1, <2>2
<1>3. IsSeq(es) /\ Len(es) = Len(bs) /\ \A i \in 1 .. Len(bs) : es[i] = ReadOnly(TRUE, i)
  <2>1. PICK f : f = [i \in DOMAIN bs |-> ReadOnly(TRUE, i)]
    OBVIOUS
  <2>2. DOMAIN bs = 1 .. Len(bs)
    BY <1>2, SeqDomain
  <2>3. DOMAIN f = DOMAIN bs /\ f = [i \in DOMAIN f |-> f[i]]
    BY <2>1
  <2>4. IsSeq(f) /\ Len(f) = Len(bs)
    BY <1>2, <2>3, SeqSame
  <2>5. es = <<>> \o f
    BY <1>1, <2>1
  <2>6. es = f
    BY <2>4, <2>5, SeqPlain
  <2>7. \A i \in 1 .. Len(bs) : f[i] = ReadOnly(TRUE, i)
    BY <2>1, <2>2
  <2> QED  BY <2>4, <2>6, <2>7
<1>4. t = One(1, es, bs, ns)
  BY <1>1, Zenon DEF make_mutable, One
<1>5. IsSeq(ns) /\ Len(ns) = 1 /\ ns[1] = n
  BY <1>1, SeqSmall
<1>6. /\ IsTrie(t) /\ t.generations = <<Generation(1, Checkpoint(0, 0, 0, 0))>>
      /\ t.generations[1].root = 1 /\ t.nodes = ns /\ t.entries = es
      /\ Lengths(t).num_nodes = Len(ns) /\ Lengths(t).num_entries = Len(es)
      /\ Lengths(t).num_values = 0 /\ Lengths(t).num_borrowed_nodes = Len(bs)
  <2>1. IsSeq(es)
    BY <1>3
  <2>2. IsSeq(bs) /\ IsSeq(ns)
    BY <1>2, <1>5
  <2>3. PICK r : r = 1
    OBVIOUS
  <2>4. t = One(r, es, bs, ns)
    BY <1>4, <2>3
  <2>5. OneTrie(t, r, es, bs, ns)
    BY ONLY <2>1, <2>2, <2>4, OneIsTrie
  <2> QED  BY <2>3, <2>5 DEF OneTrie
<1>7. PICK E : E = Len(es)
  OBVIOUS
<1>8. E \in Nat /\ (p.value # None => E = 1) /\ Len(bs) = E
  BY <1>2, <1>3, <1>7
<1>9. /\ NodeOK(n, 1, E, 1) /\ ~ Own(n) /\ n.generation = 0
      /\ \A l : l.num_entries = 0 => OwnNode(n, 1, l)
  <2>1. n = ThawNode(p, 0, 1)
    BY <1>1
  <2> QED  BY <1>8, <2>1, ThawedRoot
<1>10. lo.num_nodes = 0 /\ lo.num_entries = 0
  BY <1>1 DEF Checkpoint
<1>11. PICK h : h = Lengths(t)
  OBVIOUS
<1>12. h.num_nodes = 1 /\ h.num_entries = E /\ h.num_values = 0 /\ h.num_borrowed_nodes = E
  BY <1>5, <1>6, <1>7, <1>8, <1>11
<1>13. ASSUME NEW e \in 1 .. E
       PROVE  EntryOK(t.entries[e], 0, E) /\ t.entries[e].kind # "Mutable"
  <2>1. PICK x : x = ReadOnly(TRUE, e)
    OBVIOUS
  <2>2. x.kind = "ReadOnly" /\ x.idx = e
    BY <2>1 DEF ReadOnly
  <2>3. x = ReadOnly(TRUE, x.idx) /\ x.idx \in 1 .. E
    BY <2>1, <2>2
  <2>4. t.entries[e] = x
    BY <1>3, <1>6, <1>8, <2>1
  <2>5. EntryOK(x, 0, E)
    BY <2>2, <2>3 DEF EntryOK
  <2> QED  BY <2>2, <2>4, <2>5
<1>14. t.nodes[1] = n
  BY <1>5, <1>6
<1>15. Covered(t, 1, h)
  <2>1. \A i \in 1 .. 1 : i = 1
    OBVIOUS
  <2> QED  BY <1>9, <1>12, <1>13, <1>14, <2>1 DEF Covered
<1>16. \A i \in 0 + 1 .. 1 : i = 1
  OBVIOUS
<1>17. OwnPart(t, 1, lo, h)
  <2>1. \A e \in 0 + 1 .. E : t.entries[e].kind # "Mutable"
    BY <1>8, <1>13
  <2>2. OwnNode(n, 1, lo)
    BY <1>9, <1>10
  <2> QED  BY <1>10, <1>12, <1>14, <1>16, <2>1, <2>2 DEF OwnPart
<1>18. Forest(t.nodes, 1, 1, 0, 1)
  <2>1. \A i, j, k \in Nat : ~ Points(t.nodes, 0, 1, i, j, k)
    BY <1>9, <1>14, <1>16 DEF Points
  <2>2. PICK up : up = [k \in {1} |-> 0]
    OBVIOUS
  <2>3. up[1] = 0
    BY <2>2
  <2>4. 1 \in 0 + 1 .. 1 /\ t.nodes[1].generation = 1 - 1
    BY <1>9, <1>14
  <2>5. Linked(t.nodes, 1, 1, 0, 1, up, up)
    BY <2>1, <2>3, <2>4 DEF Linked
  <2> QED  BY <2>5 DEF Forest
<1>19. GenInv(t, 1, lo, h)
  BY <1>6, <1>10, <1>12, <1>15, <1>17, <1>18 DEF GenInv
<1>20. t.generations = <<Generation(1, lo)>> /\ GenInv(t, 1, lo, Lengths(t))
  BY <1>1, <1>6, <1>11, <1>19
<1> QED
  <2>1. lo = Checkpoint(0, 0, 0, 0)
    BY <1>1
  <2>2. TrieInv(t) /\ Current(t) = 1
    BY ONLY <1>6, <1>20, <2>1, OneGeneration
  <2> QED  BY <1>1, <2>2

-----------------------------------------------------------------------------
(* Freezing gives a persistent tree.                                       *)

(* A frozen node over frozen nodes is a persistent tree. *)
LEMMA FreezeNodeGood ==
  ASSUME NEW t, NEW N, NEW E, NEW g, NEW n, NodeOK(n, N, E, g), NEW fr,
         \A i \in 1 .. N : WellFormed(fr[i].node)
  PROVE  WellFormed(FreezeNode(t, n, fr).node)
<1>1. PICK list, v, changed, owned, x, kids :
        /\ list = n.children.list
        /\ v = freeze_value(t, n.value)
        /\ owned = (n.children.kind = "Owned")
        /\ changed = (v.changed \/ (owned /\ \E j \in DOMAIN list : fr[list[j].index].changed))
        /\ x = [j \in DOMAIN list |-> [key |-> list[j].key, node |-> fr[list[j].index].node]]
        /\ kids = IF owned THEN x ELSE list
  OBVIOUS
<1>2. IsSeq(n.path) /\ (n.origin = None \/ WellFormed(n.origin)) /\ ChildrenOK(n.children, N, g)
  BY DEF NodeOK
<1>3. IsSeq(kids) /\ \A j \in DOMAIN kids : WellFormed(kids[j].node)
  <2>1. IsSeq(list)
    BY <1>1, <1>2 DEF ChildrenOK
  <2>2. CASE n.children.kind = "Owned"
    <3>1. kids = x
      BY <1>1, <2>2
    <3>2. DOMAIN x = DOMAIN list /\ x = [j \in DOMAIN x |-> x[j]]
      BY <1>1
    <3>3. IsSeq(x)
      BY <2>1, <3>2, SeqSame
    <3>4. ASSUME NEW j \in DOMAIN x
          PROVE  WellFormed(x[j].node)
      <4>1. j \in DOMAIN list
        BY <3>2
      <4>2. list[j].index \in 1 .. N
        BY <1>1, <1>2, <2>2, <4>1 DEF ChildrenOK
      <4>3. x[j].node = fr[list[j].index].node
        BY <1>1, <4>1
      <4> QED  BY <4>2, <4>3
    <3> QED  BY <3>1, <3>3, <3>4
  <2>3. CASE n.children.kind # "Owned"
    <3>1. kids = list
      BY <1>1, <2>3
    <3>2. \A j \in DOMAIN list : WellFormed(list[j].node)
      BY <1>1, <1>2, <2>3 DEF ChildrenOK
    <3> QED  BY <2>1, <3>1, <3>2
  <2> QED  BY <2>2, <2>3
<1>4. PICK p : p = [value |-> v.value, path |-> n.path, children |-> kids]
  OBVIOUS
<1>5. p.path = n.path /\ p.children = kids
  BY <1>4
<1>6. WellFormed(p)
  BY <1>2, <1>3, <1>5, WellFormedNode
<1>7. FreezeNode(t, n, fr) = IF n.origin # None /\ ~ changed THEN [changed |-> FALSE, node |-> n.origin]
                             ELSE [changed |-> TRUE, node |-> p]
  BY <1>1, <1>4, Zenon DEF FreezeNode
<1>8. CASE n.origin # None /\ ~ changed
  <2>1. FreezeNode(t, n, fr).node = n.origin
    BY <1>7, <1>8
  <2> QED  BY <1>2, <1>8, <2>1
<1>9. CASE ~ (n.origin # None /\ ~ changed)
  <2>1. FreezeNode(t, n, fr).node = p
    BY <1>7, <1>9
  <2> QED  BY <1>6, <2>1
<1> QED  BY <1>8, <1>9

FreezeStep(t, fr) == [i \in DOMAIN t.nodes |-> FreezeNode(t, t.nodes[i], fr)]
FreezeCut(t) ==
  [i \in DOMAIN t.nodes |-> [changed |-> TRUE, node |-> [value |-> None, path |-> <<>>, children |-> <<>>]]]
FreezeFun(f, K, t, c) == f = [n \in 0 .. K |-> IF n = 0 THEN c ELSE FreezeStep(t, f[n - 1])]

(* The frozen forms of all nodes are persistent trees. *)
Frozen(t, fr) == \A i \in 1 .. Len(t.nodes) : WellFormed(fr[i].node)

(* freeze as a function of its rounds. *)
LEMMA FreezeIs ==
  ASSUME NEW t
  PROVE  freeze(t) = IF Root(t) = None THEN None
                     ELSE (CHOOSE g : FreezeFun(g, Len(t.nodes), t, FreezeCut(t)))[Len(t.nodes)][Root(t)].node
BY Zenon DEF freeze, FreezeFun, FreezeStep, FreezeCut

(* What freeze starts from. *)
LEMMA FreezeCutGood ==
  ASSUME NEW t, TrieInv(t)
  PROVE  Frozen(t, FreezeCut(t))
<1>1. DOMAIN t.nodes = 1 .. Len(t.nodes)
  BY Now, LengthsFacts
<1>2. PICK s, p : s = <<>> /\ p = [value |-> None, path |-> s, children |-> s]
  OBVIOUS
<1>3. IsSeq(s) /\ Len(s) = 0
  BY <1>2, SeqSmall
<1>4. ~ \E j \in DOMAIN s : TRUE
  <2>1. DOMAIN s = 1 .. 0 /\ ~ \E j \in 1 .. 0 : TRUE
    BY <1>3, SeqDomain
  <2> QED  BY <2>1
<1>5. p.path = s /\ p.children = s
  BY <1>2
<1>6. WellFormed(p)
  BY <1>3, <1>4, <1>5, WellFormedNode
<1>7. \A i \in DOMAIN t.nodes : FreezeCut(t)[i].node = p
  BY <1>2 DEF FreezeCut
<1> QED  BY <1>1, <1>6, <1>7 DEF Frozen

(* One level of freeze. *)
LEMMA FreezeStepGood ==
  ASSUME NEW t, TrieInv(t), NEW fr, Frozen(t, fr)
  PROVE  Frozen(t, FreezeStep(t, fr))
<1>1. DOMAIN t.nodes = 1 .. Len(t.nodes)
  BY Now, LengthsFacts
<1>2. ASSUME NEW i \in 1 .. Len(t.nodes)
      PROVE  WellFormed(FreezeStep(t, fr)[i].node)
  <2>1. NodeOK(t.nodes[i], Len(t.nodes), Len(t.entries), Current(t))
    BY Now DEF NodesNow
  <2>2. WellFormed(FreezeNode(t, t.nodes[i], fr).node)
    BY <2>1, FreezeNodeGood DEF Frozen
  <2>3. FreezeStep(t, fr)[i] = FreezeNode(t, t.nodes[i], fr)
    BY <1>1 DEF FreezeStep
  <2> QED  BY <2>2, <2>3
<1> QED  BY <1>2 DEF Frozen

(* freeze is defined for any number of levels. *)
LEMMA FreezeExists ==
  ASSUME NEW t, NEW c, NEW K \in Nat
  PROVE  \E f : FreezeFun(f, K, t, c)
<1> DEFINE T == {k \in Nat : ~ \E f : FreezeFun(f, k, t, c)}
<1> SUFFICES ASSUME T # {}
             PROVE  FALSE
  OBVIOUS
<1>1. PICK k \in T : \A m \in T : k <= m
  BY LeastNat
<1>2. k \in Nat /\ ~ \E f : FreezeFun(f, k, t, c)
  OBVIOUS
<1> HIDE DEF T
<1>3. CASE k = 0
  <2>1. PICK g : g = [n \in 0 .. 0 |-> c]
    OBVIOUS
  <2>2. g = [n \in 0 .. 0 |-> IF n = 0 THEN c ELSE FreezeStep(t, g[n - 1])]
    BY <2>1
  <2> QED  BY <1>2, <1>3, <2>2 DEF FreezeFun
<1>4. CASE k # 0
  <2>1. k - 1 \in Nat /\ k - 1 \notin T
    BY <1>1, <1>2, <1>4
  <2>2. PICK f : FreezeFun(f, k - 1, t, c)
    BY <2>1 DEF T
  <2>3. PICK g : g = [n \in 0 .. k |-> IF n = k THEN FreezeStep(t, f[k - 1]) ELSE f[n]]
    OBVIOUS
  <2>4. \A n \in 0 .. k - 1 : f[n] = IF n = 0 THEN c ELSE FreezeStep(t, f[n - 1])
    BY <2>2 DEF FreezeFun
  <2>5. \A n \in 0 .. k : g[n] = IF n = 0 THEN c ELSE FreezeStep(t, g[n - 1])
    <3> SUFFICES ASSUME NEW n \in 0 .. k
                 PROVE  g[n] = IF n = 0 THEN c ELSE FreezeStep(t, g[n - 1])
      OBVIOUS
    <3>1. CASE n = k
      <4>1. n - 1 \in 0 .. k /\ n - 1 # k
        BY <1>2, <1>4, <3>1
      <4>2. g[n] = FreezeStep(t, f[k - 1]) /\ g[n - 1] = f[k - 1]
        BY <2>3, <3>1, <4>1
      <4> QED  BY <1>4, <3>1, <4>2
    <3>2. CASE n # k
      <4>1. n \in 0 .. k - 1 /\ (n # 0 => n - 1 \in 0 .. k /\ n - 1 # k)
        BY <1>2, <3>2
      <4>2. g[n] = f[n] /\ (n # 0 => g[n - 1] = f[n - 1])
        BY <2>3, <3>2, <4>1
      <4> QED  BY <2>4, <4>1, <4>2
    <3> QED  BY <3>1, <3>2
  <2>6. g = [n \in 0 .. k |-> g[n]]
    BY <2>3
  <2>7. g = [n \in 0 .. k |-> IF n = 0 THEN c ELSE FreezeStep(t, g[n - 1])]
    BY <2>5, <2>6
  <2> QED  BY <1>2, <2>7 DEF FreezeFun
<1> QED  BY <1>3, <1>4

(* After n levels. *)
LEMMA FreezeRounds ==
  ASSUME NEW t, TrieInv(t), NEW c, Frozen(t, c), NEW K \in Nat, NEW f, FreezeFun(f, K, t, c)
  PROVE  Frozen(t, f[K])
<1>0. \A d \in 0 .. K : f[d] = IF d = 0 THEN c ELSE FreezeStep(t, f[d - 1])
  BY DEF FreezeFun
<1> DEFINE T == {k \in Nat : k <= K /\ ~ Frozen(t, f[k])}
<1> SUFFICES ASSUME T # {}
             PROVE  FALSE
  OBVIOUS
<1>1. PICK k \in T : \A m \in T : k <= m
  BY LeastNat
<1>2. k \in 0 .. K /\ ~ Frozen(t, f[k])
  OBVIOUS
<1>3. CASE k = 0
  BY <1>0, <1>2, <1>3
<1>4. CASE k # 0
  <2>1. k - 1 \in Nat /\ k - 1 <= K /\ k - 1 \notin T
    BY <1>1, <1>2, <1>4
  <2>2. Frozen(t, f[k - 1])
    BY <2>1
  <2>3. f[k] = FreezeStep(t, f[k - 1])
    BY <1>0, <1>2, <1>4
  <2>4. Frozen(t, FreezeStep(t, f[k - 1]))
    BY <2>2, FreezeStepGood
  <2> QED  BY <1>2, <2>3, <2>4
<1> QED  BY <1>3, <1>4

(* The persistent tree that freeze gives is well-formed. *)
LEMMA FreezeGood ==
  ASSUME NEW t, TrieInv(t), freeze(t) # None
  PROVE  WellFormed(freeze(t))
<1>1. PICK f : f = CHOOSE g : FreezeFun(g, Len(t.nodes), t, FreezeCut(t))
  OBVIOUS
<1>2. Len(t.nodes) \in Nat
  BY Now DEF Bounds
<1>3. FreezeFun(f, Len(t.nodes), t, FreezeCut(t))
  <2>1. \E g : FreezeFun(g, Len(t.nodes), t, FreezeCut(t))
    BY <1>2, FreezeExists
  <2> QED  BY <1>1, <2>1, Zenon
<1>4. Root(t) # None /\ freeze(t) = f[Len(t.nodes)][Root(t)].node
  BY <1>1, FreezeIs
<1>5. Frozen(t, f[Len(t.nodes)])
  BY <1>2, <1>3, FreezeCutGood, FreezeRounds
<1>6. Root(t) \in 1 .. Len(t.nodes)
  <2>1. PICK up, pos : Hangs(t, up, pos)
    BY <1>4, Hanging
  <2>2. Root(t) \in Mine(t)
    BY <1>4, <2>1 DEF Hangs
  <2>3. Lo(t).num_nodes \in Nat
    BY Now DEF Bounds
  <2> QED  BY <1>2, <2>2, <2>3 DEF Mine
<1> QED  BY <1>4, <1>5, <1>6 DEF Frozen

-----------------------------------------------------------------------------
(* Ids and iterators live as long as their generation.                     *)

(* Every generation of t is one of u, and reaches at least as far there. *)
Wider(t, u) ==
  /\ TrieInv(u) /\ Current(t) <= Current(u)
  /\ \A g \in 1 .. Current(t) :
       /\ g \in 1 .. Current(u)
       /\ Low(u, g) = Low(t, g)
       /\ Limit(t, g).num_nodes \in Nat /\ Limit(u, g).num_nodes \in Nat
       /\ Limit(t, g).num_entries \in Nat /\ Limit(u, g).num_entries \in Nat
       /\ Limit(t, g).num_nodes <= Limit(u, g).num_nodes
       /\ Limit(t, g).num_entries <= Limit(u, g).num_entries
       /\ Low(t, g).num_nodes \in Nat /\ Low(t, g).num_entries \in Nat

(* The checkpoints and the limits are checkpoints. *)
LEMMA LimitFacts ==
  ASSUME NEW t, TrieInv(t)
  PROVE  /\ Current(t) \in Nat \ {0}
         /\ \A g \in 1 .. Current(t) : IsCheckpoint(Low(t, g)) /\ IsCheckpoint(Limit(t, g))
<1>1. IsTrie(t) /\ Ordered(t)
  BY DEF TrieInv
<1>2. Current(t) \in Nat \ {0} /\ IsCheckpoint(Lengths(t))
  BY <1>1, LengthsFacts
<1>3. \A g \in 1 .. Current(t) : IsCheckpoint(Low(t, g))
  BY <1>1 DEF Ordered
<1>4. ASSUME NEW g \in 1 .. Current(t)
      PROVE  IsCheckpoint(Limit(t, g))
  <2>1. CASE g < Current(t)
    <3>1. g + 1 \in 1 .. Current(t) /\ Limit(t, g) = Low(t, g + 1)
      BY <1>2, <2>1 DEF Limit
    <3> QED  BY <1>3, <3>1
  <2>2. CASE ~ (g < Current(t))
    BY <1>2, <2>2 DEF Limit
  <2> QED  BY <2>1, <2>2
<1> QED  BY <1>2, <1>3, <1>4

(* A good step makes room in the current generation only. *)
LEMMA GoodWider ==
  ASSUME NEW t, TrieInv(t), NEW u, Good(t, u)
  PROVE  Wider(t, u)
<1>1. /\ TrieInv(u) /\ Current(u) = Current(t)
      /\ \A g \in 1 .. Current(t) - 1 : u.generations[g] = t.generations[g]
      /\ Low(u, Current(t)) = Low(t, Current(t)) /\ Below(Lengths(t), Lengths(u))
  BY DEF Good, Frame
<1>2. Current(t) \in Nat \ {0}
  BY LimitFacts
<1>3. \A g \in 1 .. Current(t) : Low(u, g) = Low(t, g)
  <2> SUFFICES ASSUME NEW g \in 1 .. Current(t)
               PROVE  Low(u, g) = Low(t, g)
    OBVIOUS
  <2>1. CASE g = Current(t)
    BY <1>1, <2>1
  <2>2. CASE g # Current(t)
    <3>1. g \in 1 .. Current(t) - 1
      BY <1>2, <2>2
    <3> QED  BY <1>1, <3>1 DEF Low
  <2> QED  BY <2>1, <2>2
<1>4. ASSUME NEW g \in 1 .. Current(t)
      PROVE  /\ Limit(t, g).num_nodes <= Limit(u, g).num_nodes
             /\ Limit(t, g).num_entries <= Limit(u, g).num_entries
  <2>1. CASE g < Current(t)
    <3>1. g + 1 \in 1 .. Current(t)
      BY <1>2, <2>1
    <3>2. Limit(t, g) = Low(t, g + 1) /\ Limit(u, g) = Low(u, g + 1)
      BY <1>1, <2>1 DEF Limit
    <3>3. Limit(t, g) = Limit(u, g) /\ IsCheckpoint(Limit(t, g))
      BY <1>3, <3>1, <3>2, LimitFacts
    <3> QED  BY <3>3 DEF IsCheckpoint
  <2>2. CASE ~ (g < Current(t))
    <3>1. Limit(t, g) = Lengths(t) /\ Limit(u, g) = Lengths(u)
      BY <1>1, <2>2 DEF Limit
    <3> QED  BY <1>1, <3>1 DEF Below
  <2> QED  BY <2>1, <2>2
<1>5. \A g \in 1 .. Current(t) : /\ IsCheckpoint(Low(t, g)) /\ IsCheckpoint(Limit(t, g))
                                 /\ IsCheckpoint(Limit(u, g))
  BY <1>1, LimitFacts
<1>6. Current(t) <= Current(u)
  BY <1>1, <1>2
<1> QED  BY <1>1, <1>3, <1>4, <1>5, <1>6 DEF Wider, IsCheckpoint

(* A new generation leaves the limits alone. *)
LEMMA StackedWider ==
  ASSUME NEW t, TrieInv(t), NEW u, Stacked(t, u)
  PROVE  Wider(t, u)
<1>1. /\ TrieInv(u) /\ Current(u) = Current(t) + 1
      /\ \A g \in 1 .. Current(t) : Low(u, g) = Low(t, g) /\ Limit(u, g) = Limit(t, g)
  BY DEF Stacked
<1>2. Current(t) \in Nat /\ \A g \in 1 .. Current(t) : IsCheckpoint(Low(t, g)) /\ IsCheckpoint(Limit(t, g))
  BY LimitFacts
<1>3. Current(t) <= Current(u) /\ \A g \in 1 .. Current(t) : g \in 1 .. Current(u)
  BY <1>1, <1>2
<1> QED  BY <1>1, <1>2, <1>3 DEF Wider, IsCheckpoint

(* An entry id stays in its generation. *)
LEMMA WiderId ==
  ASSUME NEW t, NEW u, Wider(t, u), NEW e, IdOK(t, e)
  PROVE  IdOK(u, e)
<1>1. PICK g, x : g = e.gen /\ x = e.id
  OBVIOUS
<1>2. g \in 1 .. Current(t) /\ x \in Low(t, g).num_entries + 1 .. Limit(t, g).num_entries
  BY <1>1 DEF IdOK
<1>3. /\ g \in 1 .. Current(u) /\ Low(u, g) = Low(t, g)
      /\ Limit(t, g).num_entries \in Nat /\ Limit(u, g).num_entries \in Nat
      /\ Limit(t, g).num_entries <= Limit(u, g).num_entries /\ Low(t, g).num_entries \in Nat
  BY <1>2 DEF Wider
<1>4. x \in Low(u, g).num_entries + 1 .. Limit(u, g).num_entries
  BY <1>2, <1>3
<1> QED  BY <1>1, <1>3, <1>4 DEF IdOK

(* An iterator in a longer arena. *)
LEMMA IteratorRoom ==
  ASSUME NEW it, NEW lo \in Nat, NEW hi \in Nat, NEW more \in Nat, hi <= more, IsIterator(it, lo, hi)
  PROVE  IsIterator(it, lo, more)
<1>1. lo + 1 .. hi \subseteq lo + 1 .. more
  OBVIOUS
<1> QED  BY <1>1 DEF IsIterator

(* A held iterator stays in its generation. *)
LEMMA WiderHeld ==
  ASSUME NEW t, NEW u, Wider(t, u), NEW x, HeldOK(t, x)
  PROVE  HeldOK(u, x)
<1>1. PICK g, it, lo, hi, more : /\ g = x.gen /\ it = x.it
                                 /\ lo = Low(t, g).num_nodes /\ hi = Limit(t, g).num_nodes
                                 /\ more = Limit(u, g).num_nodes
  OBVIOUS
<1>2. g \in 1 .. Current(t) /\ IsIterator(it, lo, hi)
  BY <1>1 DEF HeldOK
<1>3. g \in 1 .. Current(u) /\ Low(u, g) = Low(t, g) /\ lo \in Nat /\ hi \in Nat /\ more \in Nat /\ hi <= more
  BY <1>1, <1>2 DEF Wider
<1>4. IsIterator(it, lo, more)
  BY <1>2, <1>3, IteratorRoom
<1> QED  BY <1>1, <1>3, <1>4 DEF HeldOK

(* What an operation of the current generation hands out. *)
LEMMA NewId ==
  ASSUME NEW t, TrieInv(t), NEW u, Good(t, u), NEW x, IsEntry(u, x), NEW e, e.gen = Current(t), e.id = x
  PROVE  IdOK(u, e)
<1>1. TrieInv(u) /\ Current(u) = Current(t)
  BY DEF Good, Frame
<1>2. Current(u) \in Nat \ {0} /\ IsTrie(u)
  BY <1>1, LimitFacts DEF TrieInv
<1>3. Limit(u, Current(u)) = Lengths(u) /\ Lengths(u).num_entries = Len(u.entries)
  BY <1>2, LengthsFacts DEF Limit
<1>4. e.gen \in 1 .. Current(u)
  BY <1>1, <1>2
<1>5. e.id \in Low(u, e.gen).num_entries + 1 .. Limit(u, e.gen).num_entries
  BY <1>1, <1>3 DEF IsEntry, Lo
<1> QED  BY <1>4, <1>5 DEF IdOK

(* A new iterator belongs to the current generation. *)
LEMMA NewHeld ==
  ASSUME NEW t, TrieInv(t), NEW u, Good(t, u), NEW it, IterOK(u, it), NEW given, NEW snap,
         NEW x, x = [it |-> it, gen |-> Current(t), given |-> given, snap |-> snap]
  PROVE  HeldOK(u, x)
<1>1. TrieInv(u) /\ Current(u) = Current(t)
  BY DEF Good, Frame
<1>2. Current(u) \in Nat \ {0} /\ IsTrie(u)
  BY <1>1, LimitFacts DEF TrieInv
<1>3. Limit(u, Current(u)) = Lengths(u) /\ Lengths(u).num_nodes = Len(u.nodes)
  BY <1>2, LengthsFacts DEF Limit
<1>4. x.it = it /\ x.gen = Current(u) /\ x.given = given /\ x.snap = snap
  BY <1>1
<1>5. x = [it |-> x.it, gen |-> x.gen, given |-> x.given, snap |-> x.snap]
  BY <1>1, <1>4
<1>6. x.gen \in 1 .. Current(u)
  BY <1>2, <1>4
<1>7. IsIterator(x.it, Low(u, x.gen).num_nodes, Limit(u, x.gen).num_nodes)
  BY <1>3, <1>4 DEF IterOK, Lo
<1> QED  BY <1>5, <1>6, <1>7 DEF HeldOK

(* The iterator of the current generation. *)
LEMMA HeldNow ==
  ASSUME NEW t, TrieInv(t), NEW x, HeldOK(t, x), x.gen = Current(t)
  PROVE  IterOK(t, x.it)
<1>1. Current(t) \in Nat \ {0} /\ IsTrie(t)
  BY LimitFacts DEF TrieInv
<1>2. Limit(t, Current(t)) = Lengths(t) /\ Lengths(t).num_nodes = Len(t.nodes)
  BY <1>1, LengthsFacts DEF Limit
<1> QED  BY <1>2 DEF HeldOK, IterOK, Lo

(* A rollback keeps what belongs to the generations that are left. *)
LEMMA ShorterId ==
  ASSUME NEW t, NEW u, NEW g \in Nat, Shorter(t, u, g), NEW e, IdOK(t, e), e.gen <= g, Current(t) \in Nat
  PROVE  IdOK(u, e)
<1>1. PICK k, x : k = e.gen /\ x = e.id
  OBVIOUS
<1>2. k \in 1 .. Current(t) /\ x \in Low(t, k).num_entries + 1 .. Limit(t, k).num_entries
  BY <1>1 DEF IdOK
<1>3. k \in 1 .. g
  BY <1>1, <1>2
<1>4. Current(u) = g /\ Low(u, k) = Low(t, k) /\ Limit(u, k).num_entries = Limit(t, k).num_entries
  BY <1>3 DEF Shorter, SameCounts
<1> QED  BY <1>1, <1>2, <1>3, <1>4 DEF IdOK

(* The iterators of the generations that are left stay. *)
LEMMA ShorterHeld ==
  ASSUME NEW t, NEW u, NEW g \in Nat, Shorter(t, u, g), NEW x, HeldOK(t, x), x.gen <= g, Current(t) \in Nat
  PROVE  HeldOK(u, x)
<1>1. PICK k : k = x.gen
  OBVIOUS
<1>2. k \in 1 .. Current(t) /\ IsIterator(x.it, Low(t, k).num_nodes, Limit(t, k).num_nodes)
  BY <1>1 DEF HeldOK
<1>3. k \in 1 .. g
  BY <1>1, <1>2
<1>4. Current(u) = g /\ Low(u, k) = Low(t, k) /\ Limit(u, k).num_nodes = Limit(t, k).num_nodes
  BY <1>3 DEF Shorter, SameCounts
<1>5. x = [it |-> x.it, gen |-> x.gen, given |-> x.given, snap |-> x.snap]
  BY DEF HeldOK
<1> QED  BY <1>1, <1>2, <1>3, <1>4, <1>5 DEF HeldOK

-----------------------------------------------------------------------------
(* The operations preserve the invariant.                                  *)

KeepIds == \A e \in ids' : e \in ids \/ IdOK(trie', e)
KeepIters ==
  /\ iters' = [i \in Iters |-> iters'[i]]
  /\ \A i \in Iters : iters'[i] # None => iters'[i] = iters[i] \/ HeldOK(trie', iters'[i])

(* A step that makes room keeps the invariant. *)
LEMMA InvStep ==
  ASSUME Inv, Wider(trie, trie'), KeepIds, KeepIters, UNCHANGED persistent
  PROVE  Inv'
<1>1. TrieInv(trie')
  BY DEF Wider
<1>2. IdsInv'
  <2> SUFFICES ASSUME NEW e \in ids'
               PROVE  IdOK(trie', e)
    BY DEF IdsInv
  <2>1. CASE e \in ids
    <3>1. IdOK(trie, e)
      BY <2>1 DEF Inv, IdsInv
    <3> QED  BY <3>1, WiderId
  <2>2. CASE e \notin ids
    BY <2>2 DEF KeepIds
  <2> QED  BY <2>1, <2>2
<1>3. ItersInv'
  <2>1. iters' = [i \in Iters |-> iters'[i]]
    BY DEF KeepIters
  <2>2. ASSUME NEW i \in Iters, iters'[i] # None
        PROVE  HeldOK(trie', iters'[i])
    <3>1. CASE iters'[i] = iters[i]
      <4>1. HeldOK(trie, iters[i])
        BY <2>2, <3>1 DEF Inv, ItersInv
      <4>2. HeldOK(trie', iters[i])
        BY <4>1, WiderHeld
      <4> QED  BY <3>1, <4>2
    <3>2. CASE iters'[i] # iters[i]
      BY <2>2, <3>2 DEF KeepIters
    <3> QED  BY <3>1, <3>2
  <2> QED  BY <2>1, <2>2 DEF ItersInv
<1>4. PersistentInv'
  BY DEF Inv, PersistentInv
<1> QED  BY <1>1, <1>2, <1>3, <1>4 DEF Inv

(* Iterators that did not change. *)
LEMMA SameIters ==
  ASSUME Inv, UNCHANGED iters
  PROVE  KeepIters
BY DEF Inv, ItersInv, KeepIters

(* Entry ids that did not change. *)
LEMMA SameIds ==
  ASSUME UNCHANGED ids
  PROVE  KeepIds
BY DEF KeepIds

(* A new entry id. *)
LEMMA RememberId ==
  ASSUME Inv, Good(trie, trie'), NEW k, NEW x, IsEntry(trie', x), Remember(Id(k, x))
  PROVE  KeepIds
<1>1. PICK e : e = Id(k, x)
  OBVIOUS
<1>2. e.gen = Current(trie) /\ e.id = x
  BY <1>1 DEF Id
<1>3. TrieInv(trie)
  BY DEF Inv
<1>4. IdOK(trie', e)
  BY <1>2, <1>3, NewId
<1>5. \A f \in ids' : f \in ids \/ f = e
  BY <1>1 DEF Remember
<1> QED  BY <1>4, <1>5 DEF KeepIds

(* The keys of the contract are keys. *)
LEMMA KeyIsKey ==
  ASSUME NEW k \in Keys
  PROVE  IsKey(k)
BY KeysAssumption DEF IsKey

(* The action Insert. *)
LEMMA InsertStep ==
  ASSUME Inv, NEW k \in Keys, Insert(k)
  PROVE  Inv' /\ Good(trie, trie')
<1>1. PICK r : r = insert(trie, k, Empty)
  OBVIOUS
<1>2. /\ trie' = r.trie
      /\ IF r.entry = None THEN UNCHANGED ids ELSE Remember(Id(k, r.entry))
      /\ UNCHANGED <<persistent, iters>>
  BY <1>1 DEF Insert
<1>3. TrieInv(trie) /\ IsKey(k)
  BY KeyIsKey DEF Inv
<1>4. Returns(trie, r)
  BY <1>1, <1>3, InsertGood
<1>5. Good(trie, trie') /\ (r.entry # None => IsEntry(trie', r.entry))
  BY <1>2, <1>4 DEF Returns
<1>6. KeepIds
  <2>1. CASE r.entry = None
    BY <1>2, <2>1, SameIds
  <2>2. CASE r.entry # None
    BY <1>2, <1>5, <2>2, RememberId
  <2> QED  BY <2>1, <2>2
<1> QED  BY <1>2, <1>3, <1>5, <1>6, GoodWider, SameIters, InvStep

(* The action Get. *)
LEMMA GetStep ==
  ASSUME Inv, NEW k \in Keys, Get(k)
  PROVE  Inv' /\ Good(trie, trie')
<1>1. PICK r : r = get_entry(trie, k)
  OBVIOUS
<1>2. /\ trie' = r.trie
      /\ IF r.entry = None THEN UNCHANGED ids ELSE Remember(Id(k, r.entry))
      /\ UNCHANGED <<persistent, iters>>
  BY <1>1 DEF Get
<1>3. TrieInv(trie) /\ IsKey(k)
  BY KeyIsKey DEF Inv
<1>4. Returns(trie, r)
  BY <1>1, <1>3, GetEntryGood
<1>5. Good(trie, trie') /\ (r.entry # None => IsEntry(trie', r.entry))
  BY <1>2, <1>4 DEF Returns
<1>6. KeepIds
  <2>1. CASE r.entry = None
    BY <1>2, <2>1, SameIds
  <2>2. CASE r.entry # None
    BY <1>2, <1>5, <2>2, RememberId
  <2> QED  BY <2>1, <2>2
<1> QED  BY <1>2, <1>3, <1>5, <1>6, GoodWider, SameIters, InvStep

(* An operation that hands nothing out. *)
LEMMA QuietStep ==
  ASSUME Inv, Good(trie, trie'), UNCHANGED <<persistent, iters, ids>>
  PROVE  Inv' /\ Good(trie, trie')
<1>1. TrieInv(trie)
  BY DEF Inv
<1> QED  BY <1>1, GoodWider, SameIters, SameIds, InvStep

(* The action Delete. *)
LEMMA DeleteStep ==
  ASSUME Inv, NEW k \in Keys, Delete(k)
  PROVE  Inv' /\ Good(trie, trie')
<1>1. trie' = delete(trie, k).trie /\ UNCHANGED <<persistent, iters, ids>>
  BY DEF Delete
<1>2. TrieInv(trie) /\ IsKey(k)
  BY KeyIsKey DEF Inv
<1>3. Good(trie, trie')
  BY <1>1, <1>2, DeleteGood
<1> QED  BY <1>1, <1>3, QuietStep

(* The action DeletePrefix. *)
LEMMA DeletePrefixStep ==
  ASSUME Inv, NEW k \in Keys, DeletePrefix(k)
  PROVE  Inv' /\ Good(trie, trie')
<1>1. trie' = delete_prefix(trie, k).trie /\ UNCHANGED <<persistent, iters, ids>>
  BY DEF DeletePrefix
<1>2. TrieInv(trie) /\ IsKey(k)
  BY KeyIsKey DEF Inv
<1>3. Good(trie, trie')
  BY <1>1, <1>2, DeletePrefixGood
<1> QED  BY <1>1, <1>3, QuietStep

(* The action DeletePrefixOutOfEnergy. *)
LEMMA OutOfEnergyStep ==
  ASSUME Inv, NEW k \in Keys, DeletePrefixOutOfEnergy(k)
  PROVE  Inv' /\ Good(trie, trie')
<1>1. trie' \in DeletePrefixStops(trie, k) /\ UNCHANGED <<persistent, iters, ids>>
  BY DEF DeletePrefixOutOfEnergy
<1>2. TrieInv(trie) /\ IsKey(k)
  BY KeyIsKey DEF Inv
<1>3. Good(trie, trie')
  BY <1>1, <1>2, DeletePrefixStopsGood
<1> QED  BY <1>1, <1>3, QuietStep

(* The action Write. *)
LEMMA WriteStep ==
  ASSUME Inv, NEW k \in Keys, NEW v, Write(k, v)
  PROVE  Inv' /\ Good(trie, trie')
<1>1. PICK r : r = get_entry(trie, k)
  OBVIOUS
<1>2. r.entry # None /\ trie' = WriteTo(r.trie, r.entry, v) /\ UNCHANGED <<persistent, iters, ids>>
  BY <1>1 DEF Write
<1>3. TrieInv(trie) /\ IsTrie(trie) /\ IsKey(k)
  BY KeyIsKey, Now DEF Inv
<1>4. Returns(trie, r)
  BY <1>1, <1>3, GetEntryGood
<1>5. Good(trie, r.trie) /\ IsEntry(r.trie, r.entry)
  BY <1>2, <1>4 DEF Returns
<1>6. TrieInv(r.trie)
  BY <1>5 DEF Good
<1>7. Good(r.trie, trie')
  BY <1>2, <1>5, <1>6, WriteToGood
<1>8. Good(trie, trie')
  BY <1>3, <1>5, <1>7, GoodThen
<1> QED  BY <1>2, <1>8, QuietStep

(* The action WriteId. *)
LEMMA WriteIdStep ==
  ASSUME Inv, NEW e \in Usable, NEW v, WriteId(e, v)
  PROVE  Inv' /\ Good(trie, trie')
<1>1. trie' = WriteTo(trie, e.id, v) /\ UNCHANGED <<persistent, iters, ids>>
  BY DEF WriteId
<1>2. TrieInv(trie) /\ IdOK(trie, e) /\ e.gen = Current(trie)
  BY DEF Inv, IdsInv, Usable
<1>3. IsEntry(trie, e.id)
  <2>1. IsTrie(trie) /\ Current(trie) \in Nat \ {0}
    BY <1>2, LimitFacts DEF TrieInv
  <2>2. Limit(trie, Current(trie)) = Lengths(trie) /\ Lengths(trie).num_entries = Len(trie.entries)
    BY <2>1, LengthsFacts DEF Limit
  <2> QED  BY <1>2, <2>2 DEF IdOK, IsEntry, Lo
<1>4. Good(trie, trie')
  BY <1>1, <1>2, <1>3, WriteToGood
<1> QED  BY <1>1, <1>4, QuietStep

(* The action Iter. *)
LEMMA IterStep ==
  ASSUME Inv, NEW i \in Iters, NEW k \in Keys, Iter(i, k)
  PROVE  Inv' /\ Good(trie, trie')
<1>1. PICK r, snap : r = iter(trie, k) /\ snap = {q \in DOMAIN map : Extends(q, k)}
  OBVIOUS
<1>2. PICK x : x = [it |-> r.iterator, gen |-> Current(trie), given |-> {}, snap |-> snap]
  OBVIOUS
<1>3. /\ trie' = r.trie /\ UNCHANGED <<persistent, ids>>
      /\ iters' = IF r.iterator = None THEN iters ELSE [iters EXCEPT ![i] = x]
  BY <1>1, <1>2, Zenon DEF Iter
<1>4. TrieInv(trie) /\ IsKey(k) /\ iters = [j \in Iters |-> iters[j]]
  BY KeyIsKey DEF Inv, ItersInv
<1>5. Iterates(trie, r)
  BY <1>1, <1>4, IterGood
<1>6. Good(trie, trie') /\ (r.iterator # None => IterOK(trie', r.iterator))
  BY <1>3, <1>5 DEF Iterates, Steps
<1>7. KeepIters
  <2>1. CASE r.iterator = None
    <3>1. iters' = iters
      BY <1>3, <2>1
    <3> QED  BY <3>1, SameIters
  <2>2. CASE r.iterator # None
    <3>1. iters' = [j \in Iters |-> IF j = i THEN x ELSE iters[j]]
      BY <1>3, <1>4, <2>2
    <3>2. HeldOK(trie', x)
      BY <1>2, <1>4, <1>6, <2>2, NewHeld
    <3> QED  BY <3>1, <3>2 DEF KeepIters
  <2> QED  BY <2>1, <2>2
<1> QED  BY <1>3, <1>4, <1>6, <1>7, GoodWider, SameIds, InvStep

(* The bound on the rounds of next. *)
LEMMA RoundsNat == Rounds \in Nat
<1>1. Cardinality(Keys) \in Nat
  BY KeysAssumption, FS_CardinalityType
<1> QED  BY <1>1 DEF Rounds

(* The action Next_. *)
LEMMA NextStep_ ==
  ASSUME Inv, NEW i \in Iters, Next_(i)
  PROVE  Inv' /\ Good(trie, trie')
<1>1. PICK r, x : r = next(trie, iters[i].it, Rounds) /\ x = iters[i]
  OBVIOUS
<1>2. PICK a : a = [iters EXCEPT ![i].it = r.iterator]
  OBVIOUS
<1>3. PICK b : b = IF r.entry = None THEN iters[i].given ELSE iters[i].given \cup {get_key(r.iterator)}
  OBVIOUS
<1>4. /\ trie' = r.trie /\ UNCHANGED persistent
      /\ x # None /\ x.gen = Current(trie)
      /\ IF r.entry = None THEN UNCHANGED ids ELSE Remember(Id(get_key(r.iterator), r.entry))
  BY <1>1 DEF Next_
<1>5. iters' = [a EXCEPT ![i].given = b]
  BY <1>1, <1>2, <1>3, Zenon DEF Next_
<1>6. TrieInv(trie) /\ iters = [j \in Iters |-> iters[j]] /\ HeldOK(trie, x)
  BY <1>1, <1>4 DEF Inv, ItersInv
<1>7. IterOK(trie, x.it)
  BY <1>4, <1>6, HeldNow
<1>8. OnTheWay(trie, r)
  BY <1>1, <1>6, <1>7, RoundsNat, NextGood
<1>9. Good(trie, trie') /\ IterOK(trie', r.iterator) /\ (r.entry # None => IsEntry(trie', r.entry))
  BY <1>4, <1>8 DEF OnTheWay, Steps
<1>10. x = [it |-> x.it, gen |-> Current(trie), given |-> x.given, snap |-> x.snap]
  BY <1>4, <1>6 DEF HeldOK
<1>11. PICK y : y = [it |-> r.iterator, gen |-> Current(trie), given |-> b, snap |-> x.snap]
  OBVIOUS
<1>12. HeldOK(trie', y)
  BY <1>6, <1>9, <1>11, NewHeld
<1>13. iters' = [j \in Iters |-> IF j = i THEN y ELSE iters[j]]
  <2>1. PICK z : z = [it |-> r.iterator, gen |-> Current(trie), given |-> x.given, snap |-> x.snap]
    OBVIOUS
  <2>2. [x EXCEPT !.it = r.iterator] = z
    BY <1>10, <2>1
  <2>3. a = [j \in Iters |-> IF j = i THEN [x EXCEPT !.it = r.iterator] ELSE iters[j]]
    BY <1>1, <1>2, <1>6
  <2>4. a[i] = z
    BY <2>2, <2>3
  <2>5. [z EXCEPT !.given = b] = y
    BY <1>11, <2>1
  <2>6. iters' = [j \in Iters |-> IF j = i THEN [z EXCEPT !.given = b] ELSE a[j]]
    BY <1>5, <2>3, <2>4
  <2> QED  BY <2>3, <2>5, <2>6
<1>14. KeepIters
  BY <1>12, <1>13 DEF KeepIters
<1>15. KeepIds
  <2>1. CASE r.entry = None
    BY <1>4, <2>1, SameIds
  <2>2. CASE r.entry # None
    BY <1>4, <1>9, <2>2, RememberId
  <2> QED  BY <2>1, <2>2
<1> QED  BY <1>4, <1>6, <1>9, <1>14, <1>15, GoodWider, InvStep

(* The action DeleteIter. *)
LEMMA DeleteIterStep ==
  ASSUME Inv, NEW i \in Iters, DeleteIter(i)
  PROVE  Inv' /\ Good(trie, trie')
<1>1. /\ trie' = delete_iter(trie, iters[i].it) /\ UNCHANGED <<persistent, ids>>
      /\ iters' = [iters EXCEPT ![i] = None]
  BY DEF DeleteIter
<1>2. TrieInv(trie) /\ iters = [j \in Iters |-> iters[j]]
  BY DEF Inv, ItersInv
<1>3. Good(trie, trie')
  BY <1>1, <1>2, DeleteIterGood DEF Steps
<1>4. iters' = [j \in Iters |-> IF j = i THEN None ELSE iters[j]]
  BY <1>1, <1>2
<1>5. KeepIters
  BY <1>4 DEF KeepIters
<1> QED  BY <1>1, <1>2, <1>3, <1>5, GoodWider, SameIds, InvStep

(* The action NewGeneration. *)
LEMMA NewGenerationStep ==
  ASSUME Inv, NewGeneration
  PROVE  Inv' /\ Stacked(trie, trie')
<1>1. trie' = new_generation(trie) /\ UNCHANGED <<persistent, iters, ids>>
  BY DEF NewGeneration
<1>2. TrieInv(trie)
  BY DEF Inv
<1>3. Stacked(trie, trie')
  <2>1. CASE Root(trie) = None
    BY <1>1, <1>2, <2>1, NewGenerationEmpty
  <2>2. CASE Root(trie) # None
    BY <1>1, <1>2, <2>2, NewGenerationRoot
  <2> QED  BY <2>1, <2>2
<1>4. Wider(trie, trie')
  BY <1>2, <1>3, StackedWider
<1> QED  BY <1>1, <1>3, <1>4, SameIters, SameIds, InvStep

(* The action Normalize. *)
LEMMA NormalizeStep ==
  ASSUME Inv, NEW g \in 1 .. MaxGenerations, Normalize(g)
  PROVE  Inv' /\ Rolled(trie, trie', g)
<1>1. /\ g < Current(trie) /\ trie' = normalize(trie, g - 1)
      /\ iters' = [i \in Iters |-> IF iters[i] # None /\ iters[i].gen > g THEN None ELSE iters[i]]
      /\ ids' = {e \in ids : e.gen <= g}
      /\ UNCHANGED persistent
  BY DEF Normalize
<1>2. TrieInv(trie) /\ Current(trie) \in Nat
  BY LimitFacts DEF Inv
<1>3. g \in Nat \ {0}
  BY GenerationsAssumption
<1>4. Shorter(trie, trie', g)
  BY <1>1, <1>2, <1>3, NormalizeGood
<1>5. Rolled(trie, trie', g)
  BY <1>1, <1>2, <1>3, NormalizeShape
<1>6. g \in Nat
  BY <1>3
<1>7. IdsInv'
  <2> SUFFICES ASSUME NEW e \in ids'
               PROVE  IdOK(trie', e)
    BY DEF IdsInv
  <2>1. e \in ids /\ e.gen <= g
    BY <1>1
  <2>2. IdOK(trie, e)
    BY <2>1 DEF Inv, IdsInv
  <2> QED  BY <1>2, <1>4, <1>6, <2>1, <2>2, ShorterId
<1>8. ItersInv'
  <2>1. iters' = [i \in Iters |-> iters'[i]]
    BY <1>1
  <2>2. ASSUME NEW i \in Iters, iters'[i] # None
        PROVE  HeldOK(trie', iters'[i])
    <3>1. iters'[i] = iters[i] /\ iters[i] # None /\ ~ (iters[i].gen > g)
      BY <1>1, <2>2
    <3>2. HeldOK(trie, iters[i])
      BY <3>1 DEF Inv, ItersInv
    <3>3. iters[i].gen <= g
      <4>1. iters[i].gen \in 1 .. Current(trie)
        BY <3>2 DEF HeldOK
      <4> QED  BY <1>2, <1>6, <3>1, <4>1
    <3>4. HeldOK(trie', iters[i])
      BY <1>2, <1>4, <1>6, <3>2, <3>3, ShorterHeld
    <3> QED  BY <3>1, <3>4
  <2> QED  BY <2>1, <2>2 DEF ItersInv
<1>9. TrieInv(trie')
  BY <1>4 DEF Shorter
<1>10. PersistentInv'
  BY <1>1 DEF Inv, PersistentInv
<1> QED  BY <1>5, <1>7, <1>8, <1>9, <1>10 DEF Inv

(* A new execution starts from a persistent tree. *)
LEMMA RestartStep ==
  ASSUME NEW p, p # None => WellFormed(p), Restart(p)
  PROVE  Inv'
<1>1. persistent' = p /\ trie' = Thaw(p) /\ iters' = [i \in Iters |-> None] /\ ids' = {}
  BY DEF Restart
<1>2. TrieInv(trie')
  <2>1. CASE p = None
    BY <1>1, <2>1, EmptyGood DEF Thaw
  <2>2. CASE p # None
    BY <1>1, <2>2, MakeMutableGood DEF Thaw
  <2> QED  BY <2>1, <2>2
<1>3. IdsInv'
  BY <1>1 DEF IdsInv
<1>4. ItersInv'
  BY <1>1 DEF ItersInv
<1>5. PersistentInv'
  BY <1>1 DEF PersistentInv
<1> QED  BY <1>2, <1>3, <1>4, <1>5 DEF Inv

(* The empty trie satisfies the invariant. *)
LEMMA InitInv == Init => Inv
<1> SUFFICES ASSUME Init
             PROVE  Inv
  OBVIOUS
<1>1. persistent = None /\ trie = Thaw(persistent) /\ iters = [i \in Iters |-> None] /\ ids = {}
  BY DEF Init
<1>2. TrieInv(trie)
  BY <1>1, EmptyGood DEF Thaw
<1> QED  BY <1>1, <1>2 DEF Inv, IdsInv, ItersInv, PersistentInv

(* An operation changes the current generation, or the stack of them. *)
LEMMA OperationStep ==
  ASSUME Inv, Operation
  PROVE  /\ Inv'
         /\ \/ Good(trie, trie')
            \/ NewGeneration /\ Stacked(trie, trie')
            \/ \E g \in 1 .. MaxGenerations : Normalize(g) /\ Rolled(trie, trie', g)
<1>1. CASE \E k \in Keys : Insert(k) \/ Delete(k) \/ Get(k)
  BY <1>1, InsertStep, DeleteStep, GetStep
<1>2. CASE \E k \in Keys : DeletePrefix(k) \/ DeletePrefixOutOfEnergy(k)
  BY <1>2, DeletePrefixStep, OutOfEnergyStep
<1>3. CASE \E k \in Keys, v \in Values : Write(k, v)
  BY <1>3, WriteStep
<1>4. CASE \E e \in Usable, v \in Values : WriteId(e, v)
  BY <1>4, WriteIdStep
<1>5. CASE \E i \in Iters, k \in Keys : Iter(i, k)
  BY <1>5, IterStep
<1>6. CASE \E i \in Iters : Next_(i) \/ DeleteIter(i)
  BY <1>6, NextStep_, DeleteIterStep
<1>7. CASE NewGeneration
  BY <1>7, NewGenerationStep
<1>8. CASE \E g \in 1 .. MaxGenerations : Normalize(g)
  BY <1>8, NormalizeStep
<1> QED  BY <1>1, <1>2, <1>3, <1>4, <1>5, <1>6, <1>7, <1>8 DEF Operation

(* Every step keeps the invariant. *)
LEMMA NextInv ==
  ASSUME Inv, [Next]_vars
  PROVE  Inv'
<1>1. CASE Operation
  BY <1>1, OperationStep
<1>2. CASE Freeze
  <2>1. Restart(freeze(trie))
    BY <1>2 DEF Freeze
  <2>2. freeze(trie) # None => WellFormed(freeze(trie))
    BY FreezeGood DEF Inv
  <2> QED  BY <2>1, <2>2, RestartStep
<1>3. CASE Discard
  <2>1. Restart(persistent)
    BY <1>3 DEF Discard
  <2>2. persistent # None => WellFormed(persistent)
    BY DEF Inv, PersistentInv
  <2> QED  BY <2>1, <2>2, RestartStep
<1>4. CASE UNCHANGED vars
  BY <1>4 DEF vars, Inv, IdsInv, ItersInv, PersistentInv
<1> QED  BY <1>1, <1>2, <1>3, <1>4 DEF Next

(* The inductive invariant holds in every execution: each generation of    *)
(* the trie (low_level.rs, MutableTrie) finds all it needs below its       *)
(* limit, owns what lies above its checkpoint, and its nodes form a        *)
(* forest; entry ids and iterators stay within their generations.          *)
THEOREM TrieInvariant == Spec => []Inv
<1>1. Init => Inv
  BY InitInv
<1>2. Inv /\ [Next]_vars => Inv'
  BY NextInv
<1> QED  BY <1>1, <1>2, PTL DEF Spec

(* The invariant says what the run checks. *)
LEMMA InvCovers == Inv => CheckpointsCoverOlderGenerations
<1> SUFFICES ASSUME Inv, NEW g \in 1 .. Current(trie) - 1
             PROVE  LET c == trie.generations[g + 1].checkpoint
                        old == 1 .. c.num_nodes
                    IN /\ trie.generations[g].root # None => trie.generations[g].root \in old
                       /\ \A i \in old :
                            LET n == trie.nodes[i]
                            IN /\ n.generation < g
                               /\ n.value # None => n.value <= c.num_entries
                               /\ n.children.kind = "Owned" =>
                                    \A j \in DOMAIN n.children.list : n.children.list[j].index \in old
                       /\ \A e \in 1 .. c.num_entries :
                            LET en == trie.entries[e]
                            IN en.kind # "Deleted" =>
                                 en.idx <= IF en.kind = "ReadOnly" /\ en.borrowed THEN c.num_borrowed_nodes
                                           ELSE c.num_values
  BY DEF CheckpointsCoverOlderGenerations
<1>1. PICK c, lo : c = trie.generations[g + 1].checkpoint /\ lo = Low(trie, g)
  OBVIOUS
<1>2. TrieInv(trie) /\ Current(trie) \in Nat /\ g \in 1 .. Current(trie) /\ g \in Nat
  <2>1. TrieInv(trie) /\ Current(trie) \in Nat
    BY LimitFacts DEF Inv
  <2> QED  BY <2>1
<1>3. Limit(trie, g) = c
  <2>1. g < Current(trie)
    BY <1>2
  <2> QED  BY <1>1, <2>1 DEF Limit, Low
<1>4. IsCheckpoint(lo) /\ IsCheckpoint(c)
  BY <1>1, <1>2, <1>3, LimitFacts
<1>5. GenInv(trie, g, lo, c)
  BY <1>1, <1>2, <1>3 DEF TrieInv
<1>6. ASSUME trie.generations[g].root # None
      PROVE  trie.generations[g].root \in 1 .. c.num_nodes
  <2>1. PICK up, pos : Linked(trie.nodes, trie.generations[g].root, g, lo.num_nodes, c.num_nodes, up, pos)
    BY <1>5 DEF GenInv, Forest
  <2>2. trie.generations[g].root \in lo.num_nodes + 1 .. c.num_nodes
    BY <1>6, <2>1 DEF Linked
  <2> QED  BY <1>4, <2>2 DEF IsCheckpoint
<1>7. ASSUME NEW i \in 1 .. c.num_nodes
      PROVE  /\ trie.nodes[i].generation < g
             /\ trie.nodes[i].value # None => trie.nodes[i].value <= c.num_entries
             /\ trie.nodes[i].children.kind = "Owned" =>
                  \A j \in DOMAIN trie.nodes[i].children.list :
                    trie.nodes[i].children.list[j].index \in 1 .. c.num_nodes
  <2>1. PICK n : n = trie.nodes[i]
    OBVIOUS
  <2>2. NodeOK(n, c.num_nodes, c.num_entries, g)
    BY <1>5, <2>1 DEF GenInv, Covered
  <2>3. n.generation \in 0 .. g - 1 /\ (n.value # None => n.value \in 1 .. c.num_entries)
        /\ ChildrenOK(n.children, c.num_nodes, g)
    BY <2>2 DEF NodeOK
  <2>4. n.generation < g
    BY <1>2, <2>3
  <2>5. n.value # None => n.value <= c.num_entries
    BY <1>4, <2>3 DEF IsCheckpoint
  <2>6. n.children.kind = "Owned" => \A j \in DOMAIN n.children.list : n.children.list[j].index \in 1 .. c.num_nodes
    BY <2>3 DEF ChildrenOK
  <2> QED  BY <2>1, <2>4, <2>5, <2>6
<1>8. ASSUME NEW e \in 1 .. c.num_entries, trie.entries[e].kind # "Deleted"
      PROVE  trie.entries[e].idx <= IF trie.entries[e].kind = "ReadOnly" /\ trie.entries[e].borrowed
                                    THEN c.num_borrowed_nodes ELSE c.num_values
  <2>1. PICK x : x = trie.entries[e]
    OBVIOUS
  <2>2. EntryOK(x, c.num_values, c.num_borrowed_nodes)
    BY <1>5, <2>1 DEF GenInv, Covered
  <2>3. c.num_values \in Nat /\ c.num_borrowed_nodes \in Nat
    BY <1>4 DEF IsCheckpoint
  <2>4. x.kind # "Deleted"
    BY <1>8, <2>1
  <2>5. CASE x = Deleted
    BY <2>4, <2>5 DEF Deleted
  <2>6. CASE x.kind = "Mutable" /\ x.idx \in 1 .. c.num_values
    BY <2>1, <2>3, <2>6
  <2>7. CASE x.kind = "ReadOnly" /\ x = ReadOnly(FALSE, x.idx) /\ x.idx \in 1 .. c.num_values
    <3>1. x.borrowed = FALSE
      BY <2>7 DEF ReadOnly
    <3> QED  BY <2>1, <2>3, <2>7, <3>1
  <2>8. CASE x.kind = "ReadOnly" /\ x = ReadOnly(TRUE, x.idx) /\ x.idx \in 1 .. c.num_borrowed_nodes
    <3>1. x.borrowed = TRUE
      BY <2>8 DEF ReadOnly
    <3> QED  BY <2>1, <2>3, <2>8, <3>1
  <2> QED  BY <2>2, <2>5, <2>6, <2>7, <2>8 DEF EntryOK
<1> QED  BY <1>1, <1>6, <1>7, <1>8

(* What an older generation can reach lies below the checkpoint of the     *)
(* generation above it, so that the truncation in normalize and            *)
(* pop_generation removes nothing it needs; for any keys, values and       *)
(* bounds.                                                                 *)
THEOREM CheckpointsCover == Spec => []CheckpointsCoverOlderGenerations
<1>1. Inv => CheckpointsCoverOlderGenerations
  BY InvCovers
<1> QED  BY <1>1, TrieInvariant, PTL

-----------------------------------------------------------------------------
(* Generations below the current one.                                      *)

(* Generation g is in u what it was in t: its root and locks, and every    *)
(* node, entry and value below its limit.                                  *)
SameGeneration(t, u, g) ==
  /\ u.generations[g] = t.generations[g]
  /\ \A i \in 1 .. Limit(t, g).num_nodes : u.nodes[i] = t.nodes[i]
  /\ \A i \in 1 .. Limit(t, g).num_entries : u.entries[i] = t.entries[i]
  /\ \A i \in 1 .. Limit(t, g).num_values : u.values[i] = t.values[i]
  /\ \A i \in 1 .. Limit(t, g).num_borrowed_nodes : u.borrowed_values[i] = t.borrowed_values[i]

(* A generation that a step finds below the current one, or leaves below   *)
(* it, stays as it is.                                                     *)
OlderGenerationsKept ==
  \A g \in 1 .. Current(trie) :
    g <= Current(trie') /\ (g < Current(trie) \/ g < Current(trie')) => SameGeneration(trie, trie', g)

(* The limit of a generation is at or below the checkpoints of later ones. *)
LEMMA BelowLimits ==
  ASSUME NEW t, TrieInv(t), NEW g \in 1 .. Current(t), NEW h \in 1 .. Current(t), g < h
  PROVE  /\ IsCheckpoint(Limit(t, g)) /\ IsCheckpoint(Low(t, h))
         /\ Below(Limit(t, g), Low(t, h))
<1>1. Ordered(t) /\ Current(t) \in Nat /\ IsCheckpoint(Limit(t, g)) /\ IsCheckpoint(Low(t, h))
  BY LimitFacts DEF TrieInv
<1>2. g + 1 \in 1 .. Current(t) /\ Limit(t, g) = Low(t, g + 1)
  BY <1>1 DEF Limit
<1>3. CASE g + 1 < h
  BY <1>1, <1>2, <1>3 DEF Ordered
<1>4. CASE ~ (g + 1 < h)
  <2>1. g + 1 = h
    BY <1>1, <1>4
  <2> QED  BY <1>1, <1>2, <2>1 DEF Below, IsCheckpoint
<1> QED  BY <1>1, <1>2, <1>3, <1>4

(* A generation that is the same below a later checkpoint is the same. *)
LEMMA SameBelow ==
  ASSUME NEW t, NEW u, NEW g, NEW lo, IsCheckpoint(Limit(t, g)), IsCheckpoint(lo), Below(Limit(t, g), lo),
         u.generations[g] = t.generations[g],
         \A i \in 1 .. lo.num_nodes : u.nodes[i] = t.nodes[i],
         \A i \in 1 .. lo.num_entries : u.entries[i] = t.entries[i],
         \A i \in 1 .. lo.num_values : u.values[i] = t.values[i],
         \A i \in 1 .. lo.num_borrowed_nodes : u.borrowed_values[i] = t.borrowed_values[i]
  PROVE  SameGeneration(t, u, g)
<1>1. PICK h : h = Limit(t, g)
  OBVIOUS
<1>2. /\ 1 .. h.num_nodes \subseteq 1 .. lo.num_nodes
      /\ 1 .. h.num_entries \subseteq 1 .. lo.num_entries
      /\ 1 .. h.num_values \subseteq 1 .. lo.num_values
      /\ 1 .. h.num_borrowed_nodes \subseteq 1 .. lo.num_borrowed_nodes
  BY <1>1 DEF IsCheckpoint, Below
<1> QED  BY <1>1, <1>2 DEF SameGeneration

(* A good step leaves older generations as they are. *)
LEMMA GoodKeepsOlder ==
  ASSUME NEW t, TrieInv(t), NEW u, Good(t, u), NEW g \in 1 .. Current(t), g < Current(t)
  PROVE  SameGeneration(t, u, g)
<1>1. PICK lo : lo = Low(t, Current(t))
  OBVIOUS
<1>2. Current(t) \in Nat \ {0}
  BY LimitFacts
<1>3. Current(t) \in 1 .. Current(t) /\ g \in 1 .. Current(t) - 1
  BY <1>2
<1>4. IsCheckpoint(Limit(t, g)) /\ IsCheckpoint(lo) /\ Below(Limit(t, g), lo)
  BY <1>1, <1>3, BelowLimits
<1>5. /\ u.generations[g] = t.generations[g]
      /\ \A i \in 1 .. lo.num_nodes : u.nodes[i] = t.nodes[i]
      /\ \A i \in 1 .. lo.num_entries : u.entries[i] = t.entries[i]
      /\ \A i \in 1 .. lo.num_values : u.values[i] = t.values[i]
      /\ \A i \in 1 .. lo.num_borrowed_nodes : u.borrowed_values[i] = t.borrowed_values[i]
  BY <1>1, <1>3 DEF Good, Frame
<1> QED  BY <1>4, <1>5, SameBelow

(* A rollback leaves what it returns to as it was. *)
LEMMA RolledKeepsOlder ==
  ASSUME NEW t, TrieInv(t), NEW u, NEW k \in Nat \ {0}, k < Current(t), Rolled(t, u, k), NEW g \in 1 .. k
  PROVE  SameGeneration(t, u, g)
<1>1. PICK lo : lo = Low(t, k + 1)
  OBVIOUS
<1>2. Current(t) \in Nat \ {0}
  BY LimitFacts
<1>3. k + 1 \in 1 .. Current(t) /\ g \in 1 .. Current(t) /\ g < k + 1
  BY <1>2
<1>4. IsCheckpoint(Limit(t, g)) /\ IsCheckpoint(lo) /\ Below(Limit(t, g), lo)
  BY <1>1, <1>3, BelowLimits
<1>5. IsTrie(u) /\ SameCounts(Lengths(u), lo)
  BY <1>1 DEF Rolled
<1>6. /\ Len(u.nodes) = lo.num_nodes /\ Len(u.entries) = lo.num_entries
      /\ Len(u.values) = lo.num_values /\ Len(u.borrowed_values) = lo.num_borrowed_nodes
  BY <1>5, LengthsFacts DEF SameCounts
<1>7. /\ u.generations[g] = t.generations[g]
      /\ \A i \in 1 .. lo.num_nodes : u.nodes[i] = t.nodes[i]
      /\ \A i \in 1 .. lo.num_entries : u.entries[i] = t.entries[i]
      /\ \A i \in 1 .. lo.num_values : u.values[i] = t.values[i]
      /\ \A i \in 1 .. lo.num_borrowed_nodes : u.borrowed_values[i] = t.borrowed_values[i]
  BY <1>6 DEF Rolled
<1> QED  BY <1>4, <1>7, SameBelow

(* A new generation leaves all that was there. *)
LEMMA NewGenerationKeeps ==
  ASSUME NEW t, TrieInv(t), NEW g \in 1 .. Current(t)
  PROVE  SameGeneration(t, new_generation(t), g)
<1>1. PICK u, p, n, x, lo : /\ u = new_generation(t) /\ lo = Lengths(t) /\ p = t.nodes[Root(t)]
                            /\ n = MigrateNode(p, p.generation + 1, Len(t.entries) + 1)
                            /\ x = MigrateEntry(t.entries[p.value])
  OBVIOUS
<1>2. IsTrie(t) /\ Current(t) \in Nat \ {0}
  BY LimitFacts DEF TrieInv
<1>3. /\ IsSeq(t.generations) /\ IsSeq(t.nodes) /\ IsSeq(t.entries) /\ Len(t.generations) = Current(t)
      /\ lo.num_nodes = Len(t.nodes) /\ lo.num_entries = Len(t.entries)
  BY <1>1, <1>2, LengthsFacts DEF IsTrie, Current
<1>4. t = [generations |-> t.generations, entries |-> t.entries, values |-> t.values,
           borrowed_values |-> t.borrowed_values, nodes |-> t.nodes]
  BY <1>2, TrieFields
<1>5. PICK r : r = IF Root(t) = None THEN None ELSE Len(t.nodes) + 1
  OBVIOUS
<1>6. PICK gs, ns, es : /\ gs = Append(t.generations, Generation(r, Lengths(t)))
                        /\ ns = IF Root(t) = None THEN t.nodes ELSE Append(t.nodes, n)
                        /\ es = IF Root(t) = None \/ p.value = None THEN t.entries ELSE Append(t.entries, x)
  OBVIOUS
<1>7. /\ u.generations = gs /\ u.nodes = ns /\ u.entries = es
      /\ u.values = t.values /\ u.borrowed_values = t.borrowed_values
  <2>1. CASE Root(t) = None
    <3>1. new_generation(t) = [t EXCEPT !.generations = gs]
      BY <1>5, <1>6, <2>1, Zenon DEF new_generation, Lengths
    <3>2. u = [t EXCEPT !.generations = gs]
      BY <1>1, <3>1
    <3>3. ns = t.nodes /\ es = t.entries
      BY <1>6, <2>1
    <3>4. u = [generations |-> gs, entries |-> t.entries, values |-> t.values,
               borrowed_values |-> t.borrowed_values, nodes |-> t.nodes]
      BY <1>4, <3>2
    <3> QED  BY <3>3, <3>4
  <2>2. CASE Root(t) # None
    <3>1. ns = Append(t.nodes, n) /\ es = IF p.value = None THEN t.entries ELSE Append(t.entries, x)
      BY <1>6, <2>2
    <3>2. gs = Append(t.generations, Generation(Len(t.nodes) + 1, Lengths(t)))
      BY <1>5, <1>6, <2>2
    <3>3. new_generation(t) = [t EXCEPT !.generations = gs, !.nodes = ns, !.entries = es]
      BY <1>1, <2>2, <3>1, <3>2, Zenon DEF new_generation, Lengths
    <3>4. PICK a : a = [t EXCEPT !.generations = gs]
      OBVIOUS
    <3>5. PICK b : b = [a EXCEPT !.nodes = ns]
      OBVIOUS
    <3>6. u = [b EXCEPT !.entries = es]
      BY <1>1, <3>3, <3>4, <3>5, Zenon
    <3>7. a = [generations |-> gs, entries |-> t.entries, values |-> t.values,
               borrowed_values |-> t.borrowed_values, nodes |-> t.nodes]
      BY <1>4, <3>4
    <3>8. b = [generations |-> gs, entries |-> t.entries, values |-> t.values,
               borrowed_values |-> t.borrowed_values, nodes |-> ns]
      BY <3>5, <3>7
    <3>9. u = [generations |-> gs, entries |-> es, values |-> t.values,
               borrowed_values |-> t.borrowed_values, nodes |-> ns]
      BY <3>6, <3>8
    <3> QED  BY <3>9
  <2> QED  BY <2>1, <2>2
<1>8. gs[g] = t.generations[g]
  BY <1>3, <1>6, SeqAppend
<1>9. \A i \in 1 .. lo.num_nodes : ns[i] = t.nodes[i]
  <2>1. CASE Root(t) = None
    BY <1>6, <2>1
  <2>2. CASE Root(t) # None
    <3>1. ns = Append(t.nodes, n)
      BY <1>6, <2>2
    <3> QED  BY <1>3, <3>1, SeqAppend
  <2> QED  BY <2>1, <2>2
<1>10. \A e \in 1 .. lo.num_entries : es[e] = t.entries[e]
  <2>1. CASE Root(t) = None \/ p.value = None
    BY <1>6, <2>1
  <2>2. CASE ~ (Root(t) = None \/ p.value = None)
    <3>1. es = Append(t.entries, x)
      BY <1>6, <2>2
    <3> QED  BY <1>3, <3>1, SeqAppend
  <2> QED  BY <2>1, <2>2
<1>11. IsCheckpoint(Limit(t, g)) /\ IsCheckpoint(lo) /\ Below(Limit(t, g), lo)
  <2>1. IsCheckpoint(Limit(t, g)) /\ IsCheckpoint(lo)
    BY <1>1, <1>2, LimitFacts, LengthsFacts
  <2>2. CASE g < Current(t)
    <3>1. g + 1 \in 1 .. Current(t) /\ Limit(t, g) = Low(t, g + 1)
      BY <1>2, <2>2 DEF Limit
    <3>2. Below(Low(t, g + 1), lo)
      BY <1>1, <3>1 DEF TrieInv, Ordered
    <3> QED  BY <2>1, <3>1, <3>2
  <2>3. CASE ~ (g < Current(t))
    <3>1. Limit(t, g) = lo
      BY <1>1, <2>3 DEF Limit
    <3> QED  BY <2>1, <3>1 DEF Below, IsCheckpoint
  <2> QED  BY <2>2, <2>3
<1>12. SameGeneration(t, u, g)
  <2>1. /\ u.generations[g] = t.generations[g]
        /\ \A i \in 1 .. lo.num_nodes : u.nodes[i] = t.nodes[i]
        /\ \A i \in 1 .. lo.num_entries : u.entries[i] = t.entries[i]
        /\ \A i \in 1 .. lo.num_values : u.values[i] = t.values[i]
        /\ \A i \in 1 .. lo.num_borrowed_nodes : u.borrowed_values[i] = t.borrowed_values[i]
    BY <1>7, <1>8, <1>9, <1>10
  <2> QED  BY ONLY <1>11, <2>1, SameBelow
<1> QED  BY <1>1, <1>12

(* Every operation leaves older generations as they are. *)
LEMMA OperationKeepsOlder ==
  ASSUME Inv, Operation
  PROVE  OlderGenerationsKept
<1> SUFFICES ASSUME NEW g \in 1 .. Current(trie),
                    g <= Current(trie'), g < Current(trie) \/ g < Current(trie')
             PROVE  SameGeneration(trie, trie', g)
  BY DEF OlderGenerationsKept
<1>1. TrieInv(trie) /\ Current(trie) \in Nat \ {0}
  BY LimitFacts DEF Inv
<1>2. CASE Good(trie, trie')
  <2>1. Current(trie') = Current(trie)
    BY <1>2 DEF Good, Frame
  <2>2. g < Current(trie)
    BY <2>1
  <2> QED  BY <1>1, <1>2, <2>2, GoodKeepsOlder
<1>3. CASE NewGeneration /\ Stacked(trie, trie')
  <2>1. trie' = new_generation(trie)
    BY <1>3 DEF NewGeneration
  <2> QED  BY <1>1, <2>1, NewGenerationKeeps
<1>4. ASSUME NEW k \in 1 .. MaxGenerations, Normalize(k), Rolled(trie, trie', k)
      PROVE  SameGeneration(trie, trie', g)
  <2>1. k \in Nat \ {0} /\ k < Current(trie)
    BY <1>4, GenerationsAssumption DEF Normalize
  <2>2. Current(trie') = k
    BY <1>4 DEF Rolled
  <2>3. g \in 1 .. k
    BY <1>1, <2>1, <2>2
  <2> QED  BY <1>1, <1>4, <2>1, <2>3, RolledKeepsOlder
<1> QED  BY <1>2, <1>3, <1>4, OperationStep

(* No operation of the trie changes an older generation: insert, delete,   *)
(* delete_prefix, writes, iteration and new_generation leave the root,     *)
(* the locks, the nodes, the entries and the values of every generation    *)
(* below the current one as they are, and normalize returns to such a      *)
(* generation as it was left.  This is what a rollback of a failed call    *)
(* rests on (types.rs, v1).                                                *)
THEOREM OlderGenerations == Spec => [][Operation => OlderGenerationsKept]_vars
<1>1. Inv /\ [Next]_vars => [Operation => OlderGenerationsKept]_vars
  BY OperationKeepsOlder
<1> QED  BY <1>1, TrieInvariant, PTL DEF Spec

-----------------------------------------------------------------------------
(* Indices.                                                                *)

(* No index points outside the arena it is for: roots, children, values of *)
(* nodes and of entries, entry ids, and the nodes that iterators are at.   *)
NoIndexDangles ==
  /\ Root(trie) # None => Root(trie) \in DOMAIN trie.nodes
  /\ \A i \in DOMAIN trie.nodes :
       /\ trie.nodes[i].value # None => trie.nodes[i].value \in DOMAIN trie.entries
       /\ trie.nodes[i].children.kind = "Owned" =>
            \A j \in DOMAIN trie.nodes[i].children.list :
              trie.nodes[i].children.list[j].index \in DOMAIN trie.nodes
  /\ \A e \in DOMAIN trie.entries :
       \/ trie.entries[e] = Deleted
       \/ /\ trie.entries[e] \in {Mutable(trie.entries[e].idx), ReadOnly(FALSE, trie.entries[e].idx)}
          /\ trie.entries[e].idx \in DOMAIN trie.values
       \/ /\ trie.entries[e] = ReadOnly(TRUE, trie.entries[e].idx)
          /\ trie.entries[e].idx \in DOMAIN trie.borrowed_values
  /\ \A e \in ids : e.id \in DOMAIN trie.entries
  /\ \A i \in Iters : iters[i] # None =>
       /\ iters[i].it.current_node \in DOMAIN trie.nodes
       /\ \A s \in DOMAIN iters[i].it.stack : iters[i].it.stack[s].node \in DOMAIN trie.nodes

(* The limit of a generation lies in the arenas. *)
LEMMA LimitInLengths ==
  ASSUME NEW t, TrieInv(t), NEW g \in 1 .. Current(t)
  PROVE  /\ Limit(t, g).num_nodes \in 0 .. Len(t.nodes) /\ Limit(t, g).num_entries \in 0 .. Len(t.entries)
         /\ Low(t, g).num_nodes \in Nat /\ Low(t, g).num_entries \in Nat
         /\ Len(t.nodes) \in Nat /\ Len(t.entries) \in Nat
<1>1. /\ IsTrie(t) /\ Ordered(t) /\ Current(t) \in Nat \ {0}
      /\ IsCheckpoint(Low(t, g)) /\ IsCheckpoint(Limit(t, g))
  BY LimitFacts DEF TrieInv
<1>2. /\ IsCheckpoint(Lengths(t))
      /\ Lengths(t).num_nodes = Len(t.nodes) /\ Lengths(t).num_entries = Len(t.entries)
  BY <1>1, LengthsFacts
<1>3. Below(Limit(t, g), Lengths(t))
  <2>1. CASE g < Current(t)
    <3>1. g + 1 \in 1 .. Current(t) /\ Limit(t, g) = Low(t, g + 1)
      BY <1>1, <2>1 DEF Limit
    <3> QED  BY <1>1, <3>1 DEF Ordered
  <2>2. CASE ~ (g < Current(t))
    <3>1. Limit(t, g) = Lengths(t)
      BY <2>2 DEF Limit
    <3> QED  BY <1>2, <3>1 DEF Below, IsCheckpoint
  <2> QED  BY <2>1, <2>2
<1> QED  BY <1>1, <1>2, <1>3 DEF Below, IsCheckpoint

(* The invariant gives the ranges of all indices. *)
LEMMA InvIndices == Inv => NoIndexDangles
<1> SUFFICES ASSUME Inv
             PROVE  NoIndexDangles
  OBVIOUS
<1>1. TrieInv(trie) /\ IdsInv /\ ItersInv
  BY DEF Inv
<1>2. /\ IsTrie(trie) /\ Bounds(trie) /\ NodesNow(trie) /\ EntriesNow(trie)
      /\ Current(trie) \in Nat \ {0}
  BY <1>1, Now DEF Bounds
<1>3. /\ DOMAIN trie.nodes = 1 .. Len(trie.nodes) /\ DOMAIN trie.entries = 1 .. Len(trie.entries)
      /\ DOMAIN trie.values = 1 .. Len(trie.values)
      /\ DOMAIN trie.borrowed_values = 1 .. Len(trie.borrowed_values)
  <2>1. IsSeq(trie.borrowed_values)
    BY <1>2 DEF IsTrie
  <2> QED  BY <1>2, <2>1, LengthsFacts, SeqDomain
<1>4. Root(trie) # None => Root(trie) \in DOMAIN trie.nodes
  <2>1. PICK up, pos : Hangs(trie, up, pos)
    BY <1>1, Hanging
  <2>2. Root(trie) # None => Root(trie) \in Mine(trie)
    BY <2>1 DEF Hangs
  <2>3. \A i \in Mine(trie) : i \in 1 .. Len(trie.nodes)
    BY <1>2 DEF Mine, Bounds
  <2> QED  BY <1>3, <2>2, <2>3
<1>5. ASSUME NEW i \in DOMAIN trie.nodes
      PROVE  /\ trie.nodes[i].value # None => trie.nodes[i].value \in DOMAIN trie.entries
             /\ trie.nodes[i].children.kind = "Owned" =>
                  \A j \in DOMAIN trie.nodes[i].children.list :
                    trie.nodes[i].children.list[j].index \in DOMAIN trie.nodes
  <2>1. PICK n : n = trie.nodes[i]
    OBVIOUS
  <2>2. NodeOK(n, Len(trie.nodes), Len(trie.entries), Current(trie))
    BY <1>2, <1>3, <2>1 DEF NodesNow
  <2>3. (n.value # None => n.value \in 1 .. Len(trie.entries)) /\ ChildrenOK(n.children, Len(trie.nodes), Current(trie))
    BY <2>2 DEF NodeOK
  <2>4. n.children.kind = "Owned" => \A j \in DOMAIN n.children.list : n.children.list[j].index \in 1 .. Len(trie.nodes)
    BY <2>3 DEF ChildrenOK
  <2> QED  BY <1>3, <2>1, <2>3, <2>4
<1>6. ASSUME NEW e \in DOMAIN trie.entries
      PROVE  \/ trie.entries[e] = Deleted
             \/ /\ trie.entries[e] \in {Mutable(trie.entries[e].idx), ReadOnly(FALSE, trie.entries[e].idx)}
                /\ trie.entries[e].idx \in DOMAIN trie.values
             \/ /\ trie.entries[e] = ReadOnly(TRUE, trie.entries[e].idx)
                /\ trie.entries[e].idx \in DOMAIN trie.borrowed_values
  <2>1. EntryOK(trie.entries[e], Len(trie.values), Len(trie.borrowed_values))
    BY <1>2, <1>3 DEF EntriesNow
  <2> QED  BY <1>3, <2>1 DEF EntryOK
<1>7. ASSUME NEW e \in ids
      PROVE  e.id \in DOMAIN trie.entries
  <2>1. PICK g, x : g = e.gen /\ x = e.id
    OBVIOUS
  <2>2. g \in 1 .. Current(trie) /\ x \in Low(trie, g).num_entries + 1 .. Limit(trie, g).num_entries
    BY <1>1, <2>1 DEF IdsInv, IdOK
  <2>3. x \in 1 .. Len(trie.entries)
    BY <1>1, <2>2, LimitInLengths
  <2> QED  BY <1>3, <2>1, <2>3
<1>8. ASSUME NEW i \in Iters, iters[i] # None
      PROVE  /\ iters[i].it.current_node \in DOMAIN trie.nodes
             /\ \A s \in DOMAIN iters[i].it.stack : iters[i].it.stack[s].node \in DOMAIN trie.nodes
  <2>1. PICK g, it : g = iters[i].gen /\ it = iters[i].it
    OBVIOUS
  <2>2. g \in 1 .. Current(trie) /\ IsIterator(it, Low(trie, g).num_nodes, Limit(trie, g).num_nodes)
    BY <1>1, <1>8, <2>1 DEF ItersInv, HeldOK
  <2>3. /\ Low(trie, g).num_nodes \in Nat /\ Limit(trie, g).num_nodes \in 0 .. Len(trie.nodes)
        /\ Len(trie.nodes) \in Nat
    BY <1>1, <2>2, LimitInLengths
  <2>4. \A k \in Low(trie, g).num_nodes + 1 .. Limit(trie, g).num_nodes : k \in DOMAIN trie.nodes
    BY <1>3, <2>3
  <2>5. IsSeq(it.stack)
    BY <2>2 DEF IsIterator
  <2>6. DOMAIN it.stack = 1 .. Len(it.stack)
    BY <2>5, SeqDomain
  <2>7. /\ it.current_node \in DOMAIN trie.nodes
        /\ \A s \in DOMAIN it.stack : it.stack[s].node \in DOMAIN trie.nodes
    BY <2>2, <2>4, <2>6 DEF IsIterator
  <2> QED  BY <2>1, <2>7
<1> QED  BY <1>4, <1>5, <1>6, <1>7, <1>8 DEF NoIndexDangles

(* No index of the trie lies outside its arena: roots, children, values    *)
(* of nodes, values of entries, entry ids and iterators.  low_level.rs     *)
(* indexes its vectors with them, and in make_owned without a check, so    *)
(* that one outside would be a panic or worse.                             *)
THEOREM IndicesAreValid == Spec => []NoIndexDangles
<1>1. Inv => NoIndexDangles
  BY InvIndices
<1> QED  BY <1>1, TrieInvariant, PTL

=============================================================================
