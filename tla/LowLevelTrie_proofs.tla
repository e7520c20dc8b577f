------------------------- MODULE LowLevelTrie_proofs -------------------------
(***************************************************************************)
(* The invariant of a trie, and proofs that the steps the operations are   *)
(* made of keep it: entries and values, new nodes, lists of children,      *)
(* splits and collapses of stems, and the copies that make_owned makes.    *)
(* An operation may change the current generation only, which Good says,   *)
(* so each of these steps has to show the invariant of that one.           *)
(***************************************************************************)
EXTENDS LowLevelTrie, TLAPS, FiniteSetTheorems, SequenceTheorems, WellFoundedInduction

(* A sequence, whatever its elements are. *)
IsSeq(s) == Len(s) \in Nat /\ s = [i \in 1 .. Len(s) |-> s[i]]

(* A persistent tree: its nodes have sequences of chunks and of children,  *)
(* and its children are persistent trees.                                  *)
Closed(S) ==
  \A p \in S : /\ IsSeq(p.path)
               /\ IsSeq(p.children)
               /\ \A j \in DOMAIN p.children : p.children[j].node \in S
WellFormed(p) == \E S : p \in S /\ Closed(S)

(* The children of a node below generation g, in an arena of N nodes. *)
ChildrenOK(c, N, g) ==
  /\ IsSeq(c.list)
  /\ \/ /\ c.kind = "Borrowed"
        /\ c = Borrowed(c.list)
        /\ \A j \in DOMAIN c.list : WellFormed(c.list[j].node)
     \/ /\ c.kind = "Owned"
        /\ c = Owned(c.generation, c.list)
        /\ c.generation \in 0 .. g - 1
        /\ \A j \in DOMAIN c.list : /\ c.list[j] = Child(c.list[j].key, c.list[j].index)
                                    /\ c.list[j].index \in 1 .. N

NodeOK(n, N, E, g) ==
  /\ n = MutableNode(n.generation, n.value, n.path, n.children, n.origin)
  /\ n.generation \in 0 .. g - 1
  /\ n.value = None \/ n.value \in 1 .. E
  /\ IsSeq(n.path)
  /\ n.origin = None \/ WellFormed(n.origin)
  /\ ChildrenOK(n.children, N, g)

EntryOK(e, V, W) ==
  \/ e = Deleted
  \/ e.kind = "Mutable" /\ e = Mutable(e.idx) /\ e.idx \in 1 .. V
  \/ e.kind = "ReadOnly" /\ e = ReadOnly(FALSE, e.idx) /\ e.idx \in 1 .. V
  \/ e.kind = "ReadOnly" /\ e = ReadOnly(TRUE, e.idx) /\ e.idx \in 1 .. W

(* The node has children of its own, not shared with an older generation. *)
Own(n) == n.children.kind = "Owned" /\ n.children.generation = n.generation

(* Child j of node i, one of the nodes from lo + 1 to hi, is node k. *)
Points(nodes, lo, hi, i, j, k) ==
  /\ i \in lo + 1 .. hi
  /\ Own(nodes[i])
  /\ j \in DOMAIN nodes[i].children.list
  /\ nodes[i].children.list[j].index = k

(* What lies below the limit h of generation g is all it needs... *)
Covered(t, g, h) ==
  /\ \A i \in 1 .. h.num_nodes : NodeOK(t.nodes[i], h.num_nodes, h.num_entries, g)
  /\ \A e \in 1 .. h.num_entries : EntryOK(t.entries[e], h.num_values, h.num_borrowed_nodes)

(* ... and what lies between its checkpoint and the limit is its own.      *)
OwnNode(n, g, lo) ==
  /\ n.value # None => n.value > lo.num_entries
  /\ ~ Own(n) => n.generation = g - 1
  /\ n.children.kind = "Owned" /\ ~ Own(n) =>
       \A j \in DOMAIN n.children.list : n.children.list[j].index <= lo.num_nodes

OwnPart(t, g, lo, h) ==
  /\ \A i \in lo.num_nodes + 1 .. h.num_nodes : OwnNode(t.nodes[i], g, lo)
  /\ \A e \in lo.num_entries + 1 .. h.num_entries :
       t.entries[e].kind = "Mutable" => t.entries[e].idx > lo.num_values

(* The nodes of a generation form a forest: up and pos give the one child  *)
(* list that a node is in, and its place there.                            *)
Linked(nodes, root, g, lo, hi, up, pos) ==
  /\ \A i, j, k \in Nat : Points(nodes, lo, hi, i, j, k) =>
       /\ k > lo
       /\ up[k] = i /\ pos[k] = j
       /\ nodes[i].generation = g - 1 => nodes[k].generation = g - 1
  /\ root # None =>
       /\ root \in lo + 1 .. hi
       /\ nodes[root].generation = g - 1
       /\ up[root] = 0

Forest(nodes, root, g, lo, hi) == \E up, pos : Linked(nodes, root, g, lo, hi, up, pos)

GenInv(t, g, lo, h) ==
  /\ Covered(t, g, h)
  /\ OwnPart(t, g, lo, h)
  /\ Forest(t.nodes, t.generations[g].root, g, lo.num_nodes, h.num_nodes)

(* The lengths of the arenas, and how far generation g reaches into them. *)
Lengths(t) == Checkpoint(Len(t.nodes), Len(t.values), Len(t.borrowed_values), Len(t.entries))
Low(t, g) == t.generations[g].checkpoint
Limit(t, g) == IF g < Current(t) THEN Low(t, g + 1) ELSE Lengths(t)

IsTrie(t) ==
  /\ t = [generations |-> t.generations, entries |-> t.entries, values |-> t.values,
          borrowed_values |-> t.borrowed_values, nodes |-> t.nodes]
  /\ IsSeq(t.generations) /\ Len(t.generations) >= 1
  /\ \A g \in 1 .. Len(t.generations) :
       t.generations[g] = [root |-> t.generations[g].root, checkpoint |-> t.generations[g].checkpoint,
                           iterator_roots |-> t.generations[g].iterator_roots]
  /\ IsSeq(t.entries) /\ IsSeq(t.values) /\ IsSeq(t.borrowed_values) /\ IsSeq(t.nodes)

(* Checkpoint c is no later than d. *)
IsCheckpoint(c) == /\ c.num_nodes \in Nat /\ c.num_values \in Nat
                   /\ c.num_borrowed_nodes \in Nat /\ c.num_entries \in Nat
Below(c, d) ==
  /\ c.num_nodes <= d.num_nodes
  /\ c.num_values <= d.num_values
  /\ c.num_borrowed_nodes <= d.num_borrowed_nodes
  /\ c.num_entries <= d.num_entries

Ordered(t) ==
  /\ \A g \in 1 .. Current(t) : IsCheckpoint(Low(t, g)) /\ Below(Low(t, g), Lengths(t))
  /\ \A g, h \in 1 .. Current(t) : g < h => Below(Low(t, g), Low(t, h))

TrieInv(t) ==
  /\ IsTrie(t)
  /\ Ordered(t)
  /\ \A g \in 1 .. Current(t) : GenInv(t, g, Low(t, g), Limit(t, g))

-----------------------------------------------------------------------------
(* Sequences, whatever their elements are.                                 *)

(* A nonempty set of numbers has a least one. *)
LEMMA LeastNat ==
  ASSUME NEW T \in SUBSET Nat, T # {}
  PROVE  \E n \in T : \A m \in T : n <= m
<1> DEFINE R == {ss \in Nat \X Nat : ss[1] < ss[2]}
<1>1. IsWellFoundedOn(R, Nat)
  BY NatLessThanWellFounded DEF OpToRel
<1>2. PICK n \in T : \A m \in T : <<m, n>> \notin R
  <2> HIDE DEF R
  <2> QED  BY <1>1, WFMin
<1>3. \A m \in T : ~ (m < n)
  BY <1>2
<1> QED  BY <1>3

(* IsSeq is membership in some set of sequences. *)
LEMMA SeqIsSeq ==
  ASSUME NEW s
  PROVE  IsSeq(s) <=> \E S : s \in Seq(S)
<1>1. ASSUME IsSeq(s) PROVE s \in Seq({s[i] : i \in 1 .. Len(s)})
  <2> DEFINE S == {s[i] : i \in 1 .. Len(s)}
  <2>1. Len(s) \in Nat /\ s \in [1 .. Len(s) -> S]
    BY <1>1 DEF IsSeq
  <2> HIDE DEF S
  <2>2. s \in Seq(S)
    BY <2>1, SeqDef
  <2> QED  BY <2>2 DEF S
<1>2. ASSUME NEW S, s \in Seq(S) PROVE IsSeq(s)
  BY <1>2 DEF IsSeq
<1> QED  BY <1>1, <1>2

(* Two sequences have a common type. *)
LEMMA CommonSeq ==
  ASSUME NEW s, NEW u, IsSeq(s), IsSeq(u)
  PROVE  \E S : s \in Seq(S) /\ u \in Seq(S)
<1>1. PICK S : s \in Seq(S)
  BY SeqIsSeq
<1>2. PICK U : u \in Seq(U)
  BY SeqIsSeq
<1>3. s \in Seq(S \cup U) /\ u \in Seq(S \cup U)
  BY <1>1, <1>2, SeqMonotonic
<1> QED  BY <1>3

(* The domain of a sequence. *)
LEMMA SeqDomain ==
  ASSUME NEW s, IsSeq(s)
  PROVE  DOMAIN s = 1 .. Len(s) /\ Len(s) \in Nat
BY DEF IsSeq

(* A function on 1 .. n is a sequence of length n. *)
LEMMA SeqFun ==
  ASSUME NEW f, NEW n \in Nat, f = [i \in 1 .. n |-> f[i]]
  PROVE  IsSeq(f) /\ Len(f) = n
<1> DEFINE S == {f[i] : i \in 1 .. n}
<1>1. f \in [1 .. n -> S]
  OBVIOUS
<1> HIDE DEF S
<1>2. f \in Seq(S)
  BY <1>1, SeqDef
<1>3. DOMAIN f = 1 .. n /\ DOMAIN f = 1 .. Len(f) /\ Len(f) \in Nat
  BY <1>1, <1>2
<1> QED  BY <1>2, <1>3, SeqIsSeq

(* Append. *)
LEMMA SeqAppend ==
  ASSUME NEW s, NEW e, IsSeq(s)
  PROVE  /\ IsSeq(Append(s, e))
         /\ Len(Append(s, e)) = Len(s) + 1
         /\ \A i \in 1 .. Len(s) : Append(s, e)[i] = s[i]
         /\ Append(s, e)[Len(s) + 1] = e
<1>1. PICK S : s \in Seq(S)
  BY SeqIsSeq
<1>2. s \in Seq(S \cup {e})
  BY <1>1, SeqMonotonic
<1>3. PICK U : s \in Seq(U) /\ e \in U
  BY <1>2
<1>4. /\ Append(s, e) \in Seq(U)
      /\ Len(Append(s, e)) = Len(s) + 1
      /\ \A i \in 1 .. Len(s) : Append(s, e)[i] = s[i]
      /\ Append(s, e)[Len(s) + 1] = e
  BY <1>3
<1>5. IsSeq(Append(s, e))
  BY <1>4, SeqIsSeq
<1> QED  BY <1>4, <1>5

(* Concatenation and update, as symbols for the provers. *)
Cat(s, u) == s \o u
Upd(s, i, e) == [s EXCEPT ![i] = e]

(* Concatenation. *)
LEMMA SeqConcat ==
  ASSUME NEW s, NEW u, IsSeq(s), IsSeq(u)
  PROVE  /\ IsSeq(Cat(s, u))
         /\ Len(Cat(s, u)) = Len(s) + Len(u)
         /\ \A i \in 1 .. Len(s) : Cat(s, u)[i] = s[i]
         /\ \A i \in Len(s) + 1 .. Len(s) + Len(u) : Cat(s, u)[i] = u[i - Len(s)]
<1>1. PICK S : s \in Seq(S) /\ u \in Seq(S)
  BY CommonSeq
<1>2. s \o u \in Seq(S) /\ Len(s \o u) = Len(s) + Len(u) /\ Len(s) \in Nat /\ Len(u) \in Nat
  BY <1>1
<1>3. \A i \in 1 .. Len(s) + Len(u) : (s \o u)[i] = IF i <= Len(s) THEN s[i] ELSE u[i - Len(s)]
  BY <1>1, ConcatProperties
<1>4. \A i \in 1 .. Len(s) : (s \o u)[i] = s[i]
  BY <1>2, <1>3
<1>5. \A i \in Len(s) + 1 .. Len(s) + Len(u) : (s \o u)[i] = u[i - Len(s)]
  BY <1>2, <1>3
<1>6. IsSeq(s \o u)
  BY <1>2, SeqIsSeq
<1> QED  BY <1>2, <1>4, <1>5, <1>6 DEF Cat

(* The second part of a concatenation. *)
LEMMA SeqConcatAt ==
  ASSUME NEW s, NEW u, IsSeq(s), IsSeq(u)
  PROVE  \A i \in 1 .. Len(u) : Cat(s, u)[Len(s) + i] = u[i]
<1> SUFFICES ASSUME NEW i \in 1 .. Len(u)
             PROVE  Cat(s, u)[Len(s) + i] = u[i]
  OBVIOUS
<1>1. Len(s) \in Nat /\ Len(u) \in Nat
  BY SeqDomain
<1>2. PICK k : k = Len(s) + i
  OBVIOUS
<1>3. k \in Len(s) + 1 .. Len(s) + Len(u) /\ k - Len(s) = i
  BY <1>1, <1>2
<1>4. Cat(s, u)[k] = u[k - Len(s)]
  BY <1>3, SeqConcat
<1> QED  BY <1>2, <1>3, <1>4

(* A sequence after the empty one is itself. *)
LEMMA SeqPlain ==
  ASSUME NEW s, IsSeq(s)
  PROVE  <<>> \o s = s
BY SeqIsSeq, ConcatEmptySeq

(* A prefix, as truncate leaves it. *)
LEMMA SeqPrefix ==
  ASSUME NEW s, IsSeq(s), NEW n \in 0 .. Len(s)
  PROVE  /\ IsSeq(SubSeq(s, 1, n))
         /\ Len(SubSeq(s, 1, n)) = n
         /\ \A i \in 1 .. n : SubSeq(s, 1, n)[i] = s[i]
<1>1. PICK S : s \in Seq(S)
  BY SeqIsSeq
<1>2. /\ SubSeq(s, 1, n) \in Seq(S)
      /\ Len(SubSeq(s, 1, n)) = n
      /\ \A i \in 1 .. n : SubSeq(s, 1, n)[i] = s[i]
  BY <1>1
<1>3. IsSeq(SubSeq(s, 1, n))
  BY <1>2, SeqIsSeq
<1> QED  BY <1>2, <1>3

(* A suffix, as the rest of a key. *)
LEMMA SeqSuffix ==
  ASSUME NEW s, IsSeq(s), NEW m \in Nat \ {0}
  PROVE  /\ IsSeq(SubSeq(s, m, Len(s)))
         /\ Len(SubSeq(s, m, Len(s))) = IF m <= Len(s) THEN Len(s) - m + 1 ELSE 0
         /\ \A i \in 1 .. Len(s) - m + 1 : SubSeq(s, m, Len(s))[i] = s[m + i - 1]
<1>1. PICK S : s \in Seq(S)
  BY SeqIsSeq
<1>2. Len(s) \in Int /\ m \in Int /\ \A i \in m .. Len(s) : s[i] \in S
  BY <1>1
<1>3. PICK n : n = Len(s)
  OBVIOUS
<1>4. /\ SubSeq(s, m, n) \in Seq(S)
      /\ Len(SubSeq(s, m, n)) = IF m <= n THEN n - m + 1 ELSE 0
      /\ \A i \in 1 .. n - m + 1 : SubSeq(s, m, n)[i] = s[m + i - 1]
  BY <1>2, <1>3, SubSeqProperties
<1>5. IsSeq(SubSeq(s, m, n))
  BY <1>4, SeqIsSeq
<1> QED  BY <1>3, <1>4, <1>5

(* A function on the domain of a sequence is a sequence. *)
LEMMA SeqSame ==
  ASSUME NEW s, NEW r, IsSeq(s), DOMAIN r = DOMAIN s, r = [i \in DOMAIN r |-> r[i]]
  PROVE  IsSeq(r) /\ Len(r) = Len(s)
<1>1. DOMAIN s = 1 .. Len(s) /\ Len(s) \in Nat
  BY SeqDomain
<1>2. r = [i \in 1 .. Len(s) |-> r[i]]
  BY <1>1
<1> QED  BY <1>1, <1>2, SeqFun

(* An update keeps the length. *)
LEMMA SeqExcept ==
  ASSUME NEW s, NEW i, NEW e, IsSeq(s)
  PROVE  /\ IsSeq(Upd(s, i, e))
         /\ Len(Upd(s, i, e)) = Len(s)
         /\ \A k \in 1 .. Len(s) : Upd(s, i, e)[k] = IF k = i THEN e ELSE s[k]
<1>1. DOMAIN s = 1 .. Len(s) /\ Len(s) \in Nat
  BY SeqDomain
<1>2. PICK f : f = Upd(s, i, e)
  OBVIOUS
<1>3. DOMAIN f = DOMAIN s /\ f = [k \in DOMAIN f |-> f[k]]
  BY <1>2 DEF Upd
<1>4. \A k \in 1 .. Len(s) : f[k] = IF k = i THEN e ELSE s[k]
  BY <1>1, <1>2 DEF Upd
<1>5. IsSeq(f) /\ Len(f) = Len(s)
  BY <1>3, SeqSame
<1> QED  BY <1>2, <1>4, <1>5

(* Sequences of no, one and two elements. *)
LEMMA SeqSmall ==
  /\ IsSeq(<<>>) /\ Len(<<>>) = 0
  /\ \A e : IsSeq(<<e>>) /\ Len(<<e>>) = 1 /\ <<e>>[1] = e
  /\ \A e, f : IsSeq(<<e, f>>) /\ Len(<<e, f>>) = 2 /\ <<e, f>>[1] = e /\ <<e, f>>[2] = f
  /\ \A s : IsSeq(s) /\ Len(s) = 0 => s = <<>>
<1>1. IsSeq(<<>>) /\ Len(<<>>) = 0
  BY DEF IsSeq
<1>2. ASSUME NEW e PROVE IsSeq(<<e>>) /\ Len(<<e>>) = 1 /\ <<e>>[1] = e
  <2>1. <<e>> \in Seq({e}) /\ Len(<<e>>) = 1 /\ <<e>>[1] = e
    OBVIOUS
  <2> QED  BY <2>1, SeqIsSeq
<1>3. ASSUME NEW e, NEW f
      PROVE  IsSeq(<<e, f>>) /\ Len(<<e, f>>) = 2 /\ <<e, f>>[1] = e /\ <<e, f>>[2] = f
  <2>1. <<e, f>> \in Seq({e, f}) /\ Len(<<e, f>>) = 2 /\ <<e, f>>[1] = e /\ <<e, f>>[2] = f
    OBVIOUS
  <2> QED  BY <2>1, SeqIsSeq
<1>4. ASSUME NEW s, IsSeq(s), Len(s) = 0 PROVE s = <<>>
  BY <1>4, SeqIsSeq, EmptySeq
<1> QED  BY <1>1, <1>2, <1>3, <1>4

(* InsertAt moves what is behind the place. *)
LEMMA SeqInsertAt ==
  ASSUME NEW s, IsSeq(s), NEW p \in 1 .. Len(s) + 1, NEW e
  PROVE  /\ IsSeq(InsertAt(s, p, e))
         /\ Len(InsertAt(s, p, e)) = Len(s) + 1
         /\ \A i \in 1 .. Len(s) + 1 :
              InsertAt(s, p, e)[i] = IF i < p THEN s[i] ELSE IF i = p THEN e ELSE s[i - 1]
<1>0. Len(s) \in Nat
  BY SeqDomain
<1>1. PICK a : a = SubSeq(s, 1, p - 1)
  OBVIOUS
<1>2. IsSeq(a) /\ Len(a) = p - 1 /\ \A i \in 1 .. p - 1 : a[i] = s[i]
  BY <1>0, <1>1, SeqPrefix
<1>3. PICK b : b = SubSeq(s, p, Len(s))
  OBVIOUS
<1>4. /\ IsSeq(b)
      /\ Len(b) = IF p <= Len(s) THEN Len(s) - p + 1 ELSE 0
      /\ \A i \in 1 .. Len(s) - p + 1 : b[i] = s[p + i - 1]
  <2>1. p \in Nat \ {0}
    BY <1>0
  <2>2. /\ IsSeq(SubSeq(s, p, Len(s)))
        /\ Len(SubSeq(s, p, Len(s))) = IF p <= Len(s) THEN Len(s) - p + 1 ELSE 0
        /\ \A i \in 1 .. Len(s) - p + 1 : SubSeq(s, p, Len(s))[i] = s[p + i - 1]
    BY <2>1, SeqSuffix
  <2> QED  BY <1>3, <2>2
<1>5. PICK m : m = Cat(a, <<e>>)
  OBVIOUS
<1>6. IsSeq(<<e>>) /\ Len(<<e>>) = 1 /\ <<e>>[1] = e
  BY SeqSmall
<1>7. IsSeq(m) /\ Len(m) = p /\ (\A i \in 1 .. p - 1 : m[i] = s[i]) /\ m[p] = e
  <2>1. /\ IsSeq(m) /\ Len(m) = Len(a) + 1 /\ \A i \in 1 .. Len(a) : m[i] = a[i]
        /\ \A i \in 1 .. 1 : m[Len(a) + i] = <<e>>[i]
    <3>1. PICK one : one = <<e>>
      OBVIOUS
    <3>2. IsSeq(one) /\ Len(one) = 1 /\ m = Cat(a, one)
      BY <1>5, <1>6, <3>1, Zenon
    <3>3. /\ IsSeq(m) /\ Len(m) = Len(a) + Len(one) /\ \A i \in 1 .. Len(a) : m[i] = a[i]
          /\ \A i \in 1 .. Len(one) : m[Len(a) + i] = one[i]
      <4>1. IsSeq(a) /\ IsSeq(one) /\ m = Cat(a, one)
        BY <1>2, <3>2
      <4> QED  BY <4>1, SeqConcat, SeqConcatAt
    <3> QED  BY <3>1, <3>2, <3>3
  <2> QED  BY <1>2, <1>6, <2>1
<1>8. PICK r : r = Cat(m, b)
  OBVIOUS
<1>9. r = InsertAt(s, p, e)
  BY <1>1, <1>3, <1>5, <1>8 DEF InsertAt, Cat
<1>10. /\ IsSeq(r) /\ Len(r) = Len(m) + Len(b)
       /\ \A i \in 1 .. Len(m) : r[i] = m[i]
       /\ \A i \in 1 .. Len(b) : r[Len(m) + i] = b[i]
  <2>0. IsSeq(m) /\ IsSeq(b)
    BY <1>4, <1>7
  <2> QED  BY <2>0, <1>8, SeqConcat, SeqConcatAt
<1>11. \A i \in 1 .. Len(s) + 1 : r[i] = IF i < p THEN s[i] ELSE IF i = p THEN e ELSE s[i - 1]
  <2> TAKE i \in 1 .. Len(s) + 1
  <2>1. CASE i <= p
    BY <2>1, <1>0, <1>7, <1>10
  <2>2. CASE i > p
    <3>1. i - p \in 1 .. Len(b) /\ i - p \in 1 .. Len(s) - p + 1
      BY <2>2, <1>0, <1>4
    <3>2. r[p + (i - p)] = b[i - p] /\ b[i - p] = s[p + (i - p) - 1]
      BY <3>1, <1>4, <1>7, <1>10
    <3> QED  BY <2>2, <3>2, <1>0
  <2> QED  BY <2>1, <2>2, <1>0
<1> QED  BY <1>0, <1>4, <1>7, <1>9, <1>10, <1>11

(* RemoveAt closes the gap. *)
LEMMA SeqRemoveAt ==
  ASSUME NEW s, IsSeq(s), NEW p \in 1 .. Len(s)
  PROVE  /\ IsSeq(RemoveAt(s, p))
         /\ Len(RemoveAt(s, p)) = Len(s) - 1
         /\ \A i \in 1 .. Len(s) - 1 : RemoveAt(s, p)[i] = IF i < p THEN s[i] ELSE s[i + 1]
<1>0. Len(s) \in Nat
  BY SeqDomain
<1>1. PICK a : a = SubSeq(s, 1, p - 1)
  OBVIOUS
<1>2. IsSeq(a) /\ Len(a) = p - 1 /\ \A i \in 1 .. p - 1 : a[i] = s[i]
  BY <1>0, <1>1, SeqPrefix
<1>3. PICK b : b = SubSeq(s, p + 1, Len(s))
  OBVIOUS
<1>4. PICK q : q = p + 1
  OBVIOUS
<1>5. /\ IsSeq(b)
      /\ Len(b) = IF q <= Len(s) THEN Len(s) - q + 1 ELSE 0
      /\ \A i \in 1 .. Len(s) - q + 1 : b[i] = s[q + i - 1]
  <2>1. q \in Nat \ {0} /\ b = SubSeq(s, q, Len(s))
    BY <1>0, <1>3, <1>4
  <2> QED  BY <2>1, SeqSuffix
<1>8. PICK r : r = Cat(a, b)
  OBVIOUS
<1>9. r = RemoveAt(s, p)
  BY <1>1, <1>3, <1>8 DEF RemoveAt, Cat
<1>10. /\ IsSeq(r) /\ Len(r) = Len(a) + Len(b)
       /\ \A i \in 1 .. Len(a) : r[i] = a[i]
       /\ \A i \in 1 .. Len(b) : r[Len(a) + i] = b[i]
  <2>0. IsSeq(a) /\ IsSeq(b)
    BY <1>2, <1>5
  <2> QED  BY <2>0, <1>8, SeqConcat, SeqConcatAt
<1>11. \A i \in 1 .. Len(s) - 1 : r[i] = IF i < p THEN s[i] ELSE s[i + 1]
  <2> TAKE i \in 1 .. Len(s) - 1
  <2>1. CASE i < p
    BY <2>1, <1>0, <1>2, <1>10
  <2>2. CASE i >= p
    <3>1. i - (p - 1) \in 1 .. Len(b) /\ i - (p - 1) \in 1 .. Len(s) - q + 1
      BY <2>2, <1>0, <1>4, <1>5
    <3>2. /\ r[(p - 1) + (i - (p - 1))] = b[i - (p - 1)]
          /\ b[i - (p - 1)] = s[q + (i - (p - 1)) - 1]
      BY <3>1, <1>2, <1>5, <1>10
    <3>3. (p - 1) + (i - (p - 1)) = i /\ q + (i - (p - 1)) - 1 = i + 1
      BY <1>0, <1>4
    <3> QED  BY <2>2, <3>2, <3>3, <1>0
  <2> QED  BY <2>1, <2>2, <1>0
<1> QED  BY <1>0, <1>2, <1>4, <1>5, <1>9, <1>10, <1>11

(* Front and Last of a sequence that is not empty. *)
LEMMA SeqFront ==
  ASSUME NEW s, IsSeq(s), s # <<>>
  PROVE  /\ Len(s) \in Nat \ {0}
         /\ Last(s) = s[Len(s)]
         /\ IsSeq(Front(s))
         /\ Len(Front(s)) = Len(s) - 1
         /\ \A i \in 1 .. Len(s) - 1 : Front(s)[i] = s[i]
<1>1. Len(s) \in Nat \ {0}
  BY SeqSmall, SeqDomain
<1>2. Len(s) - 1 \in 0 .. Len(s)
  BY <1>1
<1>3. PICK n : n = Len(s) - 1
  OBVIOUS
<1>4. /\ IsSeq(SubSeq(s, 1, n))
      /\ Len(SubSeq(s, 1, n)) = n
      /\ \A i \in 1 .. n : SubSeq(s, 1, n)[i] = s[i]
  BY <1>2, <1>3, SeqPrefix
<1> QED  BY <1>1, <1>3, <1>4 DEF Front, Last

-----------------------------------------------------------------------------
(* Persistent trees.                                                       *)

(* The children of a persistent tree are persistent trees. *)
LEMMA WellFormedParts ==
  ASSUME NEW p, WellFormed(p)
  PROVE  /\ IsSeq(p.path)
         /\ IsSeq(p.children)
         /\ \A j \in DOMAIN p.children : WellFormed(p.children[j].node)
<1>1. PICK S : p \in S /\ Closed(S)
  BY DEF WellFormed
<1>2. ASSUME NEW j \in DOMAIN p.children PROVE WellFormed(p.children[j].node)
  <2>1. p.children[j].node \in S
    BY <1>1 DEF Closed
  <2> QED  BY <1>1, <2>1 DEF WellFormed
<1> QED  BY <1>1, <1>2 DEF Closed

(* A node over persistent trees is one. *)
LEMMA WellFormedNode ==
  ASSUME NEW p, IsSeq(p.path), IsSeq(p.children),
         \A j \in DOMAIN p.children : WellFormed(p.children[j].node)
  PROVE  WellFormed(p)
<1> DEFINE T(j) == CHOOSE S : p.children[j].node \in S /\ Closed(S)
           U == {p} \cup UNION {T(j) : j \in DOMAIN p.children}
<1>1. \A j \in DOMAIN p.children : p.children[j].node \in T(j) /\ Closed(T(j))
  <2> TAKE j \in DOMAIN p.children
  <2>1. \E S : p.children[j].node \in S /\ Closed(S)
    BY DEF WellFormed
  <2> QED  BY <2>1, Zenon
<1> HIDE DEF T
<1>2. ASSUME NEW q \in U
      PROVE  IsSeq(q.path) /\ IsSeq(q.children) /\ \A k \in DOMAIN q.children : q.children[k].node \in U
  <2>1. CASE q = p
    <3>1. \A k \in DOMAIN p.children : p.children[k].node \in U
      BY <1>1
    <3> HIDE DEF U
    <3> QED  BY <2>1, <3>1
  <2>2. CASE q # p
    <3>1. PICK j \in DOMAIN p.children : q \in T(j)
      BY <2>2
    <3>2. IsSeq(q.path) /\ IsSeq(q.children) /\ \A k \in DOMAIN q.children : q.children[k].node \in T(j)
      BY <1>1, <3>1 DEF Closed
    <3>3. T(j) \subseteq U
      OBVIOUS
    <3> HIDE DEF U
    <3> QED  BY <3>2, <3>3
  <2> QED  BY <2>1, <2>2
<1>3. p \in U
  OBVIOUS
<1> HIDE DEF U
<1>4. Closed(U)
  BY <1>2 DEF Closed
<1> QED  BY <1>3, <1>4 DEF WellFormed

-----------------------------------------------------------------------------
(* The places of the children that have a value.                           *)

(* Rank counts up by one at every place that is in the set. *)
LEMMA RankStep ==
  ASSUME NEW n \in Nat, NEW S \in SUBSET (1 .. n)
  PROVE  /\ IsFiniteSet(S)
         /\ Cardinality(S) \in Nat
         /\ \A j \in Nat : Rank(S, j) \in 0 .. Cardinality(S)
         /\ Rank(S, 0) = 0
         /\ Rank(S, n) = Cardinality(S)
         /\ \A j \in Nat : Rank(S, j + 1) = IF j + 1 \in S THEN Rank(S, j) + 1 ELSE Rank(S, j)
<1>0. \A i \in S : i \in Nat /\ 1 <= i /\ i <= n
  <2> TAKE i \in S
  <2>1. i \in 1 .. n
    OBVIOUS
  <2> QED  BY <2>1
<1>1. IsFiniteSet(1 .. n)
  BY FS_Interval
<1>2. IsFiniteSet(S) /\ Cardinality(S) \in Nat
  BY <1>1, FS_Subset, FS_CardinalityType
<1>3. ASSUME NEW j \in Nat PROVE IsFiniteSet({i \in S : i <= j}) /\ Rank(S, j) \in 0 .. Cardinality(S)
  <2>1. {i \in S : i <= j} \in SUBSET S
    OBVIOUS
  <2>2. IsFiniteSet({i \in S : i <= j}) /\ Cardinality({i \in S : i <= j}) <= Cardinality(S)
    BY <1>2, <2>1, FS_Subset
  <2>3. Cardinality({i \in S : i <= j}) \in Nat
    BY <2>2, FS_CardinalityType
  <2> QED  BY <1>2, <2>2, <2>3 DEF Rank
<1>4. Rank(S, 0) = 0
  <2>1. {i \in S : i <= 0} = {}
    <3>1. \A i \in S : ~ (i <= 0)
      BY <1>0
    <3> QED  BY <3>1, Zenon
  <2> QED  BY <2>1, FS_EmptySet DEF Rank
<1>5. Rank(S, n) = Cardinality(S)
  <2>1. {i \in S : i <= n} = S
    <3>1. \A i \in S : i <= n
      BY <1>0
    <3> QED  BY <3>1, Zenon
  <2> QED  BY <2>1 DEF Rank
<1>6. ASSUME NEW j \in Nat
      PROVE  Rank(S, j + 1) = IF j + 1 \in S THEN Rank(S, j) + 1 ELSE Rank(S, j)
  <2>1. PICK D : D = {i \in S : i <= j}
    OBVIOUS
  <2>2. IsFiniteSet(D) /\ Rank(S, j) = Cardinality(D) /\ j + 1 \notin D
    BY <1>3, <2>1 DEF Rank
  <2>a. \A i \in S : i <= j + 1 <=> (i <= j \/ i = j + 1)
    BY <1>0
  <2>3. CASE j + 1 \in S
    <3>1. {i \in S : i <= j + 1} = D \cup {j + 1}
      BY <2>a, <2>1, <2>3, Zenon
    <3>2. Cardinality(D \cup {j + 1}) = Cardinality(D) + 1
      BY <2>2, FS_AddElement
    <3> QED  BY <2>2, <2>3, <3>1, <3>2 DEF Rank
  <2>4. CASE j + 1 \notin S
    <3>1. {i \in S : i <= j + 1} = D
      BY <2>a, <2>1, <2>4, Zenon
    <3> QED  BY <2>2, <2>4, <3>1 DEF Rank
  <2> QED  BY <2>3, <2>4
<1> QED  BY <1>2, <1>3, <1>4, <1>5, <1>6

(* InOrder lists places of the set, and Rank is a place in the list. *)
LEMMA RankFacts ==
  ASSUME NEW n \in Nat, NEW S \in SUBSET (1 .. n)
  PROVE  /\ Cardinality(S) \in Nat
         /\ \A j \in S : Rank(S, j) \in 1 .. Cardinality(S)
         /\ IsSeq(InOrder(S)) /\ Len(InOrder(S)) = Cardinality(S)
         /\ \A r \in 1 .. Cardinality(S) : InOrder(S)[r] \in S
<1>1. /\ Cardinality(S) \in Nat
      /\ \A j \in Nat : Rank(S, j) \in 0 .. Cardinality(S)
      /\ Rank(S, 0) = 0
      /\ Rank(S, n) = Cardinality(S)
      /\ \A j \in Nat : Rank(S, j + 1) = IF j + 1 \in S THEN Rank(S, j) + 1 ELSE Rank(S, j)
  BY RankStep
<1>2. ASSUME NEW j \in S PROVE Rank(S, j) \in 1 .. Cardinality(S)
  <2>1. PICK i : i = j - 1
    OBVIOUS
  <2>2. i \in Nat /\ j = i + 1
    BY <2>1
  <2>3. Rank(S, i + 1) = Rank(S, i) + 1 /\ Rank(S, i) \in 0 .. Cardinality(S)
    BY <1>1, <2>2
  <2>4. Rank(S, i + 1) \in 0 .. Cardinality(S)
    BY <1>1, <2>2
  <2> QED  BY <1>1, <2>2, <2>3, <2>4
<1>3. ASSUME NEW r \in 1 .. Cardinality(S) PROVE \E j \in S : Rank(S, j) = r
  <2> DEFINE T == {j \in Nat : Rank(S, j) >= r}
  <2>1. n \in T
    BY <1>1
  <2>2. PICK m \in T : \A j \in T : m <= j
    BY <2>1, LeastNat
  <2>3. m # 0
    BY <1>1, <2>2
  <2>4. PICK i : i = m - 1
    OBVIOUS
  <2>5. i \in Nat /\ m = i + 1
    BY <2>2, <2>3, <2>4
  <2>6. ~ (Rank(S, i) >= r)
    BY <2>2, <2>5
  <2>7. Rank(S, m) >= r
    BY <2>2
  <2>8. Rank(S, i + 1) = (IF i + 1 \in S THEN Rank(S, i) + 1 ELSE Rank(S, i)) /\ Rank(S, i) \in Nat
    BY <1>1, <2>5
  <2>9. m \in S /\ Rank(S, m) = r
    BY <1>1, <2>5, <2>6, <2>7, <2>8
  <2> QED  BY <2>9
<1>4. \A r \in 1 .. Cardinality(S) : InOrder(S)[r] \in S
  BY <1>3 DEF InOrder
<1>5. IsSeq(InOrder(S)) /\ Len(InOrder(S)) = Cardinality(S)
  <2>1. PICK f : f = InOrder(S)
    OBVIOUS
  <2>2. f = [r \in 1 .. Cardinality(S) |-> f[r]]
    BY <2>1 DEF InOrder
  <2> QED  BY <1>1, <2>1, <2>2, SeqFun
<1> QED  BY <1>1, <1>2, <1>4, <1>5

-----------------------------------------------------------------------------
(* Following a key.                                                        *)

(* What follow_stem says of the lengths of the key and of the stem. *)
LEMMA FollowStem ==
  ASSUME NEW key, NEW stem, IsSeq(key), IsSeq(stem)
  PROVE  /\ follow_stem(key, stem).common \in 0 .. Len(key)
         /\ follow_stem(key, stem).common <= Len(stem)
         /\ follow_stem(key, stem).how \in {"Equal", "KeyIsPrefix", "StemIsPrefix", "Diff"}
         /\ follow_stem(key, stem).how = "StemIsPrefix" => Len(stem) < Len(key)
<1>0. Len(key) \in Nat /\ Len(stem) \in Nat
  BY SeqDomain
<1> DEFINE Stop(n) == n = Len(key) \/ n = Len(stem) \/ key[n + 1] # stem[n + 1]
           Common(n) == n <= Len(stem) /\ Pre(key, n) = Pre(stem, n) /\ Stop(n)
           T == {n \in Nat : Stop(n)}
<1>1. PICK n \in T : \A m \in T : n <= m
  <2>1. T # {}
    BY <1>0
  <2> QED  BY <2>1, LeastNat
<1>2. n <= Len(key) /\ n <= Len(stem)
  BY <1>0, <1>1
<1>3. \A m \in 1 .. n : key[m] = stem[m]
  <2> TAKE m \in 1 .. n
  <2>1. PICK i : i = m - 1
    OBVIOUS
  <2>2. i \in Nat /\ m = i + 1 /\ i < n
    BY <1>1, <2>1
  <2>3. ~ Stop(i)
    BY <1>1, <2>2
  <2> QED  BY <2>2, <2>3
<1>4. Pre(key, n) = Pre(stem, n)
  <2>1. PICK a : a = Pre(key, n)
    OBVIOUS
  <2>2. PICK b : b = Pre(stem, n)
    OBVIOUS
  <2>3. n \in 0 .. Len(key) /\ n \in 0 .. Len(stem)
    BY <1>0, <1>1, <1>2
  <2>4. IsSeq(a) /\ Len(a) = n /\ \A i \in 1 .. n : a[i] = key[i]
    BY <2>1, <2>3, SeqPrefix DEF Pre
  <2>5. IsSeq(b) /\ Len(b) = n /\ \A i \in 1 .. n : b[i] = stem[i]
    BY <2>2, <2>3, SeqPrefix DEF Pre
  <2>6. a = b
    BY <1>3, <2>4, <2>5 DEF IsSeq
  <2> QED  BY <2>1, <2>2, <2>6
<1>5. PICK c : c = CHOOSE m \in 0 .. Len(key) : Common(m)
  OBVIOUS
<1>6. c \in 0 .. Len(key) /\ Common(c)
  <2>1. n \in 0 .. Len(key) /\ Common(n)
    BY <1>0, <1>1, <1>2, <1>4
  <2> HIDE DEF Common
  <2> QED  BY <1>5, <2>1
<1>7. follow_stem(key, stem) =
        [common |-> c,
         how |-> CASE c = Len(key) /\ c = Len(stem) -> "Equal"
                   [] c = Len(key) /\ c < Len(stem) -> "KeyIsPrefix"
                   [] c < Len(key) /\ c = Len(stem) -> "StemIsPrefix"
                   [] OTHER -> "Diff"]
  BY <1>5 DEF follow_stem
<1> QED  BY <1>0, <1>6, <1>7

-----------------------------------------------------------------------------
(* A step within the current generation changes nothing below its          *)
(* checkpoint, so that the invariant of the older generations is kept.     *)

Frame(t, u) ==
  LET lo == Low(t, Current(t))
  IN /\ Current(u) = Current(t)
     /\ \A g \in 1 .. Current(t) - 1 : u.generations[g] = t.generations[g]
     /\ Low(u, Current(t)) = lo
     /\ Below(Lengths(t), Lengths(u))
     /\ \A i \in 1 .. lo.num_nodes : u.nodes[i] = t.nodes[i]
     /\ \A i \in 1 .. lo.num_entries : u.entries[i] = t.entries[i]
     /\ \A i \in 1 .. lo.num_values : u.values[i] = t.values[i]
     /\ \A i \in 1 .. lo.num_borrowed_nodes : u.borrowed_values[i] = t.borrowed_values[i]

Good(t, u) == TrieInv(u) /\ Frame(t, u)

(* The fields of Lengths are the lengths of the arenas. *)
LEMMA LengthsFacts ==
  ASSUME NEW t, IsTrie(t)
  PROVE  /\ IsCheckpoint(Lengths(t))
         /\ Lengths(t).num_nodes = Len(t.nodes) /\ DOMAIN t.nodes = 1 .. Len(t.nodes)
         /\ Lengths(t).num_values = Len(t.values) /\ DOMAIN t.values = 1 .. Len(t.values)
         /\ Lengths(t).num_borrowed_nodes = Len(t.borrowed_values)
         /\ Lengths(t).num_entries = Len(t.entries) /\ DOMAIN t.entries = 1 .. Len(t.entries)
         /\ Current(t) \in Nat \ {0} /\ DOMAIN t.generations = 1 .. Current(t)
<1>1. /\ Len(t.nodes) \in Nat /\ Len(t.values) \in Nat /\ Len(t.borrowed_values) \in Nat
      /\ Len(t.entries) \in Nat /\ Len(t.generations) \in Nat /\ Len(t.generations) >= 1
      /\ DOMAIN t.nodes = 1 .. Len(t.nodes) /\ DOMAIN t.values = 1 .. Len(t.values)
      /\ DOMAIN t.entries = 1 .. Len(t.entries) /\ DOMAIN t.generations = 1 .. Len(t.generations)
  BY SeqDomain DEF IsTrie
<1> QED  BY <1>1 DEF IsCheckpoint, Lengths, Checkpoint, Current

(* What the invariant says of the current generation. *)
LEMMA CurrentFacts ==
  ASSUME NEW t, TrieInv(t)
  PROVE  /\ IsTrie(t)
         /\ Current(t) \in Nat \ {0}
         /\ IsCheckpoint(Low(t, Current(t)))
         /\ Below(Low(t, Current(t)), Lengths(t))
         /\ GenInv(t, Current(t), Low(t, Current(t)), Lengths(t))
<1>1. IsTrie(t) /\ Current(t) \in Nat \ {0}
  BY LengthsFacts DEF TrieInv
<1>2. Current(t) \in 1 .. Current(t)
  BY <1>1
<1>3. IsCheckpoint(Low(t, Current(t))) /\ Below(Low(t, Current(t)), Lengths(t))
  BY <1>2 DEF TrieInv, Ordered
<1>4. Limit(t, Current(t)) = Lengths(t)
  BY <1>1 DEF Limit
<1>5. GenInv(t, Current(t), Low(t, Current(t)), Lengths(t))
  BY <1>2, <1>4 DEF TrieInv
<1> QED  BY <1>1, <1>3, <1>5

(* What a generation needs is read below its limit only. *)
LEMMA GenInvLocal ==
  ASSUME NEW t, NEW u, NEW g, NEW lo, NEW h, IsCheckpoint(lo), IsCheckpoint(h),
         GenInv(t, g, lo, h),
         \A i \in 1 .. h.num_nodes : u.nodes[i] = t.nodes[i],
         \A e \in 1 .. h.num_entries : u.entries[e] = t.entries[e],
         u.generations[g] = t.generations[g]
  PROVE  GenInv(u, g, lo, h)
<1>1. Covered(u, g, h)
  BY DEF Covered, GenInv
<1>2. OwnPart(u, g, lo, h)
  <2>1. \A i \in lo.num_nodes + 1 .. h.num_nodes : u.nodes[i] = t.nodes[i]
    BY DEF IsCheckpoint
  <2>2. \A e \in lo.num_entries + 1 .. h.num_entries : u.entries[e] = t.entries[e]
    BY DEF IsCheckpoint
  <2> QED  BY <2>1, <2>2 DEF OwnPart, GenInv
<1>3. ASSUME NEW root, Forest(t.nodes, root, g, lo.num_nodes, h.num_nodes)
      PROVE  Forest(u.nodes, root, g, lo.num_nodes, h.num_nodes)
  <2>1. PICK L, N : L = lo.num_nodes /\ N = h.num_nodes
    OBVIOUS
  <2>2. L \in Nat /\ N \in Nat /\ \A i \in 1 .. N : u.nodes[i] = t.nodes[i]
    BY <2>1 DEF IsCheckpoint
  <2>3. \A i, j, k \in Nat : Points(u.nodes, L, N, i, j, k) <=> Points(t.nodes, L, N, i, j, k)
    BY <2>2 DEF Points
  <2>4. \A i, j, k \in Nat : Points(t.nodes, L, N, i, j, k) => i \in 1 .. N /\ k \in 1 .. N
    <3> SUFFICES ASSUME NEW i \in Nat, NEW j \in Nat, NEW k \in Nat, Points(t.nodes, L, N, i, j, k)
                 PROVE  i \in 1 .. N /\ k \in 1 .. N
      OBVIOUS
    <3>1. i \in 1 .. N
      BY <2>2 DEF Points
    <3>2. NodeOK(t.nodes[i], N, h.num_entries, g)
      BY <2>1, <3>1 DEF GenInv, Covered
    <3> QED  BY <3>1, <3>2 DEF NodeOK, ChildrenOK, Points, Own, Borrowed
  <2>5. PICK up, pos : Linked(t.nodes, root, g, L, N, up, pos)
    BY <1>3, <2>1 DEF Forest
  <2>6. Linked(u.nodes, root, g, L, N, up, pos)
    <3>1. ASSUME NEW i \in Nat, NEW j \in Nat, NEW k \in Nat, Points(u.nodes, L, N, i, j, k)
          PROVE  /\ k > L
                 /\ up[k] = i /\ pos[k] = j
                 /\ u.nodes[i].generation = g - 1 => u.nodes[k].generation = g - 1
      <4>1. Points(t.nodes, L, N, i, j, k)
        BY <2>3, <3>1
      <4>2. /\ k > L
            /\ up[k] = i /\ pos[k] = j
            /\ t.nodes[i].generation = g - 1 => t.nodes[k].generation = g - 1
        BY <2>5, <4>1 DEF Linked
      <4>3. u.nodes[i] = t.nodes[i] /\ u.nodes[k] = t.nodes[k]
        BY <2>2, <2>4, <4>1
      <4> QED  BY <4>2, <4>3
    <3>2. root # None =>
            /\ root \in L + 1 .. N
            /\ u.nodes[root].generation = g - 1
            /\ up[root] = 0
      BY <2>2, <2>5 DEF Linked
    <3> QED  BY <3>1, <3>2 DEF Linked
  <2> QED  BY <2>1, <2>6 DEF Forest
<1> QED  BY <1>1, <1>2, <1>3 DEF GenInv

(* A step that keeps the frame has to show the invariant of the current    *)
(* generation only.                                                        *)
LEMMA GoodIntro ==
  ASSUME NEW t, NEW u, TrieInv(t), IsTrie(u), Frame(t, u),
         GenInv(u, Current(t), Low(t, Current(t)), Lengths(u))
  PROVE  Good(t, u)
<1>1. PICK G : G = Current(t)
  OBVIOUS
<1>2. /\ G \in Nat \ {0} /\ Current(u) = G
      /\ \A g \in 1 .. G - 1 : u.generations[g] = t.generations[g]
      /\ Low(u, G) = Low(t, G)
      /\ IsCheckpoint(Lengths(t)) /\ IsCheckpoint(Lengths(u))
      /\ Below(Lengths(t), Lengths(u))
  BY <1>1, CurrentFacts, LengthsFacts DEF Frame
<1>3. \A g \in 1 .. G : Low(u, g) = Low(t, g)
  BY <1>2 DEF Low
<1>4. \A g \in 1 .. G : IsCheckpoint(Low(t, g)) /\ Below(Low(t, g), Lengths(t))
  BY <1>1 DEF TrieInv, Ordered
<1>5. Ordered(u)
  <2>1. \A g \in 1 .. G : Below(Low(u, g), Lengths(u))
    BY <1>2, <1>3, <1>4 DEF Below, IsCheckpoint
  <2>2. \A g, h \in 1 .. G : g < h => Below(Low(u, g), Low(u, h))
    BY <1>1, <1>3 DEF TrieInv, Ordered
  <2> QED  BY <1>2, <1>3, <1>4, <2>1, <2>2 DEF Ordered
<1>6. ASSUME NEW g \in 1 .. G PROVE GenInv(u, g, Low(u, g), Limit(u, g))
  <2>1. CASE g = G
    BY <1>1, <1>2, <2>1 DEF Limit
  <2>2. CASE g < G
    <3>1. g + 1 \in 1 .. G /\ G \in 1 .. G
      BY <1>2, <2>2
    <3>2. Limit(t, g) = Low(t, g + 1) /\ Limit(u, g) = Low(t, g + 1)
      BY <1>1, <1>2, <1>3, <2>2, <3>1 DEF Limit
    <3>3. PICK h : h = Low(t, g + 1)
      OBVIOUS
    <3>4. GenInv(t, g, Low(t, g), h)
      BY <1>1, <3>2, <3>3 DEF TrieInv
    <3>5. IsCheckpoint(h) /\ IsCheckpoint(Low(t, g)) /\ IsCheckpoint(Low(t, G))
      BY <1>4, <3>1, <3>3
    <3>6. Below(h, Low(t, G))
      <4>1. CASE g + 1 = G
        BY <3>3, <3>5, <4>1 DEF Below, IsCheckpoint
      <4>2. CASE g + 1 # G
        <5>1. g + 1 < G
          BY <1>2, <2>2, <4>2
        <5> QED  BY <1>1, <3>1, <3>3, <5>1 DEF TrieInv, Ordered
      <4> QED  BY <4>1, <4>2
    <3>7. /\ \A i \in 1 .. h.num_nodes : u.nodes[i] = t.nodes[i]
          /\ \A e \in 1 .. h.num_entries : u.entries[e] = t.entries[e]
      <4>1. /\ \A i \in 1 .. Low(t, G).num_nodes : u.nodes[i] = t.nodes[i]
            /\ \A e \in 1 .. Low(t, G).num_entries : u.entries[e] = t.entries[e]
        BY <1>1 DEF Frame
      <4> QED  BY <3>5, <3>6, <4>1 DEF Below, IsCheckpoint
    <3>8. u.generations[g] = t.generations[g]
      BY <1>2, <2>2
    <3>9. GenInv(u, g, Low(t, g), h)
      BY <3>4, <3>5, <3>7, <3>8, GenInvLocal
    <3> QED  BY <1>3, <3>2, <3>3, <3>9
  <2> QED  BY <1>2, <2>1, <2>2
<1> QED  BY <1>2, <1>5, <1>6 DEF Good, TrieInv

(* No step at all is a good one. *)
LEMMA GoodSame ==
  ASSUME NEW t, TrieInv(t)
  PROVE  Good(t, t)
<1>1. IsCheckpoint(Lengths(t))
  BY CurrentFacts, LengthsFacts
<1>2. Below(Lengths(t), Lengths(t))
  BY <1>1 DEF Below, IsCheckpoint
<1> QED  BY <1>2 DEF Good, Frame

(* Good steps compose. *)
LEMMA GoodThen ==
  ASSUME NEW t, NEW u, NEW v, IsTrie(t), Good(t, u), Good(u, v)
  PROVE  Good(t, v)
<1>1. TrieInv(u) /\ TrieInv(v) /\ IsTrie(u) /\ IsTrie(v) /\ Frame(t, u) /\ Frame(u, v)
  BY DEF Good, TrieInv
<1>2. IsCheckpoint(Lengths(t)) /\ IsCheckpoint(Lengths(u)) /\ IsCheckpoint(Lengths(v))
  BY <1>1, LengthsFacts
<1>3. PICK G, lo : G = Current(t) /\ lo = Low(t, G)
  OBVIOUS
<1>4. Current(u) = G /\ Current(v) = G /\ Low(u, G) = lo /\ Low(v, G) = lo
  BY <1>1, <1>3 DEF Frame
<1>5. Below(Lengths(t), Lengths(v))
  <2>1. Below(Lengths(t), Lengths(u)) /\ Below(Lengths(u), Lengths(v))
    BY <1>1 DEF Frame
  <2> QED  BY <1>2, <2>1 DEF Below, IsCheckpoint
<1>6. \A g \in 1 .. G - 1 : v.generations[g] = t.generations[g]
  BY <1>1, <1>3, <1>4 DEF Frame
<1>7. /\ \A i \in 1 .. lo.num_nodes : v.nodes[i] = t.nodes[i]
      /\ \A i \in 1 .. lo.num_entries : v.entries[i] = t.entries[i]
      /\ \A i \in 1 .. lo.num_values : v.values[i] = t.values[i]
      /\ \A i \in 1 .. lo.num_borrowed_nodes : v.borrowed_values[i] = t.borrowed_values[i]
  BY <1>1, <1>3, <1>4 DEF Frame
<1>8. Frame(t, v)
  BY <1>3, <1>4, <1>5, <1>6, <1>7 DEF Frame
<1> QED  BY <1>1, <1>8 DEF Good

-----------------------------------------------------------------------------
(* The current generation, and the two ways to change it.                  *)

Lo(t) == Low(t, Current(t))
Mine(t) == Lo(t).num_nodes + 1 .. Len(t.nodes)
IsEntry(t, e) == e \in Lo(t).num_entries + 1 .. Len(t.entries)

NodesNow(t) ==
  /\ \A i \in 1 .. Len(t.nodes) : NodeOK(t.nodes[i], Len(t.nodes), Len(t.entries), Current(t))
  /\ \A i \in Mine(t) : OwnNode(t.nodes[i], Current(t), Lo(t))
EntriesNow(t) ==
  /\ \A e \in 1 .. Len(t.entries) : EntryOK(t.entries[e], Len(t.values), Len(t.borrowed_values))
  /\ \A e \in Lo(t).num_entries + 1 .. Len(t.entries) :
       t.entries[e].kind = "Mutable" => t.entries[e].idx > Lo(t).num_values
ForestNow(t) == Forest(t.nodes, Root(t), Current(t), Lo(t).num_nodes, Len(t.nodes))
Bounds(t) ==
  /\ Current(t) \in Nat \ {0}
  /\ Len(t.nodes) \in Nat /\ Len(t.entries) \in Nat
  /\ Len(t.values) \in Nat /\ Len(t.borrowed_values) \in Nat
  /\ Lo(t).num_nodes \in 0 .. Len(t.nodes) /\ Lo(t).num_entries \in 0 .. Len(t.entries)
  /\ Lo(t).num_values \in 0 .. Len(t.values)
  /\ Lo(t).num_borrowed_nodes \in 0 .. Len(t.borrowed_values)

(* The invariant of the current generation, in parts. *)
LEMMA Now ==
  ASSUME NEW t, TrieInv(t)
  PROVE  IsTrie(t) /\ Bounds(t) /\ NodesNow(t) /\ EntriesNow(t) /\ ForestNow(t)
<1>1. /\ IsTrie(t) /\ Current(t) \in Nat \ {0}
      /\ IsCheckpoint(Lo(t)) /\ Below(Lo(t), Lengths(t))
      /\ GenInv(t, Current(t), Lo(t), Lengths(t))
  BY CurrentFacts DEF Lo
<1>2. /\ IsCheckpoint(Lengths(t))
      /\ Lengths(t).num_nodes = Len(t.nodes) /\ Lengths(t).num_values = Len(t.values)
      /\ Lengths(t).num_borrowed_nodes = Len(t.borrowed_values)
      /\ Lengths(t).num_entries = Len(t.entries)
  BY <1>1, LengthsFacts
<1>3. Bounds(t)
  BY <1>1, <1>2 DEF Bounds, IsCheckpoint, Below
<1>4. /\ Covered(t, Current(t), Lengths(t))
      /\ OwnPart(t, Current(t), Lo(t), Lengths(t))
      /\ Forest(t.nodes, Root(t), Current(t), Lo(t).num_nodes, Lengths(t).num_nodes)
  BY <1>1 DEF GenInv, Root
<1>5. NodesNow(t)
  BY <1>2, <1>4 DEF NodesNow, Covered, OwnPart, Mine
<1>6. EntriesNow(t)
  BY <1>2, <1>4 DEF EntriesNow, Covered, OwnPart
<1>7. ForestNow(t)
  BY <1>2, <1>4 DEF ForestNow
<1> QED  BY <1>1, <1>3, <1>5, <1>6, <1>7

(* A longer arena only makes room. *)
LEMMA MoreRoom ==
  ASSUME NEW N \in Nat, NEW M \in Nat, N <= M, NEW E \in Nat, NEW F \in Nat, E <= F, NEW g
  PROVE  /\ \A n : NodeOK(n, N, E, g) => NodeOK(n, M, F, g)
         /\ \A e : EntryOK(e, N, E) => EntryOK(e, M, F)
<1>1. 1 .. N \subseteq 1 .. M /\ 1 .. E \subseteq 1 .. F
  OBVIOUS
<1>2. ASSUME NEW c, ChildrenOK(c, N, g) PROVE ChildrenOK(c, M, g)
  BY <1>1, <1>2 DEF ChildrenOK
<1>3. ASSUME NEW n, NodeOK(n, N, E, g) PROVE NodeOK(n, M, F, g)
  BY <1>1, <1>2, <1>3 DEF NodeOK
<1>4. ASSUME NEW e, EntryOK(e, N, E) PROVE EntryOK(e, M, F)
  BY <1>1, <1>4 DEF EntryOK
<1> QED  BY <1>3, <1>4

(* The generations stay, but for the root and the locks of the last. *)
SameGenerations(t, u) ==
  /\ Current(u) = Current(t)
  /\ \A g \in 1 .. Current(t) - 1 : u.generations[g] = t.generations[g]
  /\ Lo(u) = Lo(t)

(* Entries and values change, nodes stay. *)
LEMMA EntriesChange ==
  ASSUME NEW t, NEW u, TrieInv(t), IsTrie(u), SameGenerations(t, u), Root(u) = Root(t),
         u.nodes = t.nodes,
         Len(t.entries) <= Len(u.entries), Len(t.values) <= Len(u.values),
         Len(t.borrowed_values) <= Len(u.borrowed_values),
         \A e \in 1 .. Lo(t).num_entries : u.entries[e] = t.entries[e],
         \A i \in 1 .. Lo(t).num_values : u.values[i] = t.values[i],
         \A i \in 1 .. Lo(t).num_borrowed_nodes : u.borrowed_values[i] = t.borrowed_values[i],
         \A e \in Lo(t).num_entries + 1 .. Len(u.entries) :
           /\ EntryOK(u.entries[e], Len(u.values), Len(u.borrowed_values))
           /\ u.entries[e].kind = "Mutable" => u.entries[e].idx > Lo(t).num_values
  PROVE  Good(t, u)
<1>1. Bounds(t) /\ NodesNow(t) /\ EntriesNow(t) /\ ForestNow(t) /\ IsTrie(t)
  BY Now
<1>2. /\ IsCheckpoint(Lengths(u))
      /\ Lengths(u).num_nodes = Len(u.nodes) /\ Lengths(u).num_values = Len(u.values)
      /\ Lengths(u).num_borrowed_nodes = Len(u.borrowed_values)
      /\ Lengths(u).num_entries = Len(u.entries)
  BY LengthsFacts
<1>2a. /\ Lengths(t).num_nodes = Len(t.nodes) /\ Lengths(t).num_values = Len(t.values)
       /\ Lengths(t).num_borrowed_nodes = Len(t.borrowed_values)
       /\ Lengths(t).num_entries = Len(t.entries)
  BY <1>1, LengthsFacts
<1>3. /\ Len(t.nodes) \in Nat /\ Len(t.entries) \in Nat /\ Len(u.entries) \in Nat
      /\ Len(t.values) \in Nat /\ Len(u.values) \in Nat
      /\ Len(t.borrowed_values) \in Nat /\ Len(u.borrowed_values) \in Nat
  BY <1>1, <1>2 DEF Bounds, IsCheckpoint
<1>4. Frame(t, u)
  <2>1. Below(Lengths(t), Lengths(u))
    BY <1>2, <1>2a, <1>3 DEF Below
  <2>2. Current(u) = Current(t) /\ Low(u, Current(t)) = Low(t, Current(t))
    BY DEF SameGenerations, Lo
  <2> QED  BY <2>1, <2>2 DEF Frame, SameGenerations, Lo
<1>5. \A i \in 1 .. Len(t.nodes) : NodeOK(t.nodes[i], Len(t.nodes), Len(u.entries), Current(t))
  <2>1. \A n : NodeOK(n, Len(t.nodes), Len(t.entries), Current(t))
                 => NodeOK(n, Len(t.nodes), Len(u.entries), Current(t))
    <3>1. Len(t.nodes) <= Len(t.nodes)
      BY <1>3
    <3> QED  BY <1>3, <3>1, MoreRoom
  <2> QED  BY <1>1, <2>1 DEF NodesNow
<1>6. \A e \in 1 .. Len(u.entries) : EntryOK(u.entries[e], Len(u.values), Len(u.borrowed_values))
  <2>1. \A e : EntryOK(e, Len(t.values), Len(t.borrowed_values))
                 => EntryOK(e, Len(u.values), Len(u.borrowed_values))
    BY <1>3, MoreRoom
  <2> SUFFICES ASSUME NEW e \in 1 .. Len(u.entries)
               PROVE  EntryOK(u.entries[e], Len(u.values), Len(u.borrowed_values))
    OBVIOUS
  <2>2. CASE e \in 1 .. Lo(t).num_entries
    <3>1. u.entries[e] = t.entries[e] /\ e \in 1 .. Len(t.entries)
      BY <1>1, <2>2 DEF Bounds
    <3> QED  BY <1>1, <2>1, <3>1 DEF EntriesNow
  <2>3. CASE e \notin 1 .. Lo(t).num_entries
    <3>1. e \in Lo(t).num_entries + 1 .. Len(u.entries)
      BY <1>1, <1>3, <2>3 DEF Bounds
    <3> QED  BY <3>1
  <2> QED  BY <2>2, <2>3
<1>7. Covered(u, Current(t), Lengths(u))
  BY <1>2, <1>5, <1>6 DEF Covered
<1>8. OwnPart(u, Current(t), Lo(t), Lengths(u))
  BY <1>1, <1>2 DEF OwnPart, NodesNow, Mine
<1>9. Forest(u.nodes, u.generations[Current(t)].root, Current(t), Lo(t).num_nodes, Lengths(u).num_nodes)
  <2>1. u.generations[Current(t)].root = Root(t)
    BY DEF Root, SameGenerations
  <2> QED  BY <1>1, <1>2, <2>1 DEF ForestNow
<1>10. GenInv(u, Current(t), Low(t, Current(t)), Lengths(u))
  BY <1>7, <1>8, <1>9 DEF GenInv, Lo
<1> QED  BY <1>4, <1>10, GoodIntro

(* Nodes change, entries and values stay. *)
LEMMA NodesChange ==
  ASSUME NEW t, NEW u, TrieInv(t), IsTrie(u), SameGenerations(t, u),
         u.entries = t.entries, u.values = t.values, u.borrowed_values = t.borrowed_values,
         Len(t.nodes) <= Len(u.nodes),
         \A i \in 1 .. Lo(t).num_nodes : u.nodes[i] = t.nodes[i],
         \A i \in Lo(t).num_nodes + 1 .. Len(u.nodes) :
           /\ NodeOK(u.nodes[i], Len(u.nodes), Len(t.entries), Current(t))
           /\ OwnNode(u.nodes[i], Current(t), Lo(t)),
         Forest(u.nodes, Root(u), Current(t), Lo(t).num_nodes, Len(u.nodes))
  PROVE  Good(t, u)
<1>1. Bounds(t) /\ NodesNow(t) /\ EntriesNow(t) /\ IsTrie(t)
  BY Now
<1>2. /\ IsCheckpoint(Lengths(u))
      /\ Lengths(u).num_nodes = Len(u.nodes) /\ Lengths(u).num_values = Len(t.values)
      /\ Lengths(u).num_borrowed_nodes = Len(t.borrowed_values)
      /\ Lengths(u).num_entries = Len(t.entries)
  BY LengthsFacts
<1>2a. /\ Lengths(t).num_nodes = Len(t.nodes) /\ Lengths(t).num_values = Len(t.values)
       /\ Lengths(t).num_borrowed_nodes = Len(t.borrowed_values)
       /\ Lengths(t).num_entries = Len(t.entries)
  BY <1>1, LengthsFacts
<1>3. /\ Len(t.nodes) \in Nat /\ Len(u.nodes) \in Nat /\ Len(t.entries) \in Nat
      /\ Len(t.values) \in Nat /\ Len(t.borrowed_values) \in Nat
  BY <1>1, <1>2 DEF Bounds, IsCheckpoint
<1>4. Frame(t, u)
  <2>1. Below(Lengths(t), Lengths(u))
    BY <1>2, <1>2a, <1>3 DEF Below
  <2>2. Current(u) = Current(t) /\ Low(u, Current(t)) = Low(t, Current(t))
    BY DEF SameGenerations, Lo
  <2> QED  BY <2>1, <2>2 DEF Frame, SameGenerations, Lo
<1>5. \A i \in 1 .. Len(u.nodes) : NodeOK(u.nodes[i], Len(u.nodes), Len(t.entries), Current(t))
  <2>1. \A n : NodeOK(n, Len(t.nodes), Len(t.entries), Current(t))
                 => NodeOK(n, Len(u.nodes), Len(t.entries), Current(t))
    <3>1. Len(t.entries) <= Len(t.entries)
      BY <1>3
    <3> QED  BY <1>3, <3>1, MoreRoom
  <2> SUFFICES ASSUME NEW i \in 1 .. Len(u.nodes)
               PROVE  NodeOK(u.nodes[i], Len(u.nodes), Len(t.entries), Current(t))
    OBVIOUS
  <2>2. CASE i \in 1 .. Lo(t).num_nodes
    <3>1. u.nodes[i] = t.nodes[i] /\ i \in 1 .. Len(t.nodes)
      BY <1>1, <2>2 DEF Bounds
    <3> QED  BY <1>1, <2>1, <3>1 DEF NodesNow
  <2>3. CASE i \notin 1 .. Lo(t).num_nodes
    <3>1. i \in Lo(t).num_nodes + 1 .. Len(u.nodes)
      BY <1>1, <1>3, <2>3 DEF Bounds
    <3> QED  BY <3>1
  <2> QED  BY <2>2, <2>3
<1>6. Covered(u, Current(t), Lengths(u))
  BY <1>1, <1>2, <1>5 DEF Covered, EntriesNow
<1>7. OwnPart(u, Current(t), Lo(t), Lengths(u))
  BY <1>1, <1>2 DEF OwnPart, EntriesNow
<1>8. Forest(u.nodes, u.generations[Current(t)].root, Current(t), Lo(t).num_nodes, Lengths(u).num_nodes)
  <2>1. u.generations[Current(t)].root = Root(u)
    BY DEF Root, SameGenerations
  <2> QED  BY <1>2, <2>1
<1>9. GenInv(u, Current(t), Low(t, Current(t)), Lengths(u))
  BY <1>6, <1>7, <1>8 DEF GenInv, Lo
<1> QED  BY <1>4, <1>9, GoodIntro

-----------------------------------------------------------------------------
(* Entries and values.                                                     *)

(* The nodes and the generations stay. *)
SameTree(t, u) == u.nodes = t.nodes /\ u.generations = t.generations /\ Len(t.entries) <= Len(u.entries)

(* A trie is the record of its arenas. *)
LEMMA TrieFields ==
  ASSUME NEW t, IsTrie(t)
  PROVE  t = [generations |-> t.generations, entries |-> t.entries, values |-> t.values,
              borrowed_values |-> t.borrowed_values, nodes |-> t.nodes]
BY DEF IsTrie

(* A record of sequences with the same generations is a trie. *)
LEMMA TrieRecord ==
  ASSUME NEW t, IsTrie(t), NEW es, NEW vs, NEW bs, NEW ns, NEW u,
         IsSeq(es), IsSeq(vs), IsSeq(bs), IsSeq(ns),
         u = [generations |-> t.generations, entries |-> es, values |-> vs,
              borrowed_values |-> bs, nodes |-> ns]
  PROVE  /\ IsTrie(u) /\ SameGenerations(t, u) /\ Root(u) = Root(t)
         /\ u.generations = t.generations /\ u.entries = es /\ u.values = vs
         /\ u.borrowed_values = bs /\ u.nodes = ns
<1>1. /\ u.generations = t.generations /\ u.entries = es /\ u.values = vs
      /\ u.borrowed_values = bs /\ u.nodes = ns
  OBVIOUS
<1>2. IsTrie(u)
  BY <1>1 DEF IsTrie
<1> QED  BY <1>1, <1>2 DEF SameGenerations, Root, Lo, Low, Current

(* New and changed entries and values of the current generation are a      *)
(* good step.                                                              *)
LEMMA EntriesOnly ==
  ASSUME NEW t, TrieInv(t), NEW es, NEW vs, NEW u,
         IsSeq(es), IsSeq(vs), Len(t.entries) <= Len(es), Len(t.values) <= Len(vs),
         \A e \in 1 .. Lo(t).num_entries : es[e] = t.entries[e],
         \A i \in 1 .. Lo(t).num_values : vs[i] = t.values[i],
         \A e \in Lo(t).num_entries + 1 .. Len(es) :
           /\ EntryOK(es[e], Len(vs), Len(t.borrowed_values))
           /\ es[e].kind = "Mutable" => es[e].idx > Lo(t).num_values,
         u = [generations |-> t.generations, entries |-> es, values |-> vs,
              borrowed_values |-> t.borrowed_values, nodes |-> t.nodes]
  PROVE  Good(t, u) /\ SameTree(t, u)
<1>1. IsTrie(t) /\ Bounds(t)
  BY Now
<1>2. IsSeq(t.borrowed_values) /\ IsSeq(t.nodes)
  BY <1>1 DEF IsTrie
<1>3. /\ IsTrie(u) /\ SameGenerations(t, u) /\ Root(u) = Root(t)
      /\ u.generations = t.generations /\ u.entries = es /\ u.values = vs
      /\ u.borrowed_values = t.borrowed_values /\ u.nodes = t.nodes
  BY <1>1, <1>2, TrieRecord
<1>4. Len(t.borrowed_values) <= Len(t.borrowed_values)
  BY <1>1 DEF Bounds
<1>5. Good(t, u)
  BY <1>3, <1>4, EntriesChange
<1> QED  BY <1>3, <1>5 DEF SameTree

(* insert appends an entry and its value. *)
LEMMA NewEntryGood ==
  ASSUME NEW t, TrieInv(t), NEW v
  PROVE  /\ Good(t, NewEntry(t, v)) /\ SameTree(t, NewEntry(t, v))
         /\ Len(NewEntry(t, v).entries) = Len(t.entries) + 1
<1>1. IsTrie(t) /\ Bounds(t) /\ EntriesNow(t)
  BY Now
<1>2. PICK vs, es, n : vs = Append(t.values, v) /\ n = Len(t.values) + 1 /\ es = Append(t.entries, Mutable(n))
  OBVIOUS
<1>3. IsSeq(t.values) /\ IsSeq(t.entries)
  BY <1>1 DEF IsTrie
<1>4. /\ IsSeq(vs) /\ Len(vs) = Len(t.values) + 1 /\ \A i \in 1 .. Len(t.values) : vs[i] = t.values[i]
  BY <1>2, <1>3, SeqAppend
<1>5. /\ IsSeq(es) /\ Len(es) = Len(t.entries) + 1
      /\ \A i \in 1 .. Len(t.entries) : es[i] = t.entries[i]
      /\ es[Len(t.entries) + 1] = Mutable(n)
  BY <1>2, <1>3, SeqAppend
<1>6. /\ \A e \in 1 .. Lo(t).num_entries : es[e] = t.entries[e]
      /\ \A i \in 1 .. Lo(t).num_values : vs[i] = t.values[i]
      /\ Len(t.entries) <= Len(es) /\ Len(t.values) <= Len(vs)
  <2>1. Lo(t).num_entries \in 0 .. Len(t.entries) /\ Lo(t).num_values \in 0 .. Len(t.values)
    BY <1>1 DEF Bounds
  <2>2. Len(t.entries) \in Nat /\ Len(t.values) \in Nat
    BY <1>1 DEF Bounds
  <2>3. \A e \in 1 .. Lo(t).num_entries : es[e] = t.entries[e]
    BY <1>5, <2>1, <2>2
  <2>4. \A i \in 1 .. Lo(t).num_values : vs[i] = t.values[i]
    BY <1>4, <2>1, <2>2
  <2> QED  BY <1>4, <1>5, <2>2, <2>3, <2>4
<1>7. ASSUME NEW e \in Lo(t).num_entries + 1 .. Len(es)
      PROVE  /\ EntryOK(es[e], Len(vs), Len(t.borrowed_values))
             /\ es[e].kind = "Mutable" => es[e].idx > Lo(t).num_values
  <2>1. CASE e = Len(t.entries) + 1
    <3>1. es[e] = Mutable(n) /\ n \in 1 .. Len(vs) /\ n > Lo(t).num_values
      BY <1>1, <1>2, <1>4, <1>5, <2>1 DEF Bounds
    <3> QED  BY <3>1 DEF EntryOK, Mutable
  <2>2. CASE e # Len(t.entries) + 1
    <3>1. e \in Lo(t).num_entries + 1 .. Len(t.entries) /\ e \in 1 .. Len(t.entries)
      BY <1>1, <1>5, <2>2 DEF Bounds
    <3>2. es[e] = t.entries[e] /\ EntryOK(es[e], Len(t.values), Len(t.borrowed_values))
      BY <1>1, <1>5, <3>1 DEF EntriesNow
    <3>3. EntryOK(es[e], Len(vs), Len(t.borrowed_values))
      <4>1. Len(t.values) <= Len(vs) /\ Len(t.borrowed_values) <= Len(t.borrowed_values)
        BY <1>1, <1>4 DEF Bounds
      <4>2. Len(t.values) \in Nat /\ Len(vs) \in Nat /\ Len(t.borrowed_values) \in Nat
        BY <1>1, <1>4 DEF Bounds
      <4> QED  BY <3>2, <4>1, <4>2, MoreRoom
    <3> QED  BY <1>1, <3>1, <3>2, <3>3 DEF EntriesNow
  <2> QED  BY <2>1, <2>2
<1>8. NewEntry(t, v) = [generations |-> t.generations, entries |-> es, values |-> vs,
                borrowed_values |-> t.borrowed_values, nodes |-> t.nodes]
  <2>1. PICK u : u = NewEntry(t, v)
    OBVIOUS
  <2>2. u = [t EXCEPT !.values = vs, !.entries = es]
    BY <1>2, <2>1, Zenon DEF NewEntry
  <2>3. u = [generations |-> t.generations, entries |-> es, values |-> vs,
                borrowed_values |-> t.borrowed_values, nodes |-> t.nodes]
    <3>1. t = [generations |-> t.generations, entries |-> t.entries, values |-> t.values,
               borrowed_values |-> t.borrowed_values, nodes |-> t.nodes]
      BY <1>1, TrieFields
    <3> QED  BY <2>2, <3>1
  <2> QED  BY <2>1, <2>3
<1>9. NewEntry(t, v).entries = es
  BY <1>8
<1> QED  BY <1>4, <1>5, <1>6, <1>7, <1>8, <1>9, EntriesOnly

(* get_mut copies a value that the entry only reads. *)
LEMMA OwnValueGood ==
  ASSUME NEW t, TrieInv(t), NEW x, IsEntry(t, x), NEW v
  PROVE  /\ Good(t, OwnValue(t, x, v)) /\ SameTree(t, OwnValue(t, x, v))
         /\ OwnValue(t, x, v).entries[x].kind = "Mutable"
<1>1. IsTrie(t) /\ Bounds(t) /\ EntriesNow(t)
  BY Now
<1>2. PICK vs, es, n : vs = Append(t.values, v) /\ n = Len(t.values) + 1 /\ es = Upd(t.entries, x, Mutable(n))
  OBVIOUS
<1>3. IsSeq(t.values) /\ IsSeq(t.entries)
  BY <1>1 DEF IsTrie
<1>4. /\ IsSeq(vs) /\ Len(vs) = Len(t.values) + 1 /\ \A i \in 1 .. Len(t.values) : vs[i] = t.values[i]
  BY <1>2, <1>3, SeqAppend
<1>5. /\ IsSeq(es) /\ Len(es) = Len(t.entries)
      /\ \A k \in 1 .. Len(t.entries) : es[k] = IF k = x THEN Mutable(n) ELSE t.entries[k]
  BY <1>2, <1>3, SeqExcept
<1>6. /\ \A e \in 1 .. Lo(t).num_entries : es[e] = t.entries[e]
      /\ \A i \in 1 .. Lo(t).num_values : vs[i] = t.values[i]
      /\ Len(t.entries) <= Len(es) /\ Len(t.values) <= Len(vs)
  BY <1>1, <1>4, <1>5 DEF Bounds, IsEntry
<1>7. ASSUME NEW e \in Lo(t).num_entries + 1 .. Len(es)
      PROVE  /\ EntryOK(es[e], Len(vs), Len(t.borrowed_values))
             /\ es[e].kind = "Mutable" => es[e].idx > Lo(t).num_values
  <2>1. CASE e = x
    <3>1. es[e] = Mutable(n) /\ n \in 1 .. Len(vs) /\ n > Lo(t).num_values
      BY <1>1, <1>2, <1>4, <1>5, <2>1 DEF Bounds
    <3> QED  BY <3>1 DEF EntryOK, Mutable
  <2>2. CASE e # x
    <3>1. e \in Lo(t).num_entries + 1 .. Len(t.entries) /\ e \in 1 .. Len(t.entries)
      BY <1>1, <1>5, <2>2 DEF Bounds
    <3>2. es[e] = t.entries[e] /\ EntryOK(es[e], Len(t.values), Len(t.borrowed_values))
      BY <1>1, <1>5, <2>2, <3>1 DEF EntriesNow
    <3>3. EntryOK(es[e], Len(vs), Len(t.borrowed_values))
      <4>1. Len(t.values) <= Len(vs) /\ Len(t.borrowed_values) <= Len(t.borrowed_values)
        BY <1>1, <1>4 DEF Bounds
      <4>2. Len(t.values) \in Nat /\ Len(vs) \in Nat /\ Len(t.borrowed_values) \in Nat
        BY <1>1, <1>4 DEF Bounds
      <4> QED  BY <3>2, <4>1, <4>2, MoreRoom
    <3> QED  BY <1>1, <3>1, <3>2, <3>3 DEF EntriesNow
  <2> QED  BY <2>1, <2>2
<1>8. OwnValue(t, x, v) = [generations |-> t.generations, entries |-> es, values |-> vs,
                borrowed_values |-> t.borrowed_values, nodes |-> t.nodes]
  <2>1. PICK u : u = OwnValue(t, x, v)
    OBVIOUS
  <2>2. u = [t EXCEPT !.values = vs, !.entries = es]
    BY <1>2, <2>1, Zenon DEF OwnValue, Upd
  <2>3. u = [generations |-> t.generations, entries |-> es, values |-> vs,
                borrowed_values |-> t.borrowed_values, nodes |-> t.nodes]
    <3>1. t = [generations |-> t.generations, entries |-> t.entries, values |-> t.values,
               borrowed_values |-> t.borrowed_values, nodes |-> t.nodes]
      BY <1>1, TrieFields
    <3> QED  BY <2>2, <3>1
  <2> QED  BY <2>1, <2>3
<1>9. OwnValue(t, x, v).entries = es
  BY <1>8
<1>10. es[x].kind = "Mutable"
  BY <1>1, <1>5 DEF IsEntry, Mutable, Bounds
<1> QED  BY <1>4, <1>5, <1>6, <1>7, <1>8, <1>9, <1>10, EntriesOnly

(* Overwriting the value of a mutable entry touches no older value. *)
LEMMA SetValueGood ==
  ASSUME NEW t, TrieInv(t), NEW x, IsEntry(t, x), t.entries[x].kind = "Mutable", NEW v, NEW u,
         u = [t EXCEPT !.values[t.entries[x].idx] = v]
  PROVE  Good(t, u) /\ SameTree(t, u)
<1>1. IsTrie(t) /\ Bounds(t) /\ EntriesNow(t)
  BY Now
<1>2. PICK vs, n : n = t.entries[x].idx /\ vs = Upd(t.values, n, v)
  OBVIOUS
<1>3. IsSeq(t.values) /\ IsSeq(t.entries)
  BY <1>1 DEF IsTrie
<1>4. /\ IsSeq(vs) /\ Len(vs) = Len(t.values)
      /\ \A k \in 1 .. Len(t.values) : vs[k] = IF k = n THEN v ELSE t.values[k]
  BY <1>2, <1>3, SeqExcept
<1>5. x \in Lo(t).num_entries + 1 .. Len(t.entries)
  BY DEF IsEntry
<1>5a. n > Lo(t).num_values
  BY <1>1, <1>2, <1>5 DEF EntriesNow
<1>6. /\ \A i \in 1 .. Lo(t).num_values : vs[i] = t.values[i]
      /\ Len(t.entries) <= Len(t.entries) /\ Len(t.values) <= Len(vs)
  BY <1>1, <1>4, <1>5a DEF Bounds
<1>7. ASSUME NEW e \in Lo(t).num_entries + 1 .. Len(t.entries)
      PROVE  /\ EntryOK(t.entries[e], Len(vs), Len(t.borrowed_values))
             /\ t.entries[e].kind = "Mutable" => t.entries[e].idx > Lo(t).num_values
  <2>1. e \in 1 .. Len(t.entries)
    BY <1>1 DEF Bounds
  <2> QED  BY <1>1, <1>4, <2>1 DEF EntriesNow
<1>8. u = [generations |-> t.generations, entries |-> t.entries, values |-> vs,
           borrowed_values |-> t.borrowed_values, nodes |-> t.nodes]
  BY <1>1, <1>2 DEF IsTrie, Upd
<1> QED  BY <1>3, <1>4, <1>6, <1>7, <1>8, EntriesOnly

(* MutableTrie::get_mut. *)
LEMMA GetMutGood ==
  ASSUME NEW t, TrieInv(t), NEW x, IsEntry(t, x)
  PROVE  /\ Good(t, get_mut(t, x)) /\ SameTree(t, get_mut(t, x))
         /\ get_mut(t, x).entries[x] # Deleted => get_mut(t, x).entries[x].kind = "Mutable"
<1>1. CASE t.entries[x].kind = "ReadOnly"
  BY <1>1, OwnValueGood DEF get_mut
<1>2. CASE t.entries[x].kind # "ReadOnly"
  <2>1. get_mut(t, x) = t
    BY <1>2 DEF get_mut
  <2>2. x \in 1 .. Len(t.entries) /\ Bounds(t) /\ EntriesNow(t)
    BY Now DEF IsEntry, Bounds
  <2>3. EntryOK(t.entries[x], Len(t.values), Len(t.borrowed_values))
    BY <2>2 DEF EntriesNow
  <2>4. t.entries[x] # Deleted => t.entries[x].kind = "Mutable"
    BY <1>2, <2>3 DEF EntryOK
  <2>5. SameTree(t, t)
    BY <2>2 DEF SameTree, Bounds
  <2> QED  BY <2>1, <2>4, <2>5, GoodSame
<1> QED  BY <1>1, <1>2

(* set_entry_value. *)
LEMMA SetEntryValueGood ==
  ASSUME NEW t, TrieInv(t), NEW x, IsEntry(t, x), NEW v
  PROVE  Good(t, set_entry_value(t, x, v)) /\ SameTree(t, set_entry_value(t, x, v))
<1>1. CASE t.entries[x].kind = "Mutable"
  <2>1. set_entry_value(t, x, v) = [t EXCEPT !.values[t.entries[x].idx] = v]
    BY <1>1 DEF set_entry_value
  <2> QED  BY <1>1, <2>1, SetValueGood
<1>2. CASE t.entries[x].kind # "Mutable"
  <2>1. set_entry_value(t, x, v) = OwnValue(t, x, v)
    BY <1>2 DEF set_entry_value
  <2> QED  BY <2>1, OwnValueGood
<1> QED  BY <1>1, <1>2

(* Entries that die with their keys. *)
LEMMA InvalidateGood ==
  ASSUME NEW t, TrieInv(t), NEW dead, \A e \in dead : IsEntry(t, e)
  PROVE  /\ Good(t, Invalidate(t, dead)) /\ SameTree(t, Invalidate(t, dead))
<1>1. IsTrie(t) /\ Bounds(t) /\ EntriesNow(t)
  BY Now
<1>2. PICK freed : freed = {t.entries[e].idx : e \in {e \in dead : t.entries[e].kind = "Mutable"}}
  OBVIOUS
<1>3. IsSeq(t.values) /\ IsSeq(t.entries)
  BY <1>1 DEF IsTrie
<1>4. PICK es : es = [e \in DOMAIN t.entries |-> IF e \in dead THEN Deleted ELSE t.entries[e]]
  OBVIOUS
<1>5. PICK vs : vs = [i \in DOMAIN t.values |-> IF i \in freed THEN Empty ELSE t.values[i]]
  OBVIOUS
<1>6. IsSeq(es) /\ Len(es) = Len(t.entries)
  <2>1. DOMAIN es = DOMAIN t.entries /\ es = [e \in DOMAIN es |-> es[e]]
    BY <1>4
  <2> QED  BY <1>3, <2>1, SeqSame
<1>7. IsSeq(vs) /\ Len(vs) = Len(t.values)
  <2>1. DOMAIN vs = DOMAIN t.values /\ vs = [e \in DOMAIN vs |-> vs[e]]
    BY <1>5
  <2> QED  BY <1>3, <2>1, SeqSame
<1>8. /\ DOMAIN t.entries = 1 .. Len(t.entries) /\ DOMAIN t.values = 1 .. Len(t.values)
  BY <1>3, SeqDomain
<1>9. \A i \in freed : i > Lo(t).num_values
  <2> SUFFICES ASSUME NEW i \in freed PROVE i > Lo(t).num_values
    OBVIOUS
  <2>1. PICK e \in dead : t.entries[e].kind = "Mutable" /\ i = t.entries[e].idx
    BY <1>2
  <2>2. e \in Lo(t).num_entries + 1 .. Len(t.entries)
    BY <2>1 DEF IsEntry
  <2> QED  BY <1>1, <2>1, <2>2 DEF EntriesNow
<1>10. \A e \in 1 .. Lo(t).num_entries : es[e] = t.entries[e]
  <2> SUFFICES ASSUME NEW e \in 1 .. Lo(t).num_entries PROVE es[e] = t.entries[e]
    OBVIOUS
  <2>1. e \notin dead
    BY <1>1 DEF IsEntry, Bounds
  <2>2. e \in DOMAIN t.entries
    BY <1>1, <1>8 DEF Bounds
  <2> QED  BY <1>4, <2>1, <2>2
<1>11. \A i \in 1 .. Lo(t).num_values : vs[i] = t.values[i]
  <2> SUFFICES ASSUME NEW i \in 1 .. Lo(t).num_values PROVE vs[i] = t.values[i]
    OBVIOUS
  <2>1. i \notin freed
    BY <1>1, <1>9 DEF Bounds
  <2>2. i \in DOMAIN t.values
    BY <1>1, <1>8 DEF Bounds
  <2> QED  BY <1>5, <2>1, <2>2
<1>12. ASSUME NEW e \in Lo(t).num_entries + 1 .. Len(es)
       PROVE  /\ EntryOK(es[e], Len(vs), Len(t.borrowed_values))
              /\ es[e].kind = "Mutable" => es[e].idx > Lo(t).num_values
  <2>1. e \in 1 .. Len(t.entries) /\ e \in DOMAIN t.entries /\ e \in Lo(t).num_entries + 1 .. Len(t.entries)
    BY <1>1, <1>6, <1>8 DEF Bounds
  <2>2. CASE e \in dead
    <3>1. es[e] = Deleted
      BY <1>4, <2>1, <2>2
    <3> QED  BY <3>1 DEF EntryOK, Deleted
  <2>3. CASE e \notin dead
    <3>1. es[e] = t.entries[e]
      BY <1>4, <2>1, <2>3
    <3> QED  BY <1>1, <1>7, <2>1, <3>1 DEF EntriesNow
  <2> QED  BY <2>2, <2>3
<1>13. Len(t.entries) <= Len(es) /\ Len(t.values) <= Len(vs)
  BY <1>1, <1>6, <1>7 DEF Bounds
<1>14. <<>> \o es = es /\ <<>> \o vs = vs
  BY <1>6, <1>7, SeqPlain
<1>15. Invalidate(t, dead) = [generations |-> t.generations, entries |-> es, values |-> vs,
                borrowed_values |-> t.borrowed_values, nodes |-> t.nodes]
  <2>1. PICK u : u = Invalidate(t, dead)
    OBVIOUS
  <2>2. u = [t EXCEPT !.entries = es, !.values = vs]
    BY <1>2, <1>4, <1>5, <1>14, <2>1, Zenon DEF Invalidate
  <2>3. u = [generations |-> t.generations, entries |-> es, values |-> vs,
                borrowed_values |-> t.borrowed_values, nodes |-> t.nodes]
    <3>1. t = [generations |-> t.generations, entries |-> t.entries, values |-> t.values,
               borrowed_values |-> t.borrowed_values, nodes |-> t.nodes]
      BY <1>1, TrieFields
    <3> QED  BY <2>2, <3>1
  <2> QED  BY <2>1, <2>3
<1> QED  BY <1>6, <1>7, <1>10, <1>11, <1>12, <1>13, <1>15, EntriesOnly

-----------------------------------------------------------------------------
(* Changing nodes.                                                         *)

(* Child j of node i of the current generation is node k. *)
Edge(t, i, j, k) == Points(t.nodes, Lo(t).num_nodes, Len(t.nodes), i, j, k)
NowNode(t, i) == t.nodes[i].generation = Current(t) - 1

(* up and pos say where the nodes of the current generation hang. *)
Hangs(t, up, pos) ==
  /\ \A i, j, k \in Nat : Edge(t, i, j, k) =>
       /\ k > Lo(t).num_nodes
       /\ up[k] = i /\ pos[k] = j
       /\ NowNode(t, i) => NowNode(t, k)
  /\ Root(t) # None => Root(t) \in Mine(t) /\ NowNode(t, Root(t)) /\ up[Root(t)] = 0

(* Both ends of an edge are nodes of the current generation. *)
LEMMA EdgeFacts ==
  ASSUME NEW t, TrieInv(t), NEW i, NEW j, NEW k, Edge(t, i, j, k)
  PROVE  /\ i \in Nat /\ i \in Mine(t) /\ i \in 1 .. Len(t.nodes)
         /\ j \in Nat \ {0} /\ j \in 1 .. Len(t.nodes[i].children.list)
         /\ k \in Nat /\ k \in Mine(t) /\ k \in 1 .. Len(t.nodes)
         /\ t.nodes[i].children.list[j] = Child(t.nodes[i].children.list[j].key, k)
<1>1. Bounds(t) /\ NodesNow(t) /\ ForestNow(t)
  BY Now
<1>2. i \in Nat /\ i \in Mine(t) /\ i \in 1 .. Len(t.nodes)
  BY <1>1 DEF Edge, Points, Mine, Bounds
<1>3. ChildrenOK(t.nodes[i].children, Len(t.nodes), Current(t))
  BY <1>1, <1>2 DEF NodesNow, NodeOK
<1>4. /\ t.nodes[i].children.kind = "Owned"
      /\ j \in DOMAIN t.nodes[i].children.list
      /\ t.nodes[i].children.list[j].index = k
  BY DEF Edge, Points, Own
<1>5. IsSeq(t.nodes[i].children.list)
  BY <1>3 DEF ChildrenOK
<1>6. j \in Nat \ {0} /\ j \in 1 .. Len(t.nodes[i].children.list)
  BY <1>4, <1>5, SeqDomain
<1>7. /\ k \in 1 .. Len(t.nodes)
      /\ t.nodes[i].children.list[j] = Child(t.nodes[i].children.list[j].key, k)
  BY <1>3, <1>4 DEF ChildrenOK
<1>8. k > Lo(t).num_nodes
  <2>1. PICK up, pos : Linked(t.nodes, Root(t), Current(t), Lo(t).num_nodes, Len(t.nodes), up, pos)
    BY <1>1 DEF ForestNow, Forest
  <2>2. i \in Nat /\ j \in Nat /\ k \in Nat
    BY <1>1, <1>2, <1>6, <1>7 DEF Bounds
  <2> QED  BY <2>1, <2>2 DEF Linked, Edge
<1>9. k \in Nat /\ k \in Mine(t)
  BY <1>1, <1>7, <1>8 DEF Mine, Bounds
<1> QED  BY <1>2, <1>6, <1>7, <1>9

(* Every node of the current generation hangs in one place. *)
LEMMA Hanging ==
  ASSUME NEW t, TrieInv(t)
  PROVE  \E up, pos : Hangs(t, up, pos)
<1>1. Bounds(t) /\ ForestNow(t)
  BY Now
<1>2. PICK up, pos : Linked(t.nodes, Root(t), Current(t), Lo(t).num_nodes, Len(t.nodes), up, pos)
  BY <1>1 DEF ForestNow, Forest
<1>3. Hangs(t, up, pos)
  BY <1>2 DEF Linked, Hangs, Edge, NowNode, Mine
<1> QED  BY <1>3

(* Nodes that changed are a good step once it is said where they hang. *)
LEMMA Rewire ==
  ASSUME NEW t, NEW u, TrieInv(t), IsTrie(u), SameGenerations(t, u),
         u.entries = t.entries, u.values = t.values, u.borrowed_values = t.borrowed_values,
         Len(t.nodes) <= Len(u.nodes),
         \A i \in 1 .. Lo(t).num_nodes : u.nodes[i] = t.nodes[i],
         \A i \in Lo(t).num_nodes + 1 .. Len(u.nodes) :
           /\ NodeOK(u.nodes[i], Len(u.nodes), Len(t.entries), Current(t))
           /\ OwnNode(u.nodes[i], Current(t), Lo(t)),
         NEW up, NEW pos, Hangs(u, up, pos)
  PROVE  Good(t, u)
<1>1. Lo(u) = Lo(t) /\ Current(u) = Current(t)
  BY DEF SameGenerations
<1>2. Linked(u.nodes, Root(u), Current(t), Lo(t).num_nodes, Len(u.nodes), up, pos)
  BY <1>1 DEF Linked, Hangs, Edge, NowNode, Mine
<1>3. Forest(u.nodes, Root(u), Current(t), Lo(t).num_nodes, Len(u.nodes))
  BY <1>2 DEF Forest
<1> QED  BY <1>3, NodesChange

(* Another root changes nothing else. *)
LEMMA WithRootFacts ==
  ASSUME NEW t, IsTrie(t), NEW r, NEW u, u = WithRoot(t, r)
  PROVE  /\ IsTrie(u) /\ SameGenerations(t, u) /\ Root(u) = r
         /\ u.nodes = t.nodes /\ u.entries = t.entries /\ u.values = t.values
         /\ u.borrowed_values = t.borrowed_values
<1>1. t = [generations |-> t.generations, entries |-> t.entries, values |-> t.values,
           borrowed_values |-> t.borrowed_values, nodes |-> t.nodes]
  BY TrieFields
<1>2. PICK c, last : c = Current(t) /\ last = [t.generations[c] EXCEPT !.root = r]
  OBVIOUS
<1>3. PICK gs : gs = Upd(t.generations, c, last)
  OBVIOUS
<1>4. u = [t EXCEPT !.generations = gs]
  BY <1>2, <1>3, Zenon DEF WithRoot, Upd
<1>5. u = [generations |-> gs, entries |-> t.entries, values |-> t.values,
           borrowed_values |-> t.borrowed_values, nodes |-> t.nodes]
  BY <1>1, <1>4
<1>6. IsSeq(t.generations) /\ c = Len(t.generations) /\ c \in Nat \ {0}
  BY <1>2, LengthsFacts DEF IsTrie, Current
<1>7. /\ IsSeq(gs) /\ Len(gs) = c
      /\ \A k \in 1 .. c : gs[k] = IF k = c THEN last ELSE t.generations[k]
  BY <1>3, <1>6, SeqExcept
<1>8. /\ u.generations = gs /\ u.entries = t.entries /\ u.values = t.values
      /\ u.borrowed_values = t.borrowed_values /\ u.nodes = t.nodes
  BY <1>5
<1>9. c \in 1 .. c
  BY <1>6
<1>10. t.generations[c] = [root |-> t.generations[c].root, checkpoint |-> t.generations[c].checkpoint,
                           iterator_roots |-> t.generations[c].iterator_roots]
  BY <1>6, <1>9 DEF IsTrie
<1>11. last = [root |-> r, checkpoint |-> t.generations[c].checkpoint,
               iterator_roots |-> t.generations[c].iterator_roots]
  BY <1>2, <1>10
<1>12. \A g \in 1 .. c : gs[g] = [root |-> gs[g].root, checkpoint |-> gs[g].checkpoint,
                                  iterator_roots |-> gs[g].iterator_roots]
  <2> SUFFICES ASSUME NEW g \in 1 .. c
               PROVE  gs[g] = [root |-> gs[g].root, checkpoint |-> gs[g].checkpoint,
                               iterator_roots |-> gs[g].iterator_roots]
    OBVIOUS
  <2>1. CASE g = c
    BY <1>7, <1>9, <1>11, <2>1
  <2>2. CASE g # c
    BY <1>6, <1>7, <2>2 DEF IsTrie
  <2> QED  BY <2>1, <2>2
<1>13. IsTrie(u)
  BY <1>5, <1>6, <1>7, <1>8, <1>12 DEF IsTrie
<1>14. Current(u) = c
  BY <1>7, <1>8 DEF Current
<1>15. gs[c] = last
  BY <1>7, <1>9
<1>16. Lo(u) = Lo(t)
  BY <1>2, <1>8, <1>11, <1>14, <1>15 DEF Lo, Low
<1>17. Root(u) = r
  BY <1>8, <1>11, <1>14, <1>15 DEF Root
<1>18. \A g \in 1 .. c - 1 : u.generations[g] = t.generations[g]
  BY <1>6, <1>7, <1>8
<1> QED  BY <1>2, <1>8, <1>13, <1>14, <1>16, <1>17, <1>18 DEF SameGenerations

(* Nodes may be added, but the ones there keep their generation, and their *)
(* children if they own them; the root stays.                              *)
Keeps(t, u) ==
  /\ Root(u) = Root(t)
  /\ Lo(u) = Lo(t)
  /\ Current(u) = Current(t)
  /\ Len(t.nodes) <= Len(u.nodes)
  /\ Len(t.entries) <= Len(u.entries)
  /\ \A i \in 1 .. Len(t.nodes) :
       /\ u.nodes[i].generation = t.nodes[i].generation
       /\ Own(t.nodes[i]) => u.nodes[i].children = t.nodes[i].children

(* A step that leaves the nodes alone keeps the tree. *)
LEMMA KeepsSameTree ==
  ASSUME NEW t, NEW u, TrieInv(t), SameTree(t, u)
  PROVE  Keeps(t, u)
<1>1. Bounds(t)
  BY Now
<1>2. Len(t.nodes) <= Len(t.nodes)
  BY <1>1 DEF Bounds
<1> QED  BY <1>2 DEF SameTree, Keeps, Root, Lo, Low, Current

(* No step at all keeps the tree. *)
LEMMA KeepsSame ==
  ASSUME NEW t, TrieInv(t)
  PROVE  Keeps(t, t)
<1>1. Bounds(t)
  BY Now
<1> QED  BY <1>1 DEF Bounds, Keeps

(* Steps that keep the tree compose. *)
LEMMA KeepsThen ==
  ASSUME NEW t, NEW u, NEW v, TrieInv(t), TrieInv(u), TrieInv(v), Keeps(t, u), Keeps(u, v)
  PROVE  Keeps(t, v)
<1>1. Bounds(t) /\ Bounds(u) /\ Bounds(v)
  BY Now
<1>2. Len(t.nodes) <= Len(v.nodes) /\ Len(t.entries) <= Len(v.entries)
  BY <1>1 DEF Bounds, Keeps
<1>3. ASSUME NEW i \in 1 .. Len(t.nodes)
      PROVE  /\ v.nodes[i].generation = t.nodes[i].generation
             /\ Own(t.nodes[i]) => v.nodes[i].children = t.nodes[i].children
  <2>1. i \in 1 .. Len(u.nodes)
    BY <1>1 DEF Bounds, Keeps
  <2> QED  BY <2>1 DEF Keeps, Own
<1> QED  BY <1>2, <1>3 DEF Keeps

Cosmetic(t, n, m) ==
  /\ m = MutableNode(m.generation, m.value, m.path, m.children, m.origin)
  /\ m.generation = n.generation /\ m.children = n.children
  /\ IsSeq(m.path)
  /\ m.origin = n.origin \/ m.origin = None
  /\ m.value = n.value \/ m.value = None \/ IsEntry(t, m.value)

(* Other values, paths and origins of nodes are a good step. *)
LEMMA CosmeticGood ==
  ASSUME NEW t, TrieInv(t), NEW ns, IsSeq(ns), Len(ns) = Len(t.nodes),
         \A i \in 1 .. Lo(t).num_nodes : ns[i] = t.nodes[i],
         \A i \in Mine(t) : Cosmetic(t, t.nodes[i], ns[i]),
         NEW u, u = [generations |-> t.generations, entries |-> t.entries, values |-> t.values,
                     borrowed_values |-> t.borrowed_values, nodes |-> ns]
  PROVE  Good(t, u) /\ Keeps(t, u)
<1>1. IsTrie(t) /\ Bounds(t) /\ NodesNow(t)
  BY Now
<1>2. IsSeq(t.entries) /\ IsSeq(t.values) /\ IsSeq(t.borrowed_values)
  BY <1>1 DEF IsTrie
<1>3. /\ IsTrie(u) /\ SameGenerations(t, u) /\ Root(u) = Root(t)
      /\ u.generations = t.generations /\ u.entries = t.entries /\ u.values = t.values
      /\ u.borrowed_values = t.borrowed_values /\ u.nodes = ns
  BY <1>1, <1>2, TrieRecord
<1>4. ASSUME NEW i \in Mine(t)
      PROVE  /\ NodeOK(ns[i], Len(t.nodes), Len(t.entries), Current(t))
             /\ OwnNode(ns[i], Current(t), Lo(t))
  <2>1. i \in 1 .. Len(t.nodes)
    BY <1>1 DEF Bounds, Mine
  <2>2. NodeOK(t.nodes[i], Len(t.nodes), Len(t.entries), Current(t)) /\ OwnNode(t.nodes[i], Current(t), Lo(t))
    BY <1>1, <2>1 DEF NodesNow
  <2>3. Cosmetic(t, t.nodes[i], ns[i])
    OBVIOUS
  <2>4. \A e : IsEntry(t, e) => e \in 1 .. Len(t.entries) /\ e > Lo(t).num_entries
    BY <1>1 DEF IsEntry, Bounds
  <2>5. NodeOK(ns[i], Len(t.nodes), Len(t.entries), Current(t))
    BY <2>2, <2>3, <2>4 DEF NodeOK, Cosmetic
  <2>6. OwnNode(ns[i], Current(t), Lo(t))
    BY <2>2, <2>3, <2>4 DEF OwnNode, Cosmetic, Own
  <2> QED  BY <2>5, <2>6
<1>5. \A i \in 1 .. Len(t.nodes) : ns[i].generation = t.nodes[i].generation /\ ns[i].children = t.nodes[i].children
  <2> SUFFICES ASSUME NEW i \in 1 .. Len(t.nodes)
               PROVE  ns[i].generation = t.nodes[i].generation /\ ns[i].children = t.nodes[i].children
    OBVIOUS
  <2>1. i \in 1 .. Lo(t).num_nodes \/ i \in Mine(t)
    BY <1>1 DEF Mine, Bounds
  <2> QED  BY <2>1 DEF Cosmetic
<1>6. PICK up, pos : Hangs(t, up, pos)
  BY Hanging
<1>7. ASSUME NEW i \in Nat, NEW j \in Nat, NEW k \in Nat, Edge(u, i, j, k)
      PROVE  /\ k > Lo(u).num_nodes
             /\ up[k] = i /\ pos[k] = j
             /\ NowNode(u, i) => NowNode(u, k)
  <2>1. Lo(u) = Lo(t) /\ Current(u) = Current(t)
    BY <1>3 DEF SameGenerations
  <2>2. i \in 1 .. Len(t.nodes)
    BY <1>1, <1>3, <1>7, <2>1 DEF Edge, Points, Bounds
  <2>3. Edge(t, i, j, k)
    BY <1>3, <1>5, <1>7, <2>1, <2>2 DEF Edge, Points, Own
  <2>4. k \in 1 .. Len(t.nodes)
    BY <2>3, EdgeFacts
  <2>5. /\ k > Lo(t).num_nodes
        /\ up[k] = i /\ pos[k] = j
        /\ NowNode(t, i) => NowNode(t, k)
    BY <1>6, <2>3 DEF Hangs
  <2>6. (NowNode(u, i) <=> NowNode(t, i)) /\ (NowNode(u, k) <=> NowNode(t, k))
    BY <1>3, <1>5, <2>1, <2>2, <2>4 DEF NowNode
  <2> QED  BY <2>1, <2>5, <2>6
<1>8. Root(u) # None => Root(u) \in Mine(u) /\ NowNode(u, Root(u)) /\ up[Root(u)] = 0
  <2>1. Lo(u) = Lo(t) /\ Current(u) = Current(t)
    BY <1>3 DEF SameGenerations
  <2>2. Mine(u) = Mine(t) /\ Mine(t) \subseteq 1 .. Len(t.nodes)
    BY <1>1, <1>3, <2>1 DEF Mine, Bounds
  <2> QED  BY <1>3, <1>5, <1>6, <2>1, <2>2 DEF Hangs, NowNode
<1>9. Hangs(u, up, pos)
  BY <1>7, <1>8 DEF Hangs
<1>10. Len(t.nodes) <= Len(u.nodes) /\ Len(t.entries) <= Len(u.entries)
  BY <1>1, <1>3 DEF Bounds
<1>11. Good(t, u)
  <2>1. \A i \in Lo(t).num_nodes + 1 .. Len(u.nodes) :
           /\ NodeOK(u.nodes[i], Len(u.nodes), Len(t.entries), Current(t))
           /\ OwnNode(u.nodes[i], Current(t), Lo(t))
    BY <1>3, <1>4 DEF Mine
  <2>2. \A i \in 1 .. Lo(t).num_nodes : u.nodes[i] = t.nodes[i]
    BY <1>3
  <2> QED  BY <1>3, <1>9, <1>10, <2>1, <2>2, Rewire
<1>12. Keeps(t, u)
  BY <1>3, <1>5, <1>10 DEF Keeps, SameGenerations
<1> QED  BY <1>11, <1>12

(* A node with one field replaced. *)
LEMMA NodeFields ==
  ASSUME NEW n, n = MutableNode(n.generation, n.value, n.path, n.children, n.origin), NEW x, NEW m
  PROVE  /\ m = [n EXCEPT !.origin = x] => m = MutableNode(n.generation, n.value, n.path, n.children, x)
         /\ m = [n EXCEPT !.value = x] => m = MutableNode(n.generation, x, n.path, n.children, n.origin)
         /\ m = [n EXCEPT !.path = x] => m = MutableNode(n.generation, n.value, x, n.children, n.origin)
         /\ m = [n EXCEPT !.children = x] => m = MutableNode(n.generation, n.value, n.path, x, n.origin)
BY DEF MutableNode

(* What the invariant says of a node of the current generation. *)
LEMMA MyNode ==
  ASSUME NEW t, TrieInv(t), NEW i \in Mine(t)
  PROVE  /\ i \in 1 .. Len(t.nodes) /\ i \in Nat /\ i > Lo(t).num_nodes
         /\ i \notin 1 .. Lo(t).num_nodes
         /\ NodeOK(t.nodes[i], Len(t.nodes), Len(t.entries), Current(t))
         /\ OwnNode(t.nodes[i], Current(t), Lo(t))
         /\ t.nodes[i] = MutableNode(t.nodes[i].generation, t.nodes[i].value, t.nodes[i].path,
                                     t.nodes[i].children, t.nodes[i].origin)
         /\ IsSeq(t.nodes[i].path)
         /\ IsSeq(t.nodes[i].children.list)
<1>1. Bounds(t) /\ NodesNow(t)
  BY Now
<1>2. /\ i \in 1 .. Len(t.nodes) /\ i \in Nat /\ i > Lo(t).num_nodes
      /\ i \notin 1 .. Lo(t).num_nodes
  BY <1>1 DEF Bounds, Mine
<1>3. /\ NodeOK(t.nodes[i], Len(t.nodes), Len(t.entries), Current(t))
      /\ OwnNode(t.nodes[i], Current(t), Lo(t))
  BY <1>1, <1>2 DEF NodesNow
<1> QED  BY <1>2, <1>3 DEF NodeOK, ChildrenOK

(* Another value, path or origin of one node. *)
LEMMA ChangeNodeGood ==
  ASSUME NEW t, TrieInv(t), NEW i \in Mine(t), NEW m, Cosmetic(t, t.nodes[i], m),
         NEW u, u = [t EXCEPT !.nodes[i] = m]
  PROVE  Good(t, u) /\ Keeps(t, u) /\ u.nodes[i] = m /\ u.entries = t.entries
<1>1. IsTrie(t) /\ Bounds(t)
  BY Now
<1>2. PICK ns : ns = Upd(t.nodes, i, m)
  OBVIOUS
<1>3. IsSeq(t.nodes)
  BY <1>1 DEF IsTrie
<1>4. /\ IsSeq(ns) /\ Len(ns) = Len(t.nodes)
      /\ \A k \in 1 .. Len(t.nodes) : ns[k] = IF k = i THEN m ELSE t.nodes[k]
  BY <1>2, <1>3, SeqExcept
<1>5. u = [generations |-> t.generations, entries |-> t.entries, values |-> t.values,
           borrowed_values |-> t.borrowed_values, nodes |-> ns]
  <2>1. t = [generations |-> t.generations, entries |-> t.entries, values |-> t.values,
             borrowed_values |-> t.borrowed_values, nodes |-> t.nodes]
    BY <1>1, TrieFields
  <2>2. u = [t EXCEPT !.nodes = ns]
    BY <1>2, Zenon DEF Upd
  <2> QED  BY <2>1, <2>2
<1>6. i \in 1 .. Len(t.nodes) /\ i \notin 1 .. Lo(t).num_nodes
  BY MyNode
<1>7. \A k \in 1 .. Lo(t).num_nodes : ns[k] = t.nodes[k]
  <2>1. \A k \in 1 .. Lo(t).num_nodes : k \in 1 .. Len(t.nodes)
    BY <1>1 DEF Bounds
  <2> QED  BY <1>4, <1>6, <2>1
<1>8. ASSUME NEW k \in Mine(t) PROVE Cosmetic(t, t.nodes[k], ns[k])
  <2>1. k \in 1 .. Len(t.nodes)
    BY MyNode
  <2>2. CASE k = i
    BY <1>4, <2>1, <2>2
  <2>3. CASE k # i
    <3>1. ns[k] = t.nodes[k]
      BY <1>4, <2>1, <2>3
    <3>2. /\ t.nodes[k] = MutableNode(t.nodes[k].generation, t.nodes[k].value, t.nodes[k].path,
                                      t.nodes[k].children, t.nodes[k].origin)
          /\ IsSeq(t.nodes[k].path)
      BY MyNode
    <3> QED  BY <3>1, <3>2 DEF Cosmetic
  <2> QED  BY <2>2, <2>3
<1>9. Good(t, u) /\ Keeps(t, u)
  BY <1>4, <1>5, <1>7, <1>8, CosmeticGood
<1>10. u.nodes = ns /\ u.entries = t.entries
  BY <1>5
<1> QED  BY <1>4, <1>6, <1>9, <1>10

(* The nodes on the way lose their origin, so that freeze writes them      *)
(* again.                                                                  *)
LEMMA TouchGood ==
  ASSUME NEW t, TrieInv(t), NEW dirty, \A i \in dirty : i \in Mine(t)
  PROVE  /\ Good(t, Touch(t, dirty)) /\ Keeps(t, Touch(t, dirty))
         /\ Touch(t, dirty).entries = t.entries
         /\ \A i \in 1 .. Len(t.nodes) : /\ Touch(t, dirty).nodes[i].value = t.nodes[i].value
                                         /\ Touch(t, dirty).nodes[i].path = t.nodes[i].path
                                         /\ Touch(t, dirty).nodes[i].children = t.nodes[i].children
<1>1. IsTrie(t) /\ Bounds(t) /\ NodesNow(t)
  BY Now
<1>2. PICK ns : ns = [i \in DOMAIN t.nodes |->
                        IF i \in dirty THEN [t.nodes[i] EXCEPT !.origin = None] ELSE t.nodes[i]]
  OBVIOUS
<1>3. IsSeq(t.nodes) /\ DOMAIN t.nodes = 1 .. Len(t.nodes)
  BY <1>1, SeqDomain DEF IsTrie
<1>4. IsSeq(ns) /\ Len(ns) = Len(t.nodes)
  <2>1. DOMAIN ns = DOMAIN t.nodes /\ ns = [i \in DOMAIN ns |-> ns[i]]
    BY <1>2
  <2> QED  BY <1>3, <2>1, SeqSame
<1>5. PICK u : u = Touch(t, dirty)
  OBVIOUS
<1>6. u = [generations |-> t.generations, entries |-> t.entries, values |-> t.values,
           borrowed_values |-> t.borrowed_values, nodes |-> ns]
  <2>1. t = [generations |-> t.generations, entries |-> t.entries, values |-> t.values,
             borrowed_values |-> t.borrowed_values, nodes |-> t.nodes]
    BY <1>1, TrieFields
  <2>2. <<>> \o ns = ns
    BY <1>4, SeqPlain
  <2>3. u = [t EXCEPT !.nodes = ns]
    BY <1>2, <1>5, <2>2, Zenon DEF Touch
  <2> QED  BY <2>1, <2>3
<1>7. \A k \in 1 .. Lo(t).num_nodes : ns[k] = t.nodes[k]
  <2> SUFFICES ASSUME NEW k \in 1 .. Lo(t).num_nodes PROVE ns[k] = t.nodes[k]
    OBVIOUS
  <2>1. k \in DOMAIN t.nodes /\ k \notin dirty
    BY <1>1, <1>3 DEF Bounds, Mine
  <2> QED  BY <1>2, <2>1
<1>8. ASSUME NEW k \in 1 .. Len(t.nodes)
      PROVE  /\ Cosmetic(t, t.nodes[k], ns[k])
             /\ ns[k].value = t.nodes[k].value
             /\ ns[k].path = t.nodes[k].path
             /\ ns[k].children = t.nodes[k].children
  <2>1. /\ t.nodes[k] = MutableNode(t.nodes[k].generation, t.nodes[k].value, t.nodes[k].path,
                                    t.nodes[k].children, t.nodes[k].origin)
        /\ IsSeq(t.nodes[k].path)
    BY <1>1 DEF NodesNow, NodeOK
  <2>2. CASE k \in dirty
    <3>1. ns[k] = [t.nodes[k] EXCEPT !.origin = None]
      BY <1>2, <1>3, <2>2
    <3>2. ns[k] = MutableNode(t.nodes[k].generation, t.nodes[k].value, t.nodes[k].path,
                              t.nodes[k].children, None)
      BY <2>1, <3>1, NodeFields
    <3> QED  BY <2>1, <3>2 DEF Cosmetic, MutableNode
  <2>3. CASE k \notin dirty
    <3>1. ns[k] = t.nodes[k]
      BY <1>2, <1>3, <2>3
    <3> QED  BY <2>1, <3>1 DEF Cosmetic
  <2> QED  BY <2>2, <2>3
<1>9. \A k \in Mine(t) : Cosmetic(t, t.nodes[k], ns[k])
  <2>1. \A k \in Mine(t) : k \in 1 .. Len(t.nodes)
    BY <1>1 DEF Mine, Bounds
  <2> QED  BY <1>8, <2>1
<1>10. Good(t, u) /\ Keeps(t, u)
  BY <1>4, <1>6, <1>7, <1>9, CosmeticGood
<1>11. u.nodes = ns /\ u.entries = t.entries
  BY <1>6
<1> QED  BY <1>5, <1>8, <1>10, <1>11

(* The tree is dropped as a whole. *)
LEMMA RootNoneGood ==
  ASSUME NEW t, TrieInv(t)
  PROVE  Good(t, WithRoot(t, None))
<1>1. IsTrie(t) /\ Bounds(t) /\ NodesNow(t)
  BY Now
<1>2. PICK u : u = WithRoot(t, None)
  OBVIOUS
<1>3. /\ IsTrie(u) /\ SameGenerations(t, u) /\ Root(u) = None
      /\ u.nodes = t.nodes /\ u.entries = t.entries /\ u.values = t.values
      /\ u.borrowed_values = t.borrowed_values
  BY <1>1, <1>2, WithRootFacts
<1>4. PICK up, pos : Hangs(t, up, pos)
  BY Hanging
<1>5. Lo(u) = Lo(t) /\ Current(u) = Current(t)
  BY <1>3 DEF SameGenerations
<1>6. Hangs(u, up, pos)
  BY <1>3, <1>4, <1>5 DEF Hangs, Edge, NowNode
<1>7. /\ Len(t.nodes) <= Len(u.nodes)
      /\ \A i \in 1 .. Lo(t).num_nodes : u.nodes[i] = t.nodes[i]
  BY <1>1, <1>3 DEF Bounds
<1>8. \A i \in Lo(t).num_nodes + 1 .. Len(u.nodes) :
           /\ NodeOK(u.nodes[i], Len(u.nodes), Len(t.entries), Current(t))
           /\ OwnNode(u.nodes[i], Current(t), Lo(t))
  BY <1>3, MyNode DEF Mine
<1> QED  BY <1>2, <1>3, <1>6, <1>7, <1>8, Rewire

(* A node that nothing points to may become the root. *)
LEMMA RerootGood ==
  ASSUME NEW t, TrieInv(t), NEW r \in Mine(t), NowNode(t, r), \A i, j \in Nat : ~ Edge(t, i, j, r)
  PROVE  Good(t, WithRoot(t, r))
<1>1. IsTrie(t) /\ Bounds(t) /\ NodesNow(t)
  BY Now
<1>2. PICK u : u = WithRoot(t, r)
  OBVIOUS
<1>3. /\ IsTrie(u) /\ SameGenerations(t, u) /\ Root(u) = r
      /\ u.nodes = t.nodes /\ u.entries = t.entries /\ u.values = t.values
      /\ u.borrowed_values = t.borrowed_values
  BY <1>1, <1>2, WithRootFacts
<1>4. PICK up, pos : Hangs(t, up, pos)
  BY Hanging
<1>5. Lo(u) = Lo(t) /\ Current(u) = Current(t)
  BY <1>3 DEF SameGenerations
<1>6. PICK up2 : up2 = [k \in Nat |-> IF k = r THEN 0 ELSE up[k]]
  OBVIOUS
<1>7. Hangs(u, up2, pos)
  <2>1. r \in Nat
    BY MyNode
  <2>2. \A i, j, k \in Nat : Edge(u, i, j, k) <=> Edge(t, i, j, k)
    BY <1>3, <1>5 DEF Edge
  <2>3. \A k : NowNode(u, k) <=> NowNode(t, k)
    BY <1>3, <1>5 DEF NowNode
  <2>4. ASSUME NEW i \in Nat, NEW j \in Nat, NEW k \in Nat, Edge(u, i, j, k)
        PROVE  /\ k > Lo(u).num_nodes
               /\ up2[k] = i /\ pos[k] = j
               /\ NowNode(u, i) => NowNode(u, k)
    <3>1. Edge(t, i, j, k) /\ k # r
      BY <2>2, <2>4
    <3>2. up2[k] = up[k]
      BY <1>6, <3>1
    <3> QED  BY <1>4, <1>5, <2>3, <3>1, <3>2 DEF Hangs
  <2>5. Root(u) \in Mine(u) /\ NowNode(u, Root(u)) /\ up2[Root(u)] = 0
    BY <1>3, <1>5, <1>6, <2>1, <2>3 DEF Mine
  <2> QED  BY <2>4, <2>5 DEF Hangs
<1>8. /\ Len(t.nodes) <= Len(u.nodes)
      /\ \A i \in 1 .. Lo(t).num_nodes : u.nodes[i] = t.nodes[i]
  BY <1>1, <1>3 DEF Bounds
<1>9. \A i \in Lo(t).num_nodes + 1 .. Len(u.nodes) :
           /\ NodeOK(u.nodes[i], Len(u.nodes), Len(t.entries), Current(t))
           /\ OwnNode(u.nodes[i], Current(t), Lo(t))
  BY <1>3, MyNode DEF Mine
<1> QED  BY <1>2, <1>3, <1>7, <1>8, <1>9, Rewire

-----------------------------------------------------------------------------
(* Adding nodes and changing lists of children.                            *)

(* A node at the end of the arena. *)
LEMMA AddNodeFacts ==
  ASSUME NEW t, IsTrie(t), NEW n, NEW u, u = AddNode(t, n)
  PROVE  /\ IsTrie(u) /\ SameGenerations(t, u) /\ Root(u) = Root(t)
         /\ u.generations = t.generations /\ u.entries = t.entries /\ u.values = t.values
         /\ u.borrowed_values = t.borrowed_values
         /\ Len(u.nodes) = Len(t.nodes) + 1
         /\ \A i \in 1 .. Len(t.nodes) : u.nodes[i] = t.nodes[i]
         /\ u.nodes[Len(t.nodes) + 1] = n
<1>1. PICK ns : ns = Append(t.nodes, n)
  OBVIOUS
<1>2. u = [generations |-> t.generations, entries |-> t.entries, values |-> t.values,
           borrowed_values |-> t.borrowed_values, nodes |-> ns]
  <2>1. t = [generations |-> t.generations, entries |-> t.entries, values |-> t.values,
             borrowed_values |-> t.borrowed_values, nodes |-> t.nodes]
    BY TrieFields
  <2>2. u = [t EXCEPT !.nodes = ns]
    BY <1>1, Zenon DEF AddNode
  <2> QED  BY <2>1, <2>2
<1>3. IsSeq(t.nodes) /\ IsSeq(t.entries) /\ IsSeq(t.values) /\ IsSeq(t.borrowed_values)
  BY DEF IsTrie
<1>4. /\ IsSeq(ns) /\ Len(ns) = Len(t.nodes) + 1
      /\ \A i \in 1 .. Len(t.nodes) : ns[i] = t.nodes[i]
      /\ ns[Len(t.nodes) + 1] = n
  BY <1>1, <1>3, SeqAppend
<1>5. /\ IsTrie(u) /\ SameGenerations(t, u) /\ Root(u) = Root(t)
      /\ u.generations = t.generations /\ u.entries = t.entries /\ u.values = t.values
      /\ u.borrowed_values = t.borrowed_values /\ u.nodes = ns
  BY <1>2, <1>3, <1>4, TrieRecord
<1> QED  BY <1>4, <1>5

(* Another list of children for a node. *)
SetList(t, m, L) == [t EXCEPT !.nodes[m].children.list = L]

(* Another list of children changes nothing else. *)
LEMMA SetListFacts ==
  ASSUME NEW t, IsTrie(t), NEW m \in 1 .. Len(t.nodes), NEW L, NEW u,
         t.nodes[m] = MutableNode(t.nodes[m].generation, t.nodes[m].value, t.nodes[m].path,
                                  t.nodes[m].children, t.nodes[m].origin),
         t.nodes[m].children = Owned(t.nodes[m].children.generation, t.nodes[m].children.list),
         u = SetList(t, m, L)
  PROVE  /\ IsTrie(u) /\ SameGenerations(t, u) /\ Root(u) = Root(t)
         /\ u.generations = t.generations /\ u.entries = t.entries /\ u.values = t.values
         /\ u.borrowed_values = t.borrowed_values
         /\ Len(u.nodes) = Len(t.nodes)
         /\ \A i \in 1 .. Len(t.nodes) : i # m => u.nodes[i] = t.nodes[i]
         /\ u.nodes[m] = MutableNode(t.nodes[m].generation, t.nodes[m].value, t.nodes[m].path,
                                     Owned(t.nodes[m].children.generation, L), t.nodes[m].origin)
<1>1. PICK c : c = [t.nodes[m].children EXCEPT !.list = L]
  OBVIOUS
<1>2. c = Owned(t.nodes[m].children.generation, L)
  BY <1>1 DEF Owned
<1>3. PICK n : n = [t.nodes[m] EXCEPT !.children = c]
  OBVIOUS
<1>4. n = MutableNode(t.nodes[m].generation, t.nodes[m].value, t.nodes[m].path, c, t.nodes[m].origin)
  BY <1>3, NodeFields
<1>5. PICK ns : ns = Upd(t.nodes, m, n)
  OBVIOUS
<1>6. u = [generations |-> t.generations, entries |-> t.entries, values |-> t.values,
           borrowed_values |-> t.borrowed_values, nodes |-> ns]
  <2>1. t = [generations |-> t.generations, entries |-> t.entries, values |-> t.values,
             borrowed_values |-> t.borrowed_values, nodes |-> t.nodes]
    BY TrieFields
  <2>2. u = [t EXCEPT !.nodes = ns]
    BY <1>1, <1>3, <1>5, Zenon DEF Upd, SetList
  <2> QED  BY <2>1, <2>2
<1>7. IsSeq(t.nodes) /\ IsSeq(t.entries) /\ IsSeq(t.values) /\ IsSeq(t.borrowed_values)
  BY DEF IsTrie
<1>8. /\ IsSeq(ns) /\ Len(ns) = Len(t.nodes)
      /\ \A i \in 1 .. Len(t.nodes) : ns[i] = IF i = m THEN n ELSE t.nodes[i]
  BY <1>5, <1>7, SeqExcept
<1>9. /\ IsTrie(u) /\ SameGenerations(t, u) /\ Root(u) = Root(t)
      /\ u.generations = t.generations /\ u.entries = t.entries /\ u.values = t.values
      /\ u.borrowed_values = t.borrowed_values /\ u.nodes = ns
  <2>1. IsSeq(ns)
    BY <1>8
  <2> QED  BY <1>6, <1>7, <2>1, TrieRecord
<1>10. \A i \in 1 .. Len(t.nodes) : i # m => u.nodes[i] = t.nodes[i]
  BY <1>8, <1>9
<1>11. u.nodes[m] = n
  BY <1>8, <1>9
<1> QED  BY <1>2, <1>4, <1>8, <1>9, <1>10, <1>11

(* A node that has a value of this generation and no children. *)
IsLeaf(t, n) ==
  /\ n = MutableNode(Current(t) - 1, n.value, n.path, Owned(Current(t) - 1, <<>>), None)
  /\ IsEntry(t, n.value)
  /\ IsSeq(n.path)

(* A leaf is a good node in an arena of any length. *)
LEMMA LeafFacts ==
  ASSUME NEW t, TrieInv(t), NEW n, IsLeaf(t, n), NEW M
  PROVE  /\ NodeOK(n, M, Len(t.entries), Current(t))
         /\ OwnNode(n, Current(t), Lo(t))
         /\ n.children.list = <<>>
         /\ n.generation = Current(t) - 1
<1>1. Bounds(t)
  BY Now
<1>2. /\ n.generation = Current(t) - 1 /\ n.origin = None
      /\ n.children = Owned(Current(t) - 1, <<>>)
      /\ n.children.kind = "Owned" /\ n.children.generation = Current(t) - 1
      /\ n.children.list = <<>>
  BY DEF IsLeaf, MutableNode, Owned
<1>3. Current(t) - 1 \in 0 .. Current(t) - 1
  BY <1>1 DEF Bounds
<1>4. n.value \in 1 .. Len(t.entries) /\ n.value > Lo(t).num_entries
  BY <1>1 DEF IsLeaf, IsEntry, Bounds
<1>5. IsSeq(<<>>) /\ DOMAIN <<>> = {}
  BY SeqSmall
<1>6. ChildrenOK(n.children, M, Current(t))
  BY <1>2, <1>3, <1>5 DEF ChildrenOK
<1>7. NodeOK(n, M, Len(t.entries), Current(t))
  BY <1>2, <1>3, <1>4, <1>6 DEF NodeOK, IsLeaf
<1>8. OwnNode(n, Current(t), Lo(t))
  BY <1>2, <1>4 DEF OwnNode, Own
<1> QED  BY <1>2, <1>7, <1>8

(* A leaf that nothing points to yet. *)
LEMMA AddLeafGood ==
  ASSUME NEW t, TrieInv(t), NEW n, IsLeaf(t, n)
  PROVE  /\ Good(t, AddNode(t, n)) /\ Keeps(t, AddNode(t, n))
         /\ \A i, j \in Nat : ~ Edge(AddNode(t, n), i, j, Len(t.nodes) + 1)
         /\ Len(t.nodes) + 1 \in Mine(AddNode(t, n))
         /\ NowNode(AddNode(t, n), Len(t.nodes) + 1)
<1>1. IsTrie(t) /\ Bounds(t) /\ NodesNow(t)
  BY Now
<1>2. PICK u, N : u = AddNode(t, n) /\ N = Len(t.nodes)
  OBVIOUS
<1>3. /\ IsTrie(u) /\ SameGenerations(t, u) /\ Root(u) = Root(t)
      /\ u.entries = t.entries /\ u.values = t.values
      /\ u.borrowed_values = t.borrowed_values
      /\ Len(u.nodes) = N + 1
      /\ \A i \in 1 .. N : u.nodes[i] = t.nodes[i]
      /\ u.nodes[N + 1] = n
  BY <1>1, <1>2, AddNodeFacts
<1>4. Lo(u) = Lo(t) /\ Current(u) = Current(t) /\ N \in Nat /\ Lo(t).num_nodes \in 0 .. N
  BY <1>1, <1>2, <1>3 DEF SameGenerations, Bounds
<1>5. PICK up, pos : Hangs(t, up, pos)
  BY Hanging
<1>6. ASSUME NEW i \in Nat, NEW j \in Nat, NEW k \in Nat, Edge(u, i, j, k)
      PROVE  Edge(t, i, j, k) /\ i \in 1 .. N /\ k \in 1 .. N
  <2>1. i \in Lo(t).num_nodes + 1 .. N + 1
    BY <1>3, <1>4, <1>6 DEF Edge, Points
  <2>2. i # N + 1
    <3> SUFFICES ASSUME i = N + 1 PROVE FALSE
      OBVIOUS
    <3>1. n.children.list = <<>>
      BY LeafFacts
    <3>2. j \in DOMAIN <<>>
      BY <1>3, <1>6, <3>1 DEF Edge, Points
    <3> QED  BY <3>2
  <2>3. i \in 1 .. N /\ i \in Lo(t).num_nodes + 1 .. N
    BY <1>4, <2>1, <2>2
  <2>4. Edge(t, i, j, k)
    BY <1>2, <1>3, <1>6, <2>3 DEF Edge, Points
  <2> QED  BY <1>2, <2>3, <2>4, EdgeFacts
<1>7. Hangs(u, up, pos)
  <2>1. ASSUME NEW i \in Nat, NEW j \in Nat, NEW k \in Nat, Edge(u, i, j, k)
        PROVE  /\ k > Lo(u).num_nodes
               /\ up[k] = i /\ pos[k] = j
               /\ NowNode(u, i) => NowNode(u, k)
    <3>1. Edge(t, i, j, k) /\ i \in 1 .. N /\ k \in 1 .. N
      BY <1>6, <2>1
    <3>2. /\ k > Lo(t).num_nodes
          /\ up[k] = i /\ pos[k] = j
          /\ NowNode(t, i) => NowNode(t, k)
      BY <1>5, <3>1 DEF Hangs
    <3>3. u.nodes[i] = t.nodes[i] /\ u.nodes[k] = t.nodes[k]
      BY <1>3, <3>1
    <3> QED  BY <1>4, <3>2, <3>3 DEF NowNode
  <2>2. Root(u) # None => Root(u) \in Mine(u) /\ NowNode(u, Root(u)) /\ up[Root(u)] = 0
    <3>1. Mine(t) \subseteq 1 .. N /\ Mine(t) \subseteq Mine(u)
      BY <1>2, <1>3, <1>4 DEF Mine
    <3> QED  BY <1>3, <1>4, <1>5, <3>1 DEF Hangs, NowNode
  <2> QED  BY <2>1, <2>2 DEF Hangs
<1>8. ASSUME NEW i \in Lo(t).num_nodes + 1 .. Len(u.nodes)
      PROVE  /\ NodeOK(u.nodes[i], Len(u.nodes), Len(t.entries), Current(t))
             /\ OwnNode(u.nodes[i], Current(t), Lo(t))
  <2>1. CASE i = N + 1
    BY <1>3, <2>1, LeafFacts
  <2>2. CASE i # N + 1
    <3>1. i \in Mine(t) /\ i \in 1 .. N
      BY <1>2, <1>3, <1>4, <2>2 DEF Mine
    <3>2. NodeOK(t.nodes[i], N, Len(t.entries), Current(t)) /\ OwnNode(t.nodes[i], Current(t), Lo(t))
      BY <1>2, <3>1, MyNode
    <3>3. N + 1 \in Nat /\ N <= N + 1 /\ Len(t.entries) \in Nat /\ Len(t.entries) <= Len(t.entries)
      BY <1>1, <1>4 DEF Bounds
    <3>4. NodeOK(t.nodes[i], N + 1, Len(t.entries), Current(t))
      BY <1>4, <3>2, <3>3, MoreRoom
    <3> QED  BY <1>3, <3>1, <3>2, <3>4
  <2> QED  BY <2>1, <2>2
<1>9. /\ Len(t.nodes) <= Len(u.nodes)
      /\ \A i \in 1 .. Lo(t).num_nodes : u.nodes[i] = t.nodes[i]
  BY <1>2, <1>3, <1>4
<1>10. Good(t, u)
  BY <1>3, <1>7, <1>8, <1>9, Rewire
<1>11. Keeps(t, u)
  <2>1. Len(t.entries) <= Len(u.entries)
    BY <1>1, <1>3 DEF Bounds
  <2> QED  BY <1>2, <1>3, <1>4, <1>9, <2>1 DEF Keeps
<1>12. \A i, j \in Nat : ~ Edge(u, i, j, N + 1)
  <2>1. N + 1 \in Nat /\ N + 1 \notin 1 .. N
    BY <1>4
  <2> QED  BY <1>6, <2>1
<1>13. N + 1 \in Mine(u) /\ NowNode(u, N + 1)
  <2>1. N + 1 \in Mine(u)
    BY <1>3, <1>4 DEF Mine
  <2>2. n.generation = Current(t) - 1
    BY LeafFacts
  <2> QED  BY <1>3, <1>4, <2>1, <2>2 DEF NowNode
<1> QED  BY <1>2, <1>10, <1>11, <1>12, <1>13

(* The facts about a node with a list of its own. *)
LEMMA OwnList ==
  ASSUME NEW t, TrieInv(t), NEW m \in Mine(t), Own(t.nodes[m])
  PROVE  /\ t.nodes[m].children = Owned(t.nodes[m].generation, t.nodes[m].children.list)
         /\ t.nodes[m].children.generation = t.nodes[m].generation
         /\ t.nodes[m].generation \in 0 .. Current(t) - 1
         /\ DOMAIN t.nodes[m].children.list = 1 .. Len(t.nodes[m].children.list)
         /\ Len(t.nodes[m].children.list) \in Nat
         /\ \A j \in 1 .. Len(t.nodes[m].children.list) :
              /\ t.nodes[m].children.list[j] = Child(t.nodes[m].children.list[j].key,
                                                     t.nodes[m].children.list[j].index)
              /\ t.nodes[m].children.list[j].index \in 1 .. Len(t.nodes)
              /\ Edge(t, m, j, t.nodes[m].children.list[j].index)
<1>1. NodeOK(t.nodes[m], Len(t.nodes), Len(t.entries), Current(t)) /\ IsSeq(t.nodes[m].children.list)
  BY MyNode
<1>2. ChildrenOK(t.nodes[m].children, Len(t.nodes), Current(t)) /\ t.nodes[m].generation \in 0 .. Current(t) - 1
  BY <1>1 DEF NodeOK
<1>3. t.nodes[m].children.kind = "Owned" /\ t.nodes[m].children.generation = t.nodes[m].generation
  BY DEF Own
<1>4. /\ t.nodes[m].children = Owned(t.nodes[m].generation, t.nodes[m].children.list)
      /\ \A j \in DOMAIN t.nodes[m].children.list :
              /\ t.nodes[m].children.list[j] = Child(t.nodes[m].children.list[j].key,
                                                     t.nodes[m].children.list[j].index)
              /\ t.nodes[m].children.list[j].index \in 1 .. Len(t.nodes)
  BY <1>2, <1>3 DEF ChildrenOK
<1>5. DOMAIN t.nodes[m].children.list = 1 .. Len(t.nodes[m].children.list) /\ Len(t.nodes[m].children.list) \in Nat
  BY <1>1, SeqDomain
<1>6. \A j \in DOMAIN t.nodes[m].children.list : Edge(t, m, j, t.nodes[m].children.list[j].index)
  BY DEF Edge, Points, Mine
<1> QED  BY <1>2, <1>3, <1>4, <1>5, <1>6

(* A list of children in an arena of M nodes. *)
IsList(L, M) ==
  IsSeq(L) /\ \A j \in DOMAIN L : L[j] = Child(L[j].key, L[j].index) /\ L[j].index \in 1 .. M

(* A node with another list of its own is as good as it was. *)
LEMMA ListNode ==
  ASSUME NEW t, TrieInv(t), NEW m \in Mine(t), Own(t.nodes[m]), NEW M, NEW L, IsList(L, M), NEW n,
         n = MutableNode(t.nodes[m].generation, t.nodes[m].value, t.nodes[m].path,
                         Owned(t.nodes[m].children.generation, L), t.nodes[m].origin)
  PROVE  /\ NodeOK(n, M, Len(t.entries), Current(t)) /\ OwnNode(n, Current(t), Lo(t))
         /\ Own(n) /\ n.children.list = L /\ n.generation = t.nodes[m].generation
<1>1. NodeOK(t.nodes[m], Len(t.nodes), Len(t.entries), Current(t)) /\ OwnNode(t.nodes[m], Current(t), Lo(t))
  BY MyNode
<1>2. /\ t.nodes[m].children.generation = t.nodes[m].generation
      /\ t.nodes[m].generation \in 0 .. Current(t) - 1
  BY OwnList
<1>3. /\ n.generation = t.nodes[m].generation /\ n.value = t.nodes[m].value
      /\ n.path = t.nodes[m].path /\ n.origin = t.nodes[m].origin
      /\ n.children = Owned(t.nodes[m].generation, L)
  BY <1>2 DEF MutableNode
<1>4. /\ n.children.kind = "Owned" /\ n.children.list = L
      /\ n.children.generation = t.nodes[m].generation
  BY <1>3 DEF Owned
<1>5. ChildrenOK(n.children, M, Current(t))
  BY <1>2, <1>3, <1>4 DEF ChildrenOK, IsList
<1>6. NodeOK(n, M, Len(t.entries), Current(t))
  <2>1. /\ t.nodes[m].value = None \/ t.nodes[m].value \in 1 .. Len(t.entries)
        /\ IsSeq(t.nodes[m].path)
        /\ t.nodes[m].origin = None \/ WellFormed(t.nodes[m].origin)
    BY <1>1 DEF NodeOK
  <2>2. n = MutableNode(n.generation, n.value, n.path, n.children, n.origin)
    BY <1>2, <1>3
  <2> QED  BY <1>2, <1>3, <1>5, <2>1, <2>2 DEF NodeOK
<1>7. Own(n)
  BY <1>3, <1>4 DEF Own
<1>8. OwnNode(n, Current(t), Lo(t))
  BY <1>1, <1>3, <1>7 DEF OwnNode
<1> QED  BY <1>3, <1>4, <1>6, <1>7, <1>8

(* A new leaf among the children of a node. *)
LEMMA AddChildGood ==
  ASSUME NEW t, TrieInv(t), NEW m \in Mine(t), Own(t.nodes[m]),
         NEW p \in 1 .. Len(t.nodes[m].children.list) + 1, NEW key, NEW n, IsLeaf(t, n),
         NEW L, L = InsertAt(t.nodes[m].children.list, p, Child(key, Len(t.nodes) + 1)),
         NEW u, u = AddNode(SetList(t, m, L), n)
  PROVE  Good(t, u)
<1>1. IsTrie(t) /\ Bounds(t)
  BY Now
<1>2. PICK N, K, v, old : /\ N = Len(t.nodes) /\ old = t.nodes[m].children.list
                          /\ K = Len(old) /\ v = SetList(t, m, L)
  OBVIOUS
<1>3. /\ m \in 1 .. N /\ m \in Nat /\ m > Lo(t).num_nodes /\ m \notin 1 .. Lo(t).num_nodes /\ IsSeq(old)
      /\ t.nodes[m] = MutableNode(t.nodes[m].generation, t.nodes[m].value, t.nodes[m].path,
                                  t.nodes[m].children, t.nodes[m].origin)
  BY <1>2, MyNode
<1>4. /\ t.nodes[m].children = Owned(t.nodes[m].children.generation, old)
      /\ K \in Nat /\ DOMAIN old = 1 .. K
      /\ \A j \in 1 .. K : old[j] = Child(old[j].key, old[j].index) /\ old[j].index \in 1 .. N
      /\ \A j \in 1 .. K : Edge(t, m, j, old[j].index)
  BY <1>2, OwnList
<1>5. /\ IsTrie(v) /\ SameGenerations(t, v) /\ Root(v) = Root(t)
      /\ v.entries = t.entries /\ v.values = t.values
      /\ v.borrowed_values = t.borrowed_values
      /\ Len(v.nodes) = N
      /\ \A i \in 1 .. N : i # m => v.nodes[i] = t.nodes[i]
      /\ v.nodes[m] = MutableNode(t.nodes[m].generation, t.nodes[m].value, t.nodes[m].path,
                                  Owned(t.nodes[m].children.generation, L), t.nodes[m].origin)
  BY <1>1, <1>2, <1>3, <1>4, SetListFacts
<1>6. /\ IsTrie(u) /\ SameGenerations(v, u) /\ Root(u) = Root(v)
      /\ u.entries = v.entries /\ u.values = v.values
      /\ u.borrowed_values = v.borrowed_values
      /\ Len(u.nodes) = N + 1
      /\ \A i \in 1 .. N : u.nodes[i] = v.nodes[i]
      /\ u.nodes[N + 1] = n
  <2>1. IsTrie(v) /\ Len(v.nodes) = N /\ u = AddNode(v, n)
    BY ONLY <1>2, <1>5, u = AddNode(SetList(t, m, L), n)
  <2>2. QED
    BY ONLY <2>1, AddNodeFacts
<1>7. /\ SameGenerations(t, u) /\ Lo(u) = Lo(t) /\ Current(u) = Current(t)
      /\ N \in Nat /\ Lo(t).num_nodes \in 0 .. N /\ Len(t.entries) \in Nat
  BY <1>1, <1>2, <1>5, <1>6 DEF SameGenerations, Bounds
<1>8. /\ IsSeq(L) /\ Len(L) = K + 1
      /\ \A i \in 1 .. K + 1 : L[i] = IF i < p THEN old[i]
                                      ELSE IF i = p THEN Child(key, N + 1) ELSE old[i - 1]
  <2>1. PICK c : c = Child(key, N + 1)
    OBVIOUS
  <2>2. L = InsertAt(old, p, c) /\ p \in 1 .. Len(old) + 1 /\ IsSeq(old)
    BY <1>2, <1>3, <2>1
  <2>3. /\ IsSeq(L) /\ Len(L) = Len(old) + 1
        /\ \A i \in 1 .. Len(old) + 1 : L[i] = IF i < p THEN old[i] ELSE IF i = p THEN c ELSE old[i - 1]
    BY <2>2, SeqInsertAt
  <2> QED  BY <1>2, <2>1, <2>3
<1>9. p \in 1 .. K + 1 /\ DOMAIN L = 1 .. K + 1
  BY <1>2, <1>8, SeqDomain
<1>10. \A j \in DOMAIN L : L[j] = Child(L[j].key, L[j].index) /\ L[j].index \in 1 .. N + 1
  <2> SUFFICES ASSUME NEW j \in 1 .. K + 1
               PROVE  L[j] = Child(L[j].key, L[j].index) /\ L[j].index \in 1 .. N + 1
    BY <1>9
  <2>1. CASE j < p
    <3>1. L[j] = old[j] /\ j \in 1 .. K
      BY <1>4, <1>8, <1>9, <2>1
    <3> QED  BY <1>4, <1>7, <3>1
  <2>2. CASE j = p
    <3>1. L[j] = Child(key, N + 1)
      BY <1>8, <1>9, <2>2
    <3> QED  BY <1>7, <3>1 DEF Child
  <2>3. CASE j > p
    <3>1. L[j] = old[j - 1] /\ j - 1 \in 1 .. K
      BY <1>4, <1>8, <1>9, <2>3
    <3> QED  BY <1>4, <1>7, <3>1
  <2> QED  BY <1>9, <2>1, <2>2, <2>3
<1>11. /\ NodeOK(u.nodes[m], N + 1, Len(t.entries), Current(t)) /\ OwnNode(u.nodes[m], Current(t), Lo(t))
       /\ Own(u.nodes[m]) /\ u.nodes[m].children.list = L /\ u.nodes[m].generation = t.nodes[m].generation
  <2>1. u.nodes[m] = MutableNode(t.nodes[m].generation, t.nodes[m].value, t.nodes[m].path,
                                 Owned(t.nodes[m].children.generation, L), t.nodes[m].origin)
    BY <1>3, <1>5, <1>6
  <2>2. IsSeq(L)
    BY <1>8
  <2>3. PICK x, M : x = u.nodes[m] /\ M = N + 1
    OBVIOUS
  <2>4. /\ x = MutableNode(t.nodes[m].generation, t.nodes[m].value, t.nodes[m].path,
                           Owned(t.nodes[m].children.generation, L), t.nodes[m].origin)
        /\ IsList(L, M)
    BY <1>10, <2>1, <2>2, <2>3 DEF IsList
  <2>5. /\ NodeOK(x, M, Len(t.entries), Current(t)) /\ OwnNode(x, Current(t), Lo(t))
        /\ Own(x) /\ x.children.list = L /\ x.generation = t.nodes[m].generation
    BY <2>4, ListNode
  <2> QED  BY <2>3, <2>5
<1>12. \A i \in 1 .. N : i # m => u.nodes[i] = t.nodes[i]
  BY <1>5, <1>6
<1>13. PICK up, pos : Hangs(t, up, pos)
  BY Hanging
<1>14. PICK up2, pos2 :
         /\ up2 = [k \in Nat |-> IF k = N + 1 THEN m ELSE up[k]]
         /\ pos2 = [k \in Nat |-> IF k = N + 1 THEN p
                                  ELSE IF up[k] = m /\ pos[k] >= p THEN pos[k] + 1 ELSE pos[k]]
  OBVIOUS
<1>15. n.children.list = <<>> /\ n.generation = Current(t) - 1
  BY LeafFacts
<1>16. \A i \in 1 .. N : u.nodes[i].generation = t.nodes[i].generation
  BY <1>11, <1>12
<1>17. ASSUME NEW i \in Nat, NEW j \in Nat, NEW k \in Nat, Edge(t, i, j, k)
       PROVE  /\ k > Lo(t).num_nodes /\ k \in 1 .. N /\ i \in 1 .. N
              /\ up[k] = i /\ pos[k] = j /\ up2[k] = i
              /\ pos2[k] = IF i = m /\ j >= p THEN j + 1 ELSE j
              /\ NowNode(u, i) => NowNode(u, k)
  <2>1. k \in 1 .. N /\ i \in 1 .. N
    BY <1>2, <1>17, EdgeFacts
  <2>2. k > Lo(t).num_nodes /\ up[k] = i /\ pos[k] = j /\ (NowNode(t, i) => NowNode(t, k))
    BY <1>13, <1>17 DEF Hangs
  <2>3. k # N + 1
    BY <1>7, <2>1
  <2>4. up2[k] = i /\ pos2[k] = IF i = m /\ j >= p THEN j + 1 ELSE j
    BY <1>14, <2>2, <2>3
  <2>5. NowNode(u, i) => NowNode(u, k)
    BY <1>7, <1>16, <2>1, <2>2 DEF NowNode
  <2> QED  BY <2>1, <2>2, <2>4, <2>5
<1>18. ASSUME NEW i \in Nat, NEW j \in Nat, NEW k \in Nat, Edge(u, i, j, k)
       PROVE  /\ k > Lo(u).num_nodes
              /\ up2[k] = i /\ pos2[k] = j
              /\ NowNode(u, i) => NowNode(u, k)
  <2>1. i \in Lo(t).num_nodes + 1 .. N + 1 /\ j \in DOMAIN u.nodes[i].children.list
        /\ u.nodes[i].children.list[j].index = k /\ Own(u.nodes[i])
    BY <1>6, <1>7, <1>18 DEF Edge, Points
  <2>2. i # N + 1
    <3> SUFFICES ASSUME i = N + 1 PROVE FALSE
      OBVIOUS
    <3>1. u.nodes[i].children.list = <<>>
      BY <1>6, <1>15
    <3>2. j \in DOMAIN <<>>
      BY <2>1, <3>1
    <3> QED  BY <3>2
  <2>3. i \in 1 .. N /\ i \in Lo(t).num_nodes + 1 .. N
    <3>1. i \in Lo(t).num_nodes + 1 .. N + 1
      BY <2>1
    <3>2. N \in Nat /\ Lo(t).num_nodes \in 0 .. N
      BY <1>7
    <3> QED  BY <2>2, <3>1, <3>2
  <2>4. CASE i # m
    <3>1. Edge(t, i, j, k)
      BY <1>2, <1>12, <2>1, <2>3, <2>4 DEF Edge, Points
    <3> QED  BY <1>7, <1>17, <2>4, <3>1
  <2>5. CASE i = m
    <3>1. j \in 1 .. K + 1 /\ L[j].index = k
      BY <1>9, <1>11, <2>1, <2>5
    <3>2. CASE j < p
      <4>1. L[j] = old[j] /\ j \in 1 .. K
        BY <1>4, <1>8, <1>9, <3>1, <3>2
      <4>2. Edge(t, i, j, k)
        BY <1>4, <2>5, <3>1, <4>1
      <4>3. ~ (j >= p)
        BY <1>4, <1>9, <3>2
      <4> QED  BY <1>7, <1>17, <4>2, <4>3
    <3>3. CASE j = p
      <4>1. k = N + 1
        BY <1>8, <1>9, <3>1, <3>3 DEF Child
      <4>2. up2[k] = m /\ pos2[k] = p /\ k > Lo(t).num_nodes
        BY <1>7, <1>14, <4>1
      <4>3. NowNode(u, k)
        BY <1>6, <1>7, <1>15, <4>1 DEF NowNode
      <4> QED  BY <1>7, <2>5, <3>3, <4>2, <4>3
    <3>4. CASE j > p
      <4>1. L[j] = old[j - 1] /\ j - 1 \in 1 .. K /\ j - 1 \in Nat
        BY <1>4, <1>8, <1>9, <3>1, <3>4
      <4>2. Edge(t, i, j - 1, k)
        BY <1>4, <2>5, <3>1, <4>1
      <4>3. j - 1 >= p /\ (j - 1) + 1 = j
        BY <1>4, <1>9, <3>4
      <4>4. /\ k > Lo(t).num_nodes /\ up2[k] = i
            /\ pos2[k] = IF i = m /\ j - 1 >= p THEN (j - 1) + 1 ELSE j - 1
            /\ NowNode(u, i) => NowNode(u, k)
        BY <1>17, <4>1, <4>2
      <4> QED  BY <1>7, <2>5, <4>3, <4>4
    <3> QED  BY <1>9, <3>1, <3>2, <3>3, <3>4
  <2> QED  BY <2>4, <2>5
<1>19. Root(u) # None => Root(u) \in Mine(u) /\ NowNode(u, Root(u)) /\ up2[Root(u)] = 0
  <2> SUFFICES ASSUME Root(t) # None
               PROVE  Root(t) \in Mine(u) /\ NowNode(u, Root(t)) /\ up2[Root(t)] = 0
    BY <1>5, <1>6
  <2>1. Root(t) \in Mine(t) /\ NowNode(t, Root(t)) /\ up[Root(t)] = 0
    BY <1>13 DEF Hangs
  <2>2. Root(t) \in 1 .. N /\ Root(t) \in Mine(u) /\ Root(t) \in Nat /\ Root(t) # N + 1
    BY <1>2, <1>6, <1>7, <2>1 DEF Mine
  <2> QED  BY <1>7, <1>14, <1>16, <2>1, <2>2 DEF NowNode
<1>20. Hangs(u, up2, pos2)
  BY <1>18, <1>19 DEF Hangs
<1>21. ASSUME NEW i \in Lo(t).num_nodes + 1 .. Len(u.nodes)
       PROVE  /\ NodeOK(u.nodes[i], Len(u.nodes), Len(t.entries), Current(t))
              /\ OwnNode(u.nodes[i], Current(t), Lo(t))
  <2>1. CASE i = N + 1
    BY <1>6, <2>1, LeafFacts
  <2>2. CASE i = m
    BY <1>6, <1>11, <2>2
  <2>3. CASE i # N + 1 /\ i # m
    <3>1. i \in Mine(t) /\ i \in 1 .. N
      BY <1>2, <1>6, <1>7, <2>3 DEF Mine
    <3>2. NodeOK(t.nodes[i], N, Len(t.entries), Current(t)) /\ OwnNode(t.nodes[i], Current(t), Lo(t))
      BY <1>2, <3>1, MyNode
    <3>3. N + 1 \in Nat /\ N <= N + 1 /\ Len(t.entries) <= Len(t.entries)
      BY <1>7
    <3>4. NodeOK(t.nodes[i], N + 1, Len(t.entries), Current(t))
      BY <1>7, <3>2, <3>3, MoreRoom
    <3> QED  BY <1>6, <1>12, <2>3, <3>1, <3>2, <3>4
  <2> QED  BY <2>1, <2>2, <2>3
<1>22. /\ Len(t.nodes) <= Len(u.nodes)
       /\ \A i \in 1 .. Lo(t).num_nodes : u.nodes[i] = t.nodes[i]
  <2>1. N <= N + 1 /\ \A i \in 1 .. Lo(t).num_nodes : i \in 1 .. N /\ i # m
    BY <1>3, <1>7
  <2> QED  BY <1>2, <1>6, <1>12, <2>1
<1>23. u.entries = t.entries /\ u.values = t.values /\ u.borrowed_values = t.borrowed_values
  BY <1>5, <1>6
<1> QED  BY <1>6, <1>7, <1>20, <1>21, <1>22, <1>23, Rewire

(* The same for all nodes but one, which keeps its generation. *)
KeepsBut(t, u, m) ==
  /\ Root(u) = Root(t)
  /\ Lo(u) = Lo(t)
  /\ Current(u) = Current(t)
  /\ Len(t.nodes) <= Len(u.nodes)
  /\ \A i \in 1 .. Len(t.nodes) :
       /\ u.nodes[i].generation = t.nodes[i].generation
       /\ i # m /\ Own(t.nodes[i]) => u.nodes[i].children = t.nodes[i].children

(* A child taken out of a list. *)
LEMMA RemoveListGood ==
  ASSUME NEW t, TrieInv(t), NEW m \in Mine(t), Own(t.nodes[m]),
         NEW p \in 1 .. Len(t.nodes[m].children.list),
         NEW L, L = RemoveAt(t.nodes[m].children.list, p),
         NEW u, u = SetList(t, m, L)
  PROVE  Good(t, u) /\ KeepsBut(t, u, m) /\ Own(u.nodes[m])
<1>1. IsTrie(t) /\ Bounds(t)
  BY Now
<1>2. PICK N, K, old : N = Len(t.nodes) /\ old = t.nodes[m].children.list /\ K = Len(old)
  OBVIOUS
<1>3. /\ m \in 1 .. N /\ m \in Nat /\ m > Lo(t).num_nodes /\ m \notin 1 .. Lo(t).num_nodes /\ IsSeq(old)
      /\ t.nodes[m] = MutableNode(t.nodes[m].generation, t.nodes[m].value, t.nodes[m].path,
                                  t.nodes[m].children, t.nodes[m].origin)
  BY <1>2, MyNode
<1>4. /\ t.nodes[m].children = Owned(t.nodes[m].children.generation, old)
      /\ K \in Nat /\ DOMAIN old = 1 .. K
      /\ \A j \in 1 .. K : old[j] = Child(old[j].key, old[j].index) /\ old[j].index \in 1 .. N
      /\ \A j \in 1 .. K : Edge(t, m, j, old[j].index)
  BY <1>2, OwnList
<1>5. /\ IsTrie(u) /\ SameGenerations(t, u) /\ Root(u) = Root(t)
      /\ u.entries = t.entries /\ u.values = t.values
      /\ u.borrowed_values = t.borrowed_values
      /\ Len(u.nodes) = N
      /\ \A i \in 1 .. N : i # m => u.nodes[i] = t.nodes[i]
      /\ u.nodes[m] = MutableNode(t.nodes[m].generation, t.nodes[m].value, t.nodes[m].path,
                                  Owned(t.nodes[m].children.generation, L), t.nodes[m].origin)
  BY <1>1, <1>2, <1>3, <1>4, SetListFacts
<1>7. /\ Lo(u) = Lo(t) /\ Current(u) = Current(t)
      /\ N \in Nat /\ Lo(t).num_nodes \in 0 .. N /\ Len(t.entries) \in Nat
  BY <1>1, <1>2, <1>5 DEF SameGenerations, Bounds
<1>8. /\ IsSeq(L) /\ Len(L) = K - 1
      /\ \A i \in 1 .. K - 1 : L[i] = IF i < p THEN old[i] ELSE old[i + 1]
  <2>1. L = RemoveAt(old, p) /\ p \in 1 .. Len(old) /\ IsSeq(old)
    BY <1>2, <1>3
  <2>2. /\ IsSeq(L) /\ Len(L) = Len(old) - 1
        /\ \A i \in 1 .. Len(old) - 1 : L[i] = IF i < p THEN old[i] ELSE old[i + 1]
    BY <2>1, SeqRemoveAt
  <2> QED  BY <1>2, <2>2
<1>9. p \in 1 .. K /\ DOMAIN L = 1 .. K - 1
  BY <1>2, <1>8, SeqDomain
<1>10. IsList(L, N)
  <2>1. ASSUME NEW j \in 1 .. K - 1 PROVE L[j] \in {old[i] : i \in 1 .. K}
    <3>1. CASE j < p
      <4>1. L[j] = old[j] /\ j \in 1 .. K
        BY <1>4, <1>8, <3>1
      <4> QED  BY <4>1
    <3>2. CASE ~ (j < p)
      <4>1. L[j] = old[j + 1] /\ j + 1 \in 1 .. K
        BY <1>4, <1>8, <3>2
      <4> QED  BY <4>1
    <3> QED  BY <3>1, <3>2
  <2>2. \A j \in DOMAIN L : L[j] = Child(L[j].key, L[j].index) /\ L[j].index \in 1 .. N
    BY <1>4, <1>9, <2>1
  <2> QED  BY <1>8, <2>2 DEF IsList
<1>11. /\ NodeOK(u.nodes[m], N, Len(t.entries), Current(t)) /\ OwnNode(u.nodes[m], Current(t), Lo(t))
       /\ Own(u.nodes[m]) /\ u.nodes[m].children.list = L /\ u.nodes[m].generation = t.nodes[m].generation
  <2>1. u.nodes[m] = MutableNode(t.nodes[m].generation, t.nodes[m].value, t.nodes[m].path,
                                 Owned(t.nodes[m].children.generation, L), t.nodes[m].origin)
    BY <1>5
  <2>2. PICK x : x = u.nodes[m]
    OBVIOUS
  <2>3. x = MutableNode(t.nodes[m].generation, t.nodes[m].value, t.nodes[m].path,
                        Owned(t.nodes[m].children.generation, L), t.nodes[m].origin)
    BY <2>1, <2>2
  <2>4. /\ NodeOK(x, N, Len(t.entries), Current(t)) /\ OwnNode(x, Current(t), Lo(t))
        /\ Own(x) /\ x.children.list = L /\ x.generation = t.nodes[m].generation
    BY <1>10, <2>3, ListNode
  <2> QED  BY <2>2, <2>4
<1>13. PICK up, pos : Hangs(t, up, pos)
  BY Hanging
<1>14. PICK pos2 : pos2 = [k \in Nat |-> IF up[k] = m /\ pos[k] > p THEN pos[k] - 1 ELSE pos[k]]
  OBVIOUS
<1>16. \A i \in 1 .. N : u.nodes[i].generation = t.nodes[i].generation
  BY <1>5, <1>11
<1>17. ASSUME NEW i \in Nat, NEW j \in Nat, NEW k \in Nat, Edge(t, i, j, k)
       PROVE  /\ k > Lo(t).num_nodes
              /\ up[k] = i
              /\ pos2[k] = IF i = m /\ j > p THEN j - 1 ELSE j
              /\ NowNode(u, i) => NowNode(u, k)
  <2>1. k \in 1 .. N /\ i \in 1 .. N
    BY <1>2, <1>17, EdgeFacts
  <2>2. k > Lo(t).num_nodes /\ up[k] = i /\ pos[k] = j /\ (NowNode(t, i) => NowNode(t, k))
    BY <1>13, <1>17 DEF Hangs
  <2>4. pos2[k] = IF i = m /\ j > p THEN j - 1 ELSE j
    BY <1>14, <2>2
  <2>5. NowNode(u, i) => NowNode(u, k)
    BY <1>7, <1>16, <2>1, <2>2 DEF NowNode
  <2> QED  BY <2>2, <2>4, <2>5
<1>18. ASSUME NEW i \in Nat, NEW j \in Nat, NEW k \in Nat, Edge(u, i, j, k)
       PROVE  /\ k > Lo(u).num_nodes
              /\ up[k] = i /\ pos2[k] = j
              /\ NowNode(u, i) => NowNode(u, k)
  <2>1. i \in Lo(t).num_nodes + 1 .. N /\ j \in DOMAIN u.nodes[i].children.list
        /\ u.nodes[i].children.list[j].index = k /\ Own(u.nodes[i])
    BY <1>5, <1>7, <1>18 DEF Edge, Points
  <2>3. i \in 1 .. N
    <3>1. i \in Lo(t).num_nodes + 1 .. N
      BY <2>1
    <3> QED  BY <1>7, <3>1
  <2>4. CASE i # m
    <3>1. Edge(t, i, j, k)
      BY <1>2, <1>5, <2>1, <2>3, <2>4 DEF Edge, Points
    <3>2. pos2[k] = j
      BY <1>17, <2>4, <3>1
    <3> QED  BY <1>7, <1>17, <3>1, <3>2
  <2>5. CASE i = m
    <3>1. j \in 1 .. K - 1 /\ L[j].index = k
      BY <1>9, <1>11, <2>1, <2>5
    <3>2. CASE j < p
      <4>1. L[j] = old[j] /\ j \in 1 .. K
        BY <1>4, <1>8, <1>9, <3>1, <3>2
      <4>2. Edge(t, i, j, k)
        BY <1>4, <2>5, <3>1, <4>1
      <4>3. ~ (j > p)
        BY <1>4, <1>9, <3>2
      <4> QED  BY <1>7, <1>17, <4>2, <4>3
    <3>4. CASE ~ (j < p)
      <4>1. L[j] = old[j + 1] /\ j + 1 \in 1 .. K /\ j + 1 \in Nat
        BY <1>4, <1>8, <1>9, <3>1, <3>4
      <4>2. Edge(t, i, j + 1, k)
        BY <1>4, <2>5, <3>1, <4>1
      <4>3. j + 1 > p /\ (j + 1) - 1 = j
        BY <1>4, <1>9, <3>4
      <4>4. /\ k > Lo(t).num_nodes /\ up[k] = i
            /\ pos2[k] = IF i = m /\ j + 1 > p THEN (j + 1) - 1 ELSE j + 1
            /\ NowNode(u, i) => NowNode(u, k)
        BY <1>17, <4>1, <4>2
      <4> QED  BY <1>7, <2>5, <4>3, <4>4
    <3> QED  BY <3>2, <3>4
  <2> QED  BY <2>4, <2>5
<1>19. Root(u) # None => Root(u) \in Mine(u) /\ NowNode(u, Root(u)) /\ up[Root(u)] = 0
  <2> SUFFICES ASSUME Root(t) # None
               PROVE  Root(t) \in Mine(u) /\ NowNode(u, Root(t)) /\ up[Root(t)] = 0
    BY <1>5
  <2>1. Root(t) \in Mine(t) /\ NowNode(t, Root(t)) /\ up[Root(t)] = 0
    BY <1>13 DEF Hangs
  <2>2. Root(t) \in 1 .. N /\ Root(t) \in Mine(u)
    BY <1>2, <1>5, <1>7, <2>1 DEF Mine
  <2> QED  BY <1>7, <1>16, <2>1, <2>2 DEF NowNode
<1>20. Hangs(u, up, pos2)
  BY <1>18, <1>19 DEF Hangs
<1>21. ASSUME NEW i \in Lo(t).num_nodes + 1 .. Len(u.nodes)
       PROVE  /\ NodeOK(u.nodes[i], Len(u.nodes), Len(t.entries), Current(t))
              /\ OwnNode(u.nodes[i], Current(t), Lo(t))
  <2>2. CASE i = m
    BY <1>5, <1>11, <2>2
  <2>3. CASE i # m
    <3>1. i \in Mine(t) /\ i \in 1 .. N
      BY <1>2, <1>5, <1>7, <2>3 DEF Mine
    <3>2. NodeOK(t.nodes[i], N, Len(t.entries), Current(t)) /\ OwnNode(t.nodes[i], Current(t), Lo(t))
      BY <1>2, <3>1, MyNode
    <3> QED  BY <1>5, <2>3, <3>1, <3>2
  <2> QED  BY <2>2, <2>3
<1>22. /\ Len(t.nodes) <= Len(u.nodes)
       /\ \A i \in 1 .. Lo(t).num_nodes : u.nodes[i] = t.nodes[i]
  <2>1. N <= N /\ \A i \in 1 .. Lo(t).num_nodes : i \in 1 .. N /\ i # m
    BY <1>3, <1>7
  <2> QED  BY <1>2, <1>5, <2>1
<1>23. Good(t, u)
  BY <1>5, <1>20, <1>21, <1>22, Rewire
<1>24. KeepsBut(t, u, m)
  BY <1>2, <1>5, <1>7, <1>16, <1>22 DEF KeepsBut
<1> QED  BY <1>11, <1>23, <1>24

-----------------------------------------------------------------------------
(* The trail of a walk.                                                    *)

(* The nodes from the root to the node where the walk is. *)
Stop(trail, node, j) == IF j = Len(trail) + 1 THEN node ELSE trail[j].node

TrailOK(t, trail, node) ==
  /\ IsSeq(trail)
  /\ \A j \in 1 .. Len(trail) + 1 : Stop(trail, node, j) \in Mine(t) /\ NowNode(t, Stop(trail, node, j))
  /\ \A j \in 1 .. Len(trail) : Edge(t, trail[j].node, trail[j].child, Stop(trail, node, j + 1))
  /\ \A i, j \in 1 .. Len(trail) + 1 : i < j => Stop(trail, node, i) # Stop(trail, node, j)
  /\ Root(t) # None /\ Stop(trail, node, 1) = Root(t)

(* The nodes of a trail are different nodes of the current generation. *)
LEMMA TrailNode ==
  ASSUME NEW t, NEW trail, NEW node, TrailOK(t, trail, node)
  PROVE  /\ IsSeq(trail) /\ Len(trail) \in Nat
         /\ node \in Mine(t) /\ NowNode(t, node)
         /\ \A j \in 1 .. Len(trail) : /\ trail[j].node \in Mine(t) /\ NowNode(t, trail[j].node)
                                       /\ trail[j].node # node
         /\ trail = <<>> => node = Root(t)
         /\ trail # <<>> => /\ Last(trail).node \in Mine(t) /\ Last(trail).node # node
                            /\ NowNode(t, Last(trail).node)
                            /\ Edge(t, Last(trail).node, Last(trail).child, node)
<1>1. IsSeq(trail) /\ Len(trail) \in Nat
  BY SeqDomain DEF TrailOK
<1>2. PICK n : n = Len(trail)
  OBVIOUS
<1>3. n \in Nat /\ n + 1 \in 1 .. n + 1 /\ Stop(trail, node, n + 1) = node
  BY <1>1, <1>2 DEF Stop
<1>4. node \in Mine(t) /\ NowNode(t, node)
  BY <1>2, <1>3 DEF TrailOK
<1>5. ASSUME NEW j \in 1 .. n
      PROVE  /\ trail[j].node \in Mine(t) /\ NowNode(t, trail[j].node)
             /\ trail[j].node # node
  <2>1. j \in 1 .. n + 1 /\ j < n + 1 /\ Stop(trail, node, j) = trail[j].node
    BY <1>2, <1>3 DEF Stop
  <2> QED  BY <1>2, <1>3, <2>1 DEF TrailOK
<1>6. trail = <<>> => node = Root(t)
  <2> SUFFICES ASSUME trail = <<>> PROVE node = Root(t)
    OBVIOUS
  <2>1. n = 0
    BY <1>2, SeqSmall
  <2>2. Stop(trail, node, 1) = node
    BY <1>2, <2>1 DEF Stop
  <2> QED  BY <2>2 DEF TrailOK
<1>7. ASSUME trail # <<>>
      PROVE  /\ Last(trail).node \in Mine(t) /\ Last(trail).node # node
             /\ NowNode(t, Last(trail).node)
             /\ Edge(t, Last(trail).node, Last(trail).child, node)
  <2>1. n \in Nat \ {0} /\ Last(trail) = trail[n]
    BY <1>1, <1>2, <1>7, SeqFront
  <2>2. n \in 1 .. n
    BY <2>1
  <2>3. Edge(t, trail[n].node, trail[n].child, node)
    BY <1>2, <1>3, <2>2 DEF TrailOK
  <2> QED  BY <1>5, <2>1, <2>2, <2>3
<1> QED  BY <1>1, <1>2, <1>4, <1>5, <1>6, <1>7

(* The trail to the parent. *)
LEMMA TrailUp ==
  ASSUME NEW t, NEW trail, NEW node, TrailOK(t, trail, node), trail # <<>>
  PROVE  TrailOK(t, Front(trail), Last(trail).node)
<1>1. PICK n, f, m : n = Len(trail) /\ f = Front(trail) /\ m = Last(trail).node
  OBVIOUS
<1>2. /\ n \in Nat \ {0} /\ m = trail[n].node /\ IsSeq(f) /\ Len(f) = n - 1
      /\ \A i \in 1 .. n - 1 : f[i] = trail[i]
  BY <1>1, SeqFront DEF TrailOK
<1>3. \A j \in 1 .. n : Stop(f, m, j) = Stop(trail, node, j)
  BY <1>1, <1>2 DEF Stop
<1>4. ASSUME NEW j \in 1 .. n - 1
      PROVE  Edge(t, f[j].node, f[j].child, Stop(f, m, j + 1))
  <2>1. j \in 1 .. n /\ j + 1 \in 1 .. n /\ f[j] = trail[j]
    BY <1>2
  <2> QED  BY <1>1, <1>3, <2>1 DEF TrailOK
<1>5. \A j \in 1 .. n : Stop(f, m, j) \in Mine(t) /\ NowNode(t, Stop(f, m, j))
  <2>1. \A j \in 1 .. n : j \in 1 .. n + 1
    BY <1>2
  <2> QED  BY <1>1, <1>3, <2>1 DEF TrailOK
<1>6. \A i, j \in 1 .. n : i < j => Stop(f, m, i) # Stop(f, m, j)
  <2>1. \A j \in 1 .. n : j \in 1 .. n + 1
    BY <1>2
  <2> QED  BY <1>1, <1>3, <2>1 DEF TrailOK
<1>7. Stop(f, m, 1) = Root(t)
  <2>1. 1 \in 1 .. n
    BY <1>2
  <2> QED  BY <1>3, <2>1 DEF TrailOK
<1>8. Len(f) + 1 = n
  BY <1>2
<1>9. TrailOK(t, f, m)
  BY <1>2, <1>4, <1>5, <1>6, <1>7, <1>8 DEF TrailOK
<1> QED  BY <1>1, <1>9

(* The trail is still there after changes elsewhere, and below its end. *)
LEMMA TrailKeeps ==
  ASSUME NEW t, NEW u, NEW trail, NEW node, TrieInv(t), TrieInv(u), TrailOK(t, trail, node),
         KeepsBut(t, u, node)
  PROVE  TrailOK(u, trail, node)
<1>1. Bounds(t) /\ Bounds(u)
  BY Now
<1>2. PICK n : n = Len(trail)
  OBVIOUS
<1>3. n \in Nat /\ IsSeq(trail)
  BY <1>2, TrailNode
<1>4. \A i \in Mine(t) : i \in Mine(u) /\ i \in 1 .. Len(t.nodes) /\ (NowNode(t, i) => NowNode(u, i))
  <2>1. \A i \in Mine(t) : i \in Mine(u) /\ i \in 1 .. Len(t.nodes)
    BY <1>1 DEF Bounds, Mine, KeepsBut
  <2> QED  BY <2>1 DEF NowNode, KeepsBut
<1>5. \A j \in 1 .. n + 1 : Stop(trail, node, j) \in Mine(u) /\ NowNode(u, Stop(trail, node, j))
  BY <1>2, <1>4 DEF TrailOK
<1>6. ASSUME NEW j \in 1 .. n
      PROVE  Edge(u, trail[j].node, trail[j].child, Stop(trail, node, j + 1))
  <2>1. PICK i, c, k : i = trail[j].node /\ c = trail[j].child /\ k = Stop(trail, node, j + 1)
    OBVIOUS
  <2>2. Edge(t, i, c, k) /\ i # node /\ i \in Mine(t)
    <3>1. Edge(t, i, c, k)
      BY <1>2, <2>1 DEF TrailOK
    <3>2. \A l \in 1 .. Len(trail) : trail[l].node \in Mine(t) /\ trail[l].node # node
      BY TrailNode
    <3> QED  BY <1>2, <2>1, <3>1, <3>2
  <2>3. i \in 1 .. Len(t.nodes) /\ i \in Mine(u)
    BY <1>4, <2>2
  <2>4. Own(t.nodes[i]) /\ c \in DOMAIN t.nodes[i].children.list /\ t.nodes[i].children.list[c].index = k
    BY <2>2 DEF Edge, Points
  <2>5. u.nodes[i].children = t.nodes[i].children /\ u.nodes[i].generation = t.nodes[i].generation
    BY <2>2, <2>3, <2>4 DEF KeepsBut
  <2>6. Edge(u, i, c, k)
    BY <2>3, <2>4, <2>5 DEF Edge, Points, Own, Mine
  <2> QED  BY <2>1, <2>6
<1> QED  BY <1>2, <1>3, <1>5, <1>6 DEF TrailOK, KeepsBut

-----------------------------------------------------------------------------
(* Putting another node in the place where a trail ends.                   *)

(* The list with child c pointing to r. *)
Relisted(L, old, c, r) ==
  /\ IsSeq(L) /\ Len(L) = Len(old)
  /\ \A j \in 1 .. Len(old) : L[j] = IF j = c THEN Child(old[c].key, r) ELSE old[j]

(* An updated list of children. *)
LEMMA RelistedUpd ==
  ASSUME NEW old, NEW c, NEW r, NEW e, IsSeq(old), e = Child(old[c].key, r)
  PROVE  Relisted(Upd(old, c, e), old, c, r)
<1>1. /\ IsSeq(Upd(old, c, e))
      /\ Len(Upd(old, c, e)) = Len(old)
      /\ \A j \in 1 .. Len(old) : Upd(old, c, e)[j] = IF j = c THEN e ELSE old[j]
  BY SeqExcept
<1> QED  BY <1>1 DEF Relisted

IsChild(x) == x = Child(x.key, x.index)

(* A child with another index. *)
LEMMA ChildExcept ==
  ASSUME NEW x, NEW r, NEW e, IsChild(x), e = [x EXCEPT !.index = r]
  PROVE  e = Child(x.key, r)
BY DEF IsChild, Child

(* The trail is not empty, and its last step goes from m to its child c. *)
EndsAt(trail, m, c) == trail # <<>> /\ m = Last(trail).node /\ c = Last(trail).child

(* Repoint below the root updates one list. *)
LEMMA RepointList ==
  ASSUME NEW v, NEW trail, NEW m, NEW c, NEW r, NEW e, EndsAt(trail, m, c),
         e = [v.nodes[m].children.list[c] EXCEPT !.index = r]
  PROVE  Repoint(v, trail, r) = SetList(v, m, Upd(v.nodes[m].children.list, c, e))
<1>1. Repoint(v, trail, r) = [v EXCEPT !.nodes[m].children.list[c].index = r]
  BY Zenon DEF Repoint, EndsAt
<1> QED  BY <1>1, Zenon DEF SetList, Upd

(* Every edge but the one from child c of m. *)
HangsBut(v, up, pos, m, c) ==
  \A i, j, k \in Nat : Edge(v, i, j, k) /\ ~ (i = m /\ j = c) =>
    /\ k > Lo(v).num_nodes
    /\ up[k] = i /\ pos[k] = j
    /\ NowNode(v, i) => NowNode(v, k)

(* The nodes of v are good ones for the current generation of t. *)
NodesFor(t, v) ==
  /\ Len(t.nodes) <= Len(v.nodes)
  /\ \A i \in 1 .. Lo(t).num_nodes : v.nodes[i] = t.nodes[i]
  /\ \A i \in Lo(t).num_nodes + 1 .. Len(v.nodes) :
       /\ NodeOK(v.nodes[i], Len(v.nodes), Len(t.entries), Current(t))
       /\ OwnNode(v.nodes[i], Current(t), Lo(t))
SameValues(t, v) == v.entries = t.entries /\ v.values = t.values /\ v.borrowed_values = t.borrowed_values

(* The root is replaced. *)
LEMMA RelinkRoot ==
  ASSUME NEW t, NEW v, TrieInv(t), IsTrie(v), SameGenerations(t, v), SameValues(t, v), NodesFor(t, v),
         NEW r \in Mine(v), NowNode(v, r), NEW up, NEW pos, HangsBut(v, up, pos, 0, 0), up[r] = 0,
         NEW u, u = WithRoot(v, r)
  PROVE  Good(t, u)
<1>1. Bounds(t)
  BY Now
<1>2. /\ IsTrie(u) /\ SameGenerations(v, u) /\ Root(u) = r
      /\ u.nodes = v.nodes /\ u.entries = v.entries /\ u.values = v.values
      /\ u.borrowed_values = v.borrowed_values
  BY WithRootFacts
<1>3. SameGenerations(t, u) /\ Lo(u) = Lo(v) /\ Lo(v) = Lo(t) /\ Current(u) = Current(v) /\ Current(v) = Current(t)
  BY <1>2 DEF SameGenerations
<1>4. ASSUME NEW i \in Nat, NEW j \in Nat, NEW k \in Nat, Edge(u, i, j, k)
      PROVE  /\ k > Lo(u).num_nodes
             /\ up[k] = i /\ pos[k] = j
             /\ NowNode(u, i) => NowNode(u, k)
  <2>1. Edge(v, i, j, k)
    BY <1>2, <1>3, <1>4 DEF Edge
  <2>2. i \in Lo(t).num_nodes + 1 .. Len(v.nodes)
    BY <1>3, <2>1 DEF Edge, Points
  <2>3. i # 0
    BY <1>1, <2>2 DEF Bounds
  <2>4. /\ k > Lo(v).num_nodes
        /\ up[k] = i /\ pos[k] = j
        /\ NowNode(v, i) => NowNode(v, k)
    BY <2>1, <2>3 DEF HangsBut
  <2> QED  BY <1>2, <1>3, <2>4 DEF NowNode
<1>5. Root(u) \in Mine(u) /\ NowNode(u, Root(u)) /\ up[Root(u)] = 0
  BY <1>2, <1>3 DEF Mine, NowNode
<1>6. Hangs(u, up, pos)
  BY <1>4, <1>5 DEF Hangs
<1>7. /\ Len(t.nodes) <= Len(u.nodes)
      /\ \A i \in 1 .. Lo(t).num_nodes : u.nodes[i] = t.nodes[i]
      /\ \A i \in Lo(t).num_nodes + 1 .. Len(u.nodes) :
           /\ NodeOK(u.nodes[i], Len(u.nodes), Len(t.entries), Current(t))
           /\ OwnNode(u.nodes[i], Current(t), Lo(t))
  BY <1>2 DEF NodesFor
<1>8. u.entries = t.entries /\ u.values = t.values /\ u.borrowed_values = t.borrowed_values
  BY <1>2 DEF SameValues
<1> QED  BY <1>2, <1>3, <1>6, <1>7, <1>8, Rewire

(* The child at the end of a trail is replaced. *)
LEMMA RelinkChild ==
  ASSUME NEW t, NEW v, TrieInv(t), IsTrie(v), SameGenerations(t, v), SameValues(t, v), NodesFor(t, v),
         Root(v) = Root(t), NEW x, NEW trail, TrailOK(t, trail, x),
         NEW m, NEW c, EndsAt(trail, m, c),
         v.nodes[m] = t.nodes[m],
         NEW r \in Mine(v), NowNode(v, r),
         NEW up, NEW pos, HangsBut(v, up, pos, m, c), up[r] = m, pos[r] = c,
         Root(t) # None => NowNode(v, Root(t)) /\ up[Root(t)] = 0,
         NEW u, u = Repoint(v, trail, r)
  PROVE  Good(t, u)
<1>1. Bounds(t)
  BY Now
<1>2. Edge(t, m, c, x) /\ m \in Mine(t)
  BY TrailNode DEF EndsAt
<1>3. PICK old, N, K : old = t.nodes[m].children.list /\ N = Len(v.nodes) /\ K = Len(old)
  OBVIOUS
<1>4. /\ m \in 1 .. Len(t.nodes) /\ m \in Nat /\ m > Lo(t).num_nodes /\ m \notin 1 .. Lo(t).num_nodes
      /\ t.nodes[m] = MutableNode(t.nodes[m].generation, t.nodes[m].value, t.nodes[m].path,
                                  t.nodes[m].children, t.nodes[m].origin)
      /\ IsSeq(old)
  BY <1>2, <1>3, MyNode
<1>5. Own(t.nodes[m]) /\ c \in DOMAIN old
  BY <1>2, <1>3 DEF Edge, Points
<1>6. /\ t.nodes[m].children = Owned(t.nodes[m].children.generation, old)
      /\ K \in Nat /\ DOMAIN old = 1 .. K
      /\ \A j \in 1 .. K : old[j] = Child(old[j].key, old[j].index) /\ old[j].index \in 1 .. Len(t.nodes)
      /\ \A j \in 1 .. K : Edge(t, m, j, old[j].index)
  <2>1. m \in Mine(t) /\ Own(t.nodes[m])
    BY <1>2, <1>5
  <2>2. /\ t.nodes[m].children = Owned(t.nodes[m].generation, t.nodes[m].children.list)
        /\ t.nodes[m].children.generation = t.nodes[m].generation
        /\ DOMAIN t.nodes[m].children.list = 1 .. Len(t.nodes[m].children.list)
        /\ Len(t.nodes[m].children.list) \in Nat
    BY <2>1, OwnList
  <2>3. \A j \in 1 .. Len(t.nodes[m].children.list) :
          /\ t.nodes[m].children.list[j] = Child(t.nodes[m].children.list[j].key,
                                                 t.nodes[m].children.list[j].index)
          /\ t.nodes[m].children.list[j].index \in 1 .. Len(t.nodes)
          /\ Edge(t, m, j, t.nodes[m].children.list[j].index)
    BY <2>1, OwnList
  <2> QED  BY <1>3, <2>2, <2>3
<1>7. /\ N \in Nat /\ Len(t.nodes) \in Nat /\ Len(t.nodes) <= N /\ Lo(t).num_nodes \in 0 .. Len(t.nodes)
      /\ r \in Lo(t).num_nodes + 1 .. N /\ Lo(v) = Lo(t) /\ Current(v) = Current(t)
  <2>1. Len(v.nodes) \in Nat
    BY LengthsFacts DEF IsCheckpoint
  <2> QED  BY <1>1, <1>3, <2>1 DEF Bounds, NodesFor, Mine, SameGenerations
<1>8. PICK L : /\ IsSeq(L) /\ Len(L) = K
               /\ \A j \in 1 .. K : L[j] = IF j = c THEN Child(old[c].key, r) ELSE old[j]
               /\ u = SetList(v, m, L)
  <2>1. PICK e : e = [old[c] EXCEPT !.index = r]
    OBVIOUS
  <2>2. IsChild(old[c])
    BY <1>5, <1>6 DEF IsChild
  <2>3. e = Child(old[c].key, r)
    BY <2>1, <2>2, ChildExcept
  <2>4. PICK L1 : L1 = Upd(old, c, e)
    OBVIOUS
  <2>5. Relisted(L1, old, c, r)
    BY <1>4, <2>3, <2>4, RelistedUpd
  <2>6. u = SetList(v, m, L1)
    <3>1. v.nodes[m].children.list = old
      BY <1>3
    <3>2. Repoint(v, trail, r) = SetList(v, m, Upd(v.nodes[m].children.list, c, e))
      BY <2>1, <3>1, RepointList
    <3> QED  BY <2>4, <3>1, <3>2
  <2> QED  BY <1>3, <2>5, <2>6 DEF Relisted
<1>9. DOMAIN L = 1 .. K /\ c \in 1 .. K
  BY <1>5, <1>6, <1>8, SeqDomain
<1>10. IsList(L, N)
  <2>1. ASSUME NEW j \in 1 .. K PROVE L[j] = Child(L[j].key, L[j].index) /\ L[j].index \in 1 .. N
    <3>1. CASE j = c
      <4>1. L[j] = Child(old[c].key, r) /\ r \in 1 .. N
        BY <1>7, <1>8, <3>1
      <4> QED  BY <4>1 DEF Child
    <3>2. CASE j # c
      <4>1. L[j] = old[j]
        BY <1>8, <3>2
      <4>2. L[j] = Child(L[j].key, L[j].index) /\ L[j].index \in 1 .. Len(t.nodes)
        BY <1>6, <4>1
      <4> QED  BY <1>7, <4>2
    <3> QED  BY <3>1, <3>2
  <2> QED  BY <1>8, <1>9, <2>1 DEF IsList
<1>11. /\ IsTrie(u) /\ SameGenerations(v, u) /\ Root(u) = Root(v)
       /\ u.entries = v.entries /\ u.values = v.values
       /\ u.borrowed_values = v.borrowed_values
       /\ Len(u.nodes) = N
       /\ \A i \in 1 .. N : i # m => u.nodes[i] = v.nodes[i]
       /\ u.nodes[m] = MutableNode(t.nodes[m].generation, t.nodes[m].value, t.nodes[m].path,
                                   Owned(t.nodes[m].children.generation, L), t.nodes[m].origin)
  <2>1. m \in 1 .. Len(v.nodes)
    BY <1>3, <1>4, <1>7
  <2>2. /\ v.nodes[m] = MutableNode(v.nodes[m].generation, v.nodes[m].value, v.nodes[m].path,
                                    v.nodes[m].children, v.nodes[m].origin)
        /\ v.nodes[m].children = Owned(v.nodes[m].children.generation, v.nodes[m].children.list)
    BY <1>3, <1>4, <1>6
  <2>3. u = SetList(v, m, L)
    BY <1>8
  <2>4. /\ IsTrie(u) /\ SameGenerations(v, u) /\ Root(u) = Root(v)
        /\ u.entries = v.entries /\ u.values = v.values
        /\ u.borrowed_values = v.borrowed_values
        /\ Len(u.nodes) = Len(v.nodes)
        /\ \A i \in 1 .. Len(v.nodes) : i # m => u.nodes[i] = v.nodes[i]
        /\ u.nodes[m] = MutableNode(v.nodes[m].generation, v.nodes[m].value, v.nodes[m].path,
                                    Owned(v.nodes[m].children.generation, L), v.nodes[m].origin)
    BY <2>1, <2>2, <2>3, SetListFacts
  <2> QED  BY <1>3, <2>4
<1>12. SameGenerations(t, u) /\ Lo(u) = Lo(t) /\ Current(u) = Current(t)
  BY <1>11 DEF SameGenerations
<1>13. /\ NodeOK(u.nodes[m], N, Len(t.entries), Current(t)) /\ OwnNode(u.nodes[m], Current(t), Lo(t))
       /\ Own(u.nodes[m]) /\ u.nodes[m].children.list = L /\ u.nodes[m].generation = t.nodes[m].generation
  <2>1. PICK y : y = u.nodes[m]
    OBVIOUS
  <2>2. y = MutableNode(t.nodes[m].generation, t.nodes[m].value, t.nodes[m].path,
                        Owned(t.nodes[m].children.generation, L), t.nodes[m].origin)
    BY <1>11, <2>1
  <2>3. /\ NodeOK(y, N, Len(t.entries), Current(t)) /\ OwnNode(y, Current(t), Lo(t))
        /\ Own(y) /\ y.children.list = L /\ y.generation = t.nodes[m].generation
    BY <1>2, <1>5, <1>10, <2>2, ListNode
  <2> QED  BY <2>1, <2>3
<1>14. \A i \in 1 .. N : u.nodes[i].generation = v.nodes[i].generation
  BY <1>11, <1>13
<1>15. ASSUME NEW i \in Nat, NEW j \in Nat, NEW k \in Nat, Edge(u, i, j, k)
       PROVE  /\ k > Lo(u).num_nodes
              /\ up[k] = i /\ pos[k] = j
              /\ NowNode(u, i) => NowNode(u, k)
  <2>1. i \in Lo(t).num_nodes + 1 .. N /\ j \in DOMAIN u.nodes[i].children.list
        /\ u.nodes[i].children.list[j].index = k /\ Own(u.nodes[i])
    BY <1>11, <1>12, <1>15 DEF Edge, Points
  <2>2. i \in 1 .. N
    <3>1. i \in Lo(t).num_nodes + 1 .. N
      BY <2>1
    <3> QED  BY <1>7, <3>1
  <2>3. CASE i = m /\ j = c
    <3>1. k = r
      <4>1. L[c].index = k /\ L[c] = Child(old[c].key, r)
        BY <1>8, <1>9, <1>13, <2>1, <2>3
      <4> QED  BY <4>1 DEF Child
    <3>2. r \in 1 .. N /\ r > Lo(t).num_nodes
      BY <1>7
    <3>3. NowNode(u, r)
      BY <1>7, <1>12, <1>14, <3>2 DEF NowNode
    <3> QED  BY <1>12, <2>3, <3>1, <3>2, <3>3
  <2>4. CASE ~ (i = m /\ j = c)
    <3>1. Edge(v, i, j, k)
      <4>1. CASE i = m
        <5>1. j \in 1 .. K /\ L[j] = old[j]
          BY <1>8, <1>9, <1>13, <2>1, <2>4, <4>1
        <5>2. j \in DOMAIN old /\ old[j].index = k
          BY <1>6, <1>13, <2>1, <4>1, <5>1
        <5> QED  BY <1>3, <1>5, <1>7, <2>1, <4>1, <5>2 DEF Edge, Points
      <4>2. CASE i # m
        BY <1>3, <1>7, <1>11, <2>1, <2>2, <4>2 DEF Edge, Points
      <4> QED  BY <4>1, <4>2
    <3>2. /\ k > Lo(v).num_nodes
          /\ up[k] = i /\ pos[k] = j
          /\ NowNode(v, i) => NowNode(v, k)
      BY <2>4, <3>1 DEF HangsBut
    <3>3. k \in 1 .. N
      <4>1. i \in Lo(t).num_nodes + 1 .. Len(v.nodes)
        BY <1>3, <2>1
      <4>2. NodeOK(v.nodes[i], N, Len(t.entries), Current(t))
        BY <1>3, <4>1 DEF NodesFor
      <4>3. ChildrenOK(v.nodes[i].children, N, Current(t))
        BY <4>2 DEF NodeOK
      <4> QED  BY <3>1, <4>3 DEF ChildrenOK, Edge, Points, Own
    <3>4. NowNode(u, i) => NowNode(u, k)
      BY <1>7, <1>12, <1>14, <2>2, <3>2, <3>3 DEF NowNode
    <3> QED  BY <1>7, <1>12, <3>2, <3>4
  <2> QED  BY <2>3, <2>4
<1>16. Root(u) # None => Root(u) \in Mine(u) /\ NowNode(u, Root(u)) /\ up[Root(u)] = 0
  <2> SUFFICES ASSUME Root(t) # None
               PROVE  Root(t) \in Mine(u) /\ NowNode(u, Root(t)) /\ up[Root(t)] = 0
    BY <1>11
  <2>1. Root(t) \in Mine(t)
    BY Hanging DEF Hangs
  <2>2. Root(t) \in Mine(u) /\ Root(t) \in 1 .. N
    BY <1>7, <1>11, <1>12, <2>1 DEF Mine
  <2> QED  BY <1>7, <1>12, <1>14, <2>2 DEF NowNode
<1>17. Hangs(u, up, pos)
  BY <1>15, <1>16 DEF Hangs
<1>18. Len(t.nodes) <= Len(u.nodes) /\ \A i \in 1 .. Lo(t).num_nodes : u.nodes[i] = t.nodes[i]
  <2>1. \A i \in 1 .. Lo(t).num_nodes : i \in 1 .. N /\ i # m
    BY <1>4, <1>7
  <2>2. \A i \in 1 .. Lo(t).num_nodes : v.nodes[i] = t.nodes[i]
    BY DEF NodesFor
  <2> QED  BY <1>7, <1>11, <2>1, <2>2
<1>19. ASSUME NEW i \in Lo(t).num_nodes + 1 .. Len(u.nodes)
       PROVE  /\ NodeOK(u.nodes[i], Len(u.nodes), Len(t.entries), Current(t))
              /\ OwnNode(u.nodes[i], Current(t), Lo(t))
  <2>1. CASE i = m
    BY <1>11, <1>13, <2>1
  <2>2. CASE i # m
    <3>1. i \in Lo(t).num_nodes + 1 .. N
      BY <1>11
    <3>2. i \in 1 .. N
      BY <1>7, <3>1
    <3>3. NodeOK(v.nodes[i], N, Len(t.entries), Current(t)) /\ OwnNode(v.nodes[i], Current(t), Lo(t))
      BY <1>3, <3>1 DEF NodesFor
    <3> QED  BY <1>11, <2>2, <3>2, <3>3
  <2> QED  BY <2>1, <2>2
<1>20. u.entries = t.entries /\ u.values = t.values /\ u.borrowed_values = t.borrowed_values
  BY <1>11 DEF SameValues
<1> QED  BY <1>11, <1>12, <1>17, <1>18, <1>19, <1>20, Rewire

(* A node of this generation that nothing points to. *)
Free(t, k) == k \in Mine(t) /\ NowNode(t, k) /\ k # Root(t) /\ \A i, j \in Nat : ~ Edge(t, i, j, k)

(* The children of a node put above x. *)
WrapList(t, L, x) ==
  /\ IsList(L, Len(t.nodes))
  /\ \A i, j \in DOMAIN L : L[i].index = L[j].index => i = j
  /\ \A j \in DOMAIN L : L[j].index = x \/ Free(t, L[j].index)

IsInner(t, n, L) ==
  /\ n = MutableNode(Current(t) - 1, n.value, n.path, Owned(Current(t) - 1, L), None)
  /\ n.value = None \/ IsEntry(t, n.value)
  /\ IsSeq(n.path)

(* A node with a list of its own is a good node. *)
LEMMA InnerFacts ==
  ASSUME NEW t, TrieInv(t), NEW n, NEW L, IsInner(t, n, L), NEW M \in Nat, IsList(L, M), NEW M2 \in Nat, M <= M2
  PROVE  /\ NodeOK(n, M2, Len(t.entries), Current(t))
         /\ OwnNode(n, Current(t), Lo(t)) /\ Own(n)
         /\ n.children.list = L
         /\ n.generation = Current(t) - 1
<1>1. Bounds(t)
  BY Now
<1>2. /\ n.generation = Current(t) - 1 /\ n.origin = None
      /\ n.children = Owned(Current(t) - 1, L)
      /\ n.children.kind = "Owned" /\ n.children.generation = Current(t) - 1
      /\ n.children.list = L
  BY DEF IsInner, MutableNode, Owned
<1>3. Current(t) - 1 \in 0 .. Current(t) - 1
  BY <1>1 DEF Bounds
<1>4. n.value # None => n.value \in 1 .. Len(t.entries) /\ n.value > Lo(t).num_entries
  BY <1>1 DEF IsInner, IsEntry, Bounds
<1>5. IsSeq(L) /\ \A j \in DOMAIN L : L[j] = Child(L[j].key, L[j].index) /\ L[j].index \in 1 .. M2
  BY DEF IsList
<1>6. ChildrenOK(n.children, M2, Current(t))
  BY <1>2, <1>3, <1>5 DEF ChildrenOK
<1>7. NodeOK(n, M2, Len(t.entries), Current(t))
  <2>1. n = MutableNode(n.generation, n.value, n.path, n.children, n.origin)
    BY <1>2 DEF IsInner
  <2>2. IsSeq(n.path)
    BY DEF IsInner
  <2> QED  BY <1>2, <1>3, <1>4, <1>6, <2>1, <2>2 DEF NodeOK
<1>8. Own(n)
  BY <1>2 DEF Own
<1>9. OwnNode(n, Current(t), Lo(t))
  BY <1>4, <1>8 DEF OwnNode
<1> QED  BY <1>2, <1>7, <1>8, <1>9

(* A new node takes the place of x, with x among its children: a split of  *)
(* a stem.                                                                 *)
LEMMA WrapGood ==
  ASSUME NEW t, TrieInv(t), NEW trail, NEW x, TrailOK(t, trail, x), NEW L, WrapList(t, L, x),
         NEW n, IsInner(t, n, L), NEW u, u = Repoint(AddNode(t, n), trail, Len(t.nodes) + 1)
  PROVE  Good(t, u)
<1>1. IsTrie(t) /\ Bounds(t)
  BY Now
<1>2. PICK v, N : v = AddNode(t, n) /\ N = Len(t.nodes)
  OBVIOUS
<1>3. /\ IsTrie(v) /\ SameGenerations(t, v) /\ Root(v) = Root(t)
      /\ v.entries = t.entries /\ v.values = t.values
      /\ v.borrowed_values = t.borrowed_values
      /\ Len(v.nodes) = N + 1
      /\ \A i \in 1 .. N : v.nodes[i] = t.nodes[i]
      /\ v.nodes[N + 1] = n
  BY <1>1, <1>2, AddNodeFacts
<1>4. /\ Lo(v) = Lo(t) /\ Current(v) = Current(t) /\ N \in Nat /\ N + 1 \in Nat /\ N <= N + 1
      /\ Lo(t).num_nodes \in 0 .. N /\ Len(t.entries) \in Nat /\ Len(t.entries) <= Len(t.entries)
  BY <1>1, <1>2, <1>3 DEF SameGenerations, Bounds
<1>5. /\ NodeOK(n, N + 1, Len(t.entries), Current(t))
      /\ OwnNode(n, Current(t), Lo(t)) /\ Own(n)
      /\ n.children.list = L
      /\ n.generation = Current(t) - 1
  <2>1. PICK M2 : M2 = N + 1
    OBVIOUS
  <2>2. IsList(L, N) /\ M2 \in Nat /\ N <= M2
    BY <1>2, <1>4, <2>1 DEF WrapList
  <2>3. /\ NodeOK(n, M2, Len(t.entries), Current(t))
        /\ OwnNode(n, Current(t), Lo(t)) /\ Own(n)
        /\ n.children.list = L
        /\ n.generation = Current(t) - 1
    BY <1>4, <2>2, InnerFacts
  <2> QED  BY <2>1, <2>3
<1>6. NodesFor(t, v)
  <2>1. \A i \in 1 .. Lo(t).num_nodes : v.nodes[i] = t.nodes[i]
    BY <1>3, <1>4
  <2>2. ASSUME NEW i \in Lo(t).num_nodes + 1 .. Len(v.nodes)
        PROVE  /\ NodeOK(v.nodes[i], Len(v.nodes), Len(t.entries), Current(t))
               /\ OwnNode(v.nodes[i], Current(t), Lo(t))
    <3>1. CASE i = N + 1
      BY <1>3, <1>5, <3>1
    <3>2. CASE i # N + 1
      <4>1. i \in Mine(t) /\ i \in 1 .. N
        BY <1>2, <1>3, <1>4, <3>2 DEF Mine
      <4>2. NodeOK(t.nodes[i], N, Len(t.entries), Current(t)) /\ OwnNode(t.nodes[i], Current(t), Lo(t))
        BY <1>2, <4>1, MyNode
      <4>3. NodeOK(t.nodes[i], N + 1, Len(t.entries), Current(t))
        BY <1>4, <4>2, MoreRoom
      <4> QED  BY <1>3, <4>1, <4>2, <4>3
    <3> QED  BY <3>1, <3>2
  <2>3. Len(t.nodes) <= Len(v.nodes)
    BY <1>2, <1>3, <1>4
  <2> QED  BY <2>1, <2>2, <2>3 DEF NodesFor
<1>7. PICK m, c : (trail = <<>> /\ m = 0 /\ c = 0) \/ EndsAt(trail, m, c)
  BY DEF EndsAt
<1>8. EndsAt(trail, m, c) => Edge(t, m, c, x) /\ m \in Mine(t) /\ m \in Nat /\ m # 0 /\ m \in 1 .. N /\ c \in Nat
  <2> SUFFICES ASSUME EndsAt(trail, m, c)
               PROVE  Edge(t, m, c, x) /\ m \in Mine(t) /\ m \in Nat /\ m # 0 /\ m \in 1 .. N /\ c \in Nat
    OBVIOUS
  <2>1. Edge(t, m, c, x) /\ m \in Mine(t)
    BY TrailNode DEF EndsAt
  <2>2. m \in Nat /\ m \in 1 .. N /\ c \in Nat
    BY <1>2, <2>1, EdgeFacts
  <2> QED  BY <1>4, <2>1, <2>2
<1>9. x \in Mine(t) /\ NowNode(t, x) /\ (trail = <<>> => x = Root(t)) /\ Root(t) # None
  BY TrailNode DEF TrailOK
<1>10. PICK up, pos : Hangs(t, up, pos)
  BY Hanging
<1>11. PICK Idx : Idx = {L[j].index : j \in DOMAIN L}
  OBVIOUS
<1>12. PICK up2, pos2 :
         /\ up2 = [k \in Nat |-> IF k = N + 1 THEN m ELSE IF k \in Idx THEN N + 1 ELSE up[k]]
         /\ pos2 = [k \in Nat |-> IF k = N + 1 THEN c
                                  ELSE IF k \in Idx THEN CHOOSE j \in DOMAIN L : L[j].index = k ELSE pos[k]]
  OBVIOUS
<1>13. up2[N + 1] = m /\ pos2[N + 1] = c
  BY <1>4, <1>12
<1>14. ASSUME NEW k \in Idx PROVE k = x \/ Free(t, k)
  BY <1>11 DEF WrapList
<1>15. \A k \in Idx : k \in Mine(t) /\ k \in 1 .. N /\ k \in Nat /\ k # N + 1 /\ NowNode(t, k) /\ k > Lo(t).num_nodes
  <2>1. \A k \in Idx : k \in Mine(t) /\ NowNode(t, k)
    BY <1>9, <1>14 DEF Free
  <2>2. \A k \in Mine(t) : k \in 1 .. N /\ k \in Nat /\ k # N + 1 /\ k > Lo(t).num_nodes
    BY <1>2, <1>4 DEF Mine
  <2> QED  BY <2>1, <2>2
<1>16. ASSUME NEW i \in Nat, NEW j \in Nat, NEW k \in Nat, Edge(t, i, j, k), ~ (i = m /\ j = c)
       PROVE  k \notin Idx
  <2> SUFFICES ASSUME k \in Idx PROVE FALSE
    OBVIOUS
  <2>1. k = x
    BY <1>14, <1>16 DEF Free
  <2>2. up[x] = i /\ pos[x] = j /\ i \in Mine(t)
    <3>1. i \in Mine(t)
      BY <1>16, EdgeFacts
    <3> QED  BY <1>10, <1>16, <2>1, <3>1 DEF Hangs
  <2>3. CASE trail = <<>> /\ m = 0 /\ c = 0
    <3>1. up[x] = 0
      BY <1>9, <1>10, <2>3 DEF Hangs
    <3>2. i # 0
      BY <1>4, <2>2 DEF Mine
    <3> QED  BY <2>2, <3>1, <3>2
  <2>4. CASE EndsAt(trail, m, c)
    <3>1. Edge(t, m, c, x) /\ m \in Nat /\ c \in Nat /\ x \in Nat
      BY <1>8, <2>1, <2>4
    <3>2. up[x] = m /\ pos[x] = c
      BY <1>10, <3>1 DEF Hangs
    <3> QED  BY <1>16, <2>2, <3>2
  <2> QED  BY <1>7, <2>3, <2>4
<1>17. ASSUME NEW i \in Nat, NEW j \in Nat, NEW k \in Nat, Edge(v, i, j, k), ~ (i = m /\ j = c)
       PROVE  /\ k > Lo(v).num_nodes
              /\ up2[k] = i /\ pos2[k] = j
              /\ NowNode(v, i) => NowNode(v, k)
  <2>1. i \in Lo(t).num_nodes + 1 .. N + 1 /\ j \in DOMAIN v.nodes[i].children.list
        /\ v.nodes[i].children.list[j].index = k /\ Own(v.nodes[i])
    BY <1>3, <1>4, <1>17 DEF Edge, Points
  <2>2. CASE i = N + 1
    <3>1. j \in DOMAIN L /\ L[j].index = k /\ k \in Idx
      BY <1>3, <1>5, <1>11, <2>1, <2>2
    <3>2. up2[k] = N + 1
      BY <1>12, <1>15, <3>1
    <3>3. pos2[k] = CHOOSE l \in DOMAIN L : L[l].index = k
      BY <1>12, <1>15, <3>1
    <3>4. pos2[k] \in DOMAIN L /\ L[pos2[k]].index = k
      BY <3>1, <3>3, Zenon
    <3>5. pos2[k] = j
      BY <3>1, <3>4, Zenon DEF WrapList
    <3>6. NowNode(v, k) /\ k > Lo(t).num_nodes
      BY <1>3, <1>4, <1>15, <3>1 DEF NowNode
    <3> QED  BY <1>4, <2>2, <3>2, <3>5, <3>6
  <2>3. CASE i # N + 1
    <3>1. i \in 1 .. N /\ i \in Lo(t).num_nodes + 1 .. N
      <4>1. i \in Lo(t).num_nodes + 1 .. N + 1
        BY <2>1
      <4> QED  BY <1>4, <2>3, <4>1
    <3>2. Edge(t, i, j, k)
      BY <1>2, <1>3, <2>1, <3>1 DEF Edge, Points
    <3>3. k \notin Idx
      BY <1>16, <1>17, <3>2
    <3>4. k \in 1 .. N /\ k # N + 1
      <4>1. k \in 1 .. N
        BY <1>2, <3>2, EdgeFacts
      <4> QED  BY <1>4, <4>1
    <3>5. up2[k] = up[k] /\ pos2[k] = pos[k]
      BY <1>12, <3>3, <3>4
    <3>6. k > Lo(t).num_nodes /\ up[k] = i /\ pos[k] = j /\ (NowNode(t, i) => NowNode(t, k))
      BY <1>10, <3>2 DEF Hangs
    <3>7. v.nodes[i] = t.nodes[i] /\ v.nodes[k] = t.nodes[k]
      BY <1>3, <3>1, <3>4
    <3> QED  BY <1>4, <3>5, <3>6, <3>7 DEF NowNode
  <2> QED  BY <2>2, <2>3
<1>18. HangsBut(v, up2, pos2, m, c)
  BY <1>17 DEF HangsBut
<1>19. PICK r : r = N + 1
  OBVIOUS
<1>20. r \in Mine(v) /\ NowNode(v, r) /\ u = Repoint(v, trail, r) /\ SameValues(t, v)
  BY <1>2, <1>3, <1>4, <1>5, <1>19 DEF Mine, NowNode, SameValues
<1>21. CASE trail = <<>> /\ m = 0 /\ c = 0
  <2>1. u = WithRoot(v, r)
    BY <1>20, <1>21 DEF Repoint
  <2>2. up2[r] = 0 /\ HangsBut(v, up2, pos2, 0, 0)
    BY <1>13, <1>18, <1>19, <1>21
  <2> QED  BY <1>3, <1>6, <1>20, <2>1, <2>2, RelinkRoot
<1>22. CASE EndsAt(trail, m, c)
  <2>1. v.nodes[m] = t.nodes[m]
    BY <1>3, <1>8, <1>22
  <2>2. up2[r] = m /\ pos2[r] = c
    BY <1>13, <1>19
  <2>3. Root(t) # None => NowNode(v, Root(t)) /\ up2[Root(t)] = 0
    <3>1. Root(t) \in Mine(t) /\ NowNode(t, Root(t)) /\ up[Root(t)] = 0
      BY <1>9, <1>10 DEF Hangs
    <3>2. Root(t) \in 1 .. N /\ Root(t) \in Nat /\ Root(t) # N + 1
      BY <1>2, <1>4, <3>1 DEF Mine
    <3>3. Root(t) # x
      <4>1. Edge(t, m, c, x) /\ m \in Nat /\ c \in Nat /\ m # 0
        BY <1>8, <1>22
      <4>2. x \in Nat
        BY <4>1, EdgeFacts
      <4>3. up[x] = m
        BY <1>10, <4>1, <4>2 DEF Hangs
      <4> QED  BY <3>1, <4>1, <4>3
    <3>4. Root(t) \notin Idx
      BY <1>14, <3>3 DEF Free
    <3>5. up2[Root(t)] = 0
      BY <1>12, <3>1, <3>2, <3>4
    <3>6. NowNode(v, Root(t))
      BY <1>3, <1>4, <3>1, <3>2 DEF NowNode
    <3> QED  BY <3>5, <3>6
  <2> QED  BY <1>3, <1>6, <1>18, <1>20, <1>22, <2>1, <2>2, <2>3, RelinkChild
<1> QED  BY <1>7, <1>21, <1>22

-----------------------------------------------------------------------------
(* Path compression.                                                       *)

(* What Collapse makes of the arena before it repoints: i is taken, and    *)
(* its child ch has stem.                                                  *)
Taken(t, i, ch, stem) ==
  [t EXCEPT !.nodes[i] = DefaultNode, !.nodes[ch].path = stem, !.nodes[ch].origin = None]

(* What Taken changes. *)
LEMMA TakenFacts ==
  ASSUME NEW t, TrieInv(t), NEW i \in Mine(t), NEW ch \in Mine(t), i # ch, NEW stem,
         NEW v, v = Taken(t, i, ch, stem)
  PROVE  /\ IsTrie(v) /\ SameGenerations(t, v) /\ Root(v) = Root(t) /\ SameValues(t, v)
         /\ Len(v.nodes) = Len(t.nodes)
         /\ \A k \in 1 .. Len(t.nodes) : k # i /\ k # ch => v.nodes[k] = t.nodes[k]
         /\ v.nodes[i] = DefaultNode
         /\ v.nodes[ch] = MutableNode(t.nodes[ch].generation, t.nodes[ch].value, stem,
                                      t.nodes[ch].children, None)
<1>1. IsTrie(t)
  BY Now
<1>2. /\ IsSeq(t.nodes) /\ IsSeq(t.entries) /\ IsSeq(t.values) /\ IsSeq(t.borrowed_values)
  BY <1>1 DEF IsTrie
<1>3. PICK n1, n2 : n1 = Upd(t.nodes, i, DefaultNode) /\ n2 = Upd(n1, ch, [n1[ch] EXCEPT !.path = stem])
  OBVIOUS
<1>4. PICK n3 : n3 = Upd(n2, ch, [n2[ch] EXCEPT !.origin = None])
  OBVIOUS
<1>5. v = [t EXCEPT !.nodes = n3]
  BY <1>3, <1>4, Zenon DEF Taken, Upd
<1>6. v = [generations |-> t.generations, entries |-> t.entries, values |-> t.values,
           borrowed_values |-> t.borrowed_values, nodes |-> n3]
  <2>1. t = [generations |-> t.generations, entries |-> t.entries, values |-> t.values,
             borrowed_values |-> t.borrowed_values, nodes |-> t.nodes]
    BY <1>1, TrieFields
  <2> QED  BY <1>5, <2>1
<1>7. /\ IsSeq(n1) /\ Len(n1) = Len(t.nodes)
      /\ \A k \in 1 .. Len(t.nodes) : n1[k] = IF k = i THEN DefaultNode ELSE t.nodes[k]
  BY <1>2, <1>3, SeqExcept
<1>8. PICK x2 : x2 = [n1[ch] EXCEPT !.path = stem]
  OBVIOUS
<1>9. /\ IsSeq(n2) /\ Len(n2) = Len(t.nodes)
      /\ \A k \in 1 .. Len(t.nodes) : n2[k] = IF k = ch THEN x2 ELSE n1[k]
  BY <1>3, <1>7, <1>8, SeqExcept
<1>10. PICK x3 : x3 = [n2[ch] EXCEPT !.origin = None]
  OBVIOUS
<1>11. /\ IsSeq(n3) /\ Len(n3) = Len(t.nodes)
       /\ \A k \in 1 .. Len(t.nodes) : n3[k] = IF k = ch THEN x3 ELSE n2[k]
  BY <1>4, <1>9, <1>10, SeqExcept
<1>12. /\ i \in 1 .. Len(t.nodes) /\ ch \in 1 .. Len(t.nodes)
       /\ t.nodes[ch] = MutableNode(t.nodes[ch].generation, t.nodes[ch].value, t.nodes[ch].path,
                                    t.nodes[ch].children, t.nodes[ch].origin)
  BY MyNode
<1>13. n1[ch] = t.nodes[ch]
  BY <1>7, <1>12
<1>14. x2 = MutableNode(t.nodes[ch].generation, t.nodes[ch].value, stem, t.nodes[ch].children,
                        t.nodes[ch].origin)
  <2>1. x2 = [t.nodes[ch] EXCEPT !.path = stem]
    BY <1>8, <1>13
  <2> QED  BY <1>12, <2>1, NodeFields
<1>15. x3 = MutableNode(t.nodes[ch].generation, t.nodes[ch].value, stem, t.nodes[ch].children, None)
  <2>1. x3 = [x2 EXCEPT !.origin = None]
    BY <1>9, <1>10, <1>12
  <2>2. /\ x2 = MutableNode(x2.generation, x2.value, x2.path, x2.children, x2.origin)
        /\ x2.generation = t.nodes[ch].generation /\ x2.value = t.nodes[ch].value
        /\ x2.path = stem /\ x2.children = t.nodes[ch].children
    BY <1>14 DEF MutableNode
  <2>3. x3 = MutableNode(x2.generation, x2.value, x2.path, x2.children, None)
    BY <2>1, <2>2, NodeFields
  <2> QED  BY <2>2, <2>3
<1>16. /\ IsTrie(v) /\ SameGenerations(t, v) /\ Root(v) = Root(t)
       /\ v.entries = t.entries /\ v.values = t.values
       /\ v.borrowed_values = t.borrowed_values /\ v.nodes = n3
  BY <1>1, <1>2, <1>6, <1>11, TrieRecord
<1>17. \A k \in 1 .. Len(t.nodes) : k # i /\ k # ch => n3[k] = t.nodes[k]
  BY <1>7, <1>9, <1>11
<1>18. n3[i] = DefaultNode /\ n3[ch] = x3
  BY <1>7, <1>9, <1>11, <1>12
<1> QED  BY <1>11, <1>15, <1>16, <1>17, <1>18 DEF SameValues

(* What mem::take leaves in the arena is a good node that points nowhere. *)
LEMMA DefaultNodeOK ==
  ASSUME NEW N, NEW E, NEW g \in Nat \ {0}, NEW lo
  PROVE  /\ NodeOK(DefaultNode, N, E, g) /\ OwnNode(DefaultNode, g, lo)
         /\ Own(DefaultNode) /\ DefaultNode.children.list = <<>>
<1>1. PICK n : n = DefaultNode
  OBVIOUS
<1>2. /\ n = MutableNode(n.generation, n.value, n.path, n.children, n.origin)
      /\ n.generation = 0 /\ n.value = None /\ n.path = <<>> /\ n.origin = None
      /\ n.children.kind = "Owned" /\ n.children.generation = 0 /\ n.children.list = <<>>
      /\ n.children = Owned(n.children.generation, n.children.list)
  BY <1>1 DEF DefaultNode, MutableNode, Owned
<1>3. IsSeq(n.path) /\ IsSeq(n.children.list) /\ DOMAIN n.children.list = {}
  <2>1. IsSeq(<<>>) /\ Len(<<>>) = 0
    BY SeqSmall
  <2>2. DOMAIN <<>> = 1 .. 0
    BY <2>1, SeqDomain
  <2> QED  BY <1>2, <2>1, <2>2
<1>4. 0 \in 0 .. g - 1
  OBVIOUS
<1>5. ChildrenOK(n.children, N, g)
  BY <1>2, <1>3, <1>4 DEF ChildrenOK
<1>6. NodeOK(n, N, E, g)
  BY <1>2, <1>3, <1>4, <1>5 DEF NodeOK
<1>7. Own(n)
  BY <1>2 DEF Own
<1>8. OwnNode(n, g, lo)
  BY <1>2, <1>7 DEF OwnNode
<1> QED  BY <1>1, <1>2, <1>6, <1>7, <1>8

(* The end of a trail does not hang below its own children. *)
LEMMA TrailAcyclic ==
  ASSUME NEW t, TrieInv(t), NEW trail, NEW i, TrailOK(t, trail, i), NEW j, NEW ch, Edge(t, i, j, ch),
         NEW up, NEW pos, Hangs(t, up, pos)
  PROVE  /\ i # ch /\ ch # Root(t)
         /\ trail # <<>> => ch # Last(trail).node
<1>1. /\ i \in Nat /\ j \in Nat /\ ch \in Nat /\ i \in Mine(t) /\ ch \in Mine(t) /\ i # 0
  <2>1. i \in Nat /\ j \in Nat /\ ch \in Nat /\ i \in Mine(t) /\ ch \in Mine(t) /\ i \in 1 .. Len(t.nodes)
    BY EdgeFacts
  <2>2. Len(t.nodes) \in Nat
    BY Now DEF Bounds
  <2> QED  BY <2>1, <2>2
<1>2. up[ch] = i
  BY <1>1 DEF Hangs
<1>3. Root(t) # None /\ up[Root(t)] = 0
  BY DEF TrailOK, Hangs
<1>4. ch # Root(t)
  BY <1>1, <1>2, <1>3
<1>5. ASSUME NEW f, NEW x, TrailOK(t, f, x), x # Root(t) PROVE up[x] = Last(f).node /\ Last(f).node # x /\ f # <<>>
  <2>1. /\ f = <<>> => x = Root(t)
        /\ f # <<>> => Last(f).node # x /\ Edge(t, Last(f).node, Last(f).child, x)
    BY <1>5, TrailNode
  <2>2. f # <<>>
    BY <1>5, <2>1
  <2>3. PICK a, b : a = Last(f).node /\ b = Last(f).child
    OBVIOUS
  <2>4. Edge(t, a, b, x) /\ a # x
    BY <2>1, <2>2, <2>3
  <2>5. a \in Nat /\ b \in Nat /\ x \in Nat
    BY <2>4, EdgeFacts
  <2>6. up[x] = a
    BY <2>4, <2>5 DEF Hangs
  <2> QED  BY <2>2, <2>3, <2>4, <2>6
<1>6. i # ch
  <2> SUFFICES ASSUME i = ch PROVE FALSE
    OBVIOUS
  <2>1. up[i] = Last(trail).node /\ Last(trail).node # i
    BY <1>4, <1>5
  <2> QED  BY <1>2, <2>1
<1>7. ASSUME trail # <<>>, ch = Last(trail).node PROVE FALSE
  <2>1. PICK m, f : m = Last(trail).node /\ f = Front(trail)
    OBVIOUS
  <2>2. TrailOK(t, f, m)
    BY <1>7, <2>1, TrailUp
  <2>3. m = ch /\ m # Root(t)
    BY <1>4, <1>7, <2>1
  <2>4. up[m] = Last(f).node /\ f # <<>>
    BY <1>5, <2>2, <2>3
  <2>5. Last(f).node = i
    BY <1>2, <2>3, <2>4
  <2>6. PICK n : n = Len(trail)
    OBVIOUS
  <2>7. IsSeq(trail) /\ \A l \in 1 .. n : trail[l].node # i
    BY <2>6, TrailNode
  <2>8. n \in Nat \ {0} /\ IsSeq(f) /\ Len(f) = n - 1 /\ \A l \in 1 .. n - 1 : f[l] = trail[l]
    BY <1>7, <2>1, <2>6, <2>7, SeqFront
  <2>9. Last(f) = f[n - 1] /\ n - 1 \in Nat \ {0}
    <3>1. Len(f) \in Nat \ {0} /\ Last(f) = f[Len(f)]
      BY <2>4, <2>8, SeqFront
    <3> QED  BY <2>8, <3>1
  <2>10. n - 1 \in 1 .. n /\ n - 1 \in 1 .. n - 1
    BY <2>8, <2>9
  <2>11. f[n - 1] = trail[n - 1] /\ trail[n - 1].node # i
    BY <2>7, <2>8, <2>10
  <2> QED  BY <2>5, <2>9, <2>11
<1> QED  BY <1>4, <1>6, <1>7

(* A node is replaced by its only child, with a longer stem. *)
LEMMA CollapseGood ==
  ASSUME NEW t, TrieInv(t), NEW trail, NEW i, TrailOK(t, trail, i), NEW j1, NEW ch, Edge(t, i, j1, ch),
         NEW stem, IsSeq(stem), NEW u, u = Repoint(Taken(t, i, ch, stem), trail, ch)
  PROVE  Good(t, u)
<1>1. IsTrie(t) /\ Bounds(t)
  BY Now
<1>2. PICK v, N : v = Taken(t, i, ch, stem) /\ N = Len(t.nodes)
  OBVIOUS
<1>3. /\ i \in Nat /\ i \in Mine(t) /\ i \in 1 .. N
      /\ j1 \in Nat
      /\ ch \in Nat /\ ch \in Mine(t) /\ ch \in 1 .. N
  BY <1>2, EdgeFacts
<1>4. PICK up, pos : Hangs(t, up, pos)
  BY Hanging
<1>5. /\ i # ch /\ ch # Root(t)
      /\ trail # <<>> => ch # Last(trail).node
  BY <1>4, TrailAcyclic
<1>6. /\ IsTrie(v) /\ SameGenerations(t, v) /\ Root(v) = Root(t) /\ SameValues(t, v)
      /\ Len(v.nodes) = N
      /\ \A k \in 1 .. N : k # i /\ k # ch => v.nodes[k] = t.nodes[k]
      /\ v.nodes[i] = DefaultNode
      /\ v.nodes[ch] = MutableNode(t.nodes[ch].generation, t.nodes[ch].value, stem,
                                   t.nodes[ch].children, None)
  BY <1>2, <1>3, <1>5, TakenFacts
<1>7. /\ Lo(v) = Lo(t) /\ Current(v) = Current(t) /\ Current(t) \in Nat \ {0} /\ N \in Nat
      /\ Lo(t).num_nodes \in 0 .. N
  BY <1>1, <1>2, <1>6 DEF SameGenerations, Bounds
<1>8. /\ v.nodes[ch].generation = t.nodes[ch].generation
      /\ v.nodes[ch].children = t.nodes[ch].children
  BY <1>6 DEF MutableNode
<1>9. NodeOK(v.nodes[ch], N, Len(t.entries), Current(t)) /\ OwnNode(v.nodes[ch], Current(t), Lo(t))
  <2>1. NodeOK(t.nodes[ch], N, Len(t.entries), Current(t)) /\ OwnNode(t.nodes[ch], Current(t), Lo(t))
    BY <1>2, <1>3, MyNode
  <2>2. PICK x : x = v.nodes[ch]
    OBVIOUS
  <2>3. /\ x = MutableNode(x.generation, x.value, x.path, x.children, x.origin)
        /\ x.generation = t.nodes[ch].generation /\ x.value = t.nodes[ch].value /\ x.path = stem
        /\ x.children = t.nodes[ch].children /\ x.origin = None
    BY <1>6, <2>2 DEF MutableNode
  <2>4. NodeOK(x, N, Len(t.entries), Current(t))
    BY <2>1, <2>3 DEF NodeOK
  <2>5. OwnNode(x, Current(t), Lo(t))
    BY <2>1, <2>3 DEF OwnNode, Own
  <2> QED  BY <2>2, <2>4, <2>5
<1>10. NodesFor(t, v)
  <2>1. ASSUME NEW k \in 1 .. Lo(t).num_nodes PROVE v.nodes[k] = t.nodes[k]
    <3>1. k \in 1 .. N
      BY <1>7
    <3>2. k # i /\ k # ch
      BY <1>3, MyNode
    <3> QED  BY <1>6, <3>1, <3>2
  <2>2. ASSUME NEW k \in Lo(t).num_nodes + 1 .. Len(v.nodes)
        PROVE  /\ NodeOK(v.nodes[k], Len(v.nodes), Len(t.entries), Current(t))
               /\ OwnNode(v.nodes[k], Current(t), Lo(t))
    <3>1. k \in Mine(t) /\ k \in 1 .. N
      BY <1>2, <1>6, <1>7 DEF Mine
    <3>2. NodeOK(t.nodes[k], N, Len(t.entries), Current(t)) /\ OwnNode(t.nodes[k], Current(t), Lo(t))
      BY <1>2, <3>1, MyNode
    <3>3. CASE k = i
      <4>1. /\ NodeOK(DefaultNode, N, Len(t.entries), Current(t))
            /\ OwnNode(DefaultNode, Current(t), Lo(t))
        BY <1>7, DefaultNodeOK
      <4> QED  BY <1>6, <3>3, <4>1
    <3>4. CASE k = ch
      BY <1>6, <1>9, <3>4
    <3>5. CASE k # i /\ k # ch
      BY <1>6, <3>1, <3>2, <3>5
    <3> QED  BY <3>3, <3>4, <3>5
  <2>3. Len(t.nodes) <= Len(v.nodes)
    BY <1>2, <1>6, <1>7
  <2> QED  BY <2>1, <2>2, <2>3 DEF NodesFor
<1>11. PICK m, c : (trail = <<>> /\ m = 0 /\ c = 0) \/ EndsAt(trail, m, c)
  BY DEF EndsAt
<1>12. EndsAt(trail, m, c) => Edge(t, m, c, i) /\ m \in Mine(t) /\ m \in Nat /\ m # 0 /\ m \in 1 .. N /\ c \in Nat
                              /\ m # i /\ m # ch
  <2> SUFFICES ASSUME EndsAt(trail, m, c)
               PROVE  Edge(t, m, c, i) /\ m \in Mine(t) /\ m \in Nat /\ m # 0 /\ m \in 1 .. N /\ c \in Nat
                      /\ m # i /\ m # ch
    OBVIOUS
  <2>1. Edge(t, m, c, i) /\ m \in Mine(t) /\ m # i
    BY TrailNode DEF EndsAt
  <2>2. m \in Nat /\ m \in 1 .. N /\ c \in Nat
    BY <1>2, <2>1, EdgeFacts
  <2>3. m # ch
    BY <1>5 DEF EndsAt
  <2>4. m # 0
    BY <1>7, <2>2
  <2> QED  BY <2>1, <2>2, <2>3, <2>4
<1>13. NowNode(t, i) /\ (trail = <<>> => i = Root(t)) /\ Root(t) # None
  <2>1. NowNode(t, i) /\ (trail = <<>> => i = Root(t))
    BY TrailNode
  <2>2. Root(t) # None
    BY DEF TrailOK
  <2> QED  BY <2>1, <2>2
<1>14. NowNode(t, ch) /\ up[ch] = i
  BY <1>3, <1>4, <1>13 DEF Hangs
<1>15. PICK up2, pos2 : /\ up2 = [k \in Nat |-> IF k = ch THEN m ELSE up[k]]
                        /\ pos2 = [k \in Nat |-> IF k = ch THEN c ELSE pos[k]]
  OBVIOUS
<1>16. up2[ch] = m /\ pos2[ch] = c
  BY <1>3, <1>15
<1>17. ASSUME NEW a \in Nat, NEW b \in Nat, Edge(t, a, b, i) PROVE a = m /\ b = c
  <2>1. up[i] = a /\ pos[i] = b /\ a \in 1 .. N
    <3>1. a \in 1 .. N
      BY <1>2, <1>17, EdgeFacts
    <3> QED  BY <1>3, <1>4, <1>17, <3>1 DEF Hangs
  <2>2. CASE trail = <<>> /\ m = 0 /\ c = 0
    <3>1. up[i] = 0
      BY <1>4, <1>13, <2>2 DEF Hangs
    <3> QED  BY <1>7, <2>1, <3>1
  <2>3. CASE EndsAt(trail, m, c)
    <3>1. Edge(t, m, c, i) /\ m \in Nat /\ c \in Nat
      BY <1>12, <2>3
    <3>2. up[i] = m /\ pos[i] = c
      BY <1>3, <1>4, <3>1 DEF Hangs
    <3> QED  BY <2>1, <3>2
  <2> QED  BY <1>11, <2>2, <2>3
<1>18. \A k \in 1 .. N : k # i => v.nodes[k].generation = t.nodes[k].generation /\ v.nodes[k].children = t.nodes[k].children
  BY <1>6, <1>8
<1>19. ASSUME NEW a \in Nat, NEW b \in Nat, NEW k \in Nat, Edge(v, a, b, k), ~ (a = m /\ b = c)
       PROVE  /\ k > Lo(v).num_nodes
              /\ up2[k] = a /\ pos2[k] = b
              /\ NowNode(v, a) => NowNode(v, k)
  <2>1. a \in Lo(t).num_nodes + 1 .. N /\ b \in DOMAIN v.nodes[a].children.list
        /\ v.nodes[a].children.list[b].index = k /\ Own(v.nodes[a])
    BY <1>6, <1>7, <1>19 DEF Edge, Points
  <2>2. a \in 1 .. N
    <3>1. a \in Lo(t).num_nodes + 1 .. N
      BY <2>1
    <3> QED  BY <1>7, <3>1
  <2>3. a # i
    <3> SUFFICES ASSUME a = i PROVE FALSE
      OBVIOUS
    <3>1. DefaultNode.children.list = <<>>
      BY <1>7, DefaultNodeOK
    <3>2. b \in DOMAIN <<>>
      BY <1>6, <2>1, <3>1
    <3>3. DOMAIN <<>> = 1 .. 0
      <4>1. IsSeq(<<>>) /\ Len(<<>>) = 0
        BY SeqSmall
      <4> QED  BY <4>1, SeqDomain
    <3>4. b \in 1 .. 0
      BY <3>2, <3>3
    <3> QED  BY <3>4
  <2>4. v.nodes[a].generation = t.nodes[a].generation /\ v.nodes[a].children = t.nodes[a].children
    BY <1>18, <2>2, <2>3
  <2>5. Edge(t, a, b, k)
    BY <1>2, <2>1, <2>4 DEF Edge, Points, Own
  <2>6. k \in 1 .. N
    BY <1>2, <2>5, EdgeFacts
  <2>7. k > Lo(t).num_nodes /\ up[k] = a /\ pos[k] = b /\ (NowNode(t, a) => NowNode(t, k))
    BY <1>4, <2>5 DEF Hangs
  <2>8. k # ch
    BY <1>14, <2>3, <2>7
  <2>9. k # i
    BY <1>17, <1>19, <2>5
  <2>10. v.nodes[k].generation = t.nodes[k].generation
    BY <1>18, <2>6, <2>9
  <2>11. up2[k] = up[k] /\ pos2[k] = pos[k]
    BY <1>15, <2>8
  <2> QED  BY <1>7, <2>4, <2>7, <2>10, <2>11 DEF NowNode
<1>20. HangsBut(v, up2, pos2, m, c)
  BY <1>19 DEF HangsBut
<1>21. ch \in Mine(v) /\ NowNode(v, ch) /\ u = Repoint(v, trail, ch)
  BY <1>2, <1>3, <1>6, <1>7, <1>8, <1>14 DEF Mine, NowNode
<1>22. CASE trail = <<>> /\ m = 0 /\ c = 0
  <2>1. u = WithRoot(v, ch)
    BY <1>21, <1>22 DEF Repoint
  <2>2. up2[ch] = 0 /\ HangsBut(v, up2, pos2, 0, 0)
    BY <1>16, <1>20, <1>22
  <2> QED  BY <1>6, <1>10, <1>21, <2>1, <2>2, RelinkRoot
<1>23. CASE EndsAt(trail, m, c)
  <2>1. v.nodes[m] = t.nodes[m]
    BY <1>6, <1>12, <1>23
  <2>2. Root(t) # None => NowNode(v, Root(t)) /\ up2[Root(t)] = 0
    <3>1. Root(t) \in Mine(t) /\ NowNode(t, Root(t)) /\ up[Root(t)] = 0
      BY <1>4, <1>13 DEF Hangs
    <3>2. Root(t) \in 1 .. N /\ Root(t) \in Nat
      BY <1>2, <1>7, <3>1 DEF Mine
    <3>3. Root(t) # i
      <4>1. Edge(t, m, c, i) /\ m \in Nat /\ c \in Nat /\ m # 0
        BY <1>12, <1>23
      <4>2. up[i] = m
        BY <1>3, <1>4, <4>1 DEF Hangs
      <4> QED  BY <3>1, <4>1, <4>2
    <3>4. up2[Root(t)] = 0
      BY <1>5, <1>15, <3>1, <3>2
    <3>5. v.nodes[Root(t)].generation = t.nodes[Root(t)].generation
      BY <1>18, <3>2, <3>3
    <3> QED  BY <1>7, <3>1, <3>4, <3>5 DEF NowNode
  <2> QED  BY <1>6, <1>10, <1>16, <1>20, <1>21, <1>23, <2>1, <2>2, RelinkChild
<1> QED  BY <1>11, <1>22, <1>23

(* The node at the end of a trail that owns its only child is collapsed. *)
LEMMA CollapseOneGood ==
  ASSUME NEW t, TrieInv(t), NEW trail, NEW i, TrailOK(t, trail, i), Own(t.nodes[i]),
         Len(t.nodes[i].children.list) = 1
  PROVE  Good(t, Collapse(t, i, trail))
<1>1. i \in Mine(t)
  BY TrailNode
<1>2. PICK x, ch, k : x = t.nodes[i].children.list[1] /\ ch = x.index /\ k = x.key
  OBVIOUS
<1>3. Edge(t, i, 1, ch)
  <2>1. 1 \in 1 .. Len(t.nodes[i].children.list)
    OBVIOUS
  <2> QED  BY <1>1, <1>2, <2>1, OwnList
<1>4. ch \in Mine(t)
  BY <1>3, EdgeFacts
<1>5. PICK stem : stem = t.nodes[i].path \o <<k>> \o t.nodes[ch].path
  OBVIOUS
<1>6. IsSeq(stem)
  <2>1. IsSeq(t.nodes[i].path) /\ IsSeq(t.nodes[ch].path) /\ IsSeq(<<k>>)
    BY <1>1, <1>4, MyNode, SeqSmall
  <2>2. PICK a : a = Cat(t.nodes[i].path, <<k>>)
    OBVIOUS
  <2>3. IsSeq(a)
    BY <2>1, <2>2, SeqConcat
  <2>4. IsSeq(Cat(a, t.nodes[ch].path))
    BY <2>1, <2>3, SeqConcat
  <2>5. stem = Cat(a, t.nodes[ch].path)
    BY <1>5, <2>2, Zenon DEF Cat
  <2> QED  BY <2>4, <2>5
<1>7. PICK u : u = Collapse(t, i, trail)
  OBVIOUS
<1>8. u = Repoint(Taken(t, i, ch, stem), trail, ch)
  BY <1>2, <1>5, <1>7, Zenon DEF Collapse, Taken
<1>9. Good(t, u)
  BY <1>3, <1>6, <1>8, CollapseGood
<1> QED  BY <1>7, <1>9

(* A trail survives changes that keep the tree. *)
LEMMA TrailAfter ==
  ASSUME NEW t, NEW u, NEW trail, NEW node, TrieInv(t), TrieInv(u), TrailOK(t, trail, node), Keeps(t, u)
  PROVE  TrailOK(u, trail, node)
<1>1. KeepsBut(t, u, node)
  BY DEF Keeps, KeepsBut
<1> QED  BY <1>1, TrailKeeps

(* Touch on one node. *)
LEMMA TouchNode ==
  ASSUME NEW t, TrieInv(t), NEW m \in Mine(t), NEW u, u = Touch(t, {m})
  PROVE  /\ Good(t, u) /\ Keeps(t, u) /\ TrieInv(u)
         /\ u.entries = t.entries
         /\ \A i \in 1 .. Len(t.nodes) : /\ u.nodes[i].value = t.nodes[i].value
                                         /\ u.nodes[i].path = t.nodes[i].path
                                         /\ u.nodes[i].children = t.nodes[i].children
                                         /\ u.nodes[i].generation = t.nodes[i].generation
<1>1. \A i \in {m} : i \in Mine(t)
  OBVIOUS
<1>2. /\ Good(t, Touch(t, {m})) /\ Keeps(t, Touch(t, {m}))
      /\ Touch(t, {m}).entries = t.entries
      /\ \A i \in 1 .. Len(t.nodes) : /\ Touch(t, {m}).nodes[i].value = t.nodes[i].value
                                      /\ Touch(t, {m}).nodes[i].path = t.nodes[i].path
                                      /\ Touch(t, {m}).nodes[i].children = t.nodes[i].children
  BY <1>1, TouchGood
<1>3. \A i \in 1 .. Len(t.nodes) : u.nodes[i].generation = t.nodes[i].generation
  BY <1>2 DEF Keeps
<1> QED  BY <1>2, <1>3 DEF Good

(* A node without a value and with one child collapses. *)
LEMMA CollapseIfSingleGood ==
  ASSUME NEW t, TrieInv(t), NEW trail, NEW i, TrailOK(t, trail, i), Own(t.nodes[i])
  PROVE  Good(t, CollapseIfSingle(t, i, trail))
<1>1. CASE ~ (t.nodes[i].value = None /\ Len(t.nodes[i].children.list) = 1)
  <2>1. CollapseIfSingle(t, i, trail) = t
    BY <1>1 DEF CollapseIfSingle
  <2> QED  BY <2>1, GoodSame
<1>2. CASE t.nodes[i].value = None /\ Len(t.nodes[i].children.list) = 1
  <2>1. CASE trail = <<>>
    <3>1. CollapseIfSingle(t, i, trail) = Collapse(t, i, trail)
      BY <1>2, <2>1 DEF CollapseIfSingle
    <3> QED  BY <1>2, <3>1, CollapseOneGood
  <2>2. CASE trail # <<>>
    <3>1. PICK m, u : m = Last(trail).node /\ u = Touch(t, {m})
      OBVIOUS
    <3>2. m \in Mine(t) /\ i \in Mine(t)
      BY <2>2, <3>1, TrailNode
    <3>3. /\ Good(t, u) /\ Keeps(t, u) /\ TrieInv(u)
          /\ \A k \in 1 .. Len(t.nodes) : /\ u.nodes[k].children = t.nodes[k].children
                                          /\ u.nodes[k].generation = t.nodes[k].generation
      BY <3>1, <3>2, TouchNode
    <3>4. i \in 1 .. Len(t.nodes)
      BY <3>2, MyNode
    <3>5. u.nodes[i].children = t.nodes[i].children /\ Own(u.nodes[i])
      BY <3>3, <3>4 DEF Own
    <3>6. TrailOK(u, trail, i)
      BY <3>3, TrailAfter
    <3>7. Len(u.nodes[i].children.list) = 1
      BY <1>2, <3>5
    <3>8. Good(u, Collapse(u, i, trail))
      BY <3>3, <3>5, <3>6, <3>7, CollapseOneGood
    <3>9. CollapseIfSingle(t, i, trail) = Collapse(u, i, trail)
      BY <1>2, <2>2, <3>1 DEF CollapseIfSingle
    <3>10. IsTrie(t)
      BY Now
    <3>11. Good(t, Collapse(u, i, trail))
      BY <3>3, <3>8, <3>10, GoodThen
    <3> QED  BY <3>9, <3>11
  <2> QED  BY <2>1, <2>2
<1> QED  BY <1>1, <1>2

(* make_owned has nothing to do on children of the node's own. *)
LEMMA MakeOwnedOwn ==
  ASSUME NEW t, NEW i, Own(t.nodes[i])
  PROVE  make_owned(t, i) = t
<1>1. t.nodes[i].children.kind = "Owned" /\ t.nodes[i].children.generation = t.nodes[i].generation
  BY DEF Own
<1>2. t.nodes[i].children.kind # "Borrowed"
  BY <1>1
<1> QED  BY <1>1, <1>2, Zenon DEF make_owned

(* A child is removed, and its parent collapses if it has one child left. *)
LEMMA RemoveChildGood ==
  ASSUME NEW t, TrieInv(t), NEW trail, NEW node, TrailOK(t, trail, node), trail # <<>>
  PROVE  Good(t, RemoveChild(t, trail))
<1>1. PICK m, c, f, u : m = Last(trail).node /\ c = Last(trail).child /\ f = Front(trail) /\ u = Touch(t, {m})
  OBVIOUS
<1>2. m \in Mine(t) /\ Edge(t, m, c, node)
  BY <1>1, TrailNode
<1>3. /\ Good(t, u) /\ Keeps(t, u) /\ TrieInv(u)
      /\ \A k \in 1 .. Len(t.nodes) : /\ u.nodes[k].children = t.nodes[k].children
                                      /\ u.nodes[k].generation = t.nodes[k].generation
  BY <1>1, <1>2, TouchNode
<1>4. m \in 1 .. Len(t.nodes) /\ c \in 1 .. Len(t.nodes[m].children.list)
  BY <1>2, EdgeFacts
<1>5. Own(t.nodes[m])
  BY <1>2 DEF Edge, Points
<1>6. Own(u.nodes[m]) /\ c \in 1 .. Len(u.nodes[m].children.list)
  BY <1>3, <1>4, <1>5 DEF Own
<1>7. make_owned(u, m) = u
  BY <1>6, MakeOwnedOwn
<1>8. TrailOK(t, f, m)
  BY <1>1, TrailUp
<1>9. TrailOK(u, f, m)
  BY <1>3, <1>8, TrailAfter
<1>10. m \in Mine(u)
  BY <1>9, TrailNode
<1>11. PICK L, w : L = RemoveAt(u.nodes[m].children.list, c) /\ w = SetList(u, m, L)
  OBVIOUS
<1>12. Good(u, w) /\ KeepsBut(u, w, m) /\ Own(w.nodes[m])
  BY <1>3, <1>6, <1>10, <1>11, RemoveListGood
<1>13. TrieInv(w)
  BY <1>12 DEF Good
<1>14. TrailOK(w, f, m)
  BY <1>3, <1>9, <1>12, <1>13, TrailKeeps
<1>15. Good(w, CollapseIfSingle(w, m, f))
  BY <1>12, <1>13, <1>14, CollapseIfSingleGood
<1>16. RemoveChild(t, trail) = CollapseIfSingle(w, m, f)
  <2>1. w = [u EXCEPT !.nodes[m].children.list = RemoveAt(@, c)]
    BY <1>11, Zenon DEF SetList
  <2>2. RemoveChild(t, trail) = CollapseIfSingle([make_owned(u, m) EXCEPT
                                   !.nodes[m].children.list = RemoveAt(@, c)], m, f)
    BY <1>1, Zenon DEF RemoveChild
  <2> QED  BY <1>7, <2>1, <2>2, Zenon
<1>17. IsTrie(t) /\ IsTrie(u)
  BY <1>3, Now
<1>18. Good(t, w)
  BY <1>3, <1>12, <1>17, GoodThen
<1>19. Good(t, CollapseIfSingle(w, m, f))
  BY <1>15, <1>17, <1>18, GoodThen
<1> QED  BY <1>16, <1>19

(* The subtree at the end of a trail is removed. *)
LEMMA RemoveSubtreeGood ==
  ASSUME NEW t, TrieInv(t), NEW trail, NEW node, TrailOK(t, trail, node)
  PROVE  Good(t, RemoveSubtree(t, trail))
<1>1. CASE trail = <<>>
  BY <1>1, RootNoneGood DEF RemoveSubtree
<1>2. CASE trail # <<>>
  BY <1>2, RemoveChildGood DEF RemoveSubtree
<1> QED  BY <1>1, <1>2

(* A node that lost its value is removed, collapsed or left. *)
LEMMA UnlinkGood ==
  ASSUME NEW t, TrieInv(t), NEW c, TrailOK(t, c.trail, c.node), Own(t.nodes[c.node])
  PROVE  Good(t, Unlink(t, c))
<1>1. PICK kids : kids = Len(t.nodes[c.node].children.list)
  OBVIOUS
<1>2. CASE kids = 1
  <2>1. Unlink(t, c) = Collapse(t, c.node, c.trail)
    BY <1>1, <1>2 DEF Unlink
  <2> QED  BY <1>1, <1>2, <2>1, CollapseOneGood
<1>3. CASE kids # 1 /\ kids > 1
  <2>1. Unlink(t, c) = t
    BY <1>1, <1>3 DEF Unlink
  <2> QED  BY <2>1, GoodSame
<1>4. CASE kids # 1 /\ ~ (kids > 1)
  <2>1. CASE c.trail = <<>>
    BY <1>1, <1>4, <2>1, RootNoneGood DEF Unlink
  <2>2. CASE c.trail # <<>>
    BY <1>1, <1>4, <2>2, RemoveChildGood DEF Unlink
  <2> QED  BY <2>1, <2>2
<1> QED  BY <1>2, <1>3, <1>4

-----------------------------------------------------------------------------
(* Owning the children of a node.                                          *)

Links(L, N, K) == IsSeq(L) /\ Len(L) = K /\ \A j \in 1 .. K : L[j] = Child(L[j].key, N + j)

(* A copy that the current generation of t makes of a node, with an arena  *)
(* of E entries: it has no children of its own yet.                        *)
IsCopy(t, n, E) ==
  /\ NodeOK(n, Len(t.nodes), E, Current(t))
  /\ OwnNode(n, Current(t), Lo(t))
  /\ ~ Own(n)
  /\ n.generation = Current(t) - 1
Copies(t, cs, K, E) == IsSeq(cs) /\ Len(cs) = K /\ \A j \in 1 .. K : IsCopy(t, cs[j], E)

(* Entries that read values there are. *)
Readers(t, ne, W) ==
  IsSeq(ne) /\ \A e \in 1 .. Len(ne) : EntryOK(ne[e], Len(t.values), W) /\ ne[e].kind # "Mutable"

(* Links to the nodes at the end of the arena. *)
LEMMA LinksFacts ==
  ASSUME NEW L, NEW N \in Nat, NEW K \in Nat, Links(L, N, K)
  PROVE  /\ IsList(L, N + K) /\ DOMAIN L = 1 .. K
         /\ \A j \in 1 .. K : L[j].index = N + j
<1>1. IsSeq(L) /\ Len(L) = K
  BY DEF Links
<1>2. DOMAIN L = 1 .. K
  BY <1>1, SeqDomain
<1>3. ASSUME NEW j \in 1 .. K
      PROVE  L[j].index = N + j /\ L[j] = Child(L[j].key, L[j].index) /\ L[j].index \in 1 .. N + K
  <2>1. L[j] = Child(L[j].key, N + j)
    BY DEF Links
  <2>2. L[j].index = N + j
    BY <2>1 DEF Child
  <2>3. N + j \in 1 .. N + K
    OBVIOUS
  <2> QED  BY <2>1, <2>2, <2>3
<1> QED  BY <1>1, <1>2, <1>3 DEF IsList

(* New entries that read, and values they read. *)
LEMMA ReadersGood ==
  ASSUME NEW t, TrieInv(t), NEW vals, IsSeq(vals), NEW ne, Readers(t, ne, Len(t.borrowed_values) + Len(vals)),
         NEW v, v = [generations |-> t.generations, entries |-> Cat(t.entries, ne), values |-> t.values,
                     borrowed_values |-> Cat(t.borrowed_values, vals), nodes |-> t.nodes]
  PROVE  Good(t, v) /\ SameTree(t, v) /\ Len(v.entries) = Len(t.entries) + Len(ne)
<1>1. IsTrie(t) /\ Bounds(t) /\ EntriesNow(t)
  BY Now
<1>2. IsSeq(t.entries) /\ IsSeq(t.values) /\ IsSeq(t.borrowed_values) /\ IsSeq(t.nodes)
  BY <1>1 DEF IsTrie
<1>3. PICK es, bs, E, F, B, W : /\ es = Cat(t.entries, ne) /\ bs = Cat(t.borrowed_values, vals)
                                /\ E = Len(t.entries) /\ F = Len(ne)
                                /\ B = Len(t.borrowed_values) /\ W = B + Len(vals)
  OBVIOUS
<1>4. IsSeq(ne) /\ F \in Nat /\ Len(vals) \in Nat /\ W \in Nat /\ E \in Nat /\ B \in Nat
      /\ Len(t.values) \in Nat
  <2>1. IsSeq(ne)
    BY DEF Readers
  <2>2. F \in Nat /\ Len(vals) \in Nat
    BY <1>3, <2>1, SeqDomain
  <2> QED  BY <1>1, <1>3, <2>1, <2>2 DEF Bounds
<1>5. /\ IsSeq(es) /\ Len(es) = E + F
      /\ \A i \in 1 .. E : es[i] = t.entries[i]
      /\ \A i \in E + 1 .. E + F : es[i] = ne[i - E]
  <2>0. IsSeq(t.entries) /\ IsSeq(ne) /\ es = Cat(t.entries, ne) /\ E = Len(t.entries) /\ F = Len(ne)
    BY <1>2, <1>3, <1>4
  <2> QED  BY <2>0, SeqConcat
<1>6. /\ IsSeq(bs) /\ Len(bs) = W
      /\ \A i \in 1 .. B : bs[i] = t.borrowed_values[i]
  BY <1>2, <1>3, SeqConcat
<1>7. v = [generations |-> t.generations, entries |-> es, values |-> t.values,
           borrowed_values |-> bs, nodes |-> t.nodes]
  BY <1>3
<1>8. /\ IsTrie(v) /\ SameGenerations(t, v) /\ Root(v) = Root(t)
      /\ v.generations = t.generations /\ v.entries = es /\ v.values = t.values
      /\ v.borrowed_values = bs /\ v.nodes = t.nodes
  BY <1>1, <1>2, <1>5, <1>6, <1>7, TrieRecord
<1>9. /\ Lo(t).num_entries \in 0 .. E /\ Lo(t).num_borrowed_nodes \in 0 .. B
  BY <1>1, <1>3 DEF Bounds
<1>10. /\ \A e \in 1 .. Lo(t).num_entries : es[e] = t.entries[e]
       /\ \A i \in 1 .. Lo(t).num_borrowed_nodes : bs[i] = t.borrowed_values[i]
  <2>1. \A e \in 1 .. Lo(t).num_entries : e \in 1 .. E
    BY <1>4, <1>9
  <2>2. \A i \in 1 .. Lo(t).num_borrowed_nodes : i \in 1 .. B
    BY <1>4, <1>9
  <2> QED  BY <1>5, <1>6, <2>1, <2>2
<1>11. ASSUME NEW e \in Lo(t).num_entries + 1 .. Len(es)
       PROVE  /\ EntryOK(es[e], Len(t.values), W)
              /\ es[e].kind = "Mutable" => es[e].idx > Lo(t).num_values
  <2>1. CASE e <= E
    <3>1. e \in 1 .. E /\ e \in Lo(t).num_entries + 1 .. E
      BY <1>4, <1>5, <1>9, <2>1
    <3>2. EntryOK(t.entries[e], Len(t.values), B) /\ (t.entries[e].kind = "Mutable" => t.entries[e].idx > Lo(t).num_values)
      BY <1>1, <1>3, <3>1 DEF EntriesNow
    <3>3. Len(t.values) <= Len(t.values) /\ B <= W
      BY <1>3, <1>4
    <3>4. EntryOK(t.entries[e], Len(t.values), W)
      BY <1>4, <3>2, <3>3, MoreRoom
    <3> QED  BY <1>5, <3>1, <3>2, <3>4
  <2>2. CASE ~ (e <= E)
    <3>1. PICK d : d = e - E
      OBVIOUS
    <3>2. d \in 1 .. F /\ e = E + d
      BY <1>4, <1>5, <1>9, <2>2, <3>1
    <3>3. es[e] = ne[d]
      <4>1. e \in E + 1 .. E + F
        BY <1>4, <3>2
      <4> QED  BY <1>5, <3>1, <4>1
    <3>4. EntryOK(ne[d], Len(t.values), W) /\ ne[d].kind # "Mutable"
      BY <1>3, <3>2 DEF Readers
    <3> QED  BY <3>3, <3>4
  <2> QED  BY <2>1, <2>2
<1>12. Len(t.entries) <= Len(es) /\ Len(t.values) <= Len(t.values) /\ Len(t.borrowed_values) <= Len(bs)
  BY <1>3, <1>4, <1>5, <1>6
<1>13. \A i \in 1 .. Lo(t).num_values : v.values[i] = t.values[i]
  BY <1>8
<1>14. Good(t, v)
  BY <1>6, <1>8, <1>10, <1>11, <1>12, <1>13, EntriesChange
<1> QED  BY <1>3, <1>5, <1>8, <1>12, <1>14 DEF SameTree

(* Node n is node i with links as its children... *)
NewParent(t, i, links, n) ==
  n = MutableNode(t.nodes[i].generation, t.nodes[i].value, t.nodes[i].path,
                  Owned(t.nodes[i].generation, links), t.nodes[i].origin)
(* ... and takes its place, with copies at the end of the arena.           *)
Adopting(t, i, n, copies, u) ==
  u = [generations |-> t.generations, entries |-> t.entries, values |-> t.values,
       borrowed_values |-> t.borrowed_values, nodes |-> Cat(Upd(t.nodes, i, n), copies)]

(* Node i gets copies as its children. *)
AdoptCase(t, i, K, links, copies, n, u) ==
  /\ TrieInv(t) /\ i \in Mine(t) /\ ~ Own(t.nodes[i]) /\ K \in Nat
  /\ Links(links, Len(t.nodes), K) /\ Copies(t, copies, K, Len(t.entries))
  /\ NewParent(t, i, links, n) /\ Adopting(t, i, n, copies, u)

AdoptDone(t, i, links, n, u) ==
  /\ Good(t, u) /\ Keeps(t, u)
  /\ u.nodes[i] = n /\ Own(n) /\ n.children.list = links
  /\ \A k \in 1 .. Len(t.nodes) : k # i => u.nodes[k] = t.nodes[k]

(* Copies at the end of the arena become the children of node i. *)
LEMMA AdoptNodesGood ==
  ASSUME NEW t, NEW i, NEW K, NEW links, NEW copies, NEW n, NEW u,
         AdoptCase(t, i, K, links, copies, n, u)
  PROVE  AdoptDone(t, i, links, n, u)
<1>0. /\ TrieInv(t) /\ i \in Mine(t) /\ ~ Own(t.nodes[i]) /\ K \in Nat
      /\ Links(links, Len(t.nodes), K) /\ Copies(t, copies, K, Len(t.entries))
      /\ NewParent(t, i, links, n) /\ Adopting(t, i, n, copies, u)
  BY DEF AdoptCase
<1>1. IsTrie(t) /\ Bounds(t)
  BY <1>0, Now
<1>2. IsSeq(t.entries) /\ IsSeq(t.values) /\ IsSeq(t.borrowed_values) /\ IsSeq(t.nodes)
  BY <1>1 DEF IsTrie
<1>3. PICK N, G, ns, us : N = Len(t.nodes) /\ G = Current(t) /\ us = Upd(t.nodes, i, n) /\ ns = Cat(us, copies)
  OBVIOUS
<1>4. /\ IsSeq(us) /\ Len(us) = N
      /\ \A k \in 1 .. N : us[k] = IF k = i THEN n ELSE t.nodes[k]
  BY <1>2, <1>3, SeqExcept
<1>5. IsSeq(copies) /\ Len(copies) = K /\ \A j \in 1 .. K : IsCopy(t, copies[j], Len(t.entries))
  BY <1>0 DEF Copies
<1>6. K \in Nat /\ N \in Nat /\ G \in Nat \ {0} /\ Lo(t).num_nodes \in 0 .. N /\ N + K \in Nat /\ N <= N + K /\ Len(t.entries) \in Nat
      /\ Len(t.entries) <= Len(t.entries)
  BY <1>0, <1>1, <1>3 DEF Bounds
<1>7. /\ IsSeq(ns) /\ Len(ns) = N + K
      /\ \A k \in 1 .. N : ns[k] = us[k]
      /\ \A k \in N + 1 .. N + K : ns[k] = copies[k - N]
  <2>1. ns = Cat(us, copies) /\ IsSeq(us) /\ IsSeq(copies) /\ Len(us) = N /\ Len(copies) = K
    BY <1>3, <1>4, <1>5
  <2> QED  BY <2>1, SeqConcat
<1>8. u = [generations |-> t.generations, entries |-> t.entries, values |-> t.values,
           borrowed_values |-> t.borrowed_values, nodes |-> ns]
  BY <1>0, <1>3 DEF Adopting
<1>9. /\ IsTrie(u) /\ SameGenerations(t, u) /\ Root(u) = Root(t)
      /\ u.generations = t.generations /\ u.entries = t.entries /\ u.values = t.values
      /\ u.borrowed_values = t.borrowed_values /\ u.nodes = ns
  BY <1>1, <1>2, <1>7, <1>8, TrieRecord
<1>10. Lo(u) = Lo(t) /\ Current(u) = G /\ Current(t) = G
  BY <1>3, <1>9 DEF SameGenerations
<1>11. /\ i \in 1 .. N /\ i \in Nat /\ i > Lo(t).num_nodes /\ i \notin 1 .. Lo(t).num_nodes
       /\ NodeOK(t.nodes[i], N, Len(t.entries), G) /\ OwnNode(t.nodes[i], G, Lo(t))
  BY <1>0, <1>3, MyNode
<1>12. t.nodes[i].generation = G - 1
  BY <1>0, <1>11 DEF OwnNode
<1>13. /\ n = MutableNode(n.generation, n.value, n.path, n.children, n.origin)
       /\ n.generation = t.nodes[i].generation /\ n.value = t.nodes[i].value /\ n.path = t.nodes[i].path
       /\ n.origin = t.nodes[i].origin /\ n.children = Owned(t.nodes[i].generation, links)
       /\ n.children.kind = "Owned" /\ n.children.generation = t.nodes[i].generation
       /\ n.children.list = links
  BY <1>0 DEF NewParent, MutableNode, Owned
<1>14. Own(n)
  BY <1>13 DEF Own
<1>15. /\ IsList(links, N + K) /\ DOMAIN links = 1 .. K
       /\ \A j \in 1 .. K : links[j].index = N + j
  <2>1. Links(links, N, K) /\ N \in Nat /\ K \in Nat
    BY <1>0, <1>3, <1>6
  <2> QED  BY <2>1, LinksFacts
<1>16. NodeOK(n, N + K, Len(t.entries), G)
  <2>1. ChildrenOK(n.children, N + K, G)
    <3>1. G - 1 \in 0 .. G - 1
      BY <1>6
    <3>2. n.children.generation \in 0 .. G - 1
      BY <1>12, <1>13, <3>1
    <3>3. /\ IsSeq(links)
          /\ \A j \in DOMAIN links : links[j] = Child(links[j].key, links[j].index) /\ links[j].index \in 1 .. N + K
      BY <1>15 DEF IsList
    <3>4. n.children = Owned(n.children.generation, n.children.list)
      BY <1>13
    <3> QED  BY <1>13, <3>2, <3>3, <3>4 DEF ChildrenOK
  <2> QED  BY <1>11, <1>13, <2>1 DEF NodeOK
<1>17. OwnNode(n, G, Lo(t))
  BY <1>11, <1>13, <1>14 DEF OwnNode
<1>18. ASSUME NEW k \in N + 1 .. N + K
       PROVE  /\ NodeOK(ns[k], N + K, Len(t.entries), G) /\ OwnNode(ns[k], G, Lo(t)) /\ ~ Own(ns[k])
              /\ ns[k].generation = G - 1
  <2>1. k - N \in 1 .. K /\ ns[k] = copies[k - N]
    BY <1>6, <1>7
  <2>2. PICK x : x = ns[k]
    OBVIOUS
  <2>3. IsCopy(t, x, Len(t.entries))
    BY <1>5, <2>1, <2>2
  <2>4. NodeOK(x, N, Len(t.entries), G)
    BY <1>3, <2>3 DEF IsCopy
  <2>5. NodeOK(x, N + K, Len(t.entries), G)
    BY <1>6, <2>4, MoreRoom
  <2> QED  BY <1>3, <2>2, <2>3, <2>5 DEF IsCopy
<1>19. ns[i] = n /\ \A k \in 1 .. N : k # i => ns[k] = t.nodes[k]
  BY <1>4, <1>7, <1>11
<1>20. ASSUME NEW k \in Lo(t).num_nodes + 1 .. Len(u.nodes)
       PROVE  /\ NodeOK(u.nodes[k], Len(u.nodes), Len(t.entries), Current(t))
              /\ OwnNode(u.nodes[k], Current(t), Lo(t))
  <2>1. CASE k = i
    BY <1>7, <1>9, <1>10, <1>16, <1>17, <1>19, <2>1
  <2>2. CASE k # i /\ k <= N
    <3>1. k \in Mine(t) /\ k \in 1 .. N
      BY <1>3, <1>6, <1>7, <1>9, <2>2 DEF Mine
    <3>2. NodeOK(t.nodes[k], N, Len(t.entries), G) /\ OwnNode(t.nodes[k], G, Lo(t))
      BY <1>0, <1>3, <3>1, MyNode
    <3>3. NodeOK(t.nodes[k], N + K, Len(t.entries), G)
      BY <1>6, <3>2, MoreRoom
    <3> QED  BY <1>7, <1>9, <1>10, <1>19, <2>2, <3>1, <3>2, <3>3
  <2>3. CASE ~ (k <= N)
    <3>1. k \in N + 1 .. N + K
      BY <1>6, <1>7, <1>9, <2>3
    <3> QED  BY <1>7, <1>9, <1>10, <1>18, <3>1
  <2> QED  BY <2>1, <2>2, <2>3
<1>21. PICK up, pos : Hangs(t, up, pos)
  BY <1>0, Hanging
<1>22. PICK up2, pos2 : /\ up2 = [k \in Nat |-> IF k > N THEN i ELSE up[k]]
                        /\ pos2 = [k \in Nat |-> IF k > N THEN k - N ELSE pos[k]]
  OBVIOUS
<1>23. \A k \in 1 .. N : ns[k].generation = t.nodes[k].generation
  BY <1>13, <1>19
<1>24. ASSUME NEW a \in Nat, NEW b \in Nat, NEW k \in Nat, Edge(u, a, b, k)
       PROVE  /\ k > Lo(u).num_nodes
              /\ up2[k] = a /\ pos2[k] = b
              /\ NowNode(u, a) => NowNode(u, k)
  <2>1. a \in Lo(t).num_nodes + 1 .. N + K /\ b \in DOMAIN ns[a].children.list
        /\ ns[a].children.list[b].index = k /\ Own(ns[a])
    BY <1>7, <1>9, <1>10, <1>24 DEF Edge, Points
  <2>2. a \in 1 .. N
    <3>1. a \in Lo(t).num_nodes + 1 .. N + K /\ a \notin N + 1 .. N + K
      BY <1>18, <2>1
    <3> QED  BY <1>6, <3>1
  <2>3. CASE a = i
    <3>1. b \in 1 .. K /\ k = N + b
      BY <1>13, <1>15, <1>19, <2>1, <2>3
    <3>2. k > N /\ k - N = b /\ k > Lo(t).num_nodes /\ k \in N + 1 .. N + K
      BY <1>6, <3>1
    <3>3. up2[k] = a /\ pos2[k] = b
      BY <1>22, <2>3, <3>2
    <3>4. ns[k].generation = G - 1
      BY <1>18, <3>2
    <3> QED  BY <1>9, <1>10, <3>2, <3>3, <3>4 DEF NowNode
  <2>4. CASE a # i
    <3>1. Edge(t, a, b, k)
      <4>1. ns[a] = t.nodes[a]
        BY <1>19, <2>2, <2>4
      <4>2. a \in Lo(t).num_nodes + 1 .. N
        <5>1. a \in Lo(t).num_nodes + 1 .. N + K
          BY <2>1
        <5> QED  BY <1>6, <2>2, <5>1
      <4> QED  BY <1>3, <2>1, <4>1, <4>2 DEF Edge, Points
    <3>2. k \in 1 .. N
      BY <1>0, <1>3, <3>1, EdgeFacts
    <3>3. k > Lo(t).num_nodes /\ up[k] = a /\ pos[k] = b /\ (NowNode(t, a) => NowNode(t, k))
      BY <1>21, <3>1 DEF Hangs
    <3>4. up2[k] = up[k] /\ pos2[k] = pos[k]
      BY <1>6, <1>22, <3>2
    <3> QED  BY <1>9, <1>10, <1>23, <2>2, <3>2, <3>3, <3>4 DEF NowNode
  <2> QED  BY <2>3, <2>4
<1>25. Root(u) # None => Root(u) \in Mine(u) /\ NowNode(u, Root(u)) /\ up2[Root(u)] = 0
  <2> SUFFICES ASSUME Root(t) # None
               PROVE  Root(t) \in Mine(u) /\ NowNode(u, Root(t)) /\ up2[Root(t)] = 0
    BY <1>9
  <2>1. Root(t) \in Mine(t) /\ NowNode(t, Root(t)) /\ up[Root(t)] = 0
    BY <1>21 DEF Hangs
  <2>2. Root(t) \in 1 .. N /\ Root(t) \in Mine(u) /\ Root(t) \in Nat /\ ~ (Root(t) > N)
    BY <1>3, <1>6, <1>7, <1>9, <1>10, <2>1 DEF Mine
  <2>3. up2[Root(t)] = 0
    BY <1>22, <2>1, <2>2
  <2> QED  BY <1>9, <1>10, <1>23, <2>1, <2>2, <2>3 DEF NowNode
<1>26. Hangs(u, up2, pos2)
  BY <1>24, <1>25 DEF Hangs
<1>27. Len(t.nodes) <= Len(u.nodes) /\ \A k \in 1 .. Lo(t).num_nodes : u.nodes[k] = t.nodes[k]
  <2>1. \A k \in 1 .. Lo(t).num_nodes : k \in 1 .. N /\ k # i
    BY <1>6, <1>11
  <2> QED  BY <1>3, <1>6, <1>7, <1>9, <1>19, <2>1
<1>28. Good(t, u)
  BY <1>9, <1>20, <1>26, <1>27, <1>0, Rewire
<1>29. Keeps(t, u)
  <2>1. ASSUME NEW k \in 1 .. Len(t.nodes), Own(t.nodes[k]) PROVE u.nodes[k].children = t.nodes[k].children
    <3>1. k # i
      BY <1>0, <2>1
    <3> QED  BY <1>3, <1>9, <1>19, <3>1
  <2> QED  BY <1>3, <1>6, <1>9, <1>10, <1>23, <1>27, <2>1 DEF Keeps
<1> QED  BY <1>3, <1>9, <1>13, <1>14, <1>19, <1>28, <1>29 DEF AdoptDone

AdoptRec(w, i, g, links, copies, ne) ==
  [w EXCEPT !.nodes = [@ EXCEPT ![i].children = Owned(g, links)] \o copies, !.entries = @ \o ne]

(* What owning the children of node i does, and leaves alone. *)
OwnedAt(t, u, i) ==
  /\ Good(t, u) /\ Keeps(t, u) /\ Own(u.nodes[i])
  /\ Len(u.nodes[i].children.list) = Len(t.nodes[i].children.list)
  /\ \A k \in 1 .. Len(t.nodes) : u.nodes[k].path = t.nodes[k].path /\ u.nodes[k].value = t.nodes[k].value

(* New entries first, then the nodes. *)
AdoptSteps(t, i, K, E, v, links, copies, n, u) ==
  /\ TrieInv(t) /\ i \in Mine(t) /\ ~ Own(t.nodes[i]) /\ K \in Nat
  /\ Good(t, v) /\ SameTree(t, v) /\ Len(v.entries) = E
  /\ Links(links, Len(t.nodes), K) /\ Copies(t, copies, K, E)
  /\ NewParent(t, i, links, n) /\ Adopting(v, i, n, copies, u)

(* The same after a step that adds entries. *)
LEMMA AdoptAfter ==
  ASSUME NEW t, NEW i, NEW K, NEW E, NEW v, NEW links, NEW copies, NEW n, NEW u,
         AdoptSteps(t, i, K, E, v, links, copies, n, u)
  PROVE  AdoptDone(t, i, links, n, u)
<1>1. IsTrie(t) /\ TrieInv(v) /\ TrieInv(t) /\ Good(t, v)
  BY Now DEF Good, AdoptSteps
<1>2. v.nodes = t.nodes /\ v.generations = t.generations
  BY DEF SameTree, AdoptSteps
<1>3. i \in Mine(v) /\ Lo(v) = Lo(t) /\ Current(v) = Current(t)
  BY <1>2 DEF Mine, Lo, Low, Current, AdoptSteps
<1>4. Copies(v, copies, K, Len(v.entries))
  BY <1>2, <1>3 DEF Copies, IsCopy, AdoptSteps
<1>5. Links(links, Len(v.nodes), K) /\ ~ Own(v.nodes[i]) /\ NewParent(v, i, links, n)
  BY <1>2 DEF NewParent, AdoptSteps
<1>6. AdoptCase(v, i, K, links, copies, n, u)
  BY <1>1, <1>3, <1>4, <1>5 DEF AdoptCase, AdoptSteps
<1>7. AdoptDone(v, i, links, n, u)
  BY <1>6, AdoptNodesGood
<1>8. Good(v, u) /\ Keeps(v, u) /\ TrieInv(u)
  BY <1>7 DEF AdoptDone, Good
<1>9. Good(t, u)
  BY <1>1, <1>8, GoodThen
<1>10. Keeps(t, v)
  BY <1>1, KeepsSameTree DEF AdoptSteps
<1>11. Keeps(t, u)
  BY <1>1, <1>8, <1>10, KeepsThen
<1> QED  BY <1>2, <1>7, <1>9, <1>11 DEF AdoptDone

AdoptInput(t, i, vals, ne, links, copies, w, u) ==
  /\ TrieInv(t) /\ i \in Mine(t) /\ ~ Own(t.nodes[i])
  /\ IsSeq(vals) /\ Readers(t, ne, Len(t.borrowed_values) + Len(vals))
  /\ Links(links, Len(t.nodes), Len(t.nodes[i].children.list))
  /\ Copies(t, copies, Len(t.nodes[i].children.list), Len(t.entries) + Len(ne))
  /\ w = [generations |-> t.generations, entries |-> t.entries, values |-> t.values,
          borrowed_values |-> Cat(t.borrowed_values, vals), nodes |-> t.nodes]
  /\ u = AdoptRec(w, i, t.nodes[i].generation, links, copies, ne)

(* The same with the entries of the copies. *)
LEMMA AdoptGood ==
  ASSUME NEW t, NEW i, NEW vals, NEW ne, NEW links, NEW copies, NEW w, NEW u,
         AdoptInput(t, i, vals, ne, links, copies, w, u)
  PROVE  OwnedAt(t, u, i)
<1>0. PICK K : K = Len(t.nodes[i].children.list)
  OBVIOUS
<1>0a. TrieInv(t) /\ i \in Mine(t) /\ ~ Own(t.nodes[i]) /\ IsSeq(vals)
  BY DEF AdoptInput
<1>0b. Readers(t, ne, Len(t.borrowed_values) + Len(vals))
  BY DEF AdoptInput
<1>0c. Links(links, Len(t.nodes), K) /\ Copies(t, copies, K, Len(t.entries) + Len(ne))
  BY <1>0 DEF AdoptInput
<1>0d. w = [generations |-> t.generations, entries |-> t.entries, values |-> t.values,
            borrowed_values |-> Cat(t.borrowed_values, vals), nodes |-> t.nodes]
  BY DEF AdoptInput
<1>0e. u = AdoptRec(w, i, t.nodes[i].generation, links, copies, ne)
  BY DEF AdoptInput
<1>0f. K \in Nat
  <2>1. IsSeq(t.nodes[i].children.list)
    BY <1>0a, MyNode
  <2> QED  BY <1>0, <2>1, SeqDomain
<1>1. IsTrie(t) /\ Bounds(t)
  BY <1>0a, Now
<1>2. PICK v, n, bs, es : /\ bs = Cat(t.borrowed_values, vals) /\ es = Cat(t.entries, ne)
                          /\ v = [generations |-> t.generations, entries |-> es, values |-> t.values,
                                  borrowed_values |-> bs, nodes |-> t.nodes]
                          /\ n = [t.nodes[i] EXCEPT !.children = Owned(t.nodes[i].generation, links)]
  OBVIOUS
<1>3. PICK ns : ns = Cat(Upd(t.nodes, i, n), copies)
  OBVIOUS
<1>4. Good(t, v) /\ SameTree(t, v) /\ Len(v.entries) = Len(t.entries) + Len(ne)
  <2>1. v = [generations |-> t.generations, entries |-> Cat(t.entries, ne), values |-> t.values,
             borrowed_values |-> Cat(t.borrowed_values, vals), nodes |-> t.nodes]
    BY <1>2
  <2> QED  BY <1>0a, <1>0b, <2>1, ReadersGood
<1>5. TrieInv(v) /\ v.nodes = t.nodes /\ v.generations = t.generations /\ v.entries = es
      /\ v.values = t.values /\ v.borrowed_values = bs
  BY <1>2, <1>4 DEF Good
<1>6. u = [w EXCEPT !.nodes = ns, !.entries = es]
  <2>1. w.nodes = t.nodes /\ w.entries = t.entries
    BY <1>0d
  <2>2. u = [w EXCEPT !.nodes = Cat(Upd(w.nodes, i, [w.nodes[i] EXCEPT !.children = Owned(t.nodes[i].generation, links)]), copies),
                      !.entries = Cat(w.entries, ne)]
    BY <1>0e, Zenon DEF AdoptRec, Cat, Upd
  <2> QED  BY <1>2, <1>3, <2>1, <2>2, Zenon
<1>7. u = [generations |-> t.generations, entries |-> es, values |-> t.values,
           borrowed_values |-> bs, nodes |-> ns]
  <2>1. w = [generations |-> t.generations, entries |-> t.entries, values |-> t.values,
             borrowed_values |-> bs, nodes |-> t.nodes]
    BY <1>0d, <1>2
  <2>2. PICK x : x = [w EXCEPT !.nodes = ns]
    OBVIOUS
  <2>3. x = [generations |-> t.generations, entries |-> t.entries, values |-> t.values,
             borrowed_values |-> bs, nodes |-> ns]
    BY <2>1, <2>2
  <2>4. u = [x EXCEPT !.entries = es]
    BY <1>6, <2>2, Zenon
  <2> QED  BY <2>3, <2>4
<1>8. Adopting(v, i, n, copies, u)
  BY <1>3, <1>5, <1>7 DEF Adopting
<1>10. n = MutableNode(t.nodes[i].generation, t.nodes[i].value, t.nodes[i].path,
                       Owned(t.nodes[i].generation, links), t.nodes[i].origin)
  <2>1. t.nodes[i] = MutableNode(t.nodes[i].generation, t.nodes[i].value, t.nodes[i].path,
                                 t.nodes[i].children, t.nodes[i].origin)
    BY <1>0a, MyNode
  <2>2. n = [t.nodes[i] EXCEPT !.children = Owned(t.nodes[i].generation, links)]
    BY <1>2
  <2> QED  BY <2>1, <2>2, NodeFields
<1>11. NewParent(t, i, links, n)
  BY <1>10 DEF NewParent
<1>12. PICK E : E = Len(t.entries) + Len(ne)
  OBVIOUS
<1>13. Copies(t, copies, K, E) /\ Len(v.entries) = E
  BY <1>0c, <1>4, <1>12
<1>14. /\ Good(t, u) /\ Keeps(t, u)
       /\ u.nodes[i] = n /\ Own(n) /\ n.children.list = links
       /\ \A k \in 1 .. Len(t.nodes) : k # i => u.nodes[k] = t.nodes[k]
  <2>1. AdoptSteps(t, i, K, E, v, links, copies, n, u)
    BY <1>0a, <1>0c, <1>0f, <1>4, <1>8, <1>11, <1>13 DEF AdoptSteps
  <2>2. AdoptDone(t, i, links, n, u)
    BY <2>1, AdoptAfter
  <2> QED  BY <2>2 DEF AdoptDone
<1>18. Len(u.nodes[i].children.list) = K
  BY <1>0c, <1>14 DEF Links
<1>19. n.path = t.nodes[i].path /\ n.value = t.nodes[i].value
  BY <1>10 DEF MutableNode
<1>20. \A k \in 1 .. Len(t.nodes) : u.nodes[k].path = t.nodes[k].path /\ u.nodes[k].value = t.nodes[k].value
  BY <1>14, <1>19
<1> QED  BY <1>0, <1>14, <1>18, <1>20 DEF OwnedAt

(* The pieces of make_owned. *)
Vals(kids) == [r \in DOMAIN InOrder(Valued(kids)) |-> kids[InOrder(Valued(kids))[r]].value]
ThawReaders(t, kids) ==
  [r \in DOMAIN InOrder(Valued(kids)) |-> ReadOnly(TRUE, Len(t.borrowed_values) + r)]
MigrateReaders(t, kids) ==
  [r \in DOMAIN InOrder(Valued(kids)) |-> MigrateEntry(t.entries[kids[InOrder(Valued(kids))[r]].value])]
LinkList(t, i, kids) ==
  <<>> \o [j \in DOMAIN kids |-> Child(t.nodes[i].children.list[j].key, Len(t.nodes) + j)]
ThawCopies(t, i, kids) ==
  [j \in DOMAIN kids |-> ThawNode(kids[j], t.nodes[i].generation, Len(t.entries) + Rank(Valued(kids), j))]
MigrateCopies(t, i, kids) ==
  [j \in DOMAIN kids |-> MigrateNode(kids[j], t.nodes[i].generation, Len(t.entries) + Rank(Valued(kids), j))]
KidsOf(t, i) ==
  IF t.nodes[i].children.kind = "Borrowed"
  THEN [j \in DOMAIN t.nodes[i].children.list |-> t.nodes[i].children.list[j].node]
  ELSE [j \in DOMAIN t.nodes[i].children.list |-> t.nodes[t.nodes[i].children.list[j].index]]

Widened(t, kids) == [t EXCEPT !.borrowed_values = @ \o Vals(kids)]

(* make_owned on children borrowed from the persistent tree. *)
LEMMA MakeOwnedThaws ==
  ASSUME NEW t, NEW i, t.nodes[i].children.kind = "Borrowed"
  PROVE  make_owned(t, i) = LET kids == KidsOf(t, i)
                                w == Widened(t, kids)
                            IN AdoptRec(w, i, w.nodes[i].generation, LinkList(w, i, kids),
                                        ThawCopies(w, i, kids), ThawReaders(t, kids))
BY Zenon DEF make_owned, Adopt, AdoptRec, LinkList, ThawCopies, ThawReaders, KidsOf, Vals, Widened

(* make_owned on children of an older generation. *)
LEMMA MakeOwnedMigrates ==
  ASSUME NEW t, NEW i, t.nodes[i].children.kind # "Borrowed",
         t.nodes[i].children.generation # t.nodes[i].generation
  PROVE  make_owned(t, i) = AdoptRec(t, i, t.nodes[i].generation, LinkList(t, i, KidsOf(t, i)),
                                     MigrateCopies(t, i, KidsOf(t, i)), MigrateReaders(t, KidsOf(t, i)))
BY Zenon DEF make_owned, Adopt, AdoptRec, LinkList, MigrateCopies, MigrateReaders, KidsOf

(* The children with a value, in a list of K children. *)
LEMMA ValuedFacts ==
  ASSUME NEW kids, IsSeq(kids), NEW V, V = Valued(kids), NEW R, R = Cardinality(V)
  PROVE  /\ R \in Nat /\ Len(kids) \in Nat /\ DOMAIN kids = 1 .. Len(kids)
         /\ V \subseteq 1 .. Len(kids)
         /\ \A j \in 1 .. Len(kids) : kids[j].value # None => Rank(V, j) \in 1 .. R
         /\ DOMAIN InOrder(V) = 1 .. R
         /\ \A r \in 1 .. R : /\ InOrder(V)[r] \in 1 .. Len(kids)
                              /\ kids[InOrder(V)[r]].value # None
<1>1. Len(kids) \in Nat /\ DOMAIN kids = 1 .. Len(kids)
  BY SeqDomain
<1>2. V \in SUBSET (1 .. Len(kids)) /\ \A j \in 1 .. Len(kids) : j \in V <=> kids[j].value # None
  BY <1>1 DEF Valued
<1>3. /\ R \in Nat
      /\ \A j \in V : Rank(V, j) \in 1 .. R
      /\ IsSeq(InOrder(V)) /\ Len(InOrder(V)) = R
      /\ \A r \in 1 .. R : InOrder(V)[r] \in V
  BY <1>1, <1>2, RankFacts
<1>4. DOMAIN InOrder(V) = 1 .. R
  BY <1>3, SeqDomain
<1> QED  BY <1>1, <1>2, <1>3, <1>4

(* The new children are the next nodes of the arena. *)
LEMMA LinkListOK ==
  ASSUME NEW t, NEW i, NEW kids, IsSeq(kids)
  PROVE  Links(LinkList(t, i, kids), Len(t.nodes), Len(kids))
<1>1. PICK f : f = [j \in DOMAIN kids |-> Child(t.nodes[i].children.list[j].key, Len(t.nodes) + j)]
  OBVIOUS
<1>2. DOMAIN f = DOMAIN kids /\ f = [j \in DOMAIN f |-> f[j]]
  BY <1>1
<1>3. IsSeq(f) /\ Len(f) = Len(kids) /\ DOMAIN kids = 1 .. Len(kids)
  BY <1>2, SeqSame, SeqDomain
<1>4. LinkList(t, i, kids) = f
  <2>1. LinkList(t, i, kids) = <<>> \o f
    BY <1>1, Zenon DEF LinkList
  <2>2. <<>> \o f = f
    BY <1>3, SeqPlain
  <2> QED  BY <2>1, <2>2
<1>5. ASSUME NEW j \in 1 .. Len(kids) PROVE f[j] = Child(f[j].key, Len(t.nodes) + j)
  <2>1. f[j] = Child(t.nodes[i].children.list[j].key, Len(t.nodes) + j)
    BY <1>1, <1>3
  <2> QED  BY <2>1 DEF Child
<1> QED  BY <1>3, <1>4, <1>5 DEF Links

(* The copy of a persistent node. *)
LEMMA ThawCopy ==
  ASSUME NEW t, TrieInv(t), NEW p, WellFormed(p), NEW e, NEW E \in Nat,
         p.value # None => e \in Len(t.entries) + 1 .. E, NEW n, n = ThawNode(p, Current(t) - 1, e)
  PROVE  IsCopy(t, n, E)
<1>1. Bounds(t)
  BY Now
<1>2. /\ n = MutableNode(n.generation, n.value, n.path, n.children, n.origin)
      /\ n.generation = Current(t) - 1
      /\ n.value = IF p.value = None THEN None ELSE e
      /\ n.path = p.path /\ n.origin = p
      /\ n.children = Borrowed(p.children)
      /\ n.children.kind = "Borrowed" /\ n.children.list = p.children
  BY DEF ThawNode, MutableNode, Borrowed
<1>3. Current(t) - 1 \in 0 .. Current(t) - 1
  BY <1>1 DEF Bounds
<1>4. /\ IsSeq(p.path)
      /\ IsSeq(p.children)
      /\ \A j \in DOMAIN p.children : WellFormed(p.children[j].node)
  BY WellFormedParts
<1>5. ChildrenOK(n.children, Len(t.nodes), Current(t))
  BY <1>2, <1>4 DEF ChildrenOK
<1>6. n.value # None => n.value \in 1 .. E /\ n.value > Lo(t).num_entries
  <2> SUFFICES ASSUME n.value # None PROVE n.value \in 1 .. E /\ n.value > Lo(t).num_entries
    OBVIOUS
  <2>1. n.value = e /\ e \in Len(t.entries) + 1 .. E
    BY <1>2
  <2> QED  BY <1>1, <2>1 DEF Bounds
<1>7. NodeOK(n, Len(t.nodes), E, Current(t))
  BY <1>2, <1>3, <1>4, <1>5, <1>6 DEF NodeOK
<1>8. ~ Own(n)
  BY <1>2 DEF Own
<1>9. OwnNode(n, Current(t), Lo(t))
  BY <1>2, <1>6 DEF OwnNode
<1> QED  BY <1>2, <1>7, <1>8, <1>9 DEF IsCopy

(* Thawing the children of a node. *)
LEMMA ThawGood ==
  ASSUME NEW t, TrieInv(t), NEW i \in Mine(t), t.nodes[i].children.kind = "Borrowed"
  PROVE  OwnedAt(t, make_owned(t, i), i)
<1>1. IsTrie(t) /\ Bounds(t)
  BY Now
<1>2. PICK list, kids, K, V, R, E, B : /\ list = t.nodes[i].children.list /\ kids = KidsOf(t, i) /\ K = Len(list)
                                       /\ V = Valued(kids) /\ R = Cardinality(V)
                                       /\ E = Len(t.entries) /\ B = Len(t.borrowed_values)
  OBVIOUS
<1>3. ~ Own(t.nodes[i])
  BY DEF Own
<1>4. t.nodes[i].generation = Current(t) - 1
  <2>1. OwnNode(t.nodes[i], Current(t), Lo(t))
    BY MyNode
  <2> QED  BY <1>3, <2>1 DEF OwnNode
<1>5. IsSeq(list) /\ \A j \in DOMAIN list : WellFormed(list[j].node)
  <2>1. NodeOK(t.nodes[i], Len(t.nodes), Len(t.entries), Current(t))
    BY MyNode
  <2> QED  BY <1>2, <2>1 DEF NodeOK, ChildrenOK
<1>6. kids = [j \in DOMAIN list |-> list[j].node]
  BY <1>2 DEF KidsOf
<1>7. IsSeq(kids) /\ Len(kids) = K /\ \A j \in DOMAIN kids : WellFormed(kids[j])
  <2>1. DOMAIN kids = DOMAIN list /\ kids = [j \in DOMAIN kids |-> kids[j]]
    BY <1>6
  <2>2. IsSeq(kids) /\ Len(kids) = K
    BY <1>2, <1>5, <2>1, SeqSame
  <2> QED  BY <1>5, <1>6, <2>1, <2>2
<1>8. /\ R \in Nat /\ K \in Nat /\ DOMAIN kids = 1 .. K
      /\ \A j \in 1 .. K : kids[j].value # None => Rank(V, j) \in 1 .. R
      /\ DOMAIN InOrder(V) = 1 .. R
  <2>1. V = Valued(kids) /\ R = Cardinality(V)
    BY <1>2
  <2> QED  BY <1>7, <2>1, ValuedFacts
<1>9. PICK vals, ne, cs, ls : /\ vals = Vals(kids) /\ ne = ThawReaders(t, kids)
                              /\ cs = ThawCopies(t, i, kids) /\ ls = LinkList(t, i, kids)
  OBVIOUS
<1>10. IsSeq(vals) /\ Len(vals) = R
  <2>1. vals = [r \in 1 .. R |-> kids[InOrder(V)[r]].value]
    BY <1>2, <1>8, <1>9, Zenon DEF Vals
  <2>2. vals = [r \in 1 .. R |-> vals[r]]
    BY <2>1
  <2> QED  BY <1>8, <2>2, SeqFun
<1>11. IsSeq(ne) /\ Len(ne) = R /\ \A r \in 1 .. R : ne[r] = ReadOnly(TRUE, B + r)
  <2>1. ne = [r \in 1 .. R |-> ReadOnly(TRUE, B + r)]
    BY <1>2, <1>8, <1>9, Zenon DEF ThawReaders
  <2>2. ne = [r \in 1 .. R |-> ne[r]]
    BY <2>1
  <2> QED  BY <1>8, <2>1, <2>2, SeqFun
<1>12. Readers(t, ne, Len(t.borrowed_values) + Len(vals))
  <2>1. ASSUME NEW r \in 1 .. R PROVE EntryOK(ne[r], Len(t.values), B + R) /\ ne[r].kind # "Mutable"
    <3>1. ne[r] = ReadOnly(TRUE, B + r)
      BY <1>11
    <3>2. ne[r].kind = "ReadOnly" /\ ne[r].idx = B + r
      BY <3>1 DEF ReadOnly
    <3>3. B + r \in 1 .. B + R
      <4>1. B \in Nat
        BY <1>1, <1>2 DEF Bounds
      <4> QED  BY <1>8, <4>1
    <3> QED  BY <3>1, <3>2, <3>3 DEF EntryOK
  <2> QED  BY <1>2, <1>10, <1>11, <2>1 DEF Readers
<1>13. Links(ls, Len(t.nodes), K)
  BY <1>7, <1>9, LinkListOK
<1>14. Copies(t, cs, K, E + R)
  <2>1. cs = [j \in 1 .. K |-> ThawNode(kids[j], t.nodes[i].generation, E + Rank(V, j))]
    BY <1>2, <1>8, <1>9, Zenon DEF ThawCopies
  <2>2. cs = [j \in 1 .. K |-> cs[j]]
    BY <2>1
  <2>3. IsSeq(cs) /\ Len(cs) = K
    BY <1>8, <2>2, SeqFun
  <2>4. ASSUME NEW j \in 1 .. K PROVE IsCopy(t, cs[j], E + R)
    <3>1. PICK p, e, n, F : p = kids[j] /\ e = E + Rank(V, j) /\ n = cs[j] /\ F = E + R
      OBVIOUS
    <3>2. WellFormed(p)
      BY <1>7, <1>8, <3>1
    <3>3. E \in Nat /\ F \in Nat
      BY <1>1, <1>2, <1>8, <3>1 DEF Bounds
    <3>4. p.value # None => e \in E + 1 .. F
      <4>1. p.value # None => Rank(V, j) \in 1 .. R
        BY <1>8, <3>1
      <4> QED  BY <1>8, <3>1, <3>3, <4>1
    <3>5. n = ThawNode(p, Current(t) - 1, e)
      BY <1>4, <2>1, <3>1
    <3>6. IsCopy(t, n, F)
      BY <1>2, <3>2, <3>3, <3>4, <3>5, ThawCopy
    <3> QED  BY <3>1, <3>6
  <2> QED  BY <2>3, <2>4 DEF Copies
<1>15. PICK w, u : w = Widened(t, kids) /\ u = make_owned(t, i)
  OBVIOUS
<1>16. w = [generations |-> t.generations, entries |-> t.entries, values |-> t.values,
            borrowed_values |-> Cat(t.borrowed_values, vals), nodes |-> t.nodes]
  <2>1. t = [generations |-> t.generations, entries |-> t.entries, values |-> t.values,
             borrowed_values |-> t.borrowed_values, nodes |-> t.nodes]
    BY <1>1, TrieFields
  <2>2. PICK bs : bs = Cat(t.borrowed_values, vals)
    OBVIOUS
  <2>3. w = [t EXCEPT !.borrowed_values = bs]
    BY <1>9, <1>15, <2>2, Zenon DEF Widened, Cat
  <2> QED  BY <2>1, <2>2, <2>3
<1>17. w.nodes = t.nodes /\ w.entries = t.entries
  BY <1>16
<1>18. LinkList(w, i, kids) = ls /\ ThawCopies(w, i, kids) = cs
  BY <1>9, <1>17, Zenon DEF LinkList, ThawCopies
<1>19. u = AdoptRec(w, i, t.nodes[i].generation, ls, cs, ne)
  <2>1. u = AdoptRec(w, i, w.nodes[i].generation, LinkList(w, i, kids),
                     ThawCopies(w, i, kids), ThawReaders(t, kids))
    BY <1>2, <1>15, MakeOwnedThaws, Zenon
  <2> QED  BY <1>9, <1>17, <1>18, <2>1
<1>20. AdoptInput(t, i, vals, ne, ls, cs, w, u)
  BY <1>2, <1>3, <1>10, <1>11, <1>12, <1>13, <1>14, <1>16, <1>19 DEF AdoptInput
<1>21. OwnedAt(t, u, i)
  BY <1>20, AdoptGood
<1> QED  BY <1>15, <1>21

(* The nodes of older generations. *)
LEMMA OldNode ==
  ASSUME NEW t, TrieInv(t), Current(t) > 1, NEW k \in 1 .. Lo(t).num_nodes
  PROVE  NodeOK(t.nodes[k], Lo(t).num_nodes, Lo(t).num_entries, Current(t) - 1)
<1>1. PICK g : g = Current(t) - 1
  OBVIOUS
<1>2. Current(t) \in Nat \ {0}
  BY Now DEF Bounds
<1>3. g \in 1 .. Current(t) /\ g < Current(t) /\ g + 1 = Current(t)
  BY <1>1, <1>2
<1>4. Limit(t, g) = Lo(t)
  BY <1>3 DEF Limit, Lo
<1>5. GenInv(t, g, Low(t, g), Lo(t))
  BY <1>3, <1>4 DEF TrieInv
<1> QED  BY <1>1, <1>5 DEF GenInv, Covered

(* The copy of a node of an older generation. *)
LEMMA MigrateCopy ==
  ASSUME NEW t, TrieInv(t), NEW p, NodeOK(p, Lo(t).num_nodes, Lo(t).num_entries, Current(t) - 1),
         NEW e, NEW E \in Nat, p.value # None => e \in Len(t.entries) + 1 .. E,
         NEW n, n = MigrateNode(p, Current(t) - 1, e)
  PROVE  IsCopy(t, n, E)
<1>1. Bounds(t)
  BY Now
<1>2. PICK L, N, G : L = Lo(t).num_nodes /\ N = Len(t.nodes) /\ G = Current(t)
  OBVIOUS
<1>3. L \in Nat /\ N \in Nat /\ L <= N /\ G \in Nat \ {0}
  BY <1>1, <1>2 DEF Bounds
<1>4. p = MutableNode(p.generation, p.value, p.path, p.children, p.origin)
  BY DEF NodeOK
<1>5. PICK x, y : x = [p EXCEPT !.generation = G - 1] /\ y = IF p.value = None THEN None ELSE e
  OBVIOUS
<1>6. x = MutableNode(G - 1, p.value, p.path, p.children, p.origin)
  BY <1>4, <1>5 DEF MutableNode
<1>7. n = [x EXCEPT !.value = y]
  <2>1. x.value = p.value
    BY <1>6 DEF MutableNode
  <2>2. n = [x EXCEPT !.value = IF x.value = None THEN None ELSE e]
    BY <1>2, <1>5, Zenon DEF MigrateNode
  <2> QED  BY <1>5, <2>1, <2>2
<1>8. n = MutableNode(G - 1, y, p.path, p.children, p.origin)
  BY <1>6, <1>7 DEF MutableNode
<1>9. /\ n = MutableNode(n.generation, n.value, n.path, n.children, n.origin)
      /\ n.generation = G - 1 /\ n.value = y /\ n.path = p.path
      /\ n.children = p.children /\ n.origin = p.origin
  BY <1>8 DEF MutableNode
<1>10. /\ IsSeq(p.path) /\ (p.origin = None \/ WellFormed(p.origin))
       /\ ChildrenOK(p.children, L, G - 1)
  BY <1>2 DEF NodeOK
<1>11. PICK c : c = p.children
  OBVIOUS
<1>12. /\ c.kind = "Owned" => c.generation \in 0 .. G - 2
       /\ c.kind = "Owned" => \A j \in DOMAIN c.list : c.list[j].index \in 1 .. L
  <2>1. ChildrenOK(c, L, G - 1)
    BY <1>10, <1>11
  <2>2. c.kind = "Owned" => c.generation \in 0 .. (G - 1) - 1
    BY <2>1 DEF ChildrenOK
  <2>3. c.kind = "Owned" => \A j \in DOMAIN c.list : c.list[j].index \in 1 .. L
    BY <2>1 DEF ChildrenOK
  <2>4. (G - 1) - 1 = G - 2
    BY <1>3
  <2> QED  BY <2>2, <2>3, <2>4
<1>13. ChildrenOK(c, N, G)
  <2>1. ChildrenOK(c, L, G - 1)
    BY <1>10, <1>11
  <2>2. 1 .. L \subseteq 1 .. N /\ 0 .. (G - 1) - 1 \subseteq 0 .. G - 1
    BY <1>3
  <2> QED  BY <2>1, <2>2 DEF ChildrenOK
<1>14. n.value # None => n.value \in 1 .. E /\ n.value > Lo(t).num_entries
  <2> SUFFICES ASSUME n.value # None PROVE n.value \in 1 .. E /\ n.value > Lo(t).num_entries
    OBVIOUS
  <2>1. n.value = e /\ e \in Len(t.entries) + 1 .. E
    BY <1>5, <1>9
  <2> QED  BY <1>1, <2>1 DEF Bounds
<1>15. G - 1 \in 0 .. G - 1
  BY <1>3
<1>16. NodeOK(n, N, E, G)
  BY <1>9, <1>10, <1>11, <1>13, <1>14, <1>15 DEF NodeOK
<1>17. ~ Own(n)
  <2> SUFFICES ASSUME Own(n) PROVE FALSE
    OBVIOUS
  <2>1. c.kind = "Owned" /\ c.generation = G - 1
    BY <1>9, <1>11 DEF Own
  <2>2. G - 1 \in 0 .. G - 2
    BY <1>12, <2>1
  <2> QED  BY <1>3, <2>2
<1>18. OwnNode(n, G, Lo(t))
  <2>1. c.kind = "Owned" => \A j \in DOMAIN c.list : c.list[j].index <= Lo(t).num_nodes
    BY <1>2, <1>3, <1>12
  <2> QED  BY <1>9, <1>11, <1>14, <2>1 DEF OwnNode
<1> QED  BY <1>2, <1>9, <1>16, <1>17, <1>18 DEF IsCopy

(* A migrated entry reads the value and does not own it. *)
LEMMA MigrateEntryOK ==
  ASSUME NEW e, NEW V, NEW W, EntryOK(e, V, W)
  PROVE  EntryOK(MigrateEntry(e), V, W) /\ MigrateEntry(e).kind # "Mutable"
<1>1. CASE e = Deleted
  <2>1. e.kind = "Deleted"
    BY <1>1 DEF Deleted
  <2>2. MigrateEntry(e) = e
    BY <2>1 DEF MigrateEntry
  <2> QED  BY <1>1, <2>1, <2>2 DEF EntryOK
<1>2. CASE e.kind = "Mutable" /\ e = Mutable(e.idx) /\ e.idx \in 1 .. V
  <2>1. PICK x, m : x = e.idx /\ m = MigrateEntry(e)
    OBVIOUS
  <2>2. m = ReadOnly(FALSE, x) /\ x \in 1 .. V
    BY <1>2, <2>1 DEF MigrateEntry
  <2>3. m.kind = "ReadOnly" /\ m.idx = x
    BY <2>2 DEF ReadOnly
  <2>4. EntryOK(m, V, W) /\ m.kind # "Mutable"
    BY <2>2, <2>3 DEF EntryOK
  <2> QED  BY <2>1, <2>4
<1>3. CASE e.kind = "ReadOnly"
  <2>1. MigrateEntry(e) = e
    BY <1>3 DEF MigrateEntry
  <2> QED  BY <1>3, <2>1
<1> QED  BY <1>1, <1>2, <1>3 DEF EntryOK

(* Copying the children of an older generation. *)
LEMMA MigrateGood ==
  ASSUME NEW t, TrieInv(t), NEW i \in Mine(t), t.nodes[i].children.kind # "Borrowed",
         t.nodes[i].children.generation # t.nodes[i].generation
  PROVE  OwnedAt(t, make_owned(t, i), i)
<1>1. IsTrie(t) /\ Bounds(t) /\ EntriesNow(t)
  BY Now
<1>2. PICK list, kids, K, V, R, E, L : /\ list = t.nodes[i].children.list /\ kids = KidsOf(t, i) /\ K = Len(list)
                                       /\ V = Valued(kids) /\ R = Cardinality(V)
                                       /\ E = Len(t.entries) /\ L = Lo(t).num_nodes
  OBVIOUS
<1>3. ~ Own(t.nodes[i])
  BY DEF Own
<1>4. NodeOK(t.nodes[i], Len(t.nodes), Len(t.entries), Current(t)) /\ OwnNode(t.nodes[i], Current(t), Lo(t))
  BY MyNode
<1>5. /\ t.nodes[i].generation = Current(t) - 1
      /\ t.nodes[i].children.kind = "Owned" /\ t.nodes[i].children.generation \in 0 .. Current(t) - 1
      /\ IsSeq(list)
      /\ \A j \in DOMAIN list : list[j].index \in 1 .. L
  <2>1. t.nodes[i].generation = Current(t) - 1
    BY <1>3, <1>4 DEF OwnNode
  <2>2. ChildrenOK(t.nodes[i].children, Len(t.nodes), Current(t))
    BY <1>4 DEF NodeOK
  <2>3. /\ t.nodes[i].children.kind = "Owned" /\ t.nodes[i].children.generation \in 0 .. Current(t) - 1
        /\ IsSeq(list)
        /\ \A j \in DOMAIN list : list[j].index \in 1 .. Len(t.nodes)
    BY <1>2, <2>2 DEF ChildrenOK
  <2>4. \A j \in DOMAIN list : list[j].index <= L
    BY <1>2, <1>3, <1>4, <2>3 DEF OwnNode
  <2>5. \A j \in DOMAIN list : list[j].index \in 1 .. L
    <3>1. Len(t.nodes) \in Nat /\ L \in Nat
      BY <1>1, <1>2 DEF Bounds
    <3> QED  BY <2>3, <2>4, <3>1
  <2> QED  BY <2>1, <2>3, <2>5
<1>6. Current(t) > 1
  <2>1. PICK G, c : G = Current(t) /\ c = t.nodes[i].children.generation
    OBVIOUS
  <2>2. c \in 0 .. G - 1 /\ c # G - 1 /\ G \in Nat \ {0}
    BY <1>1, <1>5, <2>1 DEF Bounds
  <2>3. G > 1
    BY <2>2
  <2> QED  BY <2>1, <2>3
<1>7. kids = [j \in DOMAIN list |-> t.nodes[list[j].index]]
  BY <1>2 DEF KidsOf
<1>8. /\ IsSeq(kids) /\ Len(kids) = K
      /\ \A j \in DOMAIN kids : NodeOK(kids[j], Lo(t).num_nodes, Lo(t).num_entries, Current(t) - 1)
  <2>1. DOMAIN kids = DOMAIN list /\ kids = [j \in DOMAIN kids |-> kids[j]]
    BY <1>7
  <2>2. IsSeq(kids) /\ Len(kids) = K
    BY <1>2, <1>5, <2>1, SeqSame
  <2>3. ASSUME NEW j \in DOMAIN kids
        PROVE  NodeOK(kids[j], Lo(t).num_nodes, Lo(t).num_entries, Current(t) - 1)
    <3>1. PICK k : k = list[j].index
      OBVIOUS
    <3>2. k \in 1 .. Lo(t).num_nodes /\ kids[j] = t.nodes[k]
      BY <1>2, <1>5, <1>7, <2>1, <3>1
    <3>3. NodeOK(t.nodes[k], Lo(t).num_nodes, Lo(t).num_entries, Current(t) - 1)
      BY <1>6, <3>2, OldNode
    <3> QED  BY <3>2, <3>3
  <2> QED  BY <2>2, <2>3
<1>9. /\ R \in Nat /\ K \in Nat /\ DOMAIN kids = 1 .. K
      /\ \A j \in 1 .. K : kids[j].value # None => Rank(V, j) \in 1 .. R
      /\ DOMAIN InOrder(V) = 1 .. R
      /\ \A r \in 1 .. R : InOrder(V)[r] \in 1 .. K /\ kids[InOrder(V)[r]].value # None
  <2>1. V = Valued(kids) /\ R = Cardinality(V) /\ IsSeq(kids)
    BY <1>2, <1>8
  <2>2. /\ R \in Nat /\ Len(kids) \in Nat /\ DOMAIN kids = 1 .. Len(kids)
        /\ \A j \in 1 .. Len(kids) : kids[j].value # None => Rank(V, j) \in 1 .. R
        /\ DOMAIN InOrder(V) = 1 .. R
        /\ \A r \in 1 .. R : InOrder(V)[r] \in 1 .. Len(kids) /\ kids[InOrder(V)[r]].value # None
    BY <2>1, ValuedFacts
  <2> QED  BY <1>8, <2>2
<1>10. PICK ne, cs, ls : /\ ne = MigrateReaders(t, kids)
                         /\ cs = MigrateCopies(t, i, kids) /\ ls = LinkList(t, i, kids)
  OBVIOUS
<1>11. IsSeq(ne) /\ Len(ne) = R /\ \A r \in 1 .. R : ne[r] = MigrateEntry(t.entries[kids[InOrder(V)[r]].value])
  <2>1. ne = [r \in 1 .. R |-> MigrateEntry(t.entries[kids[InOrder(V)[r]].value])]
    BY <1>2, <1>9, <1>10, Zenon DEF MigrateReaders
  <2>2. ne = [r \in 1 .. R |-> ne[r]]
    BY <2>1
  <2> QED  BY <1>9, <2>1, <2>2, SeqFun
<1>12. Readers(t, ne, Len(t.borrowed_values) + Len(<<>>))
  <2>1. ASSUME NEW r \in 1 .. R PROVE EntryOK(ne[r], Len(t.values), Len(t.borrowed_values)) /\ ne[r].kind # "Mutable"
    <3>1. PICK j, e : j = InOrder(V)[r] /\ e = kids[j].value
      OBVIOUS
    <3>2. j \in DOMAIN kids /\ e # None /\ ne[r] = MigrateEntry(t.entries[e])
      BY <1>9, <1>11, <3>1
    <3>3. e \in 1 .. Lo(t).num_entries
      BY <1>8, <3>1, <3>2 DEF NodeOK
    <3>4. e \in 1 .. Len(t.entries)
      BY <1>1, <3>3 DEF Bounds
    <3>5. EntryOK(t.entries[e], Len(t.values), Len(t.borrowed_values))
      BY <1>1, <3>4 DEF EntriesNow
    <3> QED  BY <3>2, <3>5, MigrateEntryOK
  <2>2. Len(t.borrowed_values) + Len(<<>>) = Len(t.borrowed_values)
    <3>1. Len(<<>>) = 0 /\ Len(t.borrowed_values) \in Nat
      BY <1>1, SeqSmall DEF Bounds
    <3> QED  BY <3>1
  <2> QED  BY <1>11, <2>1, <2>2 DEF Readers
<1>13. Links(ls, Len(t.nodes), K)
  BY <1>8, <1>10, LinkListOK
<1>14. Copies(t, cs, K, E + R)
  <2>1. cs = [j \in 1 .. K |-> MigrateNode(kids[j], t.nodes[i].generation, E + Rank(V, j))]
    BY <1>2, <1>9, <1>10, Zenon DEF MigrateCopies
  <2>2. cs = [j \in 1 .. K |-> cs[j]]
    BY <2>1
  <2>3. IsSeq(cs) /\ Len(cs) = K
    BY <1>9, <2>2, SeqFun
  <2>4. ASSUME NEW j \in 1 .. K PROVE IsCopy(t, cs[j], E + R)
    <3>1. PICK p, e, n, F : p = kids[j] /\ e = E + Rank(V, j) /\ n = cs[j] /\ F = E + R
      OBVIOUS
    <3>2. NodeOK(p, Lo(t).num_nodes, Lo(t).num_entries, Current(t) - 1)
      BY <1>8, <1>9, <3>1
    <3>3. E \in Nat /\ F \in Nat
      BY <1>1, <1>2, <1>9, <3>1 DEF Bounds
    <3>4. p.value # None => e \in E + 1 .. F
      <4>1. p.value # None => Rank(V, j) \in 1 .. R
        BY <1>9, <3>1
      <4> QED  BY <1>9, <3>1, <3>3, <4>1
    <3>5. n = MigrateNode(p, Current(t) - 1, e)
      BY <1>5, <2>1, <3>1
    <3>6. IsCopy(t, n, F)
      BY <1>2, <3>2, <3>3, <3>4, <3>5, MigrateCopy
    <3> QED  BY <3>1, <3>6
  <2> QED  BY <2>3, <2>4 DEF Copies
<1>15. PICK u : u = make_owned(t, i)
  OBVIOUS
<1>16. t = [generations |-> t.generations, entries |-> t.entries, values |-> t.values,
            borrowed_values |-> Cat(t.borrowed_values, <<>>), nodes |-> t.nodes]
  <2>1. t = [generations |-> t.generations, entries |-> t.entries, values |-> t.values,
             borrowed_values |-> t.borrowed_values, nodes |-> t.nodes]
    BY <1>1, TrieFields
  <2>2. Cat(t.borrowed_values, <<>>) = t.borrowed_values
    <3>1. PICK S : t.borrowed_values \in Seq(S)
      BY <1>1, SeqIsSeq DEF IsTrie
    <3> QED  BY <3>1, ConcatEmptySeq DEF Cat
  <2> QED  BY <2>1, <2>2
<1>19. u = AdoptRec(t, i, t.nodes[i].generation, ls, cs, ne)
  BY <1>2, <1>10, <1>15, MakeOwnedMigrates
<1>20. AdoptInput(t, i, <<>>, ne, ls, cs, t, u)
  <2>1. IsSeq(<<>>)
    BY SeqSmall
  <2> QED  BY <1>2, <1>3, <1>11, <1>12, <1>13, <1>14, <1>16, <1>19, <2>1 DEF AdoptInput
<1>21. OwnedAt(t, u, i)
  BY <1>20, AdoptGood
<1> QED  BY <1>15, <1>21

(* make_owned gives a node children of its own, whoever had them. *)
LEMMA MakeOwnedGood ==
  ASSUME NEW t, TrieInv(t), NEW i \in Mine(t)
  PROVE  OwnedAt(t, make_owned(t, i), i)
<1>1. CASE t.nodes[i].children.kind = "Borrowed"
  BY <1>1, ThawGood
<1>2. CASE /\ t.nodes[i].children.kind # "Borrowed"
           /\ t.nodes[i].children.generation # t.nodes[i].generation
  BY <1>2, MigrateGood
<1>3. CASE /\ t.nodes[i].children.kind # "Borrowed"
           /\ t.nodes[i].children.generation = t.nodes[i].generation
  <2>1. NodeOK(t.nodes[i], Len(t.nodes), Len(t.entries), Current(t))
    BY MyNode
  <2>2. Own(t.nodes[i])
    BY <1>3, <2>1 DEF NodeOK, ChildrenOK, Own
  <2>3. make_owned(t, i) = t
    BY <2>2, MakeOwnedOwn
  <2>4. Good(t, t) /\ Keeps(t, t)
    BY GoodSame, KeepsSame
  <2> QED  BY <2>2, <2>3, <2>4 DEF OwnedAt
<1> QED  BY <1>1, <1>2, <1>3

=============================================================================
