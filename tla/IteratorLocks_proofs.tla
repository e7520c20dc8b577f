------------------------- MODULE IteratorLocks_proofs -------------------------
(***************************************************************************)
(* Proofs about IteratorLocks, for every set of keys and every maximal     *)
(* count.  NodesAreLivePaths together with the types is inductive; the two *)
(* lock checks are exact because of it.                                    *)
(***************************************************************************)
EXTENDS IteratorLocks, TLAPS, WellFoundedInduction

USE MaxCountAssumption, KeysAssumption

(* The prefixes of a key are sequences, and prefixes compose. *)
LEMMA PreFacts ==
  ASSUME NEW s \in Seq(Nat), NEW i \in 0 .. Len(s)
  PROVE  /\ Pre(s, i) \in Seq(Nat)
         /\ Len(Pre(s, i)) = i
         /\ \A j \in 1 .. i : Pre(s, i)[j] = s[j]
         /\ \A j \in 0 .. i : Pre(Pre(s, i), j) = Pre(s, j)
         /\ Pre(s, Len(s)) = s
<1>1. /\ Pre(s, i) \in Seq(Nat)
      /\ Len(Pre(s, i)) = i
      /\ \A j \in 1 .. i : Pre(s, i)[j] = s[j]
  BY DEF Pre
<1>2. \A j \in 0 .. i : Pre(Pre(s, i), j) = Pre(s, j)
  BY DEF Pre
<1>3. Pre(s, Len(s)) = s
  BY DEF Pre
<1> QED  BY <1>1, <1>2, <1>3

(* A non-empty set of naturals has a least element. *)
LEMMA LeastNat ==
  ASSUME NEW T \in SUBSET Nat, T # {}
  PROVE  \E n \in T : \A m \in T : n <= m
<1> DEFINE R == {ss \in Nat \X Nat : ss[1] < ss[2]}
<1>1. IsWellFoundedOn(R, Nat)
  BY NatLessThanWellFounded DEF OpToRel
<1>2. PICK n \in T : \A m \in T : <<m, n>> \notin R
  <2> HIDE DEF R
  <2> QED  BY <1>1, WFMin
<1>3. \A m \in T : ~ (m < n)
  BY <1>2
<1> QED  BY <1>3

(* The inductive invariant: a node is a path to a locked key. *)
IInv == TypeOK /\ NodesAreLivePaths

(* What NodesAreLivePaths says, path by path. *)
LEMMA LivePaths ==
  ASSUME TypeOK, NodesAreLivePaths
  PROVE  /\ \A p : p \in DOMAIN map <=>
                    \E q \in Locked : Len(p) <= Len(q) /\ p = Pre(q, Len(p)) /\ Len(p) \in Nat
         /\ \A q \in Locked : \A i \in 0 .. Len(q) : Pre(q, i) \in DOMAIN map
         /\ \A q \in Locked : q \in DOMAIN map /\ map[q] = held[q] /\ map[q] > 0
         /\ \A p \in DOMAIN map : map[p] > 0 => p \in Locked
<1>0. Locked \subseteq Seq(Nat)
  BY DEF Locked
<1>1. \A q \in Locked : \A i \in 0 .. Len(q) : Pre(q, i) \in DOMAIN map
  <2> TAKE q \in Locked
  <2> TAKE i \in 0 .. Len(q)
  <2> DEFINE paths(k) == {Pre(k, j) : j \in 0 .. Len(k)}
  <2>1. Pre(q, i) \in paths(q)
    OBVIOUS
  <2>2. DOMAIN map = UNION {paths(k) : k \in Locked}
    BY DEF NodesAreLivePaths
  <2> HIDE DEF paths
  <2> QED  BY <2>1, <2>2
<1>2. \A q \in Locked : q \in DOMAIN map /\ map[q] = held[q] /\ map[q] > 0
  <2> TAKE q \in Locked
  <2>1. Pre(q, Len(q)) = q /\ Len(q) \in 0 .. Len(q)
    BY <1>0, PreFacts
  <2>2. q \in DOMAIN map
    BY <1>1, <2>1
  <2> QED  BY <2>2 DEF NodesAreLivePaths, Locked
<1>3. ASSUME NEW p
      PROVE  p \in DOMAIN map <=>
               \E q \in Locked : Len(p) <= Len(q) /\ p = Pre(q, Len(p)) /\ Len(p) \in Nat
  <2>1. ASSUME p \in DOMAIN map
        PROVE  \E q \in Locked : Len(p) <= Len(q) /\ p = Pre(q, Len(p)) /\ Len(p) \in Nat
    <3>1. PICK q \in Locked : p \in {Pre(q, i) : i \in 0 .. Len(q)}
      BY <2>1 DEF NodesAreLivePaths
    <3>2. PICK i \in 0 .. Len(q) : p = Pre(q, i)
      BY <3>1
    <3>3. Len(p) = i
      BY <1>0, <3>2, PreFacts
    <3> QED  BY <3>2, <3>3, <1>0
  <2>2. ASSUME NEW q \in Locked, Len(p) <= Len(q), p = Pre(q, Len(p)), Len(p) \in Nat
        PROVE  p \in DOMAIN map
    BY <1>0, <1>1, <2>2
  <2> QED  BY <2>1, <2>2
<1>4. \A p \in DOMAIN map : map[p] > 0 => p \in Locked
  BY DEF NodesAreLivePaths, Locked
<1> QED  BY <1>1, <1>2, <1>3, <1>4

(* check_has_no_prefix refuses exactly the keys below a locked one: the    *)
(* walk along the key cannot leave the tree before it meets the lock.      *)
THEOREM IInvPointLockExact == IInv => PointLockExact
<1> SUFFICES ASSUME TypeOK, NodesAreLivePaths, NEW k \in Keys
             PROVE  check_has_no_prefix(map, k) <=> ~ \E p \in Locked : Extends(k, p)
  BY DEF IInv, PointLockExact
<1>0. Locked \subseteq Seq(Nat) /\ k \in Seq(Nat)
  BY DEF Locked
<1>1. ASSUME NEW i \in 0 .. Len(k), Reaches(map, k, i), map[Pre(k, i)] > 0
      PROVE  \E p \in Locked : Extends(k, p)
  <2>1. Pre(k, i) \in DOMAIN map
    BY <1>1 DEF Reaches
  <2>2. Pre(k, i) \in Locked
    BY <2>1, <1>1, LivePaths
  <2>3. Len(Pre(k, i)) = i
    BY <1>0, PreFacts
  <2> QED  BY <2>2, <2>3, <1>0 DEF Extends
<1>2. ASSUME NEW p \in Locked, Extends(k, p)
      PROVE  \E i \in 0 .. Len(k) : Reaches(map, k, i) /\ map[Pre(k, i)] > 0
  <2>1. p = Pre(k, Len(p)) /\ Len(p) \in 0 .. Len(k)
    BY <1>0, <1>2 DEF Extends
  <2>2. \A j \in 0 .. Len(p) : Pre(k, j) = Pre(p, j)
    BY <1>0, <2>1, PreFacts
  <2>3. \A j \in 0 .. Len(p) : Pre(k, j) \in DOMAIN map
    BY <2>2, LivePaths
  <2>4. map[p] > 0
    BY LivePaths
  <2> QED  BY <2>1, <2>3, <2>4 DEF Reaches
<1> QED  BY <1>1, <1>2 DEF check_has_no_prefix

(* is_or_has_prefix refuses exactly the subtrees that overlap the area of  *)
(* a live iterator.                                                        *)
THEOREM IInvSubtreeLockExact == IInv => SubtreeLockExact
<1> SUFFICES ASSUME TypeOK, NodesAreLivePaths, NEW k \in Keys
             PROVE  is_or_has_prefix(map, k) <=>
                      \E p \in Locked : Extends(k, p) \/ Extends(p, k)
  BY DEF IInv, SubtreeLockExact
<1>0. Locked \subseteq Seq(Nat) /\ k \in Seq(Nat)
  BY DEF Locked
<1>1. ASSUME NEW i \in 0 .. Len(k) - 1, Reaches(map, k, i), map[Pre(k, i)] > 0
      PROVE  \E p \in Locked : Extends(k, p)
  <2>1. Pre(k, i) \in DOMAIN map /\ i \in 0 .. Len(k)
    BY <1>0, <1>1 DEF Reaches
  <2>2. Pre(k, i) \in Locked
    BY <2>1, <1>1, LivePaths
  <2>3. Len(Pre(k, i)) = i
    BY <1>0, <2>1, PreFacts
  <2> QED  BY <2>1, <2>2, <2>3, <1>0 DEF Extends
<1>2. ASSUME Reaches(map, k, Len(k))
      PROVE  \E p \in Locked : Extends(p, k)
  <2>1. k \in DOMAIN map
    BY <1>0, <1>2, PreFacts DEF Reaches
  <2> QED  BY <1>0, <2>1, LivePaths DEF Extends
<1>3. ASSUME NEW p \in Locked, Extends(p, k)
      PROVE  Reaches(map, k, Len(k))
  <2>1. \A j \in 0 .. Len(k) : Pre(k, j) = Pre(p, j) /\ j \in 0 .. Len(p)
    BY <1>0, <1>3, PreFacts DEF Extends
  <2> QED  BY <2>1, LivePaths DEF Reaches
<1>4. ASSUME NEW p \in Locked, Extends(k, p), p # k
      PROVE  \E i \in 0 .. Len(k) - 1 : Reaches(map, k, i) /\ map[Pre(k, i)] > 0
  <2>1. p = Pre(k, Len(p)) /\ Len(p) \in 0 .. Len(k)
    BY <1>0, <1>4 DEF Extends
  <2>2. Len(p) # Len(k)
    BY <1>0, <1>4, <2>1, PreFacts
  <2>3. \A j \in 0 .. Len(p) : Pre(k, j) = Pre(p, j)
    BY <1>0, <2>1, PreFacts
  <2>4. \A j \in 0 .. Len(p) : Pre(k, j) \in DOMAIN map
    BY <2>3, LivePaths
  <2>5. map[p] > 0 /\ Len(p) \in 0 .. Len(k) - 1
    BY <1>0, <2>1, <2>2, LivePaths
  <2> QED  BY <2>1, <2>4, <2>5 DEF Reaches
<1>5. ASSUME k \in Locked
      PROVE  Extends(k, k)
  BY <1>0, PreFacts DEF Extends
<1> QED  BY <1>1, <1>2, <1>3, <1>4, <1>5 DEF is_or_has_prefix

(* The invariant holds initially. *)
LEMMA InitIInv == Init => IInv
<1> SUFFICES ASSUME Init PROVE IInv
  OBVIOUS
<1>1. DOMAIN map = {} /\ Locked = {}
  BY DEF Init, new, Locked
<1>2. NodesAreLivePaths
  BY <1>1 DEF NodesAreLivePaths
<1>3. TypeOK
  <2>1. new \in [{} -> 0 .. MaxCount]
    BY DEF new
  <2>2. map \in [DOMAIN map -> 0 .. MaxCount]
    BY <1>1, <2>1 DEF Init
  <2>3. held \in [Keys -> 0 .. MaxCount]
    BY DEF Init
  <2>4. ret \in BOOLEAN
    BY DEF Init
  <2> QED  BY <1>1, <2>2, <2>3, <2>4 DEF TypeOK
<1> QED  BY <1>2, <1>3 DEF IInv

(* A lock is added: the new nodes are the path to the new key. *)
LEMMA InsertIInv ==
  ASSUME IInv, NEW k \in Keys, Insert(k)
  PROVE  IInv'
<1> USE DEF IInv
<1>0. Locked \subseteq Seq(Nat) /\ k \in Seq(Nat)
  BY DEF Locked
<1>1. CASE insertFails(map, k)
  <2>1. map' = map /\ held[k] = MaxCount
    BY <1>1 DEF Insert, insert, insertFails, NodesAreLivePaths
  <2>2. held' = held /\ ret' \in BOOLEAN
    BY <2>1 DEF Insert
  <2>3. TypeOK'
    BY <2>1, <2>2 DEF TypeOK
  <2>4. Locked' = Locked
    BY <2>2 DEF Locked
  <2> QED  BY <2>1, <2>2, <2>3, <2>4 DEF NodesAreLivePaths
<1>2. CASE ~ insertFails(map, k)
  <2> DEFINE P == {Pre(k, i) : i \in 0 .. Len(k)}
  <2>1. k \in P
    BY <1>0, PreFacts
  <2>2. /\ DOMAIN map' = DOMAIN map \cup P
        /\ map'[k] = (IF k \in DOMAIN map THEN map[k] ELSE 0) + 1
        /\ \A p \in DOMAIN map' : p # k =>
               map'[p] = IF p \in DOMAIN map THEN map[p] ELSE 0
    BY <1>2, <2>1 DEF Insert, insert, WithPath
  <2>3. held[k] = IF k \in DOMAIN map THEN map[k] ELSE 0
    <3>1. CASE k \in DOMAIN map
      BY <3>1 DEF NodesAreLivePaths
    <3>2. CASE k \notin DOMAIN map
      <4>1. k \notin Locked
        BY <3>2, LivePaths
      <4> QED  BY <3>2, <4>1 DEF Locked, TypeOK
    <3> QED  BY <3>1, <3>2
  <2>4. held[k] < MaxCount
    BY <1>2, <2>3 DEF insertFails, TypeOK
  <2>5. held' = [held EXCEPT ![k] = @ + 1]
    BY <2>4 DEF Insert
  <2>6. Locked' = Locked \cup {k}
    BY <2>5 DEF Locked, TypeOK
  <2>7. DOMAIN map' = UNION {{Pre(q, i) : i \in 0 .. Len(q)} : q \in Locked'}
    BY <2>2, <2>6 DEF NodesAreLivePaths
  <2>8. \A p \in DOMAIN map' : map'[p] = IF p \in Keys THEN held'[p] ELSE 0
    <3> SUFFICES ASSUME NEW p \in DOMAIN map'
                 PROVE  map'[p] = IF p \in Keys THEN held'[p] ELSE 0
      OBVIOUS
    <3>1. CASE p = k
      BY <3>1, <2>2, <2>3, <2>5 DEF TypeOK
    <3>2. CASE p # k /\ p \in DOMAIN map
      BY <3>2, <2>2, <2>5 DEF TypeOK, NodesAreLivePaths
    <3>3. CASE p # k /\ p \notin DOMAIN map
      <4>1. p \notin Locked
        BY <3>3, LivePaths
      <4>2. p \in Keys => held[p] = 0
        BY <4>1 DEF Locked, TypeOK
      <4> QED  BY <3>3, <4>2, <2>2, <2>5 DEF TypeOK
    <3> QED  BY <3>1, <3>2, <3>3
  <2>9. TypeOK'
    <3>1. P \subseteq Seq(Nat)
      BY <1>0, PreFacts
    <3>2. DOMAIN map' \subseteq Seq(Nat)
      BY <2>2, <3>1 DEF TypeOK
    <3>3. held' \in [Keys -> 0 .. MaxCount]
      BY <2>4, <2>5 DEF TypeOK
    <3>4. \A p \in DOMAIN map' : map'[p] \in 0 .. MaxCount
      BY <2>8, <3>3
    <3>5. map' = [p \in DOMAIN map' |-> map'[p]]
      BY <1>2 DEF Insert, insert, WithPath
    <3>6. ret' \in BOOLEAN
      BY DEF Insert
    <3> QED  BY <3>2, <3>3, <3>4, <3>5, <3>6 DEF TypeOK
  <2> QED  BY <2>7, <2>8, <2>9 DEF NodesAreLivePaths
<1> QED  BY <1>1, <1>2

(* No dead branch stays: a node on the path of k that delete leaves has    *)
(* another locked key below it.                                            *)
LEMMA UnprunedIsLive ==
  ASSUME IInv, NEW k \in Keys, NEW i \in 0 .. Len(k),
         Reaches(map, k, Len(k)), map[k] <= 1,
         Pre(k, i) \notin Pruned([map EXCEPT ![k] = 0], k)
  PROVE  \E q \in Locked \ {k} : i <= Len(q) /\ Pre(k, i) = Pre(q, i)
<1> USE DEF IInv
<1> DEFINE m == [map EXCEPT ![k] = 0]
<1>0. Locked \subseteq Seq(Nat) /\ k \in Seq(Nat) /\ DOMAIN map \subseteq Seq(Nat)
  BY DEF Locked, TypeOK
<1>1. /\ DOMAIN m = DOMAIN map
      /\ \A p \in DOMAIN map : p # k => m[p] = map[p]
  OBVIOUS
<1>2. PICK j \in i .. Len(k) :
        ~ IF j = Len(k)
          THEN Children(m, k) = {}
          ELSE m[Pre(k, j)] = 0 /\ Children(m, Pre(k, j)) = {Pre(k, j + 1)}
  BY DEF Pruned
<1>3. /\ j \in 0 .. Len(k)
      /\ Len(Pre(k, j)) = j
      /\ Pre(k, j) \in Seq(Nat)
      /\ Pre(k, j) \in DOMAIN map
      /\ Pre(Pre(k, j), i) = Pre(k, i)
      /\ j = Len(k) => Pre(k, j) = k
  BY <1>0, PreFacts DEF Reaches
<1>4. ASSUME NEW c \in Children(m, Pre(k, j)), j = Len(k) \/ c # Pre(k, j + 1)
      PROVE  \E q \in Locked \ {k} : i <= Len(q) /\ Pre(k, i) = Pre(q, i)
  <2>1. c \in DOMAIN map /\ Len(c) = j + 1 /\ Pre(c, j) = Pre(k, j)
    BY <1>1, <1>3 DEF Children, Extends
  <2>2. PICK q \in Locked : Len(c) <= Len(q) /\ c = Pre(q, Len(c))
    BY <2>1, LivePaths
  <2>3. q # k
    BY <1>0, <1>4, <2>1, <2>2
  <2>4. Pre(c, i) = Pre(q, i) /\ Pre(c, i) = Pre(k, i)
    <3>1. j + 1 \in 0 .. Len(q) /\ i \in 0 .. j + 1
      BY <1>0, <1>3, <2>1, <2>2
    <3>2. Pre(Pre(q, j + 1), i) = Pre(q, i)
      BY <1>0, <3>1, PreFacts
    <3>3. c \in Seq(Nat) /\ i \in 0 .. j /\ j \in 0 .. Len(c)
      BY <1>0, <1>2, <1>3, <2>1
    <3>4. Pre(Pre(c, j), i) = Pre(c, i)
      BY <3>3, PreFacts
    <3> QED  BY <2>1, <2>2, <3>2, <3>4, <1>3
  <2>5. i <= Len(q)
    BY <1>0, <1>2, <1>3, <2>1, <2>2
  <2> QED  BY <2>3, <2>4, <2>5
<1>5. CASE j = Len(k)
  BY <1>2, <1>3, <1>4, <1>5
<1>6. CASE j # Len(k)
  <2>1. CASE m[Pre(k, j)] # 0
    <3>1. Pre(k, j) # k
      BY <1>3, <1>6
    <3>2. map[Pre(k, j)] > 0
      BY <1>1, <1>3, <2>1, <3>1 DEF TypeOK
    <3>3. Pre(k, j) \in Locked
      BY <1>3, <3>2, LivePaths
    <3> QED  BY <1>0, <1>2, <1>3, <3>1, <3>3
  <2>2. CASE Children(m, Pre(k, j)) # {Pre(k, j + 1)}
    <3>1. j + 1 \in 0 .. Len(k) /\ j \in 0 .. j + 1
      BY <1>0, <1>3, <1>6
    <3>2. Pre(k, j + 1) \in DOMAIN map
      BY <3>1 DEF Reaches
    <3>3. Len(Pre(k, j + 1)) = j + 1 /\ Pre(Pre(k, j + 1), j) = Pre(k, j)
      BY <1>0, <3>1, PreFacts
    <3>4. Pre(k, j + 1) \in Children(m, Pre(k, j))
      BY <1>1, <1>3, <3>1, <3>2, <3>3 DEF Children, Extends
    <3> QED  BY <1>4, <2>2, <3>4
  <2> QED  BY <1>2, <1>6, <2>1, <2>2
<1> QED  BY <1>5, <1>6

(* No live branch goes: a node that delete removes has no locked key below *)
(* it other than k.  Below a pruned node the only way down is the path of  *)
(* k, so the first step at which another key left that path is impossible. *)
LEMMA PrunedIsDead ==
  ASSUME IInv, NEW k \in Keys, NEW q \in Locked \ {k}, NEW i \in 0 .. Len(q),
         Reaches(map, k, Len(k)), map[k] <= 1,
         Pre(q, i) \in Pruned([map EXCEPT ![k] = 0], k)
  PROVE  FALSE
<1> USE DEF IInv
<1> DEFINE m == [map EXCEPT ![k] = 0]
<1>0. Locked \subseteq Seq(Nat) /\ k \in Seq(Nat) /\ q \in Seq(Nat)
  BY DEF Locked, TypeOK
<1>1. /\ DOMAIN m = DOMAIN map
      /\ \A p \in DOMAIN map : p # k => m[p] = map[p]
  OBVIOUS
<1>2. PICK n \in 0 .. Len(k) :
        /\ Pre(q, i) = Pre(k, n)
        /\ \A j \in n .. Len(k) :
              IF j = Len(k)
              THEN Children(m, k) = {}
              ELSE m[Pre(k, j)] = 0 /\ Children(m, Pre(k, j)) = {Pre(k, j + 1)}
  BY DEF Pruned
<1>3. n = i
  BY <1>0, <1>2, PreFacts
<1> DEFINE Off == {j \in i .. Len(k) : ~ (j <= Len(q) /\ Pre(q, j) = Pre(k, j))}
<1>4. ASSUME Off # {}
      PROVE  FALSE
  <2>1. PICK j \in Off : \A l \in Off : j <= l
    <3>1. Off \subseteq Nat
      BY <1>0
    <3> QED  BY <1>4, <3>1, LeastNat
  <2>2. j \in i .. Len(k) /\ ~ (j <= Len(q) /\ Pre(q, j) = Pre(k, j))
    BY <2>1
  <2>3. j # i
    BY <1>2, <1>3, <2>2
  <2>4. j - 1 \in i .. Len(k) /\ j - 1 \notin Off
    BY <1>0, <2>1, <2>2, <2>3
  <2>5. j - 1 <= Len(q) /\ Pre(q, j - 1) = Pre(k, j - 1)
    BY <2>4
  <2>6. /\ j - 1 # Len(k) /\ j - 1 \in 0 .. Len(k)
        /\ m[Pre(k, j - 1)] = 0
        /\ Children(m, Pre(k, j - 1)) = {Pre(k, j)}
    <3> HIDE DEF m
    <3>1. j - 1 \in n .. Len(k) /\ j - 1 # Len(k) /\ (j - 1) + 1 = j
      BY <1>0, <1>3, <2>2, <2>4
    <3>2. m[Pre(k, j - 1)] = 0 /\ Children(m, Pre(k, j - 1)) = {Pre(k, (j - 1) + 1)}
      BY <1>2, <3>1
    <3> QED  BY <1>0, <3>1, <3>2
  <2>7. Len(Pre(k, j - 1)) = j - 1
    BY <1>0, <2>6, PreFacts
  <2>8. j <= Len(q)
    <3> SUFFICES ASSUME j - 1 = Len(q)
                 PROVE  FALSE
      BY <1>0, <2>2, <2>5
    <3>1. q = Pre(k, j - 1)
      BY <1>0, <2>5, PreFacts
    <3>2. q # k /\ q \in DOMAIN map /\ map[q] > 0
      BY LivePaths
    <3> QED  BY <1>1, <2>6, <3>1, <3>2
  <2>9. Pre(q, j) \in Children(m, Pre(k, j - 1))
    <3>1. j \in 0 .. Len(q) /\ j - 1 \in 0 .. j
      BY <1>0, <2>2, <2>6, <2>8
    <3>2. Pre(q, j) \in DOMAIN map
      BY <3>1, LivePaths
    <3>3. Len(Pre(q, j)) = j /\ Pre(Pre(q, j), j - 1) = Pre(q, j - 1)
      BY <1>0, <3>1, PreFacts
    <3> QED  BY <1>1, <2>5, <2>7, <3>1, <3>2, <3>3 DEF Children, Extends
  <2> QED  BY <2>2, <2>6, <2>8, <2>9
<1>5. ASSUME Off = {}
      PROVE  FALSE
  <2>1. Len(k) \in i .. Len(k) /\ Len(k) \notin Off
    BY <1>0, <1>3, <1>5
  <2>2. Len(k) <= Len(q) /\ Pre(q, Len(k)) = k
    BY <1>0, <2>1, PreFacts
  <2>3. Len(q) # Len(k)
    BY <1>0, <2>2, PreFacts
  <2>4. Len(k) + 1 \in 0 .. Len(q) /\ Len(k) \in 0 .. Len(k) + 1
    BY <1>0, <2>2, <2>3
  <2>5. Pre(q, Len(k) + 1) \in DOMAIN map
    BY <2>4, LivePaths
  <2>6. /\ Len(Pre(q, Len(k) + 1)) = Len(k) + 1
        /\ Pre(Pre(q, Len(k) + 1), Len(k)) = k
    BY <1>0, <2>2, <2>4, PreFacts
  <2>7. Pre(q, Len(k) + 1) \in Children(m, k)
    BY <1>0, <1>1, <2>5, <2>6 DEF Children, Extends
  <2>8. Children(m, k) = {}
    <3> HIDE DEF m
    <3> QED  BY <1>0, <1>2, <1>3, <2>1
  <2> QED  BY <2>7, <2>8
<1> QED  BY <1>4, <1>5

(* A lock is given back. *)
LEMMA DeleteIInv ==
  ASSUME IInv, NEW k \in Keys, Delete(k)
  PROVE  IInv'
<1> USE DEF IInv
<1>0. Locked \subseteq Seq(Nat) /\ k \in Seq(Nat)
  BY DEF Locked
<1>1. CASE ~ Reaches(map, k, Len(k))
  <2>1. map' = map
    BY <1>1 DEF Delete, delete
  <2>2. k \notin Locked
    BY <1>0, <1>1, LivePaths DEF Reaches
  <2>3. held' = held
    BY <2>2 DEF Delete, Locked
  <2>4. ret' \in BOOLEAN
    BY DEF Delete, deleteFinds
  <2>5. TypeOK'
    BY <2>1, <2>3, <2>4 DEF TypeOK
  <2>6. Locked' = Locked
    BY <2>3 DEF Locked
  <2> QED  BY <2>1, <2>3, <2>5, <2>6 DEF NodesAreLivePaths
<1>2. CASE Reaches(map, k, Len(k)) /\ map[k] > 1
  <2>1. k \in DOMAIN map
    BY <1>0, <1>2, PreFacts DEF Reaches
  <2>2. map' = [map EXCEPT ![k] = @ - 1]
    BY <1>2 DEF Delete, delete
  <2>3. held[k] = map[k]
    BY <2>1 DEF NodesAreLivePaths
  <2>4. held' = [held EXCEPT ![k] = @ - 1]
    BY <1>2, <2>1, <2>3 DEF Delete, TypeOK
  <2>5. Locked' = Locked
    BY <1>2, <2>3, <2>4 DEF Locked, TypeOK
  <2>6. ret' \in BOOLEAN
    BY DEF Delete, deleteFinds
  <2>7. TypeOK'
    BY <1>2, <2>1, <2>2, <2>3, <2>4, <2>6 DEF TypeOK
  <2>8. \A p \in DOMAIN map' : map'[p] = IF p \in Keys THEN held'[p] ELSE 0
    BY <2>1, <2>2, <2>3, <2>4 DEF NodesAreLivePaths, TypeOK
  <2> QED  BY <2>2, <2>5, <2>7, <2>8 DEF NodesAreLivePaths
<1>3. CASE Reaches(map, k, Len(k)) /\ ~ map[k] > 1
  <2> DEFINE m == [map EXCEPT ![k] = 0]
  <2>1. k \in DOMAIN map
    BY <1>0, <1>3, PreFacts DEF Reaches
  <2>2. map[k] <= 1 /\ held[k] = map[k]
    BY <1>3, <2>1 DEF TypeOK, NodesAreLivePaths
  <2>3. map' = [p \in DOMAIN map \ Pruned(m, k) |-> m[p]]
    BY <1>3 DEF Delete, delete, Prune
  <2>4. /\ DOMAIN map' = DOMAIN map \ Pruned(m, k)
        /\ \A p \in DOMAIN map' : map'[p] = IF p = k THEN 0 ELSE map[p]
    <3> HIDE DEF m
    <3>1. \A p \in DOMAIN map : m[p] = IF p = k THEN 0 ELSE map[p]
      BY DEF m
    <3> QED  BY <2>3, <3>1
  <2>5. held' = [held EXCEPT ![k] = 0]
    <3>1. CASE held[k] > 0
      <4>1. held[k] - 1 = 0 /\ held' = [held EXCEPT ![k] = held[k] - 1]
        BY <2>2, <3>1 DEF Delete, TypeOK
      <4> QED  BY <4>1
    <3>2. CASE ~ held[k] > 0
      <4>1. held[k] = 0
        BY <3>2 DEF TypeOK
      <4> QED  BY <3>2, <4>1 DEF Delete, TypeOK
    <3> QED  BY <3>1, <3>2
  <2>6. Locked' = Locked \ {k}
    BY <2>5 DEF Locked, TypeOK
  <2>7. DOMAIN map' \subseteq UNION {{Pre(q, i) : i \in 0 .. Len(q)} : q \in Locked'}
    <3> SUFFICES ASSUME NEW p \in DOMAIN map'
                 PROVE  \E q \in Locked \ {k} : Len(p) \in 0 .. Len(q) /\ p = Pre(q, Len(p))
      BY <2>6
    <3>1. PICK q \in Locked : Len(p) <= Len(q) /\ p = Pre(q, Len(p)) /\ Len(p) \in Nat
      BY <2>4, LivePaths
    <3>2. CASE q # k
      BY <1>0, <3>1, <3>2
    <3>3. CASE q = k
      <4>1. Len(p) \in 0 .. Len(k) /\ Pre(k, Len(p)) \notin Pruned(m, k)
        BY <1>0, <2>4, <3>1, <3>3
      <4>2. PICK r \in Locked \ {k} : Len(p) <= Len(r) /\ Pre(k, Len(p)) = Pre(r, Len(p))
        BY <1>3, <2>2, <4>1, UnprunedIsLive
      <4> QED  BY <1>0, <3>1, <3>3, <4>1, <4>2
    <3> QED  BY <3>2, <3>3
  <2>8. UNION {{Pre(q, i) : i \in 0 .. Len(q)} : q \in Locked'} \subseteq DOMAIN map'
    <3> HIDE DEF m
    <3> SUFFICES ASSUME NEW q \in Locked \ {k}, NEW i \in 0 .. Len(q)
                 PROVE  Pre(q, i) \in DOMAIN map'
      BY <2>6
    <3> SUFFICES Pre(q, i) \in DOMAIN map \ Pruned(m, k)
      BY <2>4
    <3>1. Pre(q, i) \in DOMAIN map
      BY LivePaths
    <3>2. Pre(q, i) \notin Pruned(m, k)
      BY <1>3, <2>2, PrunedIsDead DEF m
    <3> QED  BY <3>1, <3>2
  <2>9. \A p \in DOMAIN map' : map'[p] = IF p \in Keys THEN held'[p] ELSE 0
    BY <2>4, <2>5 DEF NodesAreLivePaths, TypeOK
  <2>10. TypeOK'
    <3>1. held' \in [Keys -> 0 .. MaxCount]
      BY <2>5 DEF TypeOK
    <3>2. \A p \in DOMAIN map' : map'[p] \in 0 .. MaxCount
      BY <2>9, <3>1
    <3>3. map' \in [DOMAIN map' -> 0 .. MaxCount]
      BY <2>3, <2>4, <3>2
    <3>4. DOMAIN map' \subseteq Seq(Nat)
      BY <2>4 DEF TypeOK
    <3>5. ret' \in BOOLEAN
      BY DEF Delete, deleteFinds
    <3> QED  BY <3>1, <3>3, <3>4, <3>5 DEF TypeOK
  <2> QED  BY <2>7, <2>8, <2>9, <2>10 DEF NodesAreLivePaths
<1> QED  BY <1>1, <1>2, <1>3

(* Every call preserves the invariant. *)
LEMMA NextIInv == IInv /\ [Next]_vars => IInv'
<1> SUFFICES ASSUME IInv, [Next]_vars PROVE IInv'
  OBVIOUS
<1>1. CASE Next
  BY <1>1, InsertIInv, DeleteIInv DEF Next
<1>2. CASE UNCHANGED vars
  BY <1>2 DEF vars, IInv, TypeOK, NodesAreLivePaths, Locked
<1> QED  BY <1>1, <1>2

(* In every reachable state the map has exactly the nodes that lead to the *)
(* roots of live iterators, and their reference counts.                    *)
THEOREM SpecNodesAreLivePaths == Spec => []NodesAreLivePaths
<1>1. IInv => NodesAreLivePaths
  BY DEF IInv
<1> QED  BY <1>1, InitIInv, NextIInv, PTL DEF Spec

(* The guard of insert and delete of the tree is exact at all times. *)
THEOREM SpecPointLockExact == Spec => []PointLockExact
<1> QED  BY InitIInv, NextIInv, IInvPointLockExact, PTL DEF Spec

(* The guard of delete_prefix of the tree is exact at all times. *)
THEOREM SpecSubtreeLockExact == Spec => []SubtreeLockExact
<1> QED  BY InitIInv, NextIInv, IInvSubtreeLockExact, PTL DEF Spec

(* The types, which the three theorems above rest on. *)
THEOREM SpecTypeOK == Spec => []TypeOK
<1>1. IInv => TypeOK
  BY DEF IInv
<1> QED  BY <1>1, InitIInv, NextIInv, PTL DEF Spec

-----------------------------------------------------------------------------
(* What insert and delete report.                                          *)

(* insert refuses exactly when the number of iterators is at its limit. *)
LEMMA RefusedIffFull ==
  ASSUME IInv, NEW k \in Keys
  PROVE  insertFails(map, k) <=> held[k] = MaxCount
<1> USE DEF IInv
<1>1. held[k] \in 0 .. MaxCount /\ MaxCount \in Nat \ {0}
  BY MaxCountAssumption DEF TypeOK
<1>2. ASSUME held[k] = MaxCount PROVE insertFails(map, k)
  <2>1. k \in Locked
    BY <1>1, <1>2 DEF Locked
  <2>. QED BY <1>2, <2>1, LivePaths DEF insertFails
<1>3. ASSUME insertFails(map, k) PROVE held[k] = MaxCount
  BY <1>3 DEF insertFails, NodesAreLivePaths
<1>. QED BY <1>2, <1>3

(* delete finds a count exactly when there is an iterator with this root. *)
LEMMA FoundIffHeld ==
  ASSUME IInv, NEW k \in Keys
  PROVE  deleteFinds(map, k) <=> held[k] > 0
<1> USE DEF IInv
<1>1. k \in Seq(Nat) /\ Len(k) \in Nat /\ Pre(k, Len(k)) = k
  BY KeysAssumption, PreFacts
<1>2. ASSUME held[k] > 0 PROVE deleteFinds(map, k)
  <2>1. k \in Locked
    BY <1>2 DEF Locked
  <2>2. Reaches(map, k, Len(k)) /\ map[k] > 0
    BY <2>1, LivePaths DEF Reaches
  <2>. QED BY <2>2 DEF deleteFinds
<1>3. ASSUME deleteFinds(map, k) PROVE held[k] > 0
  <2>1. k \in DOMAIN map /\ map[k] > 0
    BY <1>1, <1>3 DEF deleteFinds, Reaches
  <2>. QED BY <2>1, LivePaths DEF Locked
<1>. QED BY <1>2, <1>3

(* insert and delete report success exactly when the number of iterators   *)
(* changes: iter() takes no lock when it fails with TooManyIterators, and  *)
(* delete_iter() neither loses nor invents one, also for an iterator that  *)
(* the generation holds no lock for.                                       *)
THEOREM SpecSuccessIffCounted == Spec => SuccessIffCounted
<1>1. IInv /\ [Next]_vars => [ret' <=> held' # held]_vars
  <2>. SUFFICES ASSUME IInv, NEW k \in Keys, Insert(k) \/ Delete(k)
                PROVE  ret' <=> held' # held
    BY DEF Next
  <2>1. held \in [Keys -> 0 .. MaxCount] /\ held[k] \in 0 .. MaxCount /\ MaxCount \in Nat
    BY MaxCountAssumption DEF IInv, TypeOK
  <2>2. CASE Insert(k)
    <3>1. ret' <=> held[k] # MaxCount
      BY <2>2, RefusedIffFull DEF Insert
    <3>2. held[k] # MaxCount <=> held' # held
      <4>1. held' = IF held[k] < MaxCount THEN [held EXCEPT ![k] = @ + 1] ELSE held
        BY <2>2 DEF Insert
      <4>. QED BY <2>1, <4>1
    <3>. QED BY <3>1, <3>2
  <2>3. CASE Delete(k)
    <3>1. ret' <=> held[k] > 0
      BY <2>3, FoundIffHeld DEF Delete
    <3>2. held[k] > 0 <=> held' # held
      <4>1. held' = IF held[k] > 0 THEN [held EXCEPT ![k] = @ - 1] ELSE held
        BY <2>3 DEF Delete
      <4>. QED BY <2>1, <4>1
    <3>. QED BY <3>1, <3>2
  <2>. QED BY <2>2, <2>3
<1>. QED BY <1>1, InitIInv, NextIInv, PTL DEF Spec, SuccessIffCounted
=============================================================================
