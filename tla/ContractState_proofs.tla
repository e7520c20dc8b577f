------------------------- MODULE ContractState_proofs -------------------------
(***************************************************************************)
(* Proofs about ContractState, for all keys, values, iterators and limits, *)
(* and any depth of generations.                                           *)
(*                                                                         *)
(* LocksCounted is what makes the rest hold: while an iterator is alive    *)
(* its root is locked, so the guards of the operations keep its subtree as *)
(* it was, and the keys it gives out are an initial segment of that.       *)
(***************************************************************************)
EXTENDS ContractState, TLAPS, FiniteSetTheorems

USE StateAssumption

(* An iterator belongs to a generation that there is. *)
GenerationsExist == \A i \in Iters : Live(i) => iters[i].gen \in 1 .. Top

IInv ==
  /\ TypeOK
  /\ GenerationsExist
  /\ LocksCounted
  /\ IteratorSeesSnapshot
  /\ IterationInOrder

-----------------------------------------------------------------------------

(* Two prefixes of the same key are comparable. *)
LEMMA PrefixesComparable ==
  ASSUME NEW k \in Keys, NEW p \in Keys, NEW q \in Keys, Extends(k, p), Extends(k, q)
  PROVE  Extends(p, q) \/ Extends(q, p)
<1>1. ASSUME NEW a \in Keys, NEW b \in Keys, Extends(k, a), Extends(k, b), Len(a) <= Len(b)
      PROVE  Extends(b, a)
  <2>1. /\ k \in Seq(Nat) /\ a \in Seq(Nat) /\ b \in Seq(Nat)
        /\ Len(a) <= Len(k) /\ Len(b) <= Len(k)
        /\ SubSeq(k, 1, Len(a)) = a
        /\ SubSeq(k, 1, Len(b)) = b
    BY <1>1 DEF Extends, Pre
  <2>2. \A n \in 1 .. Len(k) : \A j \in 1 .. n : SubSeq(k, 1, n)[j] = k[j]
    BY <2>1
  <2>3. ASSUME NEW j \in 1 .. Len(a)
        PROVE  a[j] = b[j]
    <3>1. Len(a) \in 1 .. Len(k) /\ Len(b) \in 1 .. Len(k) /\ j \in 1 .. Len(b)
      BY <2>1, <1>1
    <3>2. a[j] = k[j] /\ b[j] = k[j]
      BY <3>1, <2>1, <2>2
    <3> QED  BY <3>2
  <2>4. SubSeq(b, 1, Len(a)) = a
    BY <2>1, <2>3, <1>1
  <2> QED  BY <2>4, <1>1 DEF Extends, Pre
<1>2. Len(p) \in Nat /\ Len(q) \in Nat
  OBVIOUS
<1>3. CASE Len(p) <= Len(q)
  BY <1>1, <1>3
<1>4. CASE Len(q) <= Len(p)
  BY <1>1, <1>4
<1> QED  BY <1>2, <1>3, <1>4

(* Maps stay maps when keys are removed or set. *)
LEMMA MapFacts ==
  ASSUME NEW m \in Map
  PROVE  /\ DOMAIN m \subseteq Keys
         /\ \A S : Without(m, S) \in Map /\ DOMAIN Without(m, S) = DOMAIN m \ S
         /\ \A k \in Keys, v \in Values :
              With(m, k, v) \in Map /\ DOMAIN With(m, k, v) = DOMAIN m \cup {k}
<1>1. PICK K \in SUBSET Keys : m \in [K -> Values]
  BY DEF Map
<1>2. ASSUME NEW S
      PROVE  Without(m, S) \in Map /\ DOMAIN Without(m, S) = DOMAIN m \ S
  <2>1. Without(m, S) \in [K \ S -> Values]
    BY <1>1 DEF Without
  <2>2. K \ S \in SUBSET Keys
    BY <1>1
  <2> QED  BY <2>1, <2>2, <1>1 DEF Map
<1>3. ASSUME NEW k \in Keys, NEW v \in Values
      PROVE  With(m, k, v) \in Map /\ DOMAIN With(m, k, v) = DOMAIN m \cup {k}
  <2>1. With(m, k, v) \in [K \cup {k} -> Values]
    BY <1>1 DEF With
  <2>2. K \cup {k} \in SUBSET Keys
    BY <1>1
  <2> QED  BY <2>1, <2>2, <1>1 DEF Map
<1> QED  BY <1>1, <1>2, <1>3

(* What the types say of the parts of a state. *)
LEMMA Parts ==
  ASSUME TypeOK
  PROVE  /\ Top \in Nat \ {0} /\ Top = Len(gens)
         /\ \A g \in 1 .. Top : /\ gens[g] = [map |-> gens[g].map, locks |-> gens[g].locks]
                                /\ gens[g].map \in Map
                                /\ gens[g].locks \in [Keys -> 0 .. MaxCount]
         /\ map \in Map
         /\ \A i \in Iters : Live(i) => /\ iters[i] \in IterState
                                        /\ iters[i].gen \in Nat
                                        /\ iters[i].root \in Keys
                                        /\ iters[i].snap \subseteq Keys
                                        /\ iters[i].given \subseteq Keys
<1>1. Top \in Nat \ {0} /\ Top = Len(gens)
  BY DEF TypeOK, Top
<1>2. ASSUME NEW g \in 1 .. Top
      PROVE  gens[g] \in [map : Map, locks : [Keys -> 0 .. MaxCount]]
  <2> DEFINE R == [map : Map, locks : [Keys -> 0 .. MaxCount]]
  <2>1. gens \in Seq(R) /\ g \in 1 .. Len(gens)
    BY <1>1 DEF TypeOK
  <2> HIDE DEF R
  <2>2. gens[g] \in R
    BY <2>1
  <2> QED  BY <2>2 DEF R
<1>3. \A i \in Iters : Live(i) => iters[i] \in IterState
  BY DEF TypeOK, Live
<1>4. ASSUME NEW g \in 1 .. Top
      PROVE  /\ gens[g] = [map |-> gens[g].map, locks |-> gens[g].locks]
             /\ gens[g].map \in Map
             /\ gens[g].locks \in [Keys -> 0 .. MaxCount]
  BY <1>2
<1>5. map \in Map
  <2>1. Top \in 1 .. Top
    BY <1>1
  <2> QED  BY <2>1, <1>4 DEF map
<1>6. ASSUME NEW i \in Iters, Live(i)
      PROVE  /\ iters[i] \in IterState
             /\ iters[i].gen \in Nat
             /\ iters[i].root \in Keys
             /\ iters[i].snap \subseteq Keys
             /\ iters[i].given \subseteq Keys
  BY <1>3, <1>6 DEF IterState
<1> QED  BY <1>1, <1>4, <1>5, <1>6

(* The iterators for a key of a generation are finitely many. *)
LEMMA OfFinite ==
  ASSUME NEW g, NEW p
  PROVE  IsFiniteSet(Of(g, p)) /\ Cardinality(Of(g, p)) \in Nat
<1>1. Of(g, p) \in SUBSET Iters
  BY DEF Of
<1>2. IsFiniteSet(Of(g, p))
  BY <1>1, FS_Subset
<1> QED  BY <1>2, FS_CardinalityType

(* The root of a live iterator is locked in its generation. *)
LEMMA LiveIsLocked ==
  ASSUME IInv, NEW i \in Iters, Live(i)
  PROVE  /\ gens[iters[i].gen].locks[iters[i].root] > 0
         /\ iters[i].gen = Top => iters[i].root \in Locked
<1>1. i \in Of(iters[i].gen, iters[i].root)
  BY DEF Of
<1>2. Cardinality(Of(iters[i].gen, iters[i].root)) > 0
  BY <1>1, OfFinite, FS_EmptySet
<1>3. iters[i].gen \in 1 .. Top /\ iters[i].root \in Keys
  BY Parts DEF IInv, GenerationsExist
<1>4. gens[iters[i].gen].locks[iters[i].root] > 0
  BY <1>2, <1>3 DEF IInv, LocksCounted
<1> QED  BY <1>3, <1>4 DEF Locked

-----------------------------------------------------------------------------

(* Replacing one field of a generation. *)
LEMMA FieldsReplaced ==
  ASSUME NEW r, NEW m, NEW l, NEW n, r = [map |-> m, locks |-> l]
  PROVE  /\ [r EXCEPT !.map = n] = [map |-> n, locks |-> l]
         /\ [r EXCEPT !.locks = n] = [map |-> m, locks |-> n]
OBVIOUS

(* Changing the top of the stack, locks and map alike, changes nothing     *)
(* else.                                                                   *)
LEMMA TopChanged ==
  ASSUME TypeOK, NEW m \in Map, NEW l \in [Keys -> 0 .. MaxCount],
         gens' = [gens EXCEPT ![Top] = [map |-> m, locks |-> l]]
  PROVE  /\ gens' \in Seq([map : Map, locks : [Keys -> 0 .. MaxCount]])
         /\ Len(gens') = Len(gens) /\ Top' = Top
         /\ gens'[Top] = [map |-> m, locks |-> l]
         /\ \A g \in 1 .. Top : g # Top => gens'[g] = gens[g]
<1> DEFINE R == [map : Map, locks : [Keys -> 0 .. MaxCount]]
           r == [map |-> m, locks |-> l]
<1>1. gens \in Seq(R) /\ r \in R
  BY DEF TypeOK
<1>2. Top = Len(gens) /\ Len(gens) \in 1 .. Len(gens) /\ gens' = [gens EXCEPT ![Len(gens)] = r]
  BY Parts DEF Top
<1> HIDE DEF R, r
<1>3. /\ gens' \in Seq(R)
      /\ Len(gens') = Len(gens)
      /\ gens'[Len(gens)] = r
      /\ \A g \in 1 .. Len(gens) : g # Len(gens) => gens'[g] = gens[g]
  BY <1>1, <1>2
<1> QED  BY <1>2, <1>3 DEF R, r, Top

(* A step that only changes the map of the top generation, and keeps the   *)
(* keys below every lock, preserves the invariant.                         *)
LEMMA MapStep ==
  ASSUME IInv, NEW f \in Map, ChangeTop(f), UNCHANGED <<iters, saved>>,
         broken' \in BOOLEAN, ret' \in Rets,
         \A p \in Locked : \A k \in Keys :
            Extends(k, p) => (k \in DOMAIN f <=> k \in DOMAIN map)
  PROVE  IInv'
<1> DEFINE l == gens[Top].locks
<1>0. TypeOK /\ Top \in 1 .. Top /\ l \in [Keys -> 0 .. MaxCount] /\ map \in Map
  BY Parts DEF IInv
<1>1. gens' = [gens EXCEPT ![Top] = [map |-> f, locks |-> l]]
  <2>1. gens[Top] = [map |-> gens[Top].map, locks |-> l]
    BY <1>0, Parts
  <2>2. [gens[Top] EXCEPT !.map = f] = [map |-> f, locks |-> l]
    BY <2>1, FieldsReplaced
  <2>3. gens' = [gens EXCEPT ![Top] = [gens[Top] EXCEPT !.map = f]]
    BY DEF ChangeTop
  <2> QED  BY <2>2, <2>3
<1> HIDE DEF l
<1>2. /\ gens' \in Seq([map : Map, locks : [Keys -> 0 .. MaxCount]])
      /\ Len(gens') = Len(gens) /\ Top' = Top
      /\ gens'[Top] = [map |-> f, locks |-> l]
      /\ \A g \in 1 .. Top : g # Top => gens'[g] = gens[g]
  BY <1>0, <1>1, TopChanged
<1>3. \A g \in 1 .. Top : gens'[g].locks = gens[g].locks
  BY <1>2 DEF l
<1>4. TypeOK'
  BY <1>0, <1>2 DEF TypeOK, Rets, IterState
<1>5. \A i \in Iters : Live(i)' = Live(i)
  BY DEF Live
<1>6. GenerationsExist'
  BY <1>2, <1>5 DEF GenerationsExist, IInv
<1>7. LocksCounted'
  <2>1. \A g, p : Of(g, p)' = Of(g, p)
    BY DEF Of, Live
  <2> QED  BY <2>1, <1>2, <1>3 DEF LocksCounted, IInv
<1>8. IteratorSeesSnapshot'
  <2> SUFFICES ASSUME NEW i \in Iters, Live(i)
               PROVE  iters[i].snap = {k \in DOMAIN gens'[iters[i].gen].map : Extends(k, iters[i].root)}
    BY <1>5 DEF IteratorSeesSnapshot
  <2>1. /\ iters[i].snap = {k \in DOMAIN gens[iters[i].gen].map : Extends(k, iters[i].root)}
        /\ iters[i].gen \in 1 .. Top
    BY DEF IInv, IteratorSeesSnapshot, GenerationsExist
  <2>2. CASE iters[i].gen # Top
    BY <2>1, <2>2, <1>2
  <2>3. CASE iters[i].gen = Top
    <3>1. iters[i].root \in Locked
      BY <2>3, LiveIsLocked
    <3>2. DOMAIN f \subseteq Keys /\ DOMAIN map \subseteq Keys
      BY <1>0, MapFacts
    <3>3. {k \in DOMAIN f : Extends(k, iters[i].root)} = {k \in DOMAIN map : Extends(k, iters[i].root)}
      BY <3>1, <3>2
    <3> QED  BY <2>1, <2>3, <3>3, <1>2 DEF map
  <2> QED  BY <2>2, <2>3
<1>9. IterationInOrder'
  BY <1>5 DEF IterationInOrder, IInv
<1> QED  BY <1>4, <1>6, <1>7, <1>8, <1>9 DEF IInv

(* A step that leaves the stack and the iterators alone. *)
LEMMA QuietStep ==
  ASSUME IInv, UNCHANGED <<gens, iters, saved, broken>>, ret' \in Rets
  PROVE  IInv'
<1>1. TypeOK'
  BY DEF IInv, TypeOK, Rets, IterState
<1>2. Top' = Top /\ (\A i \in Iters : Live(i)' = Live(i)) /\ (\A g, p : Of(g, p)' = Of(g, p))
  BY DEF Top, Live, Of
<1> QED
  BY <1>1, <1>2 DEF IInv, GenerationsExist, LocksCounted, IteratorSeesSnapshot, IterationInOrder

(* Creating or replacing an entry preserves the invariant. *)
LEMMA InsertIInv ==
  ASSUME IInv, NEW k \in Keys, NEW v \in Values, Insert(k, v)
  PROVE  IInv'
<1>0. map \in Map /\ broken \in BOOLEAN
  BY Parts DEF IInv, TypeOK
<1>1. CASE ~ PointFree(k) /\ UNCHANGED gens /\ ret' = "Locked"
  BY <1>1, QuietStep DEF Insert, Rets
<1>2. CASE /\ PointFree(k) /\ ChangeTop(With(map, k, v))
           /\ ret' = IF k \in DOMAIN map THEN "Replaced" ELSE "New"
  <2>1. With(map, k, v) \in Map /\ DOMAIN With(map, k, v) = DOMAIN map \cup {k}
    BY <1>0, MapFacts
  <2>2. \A p \in Locked : \A q \in Keys :
          Extends(q, p) => (q \in DOMAIN With(map, k, v) <=> q \in DOMAIN map)
    BY <1>2, <2>1 DEF PointFree
  <2>3. ret' \in Rets /\ broken' \in BOOLEAN /\ UNCHANGED <<iters, saved>>
    BY <1>2, <1>0 DEF Rets, Insert
  <2> QED  BY <2>1, <2>2, <2>3, <1>2, MapStep
<1> QED  BY <1>1, <1>2 DEF Insert

(* Deleting an entry preserves the invariant. *)
LEMMA DeleteIInv ==
  ASSUME IInv, NEW k \in Keys, Delete(k)
  PROVE  IInv'
<1>0. map \in Map /\ broken \in BOOLEAN
  BY Parts DEF IInv, TypeOK
<1>1. CASE ~ PointFree(k) /\ UNCHANGED gens /\ ret' = "Locked"
  BY <1>1, QuietStep DEF Delete, Rets
<1>2. CASE /\ PointFree(k) /\ ChangeTop(Without(map, {k}))
           /\ ret' = IF k \in DOMAIN map THEN "Deleted" ELSE "NotFound"
  <2>1. Without(map, {k}) \in Map /\ DOMAIN Without(map, {k}) = DOMAIN map \ {k}
    BY <1>0, MapFacts
  <2>2. \A p \in Locked : \A q \in Keys :
          Extends(q, p) => (q \in DOMAIN Without(map, {k}) <=> q \in DOMAIN map)
    BY <1>2, <2>1 DEF PointFree
  <2>3. ret' \in Rets /\ broken' \in BOOLEAN /\ UNCHANGED <<iters, saved>>
    BY <1>2, <1>0 DEF Rets, Delete
  <2> QED  BY <2>1, <2>2, <2>3, <1>2, MapStep
<1> QED  BY <1>1, <1>2 DEF Delete

(* Removing keys below a subtree that no lock touches. *)
LEMMA SubtreeRemoved ==
  ASSUME IInv, NEW p \in Keys, SubtreeFree(p), NEW S \in SUBSET Below(p),
         ChangeTop(Without(map, S)), UNCHANGED <<iters, saved>>,
         broken' \in BOOLEAN, ret' \in Rets
  PROVE  IInv'
<1>0. map \in Map
  BY Parts DEF IInv
<1>1. Without(map, S) \in Map /\ DOMAIN Without(map, S) = DOMAIN map \ S
  BY <1>0, MapFacts
<1>2. ASSUME NEW r \in Locked, NEW q \in Keys, Extends(q, r)
      PROVE  q \in DOMAIN Without(map, S) <=> q \in DOMAIN map
  <2>1. r \in Keys /\ ~ Extends(p, r) /\ ~ Extends(r, p)
    BY DEF SubtreeFree, Locked
  <2>2. q \notin S
    BY <2>1, <1>2, PrefixesComparable DEF Below
  <2> QED  BY <2>2, <1>1
<1> QED  BY <1>1, <1>2, MapStep

(* Deleting a subtree, also in part, preserves the invariant. *)
LEMMA DeletePrefixIInv ==
  ASSUME IInv, NEW p \in Keys, DeletePrefix(p) \/ DeletePrefixStops(p)
  PROVE  IInv'
<1>0. broken \in BOOLEAN
  BY DEF IInv, TypeOK
<1>1. CASE ~ SubtreeFree(p) /\ UNCHANGED <<gens, iters, saved, broken>> /\ ret' = "Locked"
  BY <1>1, QuietStep DEF Rets
<1>2. CASE DeletePrefix(p) /\ SubtreeFree(p)
  <2>1. /\ ChangeTop(Without(map, Below(p))) /\ UNCHANGED <<iters, saved>>
        /\ broken' \in BOOLEAN /\ ret' \in Rets
    BY <1>0, <1>2 DEF DeletePrefix, Rets
  <2> QED  BY <2>1, <1>2, SubtreeRemoved
<1>3. CASE DeletePrefixStops(p)
  <2>1. PICK S \in SUBSET Below(p) : ChangeTop(Without(map, S))
    BY <1>3 DEF DeletePrefixStops
  <2>2. /\ UNCHANGED <<iters, saved>> /\ broken' \in BOOLEAN /\ ret' \in Rets
        /\ SubtreeFree(p)
    BY <1>3 DEF DeletePrefixStops, Rets
  <2> QED  BY <2>1, <2>2, SubtreeRemoved
<1> QED  BY <1>1, <1>2, <1>3 DEF DeletePrefix

(* Writing through an entry preserves the invariant. *)
LEMMA WriteIInv ==
  ASSUME IInv, NEW k \in Keys, NEW v \in Values, Write(k, v)
  PROVE  IInv'
<1>0. map \in Map /\ broken \in BOOLEAN
  BY Parts DEF IInv, TypeOK
<1>1. With(map, k, v) \in Map /\ DOMAIN With(map, k, v) = DOMAIN map
  <2>1. With(map, k, v) \in Map /\ DOMAIN With(map, k, v) = DOMAIN map \cup {k}
    BY <1>0, MapFacts
  <2>2. k \in DOMAIN map
    BY DEF Write
  <2> QED  BY <2>1, <2>2
<1>2. \A p \in Locked : \A q \in Keys :
        Extends(q, p) => (q \in DOMAIN With(map, k, v) <=> q \in DOMAIN map)
  BY <1>1
<1>3. /\ ret' \in Rets /\ broken' \in BOOLEAN /\ UNCHANGED <<iters, saved>>
      /\ ChangeTop(With(map, k, v))
  BY <1>0 DEF Rets, Write
<1> QED  BY <1>1, <1>2, <1>3, MapStep

(* Changing one lock of the top generation by d. *)
LEMMA LockChanged ==
  ASSUME TypeOK, NEW p \in Keys, NEW n \in 0 .. MaxCount,
         gens' = [gens EXCEPT ![Top].locks[p] = n]
  PROVE  /\ gens' \in Seq([map : Map, locks : [Keys -> 0 .. MaxCount]])
         /\ Len(gens') = Len(gens) /\ Top' = Top
         /\ \A g \in 1 .. Top : gens'[g].map = gens[g].map
         /\ \A g \in 1 .. Top : \A q \in Keys :
              gens'[g].locks[q] = IF g = Top /\ q = p THEN n ELSE gens[g].locks[q]
<1> DEFINE l == gens[Top].locks
           nl == [l EXCEPT ![p] = n]
<1>0. Top \in 1 .. Top /\ l \in [Keys -> 0 .. MaxCount] /\ map \in Map
  BY Parts
<1>1. gens' = [gens EXCEPT ![Top] = [gens[Top] EXCEPT !.locks = nl]]
  OBVIOUS
<1>2. nl \in [Keys -> 0 .. MaxCount]
  BY <1>0
<1> HIDE DEF l, nl
<1>6. gens' = [gens EXCEPT ![Top] = [map |-> map, locks |-> nl]]
  <2>1. gens[Top] = [map |-> map, locks |-> l]
    BY <1>0, Parts DEF map, l
  <2>2. [gens[Top] EXCEPT !.locks = nl] = [map |-> map, locks |-> nl]
    BY <2>1, FieldsReplaced
  <2> QED  BY <2>2, <1>1
<1>3. /\ gens' \in Seq([map : Map, locks : [Keys -> 0 .. MaxCount]])
      /\ Len(gens') = Len(gens) /\ Top' = Top
      /\ gens'[Top] = [map |-> map, locks |-> nl]
      /\ \A g \in 1 .. Top : g # Top => gens'[g] = gens[g]
  BY <1>0, <1>6, <1>2, TopChanged
<1>4. ASSUME NEW g \in 1 .. Top
      PROVE  gens'[g].map = gens[g].map
  <2>1. CASE g # Top
    BY <2>1, <1>3
  <2>2. CASE g = Top
    <3>1. gens'[Top].map = map
      BY <1>3
    <3> QED  BY <3>1, <2>2 DEF map
  <2> QED  BY <2>1, <2>2
<1>5. ASSUME NEW g \in 1 .. Top, NEW q \in Keys
      PROVE  gens'[g].locks[q] = IF g = Top /\ q = p THEN n ELSE gens[g].locks[q]
  <2>1. CASE g # Top
    BY <2>1, <1>3
  <2>2. CASE g = Top
    <3>1. gens'[g].locks = nl /\ gens[g].locks = l
      BY <2>2, <1>3 DEF l
    <3>2. nl[q] = IF q = p THEN n ELSE l[q]
      BY <1>0 DEF nl
    <3> QED  BY <3>1, <3>2, <2>2
  <2> QED  BY <2>1, <2>2
<1> QED  BY <1>3, <1>4, <1>5

(* Making an iterator preserves the invariant. *)
LEMMA IterIInv ==
  ASSUME IInv, NEW i \in Iters, NEW p \in Keys, Iter(i, p)
  PROVE  IInv'
<1> DEFINE new == [gen |-> Top, root |-> p, snap |-> Below(p), given |-> {}]
           n == gens[Top].locks[p] + 1
<1>0. TypeOK /\ Top \in 1 .. Top /\ gens[Top].locks[p] \in 0 .. MaxCount /\ map \in Map
  BY Parts DEF IInv
<1>1. CASE UNCHANGED <<gens, iters, saved, broken>> /\ ret' \in {"NoMatch", "TooMany"}
  BY <1>1, QuietStep DEF Rets
<1>2. CASE /\ gens[Top].locks[p] < MaxCount
           /\ ret' = "Ok"
           /\ gens' = [gens EXCEPT ![Top].locks[p] = n]
           /\ iters' = [iters EXCEPT ![i] = new]
           /\ UNCHANGED <<saved, broken>>
           /\ ~ Live(i)
  <2>1. n \in 0 .. MaxCount
    BY <1>0, <1>2
  <2>2. new \in IterState /\ new # NoIter
    <3>1. Below(p) \subseteq Keys
      BY <1>0, MapFacts DEF Below
    <3> QED  BY <3>1, <1>0 DEF IterState
  <2> HIDE DEF n
  <2>3. /\ gens' \in Seq([map : Map, locks : [Keys -> 0 .. MaxCount]])
        /\ Len(gens') = Len(gens) /\ Top' = Top
        /\ \A g \in 1 .. Top : gens'[g].map = gens[g].map
        /\ \A g \in 1 .. Top : \A q \in Keys :
             gens'[g].locks[q] = IF g = Top /\ q = p THEN n ELSE gens[g].locks[q]
    BY <1>0, <1>2, <2>1, LockChanged
  <2>4. /\ iters \in [Iters -> IterState \cup {NoIter}]
        /\ iters' \in [Iters -> IterState \cup {NoIter}]
        /\ iters'[i] = new
        /\ \A j \in Iters : j # i => iters'[j] = iters[j]
    BY <1>0, <1>2, <2>2 DEF TypeOK
  <2>5. TypeOK'
    BY <1>0, <1>2, <2>3, <2>4 DEF TypeOK, Rets, IterState
  <2>6. Live(i)' /\ \A j \in Iters : j # i => Live(j)' = Live(j)
    BY <2>2, <2>4 DEF Live
  <2>7. GenerationsExist'
    <3> SUFFICES ASSUME NEW j \in Iters, Live(j)'
                 PROVE  iters'[j].gen \in 1 .. Top
      BY <2>3 DEF GenerationsExist
    <3>1. CASE j = i
      BY <3>1, <2>4, <1>0
    <3>2. CASE j # i
      BY <3>2, <2>4, <2>6 DEF IInv, GenerationsExist
    <3> QED  BY <3>1, <3>2
  <2>8. LocksCounted'
    <3> SUFFICES ASSUME NEW g \in 1 .. Top, NEW q \in Keys
                 PROVE  gens'[g].locks[q] = Cardinality(Of(g, q)')
      BY <2>3 DEF LocksCounted
    <3>1. gens[g].locks[q] = Cardinality(Of(g, q))
      BY DEF IInv, LocksCounted
    <3>2. i \notin Of(g, q)
      BY <1>2 DEF Of
    <3>3. CASE g = Top /\ q = p
      <4>1. Of(g, q)' = Of(g, q) \cup {i}
        BY <3>3, <2>4, <2>6 DEF Of
      <4>2. Cardinality(Of(g, q)') = Cardinality(Of(g, q)) + 1
        BY <4>1, <3>2, OfFinite, FS_AddElement
      <4> QED  BY <4>2, <3>1, <3>3, <2>3 DEF n
    <3>4. CASE ~ (g = Top /\ q = p)
      <4>1. Of(g, q)' = Of(g, q)
        BY <3>4, <1>2, <2>4, <2>6 DEF Of
      <4> QED  BY <4>1, <3>1, <3>4, <2>3
    <3> QED  BY <3>3, <3>4
  <2>9. IteratorSeesSnapshot'
    <3> SUFFICES ASSUME NEW j \in Iters, Live(j)'
                 PROVE  iters'[j].snap = {k \in DOMAIN gens'[iters'[j].gen].map : Extends(k, iters'[j].root)}
      BY DEF IteratorSeesSnapshot
    <3>1. CASE j = i
      BY <3>1, <2>3, <2>4, <1>0 DEF Below, map
    <3>2. CASE j # i
      <4>1. Live(j) /\ iters'[j] = iters[j]
        BY <3>2, <2>4, <2>6
      <4>2. /\ iters[j].gen \in 1 .. Top
            /\ iters[j].snap = {k \in DOMAIN gens[iters[j].gen].map : Extends(k, iters[j].root)}
        BY <4>1 DEF IInv, IteratorSeesSnapshot, GenerationsExist
      <4>3. gens'[iters[j].gen].map = gens[iters[j].gen].map
        BY <4>2, <2>3
      <4> QED  BY <4>1, <4>2, <4>3
    <3> QED  BY <3>1, <3>2
  <2>10. IterationInOrder'
    BY <2>4, <2>6 DEF IterationInOrder, IInv
  <2> QED  BY <2>5, <2>7, <2>8, <2>9, <2>10 DEF IInv
<1> QED  BY <1>1, <1>2 DEF Iter, Live

(* Giving out keys changes nothing else of an iterator. *)
LEMMA GivenChanged ==
  ASSUME NEW r \in IterState, NEW h \in SUBSET Keys
  PROVE  /\ [r EXCEPT !.given = h] \in IterState
         /\ [r EXCEPT !.given = h].gen = r.gen
         /\ [r EXCEPT !.given = h].root = r.root
         /\ [r EXCEPT !.given = h].snap = r.snap
         /\ [r EXCEPT !.given = h].given = h
BY DEF IterState

(* What next does to an iterator. *)
LEMMA NextIterIInv ==
  ASSUME IInv, NEW i \in Iters, Next_(i)
  PROVE  IInv'
<1>0. TypeOK /\ Live(i) /\ iters[i].gen = Top
  BY DEF IInv, Next_, Usable
<1>1. CASE UNCHANGED <<gens, iters, saved, broken>> /\ ret' = "End"
  BY <1>1, QuietStep DEF Rets
<1>2. ASSUME NEW k \in Remaining(i),
             \A q \in Remaining(i) \ {k} : Less(k, q),
             ret' = "Key",
             iters' = [iters EXCEPT ![i].given = @ \cup {k}],
             UNCHANGED <<gens, saved, broken>>
      PROVE  IInv'
  <2>1. /\ iters[i] \in IterState /\ iters[i] = [iters[i] EXCEPT !.given = iters[i].given]
        /\ iters[i].given \subseteq iters[i].snap
        /\ iters[i].snap = Below(iters[i].root)
        /\ iters[i].snap \subseteq Keys
    <3>1. iters[i] \in IterState /\ iters[i].snap \subseteq Keys
      BY <1>0, Parts
    <3>2. iters[i].given \subseteq iters[i].snap
      BY <1>0 DEF IInv, IterationInOrder
    <3>3. iters[i].snap = Below(iters[i].root)
      BY <1>0 DEF IInv, IteratorSeesSnapshot, Below, map
    <3> QED  BY <3>1, <3>2, <3>3 DEF IterState
  <2>2. k \in iters[i].snap /\ Remaining(i) = iters[i].snap \ iters[i].given
    BY <2>1 DEF Remaining
  <2>3. /\ iters'[i] = [iters[i] EXCEPT !.given = iters[i].given \cup {k}]
        /\ \A j \in Iters : j # i => iters'[j] = iters[j]
        /\ iters' = [iters EXCEPT ![i] = [iters[i] EXCEPT !.given = iters[i].given \cup {k}]]
    BY <1>0, <1>2 DEF TypeOK
  <2>4. /\ iters'[i] \in IterState
        /\ iters'[i].gen = iters[i].gen /\ iters'[i].root = iters[i].root
        /\ iters'[i].snap = iters[i].snap
        /\ iters'[i].given = iters[i].given \cup {k}
    <3>1. iters[i].given \cup {k} \in SUBSET Keys
      BY <2>1, <2>2
    <3> DEFINE h == iters[i].given \cup {k}
               r == iters[i]
    <3>2. h \in SUBSET Keys /\ r \in IterState /\ iters'[i] = [r EXCEPT !.given = h]
      BY <3>1, <2>1, <2>3
    <3> HIDE DEF h, r
    <3>3. /\ iters'[i] \in IterState /\ iters'[i].gen = r.gen /\ iters'[i].root = r.root
          /\ iters'[i].snap = r.snap /\ iters'[i].given = h
      <4> DEFINE s == [r EXCEPT !.given = h]
      <4>1. s \in IterState /\ s.gen = r.gen /\ s.root = r.root /\ s.snap = r.snap /\ s.given = h
        BY <3>2, GivenChanged
      <4>2. iters'[i] = s
        BY <3>2
      <4> HIDE DEF s
      <4> QED  BY <4>1, <4>2
    <3> QED  BY <3>3 DEF h, r
  <2>5. iters' \in [Iters -> IterState \cup {NoIter}]
    <3>1. [iters[i] EXCEPT !.given = iters[i].given \cup {k}] \in IterState \cup {NoIter}
      BY <2>3, <2>4
    <3> QED  BY <3>1, <2>3, <1>0 DEF TypeOK
  <2>6. TypeOK'
    BY <1>0, <1>2, <2>5 DEF TypeOK, Rets, IterState
  <2>7. \A j \in Iters : Live(j)' = Live(j)
    BY <1>0, <2>3, <2>4 DEF Live, IterState
  <2>8. Top' = Top
    BY <1>2 DEF Top
  <2>9. \A j \in Iters : Live(j) => /\ iters'[j].gen = iters[j].gen
                                   /\ iters'[j].root = iters[j].root
                                   /\ iters'[j].snap = iters[j].snap
    BY <2>3, <2>4
  <2>10. GenerationsExist'
    BY <2>7, <2>8, <2>9 DEF GenerationsExist, IInv
  <2>11. LocksCounted'
    <3>1. \A g, p : Of(g, p)' = Of(g, p)
      BY <2>7, <2>9 DEF Of
    <3> QED  BY <3>1, <2>8, <1>2 DEF LocksCounted, IInv
  <2>12. IteratorSeesSnapshot'
    BY <2>7, <2>9, <1>2 DEF IteratorSeesSnapshot, IInv
  <2>13. IterationInOrder'
    <3> SUFFICES ASSUME NEW j \in Iters, Live(j)
                 PROVE  /\ iters'[j].given \subseteq iters'[j].snap
                        /\ \A a \in iters'[j].given, b \in iters'[j].snap \ iters'[j].given : Less(a, b)
      BY <2>7 DEF IterationInOrder
    <3>1. /\ iters[j].given \subseteq iters[j].snap
          /\ \A a \in iters[j].given, b \in iters[j].snap \ iters[j].given : Less(a, b)
      BY DEF IInv, IterationInOrder
    <3>2. CASE j # i
      BY <3>1, <3>2, <2>3
    <3>3. CASE j = i
      BY <3>1, <3>3, <2>2, <2>4, <1>2
    <3> QED  BY <3>2, <3>3
  <2> QED  BY <2>6, <2>10, <2>11, <2>12, <2>13 DEF IInv
<1> QED  BY <1>1, <1>2 DEF Next_

(* Deleting an iterator preserves the invariant. *)
LEMMA DeleteIterIInv ==
  ASSUME IInv, NEW i \in Iters, DeleteIter(i)
  PROVE  IInv'
<1> DEFINE p == iters[i].root
           n == gens[Top].locks[p] - 1
<1>0. /\ TypeOK /\ Live(i) /\ iters[i].gen = Top /\ p \in Keys /\ Top \in 1 .. Top
      /\ gens[Top].locks[p] \in 0 .. MaxCount
  BY Parts DEF IInv, DeleteIter, Usable
<1>1. n \in 0 .. MaxCount
  <2>1. gens[Top].locks[p] > 0
    BY <1>0, LiveIsLocked
  <2> QED  BY <2>1, <1>0
<1>2. gens' = [gens EXCEPT ![Top].locks[p] = n] /\ iters' = [iters EXCEPT ![i] = NoIter]
  BY DEF DeleteIter
<1> HIDE DEF p, n
<1>3. /\ gens' \in Seq([map : Map, locks : [Keys -> 0 .. MaxCount]])
      /\ Len(gens') = Len(gens) /\ Top' = Top
      /\ \A g \in 1 .. Top : gens'[g].map = gens[g].map
      /\ \A g \in 1 .. Top : \A q \in Keys :
           gens'[g].locks[q] = IF g = Top /\ q = p THEN n ELSE gens[g].locks[q]
  BY <1>0, <1>1, <1>2, LockChanged
<1>4. /\ iters' \in [Iters -> IterState \cup {NoIter}]
      /\ iters'[i] = NoIter
      /\ \A j \in Iters : j # i => iters'[j] = iters[j]
  BY <1>0, <1>2 DEF TypeOK
<1>5. TypeOK'
  BY <1>0, <1>3, <1>4 DEF TypeOK, Rets, IterState, DeleteIter
<1>6. \A j \in Iters : Live(j)' => j # i /\ Live(j) /\ iters'[j] = iters[j]
  BY <1>4 DEF Live
<1>7. GenerationsExist'
  BY <1>3, <1>6 DEF GenerationsExist, IInv
<1>8. LocksCounted'
  <2> SUFFICES ASSUME NEW g \in 1 .. Top, NEW q \in Keys
               PROVE  gens'[g].locks[q] = Cardinality(Of(g, q)')
    BY <1>3 DEF LocksCounted
  <2>1. gens[g].locks[q] = Cardinality(Of(g, q))
    BY DEF IInv, LocksCounted
  <2>2. CASE g = Top /\ q = p
    <3>1. i \in Of(g, q)
      BY <2>2, <1>0 DEF Of, p
    <3>2. Of(g, q)' = Of(g, q) \ {i}
      BY <1>4 DEF Of, Live
    <3>3. Cardinality(Of(g, q)') = Cardinality(Of(g, q)) - 1
      BY <3>1, <3>2, OfFinite, FS_RemoveElement
    <3> QED  BY <3>3, <2>1, <2>2, <1>3 DEF n
  <2>3. CASE ~ (g = Top /\ q = p)
    <3>1. i \notin Of(g, q)
      BY <2>3, <1>0 DEF Of, p
    <3>2. Of(g, q)' = Of(g, q)
      BY <3>1, <1>4 DEF Of, Live
    <3> QED  BY <3>2, <2>1, <2>3, <1>3
  <2> QED  BY <2>2, <2>3
<1>9. IteratorSeesSnapshot'
  <2> SUFFICES ASSUME NEW j \in Iters, Live(j), iters'[j] = iters[j]
               PROVE  iters[j].snap = {k \in DOMAIN gens'[iters[j].gen].map : Extends(k, iters[j].root)}
    BY <1>6 DEF IteratorSeesSnapshot
  <2>1. /\ iters[j].gen \in 1 .. Top
        /\ iters[j].snap = {k \in DOMAIN gens[iters[j].gen].map : Extends(k, iters[j].root)}
    BY DEF IInv, IteratorSeesSnapshot, GenerationsExist
  <2> QED  BY <2>1, <1>3
<1>10. IterationInOrder'
  BY <1>6 DEF IterationInOrder, IInv
<1> QED  BY <1>5, <1>7, <1>8, <1>9, <1>10 DEF IInv

(* A generation of its own starts without locks. *)
LEMMA GenFacts ==
  ASSUME NEW m \in Map
  PROVE  /\ Gen(m) \in [map : Map, locks : [Keys -> 0 .. MaxCount]]
         /\ Gen(m).map = m
         /\ \A p \in Keys : Gen(m).locks[p] = 0
BY DEF Gen, NoLocks

(* Starting a generation preserves the invariant. *)
LEMMA NewGenerationIInv ==
  ASSUME IInv, NewGeneration
  PROVE  IInv'
<1> DEFINE R == [map : Map, locks : [Keys -> 0 .. MaxCount]]
<1>0. TypeOK /\ map \in Map /\ Top \in Nat /\ Top = Len(gens) /\ gens \in Seq(R)
  BY Parts DEF IInv, TypeOK
<1>1. Gen(map) \in R
  BY <1>0, GenFacts
<1> HIDE DEF R
<1>2. /\ gens' \in Seq(R) /\ Len(gens') = Top + 1 /\ Top' = Top + 1
      /\ gens'[Top + 1] = Gen(map)
      /\ \A g \in 1 .. Top : gens'[g] = gens[g]
  BY <1>0, <1>1 DEF NewGeneration, Top
<1>3. UNCHANGED <<iters, saved, broken>> /\ ret' \in Rets
  BY DEF NewGeneration, Rets
<1>4. TypeOK'
  BY <1>0, <1>2, <1>3 DEF TypeOK, R, IterState, Rets
<1>5. \A j \in Iters : Live(j)' <=> Live(j)
  BY <1>3 DEF Live
<1>6. \A j \in Iters : Live(j) => iters[j].gen \in 1 .. Top
  BY DEF IInv, GenerationsExist
<1>7. GenerationsExist'
  BY <1>0, <1>2, <1>3, <1>5, <1>6 DEF GenerationsExist
<1>8. LocksCounted'
  <2> SUFFICES ASSUME NEW g \in 1 .. Top + 1, NEW p \in Keys
               PROVE  gens'[g].locks[p] = Cardinality(Of(g, p)')
    BY <1>2 DEF LocksCounted
  <2>1. Of(g, p)' = Of(g, p)
    BY <1>3 DEF Of, Live
  <2>2. CASE g \in 1 .. Top
    BY <2>1, <2>2, <1>2 DEF LocksCounted, IInv
  <2>3. CASE g = Top + 1
    <3>1. Of(g, p) = {}
      BY <2>3, <1>0, <1>6 DEF Of
    <3> QED  BY <3>1, <2>1, <2>3, <1>0, <1>2, GenFacts, FS_EmptySet
  <2> QED  BY <1>0, <2>2, <2>3
<1>9. IteratorSeesSnapshot'
  <2> SUFFICES ASSUME NEW j \in Iters, Live(j)
               PROVE  iters[j].snap = {k \in DOMAIN gens'[iters[j].gen].map : Extends(k, iters[j].root)}
    BY <1>3, <1>5 DEF IteratorSeesSnapshot
  <2>1. gens'[iters[j].gen] = gens[iters[j].gen]
    BY <1>2, <1>6
  <2> QED  BY <2>1 DEF IInv, IteratorSeesSnapshot
<1>10. IterationInOrder'
  BY <1>3, <1>5 DEF IterationInOrder, IInv
<1> QED  BY <1>4, <1>7, <1>8, <1>9, <1>10 DEF IInv

(* Rolling generations back preserves the invariant. *)
LEMMA NormalizeIInv ==
  ASSUME IInv, NEW g, Normalize(g)
  PROVE  IInv'
<1> DEFINE R == [map : Map, locks : [Keys -> 0 .. MaxCount]]
<1>0. TypeOK /\ Top \in Nat /\ Top = Len(gens) /\ gens \in Seq(R)
  BY Parts DEF IInv, TypeOK
<1>1. g \in 1 .. Top - 1 /\ gens' = SubSeq(gens, 1, g)
  BY DEF Normalize
<1> HIDE DEF R
<1>2. gens' \in Seq(R) /\ Len(gens') = g /\ Top' = g /\ \A h \in 1 .. g : gens'[h] = gens[h]
  BY <1>0, <1>1 DEF Top
<1>3. /\ \A j \in Iters : iters'[j] = IF Live(j) /\ iters[j].gen > g THEN NoIter ELSE iters[j]
      /\ iters' \in [Iters -> IterState \cup {NoIter}]
  <2>1. \A j \in Iters : iters[j] \in IterState \cup {NoIter}
    BY <1>0 DEF TypeOK
  <2>2. iters' = [j \in Iters |-> IF Live(j) /\ iters[j].gen > g THEN NoIter ELSE iters[j]]
    BY DEF Normalize
  <2> HIDE DEF IterState, Live
  <2> QED  BY <2>1, <2>2
<1>4. TypeOK'
  <2>1. saved' \in Map /\ broken' \in BOOLEAN /\ ret' \in Rets
    BY <1>0 DEF Normalize, TypeOK, Rets
  <2>2. Len(gens') > 0
    BY <1>1, <1>2
  <2> QED  BY <1>2, <1>3, <2>1, <2>2 DEF TypeOK, R, IterState, Rets
<1>5. \A j \in Iters : Live(j) => iters[j].gen \in 1 .. Top
  BY DEF IInv, GenerationsExist
<1>6. \A j \in Iters : Live(j)' <=> Live(j) /\ iters[j].gen \in 1 .. g
  BY <1>0, <1>1, <1>3, <1>5 DEF Live
<1>7. \A j \in Iters : Live(j)' => Live(j) /\ iters'[j] = iters[j] /\ iters[j].gen \in 1 .. g
  BY <1>3, <1>6 DEF Live
<1>8. GenerationsExist'
  BY <1>2, <1>7 DEF GenerationsExist
<1>9. LocksCounted'
  <2> SUFFICES ASSUME NEW h \in 1 .. g, NEW p \in Keys
               PROVE  gens'[h].locks[p] = Cardinality(Of(h, p)')
    BY <1>2 DEF LocksCounted
  <2>1. Of(h, p)' = Of(h, p)
    BY <1>6, <1>7 DEF Of
  <2>2. h \in 1 .. Top
    BY <1>0, <1>1
  <2> QED  BY <2>1, <2>2, <1>2 DEF LocksCounted, IInv
<1>10. IteratorSeesSnapshot'
  BY <1>2, <1>7 DEF IteratorSeesSnapshot, IInv
<1>11. IterationInOrder'
  BY <1>7 DEF IterationInOrder, IInv
<1> QED  BY <1>4, <1>8, <1>9, <1>10, <1>11 DEF IInv

(* An execution that starts has one generation and no iterators. *)
Start ==
  /\ \E m \in Map : gens = <<Gen(m)>>
  /\ iters = [i \in Iters |-> NoIter]
  /\ saved \in Map /\ broken \in BOOLEAN /\ ret \in Rets

(* The states in which an execution starts satisfy the invariant. *)
LEMMA StartIInv == Start => IInv
<1> SUFFICES ASSUME NEW m \in Map, gens = <<Gen(m)>>, Start
             PROVE  IInv
  BY DEF Start
<1> DEFINE R == [map : Map, locks : [Keys -> 0 .. MaxCount]]
<1>1. Gen(m) \in R
  BY GenFacts
<1>2. gens \in Seq(R) /\ Len(gens) = 1 /\ gens[1] = Gen(m)
  BY <1>1
<1>3. TypeOK /\ Top = 1
  BY <1>2 DEF TypeOK, Top, Start
<1>4. \A i \in Iters : ~ Live(i)
  BY DEF Live, Start
<1>5. \A h, p : Of(h, p) = {}
  BY <1>4 DEF Of
<1>6. LocksCounted
  <2> SUFFICES ASSUME NEW h \in 1 .. Top, NEW p \in Keys
               PROVE  gens[h].locks[p] = Cardinality(Of(h, p))
    BY DEF LocksCounted
  <2>1. h = 1
    BY <1>3
  <2>2. gens[h].locks[p] = 0
    BY <2>1, <1>2, GenFacts
  <2> QED  BY <2>2, <1>5, FS_EmptySet
<1> QED  BY <1>3, <1>4, <1>6 DEF IInv, GenerationsExist, IteratorSeesSnapshot, IterationInOrder

(* Freeze and Discard preserve the invariant. *)
LEMMA RestartIInv ==
  ASSUME IInv, Freeze \/ Discard
  PROVE  IInv'
<1>0. map \in Map /\ saved \in Map /\ broken \in BOOLEAN
  BY Parts DEF IInv, TypeOK
<1>1. (\E m \in Map : gens' = <<Gen(m)>>) /\ saved' \in Map
  BY <1>0 DEF Freeze, Discard
<1>2. iters' = [i \in Iters |-> NoIter] /\ broken' \in BOOLEAN /\ ret' \in Rets
  BY <1>0 DEF Freeze, Discard, Rets
<1>3. Start'
  BY <1>1, <1>2 DEF Start, Map, Gen, NoLocks, Rets
<1> QED  BY <1>3, StartIInv, PTL

(* Every step preserves the invariant. *)
LEMMA NextIInv == IInv /\ [Next]_vars => IInv'
<1> SUFFICES ASSUME IInv, [Next]_vars
             PROVE  IInv'
  OBVIOUS
<1>1. ASSUME NEW k \in Keys, NEW v \in Values, Insert(k, v) \/ Write(k, v)
      PROVE  IInv'
  BY <1>1, InsertIInv, WriteIInv
<1>2. ASSUME NEW k \in Keys, Delete(k)
      PROVE  IInv'
  BY <1>2, DeleteIInv
<1>3. ASSUME NEW k \in Keys, DeletePrefix(k) \/ DeletePrefixStops(k)
      PROVE  IInv'
  BY <1>3, DeletePrefixIInv
<1>4. ASSUME NEW k \in Keys, Get(k)
      PROVE  IInv'
  BY <1>4, QuietStep DEF Get, Rets
<1>5. CASE StaleHandle
  BY <1>5, QuietStep DEF StaleHandle, Rets
<1>6. ASSUME NEW i \in Iters, NEW k \in Keys, Iter(i, k)
      PROVE  IInv'
  BY <1>6, IterIInv
<1>7. ASSUME NEW i \in Iters, Next_(i) \/ DeleteIter(i)
      PROVE  IInv'
  BY <1>7, NextIterIInv, DeleteIterIInv
<1>8. CASE NewGeneration
  BY <1>8, NewGenerationIInv
<1>9. ASSUME NEW g \in 1 .. Top, Normalize(g)
      PROVE  IInv'
  BY <1>9, NormalizeIInv
<1>10. CASE Freeze \/ Discard
  BY <1>10, RestartIInv
<1>11. CASE UNCHANGED vars
  BY <1>11, QuietStep DEF vars, IInv, TypeOK
<1> QED
  BY <1>1, <1>2, <1>3, <1>4, <1>5, <1>6, <1>7, <1>8, <1>9, <1>10, <1>11 DEF Next

(* The invariant holds initially. *)
LEMMA InitIInv == Init => IInv
<1>1. Init => Start
  BY DEF Init, Start, Rets
<1> QED  BY <1>1, StartIInv

(* The inductive invariant holds in every reachable state. *)
THEOREM SpecIInv == Spec => []IInv
BY InitIInv, NextIInv, PTL DEF Spec

(* The state is well formed; in particular a lock count never goes below   *)
(* zero or above its limit.                                                *)
THEOREM SpecTypeOK == Spec => []TypeOK
<1>1. IInv => TypeOK
  BY DEF IInv
<1> QED  BY <1>1, SpecIInv, PTL

(* The locks of every generation are those of its live iterators.  *)
THEOREM SpecLocksCounted == Spec => []LocksCounted
<1>1. IInv => LocksCounted
  BY DEF IInv
<1> QED  BY <1>1, SpecIInv, PTL

(* The subtree of an iterator has the keys it had when it was made. *)
THEOREM SpecIteratorSeesSnapshot == Spec => []IteratorSeesSnapshot
<1>1. IInv => IteratorSeesSnapshot
  BY DEF IInv
<1> QED  BY <1>1, SpecIInv, PTL

(* Iterators skip nothing and keep the order of keys. *)
THEOREM SpecIterationInOrder == Spec => []IterationInOrder
<1>1. IInv => IterationInOrder
  BY DEF IInv
<1> QED  BY <1>1, SpecIInv, PTL

=============================================================================
