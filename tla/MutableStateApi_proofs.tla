------------------------ MODULE MutableStateApi_proofs ------------------------
(***************************************************************************)
(* Whoever holds a valid handle to a contract state finds what was left    *)
(* there, for any number of handles, tries, generations and contents.      *)
(***************************************************************************)
EXTENDS MutableStateApi, FiniteSetTheorems, TLAPS

Inners == [trie : Tries, root : Nat]
HandleState ==
  [inner : Inners \cup {None}, persistent : Contents, expected : Contents,
   from : Handles \cup {None}, valid : BOOLEAN]

(* The generation that a thawed handle x is for is in its trie and holds   *)
(* what is expected.  A handle that is not thawed has a persistent state   *)
(* that does.                                                              *)
Finds(ts, x) ==
  IF x.inner # None
  THEN /\ x.inner.root + 1 <= Len(ts[x.inner.trie])
       /\ ts[x.inner.trie][x.inner.root + 1] = x.expected
  ELSE x.persistent = x.expected

(* The inductive invariant, of the tries ts and the handles hs. *)
Consistent(ts, hs) ==
  /\ ts \in [Tries -> Seq(Contents)]
  /\ hs \in [Handles -> HandleState \cup {None}]
  /\ \A g \in Handles : hs[g] # None /\ hs[g].valid => Finds(ts, hs[g])

Inv == Consistent(tries, handles)

-----------------------------------------------------------------------------
(* What get_inner gives.                                                   *)

(* None is apart from what it stands beside. *)
LEMMA NoneIsApart ==
  ASSUME HandlesAssumption
  PROVE  None \notin Inners /\ None \notin HandleState
BY DEF HandlesAssumption, Inners, HandleState

LEMMA SameInner ==
  ASSUME NEW a \in Inners, NEW b \in Inners, a.trie = b.trie, a.root = b.root
  PROVE  a = b
BY DEF Inners

LEMMA LiveHandles ==
  ASSUME HandlesAssumption, Inv, NEW h \in Live
  PROVE  /\ handles[h] \in HandleState
         /\ h \in Thawed => handles[h].inner \in Inners
         /\ h \notin Thawed => handles[h].inner = None
         /\ handles[h].valid => Finds(tries, handles[h])
BY DEF Inv, Consistent, Live, Thawed, HandleState

(* Going back to a generation keeps it and the older ones. *)
LEMMA NormalizeKeeps ==
  ASSUME NEW gens \in Seq(Contents), NEW root \in Nat, root + 1 <= Len(gens)
  PROVE  /\ normalize(gens, root) \in Seq(Contents)
         /\ Len(normalize(gens, root)) = root + 1
         /\ \A j \in 1 .. root + 1 : normalize(gens, root)[j] = gens[j]
BY DEF normalize

(* There is a trie for a handle that has none. *)
LEMMA FreeTrieIsFree ==
  ASSUME HandlesAssumption, Inv, NEW h \in Handles, h \notin Thawed
  PROVE  FreeTrie \in Tries /\ \A g \in Thawed : handles[g].inner.trie # FreeTrie
<1>1. \E t \in Tries : \A g \in Thawed : handles[g].inner.trie # t
  <2>1. SUFFICES ASSUME \A t \in Tries : \E g \in Thawed : handles[g].inner.trie = t
                 PROVE  FALSE
    OBVIOUS
  <2>2. Thawed \in SUBSET (Handles \ {h})
    BY DEF Thawed, Live
  <2>3. /\ IsFiniteSet(Handles \ {h})
        /\ Cardinality(Handles \ {h}) = Cardinality(Handles) - 1
    BY FS_RemoveElement DEF HandlesAssumption
  <2>4. IsFiniteSet(Thawed) /\ Cardinality(Thawed) <= Cardinality(Handles) - 1
    BY <2>2, <2>3, FS_Subset
  <2>5. /\ Cardinality(Handles) \in Nat /\ Cardinality(Tries) \in Nat
        /\ Cardinality(Thawed) \in Nat
    BY <2>4, FS_CardinalityType DEF HandlesAssumption
  <2>6. Cardinality(Thawed) < Cardinality(Tries)
    BY <2>4, <2>5 DEF HandlesAssumption
  <2> DEFINE f == [t \in Tries |-> CHOOSE g \in Thawed : handles[g].inner.trie = t]
  <2>7. f \in [Tries -> Thawed] /\ \A t \in Tries : handles[f[t]].inner.trie = t
    BY <2>1
  <2> HIDE DEF f
  <2>8. IsFiniteSet(Tries)
    BY DEF HandlesAssumption
  <2>9. \E t, u \in Tries : t # u /\ f[t] = f[u]
    BY <2>4, <2>6, <2>7, <2>8, FS_PigeonHole
  <2>. QED BY <2>7, <2>9
<1>. QED BY <1>1 DEF FreeTrie

(* A valid handle gets its generation as the newest one of its trie, and   *)
(* the generations of other valid handles below it as they were.           *)
LEMMA GetInner ==
  ASSUME HandlesAssumption, Inv, NEW h \in Valid
  PROVE  LET i == get_inner(h)
         IN  /\ i.inner \in Inners
             /\ h \in Thawed => i.inner = handles[h].inner
             /\ i.gens \in Seq(Contents)
             /\ Len(i.gens) = i.inner.root + 1
             /\ i.gens[i.inner.root + 1] = handles[h].expected
             /\ \A g \in Valid \cap Thawed :
                  /\ handles[g].inner.trie = i.inner.trie
                  /\ handles[g].inner.root <= i.inner.root
                  => i.gens[handles[g].inner.root + 1] = handles[g].expected
<1>1. h \in Live /\ h \in Handles /\ handles[h].valid
  BY DEF Valid, Live
<1>2. handles[h] \in HandleState /\ Finds(tries, handles[h]) /\ None \notin Inners
  BY <1>1, LiveHandles, NoneIsApart
<1>3. CASE h \in Thawed
  <2> DEFINE in == handles[h].inner
             ns == normalize(tries[in.trie], in.root)
  <2>1. in \in Inners
    BY <1>1, <1>3, LiveHandles
  <2>2. in.trie \in Tries /\ in.root \in Nat /\ tries[in.trie] \in Seq(Contents)
    BY <2>1 DEF Inners, Inv, Consistent
  <2>3. in # None
    BY <2>1, <1>2
  <2>4. in.root + 1 <= Len(tries[in.trie]) /\ tries[in.trie][in.root + 1] = handles[h].expected
    BY <2>3, <1>2 DEF Finds
  <2>5. /\ ns \in Seq(Contents) /\ Len(ns) = in.root + 1
        /\ \A j \in 1 .. in.root + 1 : ns[j] = tries[in.trie][j]
    BY <2>2, <2>4, NormalizeKeeps
  <2>6. ASSUME NEW g \in Valid \cap Thawed, handles[g].inner.trie = in.trie,
               handles[g].inner.root <= in.root
        PROVE  ns[handles[g].inner.root + 1] = handles[g].expected
    <3>1. g \in Live /\ handles[g].valid
      BY DEF Valid
    <3>2. handles[g].inner \in Inners /\ Finds(tries, handles[g])
      BY <3>1, LiveHandles
    <3>3. handles[g].inner # None /\ handles[g].inner.root \in Nat
      BY <3>2, <1>2 DEF Inners
    <3>4. tries[in.trie][handles[g].inner.root + 1] = handles[g].expected
      BY <2>6, <3>2, <3>3 DEF Finds
    <3>5. handles[g].inner.root + 1 \in 1 .. in.root + 1
      BY <2>2, <2>6, <3>3
    <3>. QED BY <2>5, <3>4, <3>5
  <2>7. get_inner(h) = [inner |-> in, gens |-> ns]
    BY <1>3 DEF get_inner
  <2>8. in.root + 1 \in 1 .. in.root + 1
    BY <2>2
  <2> HIDE DEF in, ns
  <2>9. get_inner(h).inner = in /\ get_inner(h).gens = ns
    BY <2>7
  <2>. QED BY <2>1, <2>4, <2>5, <2>6, <2>8, <2>9 DEF in
<1>4. CASE h \notin Thawed
  <2>1. handles[h].inner = None
    BY <1>1, <1>4, LiveHandles
  <2>2. handles[h].persistent = handles[h].expected /\ handles[h].persistent \in Contents
    BY <2>1, <1>2 DEF Finds, HandleState
  <2>3. FreeTrie \in Tries /\ \A g \in Thawed : handles[g].inner.trie # FreeTrie
    BY <1>1, <1>4, FreeTrieIsFree
  <2>4. get_inner(h) = [inner |-> [trie |-> FreeTrie, root |-> 0], gens |-> <<handles[h].persistent>>]
    BY <1>4 DEF get_inner, Inner
  <2>5. [trie |-> FreeTrie, root |-> 0] \in Inners
    BY <2>3 DEF Inners
  <2>6. /\ get_inner(h).inner = [trie |-> FreeTrie, root |-> 0]
        /\ get_inner(h).gens = <<handles[h].persistent>>
    BY <2>4
  <2>7. get_inner(h).inner.root = 0 /\ get_inner(h).inner.trie = FreeTrie
    BY <2>6
  <2>8. /\ <<handles[h].persistent>> \in Seq(Contents) /\ Len(<<handles[h].persistent>>) = 1
        /\ <<handles[h].persistent>>[1] = handles[h].expected
    BY <2>2
  <2>. QED BY <2>3, <2>5, <2>6, <2>7, <2>8, <1>4
<1>. QED BY <1>3, <1>4

-----------------------------------------------------------------------------
(* The steps.                                                              *)

(* A use of h that leaves gens, with e for the generation of h, and the    *)
(* older generations as get_inner gave them.                               *)
LEMMA UseKeeps ==
  ASSUME HandlesAssumption, Inv, NEW h \in Valid,
         NEW inner, inner = get_inner(h).inner, NEW e \in Contents,
         NEW gens \in Seq(Contents), inner.root + 1 <= Len(gens), gens[inner.root + 1] = e,
         \A j \in 1 .. inner.root : gens[j] = get_inner(h).gens[j]
  PROVE  Consistent([tries EXCEPT ![inner.trie] = gens], AfterUse(h, inner, e))
<1> DEFINE ts == [tries EXCEPT ![inner.trie] = gens]
           hs == AfterUse(h, inner, e)
<1>1. inner \in Inners /\ inner.trie \in Tries /\ inner.root \in Nat /\ None \notin Inners
  BY GetInner, NoneIsApart DEF Inners
<1>2. h \in Handles /\ h \in Live
  BY DEF Valid, Live
<1>3. /\ tries \in [Tries -> Seq(Contents)] /\ handles \in [Handles -> HandleState \cup {None}]
      /\ \A g \in Live : handles[g] \in HandleState
  BY LiveHandles DEF Inv, Consistent
<1>4. ts \in [Tries -> Seq(Contents)]
  BY <1>1, <1>3
<1>5. /\ ts[inner.trie] = gens
      /\ \A t \in Tries : t # inner.trie => ts[t] = tries[t]
  BY <1>1, <1>3
<1>6. ASSUME NEW g \in Handles
      PROVE  /\ hs[g] \in HandleState \cup {None}
             /\ hs[g] # None /\ hs[g].valid => Finds(ts, hs[g])
  <2>1. hs[g] = IF g = h THEN [handles[g] EXCEPT !.inner = inner, !.expected = e]
                ELSE IF SameGeneration(g, inner) THEN [handles[g] EXCEPT !.expected = e]
                ELSE IF Stale(g, inner) THEN [handles[g] EXCEPT !.valid = FALSE]
                ELSE handles[g]
    BY DEF AfterUse
  <2> HIDE DEF ts, hs
  <2>2. CASE g = h
    <3>1. hs[g] = [handles[g] EXCEPT !.inner = inner, !.expected = e] /\ handles[g] \in HandleState
      BY <2>1, <2>2, <1>2, <1>3
    <3>2. hs[g] \in HandleState /\ hs[g].inner = inner /\ hs[g].expected = e
      BY <3>1, <1>1 DEF HandleState
    <3>. QED BY <3>2, <1>1, <1>5 DEF Finds
  <2>3. CASE g # h /\ SameGeneration(g, inner)
    <3>1. hs[g] = [handles[g] EXCEPT !.expected = e] /\ handles[g] \in HandleState
      BY <2>1, <2>3, <1>3 DEF SameGeneration, Thawed
    <3>2. hs[g] \in HandleState /\ hs[g].inner = inner /\ hs[g].expected = e
      BY <2>3, <3>1 DEF HandleState, SameGeneration
    <3>. QED BY <3>2, <1>1, <1>5 DEF Finds
  <2>4. CASE g # h /\ ~ SameGeneration(g, inner) /\ Stale(g, inner)
    <3>1. hs[g] = [handles[g] EXCEPT !.valid = FALSE] /\ handles[g] \in HandleState
      BY <2>1, <2>4, <1>3 DEF Stale, Thawed
    <3>. QED BY <3>1 DEF HandleState
  <2>5. CASE g # h /\ ~ SameGeneration(g, inner) /\ ~ Stale(g, inner)
    <3>1. hs[g] = handles[g] /\ handles[g] \in HandleState \cup {None}
      BY <2>1, <2>5, <1>3
    <3>2. ASSUME handles[g] # None, handles[g].valid
          PROVE  Finds(ts, handles[g])
      <4>1. g \in Live /\ g \in Valid
        BY <3>2 DEF Live, Valid
      <4>2. Finds(tries, handles[g]) /\ handles[g] \in HandleState
        BY <3>2, <4>1, LiveHandles
      <4>3. CASE handles[g].inner = None
        BY <4>2, <4>3 DEF Finds
      <4>4. CASE handles[g].inner # None
        <5>1. g \in Thawed /\ handles[g].inner \in Inners
          BY <4>1, <4>4, LiveHandles DEF Thawed
        <5>2. handles[g].inner.trie \in Tries /\ handles[g].inner.root \in Nat
          BY <5>1 DEF Inners
        <5>3. CASE handles[g].inner.trie # inner.trie
          BY <4>2, <5>2, <5>3, <1>5 DEF Finds
        <5>4. CASE handles[g].inner.trie = inner.trie
          <6>1. handles[g].inner # inner /\ ~ (handles[g].inner.root > inner.root)
            BY <2>5, <5>1, <5>4 DEF SameGeneration, Stale
          <6>2. handles[g].inner.root # inner.root
            BY <5>1, <5>4, <6>1, <1>1, SameInner
          <6>3. handles[g].inner.root + 1 \in 1 .. inner.root
            BY <5>2, <6>1, <6>2, <1>1
          <6>4. get_inner(h).gens[handles[g].inner.root + 1] = handles[g].expected
            BY <4>1, <5>1, <5>2, <5>4, <6>3, <1>1, GetInner
          <6>5. gens[handles[g].inner.root + 1] = handles[g].expected
            BY <6>3, <6>4
          <6>6. handles[g].inner.root + 1 <= Len(gens)
            BY <6>3, <1>1
          <6>. QED BY <4>4, <5>4, <6>5, <6>6, <1>5 DEF Finds
        <5>. QED BY <5>3, <5>4
      <4>. QED BY <4>3, <4>4
    <3>. QED BY <3>1, <3>2
  <2>. QED BY <2>2, <2>3, <2>4, <2>5
<1>7. hs \in [Handles -> HandleState \cup {None}]
  BY <1>6 DEF AfterUse
<1>. QED BY <1>4, <1>6, <1>7 DEF Consistent

(* A new handle that finds what it expects may be added. *)
LEMMA AddHandle ==
  ASSUME NEW ts, NEW hs, Consistent(ts, hs), NEW n \in Handles, NEW x \in HandleState,
         x.valid => Finds(ts, x)
  PROVE  Consistent(ts, [hs EXCEPT ![n] = x])
BY DEF Consistent

LEMMA ThawKeeps ==
  ASSUME HandlesAssumption, Inv, NEW n \in Handles, NEW p \in Contents, thaw(n, p)
  PROVE  Inv'
<1> DEFINE x == Handle(None, p, None)
<1>1. x \in HandleState /\ Finds(tries, x)
  BY DEF Handle, HandleState, Finds
<1> HIDE DEF x
<1>2. Consistent(tries, [handles EXCEPT ![n] = x])
  BY <1>1, AddHandle DEF Inv
<1>. QED BY <1>2 DEF thaw, Inv, x

LEMMA ModifyKeeps ==
  ASSUME HandlesAssumption, Inv, NEW h \in Handles, NEW c \in Contents, modify(h, c)
  PROVE  Inv'
<1> DEFINE i == get_inner(h)
           gens == [i.gens EXCEPT ![Len(i.gens)] = c]
<1>1. h \in Valid
  BY DEF modify, MayUse
<1>2. /\ i.inner \in Inners /\ i.inner.root \in Nat /\ i.gens \in Seq(Contents)
      /\ Len(i.gens) = i.inner.root + 1
  BY <1>1, GetInner DEF Inners
<1>3. /\ tries' = [tries EXCEPT ![i.inner.trie] = gens]
      /\ handles' = AfterUse(h, i.inner, c)
  BY DEF modify
<1>4. /\ gens \in Seq(Contents) /\ i.inner.root + 1 <= Len(gens) /\ gens[i.inner.root + 1] = c
      /\ \A j \in 1 .. i.inner.root : gens[j] = i.gens[j]
  <2> HIDE DEF i
  <2>. QED BY <1>2
<1>5. \E in, gs : /\ in = get_inner(h).inner /\ gs = gens
  OBVIOUS
<1>6. PICK in, gs : in = get_inner(h).inner /\ gs = gens
  BY <1>5
<1>7. Consistent([tries EXCEPT ![in.trie] = gs], AfterUse(h, in, c))
  BY <1>1, <1>4, <1>6, UseKeeps
<1>. QED BY <1>3, <1>6, <1>7 DEF Inv

LEMMA MakeFreshKeeps ==
  ASSUME HandlesAssumption, Inv, NEW h \in Handles, NEW n \in Handles, make_fresh_generation(h, n)
  PROVE  Inv'
<1> DEFINE i == get_inner(h)
           top == i.gens[Len(i.gens)]
           e == handles[h].expected
           in == IF h \in Thawed THEN [i.inner EXCEPT !.root = @ + 1] ELSE i.inner
           gens == IF h \in Thawed THEN Append(i.gens, top) ELSE i.gens
           new == [Handle(in, handles[h].persistent, h) EXCEPT !.expected = e]
<1>1. h \in Valid /\ n \notin Live /\ h \in Live
  BY DEF make_fresh_generation, MayUse, Valid
<1>2. /\ i.inner \in Inners /\ i.inner.root \in Nat /\ i.inner.trie \in Tries
      /\ i.gens \in Seq(Contents)
      /\ Len(i.gens) = i.inner.root + 1 /\ i.gens[i.inner.root + 1] = e
  BY <1>1, GetInner DEF Inners
<1>3. handles[h] \in HandleState /\ None \notin Inners
  BY <1>1, LiveHandles, NoneIsApart
<1>4. e \in Contents /\ handles[h].persistent \in Contents
  BY <1>3 DEF HandleState
<1>5. /\ tries' = [tries EXCEPT ![i.inner.trie] = gens]
      /\ handles' = [AfterUse(h, i.inner, e) EXCEPT ![n] = new]
  BY DEF make_fresh_generation
<1>6. /\ gens \in Seq(Contents) /\ i.inner.root + 1 <= Len(gens) /\ gens[i.inner.root + 1] = e
      /\ \A j \in 1 .. i.inner.root : gens[j] = i.gens[j]
      /\ h \in Thawed => Len(gens) = i.inner.root + 2 /\ gens[i.inner.root + 2] = e
  <2> HIDE DEF i, e
  <2>. QED BY <1>2, <1>4
<1>7. in \in Inners /\ in.trie = i.inner.trie
      /\ in.root = IF h \in Thawed THEN i.inner.root + 1 ELSE i.inner.root
  <2> HIDE DEF i
  <2>. QED BY <1>2 DEF Inners
<1>8. PICK ii, gg, ee, nn, ir : ii = i.inner /\ gg = gens /\ ee = e /\ nn = in /\ ir = new
  OBVIOUS
<1>9. Consistent([tries EXCEPT ![ii.trie] = gg], AfterUse(h, ii, ee))
  BY <1>1, <1>4, <1>6, <1>8, UseKeeps
<1>10. /\ ir \in HandleState /\ ir.inner = nn /\ ir.expected = ee
  <2> HIDE DEF in, e
  <2>1. new \in [inner : {in}, persistent : {handles[h].persistent}, expected : {e},
                from : {h}, valid : {TRUE}]
    BY DEF Handle
  <2>2. new \in HandleState /\ new.inner = in /\ new.expected = e
    BY <2>1, <1>4, <1>7 DEF HandleState
  <2>. QED BY <2>2, <1>8
<1>11. Finds([tries EXCEPT ![ii.trie] = gg], ir)
  <2>1. [tries EXCEPT ![ii.trie] = gg][nn.trie] = gg
    BY <1>2, <1>7, <1>8 DEF Inv, Consistent
  <2>2. nn.root + 1 <= Len(gg) /\ gg[nn.root + 1] = ee /\ nn # None
    <3> HIDE DEF i, in, gens, e
    <3>. QED BY <1>2, <1>3, <1>6, <1>7, <1>8
  <2>. QED BY <2>1, <2>2, <1>10 DEF Finds
<1>12. Consistent([tries EXCEPT ![ii.trie] = gg], [AfterUse(h, ii, ee) EXCEPT ![n] = ir])
  BY <1>9, <1>10, <1>11, AddHandle
<1>. QED BY <1>5, <1>8, <1>12 DEF Inv

LEMMA CloneKeeps ==
  ASSUME HandlesAssumption, Inv, NEW h \in Handles, NEW n \in Handles, clone(h, n)
  PROVE  Inv'
<1> DEFINE x == [handles[h] EXCEPT !.from = None]
<1>1. handles[h] \in HandleState /\ (handles[h].valid => Finds(tries, handles[h]))
  BY LiveHandles DEF clone
<1>2. x \in HandleState /\ (x.valid => Finds(tries, x))
  BY <1>1 DEF HandleState, Finds
<1>3. PICK y : y = x
  OBVIOUS
<1>4. Consistent(tries, [handles EXCEPT ![n] = y])
  BY <1>2, <1>3, AddHandle DEF Inv
<1>. QED BY <1>3, <1>4 DEF clone, Inv

(* Tries that no handle is for may go. *)
LEMMA CollectedKeeps ==
  ASSUME HandlesAssumption, NEW ts, NEW hs, Consistent(ts, hs)
  PROVE  Consistent(Collected(ts, hs), hs)
<1> DEFINE cs == Collected(ts, hs)
<1>1. cs \in [Tries -> Seq(Contents)]
  BY DEF Consistent, Collected
<1>2. ASSUME NEW g \in Handles, hs[g] # None, hs[g].valid
      PROVE  Finds(cs, hs[g])
  <2>1. Finds(ts, hs[g]) /\ hs[g] \in HandleState
    BY <1>2 DEF Consistent
  <2>2. CASE hs[g].inner = None
    BY <2>1, <2>2 DEF Finds
  <2>3. CASE hs[g].inner # None
    <3>1. hs[g].inner.trie \in Tries
      BY <2>1, <2>3 DEF HandleState, Inners
    <3>2. cs[hs[g].inner.trie] = ts[hs[g].inner.trie]
      BY <1>2, <2>3, <3>1 DEF Collected
    <3> HIDE DEF cs
    <3>. QED BY <2>1, <2>3, <3>2 DEF Finds
  <2>. QED BY <2>2, <2>3
<1>. QED BY <1>1, <1>2 DEF Consistent

(* What freeze makes persistent is what is expected. *)
LEMMA FoundIsExpected ==
  ASSUME HandlesAssumption, Inv, NEW h \in Valid
  PROVE  Found(h) = handles[h].expected
BY GetInner DEF Found

LEMMA FreezeKeeps ==
  ASSUME HandlesAssumption, Inv, NEW h \in Handles, freeze(h)
  PROVE  Inv'
<1>1. h \in Valid
  BY DEF freeze, MayUse
<1>2. CASE h \notin Thawed
  BY <1>2 DEF freeze, Inv
<1>3. CASE h \in Thawed
  <2> DEFINE inner == handles[h].inner
             hs == [g \in Handles |->
                  IF g = h THEN [handles[g] EXCEPT !.inner = None, !.persistent = Frozen(h)]
                  ELSE IF g \in Thawed /\ handles[g].inner.trie = inner.trie
                  THEN [handles[g] EXCEPT !.valid = FALSE]
                  ELSE handles[g]]
             ts == [tries EXCEPT ![inner.trie] = <<Empty>>]
  <2>1. handles' = hs /\ tries' = Collected(ts, handles')
    BY <1>3 DEF freeze
  <2>2. Frozen(h) = handles[h].expected
    BY <1>1, FoundIsExpected DEF Frozen
  <2>3. inner \in Inners
    BY <1>1, <1>3, LiveHandles DEF Valid
  <2>4. /\ ts \in [Tries -> Seq(Contents)]
        /\ \A t \in Tries : t # inner.trie => ts[t] = tries[t]
    BY <2>3 DEF Inv, Consistent, HandlesAssumption, Inners
  <2>5. ASSUME NEW g \in Handles
        PROVE  /\ hs[g] \in HandleState \cup {None}
               /\ hs[g] # None /\ hs[g].valid => Finds(ts, hs[g])
    <3> HIDE DEF ts
    <3>1. CASE g = h
      <4>1. handles[g] \in HandleState
        BY <1>1, <3>1, LiveHandles DEF Valid
      <4>2. hs[g] = [handles[g] EXCEPT !.inner = None, !.persistent = handles[h].expected]
        BY <2>2, <3>1
      <4> HIDE DEF hs
      <4>3. /\ hs[g] \in HandleState /\ hs[g].inner = None
            /\ hs[g].persistent = hs[g].expected
        BY <3>1, <4>1, <4>2 DEF HandleState
      <4>. QED BY <4>3 DEF Finds
    <3>2. CASE g # h /\ g \in Thawed /\ handles[g].inner.trie = inner.trie
      <4>1. handles[g] \in HandleState
        BY <3>2, LiveHandles DEF Thawed
      <4>2. hs[g] = [handles[g] EXCEPT !.valid = FALSE]
        BY <3>2
      <4> HIDE DEF hs
      <4>. QED BY <4>1, <4>2 DEF HandleState
    <3>3. CASE g # h /\ ~ (g \in Thawed /\ handles[g].inner.trie = inner.trie)
      <4>1. hs[g] = handles[g]
        BY <3>3
      <4> HIDE DEF hs
      <4>2. ASSUME handles[g] # None, handles[g].valid PROVE Finds(ts, handles[g])
        <5>1. g \in Live /\ Finds(tries, handles[g]) /\ handles[g] \in HandleState
          BY <4>2, LiveHandles DEF Live
        <5>2. CASE handles[g].inner = None
          BY <5>1, <5>2 DEF Finds
        <5>3. CASE handles[g].inner # None
          <6>1. handles[g].inner.trie \in Tries /\ handles[g].inner.trie # inner.trie
            BY <3>3, <5>1, <5>3 DEF Thawed, HandleState, Inners
          <6>. QED BY <2>4, <5>1, <5>3, <6>1 DEF Finds
        <5>. QED BY <5>2, <5>3
      <4>3. handles[g] \in HandleState \cup {None}
        BY DEF Inv, Consistent
      <4>. QED BY <4>1, <4>2, <4>3
    <3>. QED BY <3>1, <3>2, <3>3
  <2>6. hs \in [Handles -> HandleState \cup {None}]
    BY <2>5
  <2>7. Consistent(ts, hs)
    BY <2>4, <2>5, <2>6 DEF Consistent
  <2>8. PICK ts0, hs0 : ts0 = ts /\ hs0 = hs
    OBVIOUS
  <2>9. Consistent(Collected(ts0, hs0), hs0)
    BY <2>7, <2>8, CollectedKeeps
  <2>. QED BY <2>1, <2>8, <2>9 DEF Inv
<1>. QED BY <1>2, <1>3

LEMMA DropKeeps ==
  ASSUME HandlesAssumption, Inv, NEW h \in Handles, drop(h)
  PROVE  Inv'
<1> DEFINE hs == [g \in Handles |->
             IF g = h THEN None
             ELSE IF g \in Live /\ handles[g].from = h THEN [handles[g] EXCEPT !.from = None]
             ELSE handles[g]]
<1>1. handles' = hs /\ tries' = Collected(tries, handles')
  BY DEF drop
<1>2. ASSUME NEW g \in Handles
      PROVE  /\ hs[g] \in HandleState \cup {None}
             /\ hs[g] # None /\ hs[g].valid => Finds(tries, hs[g])
  <2>1. CASE g = h
    BY <2>1
  <2>2. CASE g # h /\ g \in Live /\ handles[g].from = h
    <3>1. handles[g] \in HandleState /\ (handles[g].valid => Finds(tries, handles[g]))
      BY <2>2, LiveHandles
    <3>2. hs[g] = [handles[g] EXCEPT !.from = None]
      BY <2>2
    <3> HIDE DEF hs
    <3>. QED BY <3>1, <3>2 DEF HandleState, Finds
  <2>3. CASE g # h /\ ~ (g \in Live /\ handles[g].from = h)
    <3>1. hs[g] = handles[g]
      BY <2>3
    <3> HIDE DEF hs
    <3>. QED BY <3>1 DEF Inv, Consistent
  <2>. QED BY <2>1, <2>2, <2>3
<1>3. hs \in [Handles -> HandleState \cup {None}]
  BY <1>2
<1>4. Consistent(tries, hs)
  BY <1>2, <1>3 DEF Consistent, Inv
<1>5. PICK hs0 : hs0 = hs
  OBVIOUS
<1>6. Consistent(Collected(tries, hs0), hs0)
  BY <1>4, <1>5, CollectedKeeps
<1>. QED BY <1>1, <1>5, <1>6 DEF Inv

-----------------------------------------------------------------------------

LEMMA InvInductive ==
  ASSUME HandlesAssumption
  PROVE  (Init => Inv) /\ (Inv /\ [Next]_vars => Inv')
<1>1. Init => Inv
  BY DEF Init, Inv, Consistent
<1>2. ASSUME Inv, [Next]_vars PROVE Inv'
  <2>1. CASE UNCHANGED vars
    BY <2>1, <1>2 DEF vars, Inv
  <2>. QED
    BY <1>2, <2>1, ThawKeeps, ModifyKeeps, MakeFreshKeeps, CloneKeeps, FreezeKeeps, DropKeeps DEF Next
<1>. QED BY <1>1, <1>2

(* A valid handle finds what was last written through it or through a      *)
(* handle for the same generation, whatever was done through other handles *)
(* in between (MutableState, get_inner and MutableTrie::normalize).        *)
THEOREM ValidHandlesFindTheirStateHolds ==
  ASSUME HandlesAssumption
  PROVE  Spec => []ValidHandlesFindTheirState
<1>1. Inv => ValidHandlesFindTheirState
  BY FoundIsExpected DEF ValidHandlesFindTheirState
<1>. QED BY <1>1, InvInductive, PTL DEF Spec

(* A step that takes the trie from a valid handle leaves it with what it   *)
(* would have found.                                                       *)
LEMMA StepFreezesAsFound ==
  ASSUME HandlesAssumption, Inv, [Next]_vars
  PROVE  [FrozenAsFound]_vars
<1>1. SUFFICES ASSUME NEW h \in Valid, h \in Thawed, handles'[h] # None, handles'[h].inner = None,
                      Next
               PROVE  handles'[h].persistent = handles[h].expected
  BY DEF FrozenAsFound
<1>2. h \in Handles /\ h \in Live /\ handles[h].inner # None
  BY <1>1 DEF Valid, Live, Thawed
<1>3. /\ handles[h] \in HandleState /\ handles[h].inner \in Inners /\ None \notin Inners
      /\ handles \in [Handles -> HandleState \cup {None}]
  BY <1>1, <1>2, LiveHandles, NoneIsApart DEF Inv, Consistent
<1>4. ASSUME NEW k \in Valid, NEW in, in = get_inner(k).inner, NEW e,
             handles'[h] = AfterUse(k, in, e)[h]
      PROVE  FALSE
  <2>1. in \in Inners
    BY <1>4, GetInner
  <2>2. CASE h = k
    BY <2>1, <2>2, <1>1, <1>2, <1>3, <1>4 DEF AfterUse, HandleState
  <2>3. CASE h # k
    BY <2>3, <1>1, <1>2, <1>3, <1>4 DEF AfterUse, HandleState
  <2>. QED BY <2>2, <2>3
<1>5. CASE \E n \in Handles, p \in Contents : thaw(n, p)
  BY <1>1, <1>2, <1>3, <1>5 DEF thaw
<1>6. CASE \E k \in Handles, c \in Contents : modify(k, c)
  <2>1. PICK k \in Handles, c \in Contents : modify(k, c)
    BY <1>6
  <2>2. PICK in : in = get_inner(k).inner
    OBVIOUS
  <2>. QED BY <2>1, <2>2, <1>4 DEF modify, MayUse
<1>7. CASE \E k, n \in Handles : make_fresh_generation(k, n)
  <2>1. PICK k \in Handles, n \in Handles : make_fresh_generation(k, n)
    BY <1>7
  <2>2. PICK in, e : in = get_inner(k).inner /\ e = handles[k].expected
    OBVIOUS
  <2>3. k \in Valid /\ n # h
    BY <2>1, <1>2 DEF make_fresh_generation, MayUse
  <2>4. \E x : handles' = [AfterUse(k, in, e) EXCEPT ![n] = x]
    BY <2>1, <2>2 DEF make_fresh_generation
  <2>5. handles'[h] = AfterUse(k, in, e)[h]
    BY <2>3, <2>4, <1>2 DEF AfterUse
  <2>. QED BY <2>2, <2>3, <2>5, <1>4
<1>8. CASE \E k, n \in Handles : clone(k, n)
  BY <1>1, <1>2, <1>3, <1>8 DEF clone
<1>9. CASE \E k \in Handles : freeze(k)
  <2>1. PICK k \in Handles : freeze(k)
    BY <1>9
  <2>2. CASE k \notin Thawed
    BY <2>1, <2>2, <1>1, <1>2 DEF freeze
  <2>3. CASE k \in Thawed /\ k = h
    <3>1. handles'[h] = [handles[h] EXCEPT !.inner = None, !.persistent = Frozen(h)]
      BY <2>1, <2>3, <1>2 DEF freeze
    <3>2. handles'[h].persistent = Frozen(h)
      BY <3>1, <1>3 DEF HandleState
    <3>. QED BY <3>2, <1>1, FoundIsExpected DEF Frozen
  <2>4. CASE k \in Thawed /\ k # h
    <3>1. handles'[h] \in {handles[h], [handles[h] EXCEPT !.valid = FALSE]}
      BY <2>1, <2>4, <1>2 DEF freeze
    <3>2. handles'[h].inner = handles[h].inner
      BY <3>1, <1>3 DEF HandleState
    <3>. QED BY <3>2, <1>1, <1>2
  <2>. QED BY <2>2, <2>3, <2>4
<1>10. CASE \E k \in Handles : drop(k)
  <2>1. PICK k \in Handles : drop(k)
    BY <1>10
  <2>2. handles'[h] \in {None, handles[h], [handles[h] EXCEPT !.from = None]}
    BY <2>1, <1>2 DEF drop
  <2>3. handles'[h].inner = handles[h].inner
    BY <2>2, <1>1, <1>3 DEF HandleState
  <2>. QED BY <2>3, <1>1, <1>2
<1>. QED BY <1>1, <1>5, <1>6, <1>7, <1>8, <1>9, <1>10 DEF Next

(* MutableState::freeze makes persistent what its handle is for, and no    *)
(* other step takes the trie from a handle.                                *)
THEOREM FreezeKeepsContentsHolds ==
  ASSUME HandlesAssumption
  PROVE  Spec => FreezeKeepsContents
<1>1. Inv /\ [Next]_vars => [FrozenAsFound]_vars
  BY StepFreezesAsFound
<1>. QED BY <1>1, InvInductive, PTL DEF Spec, FreezeKeepsContents
=============================================================================
