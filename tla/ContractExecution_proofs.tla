----------------------- MODULE ContractExecution_proofs -----------------------
(***************************************************************************)
(* Nested calls of one contract instance: for any number of keys, values,  *)
(* iterators and handles, and calls nested to any depth.                   *)
(***************************************************************************)
EXTENDS ContractExecution, TLAPS

Entry == [key : Keys, alive : BOOLEAN]
FrameState ==
  [gen : Nat \ {0}, counter : Nat, entry_mapping : Seq(Entry), iterators : Seq(Iters \cup {None}),
   changed : BOOLEAN, parameters : Nat, trapped : BOOLEAN, dirty : BOOLEAN,
   handles : SUBSET [counter : Nat, idx : Nat, key : Keys],
   iterHandles : SUBSET [counter : Nat, idx : Nat, iter : Iters],
   before : State!Map \cup {None}]
Generation == [map : State!Map, locks : [Keys -> Int]]

TypeOK ==
  /\ gens \in Seq(Generation) /\ Len(gens) > 0
  /\ iters \in [Iters -> State!IterState \cup {None}]
  /\ saved \in State!Map
  /\ broken \in BOOLEAN
  /\ frames \in Seq(FrameState)

(* Calls are nested like their generations, and the running one has the    *)
(* newest.  Between transactions there is one generation.                  *)
Nested ==
  /\ \A c, d \in 1 .. Len(frames) : c < d => frames[c].gen < frames[d].gen
  /\ IF frames = <<>> THEN Len(gens) = 1 ELSE frames[Len(frames)].gen = Len(gens)

MapOf(gs, f) == gs[f.gen].map

(* An interrupted call left the map that its generation still has. *)
BeforeIsKept == \A d \in 1 .. Len(frames) - 1 : frames[d].before = MapOf(gens, frames[d])

(* A call that has not reported a change has the map it was called with. *)
ChangesAreReported ==
  \A d \in 2 .. Len(frames) : ~ Dirty(frames[d]) => MapOf(gens, frames[d]) = MapOf(gens, frames[d - 1])

(* The handles that a call was given under its present counter have the    *)
(* slots they were given; older ones have older counters.                  *)
HandlesHaveSlots(f) ==
  /\ \A h \in f.handles :
       /\ h.counter <= f.counter
       /\ h.counter = f.counter =>
            h.idx \in 1 .. Len(f.entry_mapping) /\ f.entry_mapping[h.idx].key = h.key
  /\ \A h \in f.iterHandles :
       /\ h.counter <= f.counter
       /\ h.counter = f.counter =>
            h.idx \in 1 .. Len(f.iterators) /\ f.iterators[h.idx] \in {h.iter, None}

(* Entries that are alive are in map m. *)
EntriesAreThere(f, m) ==
  \A j \in 1 .. Len(f.entry_mapping) : f.entry_mapping[j].alive => f.entry_mapping[j].key \in DOMAIN m

(* Iterators are of the generation of the call, and no slots share one. *)
IteratorsAreThere(f, its) ==
  /\ \A j \in 1 .. Len(f.iterators) : f.iterators[j] # None =>
       its[f.iterators[j]] # None /\ its[f.iterators[j]].gen = f.gen
  /\ \A j, l \in 1 .. Len(f.iterators) :
       f.iterators[j] # None /\ f.iterators[j] = f.iterators[l] => j = l

FramesMean ==
  \A d \in 1 .. Len(frames) :
    /\ HandlesHaveSlots(frames[d])
    /\ d < Len(frames) \/ ~ broken => EntriesAreThere(frames[d], MapOf(gens, frames[d]))
    /\ IteratorsAreThere(frames[d], iters)

Inv == TypeOK /\ Nested /\ BeforeIsKept /\ ChangesAreReported /\ FramesMean

-----------------------------------------------------------------------------
(* Sequences.                                                              *)

(* An initial part of a sequence. *)
LEMMA InitialPart ==
  ASSUME NEW S, NEW s \in Seq(S), NEW n \in 0 .. Len(s)
  PROVE  /\ SubSeq(s, 1, n) \in Seq(S) /\ Len(SubSeq(s, 1, n)) = n
         /\ \A j \in 1 .. n : SubSeq(s, 1, n)[j] = s[j]
OBVIOUS

LEMMA FunctionIsSequence ==
  ASSUME NEW S, NEW n \in Nat, NEW s \in [1 .. n -> S]
  PROVE  s \in Seq(S) /\ Len(s) = n
OBVIOUS

(* The last of a sequence is replaced. *)
LEMMA ReplaceLast ==
  ASSUME NEW S, NEW s \in Seq(S), s # <<>>, NEW e \in S
  PROVE  LET t == Append(Front(s), e)
         IN  /\ t \in Seq(S) /\ Len(t) = Len(s) /\ t # <<>>
             /\ t[Len(s)] = e
             /\ \A j \in 1 .. Len(s) - 1 : t[j] = s[j]
<1>1. Len(s) \in Nat /\ Len(s) > 0
  OBVIOUS
<1>2. Front(s) = SubSeq(s, 1, Len(s) - 1)
  BY DEF Front
<1>3. /\ SubSeq(s, 1, Len(s) - 1) \in Seq(S) /\ Len(SubSeq(s, 1, Len(s) - 1)) = Len(s) - 1
      /\ \A j \in 1 .. Len(s) - 1 : SubSeq(s, 1, Len(s) - 1)[j] = s[j]
  BY <1>1, Len(s) - 1 \in 0 .. Len(s), InitialPart
<1>. QED BY <1>1, <1>2, <1>3

(* The last two of a sequence are replaced by one. *)
LEMMA ReplaceLastTwo ==
  ASSUME NEW S, NEW s \in Seq(S), Len(s) > 1, NEW e \in S
  PROVE  LET t == Append(SubSeq(s, 1, Len(s) - 2), e)
         IN  /\ t \in Seq(S) /\ Len(t) = Len(s) - 1 /\ t # <<>>
             /\ t[Len(s) - 1] = e
             /\ \A j \in 1 .. Len(s) - 2 : t[j] = s[j]
<1>1. Len(s) \in Nat
  OBVIOUS
<1>2. /\ SubSeq(s, 1, Len(s) - 2) \in Seq(S) /\ Len(SubSeq(s, 1, Len(s) - 2)) = Len(s) - 2
      /\ \A j \in 1 .. Len(s) - 2 : SubSeq(s, 1, Len(s) - 2)[j] = s[j]
  BY <1>1, Len(s) - 2 \in 0 .. Len(s), InitialPart
<1>. QED BY <1>1, <1>2

(* The last of a sequence is replaced, and one more is added. *)
LEMMA ReplaceLastAndAdd ==
  ASSUME NEW S, NEW s \in Seq(S), s # <<>>, NEW e \in S, NEW f \in S
  PROVE  LET t == Append(Front(s), e) \o <<f>>
         IN  /\ t \in Seq(S) /\ Len(t) = Len(s) + 1
             /\ t[Len(s)] = e /\ t[Len(s) + 1] = f
             /\ \A j \in 1 .. Len(s) - 1 : t[j] = s[j]
<1> DEFINE u == Append(Front(s), e)
<1>1. /\ u \in Seq(S) /\ Len(u) = Len(s) /\ u[Len(s)] = e
      /\ \A j \in 1 .. Len(s) - 1 : u[j] = s[j]
  BY ReplaceLast
<1>2. Len(s) \in Nat /\ Len(s) > 0
  OBVIOUS
<1> HIDE DEF u
<1>3. /\ u \o <<f>> \in Seq(S) /\ Len(u \o <<f>>) = Len(s) + 1 /\ (u \o <<f>>)[Len(s) + 1] = f
      /\ \A j \in 1 .. Len(s) : (u \o <<f>>)[j] = u[j]
  BY <1>1, <1>2
<1>. QED BY <1>1, <1>2, <1>3 DEF u

-----------------------------------------------------------------------------
(* The running call.                                                       *)

LEMMA RunningFrame ==
  ASSUME Inv, frames # <<>>
  PROVE  /\ Len(frames) \in Nat /\ Len(frames) > 0 /\ Len(gens) \in Nat
         /\ frame = frames[Len(frames)] /\ frame \in FrameState
         /\ frame.gen = Len(gens)
         /\ \A d \in 1 .. Len(frames) - 1 :
              /\ frames[d] \in FrameState
              /\ frames[d].gen \in 1 .. Len(gens) - 1
              /\ frames[d].gen < frame.gen
<1>1. Len(frames) \in Nat /\ Len(frames) > 0 /\ Len(gens) \in Nat
  BY DEF Inv, TypeOK
<1>2. frame = frames[Len(frames)]
  BY DEF frame, Last
<1>3. frame.gen = Len(gens)
  BY <1>2 DEF Inv, Nested
<1>4. \A d \in 1 .. Len(frames) : frames[d] \in FrameState /\ frames[d].gen \in Nat \ {0}
  <2>1. \A d \in 1 .. Len(frames) : frames[d] \in FrameState
    BY DEF Inv, TypeOK
  <2>2. \A f \in FrameState : f.gen \in Nat \ {0}
    BY DEF FrameState
  <2>. QED BY <2>1, <2>2
<1>5. \A d \in 1 .. Len(frames) - 1 : frames[d].gen < frames[Len(frames)].gen
  BY <1>1 DEF Inv, Nested
<1>6. frame \in FrameState
  BY <1>1, <1>2, <1>4
<1>7. ASSUME NEW d \in 1 .. Len(frames) - 1
      PROVE  frames[d] \in FrameState /\ frames[d].gen \in 1 .. Len(gens) - 1 /\ frames[d].gen < frame.gen
  <2>1. frames[d] \in FrameState /\ frames[d].gen \in Nat \ {0} /\ frames[d].gen < Len(gens)
    BY <1>1, <1>2, <1>3, <1>4, <1>5
  <2>. QED BY <2>1, <1>1, <1>3
<1>. QED BY <1>1, <1>2, <1>3, <1>6, <1>7

(* A step of the running call, which becomes f: it works in the newest     *)
(* generation only, and tells when it changes the map.                     *)
LEMMA TopStep ==
  ASSUME Inv, frames # <<>>, NEW f \in FrameState, SetFrame(f), f.gen = frame.gen,
         gens' \in Seq(Generation), Len(gens') = Len(gens),
         \A g \in 1 .. Len(gens) - 1 : gens'[g] = gens[g],
         ~ Dirty(f) => ~ Dirty(frame) /\ gens'[Len(gens)].map = gens[Len(gens)].map,
         iters' \in [Iters -> State!IterState \cup {None}],
         \A i \in Iters : iters[i] # None /\ iters[i].gen < Len(gens)
                            => iters'[i] # None /\ iters'[i].gen = iters[i].gen,
         saved' \in State!Map, broken' \in BOOLEAN,
         HandlesHaveSlots(f),
         ~ broken' => EntriesAreThere(f, gens'[Len(gens)].map),
         IteratorsAreThere(f, iters')
  PROVE  Inv'
<1> DEFINE n == Len(frames)
           top == Len(gens)
<1>1. /\ n \in Nat /\ n > 0 /\ top \in Nat /\ frame = frames[n] /\ frame.gen = top
      /\ \A d \in 1 .. n - 1 : frames[d] \in FrameState /\ frames[d].gen \in 1 .. top - 1
  BY RunningFrame
<1>2. /\ frames' \in Seq(FrameState) /\ Len(frames') = n /\ frames' # <<>> /\ frames'[n] = f
      /\ \A d \in 1 .. n - 1 : frames'[d] = frames[d]
  BY ReplaceLast DEF SetFrame, Inv, TypeOK
<1>3. ASSUME NEW d \in 1 .. n - 1
      PROVE  MapOf(gens', frames'[d]) = MapOf(gens, frames[d]) /\ frames'[d].gen < top
  <2>1. frames[d].gen \in 1 .. top - 1 /\ frames'[d] = frames[d]
    BY <1>1, <1>2
  <2>2. gens'[frames[d].gen] = gens[frames[d].gen]
    BY <2>1
  <2>. QED BY <2>1, <2>2, <1>1 DEF MapOf
<1> HIDE DEF n, top
<1>4. TypeOK'
  BY <1>2 DEF Inv, TypeOK, top
<1>5. Nested'
  <2>1. ASSUME NEW c \in 1 .. n, NEW d \in 1 .. n, c < d
        PROVE  frames'[c].gen < frames'[d].gen
    <3>1. c \in 1 .. n - 1
      BY <2>1, <1>1
    <3>2. CASE d = n
      BY <3>1, <3>2, <1>1, <1>2, <1>3
    <3>3. CASE d \in 1 .. n - 1
      BY <2>1, <3>1, <3>3, <1>2 DEF Inv, Nested, n
    <3>. QED BY <3>2, <3>3, <1>1
  <2>2. frames'[Len(frames')].gen = Len(gens')
    BY <1>1, <1>2 DEF top
  <2>. QED BY <2>1, <2>2, <1>2 DEF Nested
<1>6. BeforeIsKept'
  <2>1. ASSUME NEW d \in 1 .. n - 1 PROVE frames'[d].before = MapOf(gens', frames'[d])
    BY <1>2, <1>3 DEF Inv, BeforeIsKept, n
  <2>. QED BY <2>1, <1>2 DEF BeforeIsKept
<1>7. ChangesAreReported'
  <2>1. ASSUME NEW d \in 2 .. n, ~ Dirty(frames'[d])
        PROVE  MapOf(gens', frames'[d]) = MapOf(gens', frames'[d - 1])
    <3>1. d - 1 \in 1 .. n - 1 /\ d \in 1 .. n
      BY <1>1
    <3>2. CASE d = n
      <4>1. ~ Dirty(frame) /\ gens'[top].map = gens[top].map
        BY <2>1, <3>2, <1>2 DEF top
      <4>2. MapOf(gens, frame) = MapOf(gens, frames[d - 1])
        BY <3>2, <4>1, <1>1 DEF Inv, ChangesAreReported, n
      <4>3. MapOf(gens', frames'[d]) = gens'[top].map /\ MapOf(gens, frame) = gens[top].map
        BY <3>2, <1>1, <1>2 DEF MapOf
      <4>. QED BY <3>1, <4>1, <4>2, <4>3, <1>3
    <3>3. CASE d \in 1 .. n - 1
      <4>1. frames'[d] = frames[d]
        BY <3>3, <1>2
      <4>2. MapOf(gens, frames[d]) = MapOf(gens, frames[d - 1])
        BY <2>1, <4>1, <1>1 DEF Inv, ChangesAreReported, n
      <4>. QED BY <3>1, <3>3, <4>2, <1>3
    <3>. QED BY <3>1, <3>2, <3>3, <1>1
  <2>. QED BY <2>1, <1>2 DEF ChangesAreReported, Dirty
<1>8. FramesMean'
  <2>1. ASSUME NEW d \in 1 .. n
        PROVE  /\ HandlesHaveSlots(frames'[d])
               /\ d < n \/ ~ broken' => EntriesAreThere(frames'[d], MapOf(gens', frames'[d]))
               /\ IteratorsAreThere(frames'[d], iters')
    <3>1. CASE d = n
      <4>1. MapOf(gens', frames'[d]) = gens'[top].map
        BY <3>1, <1>1, <1>2 DEF MapOf
      <4>. QED BY <3>1, <4>1, <1>1, <1>2 DEF top
    <3>2. CASE d \in 1 .. n - 1
      <4>1. frames'[d] = frames[d] /\ MapOf(gens', frames'[d]) = MapOf(gens, frames[d])
        BY <3>2, <1>2, <1>3
      <4>2. /\ HandlesHaveSlots(frames[d]) /\ EntriesAreThere(frames[d], MapOf(gens, frames[d]))
            /\ IteratorsAreThere(frames[d], iters)
        BY <3>2, <1>1 DEF Inv, FramesMean, n
      <4>3. frames[d] \in FrameState /\ frames[d].gen < top
        BY <3>2, <1>1
      <4>4. frames[d].iterators \in Seq(Iters \cup {None})
        BY <4>3 DEF FrameState
      <4>5. IteratorsAreThere(frames[d], iters')
        BY <4>2, <4>3, <4>4 DEF IteratorsAreThere, top
      <4>. QED BY <4>1, <4>2, <4>5
    <3>. QED BY <3>1, <3>2, <1>1
  <2>. QED BY <2>1, <1>2 DEF FramesMean, HandlesHaveSlots, EntriesAreThere, IteratorsAreThere
<1>. QED BY <1>4, <1>5, <1>6, <1>7, <1>8 DEF Inv

-----------------------------------------------------------------------------
(* What the operations do to the frame of a call.                          *)

(* What a frame g has in common with f, when only what it has reported     *)
(* and its parameters differ.                                              *)
SameSlots(f, g) ==
  /\ g.gen = f.gen /\ g.counter = f.counter
  /\ g.entry_mapping = f.entry_mapping /\ g.iterators = f.iterators
  /\ g.handles = f.handles /\ g.iterHandles = f.iterHandles

LEMMA SameSlotsFit ==
  ASSUME NEW f, NEW g, SameSlots(f, g)
  PROVE  /\ HandlesHaveSlots(f) => HandlesHaveSlots(g)
         /\ \A m : EntriesAreThere(f, m) => EntriesAreThere(g, m)
         /\ \A its : IteratorsAreThere(f, its) => IteratorsAreThere(g, its)
BY DEF SameSlots, HandlesHaveSlots, EntriesAreThere, IteratorsAreThere

LEMMA ChangedFacts ==
  ASSUME NEW f \in FrameState
  PROVE  Changed(f) \in FrameState /\ SameSlots(f, Changed(f)) /\ Dirty(Changed(f))
BY DEF FrameState, Changed, SameSlots, Dirty

(* An entry that is handed out. *)
LEMMA GiveEntryFacts ==
  ASSUME NEW f \in FrameState, NEW k \in Keys, HandlesHaveSlots(f)
  PROVE  LET g == GiveEntry(f, k)
         IN  /\ g \in FrameState /\ g.gen = f.gen /\ g.iterators = f.iterators
             /\ Dirty(g) = Dirty(f)
             /\ HandlesHaveSlots(g)
             /\ \A m : EntriesAreThere(f, m) /\ k \in DOMAIN m => EntriesAreThere(g, m)
             /\ \A its : IteratorsAreThere(f, its) => IteratorsAreThere(g, its)
<1> DEFINE em == Append(f.entry_mapping, [key |-> k, alive |-> TRUE])
           h0 == [counter |-> f.counter, idx |-> Len(f.entry_mapping) + 1, key |-> k]
           g == GiveEntry(f, k)
<1>1. g = [f EXCEPT !.entry_mapping = em, !.handles = f.handles \cup {h0}]
  BY DEF GiveEntry, FrameState
<1>2. /\ f.entry_mapping \in Seq(Entry) /\ f.counter \in Nat
      /\ f.handles \in SUBSET [counter : Nat, idx : Nat, key : Keys]
  BY DEF FrameState
<1>3. [key |-> k, alive |-> TRUE] \in Entry
  BY DEF Entry
<1>4. /\ em \in Seq(Entry) /\ Len(em) = Len(f.entry_mapping) + 1 /\ Len(f.entry_mapping) \in Nat
      /\ em[Len(em)] = [key |-> k, alive |-> TRUE]
      /\ \A j \in 1 .. Len(f.entry_mapping) : em[j] = f.entry_mapping[j]
  BY <1>2, <1>3
<1>5. h0 \in [counter : Nat, idx : Nat, key : Keys]
  BY <1>2, <1>4
<1>6. em[Len(em)].key = k /\ h0.counter = f.counter /\ h0.idx = Len(em) /\ h0.key = k
  BY <1>4
<1> HIDE DEF em, h0, g
<1>7. /\ g \in FrameState /\ g.gen = f.gen /\ g.counter = f.counter
      /\ g.iterators = f.iterators /\ g.iterHandles = f.iterHandles
      /\ g.changed = f.changed /\ g.dirty = f.dirty
      /\ g.entry_mapping = em /\ g.handles = f.handles \cup {h0}
  BY <1>1, <1>2, <1>4, <1>5 DEF FrameState
<1>8. HandlesHaveSlots(g)
  <2>1. ASSUME NEW h \in g.handles
        PROVE  /\ h.counter <= g.counter
               /\ h.counter = g.counter =>
                    h.idx \in 1 .. Len(g.entry_mapping) /\ g.entry_mapping[h.idx].key = h.key
    <3>1. CASE h = h0
      BY <3>1, <1>2, <1>4, <1>6, <1>7
    <3>2. CASE h \in f.handles
      BY <3>2, <1>4, <1>7 DEF HandlesHaveSlots
    <3>. QED BY <3>1, <3>2, <1>7
  <2>. QED BY <2>1, <1>7 DEF HandlesHaveSlots
<1>9. ASSUME NEW m, EntriesAreThere(f, m), k \in DOMAIN m
      PROVE  EntriesAreThere(g, m)
  BY <1>4, <1>6, <1>7, <1>9 DEF EntriesAreThere
<1>10. \A its : IteratorsAreThere(f, its) => IteratorsAreThere(g, its)
  BY <1>7 DEF IteratorsAreThere
<1>11. Dirty(g) = Dirty(f)
  BY <1>7 DEF Dirty
<1>. QED BY <1>7, <1>8, <1>9, <1>10, <1>11 DEF g

(* Entries of keys that are deleted. *)
LEMMA KillFacts ==
  ASSUME NEW f \in FrameState, NEW dead, HandlesHaveSlots(f)
  PROVE  LET g == Kill(f, dead)
         IN  /\ g \in FrameState /\ g.gen = f.gen
             /\ Dirty(g) = Dirty(f)
             /\ HandlesHaveSlots(g)
             /\ \A m, n : EntriesAreThere(f, m) /\ DOMAIN n = DOMAIN m \ dead => EntriesAreThere(g, n)
             /\ \A its : IteratorsAreThere(f, its) => IteratorsAreThere(g, its)
<1> DEFINE e == f.entry_mapping
           em == [j \in DOMAIN e |-> IF e[j].key \in dead THEN [e[j] EXCEPT !.alive = FALSE] ELSE e[j]]
           g == Kill(f, dead)
<1>1. g = [f EXCEPT !.entry_mapping = em]
  BY DEF Kill, FrameState
<1>2. e \in Seq(Entry) /\ DOMAIN e = 1 .. Len(e) /\ Len(e) \in Nat
  BY DEF FrameState
<1>3. ASSUME NEW j \in 1 .. Len(e)
      PROVE  /\ em[j] \in Entry /\ em[j].key = e[j].key
             /\ em[j].alive => e[j].alive /\ e[j].key \notin dead
  <2>1. e[j] \in Entry /\ em[j] = IF e[j].key \in dead THEN [e[j] EXCEPT !.alive = FALSE] ELSE e[j]
    BY <1>2
  <2> HIDE DEF em
  <2>2. CASE e[j].key \in dead
    <3>1. em[j] = [e[j] EXCEPT !.alive = FALSE]
      BY <2>1, <2>2
    <3>. QED BY <2>1, <3>1 DEF Entry
  <2>3. CASE e[j].key \notin dead
    BY <2>1, <2>3
  <2>. QED BY <2>2, <2>3
<1>4. em \in Seq(Entry) /\ Len(em) = Len(e)
  <2>1. DOMAIN em = 1 .. Len(e)
    BY <1>2
  <2>2. em \in [1 .. Len(e) -> Entry]
    BY <2>1, <1>2, <1>3
  <2> HIDE DEF em
  <2>. QED BY <2>2, <1>2, FunctionIsSequence
<1> HIDE DEF em, g
<1>5. /\ g \in FrameState /\ g.gen = f.gen /\ g.counter = f.counter
      /\ g.iterators = f.iterators /\ g.iterHandles = f.iterHandles /\ g.handles = f.handles
      /\ g.changed = f.changed /\ g.dirty = f.dirty /\ g.entry_mapping = em
  BY <1>1, <1>4 DEF FrameState
<1>6. HandlesHaveSlots(g)
  BY <1>3, <1>4, <1>5 DEF HandlesHaveSlots
<1>7. ASSUME NEW m, NEW n, EntriesAreThere(f, m), DOMAIN n = DOMAIN m \ dead
      PROVE  EntriesAreThere(g, n)
  BY <1>3, <1>4, <1>5, <1>7 DEF EntriesAreThere
<1>8. \A its : IteratorsAreThere(f, its) => IteratorsAreThere(g, its)
  BY <1>5 DEF IteratorsAreThere
<1>9. Dirty(g) = Dirty(f)
  BY <1>5 DEF Dirty
<1>. QED BY <1>5, <1>6, <1>7, <1>8, <1>9 DEF g

(* An iterator that is handed out, with the state its that it then has. *)
LEMMA GiveIteratorFacts ==
  ASSUME ExecutionAssumption, NEW f \in FrameState, NEW i \in Iters, HandlesHaveSlots(f),
         \A j \in 1 .. Len(f.iterators) : f.iterators[j] # i
  PROVE  LET g == GiveIterator(f, i)
         IN  /\ g \in FrameState /\ g.gen = f.gen
             /\ Dirty(g) = Dirty(f)
             /\ HandlesHaveSlots(g)
             /\ \A m : EntriesAreThere(f, m) => EntriesAreThere(g, m)
             /\ \A its : IteratorsAreThere(f, its) /\ its[i] # None /\ its[i].gen = f.gen
                           => IteratorsAreThere(g, its)
<1> DEFINE is == Append(f.iterators, i)
           h0 == [counter |-> f.counter, idx |-> Len(f.iterators) + 1, iter |-> i]
           g == GiveIterator(f, i)
<1>1. g = [f EXCEPT !.iterators = is, !.iterHandles = f.iterHandles \cup {h0}]
  BY DEF GiveIterator, FrameState
<1>2. /\ f.iterators \in Seq(Iters \cup {None}) /\ f.counter \in Nat
      /\ f.iterHandles \in SUBSET [counter : Nat, idx : Nat, iter : Iters]
  BY DEF FrameState
<1>3. /\ is \in Seq(Iters \cup {None}) /\ Len(is) = Len(f.iterators) + 1 /\ Len(f.iterators) \in Nat
      /\ is[Len(is)] = i
      /\ \A j \in 1 .. Len(f.iterators) : is[j] = f.iterators[j]
  BY <1>2
<1>4. /\ h0 \in [counter : Nat, idx : Nat, iter : Iters]
      /\ h0.counter = f.counter /\ h0.idx = Len(is) /\ h0.iter = i
  BY <1>2, <1>3
<1> HIDE DEF is, h0, g
<1>5. /\ g \in FrameState /\ g.gen = f.gen /\ g.counter = f.counter
      /\ g.iterators = is /\ g.iterHandles = f.iterHandles \cup {h0}
      /\ g.changed = f.changed /\ g.dirty = f.dirty
      /\ g.entry_mapping = f.entry_mapping /\ g.handles = f.handles
  BY <1>1, <1>2, <1>3, <1>4 DEF FrameState
<1>6. HandlesHaveSlots(g)
  <2>1. ASSUME NEW h \in g.iterHandles
        PROVE  /\ h.counter <= g.counter
               /\ h.counter = g.counter =>
                    h.idx \in 1 .. Len(g.iterators) /\ g.iterators[h.idx] \in {h.iter, None}
    <3>1. CASE h = h0
      BY <3>1, <1>2, <1>3, <1>4, <1>5
    <3>2. CASE h \in f.iterHandles
      BY <3>2, <1>3, <1>5 DEF HandlesHaveSlots
    <3>. QED BY <3>1, <3>2, <1>5
  <2>. QED BY <2>1, <1>5 DEF HandlesHaveSlots
<1>7. \A m : EntriesAreThere(f, m) => EntriesAreThere(g, m)
  BY <1>5 DEF EntriesAreThere
<1>8. ASSUME NEW its, IteratorsAreThere(f, its), its[i] # None, its[i].gen = f.gen
      PROVE  IteratorsAreThere(g, its)
  <2>1. \A j \in 1 .. Len(is) : j = Len(is) \/ j \in 1 .. Len(f.iterators)
    BY <1>3
  <2>2. ASSUME NEW j \in 1 .. Len(is), is[j] # None
        PROVE  its[is[j]] # None /\ its[is[j]].gen = f.gen
    BY <2>1, <2>2, <1>3, <1>8 DEF IteratorsAreThere
  <2>3. ASSUME NEW j \in 1 .. Len(is), NEW l \in 1 .. Len(is), is[j] # None, is[j] = is[l]
        PROVE  j = l
    BY <2>1, <2>3, <1>3, <1>8 DEF IteratorsAreThere
  <2>. QED BY <2>2, <2>3, <1>5 DEF IteratorsAreThere
<1>9. Dirty(g) = Dirty(f)
  BY <1>5 DEF Dirty
<1>. QED BY <1>5, <1>6, <1>7, <1>8, <1>9 DEF g

(* An iterator that is deleted. *)
LEMMA DropIteratorFacts ==
  ASSUME NEW f \in FrameState, HandlesHaveSlots(f), NEW x \in 1 .. Len(f.iterators),
         NEW its, NEW jts, IteratorsAreThere(f, its),
         \A i \in Iters : i # f.iterators[x] => jts[i] = its[i]
  PROVE  LET g == [f EXCEPT !.iterators[x] = None]
         IN  /\ g \in FrameState /\ g.gen = f.gen
             /\ Dirty(g) = Dirty(f)
             /\ HandlesHaveSlots(g)
             /\ \A m : EntriesAreThere(f, m) => EntriesAreThere(g, m)
             /\ IteratorsAreThere(g, jts)
<1> DEFINE is == [f.iterators EXCEPT ![x] = None]
           g == [f EXCEPT !.iterators[x] = None]
<1>1. g = [f EXCEPT !.iterators = is]
  BY DEF FrameState
<1>2. f.iterators \in Seq(Iters \cup {None})
  BY DEF FrameState
<1>3. /\ is \in Seq(Iters \cup {None}) /\ Len(is) = Len(f.iterators) /\ is[x] = None
      /\ \A j \in 1 .. Len(f.iterators) : j # x => is[j] = f.iterators[j]
  BY <1>2
<1> HIDE DEF is, g
<1>5. /\ g \in FrameState /\ g.gen = f.gen /\ g.counter = f.counter
      /\ g.iterators = is /\ g.iterHandles = f.iterHandles
      /\ g.changed = f.changed /\ g.dirty = f.dirty
      /\ g.entry_mapping = f.entry_mapping /\ g.handles = f.handles
  BY <1>1, <1>3 DEF FrameState
<1>6. HandlesHaveSlots(g)
  BY <1>3, <1>5 DEF HandlesHaveSlots
<1>7. \A m : EntriesAreThere(f, m) => EntriesAreThere(g, m)
  BY <1>5 DEF EntriesAreThere
<1>8. IteratorsAreThere(g, jts)
  <2>1. ASSUME NEW j \in 1 .. Len(is), is[j] # None
        PROVE  jts[is[j]] # None /\ jts[is[j]].gen = f.gen
    <3>1. j # x /\ is[j] = f.iterators[j] /\ is[j] \in Iters
      BY <2>1, <1>2, <1>3
    <3>2. is[j] # f.iterators[x]
      BY <2>1, <3>1, <1>3 DEF IteratorsAreThere
    <3>. QED BY <2>1, <3>1, <3>2, <1>3 DEF IteratorsAreThere
  <2>2. ASSUME NEW j \in 1 .. Len(is), NEW l \in 1 .. Len(is), is[j] # None, is[j] = is[l]
        PROVE  j = l
    BY <2>2, <1>3 DEF IteratorsAreThere
  <2>. QED BY <2>1, <2>2, <1>5 DEF IteratorsAreThere
<1>9. Dirty(g) = Dirty(f)
  BY <1>5 DEF Dirty
<1>. QED BY <1>5, <1>6, <1>7, <1>8, <1>9 DEF g

(* A call that goes on after an interrupt: with a new counter and no slots *)
(* if the state was updated, otherwise with what it had.                   *)
LEMMA ResumeFacts ==
  ASSUME NEW f \in FrameState, NEW updated \in BOOLEAN, NEW data \in BOOLEAN, HandlesHaveSlots(f)
  PROVE  LET g == resume_receive(f, updated, data)
         IN  /\ g \in FrameState /\ g.gen = f.gen
             /\ Dirty(g) = (Dirty(f) \/ updated)
             /\ g.counter = IF updated THEN f.counter + 1 ELSE f.counter
             /\ HandlesHaveSlots(g)
             /\ \A m : updated \/ EntriesAreThere(f, m) => EntriesAreThere(g, m)
             /\ \A its : updated \/ IteratorsAreThere(f, its) => IteratorsAreThere(g, its)
<1> DEFINE a == [f EXCEPT !.dirty = Dirty(f) \/ updated, !.before = None]
           b == migrate(a, updated)
           g == resume_receive(f, updated, data)
<1>1. /\ a \in FrameState /\ a.dirty = (Dirty(f) \/ updated) /\ a.counter = f.counter
      /\ a.gen = f.gen /\ a.handles = f.handles /\ a.iterHandles = f.iterHandles
      /\ a.entry_mapping = f.entry_mapping /\ a.iterators = f.iterators
  BY DEF FrameState, Dirty
<1>2. f.counter \in Nat /\ \A S : <<>> \in Seq(S) /\ Len(<<>>) = 0
  BY DEF FrameState
<1> DEFINE c == IF updated THEN a.counter + 1 ELSE a.counter
           em == IF updated THEN <<>> ELSE a.entry_mapping
           is == IF updated THEN <<>> ELSE a.iterators
<1> HIDE DEF a
<1>3. b = [a EXCEPT !.counter = c, !.entry_mapping = em, !.iterators = is, !.changed = FALSE]
  BY <1>1 DEF migrate, FrameState
<1>12. c \in Nat /\ em \in Seq(Entry) /\ is \in Seq(Iters \cup {None})
  BY <1>1, <1>2 DEF FrameState
<1> HIDE DEF b, c, em, is
<1>13. /\ b \in FrameState /\ b.dirty = a.dirty /\ b.changed = FALSE
       /\ b.gen = a.gen /\ b.handles = a.handles /\ b.iterHandles = a.iterHandles
       /\ b.counter = c /\ b.entry_mapping = em /\ b.iterators = is
  BY <1>1, <1>3, <1>12 DEF FrameState
<1>4. /\ b \in FrameState /\ b.dirty = a.dirty /\ b.changed = FALSE
      /\ b.gen = a.gen /\ b.handles = a.handles /\ b.iterHandles = a.iterHandles
      /\ b.counter = IF updated THEN a.counter + 1 ELSE a.counter
      /\ b.entry_mapping = IF updated THEN <<>> ELSE a.entry_mapping
      /\ b.iterators = IF updated THEN <<>> ELSE a.iterators
  BY <1>13 DEF c, em, is
<1>5. g \in FrameState /\ SameSlots(b, g) /\ g.dirty = b.dirty /\ g.changed = b.changed
  <2>1. g = Respond(b, data)
    BY DEF resume_receive, a, b
  <2> HIDE DEF g
  <2>2. \/ g = b \/ g = [b EXCEPT !.trapped = TRUE]
        \/ g = [b EXCEPT !.parameters = b.parameters + 1]
    <3>1. CASE ~ data
      BY <2>1, <3>1 DEF Respond
    <3>2. CASE data /\ b.parameters > MaxParameters
      BY <2>1, <3>2 DEF Respond
    <3>3. CASE data /\ ~ (b.parameters > MaxParameters)
      BY <2>1, <3>3, <1>4 DEF Respond, FrameState
    <3>. QED BY <3>1, <3>2, <3>3
  <2>3. CASE g = b
    BY <2>3, <1>4 DEF SameSlots
  <2>4. CASE g = [b EXCEPT !.trapped = TRUE]
    BY <2>4, <1>4 DEF FrameState, SameSlots
  <2>5. CASE g = [b EXCEPT !.parameters = b.parameters + 1]
    <3>1. b \in FrameState
      BY <1>4
    <3>2. PICK p \in Nat : p = b.parameters + 1
      BY <3>1 DEF FrameState
    <3>3. g = [b EXCEPT !.parameters = p]
      BY <2>5, <3>2
    <3>. QED BY <3>1, <3>3 DEF FrameState, SameSlots
  <2>. QED BY <2>2, <2>3, <2>4, <2>5
<1> HIDE DEF g
<1>6. HandlesHaveSlots(b)
  <2>1. CASE updated
    <3>1. \A h \in f.handles \cup f.iterHandles : h.counter \in Nat
      BY DEF FrameState
    <3>. QED BY <2>1, <3>1, <1>1, <1>2, <1>4 DEF HandlesHaveSlots
  <2>2. CASE ~ updated
    BY <2>2, <1>1, <1>4 DEF HandlesHaveSlots
  <2>. QED BY <2>1, <2>2
<1>7. \A m : updated \/ EntriesAreThere(f, m) => EntriesAreThere(b, m)
  BY <1>1, <1>2, <1>4 DEF EntriesAreThere
<1>8. \A its : updated \/ IteratorsAreThere(f, its) => IteratorsAreThere(b, its)
  BY <1>1, <1>2, <1>4 DEF IteratorsAreThere
<1>9. /\ HandlesHaveSlots(g)
      /\ \A m : updated \/ EntriesAreThere(f, m) => EntriesAreThere(g, m)
      /\ \A its : updated \/ IteratorsAreThere(f, its) => IteratorsAreThere(g, its)
  BY <1>5, <1>6, <1>7, <1>8, SameSlotsFit
<1>10. Dirty(g) = (Dirty(f) \/ updated)
  BY <1>1, <1>4, <1>5 DEF Dirty
<1>11. g.gen = f.gen /\ g.counter = IF updated THEN f.counter + 1 ELSE f.counter
  BY <1>1, <1>4, <1>5 DEF SameSlots
<1>. QED BY <1>5, <1>9, <1>10, <1>11 DEF g

-----------------------------------------------------------------------------
(* What the operations do to the state.                                    *)

LEMMA MapFacts ==
  ASSUME NEW m \in State!Map
  PROVE  /\ DOMAIN m \subseteq Keys
         /\ \A S : State!Without(m, S) \in State!Map /\ DOMAIN State!Without(m, S) = DOMAIN m \ S
         /\ \A k \in Keys, v \in Values :
              State!With(m, k, v) \in State!Map /\ DOMAIN State!With(m, k, v) = DOMAIN m \cup {k}
<1>1. PICK K \in SUBSET Keys : m \in [K -> Values]
  BY DEF State!Map
<1>2. ASSUME NEW S
      PROVE  State!Without(m, S) \in State!Map /\ DOMAIN State!Without(m, S) = DOMAIN m \ S
  <2>1. State!Without(m, S) \in [K \ S -> Values]
    BY <1>1 DEF State!Without
  <2>2. K \ S \in SUBSET Keys
    BY <1>1
  <2>. QED BY <2>1, <2>2, <1>1 DEF State!Map
<1>3. ASSUME NEW k \in Keys, NEW v \in Values
      PROVE  State!With(m, k, v) \in State!Map /\ DOMAIN State!With(m, k, v) = DOMAIN m \cup {k}
  <2>1. State!With(m, k, v) \in [K \cup {k} -> Values]
    BY <1>1 DEF State!With
  <2>2. K \cup {k} \in SUBSET Keys
    BY <1>1
  <2>. QED BY <2>1, <2>2, <1>1 DEF State!Map
<1>. QED BY <1>1, <1>2, <1>3

LEMMA TopGeneration ==
  ASSUME Inv
  PROVE  /\ gens \in Seq(Generation) /\ Len(gens) \in Nat /\ Len(gens) > 0
         /\ gens[Len(gens)] \in Generation
         /\ State!Top = Len(gens) /\ State!map = gens[Len(gens)].map
         /\ State!map \in State!Map /\ gens[Len(gens)].locks \in [Keys -> Int]
<1>1. gens \in Seq(Generation) /\ Len(gens) \in Nat /\ Len(gens) > 0
  BY DEF Inv, TypeOK
<1>2. gens[Len(gens)] \in Generation
  BY <1>1
<1>3. State!Top = Len(gens) /\ State!map = gens[Len(gens)].map
  BY DEF State!Top, State!map
<1>. QED BY <1>1, <1>2, <1>3 DEF Generation

(* The newest generation is replaced. *)
LEMMA TopReplaced ==
  ASSUME Inv, NEW r \in Generation, gens' = [gens EXCEPT ![Len(gens)] = r]
  PROVE  /\ gens' \in Seq(Generation) /\ Len(gens') = Len(gens)
         /\ \A g \in 1 .. Len(gens) - 1 : gens'[g] = gens[g]
         /\ gens'[Len(gens)] = r
BY TopGeneration

LEMMA ChangeTopFacts ==
  ASSUME Inv, NEW m \in State!Map, State!ChangeTop(m)
  PROVE  /\ gens' \in Seq(Generation) /\ Len(gens') = Len(gens)
         /\ \A g \in 1 .. Len(gens) - 1 : gens'[g] = gens[g]
         /\ gens'[Len(gens)].map = m
<1>1. gens[Len(gens)] \in Generation /\ State!Top = Len(gens)
  BY TopGeneration
<1>2. gens' = [gens EXCEPT ![Len(gens)] = [gens[Len(gens)] EXCEPT !.map = m]]
  BY <1>1 DEF State!ChangeTop
<1>3. PICK r : r = [gens[Len(gens)] EXCEPT !.map = m]
  OBVIOUS
<1>4. r \in Generation /\ r.map = m
  BY <1>1, <1>3 DEF Generation
<1>. QED BY <1>2, <1>3, <1>4, TopReplaced

LEMMA LockChangeFacts ==
  ASSUME Inv, NEW p \in Keys, NEW n \in Int, gens' = [gens EXCEPT ![State!Top].locks[p] = n]
  PROVE  /\ gens' \in Seq(Generation) /\ Len(gens') = Len(gens)
         /\ \A g \in 1 .. Len(gens) - 1 : gens'[g] = gens[g]
         /\ gens'[Len(gens)].map = gens[Len(gens)].map
<1>1. gens[Len(gens)] \in Generation /\ State!Top = Len(gens) /\ gens[Len(gens)].locks \in [Keys -> Int]
  BY TopGeneration
<1>2. PICK l : l = [gens[Len(gens)].locks EXCEPT ![p] = n]
  OBVIOUS
<1>3. l \in [Keys -> Int]
  BY <1>1, <1>2
<1>4. PICK r : r = [gens[Len(gens)] EXCEPT !.locks = l]
  OBVIOUS
<1>5. r \in Generation /\ r.map = gens[Len(gens)].map
  BY <1>1, <1>3, <1>4 DEF Generation
<1>6. gens' = [gens EXCEPT ![Len(gens)] = r]
  BY <1>1, <1>2, <1>4
<1>. QED BY <1>5, <1>6, TopReplaced

(* What the running call has. *)
LEMMA RunningHas ==
  ASSUME Inv, Running
  PROVE  /\ frames # <<>> /\ ~ broken
         /\ frame \in FrameState /\ frame.gen = Len(gens)
         /\ HandlesHaveSlots(frame)
         /\ EntriesAreThere(frame, State!map)
         /\ IteratorsAreThere(frame, iters)
<1>1. frames # <<>> /\ ~ broken
  BY DEF Running
<1>2. /\ Len(frames) \in Nat /\ Len(frames) > 0 /\ frame = frames[Len(frames)]
      /\ frame \in FrameState /\ frame.gen = Len(gens)
  BY <1>1, RunningFrame
<1>3. MapOf(gens, frame) = State!map
  BY <1>2, TopGeneration DEF MapOf
<1>4. Len(frames) \in 1 .. Len(frames)
  BY <1>2
<1>5. /\ HandlesHaveSlots(frames[Len(frames)])
      /\ EntriesAreThere(frames[Len(frames)], MapOf(gens, frames[Len(frames)]))
      /\ IteratorsAreThere(frames[Len(frames)], iters)
  BY <1>1, <1>4 DEF Inv, FramesMean
<1>. QED BY <1>1, <1>2, <1>3, <1>5

(* A step that leaves the iterators alone, after which the map is m. *)
LEMMA MapStep ==
  ASSUME Inv, Running, NEW f \in FrameState, SetFrame(f), f.gen = frame.gen,
         NEW m \in State!Map,
         State!ChangeTop(m) \/ (UNCHANGED gens /\ m = State!map),
         UNCHANGED <<iters, saved>>, broken' \in BOOLEAN,
         ~ Dirty(f) => ~ Dirty(frame) /\ m = State!map,
         HandlesHaveSlots(f), ~ broken' => EntriesAreThere(f, m), IteratorsAreThere(f, iters)
  PROVE  Inv'
<1>1. /\ gens' \in Seq(Generation) /\ Len(gens') = Len(gens)
      /\ \A g \in 1 .. Len(gens) - 1 : gens'[g] = gens[g]
      /\ gens'[Len(gens)].map = m
  <2>1. CASE State!ChangeTop(m)
    BY <2>1, ChangeTopFacts
  <2>2. CASE UNCHANGED gens /\ m = State!map
    BY <2>2, TopGeneration
  <2>. QED BY <2>1, <2>2
<1>2. State!map = gens[Len(gens)].map
  BY TopGeneration
<1>3. frames # <<>>
  BY DEF Running
<1>4. iters' \in [Iters -> State!IterState \cup {None}] /\ iters' = iters /\ saved' \in State!Map
  BY DEF Inv, TypeOK
<1>. QED BY <1>1, <1>2, <1>3, <1>4, TopStep
-----------------------------------------------------------------------------
(* The operations, one by one.                                             *)

LEMMA LookupEntry ==
  ASSUME Inv, NEW k \in Keys, lookup_entry(k)
  PROVE  Inv'
<1>1. Running /\ UNCHANGED <<gens, iters, saved, broken>>
  BY DEF lookup_entry, State!Get
<1>2. PICK f : f = frame
  OBVIOUS
<1>3. PICK m : m = State!map
  OBVIOUS
<1>4. PICK g : g = IF ret' = "Key" THEN GiveEntry(f, k) ELSE f
  OBVIOUS
<1>5. /\ f \in FrameState /\ HandlesHaveSlots(f) /\ EntriesAreThere(f, m) /\ IteratorsAreThere(f, iters)
      /\ m \in State!Map
  BY <1>1, <1>2, <1>3, RunningHas, TopGeneration
<1>6. SetFrame(g)
  BY <1>2, <1>4 DEF lookup_entry
<1>7. ret' = "Key" => k \in DOMAIN m
  BY <1>3 DEF lookup_entry, State!Get
<1>8. /\ g \in FrameState /\ g.gen = f.gen /\ Dirty(g) = Dirty(f)
      /\ HandlesHaveSlots(g) /\ EntriesAreThere(g, m) /\ IteratorsAreThere(g, iters)
  <2>1. CASE ret' = "Key"
    BY <2>1, <1>4, <1>5, <1>7, GiveEntryFacts
  <2>2. CASE ret' # "Key"
    BY <2>2, <1>4, <1>5
  <2>. QED BY <2>1, <2>2
<1>9. broken' \in BOOLEAN
  BY <1>1 DEF Inv, TypeOK
<1>. QED BY <1>1, <1>2, <1>3, <1>5, <1>6, <1>8, <1>9, MapStep

LEMMA CreateEntry ==
  ASSUME ExecutionAssumption, Inv, NEW k \in Keys, create_entry(k)
  PROVE  Inv'
<1>1. Running /\ UNCHANGED <<iters, saved, broken>>
  BY DEF create_entry, State!Insert
<1>2. PICK f : f = frame
  OBVIOUS
<1>3. PICK m : m = State!map
  OBVIOUS
<1>4. /\ f \in FrameState /\ HandlesHaveSlots(f) /\ EntriesAreThere(f, m) /\ IteratorsAreThere(f, iters)
      /\ m \in State!Map
  BY <1>1, <1>2, <1>3, RunningHas, TopGeneration
<1>5. PICK c : c = Changed(f)
  OBVIOUS
<1>6. /\ c \in FrameState /\ c.gen = f.gen /\ Dirty(c)
      /\ HandlesHaveSlots(c) /\ IteratorsAreThere(c, iters)
      /\ \A w : EntriesAreThere(f, w) => EntriesAreThere(c, w)
  BY <1>4, <1>5, ChangedFacts, SameSlotsFit DEF SameSlots
<1>7. broken' \in BOOLEAN
  BY <1>1 DEF Inv, TypeOK
<1>8. CASE ret' = "Locked"
  <2>1. UNCHANGED gens
    BY <1>8 DEF create_entry, State!Insert
  <2>2. SetFrame(c)
    BY <1>2, <1>5, <1>8 DEF create_entry
  <2>. QED BY <2>1, <2>2, <1>1, <1>2, <1>3, <1>4, <1>6, <1>7, MapStep
<1>9. CASE ret' # "Locked"
  <2>1. PICK w : w = State!With(m, k, Empty)
    OBVIOUS
  <2>2. State!ChangeTop(w)
    BY <2>1, <1>3, <1>9 DEF create_entry, State!Insert
  <2>3. w \in State!Map /\ DOMAIN w = DOMAIN m \cup {k}
    BY <2>1, <1>4, MapFacts DEF ExecutionAssumption
  <2>4. PICK g : g = GiveEntry(c, k)
    OBVIOUS
  <2>5. SetFrame(g)
    BY <2>4, <1>2, <1>5, <1>9 DEF create_entry
  <2>6. EntriesAreThere(c, w)
    BY <2>3, <1>4, <1>6 DEF EntriesAreThere
  <2>7. /\ g \in FrameState /\ g.gen = f.gen /\ Dirty(g)
        /\ HandlesHaveSlots(g) /\ EntriesAreThere(g, w) /\ IteratorsAreThere(g, iters)
    BY <2>3, <2>4, <2>6, <1>6, GiveEntryFacts
  <2>. QED BY <2>2, <2>3, <2>5, <2>7, <1>1, <1>2, <1>7, MapStep
<1>. QED BY <1>8, <1>9

(* Keys go, and with them their entries. *)
LEMMA DeleteStep ==
  ASSUME Inv, Running, NEW dead, UNCHANGED <<iters, saved, broken>>,
         \/ /\ ret' = "Locked" /\ UNCHANGED gens
            /\ SetFrame(Changed(frame))
         \/ /\ ret' # "Locked" /\ State!ChangeTop(State!Without(State!map, dead))
            /\ SetFrame(IF ret' = "Deleted" THEN Kill(Changed(frame), dead) ELSE Changed(frame))
            /\ ret' # "Deleted" => dead \cap DOMAIN State!map = {}
  PROVE  Inv'
<1>2. PICK f : f = frame
  OBVIOUS
<1>3. PICK m : m = State!map
  OBVIOUS
<1>4. /\ f \in FrameState /\ HandlesHaveSlots(f) /\ EntriesAreThere(f, m) /\ IteratorsAreThere(f, iters)
      /\ m \in State!Map
  BY <1>2, <1>3, RunningHas, TopGeneration
<1>5. PICK c : c = Changed(f)
  OBVIOUS
<1>6. /\ c \in FrameState /\ c.gen = f.gen /\ Dirty(c)
      /\ HandlesHaveSlots(c) /\ IteratorsAreThere(c, iters)
      /\ \A w : EntriesAreThere(f, w) => EntriesAreThere(c, w)
  BY <1>4, <1>5, ChangedFacts, SameSlotsFit DEF SameSlots
<1>7. broken' \in BOOLEAN
  BY DEF Inv, TypeOK
<1>8. CASE ret' = "Locked"
  <2>1. UNCHANGED gens /\ SetFrame(c)
    BY <1>2, <1>5, <1>8
  <2>. QED BY <2>1, <1>2, <1>3, <1>4, <1>6, <1>7, MapStep
<1>9. CASE ret' # "Locked"
  <2>1. PICK w : w = State!Without(m, dead)
    OBVIOUS
  <2>2. State!ChangeTop(w)
    BY <2>1, <1>3, <1>9
  <2>3. w \in State!Map /\ DOMAIN w = DOMAIN m \ dead
    BY <2>1, <1>4, MapFacts
  <2>4. PICK g : g = IF ret' = "Deleted" THEN Kill(c, dead) ELSE c
    OBVIOUS
  <2>5. SetFrame(g)
    BY <2>4, <1>2, <1>5, <1>9
  <2>6. /\ g \in FrameState /\ g.gen = f.gen /\ Dirty(g)
        /\ HandlesHaveSlots(g) /\ EntriesAreThere(g, w) /\ IteratorsAreThere(g, iters)
    <3>1. CASE ret' = "Deleted"
      BY <3>1, <2>3, <2>4, <1>4, <1>6, KillFacts
    <3>2. CASE ret' # "Deleted"
      <4>1. DOMAIN w = DOMAIN m
        BY <3>2, <2>3, <1>3, <1>9
      <4>2. EntriesAreThere(c, w)
        BY <4>1, <1>4, <1>6 DEF EntriesAreThere
      <4>. QED BY <3>2, <4>2, <2>4, <1>6
    <3>. QED BY <3>1, <3>2
  <2>. QED BY <2>2, <2>3, <2>5, <2>6, <1>2, <1>7, MapStep
<1>. QED BY <1>8, <1>9

LEMMA DeleteEntry ==
  ASSUME Inv, NEW k \in Keys, delete_entry(k)
  PROVE  Inv'
<1>1. Running /\ UNCHANGED <<iters, saved, broken>>
  BY DEF delete_entry, State!Delete
<1>2. \/ /\ ret' = "Locked" /\ UNCHANGED gens
         /\ SetFrame(Changed(frame))
      \/ /\ ret' # "Locked" /\ State!ChangeTop(State!Without(State!map, {k}))
         /\ SetFrame(IF ret' = "Deleted" THEN Kill(Changed(frame), {k}) ELSE Changed(frame))
         /\ ret' # "Deleted" => {k} \cap DOMAIN State!map = {}
  <2>1. CASE State!PointFree(k)
    <3>1. ret' = IF k \in DOMAIN State!map THEN "Deleted" ELSE "NotFound"
      BY <2>1 DEF delete_entry, State!Delete
    <3>2. State!ChangeTop(State!Without(State!map, {k}))
      BY <2>1 DEF delete_entry, State!Delete
    <3>3. SetFrame(IF ret' = "Deleted" THEN Kill(Changed(frame), {k}) ELSE Changed(frame))
      BY DEF delete_entry
    <3>. QED BY <3>1, <3>2, <3>3
  <2>2. CASE ~ State!PointFree(k)
    <3>1. ret' = "Locked" /\ UNCHANGED gens
      BY <2>2 DEF delete_entry, State!Delete
    <3>. QED BY <3>1 DEF delete_entry
  <2>. QED BY <2>1, <2>2
<1>3. PICK dead : dead = {k}
  OBVIOUS
<1>. QED BY <1>1, <1>2, <1>3, DeleteStep

LEMMA DeletePrefix ==
  ASSUME Inv, NEW p \in Keys, delete_prefix(p)
  PROVE  Inv'
<1>1. Running /\ UNCHANGED <<iters, saved, broken>>
  BY DEF delete_prefix, State!DeletePrefix
<1>2. PICK dead : dead = State!Below(p)
  OBVIOUS
<1>3. dead \subseteq DOMAIN State!map
  BY <1>2 DEF State!Below
<1>4. \/ /\ ret' = "Locked" /\ UNCHANGED gens
         /\ SetFrame(Changed(frame))
      \/ /\ ret' # "Locked" /\ State!ChangeTop(State!Without(State!map, dead))
         /\ SetFrame(IF ret' = "Deleted" THEN Kill(Changed(frame), dead) ELSE Changed(frame))
         /\ ret' # "Deleted" => dead \cap DOMAIN State!map = {}
  <2>1. CASE State!SubtreeFree(p)
    <3>1. ret' = IF dead = {} THEN "NotFound" ELSE "Deleted"
      BY <2>1, <1>2 DEF delete_prefix, State!DeletePrefix
    <3>2. State!ChangeTop(State!Without(State!map, dead))
      BY <2>1, <1>2 DEF delete_prefix, State!DeletePrefix
    <3>3. SetFrame(IF ret' = "Deleted" THEN Kill(Changed(frame), dead) ELSE Changed(frame))
      BY <1>2 DEF delete_prefix
    <3>. QED BY <3>1, <3>2, <3>3
  <2>2. CASE ~ State!SubtreeFree(p)
    <3>1. ret' = "Locked" /\ UNCHANGED gens
      BY <2>2 DEF delete_prefix, State!DeletePrefix
    <3>. QED BY <3>1 DEF delete_prefix
  <2>. QED BY <2>1, <2>2
<1>. QED BY <1>1, <1>4, DeleteStep

LEMMA DeletePrefixOutOfEnergy ==
  ASSUME Inv, NEW p \in Keys, delete_prefix_out_of_energy(p)
  PROVE  Inv'
<1>1. Running /\ UNCHANGED <<iters, saved>> /\ broken' = TRUE /\ SetFrame(Changed(frame))
  BY DEF delete_prefix_out_of_energy, State!DeletePrefixStops
<1>2. PICK f : f = frame
  OBVIOUS
<1>3. f \in FrameState /\ HandlesHaveSlots(f) /\ IteratorsAreThere(f, iters)
  BY <1>1, <1>2, RunningHas
<1>4. PICK c : c = Changed(f)
  OBVIOUS
<1>5. /\ c \in FrameState /\ c.gen = f.gen /\ Dirty(c)
      /\ HandlesHaveSlots(c) /\ IteratorsAreThere(c, iters)
  BY <1>3, <1>4, ChangedFacts, SameSlotsFit DEF SameSlots
<1>6. PICK S : State!ChangeTop(State!Without(State!map, S))
  BY DEF delete_prefix_out_of_energy, State!DeletePrefixStops
<1>7. PICK w : w = State!Without(State!map, S)
  OBVIOUS
<1>8. w \in State!Map
  BY <1>7, TopGeneration, MapFacts
<1>. QED BY <1>1, <1>2, <1>4, <1>5, <1>6, <1>7, <1>8, MapStep

LEMMA EntryWrite ==
  ASSUME Inv, NEW h, NEW v \in Values, entry_write(h, v)
  PROVE  Inv'
<1>1. Running /\ UNCHANGED <<iters, saved, broken>> /\ SetFrame(Changed(frame))
  BY DEF entry_write, State!Write, State!StaleHandle
<1>2. PICK f : f = frame
  OBVIOUS
<1>3. PICK m : m = State!map
  OBVIOUS
<1>4. /\ f \in FrameState /\ HandlesHaveSlots(f) /\ EntriesAreThere(f, m) /\ IteratorsAreThere(f, iters)
      /\ m \in State!Map
  BY <1>1, <1>2, <1>3, RunningHas, TopGeneration
<1>5. PICK c : c = Changed(f)
  OBVIOUS
<1>6. /\ c \in FrameState /\ c.gen = f.gen /\ Dirty(c)
      /\ HandlesHaveSlots(c) /\ IteratorsAreThere(c, iters)
      /\ \A w : EntriesAreThere(f, w) => EntriesAreThere(c, w)
  BY <1>4, <1>5, ChangedFacts, SameSlotsFit DEF SameSlots
<1>7. broken' \in BOOLEAN
  BY <1>1 DEF Inv, TypeOK
<1>8. CASE Resolves(frame, h) /\ frame.entry_mapping[h.idx].alive
  <2>1. PICK k : k = f.entry_mapping[h.idx].key
    OBVIOUS
  <2>2. State!Write(k, v)
    BY <2>1, <1>2, <1>8 DEF entry_write
  <2>3. k \in DOMAIN m /\ State!ChangeTop(State!With(m, k, v))
    BY <2>2, <1>3 DEF State!Write
  <2>4. PICK w : w = State!With(m, k, v)
    OBVIOUS
  <2>5. w \in State!Map /\ DOMAIN w = DOMAIN m
    <3>1. k \in Keys
      BY <2>3, <1>4, MapFacts
    <3>2. w \in State!Map /\ DOMAIN w = DOMAIN m \cup {k}
      BY <3>1, <2>4, <1>4, MapFacts
    <3>. QED BY <3>2, <2>3
  <2>6. EntriesAreThere(c, w)
    BY <2>5, <1>4, <1>6 DEF EntriesAreThere
  <2>. QED BY <2>3, <2>4, <2>5, <2>6, <1>1, <1>2, <1>5, <1>6, <1>7, MapStep
<1>9. CASE ~ (Resolves(frame, h) /\ frame.entry_mapping[h.idx].alive)
  <2>1. State!StaleHandle
    BY <1>9 DEF entry_write
  <2>2. UNCHANGED gens
    BY <2>1 DEF State!StaleHandle
  <2>. QED BY <2>2, <1>1, <1>2, <1>3, <1>4, <1>5, <1>6, <1>7, MapStep
<1>. QED BY <1>8, <1>9

(* Nothing happens but an answer. *)
LEMMA NothingFound ==
  ASSUME Inv, Running, UNCHANGED <<gens, iters, saved, broken>>, SetFrame(frame)
  PROVE  Inv'
<1>1. PICK f : f = frame
  OBVIOUS
<1>2. PICK m : m = State!map
  OBVIOUS
<1>3. /\ f \in FrameState /\ HandlesHaveSlots(f) /\ EntriesAreThere(f, m) /\ IteratorsAreThere(f, iters)
      /\ m \in State!Map
  BY <1>1, <1>2, RunningHas, TopGeneration
<1>4. broken' \in BOOLEAN
  BY DEF Inv, TypeOK
<1>. QED BY <1>1, <1>2, <1>3, <1>4, MapStep

LEMMA Iterator ==
  ASSUME ExecutionAssumption, Inv, NEW i \in Iters, NEW p \in Keys, iterator(i, p)
  PROVE  Inv'
<1>1. Running /\ UNCHANGED <<saved, broken>> /\ iters[i] = None
  BY DEF iterator, State!Iter
<1>2. CASE ret' # "Ok"
  <2>1. UNCHANGED <<gens, iters>>
    BY <1>2 DEF iterator, State!Iter
  <2>2. SetFrame(frame)
    BY <1>2 DEF iterator
  <2>. QED BY <2>1, <2>2, <1>1, NothingFound
<1>3. CASE ret' = "Ok"
  <2>1. PICK f : f = frame
    OBVIOUS
  <2>2. PICK m : m = State!map
    OBVIOUS
  <2>3. /\ f \in FrameState /\ HandlesHaveSlots(f) /\ EntriesAreThere(f, m) /\ IteratorsAreThere(f, iters)
        /\ f.gen = Len(gens) /\ frames # <<>>
    BY <1>1, <2>1, <2>2, RunningHas
  <2>4. /\ m = gens[Len(gens)].map /\ m \in State!Map /\ gens[Len(gens)].locks \in [Keys -> Int]
        /\ State!Top = Len(gens) /\ Len(gens) \in Nat
    BY <2>2, TopGeneration
  <2>5. PICK n \in Int : n = gens[State!Top].locks[p] + 1
    BY <2>4
  <2>6. gens' = [gens EXCEPT ![State!Top].locks[p] = n]
    BY <1>3, <2>5 DEF iterator, State!Iter
  <2>7. /\ gens' \in Seq(Generation) /\ Len(gens') = Len(gens)
        /\ \A g \in 1 .. Len(gens) - 1 : gens'[g] = gens[g]
        /\ gens'[Len(gens)].map = gens[Len(gens)].map
    BY <2>6, LockChangeFacts
  <2>8. PICK x : x = [gen |-> Len(gens), root |-> p, snap |-> State!Below(p), given |-> {}]
    OBVIOUS
  <2>9. State!Below(p) \subseteq Keys
    BY <2>2, <2>4, MapFacts DEF State!Below
  <2>10. x \in State!IterState /\ x.gen = Len(gens)
    BY <2>4, <2>8, <2>9 DEF State!IterState
  <2>11. iters' = [iters EXCEPT ![i] = x]
    BY <1>3, <2>4, <2>8 DEF iterator, State!Iter
  <2>12. iters \in [Iters -> State!IterState \cup {None}]
    BY DEF Inv, TypeOK
  <2>13. /\ iters' \in [Iters -> State!IterState \cup {None}] /\ iters'[i] = x
         /\ \A j \in Iters : j # i => iters'[j] = iters[j]
    BY <2>10, <2>11, <2>12
  <2>14. \A j \in 1 .. Len(f.iterators) : f.iterators[j] # i
    <3>1. i # None
      BY DEF ExecutionAssumption
    <3>. QED BY <3>1, <1>1, <2>3 DEF IteratorsAreThere
  <2>15. f.iterators \in Seq(Iters \cup {None})
    BY <2>3 DEF FrameState
  <2>16. IteratorsAreThere(f, iters')
    <3>1. \A j \in 1 .. Len(f.iterators) : f.iterators[j] # None => iters'[f.iterators[j]] = iters[f.iterators[j]]
      BY <2>13, <2>14, <2>15
    <3>. QED BY <3>1, <2>3 DEF IteratorsAreThere
  <2>17. x # None
    BY <2>10 DEF ExecutionAssumption
  <2>18. PICK its : its = iters'
    OBVIOUS
  <2>19. PICK g : g = GiveIterator(f, i)
    OBVIOUS
  <2>20. SetFrame(g)
    BY <1>3, <2>1, <2>19 DEF iterator
  <2>21. /\ g \in FrameState /\ g.gen = f.gen /\ Dirty(g) = Dirty(f)
         /\ HandlesHaveSlots(g) /\ EntriesAreThere(g, m) /\ IteratorsAreThere(g, iters')
    <3>1. IteratorsAreThere(f, its) /\ its[i] # None /\ its[i].gen = f.gen
      BY <2>3, <2>10, <2>13, <2>16, <2>17, <2>18
    <3>2. IteratorsAreThere(g, its)
      BY <3>1, <2>3, <2>14, <2>19, GiveIteratorFacts
    <3>. QED BY <3>2, <2>3, <2>14, <2>18, <2>19, GiveIteratorFacts
  <2>22. saved' \in State!Map /\ broken' \in BOOLEAN
    BY <1>1 DEF Inv, TypeOK
  <2>23. \A j \in Iters : iters[j] # None /\ iters[j].gen < Len(gens)
                            => iters'[j] # None /\ iters'[j].gen = iters[j].gen
    BY <1>1, <2>13
  <2>. QED BY <2>1, <2>3, <2>4, <2>7, <2>13, <2>20, <2>21, <2>22, <2>23, TopStep
<1>. QED BY <1>2, <1>3

(* An iterator of the running call. *)
LEMMA FoundIterator ==
  ASSUME ExecutionAssumption, Inv, Running, NEW h, FindsIterator(frame, h)
  PROVE  /\ h.idx \in 1 .. Len(frame.iterators)
         /\ frame.iterators[h.idx] \in Iters
         /\ iters[frame.iterators[h.idx]] \in State!IterState
         /\ iters[frame.iterators[h.idx]] # None
         /\ iters[frame.iterators[h.idx]].gen = Len(gens)
         /\ iters[frame.iterators[h.idx]].root \in Keys
<1>1. frame \in FrameState /\ frame.gen = Len(gens) /\ IteratorsAreThere(frame, iters)
  BY RunningHas
<1>2. frame.iterators \in Seq(Iters \cup {None})
  BY <1>1 DEF FrameState
<1>3. h.idx \in 1 .. Len(frame.iterators) /\ frame.iterators[h.idx] # None
  BY <1>2 DEF FindsIterator
<1>4. frame.iterators[h.idx] \in Iters
  BY <1>2, <1>3
<1>5. iters[frame.iterators[h.idx]] # None /\ iters[frame.iterators[h.idx]].gen = Len(gens)
  BY <1>1, <1>3 DEF IteratorsAreThere
<1>6. iters[frame.iterators[h.idx]] \in State!IterState
  BY <1>4, <1>5 DEF Inv, TypeOK
<1>. QED BY <1>3, <1>4, <1>5, <1>6 DEF State!IterState

LEMMA IteratorNext ==
  ASSUME ExecutionAssumption, Inv, NEW h, iterator_next(h)
  PROVE  Inv'
<1>1. Running /\ UNCHANGED <<gens, saved, broken>>
  BY DEF iterator_next, State!Next_, State!StaleHandle
<1>2. CASE ~ FindsIterator(frame, h)
  <2>1. UNCHANGED iters /\ SetFrame(frame)
    BY <1>2 DEF iterator_next, State!StaleHandle
  <2>. QED BY <2>1, <1>1, NothingFound
<1>3. CASE FindsIterator(frame, h)
  <2>1. PICK i : i = frame.iterators[h.idx]
    OBVIOUS
  <2>2. i \in Iters /\ iters[i] \in State!IterState /\ iters[i] # None /\ iters[i].gen = Len(gens)
    BY <2>1, <1>1, <1>3, FoundIterator
  <2>3. /\ State!Next_(i)
        /\ SetFrame(IF ret' = "Key"
                    THEN GiveEntry(frame, CHOOSE k \in iters'[i].given \ iters[i].given : TRUE)
                    ELSE frame)
    BY <2>1, <1>3 DEF iterator_next
  <2>4. CASE ret' # "Key"
    <3>1. UNCHANGED iters /\ SetFrame(frame)
      BY <2>3, <2>4 DEF State!Next_
    <3>. QED BY <3>1, <1>1, NothingFound
  <2>5. CASE ret' = "Key"
    <3>1. PICK k \in State!Remaining(i) : iters' = [iters EXCEPT ![i].given = @ \cup {k}]
      BY <2>3, <2>5 DEF State!Next_
    <3>2. PICK m : m = State!map
      OBVIOUS
    <3>3. m \in State!Map /\ m = gens[Len(gens)].map
      BY <3>2, TopGeneration
    <3>4. k \in DOMAIN m /\ k \notin iters[i].given
      BY <3>1, <3>2 DEF State!Remaining, State!Below
    <3>5. k \in Keys
      BY <3>3, <3>4, MapFacts
    <3>6. PICK x : x = [iters[i] EXCEPT !.given = iters[i].given \cup {k}]
      OBVIOUS
    <3>7. x \in State!IterState /\ x.gen = iters[i].gen /\ x.given = iters[i].given \cup {k}
      BY <2>2, <3>5, <3>6 DEF State!IterState
    <3>8. iters \in [Iters -> State!IterState \cup {None}]
      BY DEF Inv, TypeOK
    <3>9. iters' = [iters EXCEPT ![i] = x]
      BY <2>2, <3>1, <3>6, <3>8
    <3>10. /\ iters' \in [Iters -> State!IterState \cup {None}] /\ iters'[i] = x
           /\ \A j \in Iters : j # i => iters'[j] = iters[j]
      BY <2>2, <3>7, <3>8, <3>9
    <3>11. iters'[i].given \ iters[i].given = {k}
      BY <3>4, <3>7, <3>10
    <3>12. (CHOOSE q \in iters'[i].given \ iters[i].given : TRUE) = k
      BY <3>11
    <3>13. PICK f : f = frame
      OBVIOUS
    <3>14. PICK g : g = GiveEntry(f, k)
      OBVIOUS
    <3>15. SetFrame(g)
      BY <2>3, <2>5, <3>12, <3>13, <3>14
    <3>16. /\ f \in FrameState /\ f.gen = Len(gens) /\ HandlesHaveSlots(f)
           /\ EntriesAreThere(f, m) /\ IteratorsAreThere(f, iters) /\ frames # <<>>
      BY <1>1, <3>2, <3>13, RunningHas
    <3>17. x # None
      BY <3>7 DEF ExecutionAssumption
    <3>18. \A j \in Iters : iters[j] # None => iters'[j] # None /\ iters'[j].gen = iters[j].gen
      BY <3>7, <3>10, <3>17
    <3>19. f.iterators \in Seq(Iters \cup {None})
      BY <3>16 DEF FrameState
    <3>20. IteratorsAreThere(f, iters')
      BY <3>16, <3>18, <3>19 DEF IteratorsAreThere
    <3>21. PICK its : its = iters'
      OBVIOUS
    <3>22. /\ g \in FrameState /\ g.gen = f.gen /\ Dirty(g) = Dirty(f)
           /\ HandlesHaveSlots(g) /\ EntriesAreThere(g, m) /\ IteratorsAreThere(g, its)
      <4>1. IteratorsAreThere(f, its)
        BY <3>20, <3>21
      <4>. QED BY <4>1, <3>4, <3>5, <3>14, <3>16, GiveEntryFacts
    <3>23. saved' \in State!Map /\ broken' \in BOOLEAN /\ gens' \in Seq(Generation)
      BY <1>1 DEF Inv, TypeOK
    <3>24. IteratorsAreThere(g, iters')
      BY <3>21, <3>22
    <3>. QED BY <1>1, <3>3, <3>10, <3>13, <3>15, <3>16, <3>18, <3>22, <3>23, <3>24, TopStep
  <2>. QED BY <2>4, <2>5
<1>. QED BY <1>2, <1>3

LEMMA IteratorDelete ==
  ASSUME ExecutionAssumption, Inv, NEW h, iterator_delete(h)
  PROVE  Inv'
<1>1. Running /\ UNCHANGED <<saved, broken>>
  BY DEF iterator_delete, State!DeleteIter, State!StaleHandle
<1>2. CASE ~ FindsIterator(frame, h)
  <2>1. UNCHANGED <<gens, iters>> /\ SetFrame(frame)
    BY <1>2 DEF iterator_delete, State!StaleHandle
  <2>. QED BY <2>1, <1>1, NothingFound
<1>3. CASE FindsIterator(frame, h)
  <2>1. PICK i : i = frame.iterators[h.idx]
    OBVIOUS
  <2>2. PICK x : x = h.idx
    OBVIOUS
  <2>3. PICK f : f = frame
    OBVIOUS
  <2>4. /\ i \in Iters /\ iters[i] \in State!IterState /\ iters[i] # None /\ iters[i].gen = Len(gens)
        /\ x \in 1 .. Len(f.iterators) /\ i = f.iterators[x] /\ iters[i].root \in Keys
    BY <2>1, <2>2, <2>3, <1>1, <1>3, FoundIterator
  <2>5. State!DeleteIter(i) /\ SetFrame([f EXCEPT !.iterators[x] = None])
    BY <2>1, <2>2, <2>3, <1>3 DEF iterator_delete
  <2>6. PICK p \in Keys : p = iters[i].root
    BY <2>4
  <2>7. gens[Len(gens)].locks \in [Keys -> Int] /\ State!Top = Len(gens) /\ State!map = gens[Len(gens)].map
    BY TopGeneration
  <2>8. PICK n \in Int : n = gens[State!Top].locks[p] - 1
    BY <2>7
  <2>9. gens' = [gens EXCEPT ![State!Top].locks[p] = n]
    BY <2>5, <2>6, <2>8 DEF State!DeleteIter
  <2>10. /\ gens' \in Seq(Generation) /\ Len(gens') = Len(gens)
         /\ \A g \in 1 .. Len(gens) - 1 : gens'[g] = gens[g]
         /\ gens'[Len(gens)].map = gens[Len(gens)].map
    BY <2>9, LockChangeFacts
  <2>11. iters' = [iters EXCEPT ![i] = None] /\ iters \in [Iters -> State!IterState \cup {None}]
    BY <2>5 DEF Inv, TypeOK, State!DeleteIter
  <2>12. /\ iters' \in [Iters -> State!IterState \cup {None}]
         /\ \A j \in Iters : j # i => iters'[j] = iters[j]
    BY <2>4, <2>11
  <2>13. PICK m : m = State!map
    OBVIOUS
  <2>14. /\ f \in FrameState /\ f.gen = Len(gens) /\ HandlesHaveSlots(f)
         /\ EntriesAreThere(f, m) /\ IteratorsAreThere(f, iters) /\ frames # <<>>
    BY <1>1, <2>3, <2>13, RunningHas
  <2>15. PICK its : its = iters
    OBVIOUS
  <2>16. PICK jts : jts = iters'
    OBVIOUS
  <2>17. PICK g : g = [f EXCEPT !.iterators[x] = None]
    OBVIOUS
  <2>18. /\ g \in FrameState /\ g.gen = f.gen /\ Dirty(g) = Dirty(f)
         /\ HandlesHaveSlots(g) /\ EntriesAreThere(g, m) /\ IteratorsAreThere(g, jts)
    <3>1. IteratorsAreThere(f, its) /\ \A j \in Iters : j # f.iterators[x] => jts[j] = its[j]
      BY <2>4, <2>12, <2>14, <2>15, <2>16
    <3>. QED BY <3>1, <2>4, <2>14, <2>17, DropIteratorFacts
  <2>19. saved' \in State!Map /\ broken' \in BOOLEAN
    BY <1>1 DEF Inv, TypeOK
  <2>20. \A j \in Iters : iters[j] # None /\ iters[j].gen < Len(gens)
                            => iters'[j] # None /\ iters'[j].gen = iters[j].gen
    <3>1. Len(gens) \in Nat
      BY TopGeneration
    <3>. QED BY <3>1, <2>4, <2>12
  <2>21. IteratorsAreThere(g, iters')
    BY <2>16, <2>18
  <2>22. m = gens[Len(gens)].map
    BY <2>7, <2>13
  <2>23. SetFrame(g)
    BY <2>5, <2>17
  <2>. QED BY <2>3, <2>10, <2>12, <2>14, <2>18, <2>19, <2>20, <2>21, <2>22, <2>23, TopStep
<1>. QED BY <1>2, <1>3

LEMMA Interrupt ==
  ASSUME Inv, NEW data \in BOOLEAN, interrupt(data)
  PROVE  Inv'
<1>1. Running /\ UNCHANGED <<gens, iters, saved, broken>>
  BY DEF interrupt, stateVars
<1>2. PICK f : f = frame
  OBVIOUS
<1>3. PICK m : m = State!map
  OBVIOUS
<1>4. /\ f \in FrameState /\ HandlesHaveSlots(f) /\ EntriesAreThere(f, m) /\ IteratorsAreThere(f, iters)
      /\ m \in State!Map
  BY <1>1, <1>2, <1>3, RunningHas, TopGeneration
<1>5. PICK g : g = resume_receive(f, FALSE, data)
  OBVIOUS
<1>6. SetFrame(g)
  BY <1>2, <1>5 DEF interrupt
<1>7. /\ g \in FrameState /\ g.gen = f.gen /\ (Dirty(g) <=> Dirty(f))
      /\ HandlesHaveSlots(g) /\ EntriesAreThere(g, m) /\ IteratorsAreThere(g, iters)
  BY <1>4, <1>5, ResumeFacts DEF Dirty
<1>8. broken' \in BOOLEAN
  BY <1>1 DEF Inv, TypeOK
<1>. QED BY <1>1, <1>2, <1>3, <1>4, <1>6, <1>7, <1>8, MapStep

-----------------------------------------------------------------------------
(* Calls and responses.                                                    *)

LEMMA FreshFrame ==
  ASSUME NEW n \in Nat \ {0}
  PROVE  /\ Frame(n) \in FrameState /\ Frame(n).gen = n
         /\ HandlesHaveSlots(Frame(n))
         /\ \A m : EntriesAreThere(Frame(n), m)
         /\ \A its : IteratorsAreThere(Frame(n), its)
<1>1. \A S : <<>> \in Seq(S) /\ Len(<<>>) = 0
  OBVIOUS
<1>2. Frame(n) \in FrameState
  BY <1>1 DEF Frame, FrameState
<1>. QED BY <1>1, <1>2 DEF Frame, HandlesHaveSlots, EntriesAreThere, IteratorsAreThere

LEMMA CallReceive ==
  ASSUME Inv, call_receive
  PROVE  Inv'
<1>1. frames = <<>> /\ frames' = <<Frame(1)>> /\ UNCHANGED <<gens, iters, saved, broken>>
  BY DEF call_receive, stateVars
<1>2. Len(gens) = 1
  BY <1>1 DEF Inv, Nested
<1>3. PICK f : f = Frame(1)
  OBVIOUS
<1>4. /\ f \in FrameState /\ f.gen = 1 /\ HandlesHaveSlots(f)
      /\ \A m : EntriesAreThere(f, m)
      /\ \A its : IteratorsAreThere(f, its)
  BY <1>3, FreshFrame
<1>5. frames' = <<f>> /\ frames' \in Seq(FrameState) /\ Len(frames') = 1 /\ frames'[1] = f /\ frames' # <<>>
  BY <1>1, <1>3, <1>4
<1>6. TypeOK'
  BY <1>1, <1>5 DEF Inv, TypeOK
<1>7. Nested'
  BY <1>1, <1>2, <1>4, <1>5 DEF Nested
<1>8. BeforeIsKept' /\ ChangesAreReported'
  BY <1>5 DEF BeforeIsKept, ChangesAreReported
<1>9. FramesMean'
  <2>1. \A d \in 1 .. Len(frames') : frames'[d] = f
    BY <1>5
  <2>2. HandlesHaveSlots(f) /\ EntriesAreThere(f, MapOf(gens', f)) /\ IteratorsAreThere(f, iters')
    BY <1>4
  <2>3. ASSUME NEW d \in 1 .. Len(frames')
        PROVE  /\ HandlesHaveSlots(frames'[d])
               /\ EntriesAreThere(frames'[d], MapOf(gens', frames'[d]))
               /\ IteratorsAreThere(frames'[d], iters')
    BY <2>1, <2>2
  <2>. QED BY <2>3 DEF FramesMean, HandlesHaveSlots, EntriesAreThere, IteratorsAreThere
<1>. QED BY <1>6, <1>7, <1>8, <1>9 DEF Inv

LEMMA CallAgain ==
  ASSUME Inv, call_again
  PROVE  Inv'
<1> DEFINE n == Len(frames)
           top == Len(gens)
<1>1. /\ Running /\ UNCHANGED <<iters, saved, broken>>
      /\ gens' = Append(gens, State!Gen(State!map))
  BY DEF call_again, State!NewGeneration
<1>2. /\ n \in Nat /\ n > 0 /\ top \in Nat /\ top > 0 /\ frame = frames[n] /\ frame.gen = top
      /\ frame \in FrameState
      /\ \A d \in 1 .. n - 1 : frames[d] \in FrameState /\ frames[d].gen \in 1 .. top - 1
  BY <1>1, RunningHas, RunningFrame, TopGeneration
<1>3. PICK m : m = State!map
  OBVIOUS
<1>4. m \in State!Map /\ m = gens[top].map /\ gens \in Seq(Generation)
  BY <1>3, TopGeneration
<1>5. PICK r : r = State!Gen(m)
  OBVIOUS
<1>6. r \in Generation /\ r.map = m
  BY <1>4, <1>5 DEF Generation, State!Gen, State!NoLocks
<1>7. /\ gens' \in Seq(Generation) /\ Len(gens') = top + 1 /\ gens'[top + 1] = r
      /\ \A g \in 1 .. top : gens'[g] = gens[g]
  BY <1>1, <1>3, <1>4, <1>5, <1>6
<1>8. PICK a : a = [frame EXCEPT !.before = m]
  OBVIOUS
<1>9. a \in FrameState /\ SameSlots(frame, a) /\ a.gen = top /\ (Dirty(a) <=> Dirty(frame)) /\ a.before = m
  BY <1>2, <1>4, <1>8 DEF FrameState, SameSlots, Dirty
<1>10. PICK b : b = Frame(top + 1)
  OBVIOUS
<1>11. /\ b \in FrameState /\ b.gen = top + 1 /\ HandlesHaveSlots(b)
       /\ \A w : EntriesAreThere(b, w)
       /\ \A its : IteratorsAreThere(b, its)
  BY <1>2, <1>10, FreshFrame
<1>12. frames' = Append(Front(frames), a) \o <<b>>
  BY <1>3, <1>8, <1>10 DEF call_again
<1>13. frames \in Seq(FrameState) /\ frames # <<>>
  BY <1>1 DEF Inv, TypeOK, Running
<1>14. /\ frames' \in Seq(FrameState) /\ Len(frames') = n + 1
       /\ frames'[n] = a /\ frames'[n + 1] = b
       /\ \A d \in 1 .. n - 1 : frames'[d] = frames[d]
  BY <1>9, <1>11, <1>12, <1>13, ReplaceLastAndAdd
<1> HIDE DEF n, top
<1>15. ASSUME NEW d \in 1 .. n
       PROVE  /\ frames'[d].gen = frames[d].gen /\ frames[d].gen \in 1 .. top
              /\ MapOf(gens', frames'[d]) = MapOf(gens, frames[d])
              /\ Dirty(frames'[d]) <=> Dirty(frames[d])
              /\ SameSlots(frames[d], frames'[d])
  <2>1. CASE d = n
    <3>1. frames'[d] = a /\ frames[d] = frame
      BY <2>1, <1>2, <1>14
    <3>2. gens'[top] = gens[top]
      BY <1>2, <1>7
    <3>. QED BY <3>1, <3>2, <1>2, <1>9 DEF MapOf
  <2>2. CASE d \in 1 .. n - 1
    <3>1. frames'[d] = frames[d] /\ frames[d].gen \in 1 .. top - 1
      BY <2>2, <1>2, <1>14
    <3>2. frames[d].gen \in 1 .. top
      BY <3>1, <1>2
    <3>3. gens'[frames[d].gen] = gens[frames[d].gen]
      BY <3>2, <1>7
    <3>. QED BY <3>1, <3>2, <3>3 DEF MapOf, SameSlots
  <2>. QED BY <2>1, <2>2, <1>2
<1>16. MapOf(gens', frames'[n + 1]) = m /\ MapOf(gens', frames'[n]) = m
  BY <1>2, <1>4, <1>6, <1>7, <1>9, <1>11, <1>14 DEF MapOf
<1>17. TypeOK'
  BY <1>1, <1>2, <1>7, <1>14 DEF Inv, TypeOK
<1>18. Nested'
  <2>1. ASSUME NEW c \in 1 .. n + 1, NEW d \in 1 .. n + 1, c < d
        PROVE  frames'[c].gen < frames'[d].gen
    <3>1. c \in 1 .. n
      BY <2>1, <1>2
    <3>2. CASE d = n + 1
      BY <3>1, <3>2, <1>2, <1>11, <1>14, <1>15
    <3>3. CASE d \in 1 .. n
      BY <2>1, <3>1, <3>3, <1>15 DEF Inv, Nested, n
    <3>. QED BY <3>2, <3>3, <1>2
  <2>2. frames'[Len(frames')].gen = Len(gens') /\ frames' # <<>>
    BY <1>2, <1>7, <1>11, <1>14
  <2>. QED BY <2>1, <2>2, <1>14 DEF Nested
<1>19. BeforeIsKept'
  <2>1. ASSUME NEW d \in 1 .. n PROVE frames'[d].before = MapOf(gens', frames'[d])
    <3>1. CASE d = n
      BY <3>1, <1>9, <1>14, <1>16
    <3>2. CASE d \in 1 .. n - 1
      BY <3>2, <1>14, <1>15 DEF Inv, BeforeIsKept, n
    <3>. QED BY <3>1, <3>2, <1>2
  <2>2. 1 .. Len(frames') - 1 = 1 .. n
    BY <1>2, <1>14
  <2>. QED BY <2>1, <2>2 DEF BeforeIsKept
<1>20. ChangesAreReported'
  <2>1. ASSUME NEW d \in 2 .. n + 1, ~ Dirty(frames'[d])
        PROVE  MapOf(gens', frames'[d]) = MapOf(gens', frames'[d - 1])
    <3>1. CASE d = n + 1
      BY <3>1, <1>2, <1>16
    <3>2. CASE d \in 2 .. n
      <4>1. d \in 1 .. n /\ d - 1 \in 1 .. n
        BY <3>2, <1>2
      <4>2. MapOf(gens, frames[d]) = MapOf(gens, frames[d - 1])
        BY <2>1, <3>2, <4>1, <1>15 DEF Inv, ChangesAreReported, n
      <4>. QED BY <4>1, <4>2, <1>15
    <3>. QED BY <3>1, <3>2, <1>2
  <2>. QED BY <2>1, <1>14 DEF ChangesAreReported, Dirty
<1>21. FramesMean'
  <2>1. ASSUME NEW d \in 1 .. n + 1
        PROVE  /\ HandlesHaveSlots(frames'[d])
               /\ EntriesAreThere(frames'[d], MapOf(gens', frames'[d]))
               /\ IteratorsAreThere(frames'[d], iters')
    <3>1. CASE d = n + 1
      <4>1. frames'[d] = b
        BY <3>1, <1>14
      <4>2. EntriesAreThere(b, MapOf(gens', frames'[d])) /\ IteratorsAreThere(b, iters')
        BY <1>11
      <4>. QED BY <4>1, <4>2, <1>11
    <3>2. CASE d \in 1 .. n
      <4>1. PICK e : e = frames[d]
        OBVIOUS
      <4>2. PICK f : f = frames'[d]
        OBVIOUS
      <4>3. PICK w : w = MapOf(gens, frames[d])
        OBVIOUS
      <4>4. ~ broken
        BY <1>1 DEF Running
      <4>5. HandlesHaveSlots(e) /\ EntriesAreThere(e, w) /\ IteratorsAreThere(e, iters)
        BY <3>2, <4>1, <4>3, <4>4 DEF Inv, FramesMean, n
      <4>6. SameSlots(e, f)
        BY <3>2, <4>1, <4>2, <1>15
      <4>7. HandlesHaveSlots(f) /\ EntriesAreThere(f, w) /\ IteratorsAreThere(f, iters)
        BY <4>5, <4>6, SameSlotsFit
      <4>. QED BY <3>2, <4>2, <4>3, <4>7, <1>1, <1>15
    <3>. QED BY <3>1, <3>2, <1>2
  <2>. QED BY <2>1, <1>14 DEF FramesMean, HandlesHaveSlots, EntriesAreThere, IteratorsAreThere
<1>. QED BY <1>17, <1>18, <1>19, <1>20, <1>21 DEF Inv

(* A call ends and its caller goes on as g, in the newest of the           *)
(* generations that are left.                                              *)
LEMMA ReturnStep ==
  ASSUME Inv, Len(frames) > 1, NEW g \in FrameState,
         frames' = Append(SubSeq(frames, 1, Len(frames) - 2), g),
         gens' \in Seq(Generation), Len(gens') = g.gen,
         frames[Len(frames) - 1].gen <= g.gen,
         \A x \in 1 .. frames[Len(frames) - 1].gen : gens'[x] = gens[x],
         ~ Dirty(g) => /\ ~ Dirty(frames[Len(frames) - 1])
                       /\ gens'[g.gen].map = MapOf(gens, frames[Len(frames) - 1]),
         iters' \in [Iters -> State!IterState \cup {None}],
         \A i \in Iters : iters[i] # None /\ iters[i].gen <= frames[Len(frames) - 1].gen
                            => iters'[i] # None /\ iters'[i].gen = iters[i].gen,
         saved' \in State!Map, broken' \in BOOLEAN,
         HandlesHaveSlots(g), EntriesAreThere(g, gens'[g.gen].map), IteratorsAreThere(g, iters')
  PROVE  Inv'
<1>2. frames \in Seq(FrameState) /\ frames # <<>> /\ Len(frames) \in Nat
  BY DEF Inv, TypeOK
<1>19. Len(frames) - 1 \in Nat \ {0}
  BY <1>2
<1>14. PICK n \in Nat \ {0} : n = Len(frames) - 1
  BY <1>19
<1>15. Len(frames) = n + 1 /\ Len(frames) - 2 = n - 1
  BY <1>2, <1>14
<1>16. \A f \in FrameState : f.gen \in Nat \ {0}
  BY DEF FrameState
<1>17. \A d \in 1 .. n : frames[d] \in FrameState
  BY <1>2, <1>15
<1>18. PICK low \in Nat \ {0} : low = frames[n].gen
  BY <1>16, <1>17
<1>1. ASSUME NEW d \in 1 .. n - 1
      PROVE  frames[d] \in FrameState /\ frames[d].gen \in Nat \ {0} /\ frames[d].gen < low
  <2>1. d \in 1 .. n /\ d \in 1 .. Len(frames) /\ n \in 1 .. Len(frames) /\ d < n
    BY <1>15
  <2>2. frames[d].gen < frames[n].gen
    BY <2>1 DEF Inv, Nested
  <2>. QED BY <2>1, <2>2, <1>16, <1>17, <1>18
<1>3. /\ frames' \in Seq(FrameState) /\ Len(frames') = n /\ frames' # <<>> /\ frames'[n] = g
      /\ \A d \in 1 .. n - 1 : frames'[d] = frames[d]
  <2>1. LET t == Append(SubSeq(frames, 1, Len(frames) - 2), g)
        IN  /\ t \in Seq(FrameState) /\ Len(t) = Len(frames) - 1 /\ t # <<>>
            /\ t[Len(frames) - 1] = g
            /\ \A j \in 1 .. Len(frames) - 2 : t[j] = frames[j]
    BY <1>2, ReplaceLastTwo
  <2>. QED BY <2>1, <1>14, <1>15
<1>4. g.gen \in Nat \ {0} /\ low <= g.gen
  BY <1>14, <1>16, <1>18
<1>5. \A x \in 1 .. low : gens'[x] = gens[x]
  BY <1>14, <1>18
<1>12. ~ Dirty(g) => ~ Dirty(frames[n]) /\ gens'[g.gen].map = MapOf(gens, frames[n])
  BY <1>14
<1>13. \A i \in Iters : iters[i] # None /\ iters[i].gen <= low
                          => iters'[i] # None /\ iters'[i].gen = iters[i].gen
  BY <1>14, <1>18
<1>6. ASSUME NEW d \in 1 .. n - 1
      PROVE  /\ frames'[d] = frames[d] /\ frames[d].gen < low
             /\ MapOf(gens', frames'[d]) = MapOf(gens, frames[d])
  <2>1. frames'[d] = frames[d]
    BY <1>3
  <2>2. frames[d].gen \in 1 .. low /\ frames[d].gen < low
    BY <1>1
  <2>3. gens'[frames[d].gen] = gens[frames[d].gen]
    BY <2>2, <1>5
  <2>. QED BY <2>1, <2>2, <2>3 DEF MapOf
<1>7. TypeOK'
  BY <1>3, <1>4 DEF TypeOK
<1>8. Nested'
  <2>1. ASSUME NEW c \in 1 .. n, NEW d \in 1 .. n, c < d
        PROVE  frames'[c].gen < frames'[d].gen
    <3>1. c \in 1 .. n - 1
      BY <2>1, <1>1
    <3>2. frames'[c].gen < low /\ frames'[c].gen \in Nat
      BY <3>1, <1>1, <1>6
    <3>3. CASE d = n
      BY <3>2, <3>3, <1>1, <1>3, <1>4
    <3>4. CASE d \in 1 .. n - 1
      <4>1. c \in 1 .. Len(frames) /\ d \in 1 .. Len(frames)
        BY <1>14, <1>15
      <4>. QED BY <2>1, <3>1, <3>4, <4>1, <1>6 DEF Inv, Nested
    <3>. QED BY <3>3, <3>4, <1>14
  <2>2. frames'[Len(frames')].gen = Len(gens')
    BY <1>3
  <2>. QED BY <2>1, <2>2, <1>3 DEF Nested
<1>9. BeforeIsKept'
  <2>1. ASSUME NEW d \in 1 .. n - 1 PROVE frames'[d].before = MapOf(gens', frames'[d])
    <3>1. d \in 1 .. Len(frames) - 1
      BY <1>14, <1>15
    <3>. QED BY <3>1, <1>6 DEF Inv, BeforeIsKept
  <2>. QED BY <2>1, <1>3 DEF BeforeIsKept
<1>10. ChangesAreReported'
  <2>1. ASSUME NEW d \in 2 .. n, ~ Dirty(frames'[d])
        PROVE  MapOf(gens', frames'[d]) = MapOf(gens', frames'[d - 1])
    <3>1. d - 1 \in 1 .. n - 1 /\ d \in 2 .. Len(frames)
      BY <1>14, <1>15
    <3>2. ~ Dirty(frames[d]) /\ MapOf(gens', frames'[d]) = MapOf(gens, frames[d])
      <4>1. CASE d = n
        <5>1. frames'[d] = g
          BY <4>1, <1>3
        <5>. QED BY <4>1, <5>1, <2>1, <1>12 DEF MapOf
      <4>2. CASE d \in 1 .. n - 1
        BY <4>2, <2>1, <1>6
      <4>. QED BY <4>1, <4>2, <1>14
    <3>3. MapOf(gens, frames[d]) = MapOf(gens, frames[d - 1])
      BY <3>1, <3>2 DEF Inv, ChangesAreReported
    <3>. QED BY <3>1, <3>2, <3>3, <1>6
  <2>. QED BY <2>1, <1>3 DEF ChangesAreReported, Dirty
<1>11. FramesMean'
  <2>1. ASSUME NEW d \in 1 .. n
        PROVE  /\ HandlesHaveSlots(frames'[d])
               /\ EntriesAreThere(frames'[d], MapOf(gens', frames'[d]))
               /\ IteratorsAreThere(frames'[d], iters')
    <3>1. CASE d = n
      <4>1. frames'[d] = g /\ MapOf(gens', frames'[d]) = gens'[g.gen].map
        BY <3>1, <1>3 DEF MapOf
      <4>. QED BY <4>1
    <3>2. CASE d \in 1 .. n - 1
      <4>1. frames'[d] = frames[d] /\ MapOf(gens', frames'[d]) = MapOf(gens, frames[d])
        BY <3>2, <1>6
      <4>2. d \in 1 .. Len(frames) /\ d < Len(frames)
        BY <1>14, <1>15
      <4>3. /\ HandlesHaveSlots(frames[d]) /\ EntriesAreThere(frames[d], MapOf(gens, frames[d]))
            /\ IteratorsAreThere(frames[d], iters)
        BY <4>2 DEF Inv, FramesMean
      <4>4. frames[d] \in FrameState /\ frames[d].gen <= low /\ frames[d].gen \in Nat
        BY <3>2, <1>1, <1>6
      <4>5. frames[d].iterators \in Seq(Iters \cup {None})
        BY <4>4 DEF FrameState
      <4>6. IteratorsAreThere(frames[d], iters')
        <5>1. \A j \in 1 .. Len(frames[d].iterators) : frames[d].iterators[j] # None =>
                /\ iters[frames[d].iterators[j]] # None
                /\ iters[frames[d].iterators[j]].gen = frames[d].gen
                /\ frames[d].iterators[j] \in Iters
          BY <4>3, <4>5 DEF IteratorsAreThere
        <5>2. \A j \in 1 .. Len(frames[d].iterators) : frames[d].iterators[j] # None =>
                /\ iters'[frames[d].iterators[j]] # None
                /\ iters'[frames[d].iterators[j]].gen = frames[d].gen
          BY <5>1, <4>4, <1>13
        <5>. QED BY <5>2, <4>3 DEF IteratorsAreThere
      <4>. QED BY <4>1, <4>3, <4>6
    <3>. QED BY <3>1, <3>2, <1>14
  <2>. QED BY <2>1, <1>3 DEF FramesMean, HandlesHaveSlots, EntriesAreThere, IteratorsAreThere
<1>. QED BY <1>7, <1>8, <1>9, <1>10, <1>11 DEF Inv

(* The caller, while another call runs. *)
LEMMA CallerHas ==
  ASSUME Inv, Len(frames) > 1
  PROVE  LET caller == frames[Len(frames) - 1]
         IN  /\ frames # <<>> /\ caller \in FrameState /\ Len(gens) \in Nat
             /\ caller.gen \in 1 .. Len(gens) - 1
             /\ HandlesHaveSlots(caller)
             /\ EntriesAreThere(caller, MapOf(gens, caller))
             /\ IteratorsAreThere(caller, iters)
<1>1. frames # <<>> /\ Len(frames) \in Nat
  BY DEF Inv, TypeOK
<1>2. Len(frames) - 1 \in 1 .. Len(frames) - 1 /\ Len(frames) - 1 \in 1 .. Len(frames)
  BY <1>1
<1>3. /\ frames[Len(frames) - 1] \in FrameState /\ Len(gens) \in Nat
      /\ frames[Len(frames) - 1].gen \in 1 .. Len(gens) - 1
  BY <1>1, <1>2, RunningFrame
<1>. QED BY <1>1, <1>2, <1>3 DEF Inv, FramesMean

(* Back to the generation of the caller. *)
LEMMA NormalizedReturn ==
  ASSUME Inv, Len(frames) > 1, NEW data \in BOOLEAN,
         State!Normalize(frames[Len(frames) - 1].gen),
         frames' = Append(SubSeq(frames, 1, Len(frames) - 2),
                          resume_receive(frames[Len(frames) - 1], FALSE, data))
  PROVE  Inv'
<1>1. PICK f : f = frames[Len(frames) - 1]
  OBVIOUS
<1>2. PICK m : m = MapOf(gens, f)
  OBVIOUS
<1>3. /\ f \in FrameState /\ Len(gens) \in Nat /\ f.gen \in 1 .. Len(gens) - 1
      /\ HandlesHaveSlots(f) /\ EntriesAreThere(f, m) /\ IteratorsAreThere(f, iters)
  BY <1>1, <1>2, CallerHas
<1>4. PICK g : g = resume_receive(f, FALSE, data)
  OBVIOUS
<1>5. PICK jts : jts = iters'
  OBVIOUS
<1>6. /\ gens' = SubSeq(gens, 1, f.gen) /\ broken' = FALSE /\ saved' = saved
      /\ iters' = [i \in Iters |-> IF State!Live(i) /\ iters[i].gen > f.gen THEN None ELSE iters[i]]
  BY <1>1 DEF State!Normalize
<1>7. /\ gens' \in Seq(Generation) /\ Len(gens') = f.gen
      /\ \A x \in 1 .. f.gen : gens'[x] = gens[x]
  <2>1. gens \in Seq(Generation)
    BY DEF Inv, TypeOK
  <2>2. PICK k \in 0 .. Len(gens) : k = f.gen
    BY <1>3
  <2>3. gens' = SubSeq(gens, 1, k)
    BY <2>2, <1>6
  <2>. QED BY <2>1, <2>2, <2>3, InitialPart
<1>8. iters \in [Iters -> State!IterState \cup {None}] /\ saved \in State!Map
  BY DEF Inv, TypeOK
<1>9. /\ iters' \in [Iters -> State!IterState \cup {None}]
      /\ \A i \in Iters : iters[i] # None /\ iters[i].gen <= f.gen => iters'[i] = iters[i]
  <2>1. \A i \in Iters : iters[i] # None => iters[i].gen \in Nat
    BY <1>8 DEF State!IterState
  <2>2. f.gen \in Nat
    BY <1>3
  <2>. QED BY <2>1, <2>2, <1>6, <1>8
<1>10. f.iterators \in Seq(Iters \cup {None}) /\ f.gen \in Nat
  BY <1>3 DEF FrameState
<1>11. IteratorsAreThere(f, jts)
  BY <1>3, <1>5, <1>9, <1>10 DEF IteratorsAreThere
<1>12. /\ g \in FrameState /\ g.gen = f.gen /\ (Dirty(g) <=> Dirty(f))
       /\ HandlesHaveSlots(g) /\ EntriesAreThere(g, m) /\ IteratorsAreThere(g, jts)
  BY <1>3, <1>4, <1>11, ResumeFacts DEF Dirty
<1>13. gens'[g.gen].map = m
  <2>1. f.gen \in 1 .. f.gen
    BY <1>3
  <2>. QED BY <2>1, <1>2, <1>7, <1>12 DEF MapOf
<1>14. frames' = Append(SubSeq(frames, 1, Len(frames) - 2), g)
  BY <1>1, <1>4
<1>15. IteratorsAreThere(g, iters') /\ EntriesAreThere(g, gens'[g.gen].map)
  BY <1>5, <1>12, <1>13
<1>16. f.gen <= g.gen
  BY <1>10, <1>12
<1>17. ~ Dirty(g) => ~ Dirty(f) /\ gens'[g.gen].map = MapOf(gens, f)
  BY <1>2, <1>12, <1>13
<1>18. \A i \in Iters : iters[i] # None /\ iters[i].gen <= f.gen
                          => iters'[i] # None /\ iters'[i].gen = iters[i].gen
  BY <1>9
<1>19. saved' \in State!Map /\ broken' \in BOOLEAN
  BY <1>6, <1>8
<1>. QED BY <1>1, <1>7, <1>9, <1>12, <1>14, <1>15, <1>16, <1>17, <1>18, <1>19, ReturnStep

LEMMA ReturnSuccess ==
  ASSUME Inv, return_success
  PROVE  Inv'
<1>1. Running /\ Len(frames) > 1
  BY DEF return_success, Depth
<1>2. CASE ~ Dirty(frame)
  <2>1. /\ State!Normalize(frames[Len(frames) - 1].gen)
        /\ frames' = Append(SubSeq(frames, 1, Len(frames) - 2),
                            resume_receive(frames[Len(frames) - 1], Dirty(frame), TRUE))
    BY <1>2 DEF return_success, Depth
  <2>2. Dirty(frame) = FALSE
    BY <1>2 DEF Dirty
  <2>. QED BY <2>1, <2>2, <1>1, NormalizedReturn
<1>3. CASE Dirty(frame)
  <2>1. Dirty(frame) = TRUE
    BY <1>3 DEF Dirty
  <2>2. PICK c : c = frames[Len(frames) - 1]
    OBVIOUS
  <2>3. PICK x : x = frame.gen
    OBVIOUS
  <2>4. c \in FrameState /\ HandlesHaveSlots(c) /\ c.gen \in 1 .. Len(gens) - 1 /\ Len(gens) \in Nat
    BY <2>2, <1>1, CallerHas
  <2>5. x = Len(gens) /\ x \in Nat \ {0}
    BY <2>3, <2>4, <1>1, RunningHas
  <2>6. PICK f : f = [c EXCEPT !.gen = x]
    OBVIOUS
  <2>7. f \in FrameState /\ f.gen = x /\ HandlesHaveSlots(f)
    BY <2>4, <2>5, <2>6 DEF FrameState, HandlesHaveSlots
  <2>8. PICK g : g = resume_receive(f, TRUE, TRUE)
    OBVIOUS
  <2>9. frames' = Append(SubSeq(frames, 1, Len(frames) - 2), g) /\ UNCHANGED <<gens, iters, saved, broken>>
    BY <2>1, <2>2, <2>3, <2>6, <2>8 DEF return_success, Depth, stateVars
  <2>10. /\ g \in FrameState /\ g.gen = x /\ Dirty(g) /\ HandlesHaveSlots(g)
         /\ \A m : EntriesAreThere(g, m)
         /\ \A its : IteratorsAreThere(g, its)
    BY <2>7, <2>8, ResumeFacts
  <2>11. /\ gens' \in Seq(Generation) /\ iters' \in [Iters -> State!IterState \cup {None}]
         /\ saved' \in State!Map /\ broken' \in BOOLEAN
    BY <2>9 DEF Inv, TypeOK
  <2>12. Len(gens') = g.gen /\ c.gen <= g.gen
    BY <2>4, <2>5, <2>9, <2>10
  <2>13. EntriesAreThere(g, gens'[g.gen].map) /\ IteratorsAreThere(g, iters')
    BY <2>10
  <2>. QED BY <2>2, <2>9, <2>10, <2>11, <2>12, <2>13, <1>1, ReturnStep
<1>. QED BY <1>2, <1>3

LEMMA ReturnFailure ==
  ASSUME Inv, NEW data \in BOOLEAN, return_failure(data)
  PROVE  Inv'
<1>1. /\ Len(frames) > 1
      /\ State!Normalize(frames[Len(frames) - 1].gen)
      /\ frames' = Append(SubSeq(frames, 1, Len(frames) - 2),
                          resume_receive(frames[Len(frames) - 1], FALSE, data))
  BY DEF return_failure, Depth
<1>. QED BY <1>1, NormalizedReturn

(* Between transactions: no call, and one generation without iterators. *)
Idle ==
  /\ frames = <<>>
  /\ \E m \in State!Map : gens = <<State!Gen(m)>>
  /\ iters = [i \in Iters |-> None]
  /\ saved \in State!Map
  /\ broken = FALSE

LEMMA IdleInv == Idle => Inv
<1>. SUFFICES ASSUME Idle PROVE Inv
  OBVIOUS
<1>1. PICK m \in State!Map : gens = <<State!Gen(m)>>
  BY DEF Idle
<1>2. PICK r : r = State!Gen(m)
  OBVIOUS
<1>3. r \in Generation
  BY <1>2 DEF State!Gen, State!NoLocks, Generation
<1>4. gens \in Seq(Generation) /\ Len(gens) = 1
  BY <1>1, <1>2, <1>3
<1>5. frames \in Seq(FrameState) /\ Len(frames) = 0 /\ frames = <<>>
  BY DEF Idle
<1>6. TypeOK
  <2>1. iters \in [Iters -> State!IterState \cup {None}]
    BY DEF Idle
  <2>2. saved \in State!Map /\ broken \in BOOLEAN
    BY DEF Idle
  <2>. QED BY <2>1, <2>2, <1>4, <1>5 DEF TypeOK
<1>7. Nested
  BY <1>4, <1>5 DEF Nested
<1>8. BeforeIsKept /\ ChangesAreReported /\ FramesMean
  BY <1>5 DEF BeforeIsKept, ChangesAreReported, FramesMean
<1>. QED BY <1>6, <1>7, <1>8 DEF Inv

LEMMA Commit ==
  ASSUME Inv, commit
  PROVE  Inv'
<1>1. State!map \in State!Map
  BY TopGeneration
<1>2. Idle'
  BY <1>1 DEF commit, Running, State!Freeze, Idle, State!Gen, State!NoLocks
<1>. QED BY <1>2, IdleInv, PTL

LEMMA Abort ==
  ASSUME Inv, abort
  PROVE  Inv'
<1>1. saved \in State!Map
  BY DEF Inv, TypeOK
<1>2. Idle'
  BY <1>1 DEF abort, State!Discard, Idle, State!Gen, State!NoLocks
<1>. QED BY <1>2, IdleInv, PTL

-----------------------------------------------------------------------------
(* The invariant.                                                          *)

LEMMA InitInv == Init => Inv
<1>1. Init => Idle
  BY DEF Init, State!Init, Idle
<1>. QED BY <1>1, IdleInv

LEMMA NextInv ==
  ASSUME ExecutionAssumption, Inv, [Next]_vars
  PROVE  Inv'
<1>1. CASE UNCHANGED vars
  BY <1>1 DEF vars, Inv, TypeOK, Nested, BeforeIsKept, ChangesAreReported, FramesMean,
              Dirty, HandlesHaveSlots, EntriesAreThere, IteratorsAreThere
<1>2. CASE Continue
  <2>1. CASE call_receive
    BY <2>1, CallReceive
  <2>2. CASE call_again
    BY <2>2, CallAgain
  <2>3. CASE \E data \in BOOLEAN : interrupt(data) \/ return_failure(data)
    BY <2>3, Interrupt, ReturnFailure
  <2>4. CASE return_success
    BY <2>4, ReturnSuccess
  <2>5. CASE \E k \in Keys : lookup_entry(k) \/ create_entry(k) \/ delete_entry(k)
    BY <2>5, LookupEntry, CreateEntry, DeleteEntry
  <2>6. CASE \E k \in Keys : delete_prefix(k) \/ delete_prefix_out_of_energy(k)
    BY <2>6, DeletePrefix, DeletePrefixOutOfEnergy
  <2>7. CASE \E h \in AllHandles, v \in Values : entry_write(h, v)
    BY <2>7, EntryWrite
  <2>8. CASE \E i \in Iters, k \in Keys : iterator(i, k)
    BY <2>8, Iterator
  <2>9. CASE \E h \in AllIterHandles : iterator_next(h) \/ iterator_delete(h)
    BY <2>9, IteratorNext, IteratorDelete
  <2>. QED BY <1>2, <2>1, <2>2, <2>3, <2>4, <2>5, <2>6, <2>7, <2>8, <2>9 DEF Continue
<1>3. CASE commit \/ abort
  BY <1>3, Commit, Abort
<1>. QED BY <1>1, <1>2, <1>3 DEF Next

LEMMA InvAlways ==
  ASSUME ExecutionAssumption
  PROVE  Spec => []Inv
<1>1. Init => Inv
  BY InitInv
<1>2. Inv /\ [Next]_vars => Inv'
  BY NextInv
<1>. QED BY <1>1, <1>2, PTL DEF Spec

-----------------------------------------------------------------------------
(* What holds throughout.                                                  *)

(* Calls are nested like the generations they work in, and the running one *)
(* works in the newest: what invoke_receive and resume_receive are given   *)
(* is the state of the call, at any depth of re-entrance.                  *)
THEOREM FramesFollowGenerationsHolds ==
  ASSUME ExecutionAssumption
  PROVE  Spec => []FramesFollowGenerations
<1>1. Inv => FramesFollowGenerations
  <2>. SUFFICES ASSUME Inv PROVE FramesFollowGenerations
    OBVIOUS
  <2>1. frames \in Seq(FrameState) /\ DOMAIN frames = 1 .. Len(frames) /\ Len(frames) \in Nat
    BY DEF Inv, TypeOK
  <2>2. ASSUME NEW d \in DOMAIN frames, d > 1
        PROVE  frames[d - 1].gen < frames[d].gen
    <3>1. d - 1 \in 1 .. Len(frames) /\ d \in 1 .. Len(frames) /\ d - 1 < d
      BY <2>1, <2>2
    <3>. QED BY <3>1 DEF Inv, Nested
  <2>3. frames # <<>> => frame.gen = State!Top
    BY RunningFrame DEF State!Top
  <2>. QED BY <2>2, <2>3 DEF FramesFollowGenerations
<1>. QED BY <1>1, InvAlways, PTL

(* A handle that the host accepts means the key it was given out for, and  *)
(* that key is in the state: entry_mapping of InstanceState never leads to *)
(* another entry or to one that is gone, whatever calls came in between.   *)
LEMMA EntryHandlesHold ==
  ASSUME Inv
  PROVE  EntryHandlesMeanTheirKey
<1>. SUFFICES ASSUME Running, NEW h \in frame.handles, Resolves(frame, h)
              PROVE  /\ frame.entry_mapping[h.idx].key = h.key
                     /\ frame.entry_mapping[h.idx].alive
                          => frame.entry_mapping[h.idx].key \in DOMAIN State!map
  BY DEF EntryHandlesMeanTheirKey
<1>1. HandlesHaveSlots(frame) /\ EntriesAreThere(frame, State!map)
  BY RunningHas
<1>2. h.counter = frame.counter
  BY DEF Resolves
<1>3. h.idx \in 1 .. Len(frame.entry_mapping) /\ frame.entry_mapping[h.idx].key = h.key
  BY <1>1, <1>2 DEF HandlesHaveSlots
<1>. QED BY <1>1, <1>3 DEF EntriesAreThere

(* An iterator handle that the host accepts leads to the iterator it was   *)
(* given out for, of the current generation, and no two slots of iterators *)
(* share one: deleting an iterator releases its own lock only.             *)
LEMMA IteratorHandlesHold ==
  ASSUME Inv
  PROVE  IteratorSlotsAreLive
<1>. SUFFICES ASSUME Running PROVE IteratorSlotsAreLive
  BY DEF IteratorSlotsAreLive
<1>1. /\ HandlesHaveSlots(frame) /\ IteratorsAreThere(frame, iters)
      /\ frame \in FrameState /\ frame.gen = Len(gens)
  BY RunningHas
<1>2. frame.iterators \in Seq(Iters \cup {None})
  BY <1>1 DEF FrameState
<1>3. DOMAIN frame.iterators = 1 .. Len(frame.iterators)
  BY <1>2
<1>4. ASSUME NEW h \in frame.iterHandles, FindsIterator(frame, h)
      PROVE  frame.iterators[h.idx] = h.iter /\ State!Usable(h.iter)
  <2>1. /\ h.counter = frame.counter /\ h.idx \in 1 .. Len(frame.iterators)
        /\ frame.iterators[h.idx] # None
    BY <1>3, <1>4 DEF FindsIterator
  <2>2. frame.iterators[h.idx] = h.iter
    BY <1>1, <2>1 DEF HandlesHaveSlots
  <2>3. iters[h.iter] # None /\ iters[h.iter].gen = Len(gens)
    BY <1>1, <2>1, <2>2 DEF IteratorsAreThere
  <2>. QED BY <2>2, <2>3 DEF State!Usable, State!Live, State!Top
<1>5. \A j, l \in DOMAIN frame.iterators :
        frame.iterators[j] # None /\ frame.iterators[j] = frame.iterators[l] => j = l
  BY <1>1, <1>3 DEF IteratorsAreThere
<1>. QED BY <1>4, <1>5 DEF IteratorSlotsAreLive

(* Handles of entries and of iterators that the host accepts mean what     *)
(* they were given out for: InstanceState never leads to another entry, to *)
(* one that is gone or to an iterator of another generation, whatever      *)
(* calls came in between.                                                  *)
THEOREM HandlesMeanTheirKeyHolds ==
  ASSUME ExecutionAssumption
  PROVE  Spec => []HandlesMeanTheirKey
<1>1. Inv => HandlesMeanTheirKey
  BY EntryHandlesHold, IteratorHandlesHold DEF HandlesMeanTheirKey
<1>. QED BY <1>1, InvAlways, PTL

-----------------------------------------------------------------------------
(* What a call returns to.                                                 *)

LEMMA SameDepth ==
  ASSUME Inv, frames # <<>>, NEW f, SetFrame(f)
  PROVE  Len(frames') = Len(frames)
<1>1. frames \in Seq(FrameState) /\ Len(frames) \in Nat /\ Len(frames) > 0
  BY DEF Inv, TypeOK
<1>2. Len(frames) - 1 \in 0 .. Len(frames)
  BY <1>1
<1>3. Front(frames) \in Seq(FrameState) /\ Len(Front(frames)) = Len(frames) - 1
  BY <1>1, <1>2, InitialPart DEF Front
<1>. QED BY <1>1, <1>3 DEF SetFrame

(* Only the end of a nested call leaves fewer calls, but some. *)
LEMMA WhoReturns ==
  ASSUME Inv, Next, Len(frames') < Len(frames), Len(frames') > 0
  PROVE  return_success \/ \E data \in BOOLEAN : return_failure(data)
<1>1. Len(frames) \in Nat
  BY DEF Inv, TypeOK
<1>2. ~ (commit \/ abort)
  BY DEF commit, abort
<1>3. Continue
  BY <1>2 DEF Next
<1>4. ~ call_receive
  BY DEF call_receive
<1>5. ~ call_again
  <2>. SUFFICES ASSUME call_again PROVE FALSE
    OBVIOUS
  <2>1. PICK a : a = [frame EXCEPT !.before = State!map]
    OBVIOUS
  <2>2. PICK b : b = Frame(Len(gens) + 1)
    OBVIOUS
  <2>3. frames' = Append(Front(frames), a) \o <<b>> /\ frames # <<>>
    BY <2>1, <2>2 DEF call_again, Running
  <2>4. frames \in Seq(FrameState) /\ Len(frames) > 0 /\ Len(frames) - 1 \in 0 .. Len(frames)
    BY <1>1, <2>3 DEF Inv, TypeOK
  <2>5. Front(frames) \in Seq(FrameState) /\ Len(Front(frames)) = Len(frames) - 1
    BY <2>4, InitialPart DEF Front
  <2>6. /\ Append(Front(frames), a) \in Seq(FrameState \cup {a, b})
        /\ Len(Append(Front(frames), a)) = Len(frames)
    BY <2>5, <1>1
  <2>7. <<b>> \in Seq(FrameState \cup {a, b}) /\ Len(<<b>>) = 1
    OBVIOUS
  <2>8. Len(frames') = Len(frames) + 1
    BY <2>3, <2>6, <2>7
  <2>. QED BY <2>8, <1>1
<1>6. \A f : ~ (frames # <<>> /\ SetFrame(f))
  BY <1>1, SameDepth
<1>7. ~ (\E data \in BOOLEAN : interrupt(data))
  BY <1>6 DEF interrupt, Running
<1>8. ~ (\E k \in Keys : lookup_entry(k) \/ create_entry(k) \/ delete_entry(k))
  BY <1>6 DEF lookup_entry, create_entry, delete_entry, Running
<1>9. ~ (\E k \in Keys : delete_prefix(k) \/ delete_prefix_out_of_energy(k))
  BY <1>6 DEF delete_prefix, delete_prefix_out_of_energy, Running
<1>10. ~ (\E h \in AllHandles, v \in Values : entry_write(h, v))
  BY <1>6 DEF entry_write, Running
<1>11. ~ (\E i \in Iters, k \in Keys : iterator(i, k))
  BY <1>6 DEF iterator, Running
<1>12. ~ (\E h \in AllIterHandles : iterator_next(h) \/ iterator_delete(h))
  BY <1>6 DEF iterator_next, iterator_delete, Running
<1>. QED BY <1>3, <1>4, <1>5, <1>7, <1>8, <1>9, <1>10, <1>11, <1>12 DEF Continue

(* Back in the generation of the caller is back in its map. *)
LEMMA NormalizedMap ==
  ASSUME Inv, Len(frames) > 1, State!Normalize(frames[Len(frames) - 1].gen)
  PROVE  State!map' = MapOf(gens, frames[Len(frames) - 1])
<1>1. PICK x : x = frames[Len(frames) - 1].gen
  OBVIOUS
<1>2. x \in 1 .. Len(gens) - 1 /\ Len(gens) \in Nat /\ gens \in Seq(Generation)
  BY <1>1, CallerHas DEF Inv, TypeOK
<1>3. gens' = SubSeq(gens, 1, x) /\ x \in 0 .. Len(gens) /\ x \in 1 .. x
  BY <1>1, <1>2 DEF State!Normalize
<1>4. Len(gens') = x /\ gens'[x] = gens[x]
  BY <1>2, <1>3, InitialPart
<1>. QED BY <1>1, <1>4 DEF MapOf, State!map, State!Top

(* The caller goes on as g. *)
LEMMA ReturnedFrame ==
  ASSUME Inv, Len(frames) > 1, NEW g \in FrameState,
         frames' = Append(SubSeq(frames, 1, Len(frames) - 2), g)
  PROVE  Len(frames') = Len(frames) - 1 /\ frame' = g
<1>1. frames \in Seq(FrameState)
  BY DEF Inv, TypeOK
<1>2. Len(frames') = Len(frames) - 1 /\ frames'[Len(frames) - 1] = g
  BY <1>1, ReplaceLastTwo
<1>. QED BY <1>2 DEF frame, Last

(* A caller that is told that the state was not updated finds the map it   *)
(* left, and may go on with its handles: whether the nested call failed,   *)
(* at any depth, or succeeded without reporting a change.                  *)
THEOREM NotUpdatedMeansSameHolds ==
  ASSUME ExecutionAssumption
  PROVE  Spec => NotUpdatedMeansSame
<1>1. ASSUME Inv, [Next]_vars PROVE [FindsWhatItLeft]_vars
  <2>. SUFFICES ASSUME Next, Depth' < Depth, Depth' > 0, frame'.counter = frames[Depth'].counter
                PROVE  State!map' = frames[Depth'].before
    BY <1>1 DEF FindsWhatItLeft
  <2>1. Len(frames') < Len(frames) /\ Len(frames') > 0 /\ frame'.counter = frames[Len(frames')].counter
    BY DEF Depth
  <2>2. Len(frames) \in Nat
    BY <1>1 DEF Inv, TypeOK
  <2>3. Len(frames) > 1
    <3>1. return_success => Depth > 1
      BY DEF return_success
    <3>2. \A data \in BOOLEAN : return_failure(data) => Depth > 1
      BY DEF return_failure
    <3>. QED BY <1>1, <2>1, <3>1, <3>2, WhoReturns DEF Depth
  <2>4. PICK c : c = frames[Len(frames) - 1]
    OBVIOUS
  <2>5. c \in FrameState /\ HandlesHaveSlots(c) /\ c.counter \in Nat
    BY <1>1, <2>3, <2>4, CallerHas DEF FrameState
  <2>6. c.before = MapOf(gens, c)
    <3>1. Len(frames) - 1 \in 1 .. Len(frames) - 1
      BY <2>2, <2>3
    <3>. QED BY <1>1, <2>4, <3>1 DEF Inv, BeforeIsKept
  <2>7. ASSUME State!Normalize(c.gen), NEW data \in BOOLEAN,
               frames' = Append(SubSeq(frames, 1, Len(frames) - 2), resume_receive(c, FALSE, data))
        PROVE  State!map' = frames[Len(frames')].before
    <3>1. PICK g : g = resume_receive(c, FALSE, data)
      OBVIOUS
    <3>2. g \in FrameState
      BY <2>5, <3>1, ResumeFacts
    <3>3. Len(frames') = Len(frames) - 1
      BY <1>1, <2>3, <2>7, <3>1, <3>2, ReturnedFrame
    <3>4. State!map' = MapOf(gens, c)
      BY <1>1, <2>3, <2>4, <2>7, NormalizedMap
    <3>. QED BY <2>4, <2>6, <3>3, <3>4
  <2>8. CASE \E data \in BOOLEAN : return_failure(data)
    <3>1. PICK data \in BOOLEAN : return_failure(data)
      BY <2>8
    <3>2. /\ State!Normalize(c.gen)
          /\ frames' = Append(SubSeq(frames, 1, Len(frames) - 2), resume_receive(c, FALSE, data))
      BY <2>4, <3>1 DEF return_failure, Depth
    <3>. QED BY <2>7, <3>2 DEF Depth
  <2>9. CASE return_success
    <3>1. CASE ~ Dirty(frame)
      <4>1. /\ State!Normalize(c.gen)
            /\ frames' = Append(SubSeq(frames, 1, Len(frames) - 2), resume_receive(c, Dirty(frame), TRUE))
        BY <2>4, <2>9, <3>1 DEF return_success, Depth
      <4>2. Dirty(frame) = FALSE
        BY <3>1 DEF Dirty
      <4>. QED BY <2>7, <4>1, <4>2 DEF Depth
    <3>2. CASE Dirty(frame)
      <4>1. Dirty(frame) = TRUE
        BY <3>2 DEF Dirty
      <4>2. PICK x : x = frame.gen
        OBVIOUS
      <4>3. x \in Nat \ {0}
        <5>1. Running
          BY <2>9 DEF return_success
        <5>2. frame.gen = Len(gens)
          BY <1>1, <5>1, RunningHas
        <5>. QED BY <1>1, <4>2, <5>2, TopGeneration
      <4>4. PICK f : f = [c EXCEPT !.gen = x]
        OBVIOUS
      <4>5. f \in FrameState /\ f.counter = c.counter /\ HandlesHaveSlots(f)
        BY <2>5, <4>3, <4>4 DEF FrameState, HandlesHaveSlots
      <4>6. PICK g : g = resume_receive(f, TRUE, TRUE)
        OBVIOUS
      <4>7. g \in FrameState /\ g.counter = c.counter + 1
        <5>1. PICK u \in BOOLEAN : u = TRUE
          OBVIOUS
        <5>2. /\ g \in FrameState
              /\ g.counter = IF u THEN f.counter + 1 ELSE f.counter
          BY <4>5, <4>6, <5>1, ResumeFacts
        <5>. QED BY <4>5, <5>1, <5>2
      <4>8. frames' = Append(SubSeq(frames, 1, Len(frames) - 2), g)
        BY <2>4, <2>9, <4>1, <4>2, <4>4, <4>6 DEF return_success, Depth
      <4>9. Len(frames') = Len(frames) - 1 /\ frame' = g
        BY <1>1, <2>3, <4>7, <4>8, ReturnedFrame
      <4>10. g.counter = c.counter
        BY <2>1, <2>4, <4>9
      <4>. QED BY <2>5, <4>7, <4>10
    <3>. QED BY <3>1, <3>2
  <2>. QED BY <1>1, <2>1, <2>8, <2>9, WhoReturns
<1>. QED BY <1>1, InvAlways, PTL DEF Spec, NotUpdatedMeansSame

(* What a nested call did is kept when it succeeds, also what it did       *)
(* before it was interrupted itself, and what calls it made did: dropping  *)
(* the generation of a call that reports no change loses nothing.          *)
THEOREM SuccessKeepsChangesHolds ==
  ASSUME ExecutionAssumption
  PROVE  Spec => SuccessKeepsChanges
<1>1. ASSUME Inv, return_success PROVE State!map' = State!map
  <2>1. Running /\ Len(frames) > 1
    BY <1>1 DEF return_success, Depth
  <2>2. CASE Dirty(frame)
    BY <1>1, <2>2 DEF return_success, stateVars, State!map, State!Top
  <2>3. CASE ~ Dirty(frame)
    <3>1. State!Normalize(frames[Len(frames) - 1].gen)
      BY <1>1, <2>3 DEF return_success, Depth
    <3>2. State!map' = MapOf(gens, frames[Len(frames) - 1])
      BY <1>1, <2>1, <3>1, NormalizedMap
    <3>3. frame = frames[Len(frames)] /\ frame.gen = Len(gens) /\ Len(frames) \in Nat
      BY <1>1, <2>1, RunningFrame DEF Running
    <3>4. Len(frames) \in 2 .. Len(frames)
      BY <2>1, <3>3
    <3>5. MapOf(gens, frame) = MapOf(gens, frames[Len(frames) - 1])
      BY <1>1, <2>3, <3>3, <3>4 DEF Inv, ChangesAreReported
    <3>6. MapOf(gens, frame) = State!map
      BY <3>3 DEF MapOf, State!map, State!Top
    <3>. QED BY <3>2, <3>5, <3>6
  <2>. QED BY <2>2, <2>3
<1>2. Inv /\ [Next]_vars => [CalleeChangesStay]_vars
  BY <1>1 DEF CalleeChangesStay
<1>. QED BY <1>2, InvAlways, PTL DEF Spec, SuccessKeepsChanges

-----------------------------------------------------------------------------
(* The state that calls work on is what ContractState promises.            *)

(* Whatever contracts do with the handles they hold, and however calls are *)
(* nested, every step does to the state what one operation of it does, or  *)
(* nothing: host functions resolve handles to keys and iterators for which *)
(* the operation is allowed.                                               *)
THEOREM ExecutionUsesState ==
  ASSUME ExecutionAssumption
  PROVE  Spec => State!Spec
<1>1. Init => State!Init
  BY DEF Init
<1>2. ASSUME Inv, [Next]_vars PROVE [State!Next]_State!vars
  <2>1. CASE UNCHANGED vars
    BY <2>1 DEF vars, State!vars
  <2>2. CASE Continue
    <3>1. CASE call_receive
      BY <3>1 DEF call_receive, stateVars, State!vars
    <3>2. CASE call_again
      BY <3>2 DEF call_again, State!Next
    <3>3. CASE \E data \in BOOLEAN : interrupt(data) \/ return_failure(data)
      <4>1. CASE \E data \in BOOLEAN : interrupt(data)
        BY <4>1 DEF interrupt, stateVars, State!vars
      <4>2. CASE \E data \in BOOLEAN : return_failure(data)
        <5>1. \E g \in 1 .. State!Top : State!Normalize(g)
          <6>1. PICK g : State!Normalize(g)
            BY <4>2 DEF return_failure
          <6>2. g \in 1 .. State!Top - 1 /\ State!Top \in Nat
            BY <1>2, <6>1, TopGeneration DEF State!Normalize
          <6>. QED BY <6>1, <6>2
        <5>. QED BY <5>1 DEF State!Next
      <4>. QED BY <3>3, <4>1, <4>2
    <3>4. CASE return_success
      <4>1. CASE Dirty(frame)
        BY <3>4, <4>1 DEF return_success, stateVars, State!vars
      <4>2. CASE ~ Dirty(frame)
        <5>1. PICK g : State!Normalize(g)
          BY <3>4, <4>2 DEF return_success
        <5>2. g \in 1 .. State!Top - 1 /\ State!Top \in Nat
          BY <1>2, <5>1, TopGeneration DEF State!Normalize
        <5>3. g \in 1 .. State!Top
          BY <5>2
        <5>. QED BY <5>1, <5>3 DEF State!Next
      <4>. QED BY <4>1, <4>2
    <3>5. CASE \E k \in Keys : lookup_entry(k) \/ create_entry(k) \/ delete_entry(k)
      <4>1. PICK k \in Keys : State!Get(k) \/ State!Insert(k, Empty) \/ State!Delete(k)
        BY <3>5 DEF lookup_entry, create_entry, delete_entry
      <4>2. Empty \in Values
        BY DEF ExecutionAssumption
      <4>. QED BY <4>1, <4>2 DEF State!Next
    <3>6. CASE \E k \in Keys : delete_prefix(k) \/ delete_prefix_out_of_energy(k)
      BY <3>6 DEF delete_prefix, delete_prefix_out_of_energy, State!Next
    <3>7. CASE \E h \in AllHandles, v \in Values : entry_write(h, v)
      <4>1. PICK h \in AllHandles, v \in Values : entry_write(h, v)
        BY <3>7
      <4>2. CASE Resolves(frame, h) /\ frame.entry_mapping[h.idx].alive
        <5>1. PICK k : k = frame.entry_mapping[h.idx].key
          OBVIOUS
        <5>2. State!Write(k, v)
          BY <4>1, <4>2, <5>1 DEF entry_write
        <5>3. k \in Keys
          <6>1. State!map \in State!Map /\ k \in DOMAIN State!map
            BY <1>2, <5>2, TopGeneration DEF State!Write
          <6>. QED BY <6>1, MapFacts
        <5>. QED BY <5>2, <5>3 DEF State!Next
      <4>3. CASE ~ (Resolves(frame, h) /\ frame.entry_mapping[h.idx].alive)
        <5>1. State!StaleHandle
          BY <4>1, <4>3 DEF entry_write
        <5>. QED BY <5>1 DEF State!Next
      <4>. QED BY <4>2, <4>3
    <3>8. CASE \E i \in Iters, k \in Keys : iterator(i, k)
      BY <3>8 DEF iterator, State!Next
    <3>9. CASE \E h \in AllIterHandles : iterator_next(h) \/ iterator_delete(h)
      <4>1. PICK h \in AllIterHandles : iterator_next(h) \/ iterator_delete(h)
        BY <3>9
      <4>2. Running
        BY <4>1 DEF iterator_next, iterator_delete
      <4>3. CASE FindsIterator(frame, h)
        <5>1. PICK i : i = frame.iterators[h.idx]
          OBVIOUS
        <5>2. i \in Iters
          BY <1>2, <4>2, <4>3, <5>1, FoundIterator
        <5>3. State!Next_(i) \/ State!DeleteIter(i)
          BY <4>1, <4>3, <5>1 DEF iterator_next, iterator_delete
        <5>. QED BY <5>2, <5>3 DEF State!Next
      <4>4. CASE ~ FindsIterator(frame, h)
        <5>1. State!StaleHandle
          BY <4>1, <4>4 DEF iterator_next, iterator_delete
        <5>. QED BY <5>1 DEF State!Next
      <4>. QED BY <4>3, <4>4
    <3>. QED BY <2>2, <3>1, <3>2, <3>3, <3>4, <3>5, <3>6, <3>7, <3>8, <3>9 DEF Continue
  <2>3. CASE commit \/ abort
    BY <2>3 DEF commit, abort, State!Next
  <2>. QED BY <1>2, <2>1, <2>2, <2>3 DEF Next
<1>. QED BY <1>1, <1>2, InvAlways, PTL DEF Spec, State!Spec

-----------------------------------------------------------------------------
(* So what is proved of the state holds for the calls that work on it.     *)

Promises == INSTANCE ContractState_proofs WITH NoIter <- None

(* The two instances of the state say the same. *)
LEMMA SameState ==
  /\ State!Init <=> Promises!Init
  /\ [State!Next]_State!vars <=> [Promises!Next]_Promises!vars
<1>1. State!Init <=> Promises!Init
  BY DEF State!Init, Promises!Init, State!Gen, Promises!Gen, State!NoLocks,
         Promises!NoLocks, State!Map, Promises!Map
<1>2. State!Next <=> Promises!Next
  BY DEF State!Next, Promises!Next, State!Insert, Promises!Insert, State!Delete,
         Promises!Delete, State!DeletePrefix, Promises!DeletePrefix,
         State!DeletePrefixStops, Promises!DeletePrefixStops, State!Get,
         Promises!Get, State!Write, Promises!Write, State!StaleHandle,
         Promises!StaleHandle, State!Iter, Promises!Iter, State!Next_,
         Promises!Next_, State!DeleteIter, Promises!DeleteIter, State!NewGeneration,
         Promises!NewGeneration, State!Normalize, Promises!Normalize, State!Freeze,
         Promises!Freeze, State!Discard, Promises!Discard, State!Top, Promises!Top,
         State!map, Promises!map, State!Below, Promises!Below, State!Locked,
         Promises!Locked, State!PointFree, Promises!PointFree, State!SubtreeFree,
         Promises!SubtreeFree, State!Without, Promises!Without, State!With,
         Promises!With, State!ChangeTop, Promises!ChangeTop, State!Gen,
         Promises!Gen, State!NoLocks, Promises!NoLocks, State!Live, Promises!Live,
         State!Usable, Promises!Usable, State!Remaining, Promises!Remaining,
         State!Extends, Promises!Extends, State!Pre, Promises!Pre, State!Less,
         Promises!Less, State!Map, Promises!Map
<1>. QED BY <1>1, <1>2 DEF State!vars, Promises!vars

LEMMA SamePromises ==
  /\ State!LocksCounted <=> Promises!LocksCounted
  /\ State!IteratorSeesSnapshot <=> Promises!IteratorSeesSnapshot
  /\ State!IterationInOrder <=> Promises!IterationInOrder
<1>1. State!LocksCounted <=> Promises!LocksCounted
  BY DEF State!LocksCounted, Promises!LocksCounted, State!Of, Promises!Of,
         State!Top, Promises!Top, State!Live, Promises!Live, State!Cardinality,
         Promises!Cardinality
<1>2. State!IteratorSeesSnapshot <=> Promises!IteratorSeesSnapshot
  BY DEF State!IteratorSeesSnapshot, Promises!IteratorSeesSnapshot, State!Live,
         Promises!Live, State!Extends, Promises!Extends, State!Pre, Promises!Pre
<1>3. State!IterationInOrder <=> Promises!IterationInOrder
  BY DEF State!IterationInOrder, Promises!IterationInOrder, State!Live,
         Promises!Live, State!Less, Promises!Less, State!Extends, Promises!Extends,
         State!Pre, Promises!Pre
<1>. QED BY <1>1, <1>2, <1>3

(* While contracts call each other again, keep iterators across calls and  *)
(* have their changes rolled back, every lock has its iterators, and an    *)
(* iterator gives out the keys there were when it was made, in order.      *)
THEOREM IterationUnderCalls ==
  ASSUME ExecutionAssumption
  PROVE  Spec => [](State!LocksCounted /\ State!IteratorSeesSnapshot /\ State!IterationInOrder)
<1>1. /\ Keys \subseteq Seq(Nat) /\ Promises!IsFiniteSet(Iters) /\ MaxCount \in Nat \ {0}
      /\ None \notin [gen : Nat, root : Keys, snap : SUBSET Keys, given : SUBSET Keys]
  BY DEF ExecutionAssumption, IsFiniteSet, Promises!IsFiniteSet, State!IterState
<1>2. Promises!Spec => []Promises!LocksCounted
  BY <1>1, Promises!SpecLocksCounted
<1>3. Promises!Spec => []Promises!IteratorSeesSnapshot
  BY <1>1, Promises!SpecIteratorSeesSnapshot
<1>4. Promises!Spec => []Promises!IterationInOrder
  BY <1>1, Promises!SpecIterationInOrder
<1>5. Spec => State!Spec
  BY ExecutionUsesState
<1>. QED BY <1>2, <1>3, <1>4, <1>5, SameState, SamePromises, PTL DEF State!Spec, Promises!Spec
=============================================================================
