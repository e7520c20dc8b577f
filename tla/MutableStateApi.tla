--------------------------- MODULE MutableStateApi ---------------------------
(***************************************************************************)
(* MutableState of v1/trie/api.rs: handles to contract states.  A handle   *)
(* starts with a persistent state only.  The first use thaws it into a     *)
(* trie, which handles share from then on, each for one generation of it.  *)
(* Generations are rolled back by using a handle for an older one.         *)
(*                                                                         *)
(* What a generation holds is one value here; ContractState has the        *)
(* operations on it.                                                       *)
(***************************************************************************)
EXTENDS Integers, Sequences, FiniteSets

CONSTANTS
  Handles,          \* names for handles
  Tries,            \* names for shared tries, the Arc<Mutex<MutableTrie>>
  Contents,         \* what a contract state can hold
  Empty,            \* the contents of PersistentState::Empty
  None,             \* a name that is not in use, a trie not thawed yet
  MaxGenerations    \* bound on generations of a trie

(* There is a trie for every handle, and None is no handle and no inner. *)
HandlesAssumption ==
  /\ Empty \in Contents
  /\ IsFiniteSet(Handles) /\ IsFiniteSet(Tries)
  /\ Cardinality(Tries) >= Cardinality(Handles)
  /\ None \notin [trie : Tries, root : Nat]
  /\ None \notin [inner : [trie : Tries, root : Nat] \cup {None}, persistent : Contents,
                  expected : Contents, from : Handles \cup {None}, valid : BOOLEAN]

VARIABLES
  tries,            \* the generations of each trie, oldest first
  handles           \* the handles, with the history of their making

vars == <<tries, handles>>

(* history: expected is what the owner of the handle has reason to find,   *)
(* from is the handle it was made fresh from, valid is lost when the       *)
(* generation of the handle is rolled back.                                *)
Handle(inner, persistent, from) ==
  [inner |-> inner, persistent |-> persistent, expected |-> persistent,
   from |-> from, valid |-> TRUE]

Inner(trie, root) == [trie |-> trie, root |-> root]

Init ==
  /\ tries = [t \in Tries |-> <<>>]
  /\ handles = [h \in Handles |-> None]

Live == {h \in Handles : handles[h] # None}
Thawed == {h \in Live : handles[h].inner # None}
Valid == {h \in Live : handles[h].valid}
FreeTrie == CHOOSE t \in Tries : \A h \in Thawed : handles[h].inner.trie # t

(* Mutant of normalize: newer generations stay. *)
NormalizeNothing(gens, root) == gens

(* MutableTrie::normalize does nothing for a generation that is not there. *)
normalize(gens, root) == IF root + 1 < Len(gens) THEN SubSeq(gens, 1, root + 1) ELSE gens

(* The trie and the inner of a handle when get_inner is done with it. *)
get_inner(h) ==
  IF h \in Thawed
  THEN LET inner == handles[h].inner
       IN [inner |-> inner, gens |-> normalize(tries[inner.trie], inner.root)]
  ELSE [inner |-> Inner(FreeTrie, 0), gens |-> <<handles[h].persistent>>]

(* What an operation through h would find. *)
Found(h) == LET gens == get_inner(h).gens IN gens[Len(gens)]

(* Handles that a use of h as inner leaves behind: those for generations   *)
(* that are rolled back by it.                                             *)
Stale(g, inner) ==
  g \in Thawed /\ handles[g].inner.trie = inner.trie /\ handles[g].inner.root > inner.root

SameGeneration(g, inner) == g \in Thawed /\ handles[g].inner = inner

(* Every handle after h was used as inner, and e became its contents. *)
AfterUse(h, inner, e) ==
  [g \in Handles |->
     IF g = h THEN [handles[g] EXCEPT !.inner = inner, !.expected = e]
     ELSE IF SameGeneration(g, inner) THEN [handles[g] EXCEPT !.expected = e]
     ELSE IF Stale(g, inner) THEN [handles[g] EXCEPT !.valid = FALSE]
     ELSE handles[g]]

(* The scheduler, which holds the handles, does not go on with a call      *)
(* whose caller went on: normalize would not notice that the generation is *)
(* not there, and the operation would work on an older one.                *)
MayUse(h) == h \in Valid

(* A trie goes with the last handle to it. *)
Collected(ts, hs) ==
  [t \in Tries |-> IF \E h \in Handles : hs[h] # None /\ hs[h].inner # None /\ hs[h].inner.trie = t
                   THEN ts[t] ELSE <<>>]

-----------------------------------------------------------------------------

(* PersistentState::thaw, and initial_state for the empty one. *)
thaw(n, p) ==
  /\ n \notin Live
  /\ handles' = [handles EXCEPT ![n] = Handle(None, p, None)]
  /\ UNCHANGED tries

(* get_inner, then any operations on the current generation. *)
modify(h, c) ==
  LET i == get_inner(h)
  IN /\ MayUse(h)
     /\ tries' = [tries EXCEPT ![i.inner.trie] = [i.gens EXCEPT ![Len(i.gens)] = c]]
     /\ handles' = AfterUse(h, i.inner, c)

(* A handle that is not thawed yet is thawed, and then simply cloned. *)
make_fresh_generation(h, n) ==
  LET i == get_inner(h)
      top == i.gens[Len(i.gens)]
      fresh == h \in Thawed
      inner == IF fresh THEN [i.inner EXCEPT !.root = @ + 1] ELSE i.inner
      old == AfterUse(h, i.inner, handles[h].expected)
  IN /\ MayUse(h)
     /\ n \notin Live
     /\ Len(i.gens) < MaxGenerations
     /\ tries' = [tries EXCEPT ![i.inner.trie] = IF fresh THEN Append(i.gens, top) ELSE i.gens]
     /\ handles' = [old EXCEPT ![n] =
                      [Handle(inner, handles[h].persistent, h) EXCEPT
                         !.expected = handles[h].expected]]

clone(h, n) ==
  /\ h \in Live
  /\ n \notin Live
  /\ handles' = [handles EXCEPT ![n] = [handles[h] EXCEPT !.from = None]]
  /\ UNCHANGED tries

(* Mutant of Frozen: freeze without going back to the generation of h. *)
FrozenNewest(h) ==
  LET gens == tries[handles[h].inner.trie] IN gens[Len(gens)]

(* What freeze makes persistent: the generation of the handle. *)
Frozen(h) == Found(h)

(* The trie is taken away from all handles to it. *)
freeze(h) ==
  /\ MayUse(h)
  /\ IF h \in Thawed
     THEN LET inner == handles[h].inner
          IN /\ handles' = [g \in Handles |->
                  IF g = h THEN [handles[g] EXCEPT !.inner = None, !.persistent = Frozen(h)]
                  ELSE IF g \in Thawed /\ handles[g].inner.trie = inner.trie
                  THEN [handles[g] EXCEPT !.valid = FALSE]
                  ELSE handles[g]]
             /\ tries' = Collected([tries EXCEPT ![inner.trie] = <<Empty>>], handles')
     ELSE UNCHANGED <<tries, handles>>

drop(h) ==
  /\ h \in Live
  /\ handles' = [g \in Handles |->
       IF g = h THEN None
       ELSE IF g \in Live /\ handles[g].from = h THEN [handles[g] EXCEPT !.from = None]
       ELSE handles[g]]
  /\ tries' = Collected(tries, handles')

Next ==
  \/ \E n \in Handles, p \in Contents : thaw(n, p)
  \/ \E h \in Handles, c \in Contents : modify(h, c)
  \/ \E h, n \in Handles : make_fresh_generation(h, n) \/ clone(h, n)
  \/ \E h \in Handles : freeze(h) \/ drop(h)

Spec == Init /\ [][Next]_vars

-----------------------------------------------------------------------------

(* Whoever holds a valid handle finds what was last written through it or  *)
(* through a handle for the same generation, whatever was done in nested   *)
(* generations in between, and however handles were cloned and dropped.    *)
ValidHandlesFindTheirState == \A h \in Valid : Found(h) = handles[h].expected

(* The persistent state that freeze makes is what the handle was for, and  *)
(* so freezing a handle does not change what it finds.                     *)
FrozenAsFound ==
  \A h \in Valid : h \in Thawed /\ handles'[h] # None /\ handles'[h].inner = None
    => handles'[h].persistent = handles[h].expected
FreezeKeepsContents == [][FrozenAsFound]_vars

(* "Modifications on this generation will not be reflected in the current  *)
(* one" (make_fresh_generation): changes through a handle that was made    *)
(* fresh leave the handle it was made from as it was.                      *)
FreshGenerationIsolated ==
  [][\A h, n \in Valid, c \in Contents :
        handles[n].from = h /\ modify(n, c) => Found(h)' = Found(h)]_vars
=============================================================================
