-------------------------- MODULE ContractExecution --------------------------
(***************************************************************************)
(* Calls to the entrypoints of one contract instance within a transaction, *)
(* with re-entrant calls: InstanceState of v1/types.rs, invoke_receive and *)
(* resume_receive of v1/mod.rs, and their callers in v1/ffi.rs.            *)
(*                                                                         *)
(* A contract refers to entries and iterators by handles, pairs of an      *)
(* instance counter and an index.  An operation may interrupt it, and then *)
(* the same instance may be called again, in a new generation of the       *)
(* state.  The scheduler, which lives in the consensus layer, resumes the  *)
(* interrupted call on the generation that is current afterwards and says  *)
(* whether the state was updated.                                          *)
(***************************************************************************)
EXTENDS Integers, Sequences, SequencesExt, FiniteSets

CONSTANTS
  Keys, Values, Iters, None, MaxCount,      \* see ContractState
  Empty,            \* the value that create_entry gives a key
  MaxDepth,         \* bound on nested calls
  MaxEntries,       \* bound on the handles of one kind a call is given
  MaxCounter,       \* bound on the instance counter
  MaxSteps,         \* bound on the steps of a transaction
  MaxParameters     \* highest parameter index, 2^23 - 1 in the code

VARIABLES
  gens, iters, saved, broken, ret,          \* see ContractState
  frames,           \* the calls in progress, the running one last
  steps             \* the steps of the transaction so far

State == INSTANCE ContractState WITH NoIter <- None

(* Keys are sequences of bytes, an entry starts out with a value, and None *)
(* is no iterator and no state of one.                                     *)
ExecutionAssumption ==
  /\ Keys \subseteq Seq(Nat)
  /\ IsFiniteSet(Iters)
  /\ MaxCount \in Nat \ {0}
  /\ Empty \in Values
  /\ None \notin Iters
  /\ None \notin State!IterState

stateVars == <<gens, iters, saved, broken, ret>>
vars == <<gens, iters, saved, broken, ret, frames, steps>>

(* A call.  gen is the generation its MutableState refers to; handles,     *)
(* iterHandles and before are history: all that the contract was ever      *)
(* given, and the map it saw when it was interrupted.  dirty is what the   *)
(* scheduler knows of changes made by the call in earlier sections.        *)
Frame(gen) ==
  [gen |-> gen, counter |-> 0, entry_mapping |-> <<>>, iterators |-> <<>>,
   changed |-> FALSE, parameters |-> 1, trapped |-> FALSE, dirty |-> FALSE,
   handles |-> {}, iterHandles |-> {}, before |-> None]

Init == State!Init /\ frames = <<>> /\ steps = 0

Depth == Len(frames)
frame == Last(frames)
SetFrame(f) == frames' = Append(Front(frames), f)
Running == frames # <<>> /\ ~ broken /\ ~ frame.trapped

-----------------------------------------------------------------------------
(* The host functions on the state.                                        *)

(* Hand out an entry of key k: an index into entry_mapping. *)
GiveEntry(f, k) ==
  [f EXCEPT !.entry_mapping = Append(@, [key |-> k, alive |-> TRUE]),
            !.handles = @ \cup {[counter |-> f.counter, idx |-> Len(f.entry_mapping) + 1, key |-> k]}]

(* The entries of deleted keys are dead, also those given out before. *)
Kill(f, dead) ==
  [f EXCEPT !.entry_mapping = [j \in DOMAIN @ |-> IF @[j].key \in dead
                                                  THEN [@[j] EXCEPT !.alive = FALSE] ELSE @[j]]]

(* Mutant of Changed: the change is not recorded. *)
ChangedForgotten(f) == f

Changed(f) == [f EXCEPT !.changed = TRUE]

HasRoom == Len(frame.entry_mapping) < MaxEntries

lookup_entry(k) ==
  /\ Running /\ HasRoom
  /\ State!Get(k)
  /\ SetFrame(IF ret' = "Key" THEN GiveEntry(frame, k) ELSE frame)

create_entry(k) ==
  /\ Running /\ HasRoom
  /\ State!Insert(k, Empty)
  /\ SetFrame(IF ret' = "Locked" THEN Changed(frame) ELSE GiveEntry(Changed(frame), k))

delete_entry(k) ==
  /\ Running
  /\ State!Delete(k)
  /\ SetFrame(IF ret' = "Deleted" THEN Kill(Changed(frame), {k}) ELSE Changed(frame))

delete_prefix(p) ==
  /\ Running
  /\ State!DeletePrefix(p)
  /\ SetFrame(IF ret' = "Deleted" THEN Kill(Changed(frame), State!Below(p)) ELSE Changed(frame))

(* The energy runs out on the way: the call can only fail from here. *)
delete_prefix_out_of_energy(p) ==
  /\ Running
  /\ State!DeletePrefixStops(p)
  /\ SetFrame(Changed(frame))

(* The entry that a handle refers to, if the counter is right and the      *)
(* index is in range.                                                      *)
Resolves(f, h) == h.counter = f.counter /\ h.idx \in DOMAIN f.entry_mapping

(* entry_write and entry_resize.  A contract may pass any handle. *)
entry_write(h, v) ==
  /\ Running
  /\ LET e == frame.entry_mapping[h.idx]
     IN IF Resolves(frame, h) /\ e.alive THEN State!Write(e.key, v) ELSE State!StaleHandle
  /\ SetFrame(Changed(frame))

(* Hand out iterator i: an index into iterators. *)
GiveIterator(f, i) ==
  [f EXCEPT !.iterators = Append(@, i),
            !.iterHandles = @ \cup {[counter |-> f.counter, idx |-> Len(f.iterators) + 1, iter |-> i]}]

iterator(i, p) ==
  /\ Running
  /\ Len(frame.iterators) < MaxEntries
  /\ State!Iter(i, p)
  /\ SetFrame(IF ret' = "Ok" THEN GiveIterator(frame, i) ELSE frame)

(* The handle finds an iterator that was not deleted. *)
FindsIterator(f, h) ==
  h.counter = f.counter /\ h.idx \in DOMAIN f.iterators /\ f.iterators[h.idx] # None

iterator_next(h) ==
  /\ Running /\ HasRoom
  /\ LET i == frame.iterators[h.idx]
     IN IF FindsIterator(frame, h)
        THEN /\ State!Next_(i)
             /\ SetFrame(IF ret' = "Key"
                         THEN GiveEntry(frame, CHOOSE k \in iters'[i].given \ iters[i].given : TRUE)
                         ELSE frame)
        ELSE State!StaleHandle /\ SetFrame(frame)

iterator_delete(h) ==
  /\ Running
  /\ IF FindsIterator(frame, h)
     THEN /\ State!DeleteIter(frame.iterators[h.idx])
          /\ SetFrame([frame EXCEPT !.iterators[h.idx] = None])
     ELSE State!StaleHandle /\ SetFrame(frame)

-----------------------------------------------------------------------------
(* Calls, interrupts and responses.                                        *)

(* Mutant of migrate: the lists are cleared, and old handles are not told   *)
(* apart from new ones.                                                    *)
MigrateSameCounter(f, updated) ==
  [f EXCEPT !.entry_mapping = IF updated THEN <<>> ELSE @,
            !.iterators = IF updated THEN <<>> ELSE @,
            !.changed = FALSE]

(* InstanceState::migrate. *)
migrate(f, updated) ==
  [f EXCEPT !.counter = IF updated THEN @ + 1 ELSE @,
            !.entry_mapping = IF updated THEN <<>> ELSE @,
            !.iterators = IF updated THEN <<>> ELSE @,
            !.changed = FALSE]

(* What the scheduler learns when a section of a call ends: the state of   *)
(* the instance has changed since the call started.                        *)
Dirty(f) == f.dirty \/ f.changed

(* The response takes an index in the list of parameters when it has data. *)
(* With too many of them the call fails.                                   *)
Respond(f, data) ==
  IF ~ data THEN f
  ELSE IF f.parameters > MaxParameters THEN [f EXCEPT !.trapped = TRUE]
  ELSE [f EXCEPT !.parameters = @ + 1]

resume_receive(f, updated, data) ==
  Respond(migrate([f EXCEPT !.dirty = Dirty(f) \/ updated, !.before = None], updated), data)

(* The call from the transaction.  The state was thawed just before, and   *)
(* the first generation is used as it is.                                  *)
call_receive ==
  /\ frames = <<>>
  /\ frames' = <<Frame(1)>>
  /\ UNCHANGED stateVars

(* Mutant of call_again: the callee works in the generation of its caller. *)
call_again_shared ==
  /\ Running
  /\ Depth < MaxDepth
  /\ frames' = Append(Front(frames), [frame EXCEPT !.before = State!map]) \o <<Frame(Len(gens))>>
  /\ UNCHANGED stateVars

(* An interrupt that calls the same instance again. *)
call_again ==
  /\ Running
  /\ Depth < MaxDepth
  /\ State!NewGeneration
  /\ frames' = Append(Front(frames), [frame EXCEPT !.before = State!map]) \o <<Frame(Len(gens) + 1)>>

(* An interrupt that leaves the state of this instance alone: a transfer,  *)
(* a query, a call to another contract that does not call back.            *)
interrupt(data) ==
  /\ Running
  /\ SetFrame(resume_receive(frame, FALSE, data))
  /\ UNCHANGED stateVars

(* A nested call succeeds.  If it changed the state then its caller goes   *)
(* on in the generation of the callee, otherwise in its own.               *)
return_success ==
  /\ Running
  /\ Depth > 1
  /\ frames[Depth - 1].counter < MaxCounter
  /\ LET caller == frames[Depth - 1]
         to == IF Dirty(frame) THEN [caller EXCEPT !.gen = frame.gen] ELSE caller
     IN /\ frames' = Append(SubSeq(frames, 1, Depth - 2), resume_receive(to, Dirty(frame), TRUE))
        /\ IF Dirty(frame) THEN UNCHANGED stateVars ELSE State!Normalize(caller.gen)

(* A nested call rejects (then there is data in the response), traps or    *)
(* runs out of energy.  get_inner forgets its generations.                 *)
return_failure(data) ==
  /\ Depth > 1
  /\ State!Normalize(frames[Depth - 1].gen)
  /\ frames' = Append(SubSeq(frames, 1, Depth - 2), resume_receive(frames[Depth - 1], FALSE, data))

(* The transaction ends with the outermost call. *)
commit ==
  /\ Running
  /\ Depth = 1
  /\ State!Freeze
  /\ frames' = <<>>

(* The outermost call fails, or the energy of the transaction is used up   *)
(* in any of them.                                                         *)
abort ==
  /\ frames # <<>>
  /\ State!Discard
  /\ frames' = <<>>

(* Every handle a call was ever given, by whichever call: a contract can   *)
(* keep them in its memory, and pass them around as parameters.            *)
AllHandles == UNION {frames[d].handles : d \in DOMAIN frames}
AllIterHandles == UNION {frames[d].iterHandles : d \in DOMAIN frames}

Continue ==
  \/ call_receive
  \/ call_again
  \/ \E data \in BOOLEAN : interrupt(data) \/ return_failure(data)
  \/ return_success
  \/ \E k \in Keys : lookup_entry(k) \/ create_entry(k) \/ delete_entry(k)
  \/ \E k \in Keys : delete_prefix(k) \/ delete_prefix_out_of_energy(k)
  \/ \E h \in AllHandles, v \in Values : entry_write(h, v)
  \/ \E i \in Iters, k \in Keys : iterator(i, k)
  \/ \E h \in AllIterHandles : iterator_next(h) \/ iterator_delete(h)

Next ==
  \/ steps < MaxSteps /\ Continue /\ steps' = steps + 1
  \/ (commit \/ abort) /\ steps' = 0

Spec == Init /\ [][Next]_vars

-----------------------------------------------------------------------------

(* Calls are nested like the generations they work in, and the running one *)
(* works in the newest.                                                    *)
FramesFollowGenerations ==
  /\ \A d \in DOMAIN frames : d > 1 => frames[d - 1].gen < frames[d].gen
  /\ frames # <<>> => frame.gen = State!Top

(* A handle of the running call that the host accepts means the key it was *)
(* given out for, and that key is there: entry_write, entry_read and the   *)
(* like never touch another entry, whatever happened to the state between. *)
EntryHandlesMeanTheirKey ==
  Running => \A h \in frame.handles :
     LET e == frame.entry_mapping[h.idx]
     IN Resolves(frame, h) => e.key = h.key /\ (e.alive => e.key \in DOMAIN State!map)

(* An iterator handle of the running call that the host accepts leads to   *)
(* the iterator it was given out for, and that one is of the current       *)
(* generation: advancing it walks the tree of this generation, deleting it *)
(* releases its own lock, and no two slots share an iterator.              *)
IteratorSlotsAreLive ==
  Running =>
    /\ \A h \in frame.iterHandles : FindsIterator(frame, h) =>
         frame.iterators[h.idx] = h.iter /\ State!Usable(h.iter)
    /\ \A j, l \in DOMAIN frame.iterators :
         frame.iterators[j] # None /\ frame.iterators[j] = frame.iterators[l] => j = l

(* Handles of both kinds mean what they were given out for, or are refused. *)
HandlesMeanTheirKey == EntryHandlesMeanTheirKey /\ IteratorSlotsAreLive

(* A caller that is told that the state was not updated finds the map it   *)
(* left, whether the call it made failed or succeeded without changes, and *)
(* may go on with its handles.                                             *)
FindsWhatItLeft ==
  /\ Depth' < Depth /\ Depth' > 0
  /\ frame'.counter = frames[Depth'].counter
  => State!map' = frames[Depth'].before
NotUpdatedMeansSame == [][FindsWhatItLeft]_vars

(* What a nested call did is kept when it succeeds: the caller finds the   *)
(* map that the callee left.  The scheduler drops the generation of a call *)
(* that reports no change, so every operation that changes the state has   *)
(* to be reported, also one in a section before an interrupt.              *)
CalleeChangesStay == return_success => State!map' = State!map
SuccessKeepsChanges == [][CalleeChangesStay]_vars
=============================================================================
