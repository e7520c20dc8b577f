# TLA+ models of concordium-base

`concordium-base` is the library below the Concordium node, its wallets and its
identity providers. This directory models what in it has state, protocol or
algorithm worth arguing about: the engine for smart contracts and the trees it
keeps their state in, the Wasm tool chain, contract schemas, transactions and
governance updates, identities and the proofs about them, and the identity
provider service. TLC checks the models on small instances, TLAPS proves the
properties of the core for every instance.

## 1. The system

### 1.1 Inventory

| component | state it keeps | operations | hard behaviour |
|---|---|---|---|
| `PrefixesMap` (`trie/low_level.rs`) | counts of iterators per key prefix, as a trie | insert, delete, check_has_no_prefix, is_or_has_prefix | shared prefixes, pruning, full counts |
| `MutableTrie` (`trie/low_level.rs`) | arenas of nodes, entries, values; a stack of generations with root, checkpoint and locks | insert, delete, delete_prefix, get_entry, iter, next, new_generation, normalize, freeze | copy on write, path compression, truncation, iterators that outlive changes, energy that runs out half way |
| persistent tree (`CachedRef`, `Hashed`, `Link`) | nodes in memory, on disk or both, shared by trees | store_update, load, cache, migrate, serialise, thaw | links replaced while others read, order of references |
| `MutableState` (`trie/api.rs`) | a shared trie with a generation number | thaw, get_inner, make_fresh_generation, clone, freeze, drop | handles that share a trie, implicit rollback |
| `InstanceState` with invoke and resume (`v1/`) | instance counter, tables of entries and iterators, the changed flag, saved hosts | state host functions, interrupt, resume, return | re-entrancy, stale handles, success and failure of nested calls |
| host of V1, host of V0 (`v1/mod.rs`, `v0/mod.rs`) | memory, energy, logs, return value, flat state, tree of actions | some 60 host functions | bit encodings, limits, unchecked stacks |
| Wasm (`wasm-transform`) | a module, its artifact; stacks of the validator and the compiler; frames and registers | parse, validate, meter, compile, run, resume | a compiler from a stack to registers, energy around jumps |
| schemas (`schema.rs`, `schema_json.rs`) | none | JSON to bytes and back, templates, finding a schema in a module | two tables of types that must agree, traces of errors |
| transactions (`transactions.rs`) | keys of accounts and wallets | build, price, sign, encode, decode, verify | thresholds on two levels, counts of one byte, keys that change under way |
| chain updates (`updates.rs`, `UpdateQueues.hs`) | keys, thresholds, queues by effective time | sign, submit, enqueue, process | stale indices, superseded updates |
| encrypted balances (`encrypted_transfers`, `Accounts.hs`) | own and incoming amounts, an index | transfer, aggregate, decrypt | transfers under way, chunks that overflow |
| identities (`id/`) | what each party holds | request, sign, make and verify credentials, share, revoke, recover | wrong shares, relayed messages |
| presentations (`web3id/`, `id/id_prover.rs`) | transcripts | prove, link, verify | replay, mixing of proofs |
| proof systems (`sigma_protocols`, `bulletproofs`) | none | prove, verify | algebra with signs, orders, padding |
| identity provider service | a database of files, a table of pending submissions | validate, issue, follow up, retrieve, restart | concurrent handlers, crashes, a proxy that fails |
| genesis and query types, wallets, command line tools, bindings | none of their own | input and output | - |

`PROJECT.json` has the same list with sources, status and reasons, and the
hazards: the lines at which something can go wrong that a test hardly reaches.

### 1.2 How the components interact

A transaction is signed by a wallet, encoded, decoded and verified by the node
(`Transactions`), and may call a contract. The scheduler (outside of this
repository) holds a `MutableState` for the instance (`MutableStateApi`) and
passes it to `call_receive_v1`, which makes a fresh generation of the
`MutableTrie` and runs the compiled and metered module (`WasmMachine`,
`WasmMetering`) with a host (`HostV1`). Host functions look up
entries and make iterators, on which locks are kept (`PrefixesMap`), and give
the contract *handles*. An `invoke` interrupts the contract; the same instance
may be called again in a new generation, and is then resumed with a response
and the news whether its state changed (`ContractExecution`). At the end the
trie is frozen into a persistent tree, which shares what did not change with the
old one, and which is hashed, stored and loaded again (`PersistentTrees`).
Contracts describe their parameters with schemas that are embedded in the module
(`SchemaModules`, `SchemaValues`). Accounts are made from identities: a holder asks
an identity provider (`Identity`, and `IdentityProviderService` for the service
that does it), makes credentials, and proves statements about attributes
(`Presentations`, `AgeStatements`) with `SigmaProtocols` and `Bulletproofs`, which
`EncryptedTransfers` uses too. Chain parameters change by signed updates
(`ChainUpdates`, `ChainParameters`).

## 2. Modules

| module | models | composed from |
|---|---|---|
| `KeyOrder` | prefixes, order of iteration, nibbles of a key | - |
| `PrefixesMap`, `IteratorLocks` | `PrefixesMap` as a value, and its life | `KeyOrder` |
| `ContractState` | **abstract specification**: a stack of maps with locks and iterators | `KeyOrder` |
| `LowLevelTrie`, `MutableTrie` | `MutableTrie` as a value (five arenas), and executions on it; implements `ContractState` | instances of `PrefixesMap`, `ContractState` |
| `ContractExecution` | calls, interrupts, handles and rollback of one instance | instance of `ContractState` |
| `MutableStateApi` | handles to shared tries | - |
| `PersistentTrees` | trees in memory and on disk that share nodes | - |
| `HostV0`, `HostV1` | the host functions of both versions | - |
| `WasmValidation` | the control stack and operand stack of the validator; **reference**: what a body means by the rules of Wasm | - |
| `WasmMachine` | the compiler to registers, and the machine that runs its code | `WasmValidation` |
| `WasmMetering` | the insertion of energy charges, compared with the costs of the reference | `WasmValidation` |
| `WasmNumeric` | instructions on numbers and memory against their definition in Wasm | - |
| `WasmModules` | sections: parsing, validation, instantiation, packaging | - |
| `SchemaValues`, `SchemaModules` | values and their JSON; module schemas and how they are found | - |
| `Transactions` | account transactions from wallet to verification | - |
| `ChainUpdates`, `ChainParameters` | governance; decimals that become parameters | - |
| `EncryptedTransfers` | encrypted balances | `GroupArithmetic` |
| `Identity`, `Presentations`, `AgeStatements` | identities, proofs about attributes, dates | - |
| `GroupArithmetic`, `SigmaProtocols`, `Bulletproofs` | the algebra of the proof systems | - |
| `IdentityProviderService` | the service with its database, handlers and crashes | - |
| `*_proofs` | theorems about the module they are named after | that module; `MutableTrie_proofs` also `LowLevelTrie_proofs` |
| `MC*` | instances for TLC | all of the above |

Operators keep the names of the functions they translate. An operator marked
*Mutant of X* is X with one plausible mistake; it is used nowhere in the models.
Replacing X by it has to break the property that `PROJECT.json` names with it,
which shows that the property depends on that piece of code.

Where the state and the abstractions need a word:

**PrefixesMap.** A slab of nodes is a function from paths to counts; `None` in a
node is 0, a map without root is the empty function. `Pruned` is the set of nodes
that the back-up loop of `delete` removes.

**LowLevelTrie, MutableTrie.** The record has the five vectors of the code;
children are `Borrowed` from the persistent tree or `Owned` by a generation.
`Walk` is the loop that five operations share. `maps` and `saved` are history: the
maps that generations stand for, computed with what a contract can call only.

**ContractExecution.** `frames` is the stack of calls, each with the tables of its
`InstanceState` and a history of the handles it was given. The trie is replaced by
`ContractState`, which it implements. The scheduler is external: it resumes a
caller in the generation of a callee that succeeded and changed the state, and in
the caller's own generation otherwise, as `resume_receive_v1` documents.

**MutableStateApi.** A generation holds one opaque value. `expected`, `from` and
`valid` are history. A handle stops being valid when its generation is rolled
back or its trie is frozen through another handle; the scheduler does not use
such handles (`MayUse`): `normalize` does nothing for a generation that does not
exist, and the operation would silently work on an older one.

**PersistentTrees.** Trees of a fixed shape of four nodes. `store` has one record
per stored node, `mem` the cells that links point to; `jobs` are stores under way,
one step per iteration of `store_update_buf`. Hashes are terms, writes succeed,
memory is not reclaimed. The run stores from one thread, as the node does: operations
follow each other, and what two threads do to a shared node is in 3.2.

**HostV0, HostV1.** Costs, limits and the widths in words are scaled and named.
`work`, `told`, `history` and `heard` are history of what was paid, handed out and
shown; `work.asked` is the window of memory that the call under way named, in both
versions, against which `MemoryOutsideIsUntouched` holds what was written.

**Wasm.** A body is built one opcode at a time, so that validator, metering and
compiler see every body over a set of opcodes up to a length. Numbers are taken
modulo a small number in bodies, and bytes of one bit in `WasmNumeric`.

**SchemaValues.** A byte has eight values, `MAX_PREALLOCATED_CAPACITY` and the
chunk of a long string are two bytes (seven in the part `bytes`, where long strings
are not the question).

**Transactions.** Bytes are typed tokens, a count of one byte has four values,
signatures are ideal, one transaction is in flight.

**ChainUpdates.** Signatures are ideal, shares add up to 4 instead of 100000, the
clock runs to 2.

**Identity, Presentations.** Scalars modulo 7; proofs, commitments and signatures
are ideal: a proof is accepted when it was made for the same statement in the same
transcript, or the witness is known. One identity in a behaviour; a dishonest
holder chooses sharing polynomials, chunks and claims, and edits messages. The
identity provider zips the shares of the PRF key with the range proofs it was sent and
does not compare their numbers; the holder may send fewer, and the shares without a
proof are then not range checked (`RangeChecked`). What came of a recovery is recorded
beside what came of a request and of a credential.

**SigmaProtocols, Bulletproofs.** Groups are the exponents modulo a small prime, or
vectors over independent generators; the oracle has no collisions. The verifiers
of `dlogaggequal` and `vcom_eq` do not compare the number of responses, and neither
do the models.

**IdentityProviderService.** An action is what happens under one lock or around
one await. `disk` has the files below root and backup_root; a crash may leave a
file created and not written. Writes and removals of files may fail; a removal that
fails is only logged, after the entry of the table has gone. `reply` keeps only what a wallet was told about its
identity.

## 3. What is checked

A run has several *parts*: instances of one or more components with their own
constants, of which a behaviour chooses one. The parts of a run are the constant
`Parts` of its configuration. `MCMutableTrie`, `MCCalls`, `MCHosts` and `MCPersistence`
extend the component whose properties are proved in section 4 (`MutableTrie`,
`ContractExecution`, `MutableStateApi`, `IdentityProviderService`), so that TLC checks the very formulas
of the theorems; the constants in their configurations are the largest that any
part uses. `fresh_generation` runs `MutableStateApi` as it is.

| run | parts and bounds | properties |
|---|---|---|
| `iterator_locks` | six keys, the empty one too, that extend and branch off each other; counts up to 2 | `NodesAreLivePaths`, `PointLockExact`, `SubtreeLockExact`, `SuccessIffCounted` |
| `contract_state` | three keys, one above the other two; two iterators; a count of 1; two generations | `TypeOK`, `LocksCounted`, `IteratorSeesSnapshot`, `IterationInOrder` |
| `trie` | `structure`: a fork at a low nibble and a key beside it; `generations`: three of them, two values, an entry id kept; `iterators`: one over three keys; `lock_limit`: two over one root with a count of 1. 4 operations on the empty tree, then on what was frozen | `ImplementsContractState` (the refinement), `FreezeIsCanonical`, `EntryIdsDenoteTheirKey`, `EntryDiesWithItsKey`, `CheckpointsCoverOlderGenerations` |
| `calls` | `nested`: three calls deep, one key, two values, 10 steps; `shared`: two calls with two entries and two iterators, two keys, 7 steps | `FramesFollowGenerations`, `HandlesMeanTheirKey`, `NotUpdatedMeansSame`, `SuccessKeepsChanges` |
| `persistence` | `store`, `copies`, `migration`: two handles on trees of four nodes, one thread, up to 7 records; `polling`: two handlers, a proxy that fails once; `crashes`: also one crash at any point with torn files; `failures`: one handler, two failures of anything, removals of files too, one crash | `TreesKeepTheirContents`, `StoredTreesLoad`; `PendingSurvivesRestart`, `RevocationRecordFirst`; `WorkEnds` (liveness) |
| `wasm` | `straight`, `jumps`, `results`, `calls`, `memory`: all bodies of 7 or 8 opcodes over ten of them each; `metered_branches`, `metered_memory`: the same for metering; `numbers`: sequences of four of 34 instructions on nine values; `tables`, `memories`, `exports`: up to seven sections of a dozen | `ComputesTheMeaning`, `CodeIsWellFormed`, `MeteringIsExact`, `ArtifactIsAsDeclared` |
| `hosts` | `v0_state`, `v0_actions`: three calls with arguments around the limits; `v1_interrupts` (two of all ten interrupts with their responses), `v1_sequences` (three of a transfer, a call, a query and an upgrade), `v1_words`, `v1_output`, `v1_calls`: up to four calls and resumptions, indices and handles of one to three bits; `handles`: three handles of contract states, three tries, two generations | `WordsAreUnderstood`, `HostKeepsAccount`, `MemoryOutsideIsUntouched`; `ValidHandlesFindTheirState`, `FreezeKeepsContents` |
| `chain` | `json`, `bytes`: every constructor of types at the edges of its width and nested twice, and all short sequences of bytes; `modules`: schemas of two contracts in four versions; `transactions`: all kinds of payload, schedules within the count of one byte, wallets with all, some or outdated keys; `rates`, `keys`: two updates with overlapping and changing keys; `decimals` | `WrittenIsUnderstood`, `TraceLeadsToCause`, `AcceptedIsAuthorised`, `AuthorisedIsServed` |
| `proofs` | `logs`, `commitments`, `enc_trans`, `enc_trans_short`: fifteen protocols over groups of order 3 and 5; `ranges`, `sets`: two-bit ranges, six sets, order 11; `transfers`: two accounts, three units of money | `HonestProofsVerify`, `AcceptedProofsBind` |
| `identity` | `sharing`: polynomials of any degree, shares of any chunks, range proofs for all or some revokers; `signed`: any claims; `relay`: two destinations, providers and expiries, recoveries, a signing key too short for two attributes; `forged`, `honest`, `identity`: two messages of two holders; `ages`: statements of age and of expiry over five years of three days, birthdays left out | `AcceptedIsGenuine`, `RevocationIsExact`, `HonestSucceeds` |
| `fresh_generation` | two handles | `FreshGenerationIsolated`, violated: see 3.2 |
| `wasm_preserve` | bodies of four opcodes around a conditional | `ComputesTheMeaning`, violated: see 3.2 |

Why the bounds are enough. Every case of `follow_stem`, every branch of `insert`
and `delete`, and collapsing from below a father and a grandfather, occur with a
fork of three keys and a key beside it. Copy on write needs a generation that is
copied from, one copied to, and one above for a rollback over two. The first execution
starts from the empty state, as that of a new contract does. `Freeze` and `Discard`
start a new one on the persistent tree, so `MaxSteps` bounds what happens between two
such points and not the history: all trees over the keys are reached. In the
Wasm parts all cases of the compiler and the metering transformation fire with the
opcodes of a part, and seven opcodes allow a jump out of two nested blocks over
code that writes. The other bounds are chosen so that values fall on both sides of
the limits that a part is about and on the limit itself, but for the inputs that the
table in 3.2 lists: those the passing runs leave out.

Deadlock is checked where the system can always go on; in the suites whose parts
come to an end (a body that was run, a transaction that was judged) it is not.

### 3.1 Fairness

`WorkEnds` has two parts. A thread that stores a tree goes on (weak fairness of
its step: the loop of `store_update_buf` waits for nobody). For the identity
provider service: a handler that is served runs to its end (weak fairness, the
runtime polls ready tasks), the chain finalizes what it received (weak, external),
and the wallet polls again and again and is served infinitely often if it can be
(strong: two handlers are busy with other requests in between). Nothing else is
assumed: no request has to arrive and no failure has to happen.

### 3.2 Where code and documentation disagree

Two runs show a violation.

* `fresh_generation`: `make_fresh_generation` (`trie/api.rs`, 452-455) says that
  changes to the fresh generation are not seen in the current one. A handle that
  was not thawed yet is thawed and cloned, and they are. The caller in `ffi.rs`
  does not rely on it: the state of a first call that fails is discarded as a whole.
* `wasm_preserve`: `local.set` of a local that is still an operand copies the old
  value to a register where it stands; inside an `if` the copy is skipped on the
  other path, on which the register is read all the same (`artifact.rs`, 1464).

Others can be seen by giving `Parts` of a run the value on the left; the passing
runs leave these inputs out.

| run, part | violated | disagreement |
|---|---|---|
| `wasm`, `br_if_return` | `ComputesTheMeaning` | `br_if` to the end of a function copies its operand to local 0 before the condition is tested (`artifact.rs`, 996) |
| `wasm`, `rem_s` | `ComputesTheMeaning` | `rem_s` traps for the smallest number and -1; the specification tests under `testdata` say 0 (`machine.rs`, 1216) |
| `wasm`, `dotted` | `ArtifactIsAsDeclared` | the name `init_a.b` is accepted with any type and listed as a receive method (`v1/types.rs`, 672) |
| `hosts`, `v1_upgrade` | `HostKeepsAccount` | an upgrade is missing in the trace and its energy in the summary (`v1/mod.rs`, 1677) |
| `chain`, `map_trace` | `TraceLeadsToCause` | the trace of an error in a map starts at its entry (`schema_json.rs`, 709) |
| `chain`, `long_string` | `WrittenIsUnderstood` | a long string followed by other data is not read back (`schema_json.rs`, 2539) |
| `chain`, `duration` | `WrittenIsUnderstood` | large measures of a duration wrap around (`types.rs`, 1029) |
| `chain`, `timestamp` | `WrittenIsUnderstood` | the largest timestamps are shown as dates that are refused (`types.rs`, 876) |
| `chain`, `later_payload` | `WrittenIsUnderstood` | unknown bits of ConfigureBaker are ignored, so the two forms of a transaction have different hashes (`transactions.rs`, 1216) |
| `chain`, `long_schedule` | `WrittenIsUnderstood` | the number of releases is written in one byte (`schedule.len() as u8`, `transactions.rs`, 991 and 1030), so a schedule longer than that is written with a count that wrapped around |
| `identity`, `exact_key` | `HonestSucceeds` | a key of exactly the length needed signs an identity (`identity_provider.rs`, 605) from which no credential can be made (`account_holder.rs`, 987) |
| `identity`, `birthdays` | `HonestSucceeds` | on a birthday the statements about ages are not what their documentation says (`id_proof_types.rs`, 344, 371, 399) |
| `persistence`, `two_threads` | `StoredTreesLoad` | two threads that store trees with a common node mix up references of children (`low_level.rs`, 1690); the node stores from one thread |
| `persistence`, `migrate_shared` | `TreesKeepTheirContents` | migrating redirects the links of the tree that is migrated (`low_level.rs`, 1779); the node drops that tree |

Seen while modelling, without a formula here: the identity object is served as
final between its being written and its submission (`main.rs` of the service, 1353);
two creations for one idCredPub can leave a record of the other request (1305);
`delete_all` moves files to directories nobody creates (511); `get_error` does not
advance (`schema_json.rs`, 57); the size announced for LEB128 numbers is too small
(1441) and unknown members of a contract address are ignored (614); the allocation
for the URL of a protocol update tests the length of the message (`updates.rs`, 70),
and `update_type` names the signing level (753); `num_keys` announces thresholds
and not signatures (`transactions.rs`, 1407); ranges longer than 2^64 are
proved and refused (`range_proof.rs`, 746); a request with fewer range proofs than
revokers is accepted, and a share without one need not decrypt
(`identity_provider.rs`, 301); a `remove_file` that fails leaves a file that says
pending while the table does not (`main.rs` of the service, 492 and 520); the energy of
instructions is never put in the trace (`v1/mod.rs`, 1530).

## 4. What is proved

TLAPS checks every proof in `IteratorLocks_proofs`, `LowLevelTrie_proofs`,
`MutableTrie_proofs`, `ContractState_proofs`, `ContractExecution_proofs`,
`MutableStateApi_proofs` and `IdentityProviderService_proofs`. A theorem holds for every value of the constants
that satisfies the named assumption of its module, which TLC evaluates on the runs:

| module | assumption |
|---|---|
| `IteratorLocks` | `MaxCountAssumption`, `KeysAssumption`: `MaxCount` is positive (a `NonZeroU32` in the code); keys are sequences of naturals, any set of them, also infinite |
| `ContractState` | the same, and that the names for iterators are finitely many |
| `MutableTrie` | `KeysAssumption`: keys are sequences of naturals, finitely many; `GenerationsAssumption`: `MaxGenerations` is a natural number |
| `ContractExecution` | `ExecutionAssumption`: the same; a new entry has a value; `None` is no iterator and no state of one |
| `MutableStateApi` | `HandlesAssumption`: finitely many handles and tries, one trie for each handle (`Arc::new` never runs out); `None` is no handle |
| `IdentityProviderService` | `NoneAssumption`: `None` is none of the values it stands beside, nor the content `"Torn"` of a file |

The other bounds that keep TLC's state space finite (`MaxDepth`, `MaxEntries`, `MaxSteps`,
`MaxCrashes`, ...) are constants without any assumption: the theorems hold whatever
they are. Nothing is assumed of `None` and `Empty` in the trie.

**IteratorLocks.** The properties about counts and nodes are inductive only
together: that `delete` prunes the right nodes depends on nodes being exactly
the prefixes of locked keys, which in turn is what pruning has to preserve. The
inductive invariant is `TypeOK` with `NodesAreLivePaths`; both lock checks follow from
it without further induction (`IInvPointLockExact`, `IInvSubtreeLockExact`), and so
does `SuccessIffCounted`, an action property: `insert` fails exactly at a full count,
`delete` finds a count exactly when an iterator is there. The
core of the argument is that after the last iterator on `k` is gone, the nodes
that `Pruned` names are the prefixes of `k` that no other locked key extends:
from the end of the key upwards, as long as the only child is on the path.

**ContractState.** The inductive invariant is `TypeOK`, `LocksCounted`,
`IteratorSeesSnapshot`, `IterationInOrder` and the fact that iterators live in
generations that exist. A key below a live iterator is below a locked root
(`LiveIsLocked`, from `LocksCounted`), so a step that changes the map of the top
generation outside of the locked areas keeps every snapshot (`MapStep`).
`delete_prefix` needs that two prefixes of one key are comparable
(`PrefixesComparable`). Rollback needs that generations below the top do not
change. Order follows because the iterator takes the least remaining key.

**MutableTrie.** The trie of `low_level.rs` keeps all generations in the same vectors and
copies a node only when a later generation touches it; that a rollback may simply
truncate the vectors rests on who points where. `CheckpointsCoverOlderGenerations` is
not inductive: splitting and collapsing nodes must not leave a pointer to the slot
that was emptied, nor make two parents of one node. The inductive invariant (`Inv`,
with `TrieInv` for the trie) says, for every generation `g`, which reaches from its
checkpoint to its limit (the checkpoint of the next one, or the ends of the arenas):

* `Covered`: all nodes and entries below the limit are well formed and point below it;
* `OwnPart`: what lies above the checkpoint is the generation's own. A node there has
  values of this generation only; its children are of this generation if it owns them,
  and lie below the checkpoint, or are still borrowed from the persistent tree, if not;
  a mutable entry there has a value of its own, so no write reaches an older value;
* `Forest`: the nodes that own their children form a forest. Each is in at most one
  list of children, at one place, and the root is in none (`up` and `pos` are the
  witnesses); a node that was made current has children that were;
* `Ordered`: checkpoints increase; and entry ids, iterators with their stacks, and the
  persistent tree (`WellFormed`) stay within their generation.

An operation changes the current generation only. `Good(t, u)` says so (the invariant
and a frame), and `GoodIntro` shows that only the invariant of the current generation is
left to prove; good steps compose (`GoodThen`). `LowLevelTrie_proofs` has the steps that
operations are made of: new entries and values, new leaves, lists of children, `WrapGood`
(a stem is split), `CollapseGood` (a node is replaced by its only child), `MakeOwnedGood`
(children are thawed or copied). `MutableTrie_proofs` has the operations: the walk, where
the trail from the root is a path without repetition (`TrailOK`), `insert`, `delete`,
`delete_prefix` also when energy runs out at any point, `iter`, `next`, `new_generation`,
`normalize`, `freeze` and thawing, then one lemma for each action. Loops are recursive
functions of the number of rounds; what holds after `n` rounds is shown by least
counterexample (`LeastNat`). From `Inv` follow

* `CheckpointsCover`: truncation removes nothing that an older generation needs;
* `OlderGenerations`, an action property: a generation that a step finds below the
  current one, or leaves below it, keeps its root, its locks, and every node, entry and
  value. With `normalize` this is the rollback of a failed call;
* `IndicesAreValid`: no index leaves its arena. `make_owned` uses `get_unchecked`, and
  the comment there says that the node was looked up before.

**ContractExecution.** Four properties of calls nested to any depth. None is inductive
by itself; `Inv` is the conjunction of

* `TypeOK`;
* `Nested`: the generations of the calls increase along the stack, and the running
  call has the newest;
* `BeforeIsKept`: the map that an interrupted caller left (`before`) is still the
  map of its generation, since calls above it work in later ones only;
* `ChangesAreReported`: a call whose `dirty` and `changed` flags are both unset has
  the map its caller left. This is what makes it right to drop its generation when
  it succeeds, and it has to be carried over every host function, over failures of
  calls further up and over interrupts, which clear `changed`;
* `FramesMean`: for each call, a handle with the current counter points to a slot
  with its own key or iterator, a slot that is alive has its key in the map of
  that generation, a slot of an iterator has an iterator of that generation and no
  two slots share one.

The counter decides: `migrate` clears the tables exactly when it increments it, so an
older handle has a smaller counter (`HandlesMeanTheirKey`), and an unchanged counter
means that the state was not updated (`NotUpdatedMeansSame`).
`ExecutionUsesState` is a refinement: every step of an execution is, on the state, a
step of `ContractState` or nothing. `IterationUnderCalls` uses it to carry the theorems
of `ContractState_proofs` over to executions: under re-entrant calls, rollback and
energy that runs out, locks stay counted and iterators give out their snapshot in
order.

**MutableStateApi.** The inductive invariant says of every valid handle that its
generation exists in its trie and holds what the owner expects, or that its persistent
state does while it is not thawed (`Consistent`, `Finds`). Newer generations may lie
on top: `get_inner` drops them, and their handles lose `valid` in the same step.
Thawing takes a trie that no handle uses; that there is one is counted from
`HandlesAssumption`. `FreezeKeepsContents` follows: what is frozen is what `get_inner`
finds.

**IdentityProviderService.** `PendingSurvivesRestart` has two directions. With failures
of any kind and crashes between any two steps, an entry of the table of pending submissions
has its file, so a restart finds it again, or refuses to start when the file was torn:
the file is written before the entry is made, and the entry goes before the file. The converse, that a file that says
pending has its entry, holds unless a removal of a file failed, which the code only
logs (`main.rs`, 492 and 520): the file is then left behind until it is overwritten or
a restart takes it up again. The inductive invariant counts failures (`Counted`,
`FailuresCount`): none is forgotten, so a step that meets one cannot use the converse
afterwards. `RevocationRecordFirst` needs an invariant about handlers: one that is about to
write an identity object can rely on a revocation record of its holder that is whole,
or was moved to the backup with nothing in its place since (`RecordBeforeIdentity`,
`Traceable`); no step of any other handler takes it away. It is proved for writes that succeed
(`"write" \notin FailureKinds`): a failed write of *another* call for the same
identity empties the record this handler relies on, so the property does not hold for
two handlers with failing writes; the run has failing writes with one handler.

### 4.1 Only model-checked

* Liveness (`WorkEnds`): the prover has no rule for fairness.
* The refinement `MutableTrie => ContractState`, `FreezeIsCanonical`, `EntryIdsDenoteTheirKey`
  and `EntryDiesWithItsKey`: what a key finds, and which tree a map has, is defined by
  recursion over the key and the tree. What is proved of the trie is which nodes,
  entries and values exist, point to each other and change, not what they mean.
  Of persistent trees the proofs use that `freeze` makes well-formed ones, and nothing of
  their values.
* `PersistentTrees`, `WasmValidation`, `WasmMachine`, `WasmMetering`, `SchemaValues`,
  `SchemaModules`: their operators are recursive over syntax or trees, and the library's
  theorems for such an induction take an operator as parameter, which none of the
  installed provers can instantiate.
* The suites `hosts` (but for the handles), `chain`, `proofs` and `identity`. The algebra of the proof
  systems is over small fields, in which TLC tries all elements; hosts and chain have
  no unbounded state of which an invariant would be harder to see than to check.

## 5. What is not modelled, and why

* The scheduler, the consensus layer, the wallet proxy and the chain are outside of the
  repository; the models let them do what the documented interface allows.
* In `ContractExecution`: energy as a number (an operation may run out at any point
  instead), and the locks of a callee that `migrate` leaves to its dropped generation.
* `MutableTrie::set` and `pop_generation`, which the engine does not call; the packing
  of two nibbles into a byte, which `KeyOrder` replaces by sequences of nibbles.
* Elliptic curves, pairings, the VRF and hashing: `GroupArithmetic` has groups of
  small order, and hashes are free of collisions.
* Genesis and query types, wallets, command line tools and bindings: input and output
  over the modelled parts.

## 6. What is next

1. The forest of `MutableTrie_proofs` is that of the nodes a generation owns. Extended to
   the older nodes it still shares, it would show that `freeze` meets every node once,
   which its `unwrap` and its final assertion rely on; an entry id could then be tied
   to the one node that has it (`EntryIdsDenoteTheirKey`).
2. An inductive invariant for the queues and keys of `ChainUpdates`.
3. The memory windows of `HostV0` and `HostV1`.
4. `EncryptedTransfers`: money is conserved for any group; the sum over accounts has
   to be replaced by a ledger in the model first.
