------------------------------ MODULE MCHosts ------------------------------
(***************************************************************************)
(* Instances of the host functions of V0 and V1 contracts, and the handles  *)
(* of contract states that are passed to them (MutableStateApi).  A         *)
(* behaviour is that of one part: the use of handles, or an invocation      *)
(* whose code imports the functions that the part lists.  The variables     *)
(* that a part does not use stay as they start, or 0.                       *)
(***************************************************************************)
EXTENDS MutableStateApi

CONSTANT Parts     \* the parts of a run

ASSUME HandlesAssumption

VARIABLES
  part,
  kind, status, out,                                                                  \* both
  limit_logs, mem, state, energy, frames, logs, actions, result, calls, work, ops,    \* HostV0
  par, h, pending, outcome, heard, g                                                  \* HostV1

ofBoth == <<kind, status, out>>
ofV0 == <<limit_logs, mem, state, energy, frames, logs, actions, result, calls, work, ops>>
ofV1 == <<par, h, pending, outcome, heard, g>>
ofHosts == <<ofBoth, ofV0, ofV1>>

NoV0 ==
  /\ limit_logs = 0 /\ mem = 0 /\ state = 0 /\ energy = 0 /\ frames = 0 /\ logs = 0
  /\ actions = 0 /\ result = 0 /\ calls = 0 /\ work = 0 /\ ops = 0
NoBoth == kind = 0 /\ status = 0 /\ out = 0
NoV1 == par = 0 /\ h = 0 /\ pending = 0 /\ outcome = 0 /\ heard = 0 /\ g = 0

MAX_NUM_LOGS == 1
MAX_ACTIVATION_FRAMES == 1

-----------------------------------------------------------------------------
V0Parts == [
  v0_state |-> [energies |-> {5, 13}, calls |->
    {"load_state", "write_state", "resize_state", "log_event", "charge_memory_alloc", "get_init_origin",
     "get_receive_address", "get_parameter_section", "get_policy_section"}],
  v0_actions |-> [energies |-> {10}, calls |->
    {"accept", "simple_transfer", "send", "combine_and", "combine_or", "store", "log_event", "call",
     "get_number"}]]

V0(s) == INSTANCE HostV0 WITH
  Kinds <- {"init", "receive"}, Calls <- s.calls, MemLen <- 4, MAX_CONTRACT_STATE <- 4, MAX_LOG_SIZE <- 2,
  MaxParameterSize <- 2, AddrLen <- 2, U16 <- 16, Energies <- s.energies, Parameter <- <<2, 0, 1, 2, 1>>,
  Policies <- <<1, 2>>, CurrentState <- <<2, 1>>, Args <- {0, 1, 3}, Returns <- -1 .. 2, MaxCalls <- 3

-----------------------------------------------------------------------------
\* A memory that holds a well-formed call at its start, and a short one.
WithCall == <<0, 1, 1, 1, 0, 1>>
Short == <<1, 2, 0>>

Receive(calls_, protocols, memory, energies, args, tags, idxBits, handleBits, maxCalls, maxResumes) ==
  [kinds |-> {"receive"}, calls |-> calls_, protocols |-> protocols, memory |-> memory, energies |-> energies,
   args |-> args, tags |-> tags, idxBits |-> idxBits, handleBits |-> handleBits, maxCalls |-> maxCalls,
   maxResumes |-> maxResumes]

V1Parts == [
  \* Every interrupt and every response, with an index that soon does not fit;
  \* then longer sequences of a transfer, a call, a query and an upgrade.
  v1_interrupts |->
    [Receive({"invoke", "upgrade", "log_event"}, {4, 7}, WithCall, {20}, {0, 2, 6}, 0 .. 9, 1, 2, 2, 2)
       EXCEPT !.kinds = {"init", "receive"}],
  v1_sequences |->
    Receive({"invoke", "upgrade", "log_event"}, {7}, WithCall, {20}, {0, 2, 6}, {0, 1, 4}, 1, 2, 3, 2),
  \* Handles over several generations of the state.
  v1_words |->
    Receive({"upgrade", "state_lookup_entry", "state_iterate_prefix", "state_iterator_next"}, {7}, WithCall,
            {20}, {0}, {0}, 2, 3, 4, 4),
  v1_output |-> Receive({"write_output", "invoke"}, {4, 7}, Short, {24}, 0 .. 2, {4}, 2, 2, 3, 1),
  \* All functions but upgrade.
  v1_calls |->
    Receive({"write_output", "get_parameter_section", "log_event", "state_lookup_entry", "state_create_entry",
             "state_delete_entry", "state_delete_prefix", "state_iterate_prefix", "state_iterator_next",
             "state_iterator_delete", "state_iterator_key_size", "state_iterator_key_read", "state_entry_read",
             "state_entry_write", "state_entry_size", "state_entry_resize", "hash_sha2_256",
             "verify_ed25519_signature", "get_receive_entrypoint", "debug_print", "account_memory", "tick",
             "call", "invoke"}, {4, 7}, Short, {5, 14}, {0, 1, 3}, {4}, 2, 2, 2, 1),
  v1_upgrade |-> Receive({"upgrade", "log_event"}, {4, 7}, WithCall, {12}, {0, 1}, {0}, 2, 2, 2, 2)]

V1(s) == INSTANCE HostV1 WITH
  Kinds <- s.kinds, Calls <- s.calls, Protocols <- s.protocols, Memories <- {s.memory}, Parameter <- <<2, 0, 1>>,
  EntrypointName <- <<1, 1>>, Energies <- s.energies, Args <- s.args, Tags <- s.tags, Returns <- -1 .. 1,
  ResponseData <- {<<1>>, <<>>}, MAX_CONTRACT_STATE <- 2, MAX_LOG_SIZE <- 1, AddrLen <- 1,
  IdxBits <- s.idxBits, HandleBits <- s.handleBits, MaxCalls <- s.maxCalls, MaxResumes <- s.maxResumes

-----------------------------------------------------------------------------
InvocationInit ==
  \/ \E p \in Parts \cap DOMAIN V0Parts : part = p /\ V0(V0Parts[p])!Init /\ NoV1
  \/ \E p \in Parts \cap DOMAIN V1Parts : part = p /\ V1(V1Parts[p])!Init /\ NoV0
HandlesInit == "handles" \in Parts /\ part = "handles" /\ NoBoth /\ NoV0 /\ NoV1
HostsInit == Init /\ (InvocationInit \/ HandlesInit)

InvocationV0 ==
  \E p \in Parts \cap DOMAIN V0Parts : part = p /\ V0(V0Parts[p])!Next /\ UNCHANGED <<part, ofV1, vars>>
InvocationV1 ==
  \E p \in Parts \cap DOMAIN V1Parts : part = p /\ V1(V1Parts[p])!Next /\ UNCHANGED <<part, ofV0, vars>>
UseHandle == part = "handles" /\ Next /\ UNCHANGED <<part, ofHosts>>

HostsNext == InvocationV0 \/ InvocationV1 \/ UseHandle

HostsSpec == HostsInit /\ [][HostsNext]_<<part, ofHosts, vars>>

-----------------------------------------------------------------------------
\* The contract and the consensus layer understand each other through words and bytes: the
\* response to an interrupt, handles of entries and iterators, the outcome with its interrupt
\* or actions, and every log once and in order (v1/mod.rs resume_receive, types.rs to_bytes).
WordsAreUnderstood ==
  /\ \A p \in Parts \cap DOMAIN V0Parts :
       part = p => V0(V0Parts[p])!OutcomesAreTrees /\ V0(V0Parts[p])!ResultsAreReadBack
  /\ \A p \in Parts \cap DOMAIN V1Parts :
       part = p => /\ V1(V1Parts[p])!ResponsesAreUnderstood
                   /\ V1(V1Parts[p])!HandlesAreToldApart
                   /\ V1(V1Parts[p])!LogsAreReportedOnce
                   /\ V1(V1Parts[p])!ResultsAreReadBack

\* What the host keeps is what the calls say, and is paid for: the state and the return value
\* are the bytes written, the trace tells every call and its energy (where nothing is
\* upgraded), and each function finds the arguments it was checked to get (v0/mod.rs host,
\* v1/mod.rs host, trie/../types.rs validate_import_function).
HostKeepsAccount ==
  /\ \A p \in Parts \cap DOMAIN V0Parts :
       part = p => /\ V0(V0Parts[p])!StateIsWhatWasWritten
                   /\ V0(V0Parts[p])!WorkIsPaid
                   /\ V0(V0Parts[p])!ImportsFitTheStack
  /\ \A p \in Parts \cap DOMAIN V1Parts :
       part = p => /\ V1(V1Parts[p])!OutputIsWhatWasWritten
                   /\ V1(V1Parts[p])!ImportsFitTheStack
                   /\ p \in {"v1_calls", "v1_output", "v1_upgrade"} => V1(V1Parts[p])!TraceTellsTheStory

\* A host call changes the contract's memory only inside of the window it was asked to fill,
\* whatever the length of what is copied and the offset into it (get_parameter_section and
\* the other functions that copy, v0/mod.rs and v1/mod.rs).
MemoryOutsideIsUntouched ==
  [][/\ \A p \in Parts \cap DOMAIN V0Parts : part = p => V0(V0Parts[p])!MemoryOutsideIsUntouched
     /\ \A p \in Parts \cap DOMAIN V1Parts : part = p => V1(V1Parts[p])!MemoryOutsideIsUntouched]_<<part, ofHosts>>
===========================================================================
