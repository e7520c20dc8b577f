------------------------------ MODULE HostV1 ------------------------------
(***************************************************************************)
(* One invocation of a V1 contract as the consensus layer sees it           *)
(* (smart-contracts/wasm-chain-integration/src/v1): the code runs, is       *)
(* interrupted by calls, queries and upgrades, is resumed with a response   *)
(* packed into one word, and ends.  What the state functions do to the      *)
(* state is in ContractExecution; here they charge, check and touch memory. *)
(* Sizes, costs and the widths of the packed words are scaled down.         *)
(***************************************************************************)
EXTENDS Integers, Sequences, SequencesExt, FiniteSetsExt

CONSTANTS
  Kinds,            \* of "init" and "receive"
  Calls,            \* the host functions the code imports
  Protocols,        \* of 4 .. 7
  Memories,         \* what the memory may hold at the start
  Parameter, EntrypointName,
  Energies, Args, Tags, Returns, ResponseData,
  MAX_CONTRACT_STATE, MAX_LOG_SIZE, MAX_NUM_LOGS, MAX_ACTIVATION_FRAMES,
  AddrLen,          \* bytes of an account address (32) and of a module reference
  IdxBits,          \* 23: bits of an index into the parameters
  HandleBits,       \* 32: bits of each half of a handle
  MaxCalls, MaxResumes

VARIABLES kind, par, h, status, pending, outcome, out, heard, g

vars == <<kind, par, h, status, pending, outcome, out, heard, g>>

Bytes == 0 .. 2
Min2(a, b) == IF a < b THEN a ELSE b
KB == 16    \* the byte with the kind of a failure
CB == 8     \* the 32 bits of an error code

(***************************************************************************)
(* constants.rs, scaled.                                                    *)
(***************************************************************************)
copy_from_host_cost(n) == 1 + n
copy_parameter_cost(n) == IF n <= 1 THEN 1 + n ELSE 1 + 2 * n
create_entry_cost(n) == IF n <= 1 THEN 2 + 2 * n ELSE 2 + 2 * n * n
lookup_entry_cost(n) == 1 + 2 * n
delete_prefix_find_cost(n) == 2 * n
new_iterator_cost(n) == 1 + 2 * n
read_entry_cost(n) == 1 + (n \div 2)
write_output_cost(n) == 1 + n
additional_output_size_cost(n) == 3 * n
log_event_cost(n) == 1 + 2 * n
verify_cost(n) == 4 + n
hash_cost(n) == 2 + n
INVOKE_BASE_COST == 2
MEMORY_COST_FACTOR == 2

\* ReceiveParams::new_p4 to new_p7.
ReceiveParams(p) ==
  [max_parameter_size |-> IF p = 4 THEN 1 ELSE 2, limit |-> p = 4, queries |-> p >= 5,
   signatures |-> p >= 6, inspection |-> p >= 7]

(***************************************************************************)
(* The functions a module may import (types.rs).                            *)
(***************************************************************************)
I32 == "I32"
I64 == "I64"
Type(ps, r) == [params |-> ps, result |-> r]

validate_import_function ==
  [invoke |-> Type(<<I32, I32, I32>>, I64), write_output |-> Type(<<I32, I32, I32>>, I32),
   get_parameter_size |-> Type(<<I32>>, I32), get_parameter_section |-> Type(<<I32, I32, I32, I32>>, I32),
   get_receive_entrypoint_size |-> Type(<<>>, I32), get_receive_entrypoint |-> Type(<<I32>>, ""),
   state_lookup_entry |-> Type(<<I32, I32>>, I64), state_create_entry |-> Type(<<I32, I32>>, I64),
   state_delete_entry |-> Type(<<I32, I32>>, I32), state_delete_prefix |-> Type(<<I32, I32>>, I32),
   state_iterate_prefix |-> Type(<<I32, I32>>, I64), state_iterator_next |-> Type(<<I64>>, I64),
   state_iterator_delete |-> Type(<<I64>>, I32), state_iterator_key_size |-> Type(<<I64>>, I32),
   state_iterator_key_read |-> Type(<<I64, I32, I32, I32>>, I32),
   state_entry_read |-> Type(<<I64, I32, I32, I32>>, I32), state_entry_write |-> Type(<<I64, I32, I32, I32>>, I32),
   state_entry_size |-> Type(<<I64>>, I32), state_entry_resize |-> Type(<<I64, I32>>, I32),
   verify_ed25519_signature |-> Type(<<I32, I32, I32, I32>>, I32),
   verify_ecdsa_secp256k1_signature |-> Type(<<I32, I32, I32>>, I32),
   hash_sha2_256 |-> Type(<<I32, I32, I32>>, ""), hash_sha3_256 |-> Type(<<I32, I32, I32>>, ""),
   hash_keccak_256 |-> Type(<<I32, I32, I32>>, ""), upgrade |-> Type(<<I32>>, I64),
   debug_print |-> Type(<<I32, I32, I32, I32, I32, I32>>, ""),
   get_policy_section |-> Type(<<I32, I32, I32>>, I32), log_event |-> Type(<<I32, I32>>, I32),
   get_init_origin |-> Type(<<I32>>, ""), get_receive_invoker |-> Type(<<I32>>, ""),
   get_receive_self_address |-> Type(<<I32>>, ""), get_receive_self_balance |-> Type(<<>>, I64),
   get_receive_sender |-> Type(<<I32>>, ""), get_receive_owner |-> Type(<<I32>>, ""),
   get_slot_time |-> Type(<<>>, I64)]

\* The kind of function that a name is compiled to.
try_from_import ==
  [Common |->
     {"write_output", "get_parameter_size", "get_parameter_section", "get_policy_section", "log_event",
      "get_slot_time", "state_lookup_entry", "state_create_entry", "state_delete_entry", "state_delete_prefix",
      "state_iterate_prefix", "state_iterator_next", "state_iterator_delete", "state_iterator_key_size",
      "state_iterator_key_read", "state_entry_read", "state_entry_write", "state_entry_size",
      "state_entry_resize", "verify_ed25519_signature", "verify_ecdsa_secp256k1_signature", "hash_sha2_256",
      "hash_sha3_256", "hash_keccak_256", "debug_print"},
   InitOnly |-> {"get_init_origin"},
   ReceiveOnly |->
     {"invoke", "upgrade", "get_receive_invoker", "get_receive_self_address", "get_receive_self_balance",
      "get_receive_sender", "get_receive_owner", "get_receive_entrypoint_size", "get_receive_entrypoint"}]

\* What a host function takes off the stack, topmost first, and what it pushes
\* (for invoke and upgrade, the word that resume_receive pushes).  Those after
\* debug_print are the functions of v0.
Stack(pops, push) == [pops |-> pops, push |-> push]
HostStack ==
  [invoke |-> Stack(<<I32, I32, I32>>, I64), write_output |-> Stack(<<I32, I32, I32>>, I32),
   get_parameter_size |-> Stack(<<I32>>, I32), get_parameter_section |-> Stack(<<I32, I32, I32, I32>>, I32),
   get_receive_entrypoint_size |-> Stack(<<>>, I32), get_receive_entrypoint |-> Stack(<<I32>>, ""),
   state_lookup_entry |-> Stack(<<I32, I32>>, I64), state_create_entry |-> Stack(<<I32, I32>>, I64),
   state_delete_entry |-> Stack(<<I32, I32>>, I32), state_delete_prefix |-> Stack(<<I32, I32>>, I32),
   state_iterate_prefix |-> Stack(<<I32, I32>>, I64), state_iterator_next |-> Stack(<<I64>>, I64),
   state_iterator_delete |-> Stack(<<I64>>, I32), state_iterator_key_size |-> Stack(<<I64>>, I32),
   state_iterator_key_read |-> Stack(<<I32, I32, I32, I64>>, I32),
   state_entry_read |-> Stack(<<I32, I32, I32, I64>>, I32), state_entry_write |-> Stack(<<I32, I32, I32, I64>>, I32),
   state_entry_size |-> Stack(<<I64>>, I32), state_entry_resize |-> Stack(<<I32, I64>>, I32),
   verify_ed25519_signature |-> Stack(<<I32, I32, I32, I32>>, I32),
   verify_ecdsa_secp256k1_signature |-> Stack(<<I32, I32, I32>>, I32),
   hash_sha2_256 |-> Stack(<<I32, I32, I32>>, ""), hash_sha3_256 |-> Stack(<<I32, I32, I32>>, ""),
   hash_keccak_256 |-> Stack(<<I32, I32, I32>>, ""), upgrade |-> Stack(<<I32>>, I64),
   debug_print |-> Stack(<<I32, I32, I32, I32, I32, I32>>, ""),
   get_policy_section |-> Stack(<<I32, I32, I32>>, I32), log_event |-> Stack(<<I32, I32>>, I32),
   get_init_origin |-> Stack(<<I32>>, ""), get_receive_invoker |-> Stack(<<I32>>, ""),
   get_receive_self_address |-> Stack(<<I32>>, ""), get_receive_self_balance |-> Stack(<<>>, I64),
   get_receive_sender |-> Stack(<<I32>>, ""), get_receive_owner |-> Stack(<<I32>>, ""),
   get_slot_time |-> Stack(<<>>, I64)]

\* What the byte of an import in an artifact is read as, from byte 3 on, and
\* the byte that is written for it.
ParseTag ==
  <<"account_memory", "get_parameter_size", "get_parameter_section", "get_policy_section", "log_event",
    "get_slot_time", "state_lookup_entry", "state_create_entry", "state_delete_entry", "state_delete_prefix",
    "state_iterate_prefix", "state_iterator_next", "state_iterator_delete", "state_iterator_key_size",
    "state_iterator_key_read", "state_entry_read", "state_entry_write", "state_entry_size",
    "state_entry_resize", "write_output", "get_init_origin", "get_receive_invoker", "get_receive_self_address",
    "get_receive_self_balance", "get_receive_sender", "get_receive_owner", "get_receive_entrypoint_size",
    "get_receive_entrypoint", "invoke", "verify_ed25519_signature", "verify_ecdsa_secp256k1_signature",
    "hash_sha2_256", "hash_sha3_256", "hash_keccak_256", "upgrade">>
  \o [i \in 1 .. 217 |-> "error"] \o <<"debug_print">>
ImportTag ==
  [account_memory |-> 3, get_parameter_size |-> 4, get_parameter_section |-> 5, get_policy_section |-> 6,
   log_event |-> 7, get_slot_time |-> 8, state_lookup_entry |-> 9, state_create_entry |-> 10,
   state_delete_entry |-> 11, state_delete_prefix |-> 12, state_iterate_prefix |-> 13,
   state_iterator_next |-> 14, state_iterator_delete |-> 15, state_iterator_key_size |-> 16,
   state_iterator_key_read |-> 17, state_entry_read |-> 18, state_entry_write |-> 19, state_entry_size |-> 20,
   state_entry_resize |-> 21, write_output |-> 22, verify_ed25519_signature |-> 32,
   verify_ecdsa_secp256k1_signature |-> 33, hash_sha2_256 |-> 34, hash_sha3_256 |-> 35, hash_keccak_256 |-> 36,
   debug_print |-> 255, get_init_origin |-> 23, get_receive_invoker |-> 24, get_receive_self_address |-> 25,
   get_receive_self_balance |-> 26, get_receive_sender |-> 27, get_receive_owner |-> 28,
   get_receive_entrypoint_size |-> 29, get_receive_entrypoint |-> 30, invoke |-> 31, upgrade |-> 37]

(***************************************************************************)
(* Handles of entries and iterators: the instance's generation and an index *)
(* in one word, with two words set apart.                                   *)
(***************************************************************************)
HandleWord(gen, idx) == gen * 2^HandleBits + idx
split(w) == [gen |-> w \div 2^HandleBits, idx |-> w % 2^HandleBits]
NEW_OK_NONE == 2^(2 * HandleBits) - 1

NEW_ERR == NEW_OK_NONE - 2^(2 * HandleBits - 2)

(***************************************************************************)
(* DebugTracker: host calls and printed events share one counter.           *)
(***************************************************************************)
EmptyTrace == [calls |-> <<>>, events |-> <<>>, next |-> 0, memory_alloc |-> 0, operation |-> 0]

trace_host_call(t, f, used) ==
  IF f = "account_memory" THEN [t EXCEPT !.memory_alloc = @ + used]
  ELSE [t EXCEPT !.calls = Append(@, [i |-> t.next, f |-> f, used |-> used]), !.next = @ + 1]
emit_debug_event(t, msg) == [t EXCEPT !.events = Append(@, [i |-> t.next, f |-> msg, used |-> 0]), !.next = @ + 1]

\* Display: the two lists are merged by index, an event first when they agree.
Merge(t) ==
  LET step(s, k) ==
        IF s.a <= Len(t.calls) /\ (s.b > Len(t.events) \/ t.calls[s.a].i < t.events[s.b].i)
        THEN [out |-> Append(s.out, t.calls[s.a].f), a |-> s.a + 1, b |-> s.b]
        ELSE [out |-> Append(s.out, t.events[s.b].f), a |-> s.a, b |-> s.b + 1] IN
  FoldLeft(step, [out |-> <<>>, a |-> 1, b |-> 1], [k \in 1 .. Len(t.calls) + Len(t.events) |-> k]).out

(***************************************************************************)
(* Invocation.                                                              *)
(***************************************************************************)
Nothing == [tag |-> ""]

\* invoke_init and invoke_receive set up the host.
Init ==
  /\ kind \in Kinds /\ par \in {ReceiveParams(p) : p \in Protocols}
  /\ \E m \in Memories, e \in Energies :
       h = [energy |-> e, mem |-> m, frames |-> MAX_ACTIVATION_FRAMES, logs |-> <<>>, rv |-> <<>>,
            parameters |-> <<Parameter>>, balance |-> 0, trace |-> EmptyTrace,
            gen |-> 0, entries |-> 0, top |-> 0]
  /\ status = "given" /\ pending = Nothing /\ outcome = Nothing /\ out = <<>> /\ heard = Nothing
  /\ g = [calls |-> 0, resumes |-> 0, logged |-> <<>>, reported |-> <<>>, history |-> <<>>, written |-> <<>>,
          start |-> 0, ticked |-> 0, told |-> Nothing,
          asked |-> [start |-> 0, length |-> 0]]

Start ==
  /\ status = "given"
  /\ IF h.energy < MEMORY_COST_FACTOR
     THEN status' = "OutOfEnergy" /\ h' = [h EXCEPT !.energy = 0] /\ UNCHANGED g
     ELSE /\ status' = "running" /\ h' = [h EXCEPT !.energy = @ - MEMORY_COST_FACTOR]
          /\ g' = [g EXCEPT !.start = h.energy - MEMORY_COST_FACTOR]
  /\ UNCHANGED <<kind, par, pending, outcome, out, heard>>

(***************************************************************************)
(* A host function checks and charges twice: c1 is charged first, then ok1  *)
(* must hold, then c2 is charged and ok2 must hold, and then it does Done.  *)
(***************************************************************************)
Fails(s, e) == status' = s /\ h' = [h EXCEPT !.energy = e] /\ UNCHANGED pending /\ g' = [g EXCEPT !.calls = @ + 1]
Steps(c1, ok1, c2, ok2, Done) ==
  IF h.energy < c1 THEN Fails("OutOfEnergy", 0)
  ELSE IF ~ok1 THEN Fails("trap", h.energy - c1)
  ELSE IF h.energy < c1 + c2 THEN Fails("OutOfEnergy", 0)
  ELSE IF ~ok2 THEN Fails("trap", h.energy - c1 - c2)
  ELSE Done

\* The call returns: h2 is the host without the charge, which is traced.
Returns1(f, c, h2, g2) ==
  /\ h' = [h2 EXCEPT !.energy = h.energy - c, !.trace = trace_host_call(h2.trace, f, c)]
  /\ g' = [g2 EXCEPT !.calls = g.calls + 1, !.history = IF f = "account_memory" THEN @ ELSE Append(@, f)]
  /\ UNCHANGED <<status, pending>>

Call(f) ==
  /\ status = "running" /\ f \in Calls /\ g.calls < MaxCalls
  /\ UNCHANGED <<kind, par, outcome, out, heard>>

Fits(start, length) == start + length <= Len(h.mem)
Slice(start, length) == SubSeq(h.mem, start + 1, start + length)
Write(m, start, bytes) ==
  [i \in 1 .. Len(m) |-> IF start < i /\ i <= start + Len(bytes) THEN bytes[i - start] ELSE m[i]]
Filled(start, bytes) == [h EXCEPT !.mem = Write(@, start, bytes)]

\* The window of the memory the code asked to be filled.
Asked(start, length) == [g EXCEPT !.asked = [start |-> start, length |-> length]]

\* Mutant of write_return_value_helper: writing cuts off what comes after.
write_return_value_cut(rv, offset, bytes) ==
  LET end == IF par.limit THEN Min2(offset + Len(bytes), MAX_CONTRACT_STATE) ELSE offset + Len(bytes) IN
  SubSeq(rv, 1, offset) \o SubSeq(bytes, 1, end - offset)

\* The return value grows to the end of what is written, up to the limit of
\* protocol 4.
write_return_value_helper(rv, offset, bytes) ==
  LET end == IF par.limit THEN Min2(offset + Len(bytes), MAX_CONTRACT_STATE) ELSE offset + Len(bytes)
      grown == IF Len(rv) < end THEN rv \o [i \in 1 .. end - Len(rv) |-> 0] ELSE rv IN
  Write(grown, offset, SubSeq(bytes, 1, end - offset))

write_return_value ==
  /\ Call("write_output")
  /\ \E start, length, offset \in Args :
       LET bytes == Slice(start, length)
           end == IF par.limit THEN Min2(offset + length, MAX_CONTRACT_STATE) ELSE offset + length
           c == IF Len(h.rv) < end THEN additional_output_size_cost(end - Len(h.rv)) ELSE 0 IN
       Steps(write_output_cost(length), Fits(start, length) /\ offset <= Len(h.rv), c, TRUE,
             Returns1("write_output", write_output_cost(length) + c,
                      [h EXCEPT !.rv = write_return_value_helper(@, offset, bytes)],
                      [g EXCEPT !.written = Append(@, [at |-> offset, bytes |-> bytes])]))

\* Mutant of get_parameter_section: all that is left of the parameter is copied.
get_parameter_section_unbounded ==
  /\ Call("get_parameter_section")
  /\ \E n \in 0 .. 1, start, length, offset \in Args :
       LET known == n < Len(h.parameters)
           p == h.parameters[n + 1] IN
       Steps(copy_parameter_cost(length), known => Fits(start, length) /\ offset <= Len(p), 0, TRUE,
             Returns1("get_parameter_section", copy_parameter_cost(length),
                      IF known THEN Filled(start, SubSeq(p, offset + 1, Len(p))) ELSE h, Asked(start, length)))

\* A parameter that does not exist is answered with -1, after the charge.
get_parameter_section ==
  /\ Call("get_parameter_section")
  /\ \E n \in 0 .. 1, start, length, offset \in Args :
       LET known == n < Len(h.parameters)
           p == h.parameters[n + 1]
           end == Min2(offset + length, Len(p)) IN
       Steps(copy_parameter_cost(length), known => Fits(start, length) /\ offset <= end, 0, TRUE,
             Returns1("get_parameter_section", copy_parameter_cost(length),
                      IF known THEN Filled(start, SubSeq(p, offset + 1, end)) ELSE h, Asked(start, length)))

log_event ==
  /\ Call("log_event")
  /\ \E start, length \in Args :
       LET long == length > MAX_LOG_SIZE
           kept == ~long /\ (par.limit => Len(h.logs) < MAX_NUM_LOGS)
           c == IF long THEN 0 ELSE log_event_cost(length) IN
       Steps(0, Fits(start, length), c, TRUE,
             Returns1("log_event", c,
                      IF kept THEN [h EXCEPT !.logs = Append(@, Slice(start, length))] ELSE h,
                      IF kept THEN [g EXCEPT !.logged = Append(@, Slice(start, length))] ELSE g))

\* Lookups and new iterators push a word that stands for what was found.
Told(f, c, meaning, word) ==
  Returns1(f, c, [h EXCEPT !.top = word, !.entries = IF meaning = "some" THEN @ + 1 ELSE @],
           [g EXCEPT !.told = [tag |-> meaning, gen |-> h.gen, idx |-> h.entries]])

\* state_lookup_entry, state_create_entry and state_delete_entry charge and
\* then look at the memory; state_delete_prefix and state_iterator look first,
\* and removing a prefix is also charged for what it visits.
key_call(f) ==
  /\ Call(f)
  /\ \E start, length \in Args, visits \in 0 .. 1 :
       LET some == Told(f, lookup_entry_cost(length), "some", HandleWord(h.gen, h.entries))
           none(c) == Told(f, c, "none", NEW_OK_NONE) IN
       CASE f = "state_lookup_entry" ->
              Steps(lookup_entry_cost(length), Fits(start, length), 0, TRUE, some \/ none(lookup_entry_cost(length)))
         [] f = "state_create_entry" ->
              Steps(create_entry_cost(length), Fits(start, length), 0, TRUE,
                    \/ Told(f, create_entry_cost(length), "some", HandleWord(h.gen, h.entries))
                    \/ none(create_entry_cost(length)))
         [] f = "state_delete_entry" ->
              Steps(lookup_entry_cost(length), Fits(start, length), 0, TRUE, Returns1(f, lookup_entry_cost(length), h, g))
         [] f = "state_delete_prefix" ->
              Steps(0, Fits(start, length), delete_prefix_find_cost(length) + visits, TRUE,
                    Returns1(f, delete_prefix_find_cost(length) + visits, h, g))
         [] f = "state_iterate_prefix" ->
              Steps(0, Fits(start, length), new_iterator_cost(length), TRUE,
                    \/ Told(f, new_iterator_cost(length), "some", HandleWord(h.gen, h.entries))
                    \/ none(new_iterator_cost(length))
                    \/ Told(f, new_iterator_cost(length), "error", NEW_ERR))

\* state_iterator_next and _delete are charged for what the state does, _key_size
\* beforehand.  A handle that is not known gives NEW_ERR.
iterator_call(f) ==
  /\ Call(f)
  /\ \E visits \in 0 .. 1 :
       CASE f = "state_iterator_next" ->
              Steps(0, TRUE, 1 + visits, TRUE,
                    \/ Told(f, 1 + visits, "some", HandleWord(h.gen, h.entries))
                    \/ Told(f, 1 + visits, "none", NEW_OK_NONE)
                    \/ Told(f, 1 + visits, "error", NEW_ERR))
         [] f = "state_iterator_delete" -> Steps(0, TRUE, 1 + visits, TRUE, Returns1(f, 1 + visits, h, g))
         [] f = "state_iterator_key_size" -> Steps(1, TRUE, 0, TRUE, Returns1(f, 1, h, g))

\* state_entry_read and state_iterator_key_read fill a window of the memory,
\* state_entry_write gives one to the state; growing an entry is charged for by
\* the state, after the base cost.
entry_call(f) ==
  /\ Call(f)
  /\ \E start, length \in Args, n \in 0 .. 1, b \in Bytes :
       LET c == read_entry_cost(length) IN
       CASE f \in {"state_entry_read", "state_iterator_key_read"} ->
              Steps(c, Fits(start, length), 0, TRUE, Returns1(f, c, Filled(start, [i \in 1 .. n * length |-> b]), Asked(start, length)))
         [] f = "state_entry_write" ->
              Steps(c, Fits(start, length), 2 * n, TRUE, Returns1(f, c + 2 * n, h, g))
         [] f = "state_entry_size" -> Steps(1, TRUE, 0, TRUE, Returns1(f, 1, h, g))
         [] f = "state_entry_resize" -> Steps(1, TRUE, 2 * n, TRUE, Returns1(f, 1 + 2 * n, h, g))

\* The hash functions and signature checks look at the memory before charging.
crypto_call(f) ==
  /\ Call(f)
  /\ \E data_start, data_len, output_start \in Args, b \in Bytes :
       IF f = "hash_sha2_256"
       THEN Steps(0, Fits(data_start, data_len) /\ Fits(output_start, AddrLen), hash_cost(data_len), TRUE,
                  Returns1(f, hash_cost(data_len), Filled(output_start, [i \in 1 .. AddrLen |-> b]),
                           Asked(output_start, AddrLen)))
       ELSE Steps(0, Fits(data_start, data_len) /\ Fits(output_start, AddrLen) /\ Fits(output_start, 2 * AddrLen),
                  verify_cost(data_len), TRUE, Returns1(f, verify_cost(data_len), h, g))

\* The name of the entrypoint that was called is copied, free of charge.
get_receive_entrypoint ==
  /\ Call("get_receive_entrypoint")
  /\ \E start \in Args :
       Steps(0, kind = "receive" /\ Fits(start, Len(EntrypointName)), 0, TRUE,
             Returns1("get_receive_entrypoint", 0, Filled(start, EntrypointName), Asked(start, Len(EntrypointName))))

\* The event is emitted before the call itself is traced.
debug_print ==
  /\ Call("debug_print")
  /\ \E start, length \in Args :
       Steps(0, Fits(start, length), 0, TRUE,
             Returns1("debug_print", 0, [h EXCEPT !.trace = emit_debug_event(@, "message")],
                      [g EXCEPT !.history = Append(@, "message")]))

charge_memory_alloc ==
  /\ Call("account_memory")
  /\ Steps(MEMORY_COST_FACTOR, TRUE, 0, TRUE, Returns1("account_memory", MEMORY_COST_FACTOR, [h EXCEPT !.mem = Append(@, 0)], g))

\* An instruction: tick_energy does not tell the trace.
tick_energy ==
  /\ Call("tick")
  /\ IF h.energy < 1 THEN Fails("OutOfEnergy", 0)
     ELSE /\ h' = [h EXCEPT !.energy = @ - 1]
          /\ g' = [g EXCEPT !.calls = @ + 1, !.ticked = @ + 1] /\ UNCHANGED <<status, pending>>

track_call ==
  /\ Call("call")
  /\ IF h.frames > 0 THEN /\ h' = [h EXCEPT !.frames = @ - 1]
                          /\ g' = [g EXCEPT !.calls = @ + 1] /\ UNCHANGED <<status, pending>>
     ELSE Fails("trap", h.energy)

(***************************************************************************)
(* Interrupts.                                                              *)
(***************************************************************************)
Interrupt(tag, addr, param, name, amount) ==
  [tag |-> tag, addr |-> addr, param |-> param, name |-> name, amount |-> amount]

\* The call stops with an interrupt; invoke is traced, also when it fails.
Interrupts(f, c, i) ==
  /\ status' = "interrupted" /\ pending' = i
  /\ h' = [h EXCEPT !.energy = @ - c, !.trace = IF f = "invoke" THEN trace_host_call(@, f, c) ELSE @]
  /\ g' = [g EXCEPT !.calls = @ + 1, !.history = Append(@, f)]

\* A call: the address, the parameter, the name and the amount.  The parameter
\* is charged for once its length is known to be allowed; bytes after the
\* amount are ignored.
invoke_call(p) ==
  LET n == p[3]
      m == p[4 + n]
      rest == 4 + n + m IN
  Steps(INVOKE_BASE_COST, Len(p) >= 3 /\ n <= par.max_parameter_size, copy_parameter_cost(n),
        Len(p) >= 4 + n /\ Len(p) >= rest + 1,
        Interrupts("invoke", INVOKE_BASE_COST + copy_parameter_cost(n),
                   Interrupt("Call", SubSeq(p, 1, 2), SubSeq(p, 4, 3 + n), SubSeq(p, 5 + n, rest), p[rest + 1])))

\* The other instructions: the length is exact, the payload is the data.
invoke_fixed(start, length, allowed, tag, size, amountAt) ==
  LET p == Slice(start, length) IN
  Steps(INVOKE_BASE_COST, allowed /\ length = size /\ Fits(start, length), 0, TRUE,
        Interrupts("invoke", INVOKE_BASE_COST,
                   IF amountAt = 0 THEN Interrupt(tag, p, <<>>, <<>>, 0)
                   ELSE Interrupt(tag, SubSeq(p, 1, amountAt - 1), <<>>, <<>>, p[amountAt])))

invoke ==
  /\ Call("invoke") /\ kind = "receive"
  /\ \E tag \in Tags, start, length \in Args \cup {AddrLen} :
       CASE tag = 0 -> invoke_fixed(start, length, TRUE, "Transfer", AddrLen + 1, AddrLen + 1)
         [] tag = 1 -> IF Fits(start, length) THEN invoke_call(Slice(start, length))
                       ELSE Steps(INVOKE_BASE_COST, FALSE, 0, TRUE, FALSE)
         [] tag = 2 -> invoke_fixed(start, length, par.queries, "QueryAccountBalance", AddrLen, 0)
         [] tag = 3 -> invoke_fixed(start, length, par.queries, "QueryContractBalance", 2, 0)
         [] tag = 4 -> Steps(INVOKE_BASE_COST, par.queries /\ length = 0, 0, TRUE,
                             Interrupts("invoke", INVOKE_BASE_COST, Interrupt("QueryExchangeRates", <<>>, <<>>, <<>>, 0)))
         [] tag = 5 -> LET p == Slice(start, length) IN
                       Steps(INVOKE_BASE_COST, par.signatures /\ length >= AddrLen /\ Fits(start, length),
                             copy_from_host_cost(length), TRUE,
                             Interrupts("invoke", INVOKE_BASE_COST + copy_from_host_cost(length),
                                        Interrupt("CheckAccountSignature", SubSeq(p, 1, AddrLen),
                                                  SubSeq(p, AddrLen + 1, length), <<>>, 0)))
         [] tag = 6 -> invoke_fixed(start, length, par.signatures, "QueryAccountKeys", AddrLen, 0)
         [] tag = 7 -> invoke_fixed(start, length, par.inspection, "QueryContractModuleReference", 2, 0)
         [] tag = 8 -> invoke_fixed(start, length, par.inspection, "QueryContractName", 2, 0)
         [] OTHER -> Steps(INVOKE_BASE_COST, FALSE, 0, TRUE, FALSE)

\* The module reference is read before the charge; the call is not traced.
upgrade ==
  /\ Call("upgrade") /\ kind = "receive"
  /\ \E start \in Args :
       Steps(0, Fits(start, AddrLen), INVOKE_BASE_COST, TRUE,
             Interrupts("upgrade", INVOKE_BASE_COST, Interrupt("Upgrade", Slice(start, AddrLen), <<>>, <<>>, 0)))

NotForInit ==
  /\ \E f \in try_from_import.ReceiveOnly : Call(f)
  /\ kind = "init" /\ Fails("trap", h.energy)

(***************************************************************************)
(* process_receive_result, invoke_init: what the consensus layer is told.   *)
(***************************************************************************)
\* Mutant of should_clear_logs: the logs are held back over an upgrade.
should_clear_logs_upgrade_keeps(tag) == tag \in {"Transfer", "Call"}

should_clear_logs(tag) == tag \in {"Transfer", "Call", "Upgrade"}

Outcome(tag, ls, reason, i) == [tag |-> tag, logs |-> ls, reason |-> reason, energy |-> h.energy, interrupt |-> i]
NoInterrupt == Interrupt("", <<>>, <<>>, <<>>, 0)

\* The code returns n: for init only zero is a success.
Return ==
  /\ status = "running"
  /\ \E n \in Returns :
       IF n > 0 /\ kind = "init" THEN status' = "error" /\ UNCHANGED outcome
       ELSE /\ status' = "done"
            /\ outcome' = IF n >= 0 THEN Outcome("Success", h.logs, 0, NoInterrupt) ELSE Outcome("Reject", <<>>, n, NoInterrupt)
  /\ UNCHANGED <<kind, par, h, pending, out, heard, g>>

ProcessInterrupt ==
  /\ status = "interrupted"
  /\ LET ls == IF should_clear_logs(pending.tag) THEN h.logs ELSE <<>> IN
     /\ outcome' = Outcome("Interrupt", ls, 0, pending)
     /\ h' = IF should_clear_logs(pending.tag) THEN [h EXCEPT !.logs = <<>>] ELSE h
  /\ status' = "done"
  /\ UNCHANGED <<kind, par, pending, out, heard, g>>

\* Trap and OutOfEnergy: the energy that is left is reported, if any.
ProcessFailure ==
  /\ status \in {"trap", "OutOfEnergy"}
  /\ outcome' = Outcome(IF status = "trap" THEN "Trap" ELSE "OutOfEnergy", <<>>, 0, NoInterrupt)
  /\ status' = "done"
  /\ UNCHANGED <<kind, par, h, pending, out, heard, g>>

InterruptTags ==
  <<"Transfer", "Call", "Upgrade", "QueryAccountBalance", "QueryContractBalance", "QueryExchangeRates",
    "CheckAccountSignature", "QueryAccountKeys", "QueryContractModuleReference", "QueryContractName">>

\* Interrupt::to_bytes.
InterruptBytes(i) ==
  CASE i.tag = "Call" -> <<1>> \o i.addr \o <<Len(i.param)>> \o i.param \o <<Len(i.name)>> \o i.name \o <<i.amount>>
    [] OTHER -> <<(CHOOSE t \in 0 .. 9 : InterruptTags[t + 1] = i.tag)>> \o i.addr
                \o (IF i.tag = "Transfer" THEN <<i.amount>> ELSE <<>>)
                \o (IF i.tag = "CheckAccountSignature" THEN <<Len(i.param)>> \o i.param ELSE <<>>)

LogBytes(ls) == FoldLeft(LAMBDA b, l : b \o <<Len(l)>> \o l, <<Len(ls)>>, ls)

\* InitResult::extract and ReceiveResult::extract.
extract(o) ==
  CASE o.tag = "OutOfEnergy" -> <<0>>
    [] o.tag = "Trap" -> <<1, o.energy>>
    [] o.tag = "Reject" -> <<2, o.reason, o.energy>>
    [] o.tag = "Success" -> <<3>> \o LogBytes(o.logs) \o <<o.energy>>
    [] OTHER -> <<4, o.energy>> \o LogBytes(o.logs) \o InterruptBytes(o.interrupt)

\* call_init_v1, call_receive_v1 and resume_receive_v1 return.
Deliver ==
  /\ status = "done"
  /\ out' = extract(outcome)
  /\ status' = IF outcome.tag = "Interrupt" THEN "waiting" ELSE "ended"
  /\ g' = [g EXCEPT !.reported = @ \o outcome.logs]
  /\ UNCHANGED <<kind, par, h, pending, outcome, heard>>

(***************************************************************************)
(* The response: the consensus layer gives a word and maybe data, which     *)
(* become a response; the contract gets another word.                       *)
(***************************************************************************)
FailureKinds ==
  <<"InsufficientAmount", "NonExistentAccount", "NonExistentContract", "NonExistentEntrypoint", "SendingV0Failed",
    "RuntimeError", "UpgradeInvalidModuleRef", "UpgradeInvalidContractName", "UpgradeInvalidVersion",
    "SignatureDataMalformed", "SignatureCheckFailed">>
NoData == <<-1>>   \* no vector is given, as opposed to an empty one
Response(tag, k, code, data, updated) == [tag |-> tag, kind |-> k, code |-> code, data |-> data, updated |-> updated]

\* The word of the consensus layer: all ones on top for a failure.
FfiWord(r) ==
  IF r.tag = "Success" THEN [failure |-> FALSE, kind |-> 0, code |-> 0]
  ELSE [failure |-> TRUE, kind |-> r.kind, code |-> r.code % CB]

\* Signed error codes are the low 32 bits, in two's complement.
Signed(c) == IF c >= CB \div 2 THEN c - CB ELSE c

try_from_ffi_response(w, data, updated) ==
  IF ~w.failure THEN Response("Success", 0, 0, data, updated)
  ELSE IF w.kind = 0
  THEN IF w.code = 0 \/ data = NoData THEN Nothing ELSE Response("Failure", 0, Signed(w.code), data, updated)
  ELSE IF w.kind > Len(FailureKinds) THEN Nothing ELSE Response("Failure", w.kind, 0, NoData, updated)

TooMany(n) == n > 2^IdxBits - 1

StateBit(r) == IF r.updated THEN 2^IdxBits ELSE 0

\* encode_as_u64 and the end of resume_receive.
ResponseWord(r) ==
  IF r.tag = "Success"
  THEN (StateBit(r) + (IF r.data = NoData THEN 0 ELSE Len(h.parameters))) * (KB * CB)
  ELSE IF r.kind = 0 THEN Len(h.parameters) * (KB * CB) + (r.code % CB) ELSE r.kind * CB

ChainResponses ==
  LET datas == ResponseData \cup {NoData} IN
  {Response("Success", 0, 0, d, u) : d \in datas, u \in BOOLEAN}
  \cup {Response("Failure", 0, c, d, u) : c \in {-1, -2}, d \in ResponseData, u \in BOOLEAN}
  \cup {Response("Failure", k, 0, NoData, u) : k \in {1, 6, 11}, u \in BOOLEAN}

\* What the consensus layer itself records for a call, a transfer or an upgrade.
Meanwhile == <<9>>

\* resume_receive_v1 and resume_receive: a fresh trace, the parameters grow by
\* the data, the balance is that of a successful response, and handles of an
\* older generation are dead when the state was changed.
Resume ==
  /\ status = "waiting" /\ g.resumes < MaxResumes
  /\ \E r \in ChainResponses :
       LET q == try_from_ffi_response(FfiWord(r), r.data, r.updated)
           withData == q.data # NoData IN
       IF q = Nothing \/ (withData /\ TooMany(Len(h.parameters)))
       THEN status' = "error" /\ UNCHANGED <<h, heard>>
       ELSE /\ status' = "running"
            /\ heard' = [tag |-> "heard", word |-> ResponseWord(q), response |-> r]
            /\ h' = [h EXCEPT !.parameters = IF withData THEN Append(@, q.data) ELSE @,
                              !.balance = IF q.tag = "Success" THEN g.resumes + 1 ELSE @,
                              !.gen = IF r.updated THEN @ + 1 ELSE @,
                              !.entries = IF r.updated THEN 0 ELSE @,
                              !.trace = EmptyTrace]
  /\ LET meanwhile == IF pending.tag \in {"Transfer", "Call", "Upgrade"} THEN <<Meanwhile>> ELSE <<>> IN
     g' = [g EXCEPT !.resumes = @ + 1, !.history = <<>>, !.start = h.energy, !.ticked = 0, !.told = Nothing,
                    !.logged = @ \o meanwhile, !.reported = @ \o meanwhile]
  /\ pending' = Nothing
  /\ UNCHANGED <<kind, par, outcome, out>>

Next ==
  \/ Start \/ Return \/ ProcessInterrupt \/ ProcessFailure \/ Deliver \/ Resume
  \/ write_return_value \/ get_parameter_section \/ log_event \/ get_receive_entrypoint
  \/ debug_print \/ charge_memory_alloc \/ tick_energy \/ track_call \/ invoke \/ upgrade \/ NotForInit
  \/ \E f \in {"state_lookup_entry", "state_create_entry", "state_delete_entry", "state_delete_prefix", "state_iterate_prefix"} :
       key_call(f)
  \/ \E f \in {"state_iterator_next", "state_iterator_delete", "state_iterator_key_size"} : iterator_call(f)
  \/ \E f \in {"state_entry_read", "state_iterator_key_read", "state_entry_write", "state_entry_size", "state_entry_resize"} :
       entry_call(f)
  \/ \E f \in {"hash_sha2_256", "verify_ed25519_signature"} : crypto_call(f)

Spec == Init /\ [][Next]_vars

(***************************************************************************)
(* Properties.                                                              *)
(***************************************************************************)
\* How the contract's library reads the word it gets back.
Understood(w) ==
  LET top == w \div (KB * CB)
      k == (w \div CB) % KB
      code == w % CB
      index == top % 2^IdxBits
      data == IF index = 0 THEN NoData ELSE h.parameters[index + 1] IN
  IF k = 0 /\ code = 0 THEN Response("Success", 0, 0, data, top >= 2^IdxBits)
  ELSE IF k = 0 THEN Response("Failure", 0, Signed(code), data, FALSE)
  ELSE Response("Failure", k, 0, NoData, FALSE)

\* The contract understands the response of the consensus layer: success or
\* the kind of failure, the reason of a rejection, whether its state changed,
\* and which of the parameters holds the data, until the index does not fit.
ResponsesAreUnderstood ==
  status = "running" /\ heard.tag = "heard" =>
    Understood(heard.word) = [heard.response EXCEPT !.updated = @ /\ heard.response.tag = "Success"]

\* Logs reach the consensus layer once and in the order of what happened:
\* those from before a call, a transfer or an upgrade come before what these
\* bring, and queries change nothing.
LogsAreReportedOnce ==
  /\ status \in {"running", "interrupted", "waiting"} => g.reported \o h.logs = g.logged
  /\ status = "ended" /\ outcome.tag = "Success" => g.reported = g.logged

\* What the consensus layer reads.
TakeLog(s) == [logs |-> Append(s.logs, SubSeq(s.b, 2, 1 + s.b[1])), b |-> SubSeq(s.b, 2 + s.b[1], Len(s.b))]
ReadLogs(b) == FoldLeft(LAMBDA s, i : TakeLog(s), [logs |-> <<>>, b |-> Tail(b)], [i \in 1 .. b[1] |-> i])
ReadInterrupt(b) ==
  LET tag == InterruptTags[b[1] + 1]  p == Tail(b) IN
  CASE tag = "Call" ->
         LET n == p[3]  m == p[4 + n] IN
         Interrupt(tag, SubSeq(p, 1, 2), SubSeq(p, 4, 3 + n), SubSeq(p, 5 + n, 4 + n + m), p[5 + n + m])
    [] tag = "Transfer" -> Interrupt(tag, SubSeq(p, 1, AddrLen), <<>>, <<>>, p[AddrLen + 1])
    [] tag = "CheckAccountSignature" ->
         Interrupt(tag, SubSeq(p, 1, AddrLen), SubSeq(p, AddrLen + 2, AddrLen + 1 + p[AddrLen + 1]), <<>>, 0)
    [] OTHER -> Interrupt(tag, p, <<>>, <<>>, 0)
ReadResult(b) ==
  CASE b[1] = 0 -> [tag |-> "OutOfEnergy", logs |-> <<>>, reason |-> 0, energy |-> 0, interrupt |-> NoInterrupt]
    [] b[1] = 1 -> [tag |-> "Trap", logs |-> <<>>, reason |-> 0, energy |-> b[2], interrupt |-> NoInterrupt]
    [] b[1] = 2 -> [tag |-> "Reject", logs |-> <<>>, reason |-> b[2], energy |-> b[3], interrupt |-> NoInterrupt]
    [] b[1] = 3 -> LET r == ReadLogs(Tail(b)) IN
                   [tag |-> "Success", logs |-> r.logs, reason |-> 0, energy |-> r.b[1], interrupt |-> NoInterrupt]
    [] OTHER -> LET r == ReadLogs(SubSeq(b, 3, Len(b))) IN
                [tag |-> "Interrupt", logs |-> r.logs, reason |-> 0, energy |-> b[2], interrupt |-> ReadInterrupt(r.b)]

\* The consensus layer reads back the outcome of every run of the code, the
\* interrupt with its parts included.
ResultsAreReadBack == status \in {"waiting", "ended"} => ReadResult(out) = outcome

\* The return value is the byte array the writes of the invocation describe,
\* over all interrupts, cut at the limit where there is one.
OutputIsWhatWasWritten ==
  LET reaches(k, i) == g.written[k].at < i /\ i <= g.written[k].at + Len(g.written[k].bytes)
      last(i) == Max({k \in 1 .. Len(g.written) : reaches(k, i)}) IN
  /\ par.limit => Len(h.rv) <= MAX_CONTRACT_STATE
  /\ \A k \in 1 .. Len(g.written), i \in 1 .. 8 :
       reaches(k, i) /\ (par.limit => i <= MAX_CONTRACT_STATE) => i <= Len(h.rv)
  /\ \A i \in 1 .. Len(h.rv) : h.rv[i] = g.written[last(i)].bytes[i - g.written[last(i)].at]

\* A host call changes the memory only inside of the window it was asked to
\* fill, whatever the length of the source and the offset into it.  (What a
\* step may do.)
MemoryOutsideIsUntouched ==
  \A j \in 1 .. Len(h.mem) :
    h'.mem[j] # h.mem[j] => g'.asked.start < j /\ j <= g'.asked.start + g'.asked.length

\* The handles a contract holds tell it apart what it was given: an entry or an
\* iterator of this generation, nothing, or an error.
HandlesAreToldApart ==
  status = "running" /\ g.told # Nothing =>
    CASE g.told.tag = "none" -> h.top = NEW_OK_NONE
      [] g.told.tag = "error" -> h.top # NEW_OK_NONE /\ split(h.top).gen # g.told.gen
      [] OTHER -> h.top \notin {NEW_OK_NONE, NEW_ERR} /\ split(h.top) = [gen |-> g.told.gen, idx |-> g.told.idx]

Used == FoldLeft(LAMBDA n, c : n + c.used, 0, h.trace.calls)

\* The trace shown to a developer lists calls and printed events in the order
\* they happened since the last resume, and its energy, with that of the
\* instructions, is what was used.
TraceTellsTheStory ==
  status \in {"running", "interrupted"} =>
    /\ Merge(h.trace) = g.history
    /\ g.start - h.energy = g.ticked + h.trace.memory_alloc + Used

\* The types that validation asks for, what the host functions pop and push,
\* and the bytes of the imports all agree, and what validation lets through
\* can be compiled.  (Once per start.)
ImportsFitTheStack ==
  status = "running" /\ g.calls = 0 =>
  /\ DOMAIN HostStack = DOMAIN validate_import_function
  /\ \A f \in DOMAIN HostStack :
       validate_import_function[f] = Type(Reverse(HostStack[f].pops), HostStack[f].push)
  /\ DOMAIN validate_import_function = UNION {try_from_import[k] : k \in DOMAIN try_from_import}
  /\ DOMAIN ImportTag = DOMAIN validate_import_function \cup {"account_memory"}
  /\ \A f \in DOMAIN ImportTag : ParseTag[ImportTag[f] - 2] = f
===========================================================================
