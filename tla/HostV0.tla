------------------------------ MODULE HostV0 ------------------------------
(***************************************************************************)
(* One invocation of a V0 contract                                          *)
(* (smart-contracts/wasm-chain-integration/src/v0).  The Wasm code is an    *)
(* arbitrary program: it stores bytes in its memory, calls host functions   *)
(* with any arguments and returns any value.  Sizes and costs are scaled    *)
(* down, the formulas of the costs are those of constants.rs.               *)
(***************************************************************************)
EXTENDS Integers, Sequences, SequencesExt, FiniteSetsExt

CONSTANTS
  Kinds,           \* of "init" and "receive"
  Calls,           \* the host functions the code imports
  MemLen,          \* the size of the initial memory, in bytes
  MAX_CONTRACT_STATE, MAX_LOG_SIZE, MAX_NUM_LOGS, MAX_ACTIVATION_FRAMES,
  MaxParameterSize,
  AddrLen,         \* the bytes of an account address, 32 in the code
  U16,             \* 2^16: lengths in a result are cut to two bytes
  Energies,        \* the energy an invocation may start with
  Parameter, Policies, CurrentState,
  Args,            \* the integers the code passes
  Returns,         \* the integers the code returns
  MaxCalls         \* bound on the host calls of an invocation

VARIABLES kind, limit_logs, mem, state, energy, frames, logs, actions, status, result, out,
          calls, work, ops

vars == <<kind, limit_logs, mem, state, energy, frames, logs, actions, status, result, out,
          calls, work, ops>>

Bytes == 0 .. 2
Min2(a, b) == IF a < b THEN a ELSE b

copy_from_host_cost(x) == 1 + x
copy_to_host_cost(x) == 1 + x
copy_parameter_cost(x) == IF x <= 2 THEN 1 + x ELSE 1 + 3 * x
additional_state_size_cost(x) == x \div 2
log_event_cost(x) == 2 + 2 * x
BASE_ACTION_COST == 1

action_send_cost(x) == BASE_ACTION_COST + 2 + 2 * x
MEMORY_COST_FACTOR == 2

(***************************************************************************)
(* The functions a module may import (types.rs).                            *)
(***************************************************************************)
I32 == "I32"
I64 == "I64"
Type(ps, r) == [params |-> ps, result |-> r]

validate_import_function ==
  [accept |-> Type(<<>>, I32), simple_transfer |-> Type(<<I32, I64>>, I32),
   send |-> Type(<<I64, I64, I32, I32, I64, I32, I32>>, I32),
   combine_and |-> Type(<<I32, I32>>, I32), combine_or |-> Type(<<I32, I32>>, I32),
   get_parameter_size |-> Type(<<>>, I32), get_parameter_section |-> Type(<<I32, I32, I32>>, I32),
   get_policy_section |-> Type(<<I32, I32, I32>>, I32), log_event |-> Type(<<I32, I32>>, I32),
   load_state |-> Type(<<I32, I32, I32>>, I32), write_state |-> Type(<<I32, I32, I32>>, I32),
   resize_state |-> Type(<<I32>>, I32), state_size |-> Type(<<>>, I32),
   get_init_origin |-> Type(<<I32>>, ""), get_receive_invoker |-> Type(<<I32>>, ""),
   get_receive_self_address |-> Type(<<I32>>, ""), get_receive_self_balance |-> Type(<<>>, I64),
   get_receive_sender |-> Type(<<I32>>, ""), get_receive_owner |-> Type(<<I32>>, ""),
   get_slot_time |-> Type(<<>>, I64)]

\* The kind of function that a name is compiled to.
try_from_import ==
  [Common |-> {"get_parameter_size", "get_parameter_section", "get_policy_section", "log_event", "load_state",
               "write_state", "resize_state", "state_size", "get_slot_time"},
   InitOnly |-> {"get_init_origin"},
   ReceiveOnly |-> {"accept", "simple_transfer", "send", "combine_and", "combine_or", "get_receive_invoker",
                    "get_receive_self_address", "get_receive_self_balance", "get_receive_sender",
                    "get_receive_owner"}]

\* What a host function takes off the stack, topmost first, and what it pushes.
Stack(pops, push) == [pops |-> pops, push |-> push]
HostStack ==
  [accept |-> Stack(<<>>, I32), simple_transfer |-> Stack(<<I64, I32>>, I32),
   send |-> Stack(<<I32, I32, I64, I32, I32, I64, I64>>, I32),
   combine_and |-> Stack(<<I32, I32>>, I32), combine_or |-> Stack(<<I32, I32>>, I32),
   get_parameter_size |-> Stack(<<>>, I32), get_parameter_section |-> Stack(<<I32, I32, I32>>, I32),
   get_policy_section |-> Stack(<<I32, I32, I32>>, I32), log_event |-> Stack(<<I32, I32>>, I32),
   load_state |-> Stack(<<I32, I32, I32>>, I32), write_state |-> Stack(<<I32, I32, I32>>, I32),
   resize_state |-> Stack(<<I32>>, I32), state_size |-> Stack(<<>>, I32),
   get_init_origin |-> Stack(<<I32>>, ""), get_receive_invoker |-> Stack(<<I32>>, ""),
   get_receive_self_address |-> Stack(<<I32>>, ""), get_receive_self_balance |-> Stack(<<>>, I64),
   get_receive_sender |-> Stack(<<I32>>, ""), get_receive_owner |-> Stack(<<I32>>, ""),
   get_slot_time |-> Stack(<<>>, I64)]

\* The byte an import is written as in an artifact, and what it is read as.
ImportTag ==
  [account_memory |-> 3, get_parameter_size |-> 4, get_parameter_section |-> 5, get_policy_section |-> 6,
   log_event |-> 7, load_state |-> 8, write_state |-> 9, resize_state |-> 10, state_size |-> 11,
   get_slot_time |-> 12, get_init_origin |-> 13, accept |-> 14, simple_transfer |-> 15, send |-> 16,
   combine_and |-> 17, combine_or |-> 18, get_receive_invoker |-> 19, get_receive_self_address |-> 20,
   get_receive_self_balance |-> 21, get_receive_sender |-> 22, get_receive_owner |-> 23]
ParseTag ==
  <<"account_memory", "get_parameter_size", "get_parameter_section", "get_policy_section",
    "log_event", "load_state", "write_state", "resize_state", "state_size", "get_slot_time",
    "get_init_origin", "accept", "simple_transfer", "send", "combine_and", "combine_or",
    "get_receive_invoker", "get_receive_self_address", "get_receive_self_balance",
    "get_receive_sender", "get_receive_owner">>

(***************************************************************************)
(* Invocation: invoke_init and invoke_receive and their callers.            *)
(***************************************************************************)
\* The part of the memory that the last call asked to be filled, in work.
Window(start, length) == [start |-> start, length |-> length]

Init ==
  /\ kind \in Kinds /\ limit_logs \in BOOLEAN
  /\ mem = [i \in 1 .. MemLen |-> 1 + (i % 2)]
  /\ state = IF kind = "init" THEN <<>> ELSE CurrentState
  /\ energy \in Energies /\ frames = MAX_ACTIVATION_FRAMES
  /\ logs = <<>> /\ actions = <<>>
  /\ status = "given" /\ result = <<>> /\ out = <<>>
  /\ calls = 0 /\ work = [bytes |-> 0, paid |-> 0, asked |-> Window(0, 0)] /\ ops = <<>>

Rest == <<kind, limit_logs, result, out>>

\* The artifact does not parse, the name is no text, or nothing of that name
\* is exported.
NotFound ==
  /\ status = "given" /\ status' = "error"
  /\ UNCHANGED <<kind, limit_logs, mem, state, energy, frames, logs, actions, result, out, calls, work, ops>>

OutOfEnergy == status' = "OutOfEnergy" /\ energy' = 0
Trap == status' = "error" /\ UNCHANGED energy

\* tick_initial_memory: one page.
Start ==
  /\ status = "given"
  /\ \/ energy < MEMORY_COST_FACTOR /\ OutOfEnergy
     \/ energy >= MEMORY_COST_FACTOR /\ status' = "running" /\ energy' = energy - MEMORY_COST_FACTOR
  /\ UNCHANGED <<kind, limit_logs, mem, state, frames, logs, actions, result, out, calls, work, ops>>

Call(f) == status = "running" /\ f \in Calls /\ calls < MaxCalls /\ calls' = calls + 1

(***************************************************************************)
(* A host function that costs c and then needs ok: Charged(c, ok) is the    *)
(* case that goes through, NotCharged the ones that end the invocation.     *)
(***************************************************************************)
ChargedFor(c, ok, bytes, window) ==
  /\ energy >= c /\ ok
  /\ energy' = energy - c
  /\ work' = [bytes |-> work.bytes + bytes, paid |-> work.paid + c, asked |-> window]
  /\ UNCHANGED status
Charged(c, ok, bytes) == ChargedFor(c, ok, bytes, Window(0, 0))
NotCharged(c, ok) ==
  /\ IF energy < c THEN OutOfEnergy
     ELSE ~ok /\ status' = "error" /\ energy' = energy - c
  /\ UNCHANGED <<mem, state, logs, actions, work, ops>>

\* Copy bytes into the memory from start.
Write(m, start, bytes) ==
  [i \in 1 .. Len(m) |-> IF start < i /\ i <= start + Len(bytes) THEN bytes[i - start] ELSE m[i]]
Section(bytes, offset, length) == SubSeq(bytes, offset + 1, Min2(offset + length, Len(bytes)))

\* get_parameter_section and get_policy_section.
get_section(start, length, offset, source, c) ==
  LET ok == start + length <= Len(mem) /\ offset <= Min2(offset + length, Len(source)) IN
  \/ /\ ChargedFor(c, ok, length, Window(start, length))
     /\ mem' = Write(mem, start, Section(source, offset, length))
     /\ UNCHANGED <<state, logs, actions, ops>>
  \/ NotCharged(c, ok)

get_parameter_section ==
  /\ Call("get_parameter_section")
  /\ \E start, length, offset \in Args :
       get_section(start, length, offset, Parameter, copy_parameter_cost(length))
  /\ UNCHANGED <<Rest, frames>>

get_policy_section ==
  /\ Call("get_policy_section")
  /\ \E start, length, offset \in Args :
       get_section(start, length, offset, Policies, copy_from_host_cost(length))
  /\ UNCHANGED <<Rest, frames>>

\* The memory is checked first, and an event that is too long costs nothing.
log_event ==
  /\ Call("log_event")
  /\ \E start, length \in Args :
       IF start + length > Len(mem) THEN Trap /\ UNCHANGED <<logs, work>>
       ELSE IF length > MAX_LOG_SIZE THEN UNCHANGED <<status, energy, logs, work>>
       ELSE \/ /\ Charged(log_event_cost(length), TRUE, length)
               /\ logs' = IF ~limit_logs \/ Len(logs) < MAX_NUM_LOGS
                          THEN Append(logs, SubSeq(mem, start + 1, start + length)) ELSE logs
            \/ energy < log_event_cost(length) /\ OutOfEnergy /\ UNCHANGED <<logs, work>>
  /\ UNCHANGED <<Rest, mem, state, frames, actions, ops>>

load_state ==
  /\ Call("load_state")
  /\ \E start, length, offset \in Args :
       LET ok == start + length <= Len(mem) /\ offset <= Len(state)
           c == copy_from_host_cost(length) IN
       \/ /\ ChargedFor(c, ok, length, Window(start, length))
          /\ mem' = Write(mem, start, Section(state, offset, length))
          /\ UNCHANGED <<state, logs, actions, ops>>
       \/ NotCharged(c, ok)
  /\ UNCHANGED <<Rest, frames>>

Zeros(n) == [i \in 1 .. n |-> 0]

\* State::write_state: what does not fit the largest state is not written.
Written(st, offset, bytes) ==
  LET end == Min2(offset + Len(bytes), MAX_CONTRACT_STATE)
      grown == IF Len(st) < end THEN st \o Zeros(end - Len(st)) ELSE st IN
  Write(grown, offset, SubSeq(bytes, 1, end - offset))

write_state ==
  /\ Call("write_state")
  /\ \E start, length, offset \in Args :
       LET ok == start + length <= Len(mem) /\ offset <= Len(state)
           c == copy_to_host_cost(length)
           bytes == SubSeq(mem, start + 1, start + length) IN
       \/ /\ Charged(c, ok, length)
          /\ state' = Written(state, offset, bytes)
          /\ ops' = Append(ops, [op |-> "write", at |-> offset, bytes |-> bytes])
          /\ UNCHANGED <<mem, logs, actions>>
       \/ NotCharged(c, ok)
  /\ UNCHANGED <<Rest, frames>>

Resized(st, n) == IF n <= Len(st) THEN SubSeq(st, 1, n) ELSE st \o Zeros(n - Len(st))

\* A size above the limit is refused after it has been paid for.
resize_state ==
  /\ Call("resize_state")
  /\ \E new_size \in Args :
       LET c == IF new_size > Len(state) THEN additional_state_size_cost(new_size - Len(state)) ELSE 0 IN
       \/ /\ Charged(c, TRUE, 0)
          /\ state' = IF new_size > MAX_CONTRACT_STATE THEN state ELSE Resized(state, new_size)
          /\ ops' = IF new_size > MAX_CONTRACT_STATE THEN ops
                    ELSE Append(ops, [op |-> "resize", at |-> new_size, bytes |-> <<>>])
          /\ UNCHANGED <<mem, logs, actions>>
       \/ NotCharged(c, TRUE)
  /\ UNCHANGED <<Rest, frames>>

\* get_parameter_size, state_size, get_slot_time and get_receive_self_balance
\* push a number; the program may do anything with it.
get_number ==
  /\ Call("get_number")
  /\ UNCHANGED <<Rest, mem, state, energy, frames, logs, actions, status, work, ops>>

\* get_init_origin, get_receive_invoker, get_receive_self_address,
\* get_receive_sender and get_receive_owner copy an address of fixed length.
get_address(f) ==
  /\ Call(f)
  /\ \E start \in Args :
       IF start + AddrLen <= Len(mem) /\ ((f = "get_init_origin") <=> (kind = "init"))
       THEN /\ mem' = Write(mem, start, [i \in 1 .. AddrLen |-> 0])
            /\ work' = [work EXCEPT !.asked = Window(start, AddrLen)]
            /\ UNCHANGED <<status, energy>>
       ELSE Trap /\ UNCHANGED <<mem, work>>
  /\ UNCHANGED <<Rest, state, frames, logs, actions, ops>>

(***************************************************************************)
(* The actions a receive method builds: a combination refers to earlier     *)
(* actions by their index, from zero.                                       *)
(***************************************************************************)
Push(a) == actions' = Append(actions, a)
Act(tag, l, r, name, param) == [tag |-> tag, l |-> l, r |-> r, name |-> name, param |-> param]

NotForInit(f) ==
  /\ Call(f) /\ kind = "init" /\ Trap
  /\ UNCHANGED <<Rest, mem, state, frames, logs, actions, work, ops>>

accept ==
  /\ Call("accept") /\ kind = "receive"
  /\ \/ /\ Charged(BASE_ACTION_COST, TRUE, 0)
        /\ Push(Act("Accept", 0, 0, <<>>, <<>>)) /\ UNCHANGED <<mem, state, logs, ops>>
     \/ NotCharged(BASE_ACTION_COST, TRUE)
  /\ UNCHANGED <<Rest, frames>>

simple_transfer ==
  /\ Call("simple_transfer") /\ kind = "receive"
  /\ \E addr_start, amount \in Args :
       LET ok == addr_start + AddrLen <= Len(mem) IN
       \/ /\ Charged(BASE_ACTION_COST, ok, 0)
          /\ Push(Act("SimpleTransfer", amount, 0, SubSeq(mem, addr_start + 1, addr_start + AddrLen), <<>>))
          /\ UNCHANGED <<mem, state, logs, ops>>
       \/ NotCharged(BASE_ACTION_COST, ok)
  /\ UNCHANGED <<Rest, frames>>

\* A receive name is valid when it is not empty and has no byte 0 (which
\* stands for whatever is no text or has no dot).
send ==
  /\ Call("send") /\ kind = "receive"
  /\ \E name_start, name_len, start, length, amount \in Args :
       LET name == SubSeq(mem, name_start + 1, name_start + name_len)
           ok == /\ start + length <= Len(mem) /\ name_start + name_len <= Len(mem)
                 /\ name # <<>> /\ \A i \in 1 .. Len(name) : name[i] # 0
                 /\ length <= MaxParameterSize IN
       \/ /\ Charged(action_send_cost(length), ok, length)
          /\ Push(Act("Send", amount, 0, name, SubSeq(mem, start + 1, start + length)))
          /\ UNCHANGED <<mem, state, logs, ops>>
       \/ NotCharged(action_send_cost(length), ok)
  /\ UNCHANGED <<Rest, frames>>

Known(l, r) == l < Len(actions) /\ r < Len(actions)

combine(f, tag) ==
  /\ Call(f) /\ kind = "receive"
  /\ \E l, r \in Args :
       \/ /\ Charged(BASE_ACTION_COST, Known(l, r), 0)
          /\ Push(Act(tag, l, r, <<>>, <<>>)) /\ UNCHANGED <<mem, state, logs, ops>>
       \/ NotCharged(BASE_ACTION_COST, Known(l, r))
  /\ UNCHANGED <<Rest, frames>>

(***************************************************************************)
(* What the machine does between host calls.                                *)
(***************************************************************************)
StoreByte ==
  /\ Call("store")
  /\ \E i \in {j \in Args : j < Len(mem)}, b \in Bytes :
       mem' = Write(mem, i, <<b>>) /\ work' = [work EXCEPT !.asked = Window(i, 1)]
  /\ UNCHANGED <<Rest, state, energy, frames, logs, actions, status, ops>>

charge_memory_alloc ==
  /\ Call("charge_memory_alloc")
  /\ \E pages \in Args :
       \/ /\ Charged(MEMORY_COST_FACTOR * pages, TRUE, pages)
          /\ mem' = mem \o Zeros(pages) /\ UNCHANGED <<state, logs, actions, ops>>
       \/ NotCharged(MEMORY_COST_FACTOR * pages, TRUE)
  /\ UNCHANGED <<Rest, frames>>

track_call ==
  /\ Call("call")
  /\ IF frames > 0 THEN frames' = frames - 1 /\ UNCHANGED <<status, energy>>
     ELSE Trap /\ UNCHANGED frames
  /\ UNCHANGED <<Rest, mem, state, logs, actions, work, ops>>

track_return ==
  /\ Call("call") /\ frames < MAX_ACTIVATION_FRAMES
  /\ frames' = frames + 1
  /\ UNCHANGED <<Rest, mem, state, energy, logs, actions, status, work, ops>>

(***************************************************************************)
(* The end of an invocation.                                                *)
(***************************************************************************)
Reject(n) == [tag |-> "Reject", reason |-> n, state |-> <<>>, logs |-> <<>>, actions |-> <<>>, energy |-> energy]
Success(as) == [tag |-> "Success", reason |-> 0, state |-> state, logs |-> logs, actions |-> as, energy |-> energy]

Truncated(n) == SubSeq(actions, 1, n + 1)

\* invoke_init: a positive number is an error of the contract's.
ReturnInit ==
  /\ status = "running" /\ kind = "init"
  /\ \E n \in Returns :
       IF n > 0 THEN status' = "error" /\ UNCHANGED result
       ELSE status' = "done" /\ result' = IF n = 0 THEN Success(<<>>) ELSE Reject(n)
  /\ UNCHANGED <<kind, limit_logs, mem, state, energy, frames, logs, actions, out, calls, work, ops>>

\* invoke_receive: the number returned is the action that is the outcome.
ReturnReceive ==
  /\ status = "running" /\ kind = "receive"
  /\ \E n \in Returns :
       IF n >= Len(actions) THEN status' = "error" /\ UNCHANGED result
       ELSE status' = "done" /\ result' = IF n >= 0 THEN Success(Truncated(n)) ELSE Reject(n)
  /\ UNCHANGED <<kind, limit_logs, mem, state, energy, frames, logs, actions, out, calls, work, ops>>

\* to_bytes.  A number is one token here, a length one that is cut to its width.
Tag(a) == CHOOSE t \in 0 .. 4 : <<"Send", "SimpleTransfer", "Or", "And", "Accept">>[t + 1] = a.tag

ActionBytes(a) ==
  <<Tag(a)>> \o
  CASE a.tag = "Send" -> <<Len(a.name) % U16>> \o a.name \o <<a.l, Len(a.param) % U16>> \o a.param
    [] a.tag = "SimpleTransfer" -> a.name \o <<a.l>>
    [] a.tag \in {"And", "Or"} -> <<a.l, a.r>>
    [] OTHER -> <<>>
LogBytes(ls) == FoldLeft(LAMBDA b, l : b \o <<Len(l)>> \o l, <<Len(ls)>>, ls)
to_bytes(r) ==
  IF r.tag = "Reject" THEN <<1, r.reason, r.energy>>
  ELSE <<2, Len(r.state)>> \o r.state \o LogBytes(r.logs)
       \o (IF kind = "init" THEN <<>>
           ELSE FoldLeft(LAMBDA b, a : b \o ActionBytes(a), <<Len(r.actions)>>, r.actions))
       \o <<r.energy>>

\* call_init_v0, call_receive_v0: errors and panics give no bytes at all.
Deliver ==
  /\ status \in {"done", "OutOfEnergy"}
  /\ out' = IF status = "OutOfEnergy" THEN <<0>> ELSE to_bytes(result)
  /\ status' = "delivered"
  /\ UNCHANGED <<kind, limit_logs, mem, state, energy, frames, logs, actions, result, calls, work, ops>>

Next ==
  \/ NotFound \/ Start \/ ReturnInit \/ ReturnReceive \/ Deliver
  \/ get_parameter_section \/ get_policy_section \/ log_event \/ load_state \/ write_state
  \/ resize_state \/ get_number \/ StoreByte \/ charge_memory_alloc \/ track_call \/ track_return
  \/ \E f \in {"get_init_origin", "get_receive_address"} : get_address(f)
  \/ \E f \in try_from_import.ReceiveOnly : NotForInit(f)
  \/ accept \/ simple_transfer \/ send \/ combine("combine_and", "And") \/ combine("combine_or", "Or")

Spec == Init /\ [][Next]_vars

(***************************************************************************)
(* Properties.                                                              *)
(***************************************************************************)
\* A module that passes validation and is stored as an artifact calls the
\* functions it imported, and each finds on the unchecked stack exactly the
\* arguments the module was checked to push: the type that validation asks
\* for, what the host function pops and the tags all agree, and what validation
\* lets through can be compiled.  (Once per start.)
ImportsFitTheStack ==
  status = "running" /\ calls = 0 =>
  /\ \A f \in DOMAIN HostStack :
       validate_import_function[f] = Type(Reverse(HostStack[f].pops), HostStack[f].push)
  /\ DOMAIN validate_import_function = UNION {try_from_import[k] : k \in DOMAIN try_from_import}
  /\ DOMAIN ImportTag = DOMAIN validate_import_function \cup {"account_memory"}
  /\ \A f \in DOMAIN ImportTag : ParseTag[ImportTag[f] - 2] = f

\* What the operations so far say byte i (from zero) of the state is: that of
\* the last write that reached it within the limit, unless the state was cut
\* below it since then, and zero or the byte given at the start otherwise.
Expected(i) ==
  LET reaches(k) == ops[k].op = "write" /\ ops[k].at <= i /\ i < ops[k].at + Len(ops[k].bytes)
      cuts(k) == ops[k].op = "resize" /\ ops[k].at <= i
      last == {k \in 1 .. Len(ops) : (reaches(k) \/ cuts(k)) /\ \A j \in k + 1 .. Len(ops) : ~reaches(j) /\ ~cuts(j)} IN
  IF \E k \in last : reaches(k) THEN LET k == CHOOSE k \in last : TRUE IN ops[k].bytes[i - ops[k].at + 1]
  ELSE IF last = {} /\ kind = "receive" /\ i < Len(CurrentState) THEN CurrentState[i + 1] ELSE 0

\* State::write_state and resize_state give a byte array that keeps what was
\* written, is filled with zeros where it grows, also where it was longer
\* before, and never exceeds MAX_CONTRACT_STATE.
StateIsWhatWasWritten ==
  /\ Len(state) <= MAX_CONTRACT_STATE
  /\ \A i \in 1 .. Len(state) : state[i] = Expected(i - 1)

\* Whatever is copied between the contract and the host, and every byte of
\* memory it is given, has been paid for before the step.
WorkIsPaid == work.bytes <= work.paid

\* A host call changes the memory only inside of the window it was asked to
\* fill, and never shrinks it.  (What a step may do.)
MemoryOutsideIsUntouched ==
  /\ Len(mem') >= Len(mem)
  /\ \A j \in 1 .. Len(mem) : mem'[j] # mem[j] =>
       work'.asked.start < j /\ j <= work'.asked.start + work'.asked.length

\* The outcome of a receive method is a well-founded tree: the last action of
\* the result is the one the method returned, and every combination refers to
\* actions that come before it and are part of the result.
OutcomesAreTrees ==
  status = "done" /\ kind = "receive" /\ result.tag = "Success" =>
    /\ result.actions # <<>>
    /\ \A i \in 1 .. Len(result.actions) :
         result.actions[i].tag \in {"And", "Or"} => result.actions[i].l < i - 1 /\ result.actions[i].r < i - 1

\* The reader of the bytes, which lives in the consensus layer.
DecodeLog(s) == [logs |-> Append(s.logs, SubSeq(s.b, 2, 1 + s.b[1])), b |-> SubSeq(s.b, 2 + s.b[1], Len(s.b))]
DecodeLogs(b) == FoldLeft(LAMBDA s, i : DecodeLog(s), [logs |-> <<>>, b |-> Tail(b)], [i \in 1 .. b[1] |-> i])
DecodeAction(s) ==
  LET b == Tail(s.b)
      After(n) == SubSeq(b, n + 1, Len(b)) IN
  CASE s.b[1] = 0 ->
         LET n == b[1]  p == b[n + 3] IN
         [as |-> Append(s.as, Act("Send", b[n + 2], 0, SubSeq(b, 2, n + 1), SubSeq(b, n + 4, n + 3 + p))),
          b |-> After(n + 3 + p)]
    [] s.b[1] = 1 -> [as |-> Append(s.as, Act("SimpleTransfer", b[AddrLen + 1], 0, SubSeq(b, 1, AddrLen), <<>>)),
                      b |-> After(AddrLen + 1)]
    [] s.b[1] \in {2, 3} -> [as |-> Append(s.as, Act(IF s.b[1] = 2 THEN "Or" ELSE "And", b[1], b[2], <<>>, <<>>)),
                             b |-> After(2)]
    [] OTHER -> [as |-> Append(s.as, Act("Accept", 0, 0, <<>>, <<>>)), b |-> b]
DecodeActions(b) ==
  FoldLeft(LAMBDA s, i : DecodeAction(s), [as |-> <<>>, b |-> Tail(b)], [i \in 1 .. b[1] |-> i])
Decoded(b) ==
  IF b[1] = 1 THEN [tag |-> "Reject", reason |-> b[2], state |-> <<>>, logs |-> <<>>, actions |-> <<>>, energy |-> b[3]]
  ELSE LET ls == DecodeLogs(SubSeq(b, 3 + b[2], Len(b)))
           as == IF kind = "init" THEN [as |-> <<>>, b |-> ls.b] ELSE DecodeActions(ls.b) IN
       [tag |-> "Success", reason |-> 0, state |-> SubSeq(b, 3, 2 + b[2]), logs |-> ls.logs,
        actions |-> as.as, energy |-> as.b[1]]

\* The consensus layer reads from the bytes exactly the result of the
\* invocation, or that it ran out of energy.
ResultsAreReadBack ==
  status = "delivered" => IF out = <<0>> THEN result = <<>> ELSE Decoded(out) = result
===========================================================================
