---------------------------- MODULE WasmNumeric ---------------------------
(***************************************************************************)
(* The instructions of the interpreter on numbers and bytes                 *)
(* (smart-contracts/wasm-transform/src/machine.rs), on a machine with small *)
(* words: a byte has 2^B values, and i16, i32 and i64 are 2, 4 and 8 bytes. *)
(* A register is a union: an i32 instruction reads and writes its short     *)
(* half and leaves the other half as it was.  ty and val are the types and  *)
(* the values that the registers hold by the rules of Wasm, where a value   *)
(* is an unsigned number.                                                   *)
(***************************************************************************)
EXTENDS Integers, Sequences, FiniteSets, FiniteSetsExt, Functions

CONSTANTS
  B,          \* the bits of a byte
  Values,     \* the values a constant may have
  MaxOps,     \* the longest sequence of instructions
  Ops1, Ops2  \* the unary and binary instructions of the run

WidthAssumption == B \in Nat \ {0} /\ Values \subseteq 0..(2^(8 * B) - 1)

VARIABLES reg, ty, val, mem, spec, n, trap, mustTrap

vars == <<reg, ty, val, mem, spec, n, trap, mustTrap>>

Regs == 1..2
Bits(t) == IF t = "i32" THEN 4 * B ELSE 8 * B
Pow(k) == 2^k
Size(t) == Pow(Bits(t))

\* The casts: a number as a signed one of k bits, and a number reduced to k bits.
Signed(x, k) == IF x % Pow(k) >= Pow(k - 1) THEN (x % Pow(k)) - Pow(k) ELSE x % Pow(k)
Wrap(x, k) == x % Pow(k)
Bool(b) == IF b THEN 1 ELSE 0

Short(r) == reg[r] % Pow(4 * B)
\* target.short = x keeps the rest of the union, target.long = x replaces all of it.
WriteShort(r, x) == [reg EXCEPT ![r] = @ - (@ % Pow(4 * B)) + x]
WriteLong(r, x) == [reg EXCEPT ![r] = x]
Read(r, t) == IF t = "i32" THEN Short(r) ELSE reg[r]
WriteAs(r, t, x) == IF t = "i32" THEN WriteShort(r, x) ELSE WriteLong(r, x)

(***************************************************************************)
(* What the instructions compute.  x and y are words of k bits; the result  *)
(* is a word, or None for a failed division.                                *)
(***************************************************************************)
None == 0 - 1
\* Rust divides towards zero.
DivTrunc(a, b) ==
  LET q == (IF a < 0 THEN 0 - a ELSE a) \div (IF b < 0 THEN 0 - b ELSE b)
  IN  IF (a < 0) = (b < 0) THEN q ELSE 0 - q

CheckedDivS(x, y, k) ==
  LET a == Signed(x, k) b == Signed(y, k)
  IN  IF b = 0 \/ (b = 0 - 1 /\ a = 0 - Pow(k - 1)) THEN None ELSE Wrap(DivTrunc(a, b), k)

CheckedRemS(x, y, k) ==
  LET a == Signed(x, k) b == Signed(y, k)
  IN  IF b = 0 \/ (b = 0 - 1 /\ a = 0 - Pow(k - 1)) THEN None
      ELSE Wrap(a - b * DivTrunc(a, b), k)

BitsOf(x, k) == [i \in 0..(k - 1) |-> (x \div Pow(i)) % 2]
FromBits(f, k) == FoldFunction(+, 0, [i \in 0..(k - 1) |-> f[i] * Pow(i)])

\* A shift of a signed number rounds down; the distance is taken modulo the width.
ShiftRightS(x, y, k) == Wrap(Signed(x, k) \div Pow(y % k), k)

Arithmetic(op, x, y, k) ==
  CASE op = "Add" -> Wrap(x + y, k)
    [] op = "Sub" -> Wrap(x - y, k)
    [] op = "Mul" -> Wrap(x * y, k)
    [] op = "DivS" -> CheckedDivS(x, y, k)
    [] op = "DivU" -> IF y = 0 THEN None ELSE x \div y
    [] op = "RemS" -> CheckedRemS(x, y, k)
    [] op = "RemU" -> IF y = 0 THEN None ELSE x % y

Bitwise(op, x, y, k) ==
  LET a == BitsOf(x, k) b == BitsOf(y, k)
  IN CASE op = "And" -> FromBits([i \in 0..(k - 1) |-> a[i] * b[i]], k)
       [] op = "Or" -> FromBits([i \in 0..(k - 1) |-> a[i] + b[i] - a[i] * b[i]], k)
       [] op = "Xor" -> FromBits([i \in 0..(k - 1) |-> (a[i] + b[i]) % 2], k)
       [] op = "Shl" -> Wrap(x * Pow(y % k), k)
       [] op = "ShrS" -> ShiftRightS(x, y, k)
       [] op = "ShrU" -> x \div Pow(y % k)
       [] op = "Rotl" -> FromBits([i \in 0..(k - 1) |-> a[(i - (y % k)) % k]], k)
       [] op = "Rotr" -> FromBits([i \in 0..(k - 1) |-> a[(i + (y % k)) % k]], k)

Comparison(op, x, y, k) ==
  CASE op = "Eq" -> Bool(x = y)
    [] op = "Ne" -> Bool(x # y)
    [] op = "LtS" -> Bool(Signed(x, k) < Signed(y, k))
    [] op = "LtU" -> Bool(x < y)
    [] op = "GtS" -> Bool(Signed(x, k) > Signed(y, k))
    [] op = "GtU" -> Bool(x > y)
    [] op = "LeS" -> Bool(Signed(x, k) <= Signed(y, k))
    [] op = "LeU" -> Bool(x <= y)
    [] op = "GeS" -> Bool(Signed(x, k) >= Signed(y, k))
    [] op = "GeU" -> Bool(x >= y)

ArithmeticOps == {"Add", "Sub", "Mul", "DivS", "DivU", "RemS", "RemU"}
BitwiseOps == {"And", "Or", "Xor", "Shl", "ShrS", "ShrU", "Rotl", "Rotr"}
ComparisonOps == {"Eq", "Ne", "LtS", "LtU", "GtS", "GtU", "LeS", "LeU", "GeS", "GeU"}

BinaryResult(op, x, y, k) ==
  IF op \in ArithmeticOps THEN Arithmetic(op, x, y, k)
  ELSE IF op \in BitwiseOps THEN Bitwise(op, x, y, k) ELSE Comparison(op, x, y, k)

LeadingZeros(x, k) == k - Max({0} \union {i \in 1..k : x >= Pow(i - 1)})
TrailingZeros(x, k) == Max({i \in 0..k : x % Pow(i) = 0})
CountOnes(x, k) == FoldFunction(+, 0, BitsOf(x, k))

UnaryResult(op, x, k) ==
  CASE op = "Eqz" -> Bool(x = 0)
    [] op = "Clz" -> LeadingZeros(x, k)
    [] op = "Ctz" -> TrailingZeros(x, k)
    [] op = "Popcnt" -> CountOnes(x, k)
    [] op = "Extend8S" -> Wrap(Signed(x, B), k)
    [] op = "Extend16S" -> Wrap(Signed(x, 2 * B), k)
    [] op = "Extend32S" -> Wrap(Signed(x, 4 * B), k)
    [] op = "Wrap" -> Wrap(x, 4 * B)
    [] op = "ExtendS" -> Wrap(Signed(x, 4 * B), 8 * B)
    [] op = "ExtendU" -> x

(***************************************************************************)
(* The same instructions by the rules of Wasm.  A quotient is the number    *)
(* with 0 <= |a - b q| < |b| and a remainder of a's sign; None is a trap.   *)
(***************************************************************************)
Abs(a) == IF a < 0 THEN 0 - a ELSE a
Quotient(a, b) ==
  CHOOSE q \in (0 - Abs(a))..Abs(a) :
    /\ Abs(a - b * q) < Abs(b)
    /\ a - b * q = 0 \/ (a - b * q < 0) = (a < 0)

Rotations(x, k, d) == ((x * Pow(d % k)) % Pow(k)) + ((x * Pow(d % k)) \div Pow(k))

SpecBinary(op, x, y, k) ==
  LET a == Signed(x, k) b == Signed(y, k)
  IN CASE op = "Add" -> (x + y) % Pow(k)
       [] op = "Sub" -> (x - y) % Pow(k)
       [] op = "Mul" -> (x * y) % Pow(k)
       [] op = "DivS" -> IF y = 0 \/ Quotient(a, b) = Pow(k - 1) THEN None
                         ELSE Quotient(a, b) % Pow(k)
       [] op = "RemS" -> IF y = 0 THEN None ELSE (a - b * Quotient(a, b)) % Pow(k)
       [] op = "DivU" -> IF y = 0 THEN None ELSE Max({q \in 0..x : q * y <= x})
       [] op = "RemU" -> IF y = 0 THEN None ELSE x - y * Max({q \in 0..x : q * y <= x})
       [] op = "And" -> SumSet({Pow(i) : i \in {j \in 0..(k-1) : BitsOf(x, k)[j] = 1 /\ BitsOf(y, k)[j] = 1}})
       [] op = "Or" -> SumSet({Pow(i) : i \in {j \in 0..(k-1) : BitsOf(x, k)[j] = 1 \/ BitsOf(y, k)[j] = 1}})
       [] op = "Xor" -> SumSet({Pow(i) : i \in {j \in 0..(k-1) : BitsOf(x, k)[j] # BitsOf(y, k)[j]}})
       [] op = "Shl" -> (x * Pow(y % k)) % Pow(k)
       [] op = "ShrU" -> SumSet({Pow(i) : i \in {j \in 0..(k-1) : j + (y % k) < k /\ BitsOf(x, k)[j + (y % k)] = 1}})
       [] op = "ShrS" -> SumSet({Pow(i) : i \in {j \in 0..(k-1) :
                            BitsOf(x, k)[IF j + (y % k) < k THEN j + (y % k) ELSE k - 1] = 1}})
       [] op = "Rotl" -> Rotations(x, k, y)
       [] op = "Rotr" -> Rotations(x, k, k - (y % k))
       [] OTHER -> LET l == IF op \in {"LtS", "GtS", "LeS", "GeS"} THEN a ELSE x
                       r == IF op \in {"LtS", "GtS", "LeS", "GeS"} THEN b ELSE y
                   IN  Bool(\/ l < r /\ op \in {"LtS", "LtU", "LeS", "LeU", "Ne"}
                            \/ l = r /\ op \in {"Eq", "LeS", "LeU", "GeS", "GeU"}
                            \/ l > r /\ op \in {"GtS", "GtU", "GeS", "GeU", "Ne"})

SignExtend(x, from, to) == (x % Pow(from)) + BitsOf(x, from)[from - 1] * (Pow(to) - Pow(from))

SpecUnary(op, x, k) ==
  CASE op = "Eqz" -> Bool(x = 0)
    [] op = "Clz" -> Cardinality({i \in 0..(k - 1) : x < Pow(i)})
    [] op = "Ctz" -> Cardinality({i \in 1..k : x % Pow(i) = 0})
    [] op = "Popcnt" -> Cardinality({i \in 0..(k - 1) : BitsOf(x, k)[i] = 1})
    [] op = "Extend8S" -> SignExtend(x, B, k)
    [] op = "Extend16S" -> SignExtend(x, 2 * B, k)
    [] op = "Extend32S" -> SignExtend(x, 4 * B, k)
    [] op = "Wrap" -> x % Pow(4 * B)
    [] op = "ExtendS" -> SignExtend(x, 4 * B, 8 * B)
    [] op = "ExtendU" -> x

(***************************************************************************)
(* The machine.                                                             *)
(***************************************************************************)
MemBytes == 9
Init ==
  /\ reg \in [Regs -> {0}] /\ val = reg /\ ty = [r \in Regs |-> "i64"]
  /\ mem = [a \in 0..(MemBytes - 1) |-> a % Pow(B)] /\ spec = mem
  /\ n = 0 /\ trap = FALSE /\ mustTrap = FALSE

Ready == n < MaxOps /\ ~trap /\ ~mustTrap /\ n' = n + 1

\* A constant is stored as an i64; an i32 constant is read through the short half.
Constant(r, t, x) ==
  /\ Ready
  /\ reg' = WriteLong(r, Wrap(Signed(x, Bits(t)), 8 * B))
  /\ ty' = [ty EXCEPT ![r] = t] /\ val' = [val EXCEPT ![r] = x % Size(t)]
  /\ UNCHANGED <<mem, spec, trap, mustTrap>>

\* An operand and the type of the result of an instruction on type t.
ResultType(op, t) ==
  CASE op \in ComparisonOps \union {"Eqz", "Wrap"} -> "i32"
    [] op \in {"ExtendS", "ExtendU"} -> "i64"
    [] OTHER -> t

Store(r, t, x, y) ==
  /\ trap' = (x = None) /\ mustTrap' = (y = None)
  /\ reg' = IF x = None THEN reg ELSE WriteAs(r, t, x)
  /\ val' = IF y = None THEN val ELSE [val EXCEPT ![r] = y]
  /\ ty' = IF y = None THEN ty ELSE [ty EXCEPT ![r] = t]
  /\ UNCHANGED <<mem, spec>>

Unary(op, s, r) ==
  /\ Ready
  /\ op = "Wrap" => ty[s] = "i64"
  /\ op \in {"ExtendS", "ExtendU"} => ty[s] = "i32"
  /\ op = "Extend32S" => ty[s] = "i64"
  /\ Store(r, ResultType(op, ty[s]), UnaryResult(op, Read(s, ty[s]), Bits(ty[s])),
           SpecUnary(op, val[s], Bits(ty[s])))

Binary(op, r) ==
  /\ Ready /\ ty[1] = ty[2]
  /\ Store(r, ResultType(op, ty[1]), BinaryResult(op, Read(1, ty[1]), Read(2, ty[1]), Bits(ty[1])),
           SpecBinary(op, val[1], val[2], Bits(ty[1])))

\* Loads of 1, 2, 4 or 8 bytes at the address in s, little endian; a narrow load
\* of a signed number extends its sign.
FromBytes(m, pos, bytes) == FoldFunction(+, 0, [i \in 0..(bytes - 1) |-> m[pos + i] * Pow(i * B)])

LoadFits(pos, bytes) == pos + bytes <= MemBytes

Load(s, r, t, bytes, signed) ==
  /\ Ready /\ ty[s] = "i32"
  /\ bytes * B <= Bits(t)
  /\ LET pos == Short(s)
         x == FromBytes(mem, pos, bytes)
         y == FromBytes(spec, val[s], bytes)
     IN  Store(r, t, IF ~LoadFits(pos, bytes) THEN None
                     ELSE IF signed THEN Wrap(Signed(x, bytes * B), Bits(t)) ELSE x,
                     IF val[s] > MemBytes - bytes THEN None
                     ELSE IF signed THEN SignExtend(y, bytes * B, Bits(t)) ELSE y)

\* Stores write the low bytes of the value, all of them or none.
StoreBytes(s, d, bytes) ==
  /\ Ready /\ ty[s] = "i32" /\ bytes * B <= Bits(ty[d])
  /\ LET pos == Short(s)
         x == Read(d, ty[d])
     IN  /\ trap' = ~LoadFits(pos, bytes)
         /\ mem' = IF ~LoadFits(pos, bytes) THEN mem
                   ELSE [a \in DOMAIN mem |-> IF a >= pos /\ a < pos + bytes
                                               THEN (x \div Pow((a - pos) * B)) % Pow(B) ELSE mem[a]]
         /\ mustTrap' = (val[s] > MemBytes - bytes)
         /\ spec' = IF val[s] > MemBytes - bytes THEN spec
                    ELSE [a \in DOMAIN spec |->
                            IF a - val[s] \in 0..(bytes - 1)
                            THEN FromBits([i \in 0..(B - 1) |->
                                   BitsOf(val[d], 8 * B)[(a - val[s]) * B + i]], B) ELSE spec[a]]
  /\ UNCHANGED <<reg, ty, val>>

Next ==
  \/ \E r \in Regs, t \in {"i32", "i64"}, x \in Values : Constant(r, t, x)
  \/ \E op \in Ops1, s, r \in Regs : Unary(op, s, r)
  \/ \E op \in Ops2, r \in Regs : Binary(op, r)
  \/ \E s, r \in Regs, t \in {"i32", "i64"}, bytes \in {1, 2, 4, 8}, signed \in BOOLEAN :
       Load(s, r, t, bytes, signed)
  \/ \E s, d \in Regs, bytes \in {1, 2, 4, 8} : StoreBytes(s, d, bytes)

Spec == Init /\ [][Next]_vars

(***************************************************************************)
(* Properties.                                                              *)
(***************************************************************************)
\* A register read at its type holds the value Wasm gives it, whatever is left in the
\* other half of the union, and the bytes of the memory are those of Wasm.
RegistersHoldValues ==
  /\ \A r \in Regs : Read(r, ty[r]) = val[r]
  /\ mem = spec

\* An instruction fails exactly when Wasm says that it traps.
TrapsAsSpecified == trap = mustTrap
=============================================================================
