-------------------------- MODULE ChainParameters --------------------------
(***************************************************************************)
(* How the values of chain parameters enter and leave the library: decimals *)
(* given by users become fractions, mint rates and ratios (base.rs,         *)
(* common/types.rs).                                                        *)
(*                                                                         *)
(* A decimal is mantissa / 10^scale (the rust_decimal crate).  The five     *)
(* decimals of a fraction are scaled to Decimals, the integer widths to     *)
(* U32 and U64.                                                             *)
(***************************************************************************)
EXTENDS Integers, FiniteSetsExt, Sequences

CONSTANTS Decimals,     \* 5: decimals of a fraction
          U32, U64,     \* largest values of the two widths
          MaxMantissa, MaxScale

VARIABLES decimal,      \* the decimal as entered
          fraction, rate, ratio   \* the converted values, <<>> when refused

vars == <<decimal, fraction, rate, ratio>>

Decimal(m, s) == [mantissa |-> m, scale |-> s]

\* Trailing zeros of the fraction are dropped (the crate).
normalize(d) == LET s == Min({t \in 0 .. d.scale : d.mantissa % 10^(d.scale - t) = 0})
                IN  Decimal(d.mantissa \div 10^(d.scale - s), s)

Whole == 10^Decimals

PartsPerHundredThousands_try_from(d) ==
  LET f == normalize(d)
      p == f.mantissa * 10^(Decimals - f.scale)
  IN  IF f.scale > Decimals THEN <<>>
      ELSE IF f.mantissa < 0 THEN <<>>
      ELSE IF p > Whole THEN <<>> ELSE <<p>>

\* Written as a decimal with five decimals.
PartsPerHundredThousands_serialize(p) == Decimal(p, Decimals)

MintRate_try_from(d) ==
  LET f == normalize(d)
  IN  IF f.mantissa \in 0 .. U32 THEN <<[mantissa |-> f.mantissa, exponent |-> f.scale]>> ELSE <<>>
MintRate_serialize(r) == Decimal(r.mantissa, r.exponent)

gcd(a, b) == CHOOSE g \in 1 .. (a + b) : /\ a % g = 0 /\ b % g = 0
                                         /\ \A h \in g + 1 .. (a + b) : ~(a % h = 0 /\ b % h = 0)

Ratio_try_from(d) ==
  LET f == normalize(d)
      den == 10^f.scale
      g == gcd(f.mantissa, den)
  IN  IF den > U64 \/ f.mantissa \notin 0 .. U64 THEN <<>>
      ELSE <<[numerator |-> f.mantissa \div g, denominator |-> den \div g]>>

-----------------------------------------------------------------------------
Init == /\ decimal = Decimal(0, 0) /\ fraction = <<0>>
        /\ rate = <<[mantissa |-> 0, exponent |-> 0]>>
        /\ ratio = <<[numerator |-> 0, denominator |-> 1]>>

\* A user enters a decimal.
Enter(d) ==
  /\ decimal' = d
  /\ fraction' = PartsPerHundredThousands_try_from(d)
  /\ rate' = MintRate_try_from(d)
  /\ ratio' = Ratio_try_from(d)

\* What was converted is written as a decimal and entered again.
Reenter ==
  \/ fraction # <<>> /\ Enter(PartsPerHundredThousands_serialize(fraction[1]))
  \/ rate # <<>> /\ Enter(MintRate_serialize(rate[1]))

Next == (\E m \in -1 .. MaxMantissa, s \in 0 .. MaxScale : Enter(Decimal(m, s))) \/ Reenter
Spec == Init /\ [][Next]_vars

-----------------------------------------------------------------------------
\* A converted value equals the decimal that was entered, and a decimal is refused only
\* when no value of the type equals it (a ratio: when its digits exceed the width): neither
\* trailing zeros, nor the order of the checks, nor the reduction of a ratio changes what the user wrote (the three try_from).
ConversionIsExact ==
  LET Equal(n, d) == decimal.mantissa * d = n * 10^decimal.scale
  IN  /\ IF fraction # <<>> THEN Equal(fraction[1], Whole) /\ fraction[1] <= Whole
         ELSE \A p \in 0 .. Whole : ~Equal(p, Whole)
      /\ IF rate # <<>> THEN Equal(rate[1].mantissa, 10^rate[1].exponent)
         ELSE \A m \in 0 .. U32 : ~\E e \in 0 .. MaxScale : Equal(m, 10^e)
      /\ IF ratio # <<>>
         THEN /\ Equal(ratio[1].numerator, ratio[1].denominator)
              /\ gcd(ratio[1].numerator, ratio[1].denominator) = 1
         ELSE ~(decimal.mantissa \in 0 .. U64 /\ 10^decimal.scale <= U64)

=============================================================================
