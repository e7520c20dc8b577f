------------------------- MODULE GroupArithmetic --------------------------
(***************************************************************************)
(* The groups and schemes the proofs are built from                         *)
(* (rust-src/concordium_base/src: curve_arithmetic, pedersen_commitment,    *)
(* elgamal, ps_sig).  A group of prime order q is given by its exponents:   *)
(* an element is the logarithm to a fixed generator, so adding points is    *)
(* addition and multiplying by a scalar is multiplication modulo q, and the *)
(* pairing of two elements is the product of their exponents.               *)
(***************************************************************************)
EXTENDS Integers, Sequences, SequencesExt

CONSTANT q   \* the order of the groups, a small prime

Scalars == 0 .. q - 1
NonZero == 1 .. q - 1

inverse(x) == CHOOSE y \in Scalars : (x * y) % q = 1

\* multiexp(gs, exps): pairs are formed up to the shorter of the two.
multiexp(gs, exps) ==
  FoldLeft(LAMBDA a, i : (a + gs[i] * exps[i]) % q, 0,
           [i \in 1 .. (IF Len(gs) < Len(exps) THEN Len(gs) ELSE Len(exps)) |-> i])

pair(a, b) == (a * b) % q
pairing_product(a, b, c, d) == (a * b + c * d) % q

(***************************************************************************)
(* Pedersen commitments and ElGamal encryption.                             *)
(***************************************************************************)
hide_worker(g, h, value, randomness) == multiexp(<<g, h>>, <<value, randomness>>)

\* encrypt_exponent_rand_given_generator, with the randomness it draws.
encrypt_exponent(pk, h, value, randomness) ==
  <<(pk.generator * randomness) % q, multiexp(<<pk.key, h>>, <<randomness, value>>)>>

decrypt(scalar, c) == (c[2] - c[1] * scalar) % q
combine(c, d) == <<(c[1] + d[1]) % q, (c[2] + d[2]) % q>>
scale(c, e) == <<(c[1] * e) % q, (c[2] * e) % q>>

(***************************************************************************)
(* Signatures of Pointcheval and Sanders.                                   *)
(***************************************************************************)
PsPublicKey(sk) ==
  [g |-> 1, g_tilda |-> 1, ys |-> sk.ys, y_tildas |-> sk.ys, x_tilda |-> sk.x]

\* sign_unknown_message with the randomness r.
sign_unknown_message(sk, message, r) == <<r, ((sk.x + message) * r) % q>>
retrieve(sig, mask) == <<sig[1], (sig[2] - sig[1] * mask) % q>>
blind(sig, r, t) == <<(sig[1] * r) % q, ((sig[2] + sig[1] * t) * r) % q>>

===========================================================================
