--------------------------- MODULE Bulletproofs ---------------------------
(***************************************************************************)
(* Range, set membership and set non-membership proofs                      *)
(* (rust-src/concordium_base/src/bulletproofs).  A group element is the     *)
(* vector of its coefficients over the generators G_1..G_N, H_1..H_N, B and *)
(* B_tilde, between which no relation is known, modulo the order q.  One    *)
(* action per message of the prover; the challenge the transcript answers   *)
(* with is any scalar of a given set.  Verification is a function of the    *)
(* statement, the proof and the challenges.                                 *)
(***************************************************************************)
EXTENDS Integers, Sequences, SequencesExt, FiniteSets

CONSTANTS q,        \* the order of the group, a prime
          N,        \* how many pairs (G_i, H_i) of generators there are
          Inputs,   \* what the prover is asked to prove: see InputFields
          Seeds,    \* the streams of randomness
          Ys, Zs, Xs, Ws, Us   \* the scalars a challenge may be

VARIABLES phase, in, ch, secret, proof, tr

vars == <<phase, in, ch, secret, proof, tr>>

(***************************************************************************)
(* Scalars and group elements.                                              *)
(***************************************************************************)
Force(s) == <<>> \o s
Sum(s) == FoldLeft(LAMBDA x, y : (x + y) % q, 0, s)
inverse(x) == CHOOSE y \in 0 .. q - 1 : (x * y) % q = 1

Power(x, k) == IF k = 0 THEN 1 ELSE (x ^ k) % q

Dim == 2 * N + 2
Unit(i) == Force([d \in 1 .. Dim |-> IF d = i THEN 1 ELSE 0])
Gs(k) == [i \in 1 .. k |-> Unit(i)]
Hs(k) == [i \in 1 .. k |-> Unit(N + i)]
B == Unit(2 * N + 1)
B_tilde == Unit(2 * N + 2)
PlusPoint(P, R) == Force([d \in 1 .. Dim |-> (P[d] + R[d]) % q])
MulByScalar(P, s) == Force([d \in 1 .. Dim |-> (P[d] * s) % q])
MinusPoint(P, R) == PlusPoint(P, MulByScalar(R, q - 1))
IsZeroPoint(P) == \A d \in 1 .. Dim : P[d] = 0
multiexp(bases, exps) ==
  FoldLeft(LAMBDA acc, i : PlusPoint(acc, MulByScalar(bases[i], exps[i])),
           [d \in 1 .. Dim |-> 0],
           [i \in 1 .. (IF Len(bases) < Len(exps) THEN Len(bases) ELSE Len(exps)) |-> i])
hide(value, r) == multiexp(<<B, B_tilde>>, <<value, r>>)

\* The k-th scalar a stream of randomness yields.
generate_scalar(seed, k) == (seed * (k + 2) + k * k) % q
Draw(seed, from, k) == Force([i \in 1 .. k |-> generate_scalar(seed, from + i)])

(***************************************************************************)
(* utils.rs                                                                 *)
(***************************************************************************)
z_vec(z, first_power, n) ==
  FoldLeft(LAMBDA s, i : Append(s, IF i = 1 THEN Power(z, first_power)
                                            ELSE (Last(s) * z) % q),
           <<>>, [i \in 1 .. n |-> i])

IsPowerOfTwo(n) == \E k \in 0 .. 8 : n = 2 ^ k
NextPowerOfTwo(n) == 2 ^ (CHOOSE k \in 0 .. 8 : 2 ^ k >= n /\ \A l \in 0 .. k - 1 : 2 ^ l < n)

pad_vector_to_power_of_two(vec) ==
  IF Len(vec) = 0 THEN vec
  ELSE vec \o Force([i \in 1 .. NextPowerOfTwo(Len(vec)) - Len(vec) |-> Last(vec)])

inner_product(a, b) == Sum([i \in 1 .. Len(a) |-> (a[i] * b[i]) % q])

(***************************************************************************)
(* inner_product_proof.rs.  The prover's vectors shrink by half in every    *)
(* round; in the first one the scalars of H stand before the H_i.           *)
(***************************************************************************)
Lo(v) == SubSeq(v, 1, Len(v) \div 2)
Hi(v) == SubSeq(v, Len(v) \div 2 + 1, Len(v))
Times(v, w) == Force([i \in 1 .. Len(v) |-> (v[i] * w[i]) % q])

\* The message (Lj, Rj) of a round; Hsc are the scalars of the first round
\* and ones afterwards.
round_L_R(G, H, Hsc, Q, a, b) ==
  <<PlusPoint(PlusPoint(multiexp(Hi(G), Lo(a)), multiexp(Lo(H), Times(Hi(b), Lo(Hsc)))),
              MulByScalar(Q, inner_product(Lo(a), Hi(b)))),
    PlusPoint(PlusPoint(multiexp(Lo(G), Hi(a)), multiexp(Hi(H), Times(Lo(b), Hi(Hsc)))),
              MulByScalar(Q, inner_product(Hi(a), Lo(b))))>>

fold_round(st, u, ui) ==
  LET half == Len(st.a) \div 2 IN
  [st EXCEPT
     !.a = Force([i \in 1 .. half |-> (st.a[i] * u + st.a[i + half] * ui) % q]),
     !.b = Force([i \in 1 .. half |-> (st.b[i] * ui + st.b[i + half] * u) % q]),
     !.G = Force([i \in 1 .. half |-> multiexp(<<st.G[i], st.G[i + half]>>, <<ui, u>>)]),
     !.H = Force([i \in 1 .. half |->
                    multiexp(<<st.H[i], st.H[i + half]>>,
                             <<(u * st.Hsc[i]) % q, (ui * st.Hsc[i + half]) % q>>)]),
     !.Hsc = Force([i \in 1 .. half |-> 1])]

Log2(i) == CHOOSE l \in 0 .. 8 : 2 ^ l <= i /\ i < 2 ^ (l + 1)

verify_scalars(us, n) ==
  FoldLeft(LAMBDA s, i : Append(s, (s[i - 2 ^ Log2(i) + 1] * us[Len(us) - Log2(i)] ^ 2) % q),
           <<FoldLeft(LAMBDA p, u : (p * inverse(u)) % q, 1, us)>>,
           [i \in 1 .. n - 1 |-> i])

\* The exponents of the right-hand side without P_prime: G, H, Q, then (L, R).
rhs_exponents(H_exponents, ip, us, s) ==
  Force([i \in 1 .. Len(s) |-> (s[i] * ip.b_a) % q])
  \o Force([i \in 1 .. Len(s) |-> (((H_exponents[i] * Reverse(s)[i]) % q) * ip.b_b) % q])
  \o <<(ip.b_a * ip.b_b) % q>>
  \o FoldLeft(LAMBDA e, u : e \o <<(-(u * u)) % q, (-(inverse(u) * inverse(u))) % q>>, <<>>, us)

verify_inner_product_with_scalars(H_exponents, bases, exponents, ip, us) ==
  LET n == Len(H_exponents)
      k == 2 * n + 1
      lr == FoldLeft(LAMBDA s, e : s \o e, <<>>, ip.lr_vec)
      tail == SubSeq(exponents, k + 1, Len(exponents)) IN
  /\ \A i \in 1 .. Len(us) : us[i] # 0
  /\ \E rhs \in {rhs_exponents(H_exponents, ip, us, verify_scalars(us, n))} :
       IsZeroPoint(multiexp(
         SubSeq(bases, 1, k) \o lr \o SubSeq(bases, k + 1, Len(bases)),
         Force([i \in 1 .. k |-> (rhs[i] - exponents[i]) % q])
           \o SubSeq(rhs, k + 1, Len(rhs))
           \o Force([i \in 1 .. Len(tail) |-> (-tail[i]) % q])))

verify_inner_product(G, H, P_prime, Q, ip, us) ==
  verify_inner_product_with_scalars(
    [i \in 1 .. Len(G) |-> 1], G \o H \o <<Q, P_prime>>,
    Force([i \in 1 .. 2 * Len(G) + 1 |-> 0]) \o <<1>>, ip, us)

(***************************************************************************)
(* The bits of a value, of the first occurrence in a set, and the inverses  *)
(* that show a value is none of a set.                                      *)
(***************************************************************************)
Word(v, n) == v % 2 ^ n
a_L_bits(v, n) == Force([i \in 1 .. n |-> (v \div 2 ^ (i - 1)) % 2])
a_R_of(a_L) == Force([i \in 1 .. Len(a_L) |-> (a_L[i] - 1) % q])
two_n_vec(n) == Force([i \in 1 .. n |-> 2 ^ (i - 1) % q])

a_L_set(v, s) ==
  Force([i \in 1 .. Len(s) |-> IF s[i] = v /\ \A j \in 1 .. i - 1 : s[j] # v THEN 1 ELSE 0])

(***************************************************************************)
(* What a proof is about.  The bound proofs are range proofs of values      *)
(* derived from the ones given: scalars are cut to a word of n bits, and so *)
(* is the difference of two words.                                          *)
(***************************************************************************)
SetKind(i) == i.kind \in {"member", "nonmember"}

interval_values(i) == <<Word((i.vs[1] + 2 ^ i.n - i.b) % q, i.n), Word((i.vs[1] - i.a) % q, i.n)>>
less_than_or_equal_values(i) == <<Word(i.vs[2] - i.vs[1], i.n), i.vs[1]>>

prover_values(i) == CASE i.kind = "interval" -> interval_values(i)
                      [] i.kind = "leq" -> less_than_or_equal_values(i)
                      [] OTHER -> i.vs
prover_randomness(i) == CASE i.kind = "interval" -> <<i.rs[1], i.rs[1]>>
                          [] i.kind = "leq" -> <<(i.rs[2] - i.rs[1]) % q, i.rs[1]>>
                          [] OTHER -> i.rs

interval_commitments(i) ==
  LET c == hide(i.vs[1] % q, i.rs[1]) IN
  <<PlusPoint(MinusPoint(c, hide(i.b, 0)), hide(2 ^ i.n % q, 0)), MinusPoint(c, hide(i.a, 0))>>
less_than_or_equal_commitments(i) ==
  LET com(j) == hide(i.vs[j] % q, i.rs[j]) IN <<MinusPoint(com(2), com(1)), com(1)>>
Commitments(i) == CASE i.kind = "interval" -> interval_commitments(i)
                    [] i.kind = "leq" -> less_than_or_equal_commitments(i)
                    [] i.kind = "ip" -> <<>>
                    [] OTHER -> Force([j \in 1 .. Len(i.vs) |-> hide(i.vs[j] % q, i.rs[j])])

Padded(i) == pad_vector_to_power_of_two(i.set)
Size(i) == IF SetKind(i) THEN Len(Padded(i)) ELSE i.n * Len(prover_values(i))

(***************************************************************************)
(* The prover.  First message: the vectors a, s and their commitments.      *)
(***************************************************************************)
range_vectors(i, seed) ==
  LET vs == prover_values(i)
      a_L == FoldLeft(LAMBDA s, v : s \o a_L_bits(v, i.n), <<>>, vs) IN
  [a_L |-> a_L, a_R |-> a_R_of(a_L), s_L |-> Draw(seed, 0, Size(i)), s_R |-> Draw(seed, 10, Size(i)),
   a_tilde |-> Draw(seed, 20, Len(vs)), s_tilde |-> Draw(seed, 30, Len(vs))]

member_vectors(i, seed) ==
  LET a_L == a_L_set(i.vs[1], Padded(i)) IN
  [a_L |-> a_L, a_R |-> a_R_of(a_L), s_L |-> Draw(seed, 0, Size(i)), s_R |-> Draw(seed, 10, Size(i)),
   a_tilde |-> Draw(seed, 20, 1), s_tilde |-> Draw(seed, 30, 1)]

nonmember_vectors(i, seed) ==
  [a_L |-> Force([k \in 1 .. Size(i) |-> inverse((i.vs[1] - Padded(i)[k]) % q)]),
   a_R |-> Force([k \in 1 .. Size(i) |-> i.vs[1]]),
   s_L |-> Draw(seed, 0, Size(i)), s_R |-> Draw(seed, 10, Size(i)),
   a_tilde |-> Draw(seed, 20, 1), s_tilde |-> Draw(seed, 30, 1)]

vectors(i, seed) == CASE i.kind = "member" -> member_vectors(i, seed)
                      [] i.kind = "nonmember" -> nonmember_vectors(i, seed)
                      [] OTHER -> range_vectors(i, seed)

commit_vectors(n, l, r, tilde) == multiexp(Gs(n) \o Hs(n) \o <<B_tilde>>, l \o r \o <<Sum(tilde)>>)

\* The messages both sides append before A and S.
header(i, coms) ==
  (IF SetKind(i) THEN <<<<i.kind>>>> ELSE <<>>)
  \o (IF i.version >= 2 THEN <<<<"G", Size(i)>>, <<"H", Size(i)>>, <<"v_keys">>>>
                               \o (IF SetKind(i) THEN <<>> ELSE <<<<"n", i.n>>>>)
      ELSE <<>>)
  \o Force([j \in 1 .. Len(coms) |-> <<"V", coms[j]>>])
  \o (IF SetKind(i) THEN <<<<"theSet", Padded(i)>>>> ELSE <<>>)

range_polynomials(i, s, y, z) ==
  LET y_nm == z_vec(y, 0, Size(i))
      z_m == z_vec(z, 0, Len(prover_values(i))) IN
  [l_0 |-> Force([k \in 1 .. Len(s.a_L) |-> (s.a_L[k] - z) % q]), l_1 |-> s.s_L,
   r_0 |-> Force([k \in 1 .. Len(s.a_R) |->
             ((s.a_R[k] + z) * y_nm[k]
              + z_m[((k - 1) \div i.n) + 1] * z * z * two_n_vec(i.n)[((k - 1) % i.n) + 1]) % q]),
   r_1 |-> Times(y_nm, s.s_R)]

member_polynomials(i, s, y, z) ==
  LET y_n == z_vec(y, 0, Size(i)) IN
  [l_0 |-> Force([k \in 1 .. Size(i) |-> (s.a_L[k] - z) % q]), l_1 |-> s.s_L,
   r_0 |-> Force([k \in 1 .. Size(i) |->
             ((s.a_R[k] + z) * y_n[k] + z * z * z + z * z * Padded(i)[k]) % q]),
   r_1 |-> Times(y_n, s.s_R)]

nonmember_polynomials(i, s, y, z) ==
  LET y_n == z_vec(y, 0, Size(i)) IN
  [l_0 |-> Force([k \in 1 .. Size(i) |-> (s.a_L[k] + z) % q]), l_1 |-> s.s_L,
   r_0 |-> Force([k \in 1 .. Size(i) |-> ((s.a_R[k] - Padded(i)[k]) * y_n[k]) % q]),
   r_1 |-> Times(y_n, s.s_R)]

polynomials(i, s, y, z) == CASE i.kind = "member" -> member_polynomials(i, s, y, z)
                             [] i.kind = "nonmember" -> nonmember_polynomials(i, s, y, z)
                             [] OTHER -> range_polynomials(i, s, y, z)

\* t_0, t_1 and t_2, by Karatsuba's trick for the one in the middle.
t_coefficients(l_0, l_1, r_0, r_1) ==
  LET t_0 == inner_product(l_0, r_0)
      t_2 == inner_product(l_1, r_1)
      both == Sum([k \in 1 .. Len(l_0) |-> ((l_0[k] + l_1[k]) * (r_0[k] + r_1[k])) % q]) IN
  <<t_0, (both - t_0 - t_2) % q, t_2>>

Block(v, j, n) == SubSeq(v, (j - 1) * n + 1, j * n)

\* A range proof computes the coefficients value by value.
range_t_coefficients(i, p) ==
  Force([j \in 1 .. Len(prover_values(i)) |->
           t_coefficients(Block(p.l_0, j, i.n), Block(p.l_1, j, i.n),
                          Block(p.r_0, j, i.n), Block(p.r_1, j, i.n))])
ts(i, p) == IF SetKind(i) THEN <<t_coefficients(p.l_0, p.l_1, p.r_0, p.r_1)>>
            ELSE range_t_coefficients(i, p)

SumOf(t, k) == Sum(Force([j \in 1 .. Len(t) |-> t[j][k]]))

(***************************************************************************)
(* Third message: the polynomials at x, and the randomness of what they     *)
(* are compared with.                                                       *)
(***************************************************************************)
range_tx_tilde(i, s, c, x) ==
  Sum([j \in 1 .. Len(prover_values(i)) |->
         (c.z * c.z * z_vec(c.z, 0, j)[j] * prover_randomness(i)[j]
          + x * s.t_1_tilde[j] + x * x * s.t_2_tilde[j]) % q])
member_tx_tilde(i, s, c, x) ==
  (c.z * c.z * i.rs[1] + x * s.t_1_tilde[1] + x * x * s.t_2_tilde[1]) % q
nonmember_tx_tilde(i, s, c, x) ==
  (c.z * Sum(z_vec(c.y, 0, Size(i))) * i.rs[1] + x * s.t_1_tilde[1] + x * x * s.t_2_tilde[1]) % q

tx_tilde(i, s, c, x) == CASE i.kind = "member" -> member_tx_tilde(i, s, c, x)
                          [] i.kind = "nonmember" -> nonmember_tx_tilde(i, s, c, x)
                          [] OTHER -> range_tx_tilde(i, s, c, x)

At(p_0, p_1, x) == Force([k \in 1 .. Len(p_0) |-> (p_1[k] * x + p_0[k]) % q])
tx(t, x) == Sum([j \in 1 .. Len(t) |-> (t[j][1] + t[j][2] * x + t[j][3] * x * x) % q])
e_tilde(s, x) == Sum([j \in 1 .. Len(s.a_tilde) |-> (s.a_tilde[j] + s.s_tilde[j] * x) % q])

(***************************************************************************)
(* The prover as a state machine.                                           *)
(***************************************************************************)
NoPoint == [d \in 1 .. Dim |-> 0]
NoProof == [A |-> NoPoint, S |-> NoPoint, T_1 |-> NoPoint, T_2 |-> NoPoint,
            tx |-> 0, tx_tilde |-> 0, e_tilde |-> 0, lr_vec |-> <<>>, b_a |-> 0, b_b |-> 0]

Init ==
  /\ in \in Inputs
  /\ phase = "commit"
  /\ ch = [y |-> 0, z |-> 0, x |-> 0, w |-> 0, us |-> <<>>]
  /\ secret = <<>> /\ proof = NoProof /\ tr = <<>>

\* prove returns before it has sent anything.
CannotProve(i) ==
  \/ i.kind # "ip" /\ Size(i) > N
  \/ Len(i.vs) # Len(i.rs) /\ ~SetKind(i) /\ i.kind # "ip"
  \/ i.kind = "member" /\ \A k \in 1 .. Size(i) : Padded(i)[k] # i.vs[1]
  \/ i.kind = "nonmember" /\ \E k \in 1 .. Size(i) : Padded(i)[k] = i.vs[1]
  \/ i.kind = "ip" /\ ~IsPowerOfTwo(Len(i.set))

Refuse ==
  /\ phase = "commit" /\ CannotProve(in)
  /\ phase' = "failed"
  /\ UNCHANGED <<in, ch, secret, proof, tr>>

Commit ==
  /\ phase = "commit" /\ ~CannotProve(in) /\ in.kind # "ip"
  /\ \E seed \in Seeds, y \in Ys, z \in Zs :
       \E v \in {vectors(in, seed)} :
         /\ secret' = [seed |-> seed, v |-> v]
         /\ proof' = [proof EXCEPT !.A = commit_vectors(Size(in), v.a_L, v.a_R, v.a_tilde),
                                   !.S = commit_vectors(Size(in), v.s_L, v.s_R, v.s_tilde)]
         /\ ch' = [ch EXCEPT !.y = y, !.z = z]
  /\ tr' = header(in, Force([j \in 1 .. Len(prover_values(in)) |->
                               hide(prover_values(in)[j] % q, prover_randomness(in)[j])]))
           \o <<<<"A", proof'.A>>, <<"S", proof'.S>>>>
  /\ phase' = "polynomials"
  /\ UNCHANGED in

Polynomials ==
  /\ phase = "polynomials"
  /\ \E p \in {polynomials(in, secret.v, ch.y, ch.z)} : \E t \in {ts(in, p)} :
       \E t_1_tilde \in {Draw(secret.seed, 40, Len(t))}, t_2_tilde \in {Draw(secret.seed, 50, Len(t))} :
         /\ secret' = [v |-> secret.v, p |-> p, t |-> t,
                       t_1_tilde |-> t_1_tilde, t_2_tilde |-> t_2_tilde]
         /\ proof' = [proof EXCEPT !.T_1 = hide(SumOf(t, 2), Sum(t_1_tilde)),
                                   !.T_2 = hide(SumOf(t, 3), Sum(t_2_tilde))]
  /\ tr' = tr \o <<<<"T1", proof'.T_1>>, <<"T2", proof'.T_2>>>>
  /\ \E x \in Xs : ch' = [ch EXCEPT !.x = x]
  /\ phase' = "respond"
  /\ UNCHANGED in

\* The vectors the inner product argument starts from.
Folding(n, Hsc, Q, a, b) == [G |-> Force(Gs(n)), H |-> Force(Hs(n)), Hsc |-> Hsc, Q |-> Q, a |-> a, b |-> b]

Respond ==
  /\ phase = "respond"
  /\ proof' = [proof EXCEPT !.tx = tx(secret.t, ch.x),
                            !.tx_tilde = tx_tilde(in, secret, ch, ch.x),
                            !.e_tilde = e_tilde(secret.v, ch.x)]
  /\ tr' = tr \o <<<<"tx", proof'.tx>>, <<"tx_tilde", proof'.tx_tilde>>, <<"e_tilde", proof'.e_tilde>>>>
  /\ \E w \in Ws :
       /\ ch' = [ch EXCEPT !.w = w]
       /\ IF ch.y = 0 \/ ~IsPowerOfTwo(Size(in))
          THEN phase' = "failed" /\ secret' = <<>>
          ELSE /\ phase' = "fold"
               /\ secret' = Folding(Size(in), z_vec(inverse(ch.y), 0, Size(in)), MulByScalar(B, w),
                                    At(secret.p.l_0, secret.p.l_1, ch.x),
                                    At(secret.p.r_0, secret.p.r_1, ch.x))
  /\ UNCHANGED in

\* prove_inner_product: the scalars of H are ones.
ProveInnerProduct ==
  /\ phase = "commit" /\ ~CannotProve(in) /\ in.kind = "ip"
  /\ secret' = Folding(Len(in.set), Force([k \in 1 .. Len(in.set) |-> 1]), B, in.set, in.vs)
  /\ phase' = "fold"
  /\ UNCHANGED <<in, ch, proof, tr>>

FoldRound ==
  /\ phase = "fold" /\ Len(secret.a) > 1
  /\ \E lr \in {round_L_R(secret.G, secret.H, secret.Hsc, secret.Q, secret.a, secret.b)}, u \in Us :
       /\ proof' = [proof EXCEPT !.lr_vec = Append(@, lr)]
       /\ tr' = tr \o <<<<"Lj", lr[1]>>, <<"Rj", lr[2]>>>>
       /\ ch' = [ch EXCEPT !.us = Append(@, u)]
       /\ IF u = 0 THEN phase' = "failed" /\ secret' = <<>>
          ELSE secret' = fold_round(secret, u, inverse(u)) /\ UNCHANGED phase
  /\ UNCHANGED in

Finish ==
  /\ phase = "fold" /\ Len(secret.a) = 1
  /\ proof' = [proof EXCEPT !.b_a = secret.a[1], !.b_b = secret.b[1]]
  /\ secret' = <<>>
  /\ phase' = "proved"
  /\ UNCHANGED <<in, ch, tr>>

Next == Refuse \/ Commit \/ Polynomials \/ Respond \/ ProveInnerProduct \/ FoldRound \/ Finish
Spec == Init /\ [][Next]_vars

(***************************************************************************)
(* The verifier: st is [kind, n, size, set, V], p a proof and c the         *)
(* challenges.                                                              *)
(***************************************************************************)
Statement(i) ==
  [kind |-> i.kind, n |-> i.n, V |-> Commitments(i),
   set |-> IF SetKind(i) THEN Padded(i) ELSE i.set]
SizeOf(st) == IF st.kind \in {"member", "nonmember"} THEN Len(st.set) ELSE st.n * Len(st.V)

\* delta(y, z) of the three kinds.
range_delta(st, y, z) ==
  ((z - z * z) * Sum(z_vec(y, 0, SizeOf(st)))
   - Sum(z_vec(z, 3, Len(st.V))) * Sum(two_n_vec(st.n))) % q
member_delta(st, y, z) ==
  ((z - z * z) * Sum(z_vec(y, 0, SizeOf(st)))
   + ((1 - SizeOf(st) * z - Sum(st.set)) % q) * z * z * z) % q
nonmember_delta(st, y, z) ==
  (Sum(z_vec(y, 0, SizeOf(st))) - z * inner_product(st.set, z_vec(y, 0, SizeOf(st)))) % q

\* The first check: the committed values fit t(x).
range_t0_check(st, p, c) ==
  IsZeroPoint(MinusPoint(
    multiexp(<<B, B_tilde>>, <<p.tx, p.tx_tilde>>),
    PlusPoint(multiexp(st.V, z_vec(c.z, 2, Len(st.V))),
              multiexp(<<B, p.T_1, p.T_2>>, <<range_delta(st, c.y, c.z), c.x, (c.x * c.x) % q>>))))
member_t0_check(st, p, c) ==
  IsZeroPoint(multiexp(<<st.V[1], B, p.T_1, p.T_2, B_tilde>>,
                       <<(c.z * c.z) % q, (member_delta(st, c.y, c.z) - p.tx) % q, c.x, (c.x * c.x) % q,
                         (-p.tx_tilde) % q>>))
nonmember_t0_check(st, p, c) ==
  IsZeroPoint(multiexp(<<st.V[1], B, p.T_1, p.T_2, B_tilde>>,
                       <<(c.z * Sum(z_vec(c.y, 0, SizeOf(st)))) % q,
                         (nonmember_delta(st, c.y, c.z) - p.tx) % q, c.x, (c.x * c.x) % q,
                         (-p.tx_tilde) % q>>))
t0_check(st, p, c) == CASE st.kind = "member" -> member_t0_check(st, p, c)
                        [] st.kind = "nonmember" -> nonmember_t0_check(st, p, c)
                        [] OTHER -> range_t0_check(st, p, c)

\* The exponents of G and H in the commitment to l(x) and r(x).
range_GH_exps(st, c, y_inv) ==
  Force([k \in 1 .. SizeOf(st) |-> (-c.z) % q])
  \o Force([k \in 1 .. SizeOf(st) |->
       (y_inv[k] * z_vec(c.z, 2, Len(st.V))[((k - 1) \div st.n) + 1] * two_n_vec(st.n)[((k - 1) % st.n) + 1]
        + c.z) % q])
member_GH_exps(st, c, y_inv) ==
  Force([k \in 1 .. SizeOf(st) |-> (-c.z) % q])
  \o Force([k \in 1 .. SizeOf(st) |->
       (c.z + c.z * c.z * y_inv[k] * st.set[k] + c.z * c.z * c.z * y_inv[k]) % q])
nonmember_GH_exps(st, c, y_inv) ==
  Force([k \in 1 .. SizeOf(st) |-> c.z]) \o Force([k \in 1 .. SizeOf(st) |-> (-st.set[k]) % q])
GH_exps(st, c, y_inv) == CASE st.kind = "member" -> member_GH_exps(st, c, y_inv)
                           [] st.kind = "nonmember" -> nonmember_GH_exps(st, c, y_inv)
                           [] OTHER -> range_GH_exps(st, c, y_inv)

ip_check(st, p, c) ==
  LET n == SizeOf(st) IN
  \E y_inv \in {z_vec(inverse(c.y), 0, n)} :
    verify_inner_product_with_scalars(
      y_inv,
      Gs(n) \o Hs(n) \o <<MulByScalar(B, c.w), B_tilde, p.A, p.S>>,
      GH_exps(st, c, y_inv) \o <<p.tx, (-p.e_tilde) % q, 1, c.x>>, p, c.us)

verify(st, p, c) ==
  IF st.kind = "ip"
  THEN verify_inner_product(Gs(Len(st.set)), Hs(Len(st.set)), p.A, B, p, c.us)
  ELSE /\ SizeOf(st) <= N
       /\ t0_check(st, p, c)
       /\ c.y # 0
       /\ ip_check(st, p, c)

\* What the verifier has appended to its transcript at the end.
VerifierTranscript(i, p) ==
  (IF i.kind = "ip" THEN <<>>
   ELSE header(i, Commitments(i))
        \o <<<<"A", p.A>>, <<"S", p.S>>, <<"T1", p.T_1>>, <<"T2", p.T_2>>, <<"tx", p.tx>>,
             <<"tx_tilde", p.tx_tilde>>, <<"e_tilde", p.e_tilde>>>>)
  \o FoldLeft(LAMBDA s, lr : s \o <<<<"Lj", lr[1]>>, <<"Rj", lr[2]>>>>, <<>>, p.lr_vec)

(***************************************************************************)
(* Properties.                                                              *)
(***************************************************************************)
True(i) ==
  CASE i.kind = "range" -> \A j \in 1 .. Len(i.vs) : i.vs[j] < 2 ^ i.n
    [] i.kind = "leq" -> i.vs[1] <= i.vs[2] /\ i.vs[2] < 2 ^ i.n
    [] i.kind = "interval" -> i.a <= i.vs[1] /\ i.vs[1] < i.b
    [] i.kind = "member" -> \E k \in 1 .. Len(i.set) : i.set[k] = i.vs[1]
    [] i.kind = "nonmember" -> \A k \in 1 .. Len(i.set) : i.set[k] # i.vs[1]
    [] i.kind = "ip" -> TRUE

\* The inner product argument is about a given commitment to its vectors.
IpStatement(i, p) ==
  [p EXCEPT !.A = multiexp(Gs(Len(i.set)) \o Hs(Len(i.set)) \o <<B>>,
                           i.set \o i.vs \o <<inner_product(i.set, i.vs)>>)]
Sent(i, p) == IF i.kind = "ip" THEN IpStatement(i, p) ELSE p

\* A true statement whose size is a power of two within the generators is
\* proved, whatever the randomness and the challenges, unless a challenge that
\* is inverted is zero; the two sides have then hashed the same messages and
\* the proof verifies.
TrueStatementsVerify ==
  True(in) /\ IsPowerOfTwo(IF in.kind = "ip" THEN Len(in.set) ELSE Size(in)) =>
    /\ phase = "failed" => ch.y = 0 \/ 0 \in {ch.us[k] : k \in 1 .. Len(ch.us)} \/ Size(in) > N
    /\ phase = "proved" => /\ tr = VerifierTranscript(in, proof)
                           /\ verify(Statement(in), Sent(in, proof), ch)

\* A proof the code computes for a statement that is false, because its values
\* do not fit the bits or lie outside the interval, does not verify even if the
\* verifier gets the same challenges: what is cut off to fit a word is noticed.
FalseStatementsFail ==
  phase = "proved" /\ ~True(in) /\ ch.z # 0 => ~verify(Statement(in), Sent(in, proof), ch)

Altered(p, f) ==
  CASE f \in {"A", "S", "T_1", "T_2"} -> [p EXCEPT ![f] = PlusPoint(@, B)]
    [] f \in {"tx", "tx_tilde", "e_tilde", "b_a", "b_b"} -> [p EXCEPT ![f] = (@ + 1) % q]
    [] f = "L" -> [p EXCEPT !.lr_vec[1][1] = PlusPoint(@, B)]
    [] f = "R" -> [p EXCEPT !.lr_vec[1][2] = PlusPoint(@, B)]
Fields(p, k) ==
  (IF k = "ip" THEN {"A", "b_a", "b_b"}
   ELSE {"A", "S", "T_1", "T_2", "tx", "tx_tilde", "e_tilde", "b_a", "b_b"})
  \cup (IF p.lr_vec = <<>> THEN {} ELSE {"L", "R"})

\* Every part of a proof and of the statement is bound: with one component
\* changed, with the commitment to another value or with another element in
\* the set, the proof no longer verifies under the same challenges.
\* (Exempt are the challenges at which a component is multiplied by zero.)
EveryPartIsBound ==
  phase = "proved" /\ True(in)
  /\ (in.kind = "ip" \/ (ch.x # 0 /\ ch.z # 0 /\ Sum(z_vec(ch.y, 0, Size(in))) # 0)) =>
    \E p \in {Sent(in, proof)}, st \in {Statement(in)} :
      /\ \A f \in Fields(p, in.kind) : ~verify(st, Altered(p, f), ch)
      /\ in.kind # "ip" => ~verify([st EXCEPT !.V[1] = PlusPoint(@, B)], p, ch)
      /\ SetKind(in) => \A k \in 1 .. Len(st.set) : ~verify([st EXCEPT !.set[k] = (@ + 1) % q], p, ch)
===========================================================================
