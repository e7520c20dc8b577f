-------------------------- MODULE SigmaProtocols --------------------------
(***************************************************************************)
(* The sigma protocols (rust-src/concordium_base/src/sigma_protocols).      *)
(* A prover who knows a secret makes a statement and a proof of it, and the *)
(* verifier recomputes the commit message from the challenge and the        *)
(* response.  The random oracle is a function without collisions: the       *)
(* challenge is confirmed when the verifier asks what the prover asked.     *)
(* In the second part of the module a prover is rewound: it answers two     *)
(* challenges for one commit message, about a statement that need not hold. *)
(*                                                                          *)
(* keys are the generators of a statement, pub its group elements; secrets, *)
(* the prover's randomness and responses are sequences of scalars.          *)
(***************************************************************************)
EXTENDS GroupArithmetic

CONSTANTS
  Protocols,   \* the protocols to check
  KeySets,     \* the choices of generators: sequences of non-zero elements
  Secrets,     \* the scalars secrets are made of
  Rands,       \* the scalars the prover's randomness is made of
  Elements,    \* the group elements of the statements a rewound prover makes
  FirstRuns,   \* the scalars the first response of a rewound prover is made of
  Chunks       \* the number of chunks of the transferred amount in enc_trans

VARIABLES prot, keys, pub, secret, query, ch, resp, ch2, resp2, phase, accepted

vars == <<prot, keys, pub, secret, query, ch, resp, ch2, resp2, phase, accepted>>

Vectors(n, S) == [1..n -> S]
Mul(a, b) == (a * b) % q

\* alpha - c * s for every secret: the response of all protocols but dlog.
Respond(s, alphas, c) == [i \in DOMAIN s |-> (alphas[i] - c * s[i]) % q]

DlogCommit(k, p, r) == <<Mul(k[1], r[1])>>

\* Mutant of DlogRespond: the sign the other protocols use.
DlogRespondMinus(s, r, c) == <<(r[1] - c * s[1]) % q>>

DlogRespond(s, r, c) == <<(c * s[1] + r[1]) % q>>

DlogExtract(k, p, c, z) == <<(k[1] * z[1] - p[1] * c) % q>>

DlogEqExtract(k, p, c, z) ==
  DlogExtract(k, p, c, z) \o DlogExtract(<<k[2]>>, <<p[2]>>, c, z)

AggregateDlogExtract(k, p, c, z) == <<(p[1] * c + multiexp(<<k[1], k[2]>>, z)) % q>>

(***************************************************************************)
(* dlogaggequal: the logarithm to keys[1] is also the first exponent of two *)
(* aggregates, with the generators <<keys[2], keys[3]>> and <<keys[3]>>.    *)
(***************************************************************************)
DlogAggEqualPublic(k, s) ==
  <<Mul(k[1], s[1]), multiexp(<<k[2], k[3]>>, s), Mul(k[3], s[1])>>
DlogAggEqualExtract(k, p, c, z) ==
  <<(k[1] * z[1] + p[1] * c) % q, (p[2] * c + multiexp(<<k[2], k[3]>>, z)) % q,
    (p[3] * c + k[3] * z[1]) % q>>

(***************************************************************************)
(* com_eq, com_eq_different_groups, com_enc_eq: one value in two places.    *)
(***************************************************************************)
ComEqPublic(k, s) == <<hide_worker(k[1], k[2], s[1], s[2]), Mul(k[3], s[1])>>

ComEqExtract(k, p, c, z) ==
  <<(p[1] * c + hide_worker(k[1], k[2], z[1], z[2])) % q, multiexp(<<p[2], k[3]>>, <<c, z[1]>>)>>

DiffGroupsPublic(k, s) ==
  <<hide_worker(k[1], k[2], s[1], s[2]), hide_worker(k[3], k[4], s[1], s[3])>>
DiffGroupsExtract(k, p, c, z) ==
  <<multiexp(<<p[1], k[1], k[2]>>, <<c, z[1], z[2]>>),
    multiexp(<<p[2], k[3], k[4]>>, <<c, z[1], z[3]>>)>>

\* The secrets of com_enc_eq are the randomness of the cipher, the value, and the
\* randomness of the commitment; keys[5] is encryption_in_exponent_generator.
ComEncEqPublic(k, s) ==
  encrypt_exponent([generator |-> k[1], key |-> k[2]], k[5], s[2], s[1])
    \o <<hide_worker(k[3], k[4], s[2], s[3])>>
ComEncEqExtract(k, p, c, z) ==
  <<multiexp(<<k[1], p[1]>>, <<z[1], c>>), multiexp(<<k[5], k[2], p[2]>>, <<z[2], z[1], c>>),
    multiexp(<<k[3], k[4], p[3]>>, <<z[2], z[3], c>>)>>

(***************************************************************************)
(* com_eq_sig: the committed values are the ones that were signed.  The     *)
(* secret is t of the blinding and a value and a randomness per commitment. *)
(***************************************************************************)
SigKey(k) == PsPublicKey([x |-> k[3], ys |-> <<k[4], k[5]>>])

ComEqSigPublic(k, s, mask, r0, r) ==
  LET message == (mask + k[4] * s[2]) % q
      sig == retrieve(sign_unknown_message([x |-> k[3], ys |-> <<k[4], k[5]>>], message, r0), mask)
  IN  blind(sig, r, s[1]) \o <<hide_worker(k[1], k[2], s[2], s[3])>>
ComEqSigCommit(k, p, r) ==
  LET pk == SigKey(k)
  IN  <<pair(p[1], multiexp(<<pk.g_tilda, pk.y_tildas[1]>>, r)), hide_worker(k[1], k[2], r[2], r[3])>>
ComEqSigExtract(k, p, c, z) ==
  LET pk == SigKey(k)
      point == multiexp(<<pk.g_tilda, pk.y_tildas[1], pk.x_tilda>>, <<z[1], z[2], q - c>>)
  IN  <<pairing_product(p[2], Mul(pk.g_tilda, c), p[1], point),
        multiexp(<<p[3], k[1], k[2]>>, <<c, z[2], z[3]>>)>>
ComEqSigHolds(k, p, s) ==
  LET pk == SigKey(k)
  IN  /\ pair(p[2], pk.g_tilda)
           = pair(p[1], (pk.x_tilda + multiexp(<<pk.g_tilda, pk.y_tildas[1]>>, s)) % q)
      /\ p[3] = hide_worker(k[1], k[2], s[2], s[3])

(***************************************************************************)
(* com_mult and com_ineq.  The secret: x1, x2, r1, r2, r3.                  *)
(***************************************************************************)
ComMultPublic(k, s) ==
  <<hide_worker(k[1], k[2], s[1], s[3]), hide_worker(k[1], k[2], s[2], s[4]),
    hide_worker(k[1], k[2], Mul(s[1], s[2]), s[5])>>
ComMultCommit(k, p, r) ==
  <<hide_worker(k[1], k[2], r[1], r[3]), hide_worker(k[1], k[2], r[2], r[4]),
    hide_worker(p[1], k[2], r[2], r[5])>>

ComMultRespond(s, r, c) ==
  Respond([s EXCEPT ![5] = (s[5] - s[3] * s[2]) % q], r, c)

ComMultExtract(k, p, c, z) ==
  <<multiexp(<<p[1], k[1], k[2]>>, <<c, z[1], z[3]>>), multiexp(<<p[2], k[1], k[2]>>, <<c, z[2], z[4]>>),
    multiexp(<<p[1], k[2], p[3]>>, <<z[2], z[5], c>>)>>

\* The statement of com_ineq is a commitment, the public value and the auxiliary
\* commitment of the proof; it is proved that their difference has an inverse.
IneqStatement(k, p) == <<(p[1] - k[1] * p[2]) % q, p[3], k[1]>>

IneqSecret(s) ==
  LET diff == (s[1] - s[2]) % q
  IN  <<diff, IF diff = 0 THEN 0 ELSE inverse(diff), s[3], s[4], 0>>

ComIneqPublic(k, s) ==
  <<hide_worker(k[1], k[2], s[1], s[3]), s[2],
    hide_worker(k[1], k[2], IneqSecret(s)[2], s[4])>>

(***************************************************************************)
(* com_lin, with the coefficients <<keys[3], keys[4]>>, and vcom_eq, where  *)
(* only the second value has a commitment of its own.                       *)
(***************************************************************************)
ComLinPublic(k, s) ==
  <<hide_worker(k[1], k[2], s[1], s[3]), hide_worker(k[1], k[2], s[2], s[4]),
    hide_worker(k[1], k[2], multiexp(<<k[3], k[4]>>, s), s[5])>>
ComLinExtract(k, p, c, z) ==
  <<multiexp(<<k[1], k[2], p[1]>>, <<z[1], z[3], c>>), multiexp(<<k[1], k[2], p[2]>>, <<z[2], z[4], c>>),
    multiexp(<<k[1], k[2], p[3]>>, <<multiexp(<<k[3], k[4]>>, z), z[5], c>>)>>

VecComEqPublic(k, s) ==
  <<multiexp(<<k[1], k[2], k[3]>>, s), multiexp(<<k[4], k[5]>>, <<s[2], s[4]>>)>>
VecComEqExtract(k, p, c, z) ==
  <<multiexp(<<k[1], k[2], k[3], p[1]>>, <<z[1], z[2], z[3], c>>),
    multiexp(<<k[4], k[5], p[2]>>, <<z[2], z[4], c>>)>>

(***************************************************************************)
(* enc_trans: a dlog, the decryption of the balance, and a com_eq for every *)
(* chunk of the transferred and (here one) of the remaining amount.         *)
(***************************************************************************)
linear_combination_with_powers_of_two(terms) ==
  FoldRight(LAMBDA x, acc : (x + 2 * acc) % q, terms, 0)

\* The com_eq of encexp1 and of encexp2.
EncExps == 1 .. Chunks + 1

\* The positions of the two scalars of the com_eq i: Chunks of them, then one more.
ChunkKeys(k, i) == IF i <= Chunks THEN <<k[4], k[3], k[1]>> ELSE <<k[5], k[3], k[1]>>
ChunkOf(z, i) == <<z[2 * i], z[2 * i + 1]>>
LinearPart(z) ==
  (linear_combination_with_powers_of_two([i \in 1..Chunks |-> z[2 * i + 1]])
     + linear_combination_with_powers_of_two(<<z[2 * Chunks + 3]>>)) % q

EncTransPoints(k, p, c, z) ==
  <<(k[1] * z[1] + p[1] * c) % q, (p[2] * c + multiexp(<<k[2], k[3]>>, <<z[1], LinearPart(z)>>)) % q>>

EncTransExtract(k, p, c, z) ==
  EncTransPoints(k, p, c, z)
    \o FlattenSeq([i \in EncExps |->
         ComEqExtract(ChunkKeys(k, i), <<p[2 * i + 1], p[2 * i + 2]>>, c, ChunkOf(z, i))])

EncTransCommit(k, r) ==
  <<Mul(k[1], r[1]), multiexp(<<k[2], k[3]>>, <<r[1], LinearPart(r)>>)>>
    \o FlattenSeq([i \in EncExps |-> ComEqPublic(ChunkKeys(k, i), ChunkOf(r, i))])

(***************************************************************************)
(* The adapters: and_adapter is com_eq and dlog with one challenge,         *)
(* replicate_adapter two instances of dlog.                                 *)
(***************************************************************************)
AndCommit(k, r) == ComEqPublic(k, r) \o DlogCommit(<<k[4]>>, <<>>, <<r[3]>>)
AndRespond(s, r, c) == Respond(SubSeq(s, 1, 2), r, c) \o DlogRespond(<<s[3]>>, <<r[3]>>, c)
AndExtract(k, st, c, z) == ComEqExtract(k, st, c, z) \o DlogExtract(<<k[4]>>, <<st[3]>>, c, <<z[3]>>)

ReplicateCommit(k, r) == DlogCommit(k, <<>>, r) \o DlogCommit(<<k[2]>>, <<>>, <<r[2]>>)
ReplicateRespond(s, r, c) == DlogRespond(s, r, c) \o DlogRespond(<<s[2]>>, <<r[2]>>, c)
ReplicateExtract(k, st, c, z) ==
  DlogExtract(k, st, c, z) \o DlogExtract(<<k[2]>>, <<st[2]>>, c, <<z[2]>>)

(***************************************************************************)
(* The trait SigmaProtocol.                                                 *)
(***************************************************************************)
SecretLen ==
  [dlog |-> 1, dlogeq |-> 1, aggregate_dlog |-> 2, dlogaggequal |-> 2, com_eq |-> 2,
   com_eq_different_groups |-> 3, com_enc_eq |-> 3, com_eq_sig |-> 3, com_mult |-> 5, com_ineq |-> 4,
   com_lin |-> 5, vcom_eq |-> 4, enc_trans |-> 2 * Chunks + 3, and_adapter |-> 3,
   replicate_adapter |-> 2]
PublicLen ==
  [dlog |-> 1, dlogeq |-> 2, aggregate_dlog |-> 1, dlogaggequal |-> 3, com_eq |-> 2,
   com_eq_different_groups |-> 2, com_enc_eq |-> 3, com_eq_sig |-> 3, com_mult |-> 3, com_ineq |-> 3,
   com_lin |-> 3, vcom_eq |-> 2, enc_trans |-> 2 * Chunks + 4, and_adapter |-> 3,
   replicate_adapter |-> 2]
ResponseLen == [SecretLen EXCEPT !["com_ineq"] = 5]

extract_commit_message(p, k, st, c, z) ==
  CASE p = "dlog" -> DlogExtract(k, st, c, z)
    [] p = "dlogeq" -> DlogEqExtract(k, st, c, z)
    [] p = "aggregate_dlog" -> AggregateDlogExtract(k, st, c, z)
    [] p = "dlogaggequal" -> DlogAggEqualExtract(k, st, c, z)
    [] p = "com_eq" -> ComEqExtract(k, st, c, z)
    [] p = "com_eq_different_groups" -> DiffGroupsExtract(k, st, c, z)
    [] p = "com_enc_eq" -> ComEncEqExtract(k, st, c, z)
    [] p = "com_eq_sig" -> ComEqSigExtract(k, st, c, z)
    [] p = "com_mult" -> ComMultExtract(k, st, c, z)
    [] p = "com_ineq" -> ComMultExtract(k, IneqStatement(k, st), c, z)
    [] p = "com_lin" -> ComLinExtract(k, st, c, z)
    [] p = "vcom_eq" -> VecComEqExtract(k, st, c, z)
    [] p = "enc_trans" -> EncTransExtract(k, st, c, z)
    [] p = "and_adapter" -> AndExtract(k, st, c, z)
    [] p = "replicate_adapter" -> ReplicateExtract(k, st, c, z)

\* A commit message is what a statement about the randomness would be; the two protocols
\* whose generators are part of the statement have their own.
compute_commit_message(p, k, st, r) ==
  CASE p \in {"com_mult", "com_ineq"} ->
         ComMultCommit(k, IF p = "com_mult" THEN st ELSE IneqStatement(k, st), r)
    [] p = "com_eq_sig" -> ComEqSigCommit(k, st, r)
    [] p = "and_adapter" -> AndCommit(k, r)
    [] p = "replicate_adapter" -> ReplicateCommit(k, r)
    [] p = "dlog" -> DlogCommit(k, st, r)
    [] p = "dlogeq" -> DlogCommit(k, st, r) \o DlogCommit(<<k[2]>>, st, r)
    [] p = "aggregate_dlog" -> <<multiexp(<<k[1], k[2]>>, r)>>
    [] p = "dlogaggequal" -> DlogAggEqualPublic(k, r)
    [] p = "com_eq" -> ComEqPublic(k, r)
    [] p = "com_eq_different_groups" -> DiffGroupsPublic(k, r)
    [] p = "com_enc_eq" -> ComEncEqPublic(k, r)
    [] p = "com_lin" -> ComLinPublic(k, r)
    [] p = "vcom_eq" -> VecComEqPublic(k, r)
    [] p = "enc_trans" -> EncTransCommit(k, r)

compute_response(p, s, r, c) ==
  CASE p \in {"dlog", "dlogeq"} -> DlogRespond(s, r, c)
    [] p = "com_mult" -> ComMultRespond(s, r, c)
    [] p = "com_ineq" -> ComMultRespond(IneqSecret(s), r, c)
    [] p = "and_adapter" -> AndRespond(s, r, c)
    [] p = "replicate_adapter" -> ReplicateRespond(s, r, c)
    [] OTHER -> Respond(s, r, c)

\* with_valid_data and the statements the tests make: a statement about a secret.
Statement(p, k, s, aux) ==
  CASE p = "com_mult" -> ComMultPublic(k, s)
    [] p = "com_ineq" -> ComIneqPublic(k, s)
    [] p = "com_eq_sig" -> ComEqSigPublic(k, s, aux[1], aux[2], aux[3])
    [] OTHER -> compute_commit_message(p, k, <<>>, s)

(***************************************************************************)
(* An honest proof.                                                         *)
(***************************************************************************)
Init ==
  /\ prot \in Protocols /\ keys \in KeySets
  /\ pub = <<>> /\ secret = <<>> /\ query = <<>> /\ ch = 0 /\ resp = <<>> /\ ch2 = 0 /\ resp2 = <<>>
  /\ phase = "start" /\ accepted = FALSE

\* prove_com_ineq gives no proof when the values are equal: there is no inverse.
MakeStatement ==
  /\ phase = "start"
  /\ \E s \in Vectors(SecretLen[prot], Secrets),
        aux \in IF prot = "com_eq_sig" THEN Vectors(3, NonZero) ELSE {<<>>} :
       /\ prot = "com_ineq" => s[1] # s[2]
       /\ secret' = s
       /\ pub' = Statement(prot, keys, s, aux)
  /\ phase' = "prove"
  /\ UNCHANGED <<prot, keys, query, ch, resp, ch2, resp2, accepted>>

Prove(c) ==
  /\ phase = "prove"
  /\ \E r \in Vectors(ResponseLen[prot], Rands) :
       /\ query' = <<keys, pub, compute_commit_message(prot, keys, pub, r)>>
       /\ resp' = compute_response(prot, secret, r, c)
  /\ ch' = c /\ phase' = "verify"
  /\ UNCHANGED <<prot, keys, pub, secret, ch2, resp2, accepted>>

Verify ==
  /\ phase = "verify"
  /\ accepted' = (<<keys, pub, extract_commit_message(prot, keys, pub, ch, resp)>> = query)
  /\ phase' = "verified"
  /\ UNCHANGED <<prot, keys, pub, secret, query, ch, resp, ch2, resp2>>

(***************************************************************************)
(* A rewound prover: one commit message, two challenges, two responses.     *)
(***************************************************************************)
AnyStatement ==
  /\ phase = "start"
  /\ pub' \in Vectors(PublicLen[prot], Elements)
  /\ prot = "com_eq_sig" => pub'[1] # 0
  /\ \E c \in Scalars, z \in Vectors(ResponseLen[prot], FirstRuns) :
       /\ ch' = c /\ resp' = z
       /\ query' = <<keys, pub', extract_commit_message(prot, keys, pub', c, z)>>
  /\ phase' = "rewind"
  /\ UNCHANGED <<prot, keys, secret, ch2, resp2, accepted>>

Rewind ==
  /\ phase = "rewind"
  /\ \E c \in Scalars \ {ch}, z \in Vectors(ResponseLen[prot], Scalars) :
       /\ <<keys, pub, extract_commit_message(prot, keys, pub, c, z)>> = query
       /\ ch2' = c /\ resp2' = z
  /\ phase' = "rewound"
  /\ UNCHANGED <<prot, keys, pub, secret, query, ch, resp, accepted>>

Next == MakeStatement \/ (\E c \in Scalars : Prove(c)) \/ Verify \/ AnyStatement \/ Rewind

Spec == Init /\ [][Next]_vars

(***************************************************************************)
(* Properties.                                                              *)
(***************************************************************************)
\* A proof made from a secret for the statement is accepted, in every protocol and
\* through the adapters.
ProofsVerify == phase = "verified" => accepted

\* What two responses to one commit message disclose.
Disclosed == [i \in DOMAIN resp |-> ((resp[i] - resp2[i]) * inverse((ch2 - ch) % q)) % q]
Negated(w, I) == [i \in DOMAIN w |-> IF i \in I THEN (q - w[i]) % q ELSE w[i]]

WitnessFor(p, w) ==
  CASE p \in {"dlog", "dlogeq"} -> Negated(w, {1})
    [] p = "and_adapter" -> Negated(w, {3})
    [] p = "replicate_adapter" -> Negated(w, {1, 2})
    [] p \in {"com_mult", "com_ineq"} -> [w EXCEPT ![5] = (w[5] + w[3] * w[2]) % q]
    [] OTHER -> w

Holds(p, k, st, w) ==
  CASE p = "com_eq_sig" -> ComEqSigHolds(k, st, w)
    [] p = "com_ineq" -> ComMultPublic(k, w) = IneqStatement(k, st)
    [] OTHER -> Statement(p, k, w, <<>>) = st

\* A prover that can answer two challenges knows a secret for the statement, and one that
\* satisfies all of its parts at once: the verifier connects them.
AnswersDiscloseSecret ==
  phase = "rewound" => Holds(prot, keys, pub, WitnessFor(prot, Disclosed))
===========================================================================
