------------------------------ MODULE Identity ------------------------------
(***************************************************************************)
(* The life of an identity: a holder asks an identity provider for a       *)
(* signature on its secrets and attributes, makes account credentials from *)
(* it, and anonymity revokers undo the anonymity of a credential.          *)
(* Translated from concordium_base/src/id: account_holder.rs,              *)
(* identity_provider.rs, chain.rs, anonymity_revoker.rs, secret_sharing.rs *)
(* and utils.rs.                                                           *)
(*                                                                         *)
(* A scalar is a number modulo P and a group element is its exponent, so a *)
(* commitment is the value in it and a ciphertext the value encrypted.  A  *)
(* zero-knowledge proof is ideal: it is accepted when the statement it is  *)
(* about holds and the transcript is the one it was made for (modules      *)
(* SigmaProtocols and Bulletproofs look inside the proofs).  Holders may   *)
(* put anything in their requests and credentials; a relay may change what *)
(* it carries but knows none of the holder's secrets.                      *)
(***************************************************************************)
EXTENDS Integers, Sequences, FiniteSets, SequencesExt, FiniteSetsExt

CONSTANTS
    P,              \* the order of the scalar field, a prime
    ArIds,          \* the anonymity revokers the provider and the chain know
    ArBase,         \* revoker identities are below ArBase (2^32 in the code)
    ArsPerElement,  \* revokers packed in one scalar (7 in the code)
    ChunkBase,      \* the base PRF key shares are cut in (2^32 in the code)
    Chunks,         \* the number of chunks of a share (8 in the code)
    DateBase,       \* dates are below DateBase (2^32 in the code)
    Tags, Values,   \* attribute tags and attribute values
    U8,             \* the number of values of a counter (2^8 in the code)
    KeyLen,         \* the length of the provider's signing key
    IdSecs, PrfKeys, AttributeLists, ArChoices, Dests, Accs, Expiries,
    OddChunks,      \* ill-formed chunks a dishonest holder tries
    SharingDegrees, \* lengths of the sharing polynomials it tries
    ClaimsAll,      \* TRUE if it also claims other signed values
    RecoveryIps,    \* the providers that answer recovery requests
    MaxCreds        \* bound: credentials on the chain

FieldAssumption ==
    /\ P \in Nat /\ \A a, b \in 2 .. P - 1 : a * b # P
    /\ ArIds \subseteq 1 .. P - 1 /\ ArIds \subseteq 1 .. ArBase - 1
    /\ 2 * U8 <= P + 1 /\ ChunkBase ^ Chunks >= P

VARIABLES
    secrets,   \* the holder's idCredSec and PRF key
    request,   \* the pre-identity object sent to the provider, <<>> if none
    record,    \* what the provider signed and keeps, <<>> if nothing yet
    initial,   \* the initial credential and its expiry, <<>> if none
    outbox,    \* the credential the holder made, <<>> if none
    intent,    \* what the holder made it for
    chain,     \* the credentials the chain accepted
    outcome,   \* what became of the last honest operation
    recovery   \* the recovery request made and the last one granted

vars == <<secrets, request, record, initial, outbox, intent, chain, outcome, recovery>>

F == 0 .. P - 1
Inv(x) == CHOOSE y \in F : (x * y) % P = 1
Sorted(S) == SetToSortSeq(S, <)

-----------------------------------------------------------------------------
(* Secret sharing *)

evaluate_poly(coeffs, x) ==
    FoldRight(LAMBDA c, acc : (acc * x + c) % P, coeffs, 0)

share_coefficients(t) ==
    {cs \in [1 .. t - 1 -> F] : t > 1 => cs[t - 1] # 0}

share(secret, coeffs, points) ==
    [x \in points |-> evaluate_poly(<<secret>> \o coeffs, x)]

lagrange(kxs, i) ==
    FoldSet(LAMBDA j, acc : (acc * j * Inv((j - i) % P)) % P, 1, kxs \ {i})

reveal(shares) ==
    MapThenSumSet(LAMBDA i : lagrange(DOMAIN shares, i) * shares[i], DOMAIN shares) % P

commitment_to_share(x, cmms) ==
    MapThenSumSet(LAMBDA i : cmms[i] * x ^ (i - 1), DOMAIN cmms) % P

value_to_chunks(v) == [i \in 1 .. Chunks |-> (v \div ChunkBase ^ (i - 1)) % ChunkBase]

chunks_to_value(chunks) ==
    MapThenSumSet(LAMBDA i : chunks[i] * ChunkBase ^ (i - 1), DOMAIN chunks) % P

-----------------------------------------------------------------------------
(* Encodings of what the provider signs *)

encode_ars(ars) ==
    LET s == Sorted(ars)
        n == (Len(s) + ArsPerElement - 1) \div ArsPerElement
        At(c, i) == LET j == (c - 1) * ArsPerElement + i
                    IN IF j <= Len(s) THEN s[j] * ArBase ^ (i - 1) ELSE 0
    IN IF n = 0 THEN <<1>>
       ELSE [c \in 1 .. n |-> 2 * MapThenSumSet(LAMBDA i : At(c, i), 1 .. ArsPerElement)
                              + (IF c = n THEN 1 ELSE 0)]

encode_tags(tags) == MapThenSumSet(LAMBDA t : 2 ^ t, tags)

encode_public_credential_values(created, valid, thr) ==
    created + DateBase * valid + DateBase * DateBase * thr

ByTag(f) == [i \in 1 .. Cardinality(DOMAIN f) |-> f[Sorted(DOMAIN f)[i]]]

merge_iter(f, g) ==
    ByTag([t \in DOMAIN f \cup DOMAIN g |-> IF t \in DOMAIN f THEN f[t] ELSE g[t]])

\* The signed message, one scalar for each element of the signing key.
Message(sc, prf, public, ars, tags, max, attrs) ==
    <<sc, prf, public>> \o ars \o <<tags, max>> \o attrs

compute_message(sc, prf, thr, ars, al) ==
    Message(sc, prf, encode_public_credential_values(al.created, al.valid, thr),
            encode_ars(ars), encode_tags(DOMAIN al.vec), al.max, ByTag(al.vec))

TooManyAttributes(ars, al) ==
    KeyLen < Cardinality(DOMAIN al.vec) + Len(encode_ars(ars)) + 5

\* A message shorter than the key is the one padded with zeros.
SameMessage(m1, m2) ==
    \A i \in 1 .. KeyLen : (IF i <= Len(m1) THEN m1[i] ELSE 0)
                            = (IF i <= Len(m2) THEN m2[i] ELSE 0)

-----------------------------------------------------------------------------
(* Account ownership *)

Sign(keys, msg) == [i \in DOMAIN keys |-> <<keys[i], msg>>]

verify_account_ownership_proof(keys, threshold, sigs, msg) ==
    /\ Cardinality(DOMAIN sigs) >= threshold
    /\ keys # <<>> /\ Cardinality(DOMAIN sigs) = Len(keys)
    /\ \A i, j \in DOMAIN keys : keys[i] = keys[j] => i = j
    /\ \A i \in DOMAIN keys : i \in DOMAIN sigs /\ sigs[i] = <<keys[i], msg>>

-----------------------------------------------------------------------------
(* The request of an identity *)

prf_exponent(k, c) == IF (k + c) % P = 0 THEN <<>> ELSE <<Inv((k + c) % P)>>

build_pub_info_for_ip(sec, acc) ==
    [idCredPub |-> sec.id, regId |-> prf_exponent(sec.prf, 0), acc |-> acc]

compute_sharing_data_prf(prf, ars, coeffs) ==
    [a \in ars |-> value_to_chunks(share(prf, coeffs, ars)[a])]

generate_pio_common(sec, ch, coeffs) ==
    [cmmSc |-> sec.id, cmmPrf |-> sec.prf, ars |-> ch.ars, thr |-> ch.thr,
     coeffs |-> <<sec.prf>> \o coeffs,
     arData |-> compute_sharing_data_prf(sec.prf, ch.ars, coeffs),
     bulletproofs |-> Cardinality(ch.ars)]

generate_pio(sec, ch, coeffs, acc) ==
    LET info == build_pub_info_for_ip(sec, acc)
    IN [version |-> 0, info |-> info, sigs |-> Sign(acc.keys, info),
        common |-> generate_pio_common(sec, ch, coeffs)]

NoAccount == [keys |-> <<>>, threshold |-> 1]

generate_pio_v1(sec, ch, coeffs) ==
    [version |-> 1, info |-> [idCredPub |-> sec.id, regId |-> <<>>, acc |-> NoAccount],
     sigs |-> <<>>, common |-> generate_pio_common(sec, ch, coeffs)]

compute_prf_sharing_verifier(c) ==
    \A a \in DOMAIN c.arData :
        chunks_to_value(c.arData[a]) = commitment_to_share(a, c.coeffs)

\* The shares and the bulletproofs sent are zipped, in the order of the
\* revokers; their numbers are not compared.
RangeChecked(c) ==
    ToSet(SubSeq(Sorted(DOMAIN c.arData), 1,
                 Min({c.bulletproofs, Cardinality(DOMAIN c.arData)})))

RangeProofsHold(c) ==
    \A a \in RangeChecked(c) : \A i \in 1 .. Chunks : c.arData[a][i] < ChunkBase

\* Mutant of validate_request_common: the threshold is not compared with the
\* number of coefficients.
validate_request_commonLength(idCredPub, c) ==
    /\ c.ars # {} /\ c.thr <= Cardinality(c.ars)
    /\ DOMAIN c.arData = c.ars /\ c.coeffs # <<>>
    /\ DOMAIN c.arData \subseteq ArIds
    /\ c.cmmSc = idCredPub /\ c.cmmPrf = c.coeffs[1]
    /\ compute_prf_sharing_verifier(c) /\ RangeProofsHold(c)

validate_request_common(idCredPub, c) ==
    /\ c.ars # {} /\ c.thr <= Cardinality(c.ars)
    /\ DOMAIN c.arData = c.ars
    /\ Len(c.coeffs) = c.thr /\ c.coeffs # <<>>
    /\ DOMAIN c.arData \subseteq ArIds
    /\ c.cmmSc = idCredPub /\ c.cmmPrf = c.coeffs[1]
    /\ compute_prf_sharing_verifier(c) /\ RangeProofsHold(c)

validate_request(pio) ==
    /\ verify_account_ownership_proof(pio.info.acc.keys, pio.info.acc.threshold,
                                      pio.sigs, pio.info)
    /\ validate_request_common(pio.info.idCredPub, pio.common)
    /\ pio.info.regId # <<>> /\ (pio.info.regId[1] * pio.common.cmmPrf) % P = 1

validate_request_v1(pio) == validate_request_common(pio.info.idCredPub, pio.common)

create_initial_cdi(info, al, expiry) ==
    LET values == [regId |-> info.regId[1], created |-> al.created, valid |-> al.valid,
                   acc |-> info.acc]
    IN [values |-> values, expiry |-> expiry, sig |-> <<expiry, values>>]

sign_identity_object(pio, al, expiry, honest) ==
    [message |-> compute_message(pio.common.cmmSc, pio.common.cmmPrf, pio.common.thr,
                                 pio.common.ars, al),
     pio |-> pio, al |-> al, expiry |-> expiry, honest |-> honest]

-----------------------------------------------------------------------------
(* Credentials *)

compute_sharing_data(sec, ars, coeffs) == share(sec, coeffs, ars)

compute_commitments(sec, al, counter, coeffs, revealed) ==
    [coeffs |-> <<sec.id>> \o coeffs, prf |-> sec.prf, counter |-> counter, max |-> al.max,
     attrs |-> [t \in DOMAIN al.vec \ revealed |-> al.vec[t]]]

\* The ways create_unsigned_credential gives up.
compute_pok_sig_fits(ars, al) ==
    KeyLen > Cardinality(DOMAIN al.vec) + Len(encode_ars(ars)) + 5

credential_hash_to_sign(values, proofs, dest) == <<values, proofs, dest>>

\* What the proof is bound to: the values and, for an existing account, its
\* address; the expiry of a new account is left to the signatures.
Transcript(values, dest) == <<values, IF dest[1] = "account" THEN dest ELSE <<>> >>

create_unsigned_credential(sec, rec, counter, coeffs, revealed, acc, dest) ==
    LET c      == rec.pio.common
        values == [credId |-> prf_exponent(sec.prf, counter)[1], thr |-> c.thr,
                   shares |-> compute_sharing_data(sec.id, c.ars, coeffs),
                   created |-> rec.al.created, valid |-> rec.al.valid,
                   policy |-> [t \in revealed |-> rec.al.vec[t]], acc |-> acc]
    IN [values |-> values,
        proofs |-> [cmm |-> compute_commitments(sec, rec.al, counter, coeffs, revealed),
                    bound |-> Transcript(values, dest)]]

create_credential(sec, rec, counter, coeffs, revealed, acc, dest) ==
    LET u == create_unsigned_credential(sec, rec, counter, coeffs, revealed, acc, dest)
    IN [values |-> u.values, proofs |-> u.proofs,
        sigs |-> Sign(acc.keys, credential_hash_to_sign(u.values, u.proofs, dest))]

\* The message the verifier computes from what the credential says, and
\* whether the provider signed it.
pok_sig_verifier(cred, rec) ==
    LET v == cred.values
        c == cred.proofs.cmm
        m == Message(c.coeffs[1], c.prf,
                     encode_public_credential_values(v.created, v.valid, v.thr),
                     encode_ars(DOMAIN v.shares),
                     encode_tags(DOMAIN v.policy \cup DOMAIN c.attrs), c.max,
                     merge_iter(v.policy, c.attrs))
    IN /\ DOMAIN v.policy \cap DOMAIN c.attrs = {}
       /\ Len(m) <= KeyLen /\ SameMessage(m, rec.message)

id_cred_pub_verifier(cred) ==
    /\ DOMAIN cred.values.shares \subseteq ArIds
    /\ \A a \in DOMAIN cred.values.shares :
          cred.values.shares[a] = commitment_to_share(a, cred.proofs.cmm.coeffs)

reg_id_verifier(cred) ==
    ((cred.proofs.cmm.prf + cred.proofs.cmm.counter) * cred.values.credId) % P = 1

verify_less_than_or_equal(a, b) == (b - a) % P < U8 /\ a % P < U8

verify_policy(cred) == TRUE

verify_cdi(cred, rec, dest) ==
    /\ Len(cred.proofs.cmm.coeffs) = cred.values.thr
    /\ pok_sig_verifier(cred, rec)
    /\ id_cred_pub_verifier(cred) /\ reg_id_verifier(cred)
    /\ cred.proofs.bound = Transcript(cred.values, dest)
    /\ verify_less_than_or_equal(cred.proofs.cmm.counter, cred.proofs.cmm.max)
    /\ verify_account_ownership_proof(cred.values.acc.keys, cred.values.acc.threshold, cred.sigs,
                                      credential_hash_to_sign(cred.values, cred.proofs, dest))
    /\ verify_policy(cred)

verify_initial_cdi(cdi, expiry) == cdi.sig = <<expiry, cdi.values>>

-----------------------------------------------------------------------------
(* Recovery of a lost identity object *)

generate_id_recovery_request(sec, time, ip) ==
    [idCredPub |-> sec.id, time |-> time, proof |-> <<sec.id, time, ip>>]

validate_id_recovery_request(req, ip) == req.proof = <<req.idCredPub, req.time, ip>>

-----------------------------------------------------------------------------
(* Actions *)

Init ==
    /\ secrets \in [id : IdSecs, prf : PrfKeys]
    /\ request = <<>> /\ record = <<>> /\ initial = <<>>
    /\ outbox = <<>> /\ intent = <<>> /\ chain = {}
    /\ outcome = "none" /\ recovery = <<>>

\* The holder asks for an identity the way the library does.
RequestIdentity(ch, coeffs, acc, v) ==
    /\ request = <<>> /\ record = <<>> /\ coeffs \in share_coefficients(ch.thr)
    /\ (v = 0) => prf_exponent(secrets.prf, 0) # <<>>
    /\ request' = <<IF v = 0 THEN generate_pio(secrets, ch, coeffs, acc)
                    ELSE generate_pio_v1(secrets, ch, coeffs), TRUE>>
    /\ outcome' = "none"
    /\ UNCHANGED <<secrets, record, initial, outbox, intent, chain, recovery>>

\* A holder who departs from the library in one part of the request.
RequestOdd(ch, coeffs, acc, how, val) ==
    LET base == generate_pio(secrets, ch, coeffs, acc)
        odd  == CASE how = "degree" -> [base EXCEPT
                        !.common.coeffs = <<secrets.prf>> \o val,
                        !.common.arData =
                            compute_sharing_data_prf(secrets.prf, ch.ars, val)]
                  [] how = "chunk"  -> [base EXCEPT !.common.arData[val.ar] = val.chunks,
                        !.common.bulletproofs = val.proofs]
                  [] how = "secret" -> [base EXCEPT !.common.coeffs[1] = val,
                        !.common.arData = compute_sharing_data_prf(val, ch.ars, coeffs)]
                  [] how = "regid"  -> [base EXCEPT !.info.regId = <<val>>,
                        !.sigs = Sign(acc.keys, [base.info EXCEPT !.regId = <<val>>])]
    IN /\ request = <<>> /\ record = <<>> /\ prf_exponent(secrets.prf, 0) # <<>>
       /\ coeffs \in share_coefficients(ch.thr)
       /\ request' = <<odd, FALSE>> /\ outcome' = "none"
       /\ UNCHANGED <<secrets, record, initial, outbox, intent, chain, recovery>>

\* verify_credentials: the provider validates, signs and, for version 0, makes
\* the initial credential.
VerifyCredentials(al, expiry) ==
    /\ request # <<>>
    /\ LET pio == request[1]
           valid == IF pio.version = 0 THEN validate_request(pio) ELSE validate_request_v1(pio)
           signs == valid /\ ~TooManyAttributes(pio.common.ars, al)
       IN /\ record' = IF signs THEN sign_identity_object(pio, al, expiry, request[2])
                      ELSE record
          /\ initial' = IF signs /\ pio.version = 0
                        THEN create_initial_cdi(pio.info, al, expiry) ELSE initial
          /\ outcome' = IF request[2] /\ ~valid /\ pio.common.thr <= Cardinality(pio.common.ars)
                        THEN "request refused" ELSE "none"
    /\ request' = <<>>
    /\ UNCHANGED <<secrets, outbox, intent, chain, recovery>>

\* Anyone hands the initial credential to the chain, with some expiry.
DeployInitial(expiry) ==
    /\ initial # <<>> /\ Cardinality(chain) < MaxCreds
    /\ verify_initial_cdi(initial, expiry)
    /\ chain' = chain \cup {[kind |-> "initial", credId |-> initial.values.regId,
                             dest |-> <<"new", expiry>>, acc |-> initial.values.acc]}
    /\ initial' = <<>>
    /\ UNCHANGED <<secrets, request, record, outbox, intent, outcome, recovery>>

CreateCredential(counter, coeffs, revealed, acc, dest) ==
    /\ record # <<>> /\ outbox = <<>> /\ Cardinality(chain) < MaxCreds
    /\ coeffs \in share_coefficients(record.pio.common.thr)
    /\ revealed \subseteq DOMAIN record.al.vec
    /\ IF /\ prf_exponent(secrets.prf, counter) # <<>>
          /\ compute_pok_sig_fits(record.pio.common.ars, record.al)
          /\ counter <= record.al.max
       THEN \E cred \in {create_credential(secrets, record, counter, coeffs, revealed, acc, dest)} :
               /\ outbox' = cred /\ intent' = <<cred.values, dest>>
               /\ outcome' = "made"
       ELSE /\ outcome' = IF compute_pok_sig_fits(record.pio.common.ars, record.al)
                          THEN "none" ELSE "key too short"
            /\ UNCHANGED <<outbox, intent>>
    /\ UNCHANGED <<secrets, request, record, initial, chain, recovery>>

Accept(cred, dest) ==
    chain' = chain \cup {[kind |-> "normal", credId |-> cred.values.credId, dest |-> dest,
                          honest |-> TRUE, acc |-> cred.values.acc, values |-> cred.values,
                          cmm |-> cred.proofs.cmm, intent |-> intent]}

\* The credential reaches the chain as the holder sent it.
Deploy ==
    /\ outbox # <<>>
    /\ \E ok \in {verify_cdi(outbox, record, intent[2])} :
          /\ outcome' = IF ok THEN "accepted" ELSE "credential refused"
          /\ IF ok THEN Accept(outbox, intent[2]) ELSE chain' = chain
    /\ outbox' = <<>> /\ intent' = <<>>
    /\ UNCHANGED <<secrets, request, record, initial, recovery>>

\* A relay sends it to another account, or with its own keys.
Relay(acc, dest) ==
    /\ outbox # <<>>
    /\ LET values == [outbox.values EXCEPT !.acc = acc]
           own    == acc # outbox.values.acc
           cred   == [outbox EXCEPT !.values = values,
                        !.sigs = IF own
                                 THEN Sign(acc.keys, credential_hash_to_sign(values, outbox.proofs, dest))
                                 ELSE @]
       IN verify_cdi(cred, record, dest) /\ Accept(cred, dest)
    /\ outbox' = <<>> /\ intent' = <<>> /\ outcome' = "none"
    /\ UNCHANGED <<secrets, request, record, initial, recovery>>

\* A holder who claims other values than the library would: another counter,
\* another sharing, or other values than those signed.
DeployOdd(counter, credId, sharing, claim, acc, dest) ==
    /\ record # <<>> /\ outbox = <<>> /\ Cardinality(chain) < MaxCreds
    /\ LET values == [credId |-> credId, thr |-> claim.thr,
                      shares |-> share(secrets.id, sharing, claim.ars),
                      created |-> claim.created, valid |-> claim.valid,
                      policy |-> claim.policy, acc |-> acc]
           proofs == [cmm |-> [coeffs |-> <<secrets.id>> \o sharing, prf |-> secrets.prf,
                               counter |-> counter, max |-> claim.max, attrs |-> claim.attrs],
                      bound |-> Transcript(values, dest)]
           cred   == [values |-> values, proofs |-> proofs,
                      sigs |-> Sign(acc.keys, credential_hash_to_sign(values, proofs, dest))]
       IN /\ verify_cdi(cred, record, dest)
          /\ chain' = chain \cup {[kind |-> "normal", credId |-> credId, dest |-> dest,
                                   honest |-> FALSE, acc |-> acc, values |-> values, cmm |-> proofs.cmm,
                                   intent |-> <<values, dest>>]}
    /\ UNCHANGED <<secrets, request, record, initial, outbox, intent, outcome, recovery>>

AskRecovery(time, ip) ==
    /\ record # <<>> /\ recovery = <<>> /\ chain = {} /\ outbox = <<>>
    /\ recovery' = [asked |-> <<generate_id_recovery_request(secrets, time, ip), ip>>,
                    granted |-> <<>>]
    /\ UNCHANGED <<secrets, request, record, initial, outbox, intent, chain, outcome>>

\* A provider answers a recovery request, or a copy of it with another time.
AnswerRecovery(time, ip) ==
    /\ recovery # <<>> /\ recovery.granted = <<>>
    /\ LET req == [recovery.asked[1] EXCEPT !.time = time]
           ok  == validate_id_recovery_request(req, ip)
       IN /\ recovery' = IF ok THEN [recovery EXCEPT !.granted = <<time, ip>>] ELSE recovery
          /\ outcome' = IF <<req, ip>> # recovery.asked THEN "none"
                        ELSE IF ok THEN "recovered" ELSE "recovery refused"
    /\ UNCHANGED <<secrets, request, record, initial, outbox, intent, chain>>

-----------------------------------------------------------------------------

Polynomials == UNION {[1 .. d -> F] : d \in SharingDegrees}
Partial == UNION {[D -> Values] : D \in SUBSET Tags}

\* What the provider signed, split into a revealed and a committed part.
SignedClaims ==
    {[thr |-> record.pio.common.thr, ars |-> record.pio.common.ars,
      created |-> record.al.created, valid |-> record.al.valid, max |-> record.al.max,
      policy |-> [t \in R |-> record.al.vec[t]],
      attrs |-> [t \in DOMAIN record.al.vec \ R |-> record.al.vec[t]]] :
         R \in SUBSET DOMAIN record.al.vec}

\* Anything a credential can say.
AllClaims ==
    [thr : 1 .. Cardinality(ArIds), ars : SUBSET ArIds, created : 0 .. DateBase - 1,
     valid : 0 .. DateBase - 1, max : 0 .. U8 - 1, policy : Partial, attrs : Partial]

OddRequest ==
    \E ch \in ArChoices, acc \in Accs : \E coeffs \in share_coefficients(ch.thr) :
        \/ \E p \in Polynomials : RequestOdd(ch, coeffs, acc, "degree", p)
        \/ \E a \in {Min(ch.ars), Max(ch.ars)}, c \in OddChunks, missing \in {0, 1} :
              RequestOdd(ch, coeffs, acc, "chunk", [ar |-> a, chunks |-> c,
                                                   proofs |-> Cardinality(ch.ars) - missing])
        \/ \E k \in PrfKeys : RequestOdd(ch, coeffs, acc, "secret", k)
        \/ \E k \in F : RequestOdd(ch, coeffs, acc, "regid", k)

OddCredential ==
    /\ record # <<>>
    /\ \E acc \in Accs, dest \in Dests :
        \/ \E c \in F, id \in F \ {0}, claim \in SignedClaims :
              DeployOdd(c, id, [i \in 1 .. claim.thr - 1 |-> 1], claim, acc, dest)
        \/ \E p \in Polynomials, claim \in SignedClaims :
              secrets.prf # 0 /\ DeployOdd(0, Inv(secrets.prf), p, claim, acc, dest)
        \/ /\ ClaimsAll
           /\ \E claim \in AllClaims :
                 /\ secrets.prf # 0
                 /\ DeployOdd(0, Inv(secrets.prf), [i \in 1 .. claim.thr - 1 |-> 1],
                              claim, acc, dest)

Next ==
    \/ \E ch \in ArChoices, acc \in Accs, v \in {0, 1} :
          \E coeffs \in share_coefficients(ch.thr) : RequestIdentity(ch, coeffs, acc, v)
    \/ OddRequest
    \/ \E al \in AttributeLists, e \in Expiries : VerifyCredentials(al, e)
    \/ \E e \in Expiries : DeployInitial(e)
    \/ /\ record # <<>>
       /\ \E c \in 0 .. U8 - 1, R \in SUBSET Tags, acc \in Accs, dest \in Dests :
             \E coeffs \in share_coefficients(record.pio.common.thr) :
                 CreateCredential(c, coeffs, R, acc, dest)
    \/ Deploy
    \/ \E acc \in Accs, dest \in Dests : Relay(acc, dest)
    \/ OddCredential
    \/ \E t \in Expiries, ip \in RecoveryIps : AskRecovery(t, ip) \/ AnswerRecovery(t, ip)

Spec == Init /\ [][Next]_vars

-----------------------------------------------------------------------------
(* Properties *)

On(f, S) == [x \in S |-> f[x]]

\* A revoker finds its share by decrypting chunk by chunk, which needs small ones.
CanDecrypt(a) == \A i \in 1 .. Chunks : record.pio.common.arData[a][i] < ChunkBase

\* Anonymity revocation finds the holder of every account: any set of at least
\* as many revokers of a credential as its threshold recovers the idCredPub the
\* provider has on record.  Every revoker for whose share of the PRF key the
\* holder sent a range proof can decrypt it (the provider does not insist on one
\* for each revoker), and threshold many of those who can decrypt recover a key
\* that gives the registration id of every account of the identity, one of
\* max_accounts + 1.  Whatever polynomials, ciphertexts and counters the holder
\* used.
RevocationSucceeds ==
    \A c \in chain :
        /\ c.kind = "normal" =>
              \A S \in SUBSET DOMAIN c.values.shares :
                  Cardinality(S) >= c.values.thr =>
                      reveal(On(c.values.shares, S)) = record.pio.info.idCredPub
        /\ \A a \in RangeChecked(record.pio.common) : CanDecrypt(a)
        /\ \A S \in SUBSET {a \in record.pio.common.ars : CanDecrypt(a)} :
              Cardinality(S) >= record.pio.common.thr =>
                  \E n \in 0 .. record.al.max :
                      prf_exponent(reveal([a \in S |->
                          chunks_to_value(record.pio.common.arData[a])]), n) = <<c.credId>>

\* One revoker fewer than the threshold recovers another value than the secret,
\* for credentials and identity objects the library made (secret_sharing.rs
\* makes the leading coefficient non-zero for this).
TooFewSharesMislead ==
    /\ \A c \in chain : (c.kind = "normal" /\ c.values.thr > 1) =>
        (c.honest => \A S \in SUBSET DOMAIN c.values.shares :
            Cardinality(S) = c.values.thr - 1 =>
                reveal(On(c.values.shares, S)) # record.pio.info.idCredPub)
    /\ record # <<>> => LET c == record.pio.common IN
        record.honest /\ c.thr > 1 => \A S \in SUBSET c.ars :
            Cardinality(S) = c.thr - 1 =>
                reveal([a \in S |-> chunks_to_value(c.arData[a])]) # c.cmmPrf

\* A credential the chain accepts says what the provider signed and nothing
\* else: the revokers and the threshold, the dates, the bound on accounts, which
\* attributes there are and the value of each, revealed or committed to.
AcceptedIsAsSigned ==
    \A c \in chain : c.kind = "normal" =>
        /\ c.values.thr = record.pio.common.thr
        /\ DOMAIN c.values.shares = record.pio.common.ars
        /\ c.values.created = record.al.created /\ c.values.valid = record.al.valid
        /\ c.cmm.max = record.al.max
        /\ DOMAIN c.values.policy \cup DOMAIN c.cmm.attrs = DOMAIN record.al.vec
        /\ \A t \in DOMAIN c.values.policy : c.values.policy[t] = record.al.vec[t]
        /\ \A t \in DOMAIN c.cmm.attrs : c.cmm.attrs[t] = record.al.vec[t]

\* A credential ends on the account, with the keys and with the expiry that its
\* holder, or for an initial credential the provider, made it for.
AcceptedIsAsIntended ==
    \A c \in chain :
        IF c.kind = "normal" THEN c.intent = <<c.values, c.dest>>
        ELSE c.dest = <<"new", record.expiry>> /\ c.acc = record.pio.info.acc

\* What the library makes is accepted: a request with a reachable threshold by
\* the provider, a credential by the chain, and a recovery request by the
\* provider and for the time it was made for.  What the provider signed can be
\* used: the key that was long enough for it is long enough for a credential.
HonestSucceeds ==
    outcome \notin {"request refused", "credential refused", "recovery refused", "key too short"}

\* A recovery request is granted only by the provider and for the time it was
\* made for.
RecoveryIsAsAsked ==
    (recovery # <<>>) =>
        (recovery.granted # <<>> =>
            recovery.granted = <<recovery.asked[1].time, recovery.asked[2]>>)

=============================================================================
