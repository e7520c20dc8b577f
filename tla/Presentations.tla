---------------------------- MODULE Presentations ----------------------------
(***************************************************************************)
(* Proofs of statements about the attributes of account credentials and of *)
(* Web3 credentials, and the presentations they are sent in.  Translated   *)
(* from concordium_base/src/id/id_prover.rs, id_verifier.rs,               *)
(* id_proof_types.rs and concordium_base/src/web3id/mod.rs and did.rs.     *)
(*                                                                         *)
(* A commitment is the pair of the field element in it and its randomness. *)
(* A zero-knowledge proof is ideal: it names the transcript, commitment    *)
(* and relation it was made for, and only someone who knows an opening     *)
(* that satisfies the relation makes one that verifies.  A signature names *)
(* its key and message.  Text is classed by what it parses as: a DID is    *)
(* the tuple of its parts, with the optional ones possibly missing.        *)
(*                                                                         *)
(* Honest holders answer requests with the library.  Dishonest ones also   *)
(* run it on inputs of their choice, and change what was sent: they may    *)
(* edit, splice, cut and sign again with the keys they own.                *)
(***************************************************************************)
EXTENDS Integers, Sequences, FiniteSets, SequencesExt, FiniteSetsExt

CONSTANTS
    StrBase,     \* the number of values of a string of one length
    MaxTime,     \* times above MaxTime have no date-time
    RangeN,      \* the width of range proofs (2^64 in the code)
    Accounts,    \* account credentials: [id, owner, idp, values]
    Issued,      \* Web3 credentials: [holder, contract, network, ty, values]
    Honest,      \* the honest holders
    HonestContracts, \* contracts whose issuer signs only what is in Issued
    Requests,    \* the requests verifiers make
    FakeInputs,  \* attribute values a dishonest holder makes up
    EditIssuers, EditSubjects, EditStatements, EditAttributes,
    Challenges,
    Versions,    \* versions of the identity proofs that are made
    MaxSent      \* bound: presentations made

VARIABLES
    sent,     \* the presentations and identity proofs made so far
    verdict   \* the last message verified and what the verifier was told

vars == <<sent, verdict>>

BothTypes == {"VerifiableCredential", "ConcordiumVerifiableCredential"}
NoAttr == <<"none", 0, 0>>
Fail == [ok |-> FALSE]

-----------------------------------------------------------------------------
(* Attributes and statements *)

to_field_element(a) == IF a[1] = "str" THEN StrBase * a[3] + a[2] ELSE a[2]

\* Dates outside what chrono represents cannot be written as JSON.
Serializable(a) == a[1] = "time" => a[2] <= MaxTime

attribute(s) == s[2]
Elements(S) == {to_field_element(a) : a \in S}

\* What the proof of a statement is about, as field elements.
Relation(s) ==
    CASE s[1] = "range" -> <<"range", to_field_element(s[3][1]), to_field_element(s[3][2])>>
      [] s[1] \in {"in", "notin"} -> <<s[1], Elements(s[3])>>
      [] OTHER -> <<"reveal">>

\* The relations the proof systems show of a committed value.
Holds(rel, x) ==
    CASE rel[1] = "range" -> x + RangeN - rel[3] \in 0 .. RangeN - 1
                             /\ x - rel[2] \in 0 .. RangeN - 1
      [] rel[1] = "in" -> x \in rel[2]
      [] rel[1] = "notin" -> x \notin rel[2]
      [] rel[1] = "reveal" -> TRUE

\* Set proofs fail to be made for a false statement, range proofs do not.
CanProve(rel, x) == rel[1] = "range" \/ Holds(rel, x)

-----------------------------------------------------------------------------
(* Atomic proofs *)

Item(version, s, x, com) ==
    IF s[1] = "reveal" /\ version = 1 THEN <<"item", <<"reveal", x>>, <<>>>>
    ELSE <<"item", Relation(s), IF s[1] = "reveal" THEN <<x, com>> ELSE com>>

\* Range proofs of version 1 have a transcript of their own.
TranscriptFor(version, s, t, x, com) ==
    IF version = 1 /\ s[1] = "range" THEN <<<<"attribute_range_proof", 0>>>>
    ELSE Append(t, Item(version, s, x, com))

NextTranscript(version, s, t, pf) ==
    IF version = 1 /\ s[1] = "range" THEN t ELSE pf.trans \o <<<<"proof", pf.rnd>>>>

prove_atomic(version, s, t, values, rand, rnd) ==
    LET tag == attribute(s)
        x == to_field_element(values[tag])
        com == <<x, rand[tag]>>
    IN IF tag \notin DOMAIN values \/ tag \notin DOMAIN rand \/ ~CanProve(Relation(s), x)
       THEN Fail
       ELSE [ok |-> TRUE,
             pf |-> [kind |-> s[1], attr |-> IF s[1] = "reveal" THEN values[tag] ELSE NoAttr,
                     trans |-> TranscriptFor(version, s, t, x, com), rel |-> Relation(s),
                     com |-> com, rnd |-> rnd]]

verify_atomic(version, s, t, cmms, pf) ==
    LET tag == attribute(s)
        x == IF s[1] = "reveal" THEN to_field_element(pf.attr) ELSE 0
    IN /\ pf.kind = s[1] /\ tag \in DOMAIN cmms
       /\ pf.rel = Relation(s) /\ pf.com = cmms[tag] /\ Holds(pf.rel, pf.com[1])
       /\ s[1] = "reveal" => pf.com[1] = x
       /\ pf.trans = TranscriptFor(version, s, t, x, cmms[tag])

ProveAll(version, statement, t0, values, rand, rnd) ==
    FoldLeft(LAMBDA acc, s :
                IF ~acc.ok THEN acc
                ELSE LET r == prove_atomic(version, s, acc.t, values, rand,
                                           <<rnd, Len(acc.t)>>)
                     IN IF ~r.ok THEN [acc EXCEPT !.ok = FALSE]
                        ELSE [ok |-> TRUE, t |-> NextTranscript(version, s, acc.t, r.pf),
                              proofs |-> Append(acc.proofs, <<s, r.pf>>)],
             [ok |-> TRUE, t |-> t0, proofs |-> <<>>], statement)

VerifyAll(version, proofs, t0, cmms) ==
    FoldLeft(LAMBDA acc, sp :
                IF acc.ok /\ verify_atomic(version, sp[1], acc.t, cmms, sp[2])
                THEN [ok |-> TRUE, t |-> NextTranscript(version, sp[1], acc.t, sp[2])]
                ELSE [acc EXCEPT !.ok = FALSE],
             [ok |-> TRUE, t |-> t0], proofs)

-----------------------------------------------------------------------------
(* Identity proofs: statements about one account credential *)

IdTranscript(challenge, cred) == <<<<"Concordium ID2.0 proof", challenge>>, <<"credential", cred>>>>

StatementWithContext_prove(version, challenge, cred, statement, values, rand, rnd) ==
    ProveAll(version, statement, IdTranscript(challenge, cred), values, rand, rnd)

Statement_verify(version, challenge, cred, cmms, statement, proofs) ==
    /\ Len(statement) = Len(proofs)
    /\ VerifyAll(version, [i \in DOMAIN proofs |-> <<statement[i], proofs[i]>>],
                 IdTranscript(challenge, cred), cmms).ok

-----------------------------------------------------------------------------
(* Decentralized identifiers: <<network or "", kind, parts>> *)

parse_did(d) == IF d[1] = "" THEN <<"mainnet", d[2], d[3]>> ELSE d

\* Mutant of DidOfIssuer: the network is left to the default.
DidOfIssuerDefault(kind, network, issuer) ==
    IF kind = "Account" THEN <<"", "idp", <<issuer>>>>
    ELSE <<"", "sci", <<issuer, "issuer", "">>>>

DidOfIssuer(kind, network, issuer) ==
    IF kind = "Account" THEN <<network, "idp", <<issuer>>>>
    ELSE <<network, "sci", <<issuer, "issuer", "">>>>

DidOfSubject(kind, network, subject) ==
    <<network, IF kind = "Account" THEN "cred" ELSE "pkc", <<subject>>>>

-----------------------------------------------------------------------------
(* Web3 credentials *)

Sign(key, msg) == <<key, msg>>
CommitmentsMessage(holder, contract, cmms) == <<"WEB3ID:COMMITMENTS", holder, contract, cmms>>
IssuerKey(contract) == <<"issuer", contract>>

Commit(values, rand) == [t \in DOMAIN values |-> <<to_field_element(values[t]), rand[t]>>]

from_secrets(values, rand, holder, contract) ==
    [sig |-> Sign(IssuerKey(contract), CommitmentsMessage(holder, contract, Commit(values, rand))),
     cmm |-> Commit(values, rand)]

\* Mutant of verify_signature: the holder is not part of what is signed.
verify_signatureHolder(sc, holder, key, contract) ==
    \E h \in {holder} \cup {c.holder : c \in Issued} :
        sc.sig = Sign(key, CommitmentsMessage(h, contract, sc.cmm))

verify_signature(sc, holder, key, contract) ==
    sc.sig = Sign(key, CommitmentsMessage(holder, contract, sc.cmm))

\* The credential as the wallet stores it.
CredentialToJson(c) ==
    [id |-> <<c.network, "sci", <<c.contract, "credentialEntry", c.holder>>>>,
     issuer |-> DidOfIssuer("Web3Id", c.network, c.contract),
     subject |-> DidOfSubject("Web3Id", c.network, c.holder), ty |-> c.ty,
     method |-> <<c.network, "pkc", IssuerKey(c.contract)>>, values |-> c.values]

CredentialFromJson(j) ==
    LET id == parse_did(j.id)
        is == parse_did(j.issuer)
        su == parse_did(j.subject)
        me == parse_did(j.method)
    IN IF /\ id[2] = "sci" /\ id[3][2] = "credentialEntry"
          /\ is[2] = "sci" /\ is[3][1] = id[3][1] /\ is[3][2] = "issuer" /\ is[3][3] = ""
          /\ su[2] = "pkc" /\ su[3][1] = id[3][3] /\ su[1] = id[1]
          /\ me[2] = "pkc" /\ me[1] = id[1]
       THEN [ok |-> TRUE,
             cred |-> [holder |-> id[3][3], contract |-> id[3][1], network |-> id[1],
                       ty |-> j.ty, values |-> j.values]]
       ELSE Fail

-----------------------------------------------------------------------------
(* Presentations *)

Start(challenge) == <<<<"ConcordiumWeb3ID", challenge>>>>

linking_proof_message_to_sign(challenge, creds) == <<"WEB3ID:LINKING", challenge, creds>>

\* Proves one credential statement; input is what the wallet knows of it.
CredentialStatement_prove(cs, input, t, rnd) ==
    IF cs.kind # input.kind \/ (cs.kind = "Web3Id" /\ cs.subject # input.signer)
       \/ (cs.kind = "Web3Id" /\ DOMAIN input.values # DOMAIN input.rand)
    THEN Fail
    ELSE LET r == ProveAll(2, cs.statement, t, input.values, input.rand, rnd)
         IN IF ~r.ok THEN Fail
            ELSE [ok |-> TRUE, t |-> r.t,
                  cred |-> [kind |-> cs.kind, created |-> rnd, network |-> cs.network,
                            subject |-> cs.subject,
                            issuer |-> IF cs.kind = "Account" THEN input.issuer ELSE cs.issuer,
                            ty |-> cs.ty, proofs |-> r.proofs,
                            sc |-> IF cs.kind = "Account" THEN [sig |-> <<>>, cmm |-> <<>>]
                                   ELSE [sig |-> input.sig, cmm |-> Commit(input.values, input.rand)]]]

Request_prove(req, inputs, rnd) ==
    IF Len(req.statements) # Len(inputs) THEN Fail
    ELSE LET step(acc, i) ==
                 IF ~acc.ok THEN acc
                 ELSE LET r == CredentialStatement_prove(req.statements[i], inputs[i], acc.t, rnd)
                      IN IF ~r.ok THEN [acc EXCEPT !.ok = FALSE]
                         ELSE [ok |-> TRUE, t |-> r.t, creds |-> Append(acc.creds, r.cred)]
             all == FoldLeft(step, [ok |-> TRUE, t |-> Start(req.challenge), creds |-> <<>>],
                             [i \in DOMAIN inputs |-> i])
             signers == SelectSeq(inputs, LAMBDA n : n.kind = "Web3Id")
             msg == linking_proof_message_to_sign(req.challenge, all.creds)
         IN IF ~all.ok THEN Fail
            ELSE [ok |-> TRUE,
                  pres |-> [context |-> req.challenge, creds |-> all.creds,
                            links |-> [i \in DOMAIN signers |-> Sign(signers[i].signer, msg)]]]

\* The statement of a credential proof, as the verifier is told it.
CredentialProof_statement(c) ==
    [kind |-> c.kind, network |-> c.network, subject |-> c.subject, ty |-> c.ty,
     issuer |-> IF c.kind = "Account" THEN "" ELSE c.issuer,
     statement |-> [i \in DOMAIN c.proofs |-> c.proofs[i][1]]]

verify_single_credential(c, public, t) ==
    IF c.kind # public.kind THEN Fail
    ELSE IF c.kind = "Account" THEN VerifyAll(2, c.proofs, t, public.cmms)
    ELSE IF ~verify_signature(c.sc, c.subject, public.key, c.issuer) THEN Fail
    ELSE VerifyAll(2, c.proofs, t, c.sc.cmm)

Presentation_verify(p, publics) ==
    LET msg == linking_proof_message_to_sign(p.context, p.creds)
        step(acc, i) ==
            IF ~acc.ok THEN acc
            ELSE LET c == p.creds[i]
                     web3 == c.kind = "Web3Id"
                     r == verify_single_credential(c, publics[i], acc.t)
                 IN IF (web3 => acc.next <= Len(p.links)
                                /\ p.links[acc.next] = Sign(c.subject, msg)) /\ r.ok
                    THEN [ok |-> TRUE, t |-> r.t, next |-> acc.next + (IF web3 THEN 1 ELSE 0)]
                    ELSE [acc EXCEPT !.ok = FALSE]
        all == FoldLeft(step, [ok |-> TRUE, t |-> Start(p.context), next |-> 1],
                        [i \in DOMAIN p.creds |-> i])
    IN [ok |-> Len(publics) = Len(p.creds) /\ all.ok /\ all.next > Len(p.links),
        req |-> [challenge |-> p.context,
                 statements |-> [i \in DOMAIN p.creds |-> CredentialProof_statement(p.creds[i])]]]

-----------------------------------------------------------------------------
(* JSON *)

CredentialProofToJson(c) ==
    [ty |-> IF c.kind = "Account" THEN BothTypes ELSE c.ty,
     issuer |-> DidOfIssuer(c.kind, c.network, c.issuer),
     id |-> DidOfSubject(c.kind, c.network, c.subject),
     statement |-> [i \in DOMAIN c.proofs |-> c.proofs[i][1]], created |-> c.created,
     value |-> [i \in DOMAIN c.proofs |-> c.proofs[i][2]], commitments |-> c.sc]

PresentationToJson(p) ==
    [context |-> p.context, creds |-> [i \in DOMAIN p.creds |-> CredentialProofToJson(p.creds[i])],
     links |-> p.links]

JsonPossible(p) ==
    \A i \in DOMAIN p.creds : \A k \in DOMAIN p.creds[i].proofs :
        Serializable(p.creds[i].proofs[k][2].attr)

CredentialProofFromJson(j) ==
    LET is == parse_did(j.issuer)
        id == parse_did(j.id)
        kind == IF is[2] = "idp" THEN "Account" ELSE "Web3Id"
    IN IF /\ BothTypes \subseteq j.ty /\ is[2] \in {"idp", "sci"}
          /\ is[2] = "sci" => is[3][2] = "issuer" /\ is[3][3] = ""
          /\ id[2] = (IF kind = "Account" THEN "cred" ELSE "pkc") /\ is[1] = id[1]
          /\ Len(j.value) = Len(j.statement)
       THEN [ok |-> TRUE,
             cred |-> [kind |-> kind, created |-> j.created, network |-> is[1],
                       subject |-> id[3][1], issuer |-> is[3][1],
                       ty |-> IF kind = "Account" THEN {} ELSE j.ty,
                       proofs |-> [i \in DOMAIN j.value |-> <<j.statement[i], j.value[i]>>],
                       sc |-> IF kind = "Account" THEN [sig |-> <<>>, cmm |-> <<>>]
                              ELSE j.commitments]]
       ELSE Fail

PresentationFromJson(j) ==
    IF \E i \in DOMAIN j.creds : ~CredentialProofFromJson(j.creds[i]).ok THEN Fail
    ELSE [ok |-> TRUE,
          pres |-> [context |-> j.context, links |-> j.links,
                    creds |-> [i \in DOMAIN j.creds |-> CredentialProofFromJson(j.creds[i]).cred]]]

-----------------------------------------------------------------------------
(* Holders *)

AccountOf(id) == CHOOSE a \in Accounts : a.id = id
AccountRand(a) == [t \in DOMAIN a.values |-> <<"acc", a.id, t>>]
Web3Rand(c) == [t \in DOMAIN c.values |-> <<c.holder, c.contract, t>>]
Dishonest == ({a.owner : a \in Accounts} \cup {c.holder : c \in Issued}) \ Honest

AccountInput(a) ==
    [kind |-> "Account", signer |-> "", issuer |-> a.idp, values |-> a.values,
     rand |-> AccountRand(a), sig |-> <<>>]

Web3IdCredential_into_inputs(c) ==
    [kind |-> "Web3Id", signer |-> c.holder, issuer |-> c.contract, values |-> c.values,
     rand |-> Web3Rand(c), sig |-> from_secrets(c.values, Web3Rand(c), c.holder, c.contract).sig]

\* The wallet's inputs for a statement: what it stored of the credential.
InputsFor(h, cs) ==
    IF cs.kind = "Account"
    THEN {AccountInput(a) : a \in {b \in Accounts : b.id = cs.subject /\ b.owner = h}}
    ELSE {Web3IdCredential_into_inputs(CredentialFromJson(CredentialToJson(c)).cred) :
            c \in {b \in Issued : b.holder = h /\ b.holder = cs.subject
                               /\ b.contract = cs.issuer /\ CredentialFromJson(CredentialToJson(b)).ok}}

Signatures == {Web3IdCredential_into_inputs(c).sig : c \in Issued}

\* Inputs a dishonest holder feeds to the library.
DishonestInputs(h, cs) ==
    {[kind |-> cs.kind, signer |-> h, issuer |-> cs.issuer, values |-> v, sig |-> g,
      rand |-> [t \in DOMAIN v |-> r[t]]] :
        v \in FakeInputs \cup {c.values : c \in {b \in Issued : b.holder = h}},
        r \in {Web3Rand(c) : c \in {b \in Issued : b.holder = h}}
              \cup {AccountRand(a) : a \in {b \in Accounts : b.owner = h}},
        g \in IF cs.kind = "Account" THEN {<<>>}
              ELSE Signatures \cup
                   (IF cs.issuer \in HonestContracts THEN {}
                    ELSE {from_secrets(w, Web3Rand(c), h, cs.issuer).sig :
                            w \in FakeInputs, c \in {b \in Issued : b.holder = h}})}

None == [what |-> "none"]
Init == sent = {} /\ verdict = None

Made(h, req, inputs) ==
    \E r \in {Request_prove(req, inputs, Cardinality(sent))} :
        /\ r.ok
        /\ sent' = sent \cup {[form |-> "pres", by |-> h, req |-> req, pres |-> r.pres]}
        /\ UNCHANGED verdict

\* An honest holder answers a request.
Prove(h, req) ==
    /\ verdict = None /\ Cardinality(sent) < MaxSent
    /\ \E inputs \in [DOMAIN req.statements -> UNION {InputsFor(h, req.statements[i]) :
                                                        i \in DOMAIN req.statements}] :
        /\ \A i \in DOMAIN inputs : inputs[i] \in InputsFor(h, req.statements[i])
        /\ Made(h, req, inputs)

\* A dishonest holder runs the library on inputs it makes up.
ProveAnything(h, req) ==
    /\ verdict = None /\ Cardinality(sent) < MaxSent /\ Len(req.statements) = 1
    /\ \E input \in DishonestInputs(h, req.statements[1]) : Made(h, req, <<input>>)

\* What the verifier looks up for a credential, from its metadata.
PublicFor(c) ==
    IF c.kind = "Account"
    THEN [kind |-> "Account", cmms |-> Commit(AccountOf(c.subject).values, AccountRand(AccountOf(c.subject)))]
    ELSE [kind |-> "Web3Id", key |-> IssuerKey(c.issuer)]

Judge(j) ==
    LET r == PresentationFromJson(j)
    IN IF ~r.ok THEN Fail
       ELSE IF \E i \in DOMAIN r.pres.creds :
                 r.pres.creds[i].kind = "Account"
                 /\ \A a \in Accounts : a.id # r.pres.creds[i].subject THEN Fail
       ELSE LET v == Presentation_verify(r.pres, [i \in DOMAIN r.pres.creds |-> PublicFor(r.pres.creds[i])])
            IN [ok |-> v.ok, req |-> v.req, pres |-> r.pres]

\* What an honest holder sent arrives as it was sent.
Deliver(m) ==
    /\ verdict = None /\ m.by \in Honest /\ JsonPossible(m.pres)
    /\ \E r \in {Judge(PresentationToJson(m.pres))} :
        verdict' = [what |-> "delivered", asked |-> m.req, made |-> m.pres, result |-> r]
    /\ UNCHANGED sent

EditCred(j, i, c) == [j EXCEPT !.creds = [@ EXCEPT ![i] = c]]

Edits(j, q) ==
    {[j EXCEPT !.context = c] : c \in Challenges}
    \cup {j, [j EXCEPT !.creds = SubSeq(@, 1, Len(@) - 1)], [j EXCEPT !.creds = @ \o q.creds],
           [j EXCEPT !.creds = Reverse(@)], [j EXCEPT !.links = q.links]}
    \cup UNION {
        {EditCred(j, i, c) : c \in
            {[j.creds[i] EXCEPT !.issuer = d] : d \in EditIssuers}
            \cup {[j.creds[i] EXCEPT !.id = d] : d \in EditSubjects}
            \cup {[j.creds[i] EXCEPT !.created = 99], [j.creds[i] EXCEPT !.ty = @ \cup {"other"}],
                   [j.creds[i] EXCEPT !.value = SubSeq(@, 1, Len(@) - 1)],
                   [j.creds[i] EXCEPT !.value = SubSeq(@, 1, Len(@) - 1),
                                      !.statement = SubSeq(@, 1, Len(@) - 1)]}
            \cup {[j.creds[i] EXCEPT !.commitments = q.creds[k].commitments] : k \in DOMAIN q.creds}
            \cup {[j.creds[i] EXCEPT !.statement = <<s>> \o SubSeq(@, 2, Len(@))] : s \in EditStatements}
            \cup (IF j.creds[i].value = <<>> \/ j.creds[i].value[1].kind # "reveal" THEN {}
                  ELSE {[j.creds[i] EXCEPT !.value = <<[@[1] EXCEPT !.attr = a]>> \o Tail(@)] :
                            a \in EditAttributes})
            \cup {q.creds[k] : k \in DOMAIN q.creds}} : i \in DOMAIN j.creds}

\* Dishonest holders sign what they have keys for once more.
Relink(j) ==
    LET r == PresentationFromJson(j)
        web3 == SelectSeq(r.pres.creds, LAMBDA c : c.kind = "Web3Id")
        msg == linking_proof_message_to_sign(r.pres.context, r.pres.creds)
    IN IF ~r.ok THEN j
       ELSE [j EXCEPT !.links =
               [i \in DOMAIN web3 |-> IF web3[i].subject \in Dishonest THEN Sign(web3[i].subject, msg)
                                      ELSE IF i <= Len(@) THEN @[i] ELSE <<"", <<>>>>]]

\* The verifier accepts something that was changed on the way.
Forge(m, n) ==
    /\ verdict = None /\ m.form = "pres" /\ n.form = "pres"
    /\ \E q \in {PresentationToJson(n.pres)} :
       \E e \in UNION {Edits(d, q) : d \in Edits(PresentationToJson(m.pres), q)} :
       \E j \in {e, Relink(e)} : \E r \in {Judge(j)} :
            /\ r.ok
            /\ verdict' = [what |-> "accepted", result |-> r]
    /\ UNCHANGED sent

\* An honest holder makes an identity proof.
ProveId(h, a, req, version) ==
    /\ verdict = None /\ Cardinality(sent) < MaxSent
    /\ a.owner = h /\ Len(req.statements) = 1 /\ req.statements[1].subject = a.id
    /\ \E r \in {StatementWithContext_prove(version, req.challenge, a.id,
                    req.statements[1].statement, a.values, AccountRand(a), Cardinality(sent))} :
        /\ r.ok
        /\ sent' = sent \cup {[form |-> "id", by |-> h, version |-> version,
                               challenge |-> req.challenge, cred |-> a.id, proofs |-> r.proofs]}
    /\ UNCHANGED verdict

\* The verifier accepts an identity proof, perhaps for another challenge or
\* credential, or made of parts of several.
VerifyId(m, n, challenge, a) ==
    /\ verdict = None /\ m.form = "id"
    /\ LET other == IF n.form = "id" THEN n.proofs ELSE n.pres.creds[1].proofs
           parts == {m.proofs, other, m.proofs \o other, other \o m.proofs}
       IN \E ps \in parts :
            /\ Statement_verify(m.version, challenge, a.id, Commit(a.values, AccountRand(a)),
                                [i \in DOMAIN ps |-> ps[i][1]], [i \in DOMAIN ps |-> ps[i][2]])
            /\ verdict' = [what |-> "id", version |-> m.version, challenge |-> challenge,
                           cred |-> a.id, proofs |-> ps]
    /\ UNCHANGED sent

Settle == verdict # None /\ verdict' = None /\ UNCHANGED sent

Next ==
    \/ \E h \in Honest, req \in Requests : Prove(h, req)
    \/ \E h \in Dishonest, req \in Requests : ProveAnything(h, req)
    \/ \E m \in {x \in sent : x.form = "pres"} : Deliver(m)
    \/ \E m, n \in sent : Forge(m, n)
    \/ \E h \in Honest, a \in Accounts, req \in Requests, v \in Versions : ProveId(h, a, req, v)
    \/ \E m, n \in sent, c \in Challenges, a \in Accounts : VerifyId(m, n, c, a)
    \/ Settle

Spec == Init /\ [][Next]_vars

-----------------------------------------------------------------------------
(* Properties *)

Same(a, b) == IF a[1] = "str" \/ b[1] = "str" THEN a = b ELSE a[2] = b[2]

Below(a, b) ==
    \/ a[1] # "str" /\ (b[1] = "str" \/ a[2] < b[2])
    \/ a[1] = "str" /\ b[1] = "str" /\ (a[3] < b[3] \/ (a[3] = b[3] /\ a[2] < b[2]))

\* What a statement says of an attribute value.
Says(s, pf, v) ==
    CASE s[1] = "reveal" -> Same(pf.attr, v)
      [] s[1] = "in" -> \E a \in s[3] : Same(a, v)
      [] s[1] = "notin" -> \A a \in s[3] : ~Same(a, v)
      [] s[1] = "range" -> ~Below(v, s[3][1]) /\ Below(v, s[3][2])

SaysAll(proofs, values) ==
    \A k \in DOMAIN proofs :
        /\ proofs[k][1][2] \in DOMAIN values
        /\ Says(proofs[k][1], proofs[k][2], values[proofs[k][1][2]])

AcceptedCreds ==
    IF verdict.what \in {"accepted", "delivered"} /\ verdict.result.ok
    THEN verdict.result.pres.creds ELSE <<>>

\* What the verifier is told is so: every statement of an accepted
\* presentation is true of the attributes behind the account credential, or
\* of a credential that the contract's issuer issued to the holder, whatever
\* dishonest holders made up, reused, edited or signed again
\* (Presentation::verify).
VerifiedIsTrue ==
    \A i \in DOMAIN AcceptedCreds : \E c \in {AcceptedCreds[i]} :
        \/ c.kind = "Account" /\ SaysAll(c.proofs, AccountOf(c.subject).values)
        \/ c.kind = "Web3Id" /\ c.issuer \notin HonestContracts
        \/ c.kind = "Web3Id" /\ \E w \in Issued : /\ w.holder = c.subject /\ w.contract = c.issuer
                                                   /\ SaysAll(c.proofs, w.values)

\* A presentation that names an honest Web3 holder was made by that holder,
\* all of its credentials and every field of them, for that challenge: the
\* holder's signature links them (linking_proof_message_to_sign).
LinkedIsUntouched ==
    \A i \in DOMAIN AcceptedCreds :
        AcceptedCreds[i].kind = "Web3Id" /\ AcceptedCreds[i].subject \in Honest =>
            \E m \in sent : /\ m.form = "pres" /\ m.by = AcceptedCreds[i].subject
                            /\ m.pres.context = verdict.result.pres.context
                            /\ m.pres.creds = AcceptedCreds

AllProofs(creds) == FlattenSeq([k \in DOMAIN creds |-> creds[k].proofs])

\* A proof about an honest holder's account credential is accepted only for
\* the challenge it was made for and after the same proofs, although nothing
\* is signed: the transcript carries the challenge and all earlier proofs.
ForTheChallenge ==
    \A i \in DOMAIN AcceptedCreds : \E c \in {AcceptedCreds[i]} :
        c.kind = "Account" /\ c.proofs # <<>> /\ AccountOf(c.subject).owner \in Honest =>
            \E m \in sent :
                /\ m.form = "pres" /\ m.by = AccountOf(c.subject).owner
                /\ m.pres.context = verdict.result.pres.context
                /\ IsPrefix(AllProofs(SubSeq(AcceptedCreds, 1, i)), AllProofs(m.pres.creds))

\* An identity proof is accepted only for the credential and the challenge
\* its owner made it for, with all parts in place; range proofs of version 1
\* are the exception, they have no transcript (StatementWithContext::verify).
IdentityProofsAreForTheirChallenge ==
    verdict.what = "id" =>
        \A k \in DOMAIN verdict.proofs :
            \/ verdict.version = 1 /\ verdict.proofs[k][1][1] = "range"
            \/ \E m \in sent : /\ m.form = "id" /\ m.cred = verdict.cred
                               /\ m.challenge = verdict.challenge
                               /\ verdict.proofs[k] \in Range(m.proofs)

\* Within reach of both ends of the range.
InReach(creds) ==
    \A i \in DOMAIN creds : \A k \in DOMAIN creds[i].proofs :
        LET s == creds[i].proofs[k][1]
            v == to_field_element((IF creds[i].kind = "Account" THEN AccountOf(creds[i].subject)
                                   ELSE CHOOSE w \in Issued : w.holder = creds[i].subject
                                                              /\ w.contract = creds[i].issuer).values[s[2]])
        IN s[1] = "range" => /\ v - to_field_element(s[3][1]) < RangeN
                             /\ to_field_element(s[3][2]) - v <= RangeN

TrueCreds(creds) ==
    \A i \in DOMAIN creds :
        SaysAll(creds[i].proofs,
                (IF creds[i].kind = "Account" THEN AccountOf(creds[i].subject)
                 ELSE CHOOSE w \in Issued : w.holder = creds[i].subject
                                            /\ w.contract = creds[i].issuer).values)

TypesComplete(creds) ==
    \A i \in DOMAIN creds : creds[i].kind = "Web3Id" => BothTypes \subseteq creds[i].ty

\* What an honest wallet makes of a request is accepted after its way
\* through JSON, and the verifier is told exactly the request it made;
\* it is rejected when a range statement is false (Request::prove,
\* Presentation::try_from, Presentation::verify).
HonestVerifies ==
    verdict.what = "delivered" /\ TypesComplete(verdict.made.creds) /\ InReach(verdict.made.creds) =>
        /\ verdict.result.ok <=> TrueCreds(verdict.made.creds)
        /\ verdict.result.ok => verdict.result.req = verdict.asked

=============================================================================
