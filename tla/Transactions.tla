---------------------------- MODULE Transactions ----------------------------
(***************************************************************************)
(* Account transactions: how a wallet prepares, signs and sends one, and   *)
(* what a receiver makes of it.  Models transactions.rs (payloads and      *)
(* their two encodings, costs, constructors, signers, signature check),    *)
(* the signatures of common/types.rs and the account keys of id/types.rs.  *)
(*                                                                         *)
(* Bytes are typed tokens <<sort, value>>: a field of a fixed type is one  *)
(* token, texts and lists have a length in front.  A token read as another *)
(* sort is a parse error.  A hash is what was hashed, a signature is the   *)
(* key and the hash.  What the chain does with an accepted transaction is  *)
(* external.                                                               *)
(***************************************************************************)
EXTENDS Integers, FiniteSets, SequencesExt

CONSTANTS U8,          \* the number of values of a one byte count
          MaxMemo,     \* MAX_MEMO_SIZE, MAX_REGISTERED_DATA_SIZE, MAX_URL_TEXT_LENGTH
          MaxPayload,  \* MAX_PAYLOAD_SIZE
          HeaderSize,  \* TRANSACTION_HEADER_SIZE
          Accounts,    \* access structures the account may start with
          Wallets,     \* account keys a wallet may hold
          Payloads,    \* payloads a wallet may send
          Foreign,     \* encoded payloads made by another implementation
          Signers,     \* subset of {"keys", "map"}: which signer is used
          MaxSigs,     \* the number of signatures a caller of the constructors plans for
          MaxExisting  \* bound on the number of credentials a caller declares

VARIABLES account,     \* AccountAccessStructure of the sender on the chain
          wallet,      \* AccountKeys (or plain map) of the wallet
          pre,         \* the PreAccountTransaction at hand
          wire,        \* the block item in flight
          signed,      \* history: who signed what, for the transaction at hand
          accepted     \* history: what a receiver accepted, for which account

vars == <<account, wallet, pre, wire, signed, accepted>>

None == [none |-> TRUE]

Bad == [ok |-> FALSE, val |-> <<>>, rest |-> <<>>]
Got(v, rest) == [ok |-> TRUE, val |-> v, rest |-> rest]

Keys(f) == SetToSortSeq(DOMAIN f, <)

-----------------------------------------------------------------------------
(* The layout of the payloads. *)

One(sort) == <<"one", <<sort>> >>
Sized     == <<"sized", <<>> >>
ListOf(sort) == <<"list", <<sort>> >>
MapOf(sort)  == <<"map", <<sort>> >>
PublicKeys   == <<"keys", <<>> >>
Options(bits) == <<"options", bits>>
StrictOptions(bits) == <<"strict", bits>>

BakerKeys == <<One("election"), One("signature"), One("aggregation"),
               One("proof_sig"), One("proof_election"), One("proof_aggregation")>>

ConfigureBakerBits ==
  << <<"amount">>, <<"bool">>, <<"open">>,
     <<"election", "proof_election", "signature", "proof_sig", "aggregation", "proof_aggregation">>,
     <<"url">>, <<"fraction">>, <<"fraction">>, <<"fraction">> >>

ConfigureDelegationBits == << <<"amount">>, <<"bool">>, <<"target">> >>

Layout == [
  DeployModule |-> <<One("module")>>,
  InitContract |-> <<One("amount"), One("module_ref"), One("name"), Sized>>,
  Update |-> <<One("amount"), One("contract"), One("name"), Sized>>,
  Transfer |-> <<One("account"), One("amount")>>,
  AddBaker |-> BakerKeys \o <<One("amount"), One("bool")>>,
  RemoveBaker |-> <<>>,
  UpdateBakerStake |-> <<One("amount")>>,
  UpdateBakerRestakeEarnings |-> <<One("bool")>>,
  UpdateBakerKeys |-> BakerKeys,
  UpdateCredentialKeys |-> <<One("cred_id"), PublicKeys>>,
  EncryptedAmountTransfer |-> <<One("account"), One("encrypted")>>,
  TransferToEncrypted |-> <<One("amount")>>,
  TransferToPublic |-> <<One("sec_to_pub")>>,
  TransferWithSchedule |-> <<One("account"), ListOf("release")>>,
  UpdateCredentials |-> <<MapOf("credential"), ListOf("cred_id"), One("threshold")>>,
  RegisterData |-> <<Sized>>,
  TransferWithMemo |-> <<One("account"), Sized, One("amount")>>,
  EncryptedAmountTransferWithMemo |-> <<One("account"), Sized, One("encrypted")>>,
  TransferWithScheduleAndMemo |-> <<One("account"), Sized, ListOf("release")>>,
  ConfigureBaker |-> <<Options(ConfigureBakerBits)>>,
  ConfigureDelegation |-> <<StrictOptions(ConfigureDelegationBits)>>]

\* The tags the encoder writes.
TagOf == [
  DeployModule |-> 0, InitContract |-> 1, Update |-> 2, Transfer |-> 3, AddBaker |-> 4,
  RemoveBaker |-> 5, UpdateBakerStake |-> 6, UpdateBakerRestakeEarnings |-> 7,
  UpdateBakerKeys |-> 8, UpdateCredentialKeys |-> 13, EncryptedAmountTransfer |-> 16,
  TransferToEncrypted |-> 17, TransferToPublic |-> 18, TransferWithSchedule |-> 19,
  UpdateCredentials |-> 20, RegisterData |-> 21, TransferWithMemo |-> 22,
  EncryptedAmountTransferWithMemo |-> 23, TransferWithScheduleAndMemo |-> 24,
  ConfigureBaker |-> 25, ConfigureDelegation |-> 26]

KindsOf(tag) == {k \in DOMAIN TagOf : TagOf[k] = tag}

-----------------------------------------------------------------------------
(* Serial for Payload. *)

Pairs(f, sort) ==
  FlattenSeq([i \in DOMAIN Keys(f) |-> << <<"index", Keys(f)[i]>>, <<sort, f[Keys(f)[i]]>> >>])

SerialList(s, sort) ==
  << <<"u8", Len(s) % U8>> >> \o [i \in DOMAIN s |-> <<sort, s[i]>>]

SerialOptions(bits, chosen) ==
  << <<"u16", FoldLeft(LAMBDA n, i : n + (IF i \in DOMAIN chosen THEN 2^(i - 1) ELSE 0), 0,
                       [i \in DOMAIN bits |-> i])>> >>
    \o FlattenSeq([i \in DOMAIN bits |->
         IF i \in DOMAIN chosen THEN [j \in DOMAIN bits[i] |-> <<bits[i][j], chosen[i]>>] ELSE <<>>])

SerialPart(part, v) ==
  CASE part[1] = "one"   -> << <<part[2][1], v>> >>
    [] part[1] = "sized" -> << <<"u16", v>> >> \o [i \in 1..v |-> <<"byte", 0>>]
    [] part[1] = "list"  -> SerialList(v, part[2][1])
    [] part[1] = "map"   -> << <<"u8", Cardinality(DOMAIN v) % U8>> >> \o Pairs(v, part[2][1])
    [] part[1] = "keys"  -> << <<"u8", Cardinality(DOMAIN v.keys) % U8>> >> \o Pairs(v.keys, "key")
                              \o << <<"threshold", v.threshold>> >>
    [] OTHER             -> SerialOptions(part[2], v)

encode(p) ==
  << <<"tag", TagOf[p.kind]>> >>
    \o FlattenSeq([i \in DOMAIN p.parts |-> SerialPart(Layout[p.kind][i], p.parts[i])])

-----------------------------------------------------------------------------
(* Deserial for Payload.  A reader takes tokens off the front of s. *)

HasHead(s, sort) == Len(s) > 0 /\ s[1][1] = sort
AreAll(s, from, n, sort) == \A i \in from..(from + n - 1) : s[i][1] = sort
After(s, n) == SubSeq(s, n + 1, Len(s))

ReadMap(s, sort, least) ==
  LET n == s[1][2] IN
  IF ~HasHead(s, "u8") \/ Len(s) < 1 + 2 * n \/ n < least THEN Bad ELSE
  IF \E i \in 1..n : s[2 * i][1] # "index" \/ s[2 * i + 1][1] # sort THEN Bad ELSE
  IF \E i \in 1..(n - 1) : s[2 * i][2] >= s[2 * i + 2][2] THEN Bad ELSE
  Got([k \in {s[2 * i][2] : i \in 1..n} |-> s[2 * (CHOOSE i \in 1..n : s[2 * i][2] = k) + 1][2]],
      After(s, 1 + 2 * n))

ReadKeys(s) ==
  LET m == ReadMap(s, "key", 1) IN
  IF ~m.ok \/ ~HasHead(m.rest, "threshold") THEN Bad
  ELSE Got([keys |-> m.val, threshold |-> m.rest[1][2]], After(m.rest, 1))

HasBit(n, i) == (n \div 2^(i - 1)) % 2 = 1

ReadOptions(s, bits, strict) ==
  IF ~HasHead(s, "u16") \/ (strict /\ s[1][2] >= 2^Len(bits)) THEN Bad ELSE
  LET present == {i \in DOMAIN bits : HasBit(s[1][2], i)}
      start == [i \in DOMAIN bits |-> 1 + FoldLeft(LAMBDA n, j : n + (IF j \in present THEN Len(bits[j]) ELSE 0),
                                                  0, [j \in 1..(i - 1) |-> j])]
      size == FoldLeft(LAMBDA n, j : n + (IF j \in present THEN Len(bits[j]) ELSE 0),
                       1, [j \in DOMAIN bits |-> j])
  IN IF Len(s) < size \/ (\E i \in present : \E j \in DOMAIN bits[i] : s[start[i] + j][1] # bits[i][j])
     THEN Bad ELSE Got([i \in present |-> s[start[i] + 1][2]], After(s, size))

ReadSized(s) ==
  IF HasHead(s, "u16") /\ s[1][2] <= MaxMemo /\ Len(s) > s[1][2] /\ AreAll(s, 2, s[1][2], "byte")
  THEN Got(s[1][2], After(s, 1 + s[1][2])) ELSE Bad

ReadPart(part, s) ==
  CASE part[1] = "one"   -> IF HasHead(s, part[2][1]) THEN Got(s[1][2], After(s, 1)) ELSE Bad
    [] part[1] = "sized" -> ReadSized(s)
    [] part[1] = "list"  -> IF HasHead(s, "u8") /\ Len(s) > s[1][2] /\ AreAll(s, 2, s[1][2], part[2][1])
                            THEN Got([i \in 1..s[1][2] |-> s[1 + i][2]], After(s, 1 + s[1][2])) ELSE Bad
    [] part[1] = "map"   -> ReadMap(s, part[2][1], 0)
    [] part[1] = "keys"  -> ReadKeys(s)
    [] OTHER             -> ReadOptions(s, part[2], part[1] = "strict")

Appended(acc, x) == IF x.ok THEN Got(acc.val \o <<x.val>>, x.rest) ELSE Bad
ReadParts(s, layout) ==
  FoldLeft(LAMBDA acc, part : IF acc.ok THEN Appended(acc, ReadPart(part, acc.rest)) ELSE acc,
           Got(<<>>, s), layout)

OfKind(kind, r) == IF r.ok THEN Got([kind |-> kind, parts |-> r.val], r.rest) ELSE Bad
ReadPayload(s) ==
  IF ~HasHead(s, "tag") \/ KindsOf(s[1][2]) = {} THEN Bad ELSE
  LET kind == CHOOSE k \in KindsOf(s[1][2]) : TRUE
  IN OfKind(kind, ReadParts(After(s, 1), Layout[kind]))

Whole(r) == IF r.ok /\ r.rest = <<>> THEN r.val ELSE None
decode(encoded) == Whole(ReadPayload(encoded))

-----------------------------------------------------------------------------
(* Costs. *)

base_cost(size, num_sigs) == size + 100 * num_sigs

deploy_credential(num_keys) == 54000 + 100 * num_keys

KeysIn(m) == FoldLeft(LAMBDA n, i : n + deploy_credential(m[i]), 0, Keys(m))

\* The energy a payload takes beyond its base cost; existing is the number of
\* credentials of the account, given what the caller adds for a contract.
Cost(p, existing, given) ==
  CASE p.kind \in {"Transfer", "TransferWithMemo"} -> 300
    [] p.kind \in {"EncryptedAmountTransfer", "EncryptedAmountTransferWithMemo"} -> 27000
    [] p.kind = "TransferToEncrypted" -> 600
    [] p.kind = "TransferToPublic" -> 14850
    [] p.kind = "TransferWithSchedule" -> 364 * Len(p.parts[2])
    [] p.kind = "TransferWithScheduleAndMemo" -> 364 * Len(p.parts[3])
    [] p.kind \in {"AddBaker", "UpdateBakerKeys"} -> 4050
    [] p.kind \in {"UpdateBakerStake", "UpdateBakerRestakeEarnings", "RemoveBaker",
                   "RegisterData", "ConfigureDelegation"} -> 300
    [] p.kind = "ConfigureBaker" -> IF 4 \in DOMAIN p.parts[1] THEN 4050 ELSE 300
    [] p.kind = "UpdateCredentialKeys" -> 500 * existing + 100 * Cardinality(DOMAIN p.parts[2].keys)
    [] p.kind = "UpdateCredentials" -> 500 + 500 * existing + KeysIn(p.parts[1])
    [] p.kind = "DeployModule" -> p.parts[1] \div 10
    [] OTHER -> given

-----------------------------------------------------------------------------
(* Preparing a transaction. *)

compute_transaction_sign_hash(header, encoded) == <<header, encoded>>

Hashed(header, p, encoded) ==
  [header |-> header, payload |-> p, encoded |-> encoded,
   hash |-> compute_transaction_sign_hash(header, encoded)]

WithHeader(nonce, energy, num_sigs, p, encoded) ==
  Hashed([nonce |-> nonce, size |-> Len(encoded),
          energy |-> base_cost(HeaderSize + Len(encoded), num_sigs) + energy], p, encoded)
make_transaction(nonce, energy, num_sigs, p) ==
  WithHeader(nonce, energy, num_sigs, p, encode(p))

\* PreAccountTransaction is stored as header and payload and hashed again when read.
StorePre(t) == << <<"header", t.header>> >> \o t.encoded

Loaded(header, encoded, payload) ==
  IF payload = None THEN None
  ELSE [header |-> header, payload |-> payload, encoded |-> encoded,
        hash |-> compute_transaction_sign_hash(header, encoded)]
LoadPre(s) ==
  IF ~HasHead(s, "header") \/ s[1][2].size > MaxPayload \/ Len(s) < 1 + s[1][2].size THEN None ELSE
  LET encoded == SubSeq(s, 2, 1 + s[1][2].size)
  IN Loaded(s[1][2], encoded, decode(encoded))

-----------------------------------------------------------------------------
(* Signing. *)

FirstOf(f, n) == {Keys(f)[i] : i \in {j \in DOMAIN Keys(f) : j <= n}}

SignWithKeys(ks, hash) ==
  [c \in FirstOf(ks.creds, ks.threshold) |->
     [k \in FirstOf(ks.creds[c].keys, ks.creds[c].threshold) |->
        [key |-> ks.creds[c].keys[k], hash |-> hash]]]

SignWithMap(ks, hash) ==
  [c \in DOMAIN ks.creds |->
     [k \in DOMAIN ks.creds[c].keys |-> [key |-> ks.creds[c].keys[k], hash |-> hash]]]

Sum(f, S) == FoldLeft(LAMBDA n, i : n + f[i], 0, SetToSortSeq(S, <))

num_keys(signer, ks) ==
  IF signer = "keys"
  THEN Sum([c \in DOMAIN ks.creds |-> ks.creds[c].threshold], FirstOf(ks.creds, ks.threshold))
  ELSE Sum([c \in DOMAIN ks.creds |-> Cardinality(DOMAIN ks.creds[c].keys)], DOMAIN ks.creds)

sign_transaction_hash(signer, ks, hash) ==
  IF signer = "keys" THEN SignWithKeys(ks, hash) ELSE SignWithMap(ks, hash)

num_signatures(sigs) == Sum([c \in DOMAIN sigs |-> Cardinality(DOMAIN sigs[c])], DOMAIN sigs)

-----------------------------------------------------------------------------
(* The block item: tag, signatures, header, payload. *)

SerialSignatures(sigs) ==
  << <<"u8", Cardinality(DOMAIN sigs) % U8>> >>
    \o FlattenSeq([i \in DOMAIN Keys(sigs) |->
         << <<"cred", Keys(sigs)[i]>>, <<"u8", Cardinality(DOMAIN sigs[Keys(sigs)[i]]) % U8>> >>
           \o Pairs(sigs[Keys(sigs)[i]], "sig")])

ReadSignatures(s) ==
  IF ~HasHead(s, "u8") \/ s[1][2] = 0 THEN Bad ELSE
  FoldLeft(LAMBDA acc, i :
             IF ~acc.ok \/ ~HasHead(acc.rest, "cred") THEN Bad ELSE
             LET c == acc.rest[1][2]
                 m == ReadMap(After(acc.rest, 1), "sig", 1)
             IN IF ~m.ok \/ (\E d \in DOMAIN acc.val : d >= c) THEN Bad
                ELSE Got([d \in DOMAIN acc.val \cup {c} |-> IF d = c THEN m.val ELSE acc.val[d]], m.rest),
           Got([c \in {} |-> <<>>], After(s, 1)), [i \in 1..s[1][2] |-> i])

SerialItem(sigs, header, encoded) ==
  << <<"item", 0>> >> \o SerialSignatures(sigs) \o << <<"header", header>> >> \o encoded

\* BlockItem<EncodedPayload>: the payload is cut out by its declared size.
Signed(r) ==
  IF ~r.ok \/ ~HasHead(r.rest, "header") THEN None ELSE
  LET h == r.rest[1][2] IN
  IF h.size > MaxPayload \/ Len(r.rest) # 1 + h.size THEN None
  ELSE [sigs |-> r.val, header |-> h, encoded |-> After(r.rest, 1)]
ReadItem(s) ==
  IF HasHead(s, "item") /\ s[1][2] = 0 THEN Signed(ReadSignatures(After(s, 1))) ELSE None

\* AccountTransaction<Payload>: the payload is parsed at once and must use up its size.
WithPayload(t, payload) ==
  IF payload = None THEN None
  ELSE [sigs |-> t.sigs, header |-> t.header, payload |-> payload]
Decoded(t) == IF t = None THEN None ELSE WithPayload(t, decode(t.encoded))
-----------------------------------------------------------------------------
(* Checking signatures. *)

\* Mutant of verify_data_signature: the threshold of a credential is not checked.
verify_data_signatureOuter(acc, data, sigs) ==
  /\ acc.threshold <= Cardinality(DOMAIN sigs)
  /\ \A c \in DOMAIN sigs : /\ c \in DOMAIN acc.creds
                            /\ \A k \in DOMAIN sigs[c] :
                                 /\ k \in DOMAIN acc.creds[c].keys
                                 /\ sigs[c][k] = [key |-> acc.creds[c].keys[k], hash |-> data]
verify_data_signature(acc, data, sigs) ==
  /\ acc.threshold <= Cardinality(DOMAIN sigs)
  /\ \A c \in DOMAIN sigs : /\ c \in DOMAIN acc.creds
                            /\ acc.creds[c].threshold <= Cardinality(DOMAIN sigs[c])
                            /\ \A k \in DOMAIN sigs[c] :
                                 /\ k \in DOMAIN acc.creds[c].keys
                                 /\ sigs[c][k] = [key |-> acc.creds[c].keys[k], hash |-> data]

VerifyItem(acc, t) ==
  verify_data_signature(acc, compute_transaction_sign_hash(t.header, t.encoded), t.sigs)

\* The structured form hashes its payload as it encodes it again.
VerifyDecoded(acc, t) ==
  verify_data_signature(acc, compute_transaction_sign_hash(t.header, encode(t.payload)), t.sigs)

-----------------------------------------------------------------------------
(* What happens. *)

SignaturesOf(sigs) == UNION {{sigs[c][k] : k \in DOMAIN sigs[c]} : c \in DOMAIN sigs}

Init ==
  /\ account \in Accounts
  /\ wallet \in Wallets
  /\ pre = None /\ wire = <<>>
  /\ signed = {} /\ accepted = None

TransferKinds == {"Transfer", "TransferWithMemo", "EncryptedAmountTransfer",
                  "EncryptedAmountTransferWithMemo"}
ShieldAndScheduleKinds == {"TransferToEncrypted", "TransferToPublic",
                           "TransferWithSchedule", "TransferWithScheduleAndMemo"}
BakerKinds == {"AddBaker", "UpdateBakerKeys", "RemoveBaker", "UpdateBakerStake",
               "UpdateBakerRestakeEarnings"}
ContractKinds == {"RegisterData", "DeployModule", "InitContract", "Update"}
AccountKinds == {"ConfigureBaker", "ConfigureDelegation", "UpdateCredentialKeys", "UpdateCredentials"}

\* The transactions the constructors of the given kinds make.
Constructed(kinds, num_sigs) ==
  {make_transaction(1, Cost(p, existing, 7), num_sigs, p) :
     p \in {q \in Payloads : q.kind \in kinds}, existing \in 1..MaxExisting}

Idle == pre = None /\ wire = <<>> /\ signed = {} /\ accepted = None

Prepare(kinds) ==
  /\ Idle
  /\ pre' \in Constructed(kinds, MaxSigs)
  /\ UNCHANGED <<account, wallet, wire, signed, accepted>>

PrepareTransfer == Prepare(TransferKinds)
PrepareShieldAndSchedule == Prepare(ShieldAndScheduleKinds)
PrepareBaker    == Prepare(BakerKinds)
PrepareContract == Prepare(ContractKinds)
PrepareAccount  == Prepare(AccountKinds)

\* A prepared transaction is carried to another machine for signing.
Carry ==
  /\ pre # None /\ wire = <<>>
  /\ pre' = LoadPre(StorePre(pre))
  /\ UNCHANGED <<account, wallet, wire, signed, accepted>>

\* sign_transaction computes the hash from header and payload again.
PutOnWire(signer, header, encoded) ==
  \E sigs \in {sign_transaction_hash(signer, wallet, compute_transaction_sign_hash(header, encoded))} :
    /\ wire' = SerialItem(sigs, header, encoded)
    /\ signed' = SignaturesOf(sigs)

Sign ==
  /\ pre # None /\ wire = <<>>
  /\ \E signer \in Signers :
       /\ num_signatures(sign_transaction_hash(signer, wallet, pre.hash)) <= MaxSigs
       /\ PutOnWire(signer, pre.header, pre.encoded)
  /\ UNCHANGED <<account, wallet, pre, accepted>>

\* The send functions construct with the signer's number of keys and sign.
Send(kinds) ==
  /\ Idle
  /\ \E signer \in Signers :
       \E t \in Constructed(kinds, num_keys(signer, wallet)) :
         /\ pre' = t
         /\ PutOnWire(signer, t.header, t.encoded)
  /\ UNCHANGED <<account, wallet, accepted>>

SendTransfer == Send(TransferKinds)
SendShieldAndSchedule == Send(ShieldAndScheduleKinds)
SendBaker    == Send(BakerKinds)
SendContract == Send(ContractKinds)
SendAccount  == Send(AccountKinds)

\* sign_transaction on a payload that another implementation has encoded:
\* it is signed as it is.
SignForeign ==
  /\ Idle
  /\ \E signer \in Signers, enc \in Foreign :
       LET header == [nonce |-> 1, size |-> Len(enc),
                      energy |-> base_cost(HeaderSize + Len(enc), num_keys(signer, wallet)) + 60000]
       IN PutOnWire(signer, header, enc)
  /\ UNCHANGED <<account, wallet, pre, accepted>>

\* The chain runs an accepted change of keys.
Executed(p, acc) ==
  CASE p.kind = "UpdateCredentialKeys" /\ p.parts[1] \in DOMAIN acc.creds ->
         [acc EXCEPT !.creds[p.parts[1]] = p.parts[2]]
    [] OTHER -> acc

\* A node checks the signatures on the encoded form, then decodes and runs it.
Receive ==
  /\ wire # <<>>
  /\ \E t \in {ReadItem(wire)} : \E d \in {Decoded(t)} :
       IF d # None /\ VerifyItem(account, t)
       THEN /\ accepted' = [tx |-> t, account |-> account]
            /\ account' = Executed(d.payload, account)
       ELSE UNCHANGED <<accepted, account>>
  /\ pre' = None /\ wire' = <<>>
  /\ UNCHANGED <<wallet, signed>>

\* The transaction at hand is done with.
Settle ==
  /\ pre = None /\ wire = <<>> /\ signed # {}
  /\ signed' = {} /\ accepted' = None
  /\ UNCHANGED <<account, wallet, pre, wire>>

\* The holder of the account moves to other keys.
Rekey ==
  /\ wallet' \in Wallets
  /\ UNCHANGED <<account, pre, wire, signed, accepted>>

Next ==
  \/ PrepareTransfer \/ PrepareShieldAndSchedule \/ PrepareBaker \/ PrepareContract \/ PrepareAccount
  \/ Carry \/ Sign \/ SignForeign
  \/ SendTransfer \/ SendShieldAndSchedule \/ SendBaker \/ SendContract \/ SendAccount
  \/ Receive \/ Settle \/ Rekey

Spec == Init /\ [][Next]_vars

-----------------------------------------------------------------------------
(* Properties. *)

\* What a node accepts was authorised by the account as it then was: enough of
\* its credentials have each signed, with enough of their current keys, exactly
\* this header and payload - also when keys were changed while it was on its way.
AcceptedIsAuthorised ==
  accepted # None =>
    LET acc == accepted.account
        data == compute_transaction_sign_hash(accepted.tx.header, accepted.tx.encoded)
        own(c) == {k \in DOMAIN acc.creds[c].keys : [key |-> acc.creds[c].keys[k], hash |-> data] \in signed}
    IN acc.threshold <= Cardinality({c \in DOMAIN acc.creds :
                                       Cardinality(own(c)) >= acc.creds[c].threshold})

\* What is on its way can be read back in both forms, and as what was prepared.
SentIsReadable ==
  wire # <<>> /\ pre # None =>
    \E t \in {ReadItem(wire)} : \E d \in {Decoded(t)} :
      /\ t # None /\ d # None
      /\ d.payload = pre.payload /\ d.header = pre.header
      /\ t.encoded = pre.encoded

\* The energy of a sent transaction covers its size, the signatures it really
\* carries and the cost of its payload for the declared number of credentials.
EnergySuffices ==
  wire # <<>> /\ pre # None =>
    \A t \in {ReadItem(wire)} \ {None} :
      t.header.energy >= base_cost(HeaderSize + Len(t.encoded), num_signatures(t.sigs))
                           + Cost(pre.payload, 1, 7)

\* A receiver that parses the payload at once comes to the same verdict as one
\* that keeps it encoded until the signatures are checked.
FormsAgree ==
  wire # <<>> =>
    \A t \in {ReadItem(wire)} : \A d \in {Decoded(t)} \ {None} :
      VerifyItem(account, t) <=> VerifyDecoded(account, d)

\* Whoever holds the keys of the account can use it: what either signer makes
\* of all of them is accepted.
HolderIsAccepted ==
  wire # <<>> /\ wallet = account =>
    \A t \in {ReadItem(wire)} \ {None}, signer \in Signers :
      t.sigs = sign_transaction_hash(signer, wallet, compute_transaction_sign_hash(t.header, t.encoded))
        => VerifyItem(account, t)

=============================================================================
