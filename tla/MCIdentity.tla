----------------------------- MODULE MCIdentity -----------------------------
(***************************************************************************)
(* Instances of the identity layer: identity objects and credentials,       *)
(* presentations, and statements about dates.  A behaviour is that of one   *)
(* part.  The variables that a part does not use stay 0.                    *)
(***************************************************************************)
EXTENDS Integers, Sequences

CONSTANT Parts     \* the parts of a run

VARIABLES
  part,
  secrets, request, record, initial, outbox, intent, chain, outcome, recovery,   \* Identity
  sent, verdict,                                                                 \* Presentations
  today, dob, statement, tried                                                   \* AgeStatements

ofIdentity == <<secrets, request, record, initial, outbox, intent, chain, outcome, recovery>>
ofPresentations == <<sent, verdict>>
ofAges == <<today, dob, statement, tried>>
vars == <<part, ofIdentity, ofPresentations, ofAges>>

NoIdentity ==
  /\ secrets = 0 /\ request = 0 /\ record = 0 /\ initial = 0 /\ outbox = 0
  /\ intent = 0 /\ chain = 0 /\ outcome = 0 /\ recovery = 0
NoPresentations == sent = 0 /\ verdict = 0
NoAges == today = 0 /\ dob = 0 /\ statement = 0 /\ tried = 0

-----------------------------------------------------------------------------
(* Identities: scalars modulo 7, three revokers, shares of two chunks.  In  *)
(* sharing the holder tries polynomials and chunks of his own, in signed he *)
(* claims values he was not given, in relay credentials are sent elsewhere. *)
(* The signing key is longer than all messages, but in relay, where it is   *)
(* too short for two attributes, and in exact_key, where it just fits.      *)

IdentityParts == {"sharing", "signed", "relay", "exact_key"}

List(created, valid, max, vec) == [created |-> created, valid |-> valid, max |-> max, vec |-> vec]
NoAttributes == [t \in {} |-> 0]
Choice(thr, ars) == [thr |-> thr, ars |-> ars]
Own == [keys |-> <<"a", "b">>, threshold |-> 2]
Other == [keys |-> <<"x">>, threshold |-> 1]

ListsOf(p) ==
  CASE p = "sharing" -> {List(0, 1, 1, NoAttributes), List(1, 1, 0, [t \in {1} |-> 1])}
    [] OTHER         -> {List(0, 1, 1, NoAttributes), List(1, 0, 1, [t \in {1, 2} |-> t - 1])}
ChoicesOf(p) ==
  CASE p = "sharing" -> {Choice(1, {1, 3}), Choice(2, {1, 2, 3}), Choice(2, {3})}
    [] p = "relay"   -> {Choice(1, {1, 2})}
    [] OTHER         -> {Choice(1, {2}), Choice(1, {1, 2})}
DestsOf(p) ==
  IF p = "relay" THEN {<<"new", 1>>, <<"new", 2>>, <<"account", 1>>, <<"account", 2>>} ELSE {<<"new", 1>>}

Ids(p) == INSTANCE Identity WITH
  P <- 7, ArIds <- {1, 2, 3}, ArBase <- 4, ArsPerElement <- 2, ChunkBase <- 3, Chunks <- 2,
  DateBase <- 2, Tags <- {1, 2}, Values <- {0, 1}, U8 <- 3,
  KeyLen <- CASE p = "sharing" -> 9 [] p = "signed" -> 10 [] p = "relay" -> 7 [] p = "exact_key" -> 8,
  IdSecs <- {3}, PrfKeys <- {IF p = "sharing" THEN 6 ELSE 2},
  AttributeLists <- ListsOf(p), ArChoices <- ChoicesOf(p), Dests <- DestsOf(p),
  Accs <- IF p = "relay" THEN {Own, Other} ELSE {Other},
  Expiries <- IF p = "relay" THEN {1, 2} ELSE {1},
  OddChunks <- IF p = "sharing" THEN {<<3, 0>>, <<6, 1>>, <<0, 2>>, <<1, 1>>, <<4, 2>>} ELSE {<<1, 2>>},
  SharingDegrees <- IF p = "sharing" THEN {0, 1, 2} ELSE {0}, ClaimsAll <- p = "signed",
  MaxCreds <- IF p = "sharing" THEN 2 ELSE 1, RecoveryIps <- IF p = "relay" THEN {"ip1", "ip2"} ELSE {}

ASSUME \A p \in Parts \cap IdentityParts : Ids(p)!FieldAssumption

-----------------------------------------------------------------------------
(* Presentations of an honest and a dishonest holder.  In forged messages   *)
(* are changed and combined, in honest all sorts of requests are answered,  *)
(* in identity the older proofs about account credentials are made.         *)

PresentationParts == {"forged", "honest", "identity"}

Num(n) == <<"num", n, 0>>
Time(n) == <<"time", n, 0>>
Str(n, len) == <<"str", n, len>>
BothTypes == {"VerifiableCredential", "ConcordiumVerifiableCredential"}
SomeAccounts ==
    {[id |-> "c1", owner |-> "alice", idp |-> "ip", values |-> [t \in 1 .. 2 |-> IF t = 1 THEN Str(3, 1) ELSE Str(3, 2)]],
     [id |-> "c2", owner |-> "mallory", idp |-> "ip", values |-> [t \in 1 .. 2 |-> Str(5, 1)]]}
SomeIssued ==
    {[holder |-> "alice", contract |-> "k1", network |-> "testnet", ty |-> BothTypes,
      values |-> [t \in 1 .. 2 |-> IF t = 1 THEN Num(3) ELSE Time(4)]],
     [holder |-> "mallory", contract |-> "k1", network |-> "testnet", ty |-> BothTypes,
      values |-> [t \in 1 .. 2 |-> Num(5)]]}

Account(id, s) ==
    [kind |-> "Account", network |-> "testnet", subject |-> id, issuer |-> "", ty |-> {}, statement |-> s]
Web3(h, k, s) ==
    [kind |-> "Web3Id", network |-> "testnet", subject |-> h, issuer |-> k, ty |-> BothTypes, statement |-> s]
Req(c, s) == [challenge |-> c, statements |-> s]

Reveal(t) == <<"reveal", t>>
InRange(t, a, b) == <<"range", t, <<a, b>>>>
MemberOf(t, S) == <<"in", t, S>>
NotMemberOf(t, S) == <<"notin", t, S>>

SomeRequests ==
    {Req(1, <<Account("c1", <<Reveal(1), InRange(2, Str(3, 2), Str(5, 2))>>)>>),
     Req(2, <<Account("c1", <<MemberOf(1, {Str(3, 1), Str(4, 1)})>>), Account("c1", <<Reveal(2)>>)>>),
     Req(1, <<Web3("alice", "k1", <<Reveal(1)>>), Account("c1", <<NotMemberOf(1, {Str(3, 2)})>>)>>),
     Req(2, <<Web3("mallory", "k1", <<Reveal(1)>>)>>),
     Req(1, <<Web3("mallory", "k2", <<Reveal(1)>>)>>)}
SomeFakeInputs == {[t \in 1 .. 2 |-> Num(3)], [t \in 1 .. 2 |-> Str(3, 1)]}
SomeEditIssuers ==
    {<<"mainnet", "idp", <<"ip">>>>, <<"testnet", "sci", <<"k1", "issuer", "">>>>,
     <<"testnet", "sci", <<"k2", "issuer", "">>>>, <<"testnet", "sci", <<"k1", "other", "">>>>}
SomeEditSubjects ==
    {<<"testnet", "cred", <<"c1">>>>, <<"testnet", "cred", <<"c2">>>>, <<"", "pkc", <<"alice">>>>,
     <<"testnet", "pkc", <<"alice">>>>, <<"testnet", "pkc", <<"mallory">>>>}
SomeEditStatements == {Reveal(1), MemberOf(1, {Num(3)}), InRange(2, Str(1, 2), Str(4, 2))}
SomeEditAttributes == {Num(3), Str(3, 2)}

ManyRequests ==
    {Req(c, <<Web3("alice", "k1", s)>>) :
        c \in {1}, s \in {<<x, y>> : x \in {Reveal(1), InRange(1, Num(1), Num(3)), InRange(1, Num(3), Num(5)),
                                         MemberOf(1, {Num(3)}), NotMemberOf(1, {Num(3)})},
                                  y \in {Reveal(2), InRange(2, Time(1), Time(4)), InRange(2, Num(4), Str(0, 1))}}}
    \cup {Req(c, <<Account("c1", <<x>>), Web3("alice", "k1", <<y>>), Account("c1", <<x, x>>)>>) :
        c \in {1, 2}, x \in {Reveal(1), InRange(1, Str(3, 1), Str(5, 1)), NotMemberOf(2, {Str(3, 1)}),
                          MemberOf(2, {Str(3, 1)}), InRange(2, Str(0, 2), Str(3, 2))},
                   y \in {Reveal(1), MemberOf(2, {Time(4), Num(1)})}}
    \cup {[Req(1, <<[Web3("alice", "k1", <<Reveal(1)>>) EXCEPT !.ty = {}]>>) EXCEPT !.challenge = 2]}

RequestsOf(p) ==
  CASE p = "honest"     -> ManyRequests
    [] p = "identity"   -> {r \in SomeRequests : \A i \in DOMAIN r.statements : r.statements[i].kind = "Account"}
    [] OTHER            -> SomeRequests

Show(p) == INSTANCE Presentations WITH
  StrBase <- 32, MaxTime <- 6, RangeN <- 16, Accounts <- SomeAccounts, Issued <- SomeIssued,
  Honest <- {"alice"}, HonestContracts <- {"k1"}, Requests <- RequestsOf(p), FakeInputs <- SomeFakeInputs,
  EditIssuers <- SomeEditIssuers, EditSubjects <- SomeEditSubjects, EditStatements <- SomeEditStatements,
  EditAttributes <- SomeEditAttributes, Challenges <- {1, 2},
  Versions <- IF p = "identity" THEN {1, 2} ELSE {}, MaxSent <- IF p \in {"forged", "identity"} THEN 2 ELSE 1

\* Five years of three days; in birthdays statements are also judged on those.
AgeParts == {"ages", "birthdays"}

Ages == INSTANCE AgeStatements WITH
  Years <- 4, Days <- 3, FirstDate <- 2, LastDate <- 18, Ages <- {0, 1, 2}

-----------------------------------------------------------------------------
Init ==
  \/ \E p \in Parts \cap IdentityParts : part = p /\ Ids(p)!Init /\ NoPresentations /\ NoAges
  \/ \E p \in Parts \cap PresentationParts : part = p /\ Show(p)!Init /\ NoIdentity /\ NoAges
  \/ part \in Parts \cap AgeParts /\ Ages!Init /\ NoIdentity /\ NoPresentations

UseIdentity ==
  \E p \in Parts \cap IdentityParts : part = p /\ Ids(p)!Next /\ UNCHANGED <<part, ofPresentations, ofAges>>
Present ==
  \E p \in Parts \cap PresentationParts : part = p /\ Show(p)!Next /\ UNCHANGED <<part, ofIdentity, ofAges>>
StateAge == part \in AgeParts /\ Ages!Next /\ UNCHANGED <<part, ofIdentity, ofPresentations>>

Next == UseIdentity \/ Present \/ StateAge

Spec == Init /\ [][Next]_vars

-----------------------------------------------------------------------------
\* What is accepted is what the provider signed and what its holder meant, and a presentation
\* that verifies is true, untouched and made for this challenge: whatever a dishonest holder
\* or someone on the way makes of credentials, requests and presentations (id/chain.rs,
\* id/identity_provider.rs, web3id/mod.rs, id/id_verifier.rs, id/id_prover.rs).  Of the ready-made
\* statements about dates, only older_than promises this on every later day.
AcceptedIsGenuine ==
  /\ \A p \in Parts \cap IdentityParts :
       part = p => Ids(p)!AcceptedIsAsSigned /\ Ids(p)!AcceptedIsAsIntended /\ Ids(p)!RecoveryIsAsAsked
  /\ \A p \in Parts \cap PresentationParts :
       part = p => /\ Show(p)!VerifiedIsTrue /\ Show(p)!LinkedIsUntouched
                   /\ Show(p)!ForTheChallenge /\ Show(p)!IdentityProofsAreForTheirChallenge
  /\ part = "ages" => Ages!OlderIsOlder

\* Revokers who are many enough find the holder of every account, whatever the holder did, if
\* they can decrypt their shares, as those can for whom a range proof was sent; one revoker
\* fewer finds another secret, in credentials and identity objects that the library made
\* (id/anonymity_revoker.rs, id/secret_sharing.rs).
RevocationIsExact ==
  \A p \in Parts \cap IdentityParts : part = p => Ids(p)!RevocationSucceeds /\ Ids(p)!TooFewSharesMislead

\* Who follows the rules succeeds: honest requests, credentials and recoveries are accepted, the
\* answer to a request that is true of its holder verifies, and a statement about a date can be
\* proved exactly when it is true.  Two cases are left to the parts exact_key and birthdays: a
\* signing key of exactly the length needed, and age statements on the birthday of the holder.
HonestSucceeds ==
  /\ \A p \in Parts \cap IdentityParts : part = p => Ids(p)!HonestSucceeds
  /\ \A p \in Parts \cap PresentationParts : part = p => Show(p)!HonestVerifies
  /\ part = "ages" => Ages!AgesAreRight
  /\ part = "birthdays" => Ages!BirthdaysAreRight
=============================================================================
