------------------------------ MODULE MCProofs ------------------------------
(***************************************************************************)
(* Instances of the proofs: sigma protocols, Bulletproofs and encrypted     *)
(* transfers in small groups.  A behaviour is that of one part.  The        *)
(* variables that a part does not use stay 0.                               *)
(***************************************************************************)
EXTENDS Integers, Sequences

CONSTANT Parts     \* the parts of a run

VARIABLES
  part,
  phase, ch, secret,                                      \* SigmaProtocols, Bulletproofs
  prot, keys, pub, query, resp, ch2, resp2, accepted,     \* SigmaProtocols
  in, proof, tr,                                          \* Bulletproofs
  chain, wallet, inflight, spent                          \* EncryptedTransfers

ofProvers == <<phase, ch, secret>>
ofSigma == <<prot, keys, pub, query, resp, ch2, resp2, accepted>>
ofBullets == <<in, proof, tr>>
ofTransfers == <<chain, wallet, inflight, spent>>
vars == <<part, ofProvers, ofSigma, ofBullets, ofTransfers>>

NoProvers == phase = 0 /\ ch = 0 /\ secret = 0
NoSigma ==
  /\ prot = 0 /\ keys = 0 /\ pub = 0 /\ query = 0
  /\ resp = 0 /\ ch2 = 0 /\ resp2 = 0 /\ accepted = 0
NoBullets == in = 0 /\ proof = 0 /\ tr = 0
NoTransfers == chain = 0 /\ wallet = 0 /\ inflight = 0 /\ spent = 0

-----------------------------------------------------------------------------
\* Groups of order 3 and 5, with generators of different relations.
SigmaParts == [
  logs |->
    [q |-> 5, protocols |-> {"dlog", "dlogeq", "aggregate_dlog", "dlogaggequal", "com_eq", "replicate_adapter"},
     keys |-> {<<1, 2, 3, 4, 2>>, <<3, 1, 1, 2, 4>>}, secrets |-> 0 .. 4, rands |-> 0 .. 4,
     elements |-> 0 .. 4, first |-> {0, 3}, chunks |-> 1],
  commitments |->
    [q |-> 3, protocols |-> {"com_eq_different_groups", "com_enc_eq", "com_eq_sig", "com_mult", "com_ineq", "com_lin",
                             "vcom_eq", "and_adapter"},
     keys |-> {<<1, 2, 2, 1, 1>>}, secrets |-> 0 .. 2, rands |-> 1 .. 2,
     elements |-> 0 .. 1, first |-> {1}, chunks |-> 1],
  enc_trans |->
    [q |-> 3, protocols |-> {"enc_trans"},
     keys |-> {<<1, 2, 2, 1, 1>>}, secrets |-> {0, 2}, rands |-> {2},
     elements |-> {2}, first |-> {1}, chunks |-> 2],
  enc_trans_short |->
    [q |-> 3, protocols |-> {"enc_trans"},
     keys |-> {<<1, 2, 2, 1, 1>>}, secrets |-> {0, 2}, rands |-> 1 .. 2,
     elements |-> 0 .. 1, first |-> {1}, chunks |-> 1]]

Sigma(s) == INSTANCE SigmaProtocols WITH
  q <- s.q, Protocols <- s.protocols, KeySets <- s.keys, Secrets <- s.secrets, Rands <- s.rands,
  Elements <- s.elements, FirstRuns <- s.first, Chunks <- s.chunks

-----------------------------------------------------------------------------
\* Words of two bits and a group of order 11, so that no bound wraps around the order.
Input(kind, version, n, set, vs, rs, a, b) ==
  [kind |-> kind, version |-> version, n |-> n, set |-> set, vs |-> vs, rs |-> rs, a |-> a, b |-> b]

\* One and two values of two bits, among them ones that need three, sizes that are no power of
\* two or exceed the generators, and a missing randomness.
RangeInputs ==
  {Input("range", 1, 2, <<>>, <<v>>, <<4>>, 0, 0) : v \in 0 .. 5}
  \cup {Input("range", 2, 2, <<>>, <<v, w>>, <<4, 9>>, 0, 0) : v \in {0, 3, 6}, w \in {1, 2}}
  \cup {Input("range", 2, 3, <<>>, <<5>>, <<4>>, 0, 0), Input("range", 1, 2, <<>>, <<1, 2, 3>>, <<4, 5, 6>>, 0, 0),
        Input("range", 1, 2, <<>>, <<1, 2>>, <<4>>, 0, 0)}
  \cup {Input("leq", 1, 2, <<>>, <<v, w>>, <<4, 9>>, 0, 0) : v, w \in 0 .. 3}
  \cup {Input("interval", 2, 2, <<>>, <<v>>, <<4>>, a, b) : v \in 0 .. 5, a \in {0, 2}, b \in {2, 3}}
Sets == {<<3>>, <<3, 5>>, <<5, 5>>, <<5, 0, 3>>, <<3, 8, 3, 1>>, <<1, 2, 3, 4, 5>>}
SetInputs ==
  {Input(k, IF Len(s) = 1 THEN 1 ELSE 2, 0, s, <<v>>, <<4>>, 0, 0) :
     k \in {"member", "nonmember"}, s \in Sets, v \in {0, 3, 7}}
  \cup {Input("nonmember", 2, 0, <<>>, <<3>>, <<4>>, 0, 0),
        Input("ip", 1, 0, <<3>>, <<5>>, <<>>, 0, 0), Input("ip", 1, 0, <<3, 0, 6, 2>>, <<5, 1, 7, 8>>, <<>>, 0, 0),
        Input("ip", 1, 0, <<3, 0, 6>>, <<5, 1, 7>>, <<>>, 0, 0),
        Input("range", 2, 2, <<>>, <<2>>, <<4>>, 0, 0), Input("range", 1, 2, <<>>, <<3, 1>>, <<4, 9>>, 0, 0),
        Input("leq", 1, 2, <<>>, <<1, 2>>, <<4, 9>>, 0, 0), Input("interval", 2, 2, <<>>, <<2>>, <<4>>, 1, 3)}
BulletParts == [ranges |-> RangeInputs, sets |-> SetInputs]

Bullet(inputs) == INSTANCE Bulletproofs WITH
  q <- 11, N <- 4, Inputs <- inputs, Seeds <- {1, 3}, Ys <- {0, 2, 3, 10}, Zs <- {0, 1, 3, 8}, Xs <- {0, 1, 4},
  Ws <- {0, 5}, Us <- {0, 2, 7}

-----------------------------------------------------------------------------
\* Two accounts in a group of order 7, three units of money in chunks of one bit.
Transfers == INSTANCE EncryptedTransfers WITH
  q <- 7, Accounts <- {1, 2}, KeyOf <- <<2, 5>>, H <- 3, Rand <- <<1, 3, 4, 2>>, ChunkBits <- 1, M <- 2,
  Supply <- 3, maxNumIncoming <- 2, MaxIndex <- 3, MaxSpent <- 4, MaxInFlight <- 2

ASSUME Transfers!EncryptionAssumption

-----------------------------------------------------------------------------
Init ==
  \/ \E p \in Parts \cap DOMAIN SigmaParts :
       part = p /\ Sigma(SigmaParts[p])!Init /\ NoBullets /\ NoTransfers
  \/ \E p \in Parts \cap DOMAIN BulletParts :
       part = p /\ Bullet(BulletParts[p])!Init /\ NoSigma /\ NoTransfers
  \/ "transfers" \in Parts /\ part = "transfers" /\ Transfers!Init /\ NoProvers /\ NoSigma /\ NoBullets

ProveStatement ==
  \E p \in Parts \cap DOMAIN SigmaParts :
    part = p /\ Sigma(SigmaParts[p])!Next /\ UNCHANGED <<part, ofBullets, ofTransfers>>
ProveBound ==
  \E p \in Parts \cap DOMAIN BulletParts :
    part = p /\ Bullet(BulletParts[p])!Next /\ UNCHANGED <<part, ofSigma, ofTransfers>>
Transfer ==
  part = "transfers" /\ Transfers!Next /\ UNCHANGED <<part, ofProvers, ofSigma, ofBullets>>

Next == ProveStatement \/ ProveBound \/ Transfer

Spec == Init /\ [][Next]_vars

-----------------------------------------------------------------------------
\* A proof of a true statement is accepted, in every protocol and for all randomness and
\* challenges (sigma_protocols/*.rs, bulletproofs/*.rs), and an encrypted transfer stays valid
\* while what it used stays (encrypted_transfers/mod.rs).
HonestProofsVerify ==
  /\ \A p \in Parts \cap DOMAIN SigmaParts : part = p => Sigma(SigmaParts[p])!ProofsVerify
  /\ \A p \in Parts \cap DOMAIN BulletParts : part = p => Bullet(BulletParts[p])!TrueStatementsVerify
  /\ part = "transfers" => Transfers!TransfersStayValid

\* A proof is bound to its statement: a prover that can answer two challenges knows a secret
\* for all parts of the statement, a proof about values out of bounds is refused, no part of a
\* proof can be changed, and no transfer makes or loses money.
AcceptedProofsBind ==
  /\ \A p \in Parts \cap DOMAIN SigmaParts : part = p => Sigma(SigmaParts[p])!AnswersDiscloseSecret
  /\ part = "ranges" => Bullet(RangeInputs)!FalseStatementsFail
  /\ part = "sets" => Bullet(SetInputs)!EveryPartIsBound
  /\ part = "transfers" => Transfers!MoneyIsConserved
=============================================================================
