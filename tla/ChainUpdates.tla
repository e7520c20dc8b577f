---------------------------- MODULE ChainUpdates ----------------------------
(***************************************************************************)
(* Chain updates: how holders of governance keys sign an update instruction *)
(* (updates.rs), how the instruction is checked against the keys in force   *)
(* and queued, and when its effect comes into force.                        *)
(*                                                                         *)
(* Three sets of keys govern the chain.  Root keys may replace every set,   *)
(* level 1 keys the two lower ones, and each kind of parameter names the    *)
(* level 2 keys that may change it.  A signer works from a view of the keys *)
(* and sequence numbers that may be stale, and whoever carries instructions *)
(* to the chain may alter them, repeat them and mix their signatures.       *)
(*                                                                         *)
(* A payload is a pair of its kind and its content, on the wire a pair of   *)
(* its tag and its content; a signature is the pair of the key that made it *)
(* and what was hashed.  Key indices start at 0 as in the code.             *)
(***************************************************************************)
EXTENDS Integers, FiniteSets, Sequences, SequencesExt, FiniteSetsExt

CONSTANTS Keys,        \* governance keys
          Payloads,    \* payloads the key holders consider
          Genesis,     \* [root, level1, level2]: the keys at genesis
          Hundred,     \* 100_000 parts: one whole
          MaxTime,     \* the clock stops there
          MaxMade,     \* instructions signed in one behaviour
          MaxAccepted  \* instructions accepted in one behaviour

VARIABLES keys,      \* the keys in force
          queues,    \* per update type, the next sequence number and the pending updates
          params,    \* per update type, the payload in force
          clock,
          view,      \* what the signers last saw: keys and next sequence numbers
          made,      \* instructions signed by key holders
          accepted   \* bodies the chain accepted, in order, with the rule that admitted them

vars == <<keys, queues, params, clock, view, made, accepted>>

-----------------------------------------------------------------------------
\* Payloads

\* The kinds of payload, in the order of their tags 1, 2, ...
Kinds == <<"Protocol", "ElectionDifficulty", "EuroPerEnergy", "MicroGTUPerEuro",
           "FoundationAccount", "MintDistribution", "TransactionFeeDistribution",
           "GASRewards", "BakerStakeThreshold", "Root", "Level1", "AddAnonymityRevoker",
           "AddIdentityProvider", "CooldownParametersCPV1", "PoolParametersCPV1",
           "TimeParametersCPV1", "MintDistributionCPV1", "TimeoutParametersCPV2",
           "MinBlockTimeCPV2", "BlockEnergyLimitCPV2", "GASRewardsCPV2",
           "FinalizationCommitteeParametersCPV2">>

\* The type the library reports for a payload.
update_type(p) ==
  CASE p[1] = "Root"   -> "RootKeys"
    [] p[1] = "Level1" -> "Level1Keys"
    [] p[1] \in {"BakerStakeThreshold", "PoolParametersCPV1"}  -> "PoolParameters"
    [] p[1] \in {"MintDistribution", "MintDistributionCPV1"}   -> "MintDistribution"
    [] p[1] = "CooldownParametersCPV1" -> "CooldownParameters"
    [] p[1] = "TimeParametersCPV1"     -> "TimeParameters"
    [] p[1] = "TimeoutParametersCPV2"  -> "TimeoutParameters"
    [] p[1] = "MinBlockTimeCPV2"       -> "MinBlockTime"
    [] p[1] = "BlockEnergyLimitCPV2"   -> "BlockEnergyLimit"
    [] p[1] = "FinalizationCommitteeParametersCPV2" -> "FinalizationCommitteeParameters"
    [] OTHER -> p[1]

\* The queue the chain puts a payload in: key updates go to the queue of the
\* keys they replace, whoever signs them.
queueOf(p) == IF p[1] \in {"Root", "Level1"} THEN p[2][1]
              ELSE IF p[1] \in {"GASRewards", "GASRewardsCPV2"} THEN "GASRewards"
              ELSE update_type(p)

KeyQueues == {"RootKeys", "Level1Keys", "Level2Keys"}
Queues == KeyQueues \cup {queueOf(p) : p \in Payloads}

\* The field of the level 2 authorizations that governs a kind of payload.
FieldOf(kind) ==
  CASE kind \in {"ElectionDifficulty", "TimeoutParametersCPV2", "MinBlockTimeCPV2",
                 "BlockEnergyLimitCPV2"}                   -> "consensus"
    [] kind \in {"MintDistribution", "MintDistributionCPV1"} -> "mint"
    [] kind \in {"GASRewards", "GASRewardsCPV2"}             -> "gas"
    [] kind \in {"BakerStakeThreshold", "PoolParametersCPV1",
                 "FinalizationCommitteeParametersCPV2"}      -> "pool"
    [] OTHER -> kind

UpdatePayload_serial(p) == <<CHOOSE t \in 1 .. Len(Kinds) : Kinds[t] = p[1], p[2]>>

\* Reading a fraction fails above one whole.  The two of a fee or mint distribution
\* must not exceed it together; those of GASRewards are read one by one.
Fraction(x) == x \in 0 .. Hundred
TransactionFeeDistribution_deserial(v) ==
  Fraction(v[1]) /\ Fraction(v[2]) /\ v[1] + v[2] <= Hundred
InclusiveRange_deserial(min, max) == min <= max
Coprime(a, b) == \A d \in 2 .. (a + b) : ~(a % d = 0 /\ b % d = 0)
Ratio_new(n, d) == d # 0 /\ Coprime(n, d)
LeverageFactor_new(n, d) == n >= d /\ d # 0 /\ Coprime(n, d)
TimeoutParameters_new(inc, dec) ==
  inc[1] > inc[2] /\ dec[1] # 0 /\ dec[2] > dec[1]

HigherLevelAccessStructure_deserial(s) == s.threshold \in 1 .. Len(s.keys)
AccessStructure_deserial(a) == a.threshold \in 1 .. Cardinality(a.authorized)
Authorizations_deserial(s) == \A f \in DOMAIN s.access : AccessStructure_deserial(s.access[f])
KeyUpdate_deserial(u) == IF u[1] = "Level2Keys" THEN Authorizations_deserial(u[2])
                         ELSE HigherLevelAccessStructure_deserial(u[2])

\* The content a tag admits.
UpdatePayload_deserial(b) ==
  CASE b[1] = 2 -> Fraction(b[2][1])
    [] b[1] \in {6, 7, 17} -> TransactionFeeDistribution_deserial(b[2])
    [] b[1] \in {8, 21} -> \A i \in DOMAIN b[2] : Fraction(b[2][i])
    [] b[1] = 10 -> KeyUpdate_deserial(b[2])
    [] b[1] = 11 -> b[2][1] # "RootKeys" /\ KeyUpdate_deserial(b[2])
    [] b[1] \in {12, 13} -> b[2].len = b[2].size
    [] b[1] = 15 -> /\ InclusiveRange_deserial(b[2].min, b[2].max)
                    /\ LeverageFactor_new(b[2].leverage[1], b[2].leverage[2])
    [] b[1] = 18 -> /\ Ratio_new(b[2].increase[1], b[2].increase[2])
                    /\ Ratio_new(b[2].decrease[1], b[2].decrease[2])
                    /\ TimeoutParameters_new(b[2].increase, b[2].decrease)
    [] OTHER -> b[1] \in 1 .. Len(Kinds)

Payload(b) == <<Kinds[b[1]], b[2]>>

-----------------------------------------------------------------------------
\* Signing

construct_update_signer_worker(known, authorized, actual) ==
  LET Position(k) == SelectInSeq(known, LAMBDA x : x = k)
  IN  IF /\ \A k \in Range(actual) : Position(k) # 0 /\ Position(k) - 1 \in authorized
         /\ IsInjective(actual)
      THEN <<[i \in {Position(k) - 1 : k \in Range(actual)} |-> known[i + 1]]>>
      ELSE <<>>

\* The indices of a set of higher level keys: the caller supplies the map.
IndexMap(known, ks) == [i \in {j \in 0 .. Len(known) - 1 : known[j + 1] \in ks} |-> known[i + 1]]

compute_sign_hash(header, bytes) == <<header, bytes>>

sign_update_hash(signer, hash) == [i \in DOMAIN signer |-> <<signer[i], hash>>]

update(signer, seq, effective, timeout, payload) ==
  LET header == [seq |-> seq, effective |-> effective, timeout |-> timeout]
  IN  [header |-> header, payload |-> payload, signatures |->
         sign_update_hash(signer, compute_sign_hash(header, UpdatePayload_serial(payload)))]

-----------------------------------------------------------------------------
\* Checking

\* Who may sign a payload: known keys, authorised indices and the threshold.
Rule(ks, p) ==
  CASE p[1] = "Root" -> [known |-> ks.root.keys, indices |-> 0 .. Len(ks.root.keys) - 1,
                         threshold |-> ks.root.threshold]
    [] p[1] = "Level1" -> [known |-> ks.level1.keys, indices |-> 0 .. Len(ks.level1.keys) - 1,
                           threshold |-> ks.level1.threshold]
    [] OTHER -> IF FieldOf(p[1]) \in DOMAIN ks.level2.access
                THEN [known |-> ks.level2.keys,
                      indices |-> ks.level2.access[FieldOf(p[1])].authorized,
                      threshold |-> ks.level2.access[FieldOf(p[1])].threshold]
                ELSE [known |-> ks.level2.keys, indices |-> {}, threshold |-> 1]

checkEnoughKeys(rule, indices) ==
  LET n == Cardinality(indices \cap rule.indices)
  IN  n >= rule.threshold /\ n = Cardinality(indices)

checkCorrectSignatures(hash, known, signatures) ==
  \A i \in DOMAIN signatures : i + 1 \in DOMAIN known /\ signatures[i] = <<known[i + 1], hash>>

checkAuthorizedUpdate(ks, u) ==
  LET rule == Rule(ks, Payload(u.bytes))
  IN  /\ checkEnoughKeys(rule, DOMAIN u.signatures)
      /\ checkCorrectSignatures(compute_sign_hash(u.header, u.bytes), rule.known, u.signatures)

\* Parsing: the payload's own checks, and at least one signature.
Parses(u) == UpdatePayload_deserial(u.bytes) /\ DOMAIN u.signatures # {}

\* The chain's remaining conditions (the node): the sequence number of the
\* queue, not expired, and not in force before it expires unless immediate.
Timely(header, queue) ==
  /\ header.seq = queue.next
  /\ clock <= header.timeout
  /\ header.effective = 0 \/ header.timeout < header.effective

\* An update pushes out the pending ones that are due no earlier.
\* Mutant of enqueue: nothing is pushed out
enqueue_mut(t, e, q) == [next |-> q.next + 1, queue |-> Append(q.queue, <<t, e>>)]
enqueue(t, e, q) ==
  LET later == SelectInSeq(q.queue, LAMBDA x : x[1] >= t)
      kept == IF later = 0 THEN q.queue ELSE SubSeq(q.queue, 1, later - 1)
  IN  [next |-> q.next + 1, queue |-> Append(kept, <<t, e>>)]

-----------------------------------------------------------------------------
\* The actions

Nexts == [t \in Queues |-> queues[t].next]

Init ==
  /\ keys = Genesis
  /\ queues = [t \in Queues |-> [next |-> 1, queue |-> <<>>]]
  /\ params = [t \in Queues |-> <<"Genesis">>]
  /\ clock = 0
  /\ view = [keys |-> Genesis, next |-> [t \in Queues |-> 1]]
  /\ made = {}
  /\ accepted = <<>>

\* The signers look up the keys and sequence numbers in force.
Look ==
  /\ view # [keys |-> keys, next |-> Nexts]
  /\ view' = [keys |-> keys, next |-> Nexts]
  /\ UNCHANGED <<keys, queues, params, clock, made, accepted>>

\* Holders of the given keys sign an update, going by the view.
Sign(p, ks, effective, timeout) ==
  /\ Cardinality(made) < MaxMade
  /\ LET rule == Rule(view.keys, p)
         signers == IF p[1] \in {"Root", "Level1"} THEN <<IndexMap(rule.known, ks)>>
                    ELSE construct_update_signer_worker(rule.known, rule.indices, SetToSeq(ks))
     IN  /\ signers # <<>>
         /\ made' = made \cup {[rule |-> rule, instruction |->
                             update(signers[1], view.next[queueOf(p)], effective, timeout, p)]}
  /\ UNCHANGED <<keys, queues, params, clock, view, accepted>>

Instructions == {m.instruction : m \in made}
Signatures == UNION {{u.signatures[i] : i \in DOMAIN u.signatures} : u \in Instructions}

\* What a carrier can present: a signed instruction or one with one field of
\* its body changed, with any of the signatures seen so far at any indices.
Presented ==
  LET Body(h, p) == [header |-> h, bytes |-> UpdatePayload_serial(p)]
  IN  {Body(u.header, u.payload) : u \in Instructions}
        \cup {Body([u.header EXCEPT !.seq = queues[t].next], u.payload) :
                u \in Instructions, t \in Queues}
        \cup {Body([u.header EXCEPT !.effective = e], u.payload) :
                u \in Instructions, e \in 0 .. MaxTime}
        \cup {Body(u.header, p) : u \in Instructions, p \in Payloads}

Indices == 0 .. Cardinality(Keys) - 1

Submit(body) ==
  /\ Len(accepted) < MaxAccepted
  /\ UpdatePayload_deserial(body.bytes)
  /\ Timely(body.header, queues[queueOf(Payload(body.bytes))])
  /\ \E D \in SUBSET Indices : \E signatures \in [D -> Signatures] :
       LET u == [header |-> body.header, bytes |-> body.bytes, signatures |-> signatures]
       IN  Parses(u) /\ checkAuthorizedUpdate(keys, u)
  /\ LET p == Payload(body.bytes)
         t == queueOf(p)
     IN  /\ queues' = [queues EXCEPT ![t] = enqueue(body.header.effective, p, @)]
         /\ accepted' = Append(accepted, [body |-> body, rule |-> Rule(keys, p), queue |-> t,
                                          type |-> update_type(p)])
  /\ UNCHANGED <<keys, params, clock, view, made>>

\* The effects that are due come into force (the node, at every block).
Due(t, now) == LET later == SelectInSeq(queues[t].queue, LAMBDA x : x[1] > now)
               IN  IF later = 0 THEN Len(queues[t].queue) ELSE later - 1
InForce(t, now) == IF Due(t, now) = 0 THEN params[t] ELSE queues[t].queue[Due(t, now)][2]

Tick(now) ==
  /\ now \in clock .. MaxTime
  /\ clock' = now
  /\ params' = [t \in Queues |-> InForce(t, now)]
  /\ queues' = [t \in Queues |-> [queues[t] EXCEPT !.queue = SubSeq(@, Due(t, now) + 1, Len(@))]]
  /\ keys' = LET New(t, old) == IF Due(t, now) = 0 THEN old ELSE InForce(t, now)[2][2]
             IN  [root |-> New("RootKeys", keys.root), level1 |-> New("Level1Keys", keys.level1),
                  level2 |-> New("Level2Keys", keys.level2)]
  /\ <<now, params'>> # <<clock, params>> \/ queues' # queues
  /\ UNCHANGED <<view, made, accepted>>

Next ==
  \/ Look
  \/ \E p \in Payloads, ks \in SUBSET Keys \ {{}}, e \in 0 .. MaxTime, t \in 0 .. MaxTime :
       Sign(p, ks, e, t)
  \/ \E body \in Presented : Submit(body)
  \/ \E now \in {clock, clock + 1} : Tick(now)

Spec == Init /\ [][Next]_vars

-----------------------------------------------------------------------------
\* Properties

\* An update the chain accepted, header and payload as they stand, was signed by at least
\* the threshold of distinct keys that were authorised for it at that moment: no signature
\* made for another update, another sequence number or another time counts, nor one of a key
\* that has lost its authority (checkAuthorizedUpdate over what update() signs).
AcceptedIsAuthorised ==
  \A n \in DOMAIN accepted :
    LET a == accepted[n]
        Signed(k) == \E u \in Instructions :
                       /\ \E i \in DOMAIN u.signatures : u.signatures[i][1] = k
                       /\ u.header = a.body.header
                       /\ u.payload = Payload(a.body.bytes)
    IN  Cardinality({k \in Keys : /\ \E i \in a.rule.indices : /\ i + 1 \in DOMAIN a.rule.known
                                                              /\ a.rule.known[i + 1] = k
                                  /\ Signed(k)}) >= a.rule.threshold

\* The payload in force is the one accepted last among those whose time has come: later
\* decisions replace pending ones, never the other way round, and none is lost (enqueue
\* together with the draining of queues).
LastDecisionIsInForce ==
  \A t \in Queues :
    LET Come == {n \in DOMAIN accepted : /\ accepted[n].queue = t
                                         /\ accepted[n].body.header.effective <= clock}
        last == CHOOSE n \in Come : \A m \in Come : m <= n
        value == Payload(accepted[last].body.bytes)
    IN  Come # {} => \/ params[t] = value
                     \/ /\ accepted[last].body.header.effective = 0
                        /\ queues[t].queue # <<>> /\ Head(queues[t].queue) = <<0, value>>

\* An update signed by enough holders who saw the keys and the sequence number in force, whose
\* content is valid and whose time has not run out, is acceptable as it was made: what the
\* signer chosen by construct_update_signer and update() produce is what the chain checks.
FreshIsAcceptable ==
  \A m \in made :
    LET u == m.instruction
        wire == [header |-> u.header, bytes |-> UpdatePayload_serial(u.payload),
                 signatures |-> u.signatures]
    IN  ( /\ UpdatePayload_deserial(wire.bytes)
          /\ m.rule = Rule(keys, u.payload)
          /\ Cardinality(DOMAIN u.signatures) >= m.rule.threshold
          /\ Timely(u.header, queues[queueOf(u.payload)]) )
        => Parses(wire) /\ checkAuthorizedUpdate(keys, wire)

\* The root keys, and the level 1 keys, in force can always act: no sequence of key updates
\* leaves a set of keys that cannot reach its threshold (the checks when an access structure
\* is read).
GovernanceCanAct ==
  /\ Cardinality(Range(keys.root.keys)) >= keys.root.threshold
  /\ Cardinality(Range(keys.level1.keys)) >= keys.level1.threshold

=============================================================================
