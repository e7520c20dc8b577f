------------------------ MODULE EncryptedTransfers ------------------------
(***************************************************************************)
(* Encrypted balances (rust-src/concordium_base/src/encrypted_transfers).   *)
(* An account has a public balance and an encrypted one: the self amount    *)
(* and a list of incoming amounts.  An amount is encrypted in two chunks,   *)
(* low and high; amounts are added under the encryption, so a chunk may     *)
(* grow beyond its size.  A wallet reads what is on the chain, decrypts it  *)
(* and makes a transfer with a proof that refers to the amounts it used;    *)
(* when the transfer is executed other amounts may have arrived, amounts    *)
(* may have been merged, or another transfer of the account may have been   *)
(* executed.  A proof is the statement it was made for with the secrets it  *)
(* was made from: it verifies for that statement if the secrets satisfy it  *)
(* (SigmaProtocols) and the chunks are in range.                            *)
(***************************************************************************)
EXTENDS GroupArithmetic, FiniteSetsExt, Functions

CONSTANTS
  Accounts,
  KeyOf,           \* the secret scalar of every account
  H,               \* encryption_in_exponent_generator
  Rand,            \* the randomness of the chunks that are encrypted, a sequence of four
  ChunkBits,       \* CHUNK_SIZE: an amount has 2 * ChunkBits bits
  M,               \* the size of the table for discrete logarithms
  Supply,          \* all that there is, on the public balance of one account at first
  maxNumIncoming,  \* of an account, the merged amount included
  MaxIndex,        \* bound: incoming amounts of one account in a run
  MaxSpent,        \* bound: operations on encrypted balances in a run
  MaxInFlight      \* bound: transfers made and not executed

\* What a choice of the constants has to satisfy.
EncryptionAssumption ==
  /\ Supply < 2 ^ (2 * ChunkBits) /\ 2 ^ (2 * ChunkBits) < q /\ H \in NonZero
  /\ \A a \in Accounts : KeyOf[a] \in NonZero

VARIABLES
  chain,     \* account -> its public balance, self amount, startIndex, incoming amounts
  wallet,    \* account -> what it has read: an AggregatedDecryptedAmount
  inflight,  \* the transfers that were made
  spent      \* account -> the number of its own operations on the encrypted balance

vars == <<chain, wallet, inflight, spent>>

pk(a) == [generator |-> 1, key |-> KeyOf[a]]

(***************************************************************************)
(* Chunks, encryption and decryption of amounts.                            *)
(***************************************************************************)
ZeroAmount == <<<<0, 0>>, <<0, 0>>>>

u64_to_chunks(x) == <<x % 2 ^ ChunkBits, (x \div 2 ^ ChunkBits) % 2 ^ ChunkBits>>

\* Mutant of chunks_to_u64: a chunk is cut to its size.
chunks_to_u64_masked(xs) == (xs[1] % 2 ^ ChunkBits) + (xs[2] % 2 ^ ChunkBits) * 2 ^ ChunkBits

chunks_to_u64(xs) == (xs[1] + xs[2] * 2 ^ ChunkBits) % 2 ^ (2 * ChunkBits)

\* discrete_log: the giant steps i until the baby step j is in the table.
discrete_log(v) ==
  LET table == [j \in 0 .. M - 1 |-> (H * j) % q]
      found(i) == \E j \in 0 .. M - 1 : table[j] = (v - i * M * H) % q
      i == CHOOSE n \in 0 .. q : found(n) /\ \A k \in 0 .. n - 1 : ~found(k)
  IN  i * M + CHOOSE j \in 0 .. M - 1 : table[j] = (v - i * M * H) % q

encrypt_amount_with_fixed_randomness(amount) ==
  [i \in 1..2 |-> <<0, (H * u64_to_chunks(amount)[i]) % q>>]

encrypt_amount(a, amount, rs) ==
  [i \in 1..2 |-> encrypt_exponent(pk(a), H, u64_to_chunks(amount)[i], rs[i])]

aggregate(x, y) == [i \in 1..2 |-> combine(x[i], y[i])]
decrypt_amount(a, x) == chunks_to_u64([i \in 1..2 |-> discrete_log(decrypt(KeyOf[a], x[i]))])

join(x) == combine(scale(x[2], 2 ^ ChunkBits), x[1])

(***************************************************************************)
(* Proofs.  The statement of enc_trans for the ciphers A and S_prime, and   *)
(* what the accounting and the range proofs establish about them.           *)
(***************************************************************************)
Value(chunks) == FoldRight(LAMBDA x, acc : x + 2 ^ ChunkBits * acc, chunks, 0)

gen_enc_trans_proof_info(sender, receiver, S, A, S_prime) ==
  [sender |-> sender, receiver |-> receiver, S |-> S, A |-> A, S_prime |-> S_prime]

AccountingHolds(st, w) ==
  /\ pk(st.sender).key = w.sk
  /\ st.S[2] = multiexp(<<st.S[1], H>>, <<w.sk, Value(w.a) + Value(w.s_prime)>>)
  /\ \A i \in DOMAIN st.A : st.A[i] = encrypt_exponent(pk(st.receiver), H, w.a[i], w.a_rand[i])
  /\ \A i \in DOMAIN st.S_prime :
       st.S_prime[i] = encrypt_exponent(pk(st.sender), H, w.s_prime[i], w.s_rand[i])
InRange(chunks) == \A i \in DOMAIN chunks : chunks[i] \in 0 .. 2 ^ ChunkBits - 1

\* The amount in public is one cipher with randomness zero, and has no range proof.
DummyEncryption(amount) == <<<<0, (H * amount) % q>>>>

(***************************************************************************)
(* What is on the chain.                                                    *)
(***************************************************************************)
AggregateAll(amounts) == FoldLeft(aggregate, ZeroAmount, amounts)

\* The self amount with the incoming amounts of an index below index.
UpTo(c, index) == aggregate(c.self, AggregateAll(SubSeq(c.incoming, 1, index - c.startIndex)))
NextIndex(c) == c.startIndex + Len(c.incoming)

Owner == CHOOSE a \in Accounts : TRUE

Init ==
  /\ chain = [a \in Accounts |->
                [public |-> IF a = Owner THEN Supply ELSE 0, self |-> ZeroAmount,
                 startIndex |-> 0, incoming |-> <<>>]]
  /\ wallet = [a \in Accounts |-> <<>>]
  /\ inflight = {} /\ spent = [a \in Accounts |-> 0]

WithinBound == FoldFunction(LAMBDA n, s : s + n, 0, spent) < MaxSpent

\* A transfer from the public to the encrypted balance of the account.
PubToSec(a, amount) ==
  /\ amount \in 1 .. chain[a].public /\ WithinBound
  /\ chain' = [chain EXCEPT ![a].public = @ - amount,
                            ![a].self = aggregate(@, encrypt_amount_with_fixed_randomness(amount))]
  /\ spent' = [spent EXCEPT ![a] = @ + 1]
  /\ UNCHANGED <<wallet, inflight>>

\* The wallet takes the amounts below an index, adds them up and decrypts the sum.
ReadBalance(a, index) ==
  /\ index \in chain[a].startIndex .. NextIndex(chain[a])
  /\ wallet' = [wallet EXCEPT ![a] =
       <<[agg_encrypted_amount |-> UpTo(chain[a], index),
          agg_amount |-> decrypt_amount(a, UpTo(chain[a], index)),
          agg_index |-> index, start |-> chain[a].startIndex, spent |-> spent[a]]>>]
  /\ UNCHANGED <<chain, inflight, spent>>

Remaining(read, amount) == read.agg_amount - amount

\* make_transfer_data: no transfer when the amount is more than there is.
make_transfer_data(a, b, amount) ==
  /\ wallet[a] # <<>> /\ Cardinality(inflight) < MaxInFlight
  /\ \E read \in {wallet[a][1]} :
       /\ amount <= read.agg_amount
       /\ \E A \in {encrypt_amount(b, amount, Rand)},
             S_prime \in {encrypt_amount(a, Remaining(read, amount), SubSeq(Rand, 3, 4))} :
            inflight' = inflight \union
              {[kind |-> "transfer", from |-> a, to |-> b, amount |-> A, public |-> 0, remaining |-> S_prime,
                index |-> read.agg_index, start |-> read.start, spent |-> read.spent,
                statement |-> gen_enc_trans_proof_info(a, b, join(read.agg_encrypted_amount), A, S_prime),
                secret |-> [sk |-> KeyOf[a], a |-> u64_to_chunks(amount), a_rand |-> SubSeq(Rand, 1, 2),
                            s_prime |-> u64_to_chunks(Remaining(read, amount)),
                            s_rand |-> SubSeq(Rand, 3, 4)]]}
  /\ UNCHANGED <<chain, wallet, spent>>

make_sec_to_pub_transfer_data(a, amount) ==
  /\ wallet[a] # <<>> /\ Cardinality(inflight) < MaxInFlight
  /\ \E read \in {wallet[a][1]} :
       /\ amount <= read.agg_amount
       /\ \E S_prime \in {encrypt_amount(a, Remaining(read, amount), SubSeq(Rand, 3, 4))} :
            inflight' = inflight \union
              {[kind |-> "sec_to_pub", from |-> a, to |-> a, amount |-> ZeroAmount, public |-> amount, remaining |-> S_prime,
                index |-> read.agg_index, start |-> read.start, spent |-> read.spent,
                statement |-> gen_enc_trans_proof_info(a, a, join(read.agg_encrypted_amount),
                                                       DummyEncryption(amount), S_prime),
                secret |-> [sk |-> KeyOf[a], a |-> <<amount>>, a_rand |-> <<0>>,
                            s_prime |-> u64_to_chunks(Remaining(read, amount)),
                            s_rand |-> SubSeq(Rand, 3, 4)]]}
  /\ UNCHANGED <<chain, wallet, spent>>

verify_transfer_data(t, before) ==
  /\ t.statement = gen_enc_trans_proof_info(t.from, t.to, join(before), t.amount, t.remaining)
  /\ AccountingHolds(t.statement, t.secret)
  /\ InRange(t.secret.a) /\ InRange(t.secret.s_prime)

verify_sec_to_pub_transfer_data(t, before) ==
  /\ t.statement
       = gen_enc_trans_proof_info(t.from, t.from, join(before), DummyEncryption(t.public), t.remaining)
  /\ AccountingHolds(t.statement, t.secret)
  /\ InRange(t.secret.s_prime)

Verifies(t) ==
  /\ t.index \in chain[t.from].startIndex .. NextIndex(chain[t.from])
  /\ IF t.kind = "transfer" THEN verify_transfer_data(t, UpTo(chain[t.from], t.index))
                            ELSE verify_sec_to_pub_transfer_data(t, UpTo(chain[t.from], t.index))

(***************************************************************************)
(* Execution on the chain.                                                  *)
(***************************************************************************)
\* The amounts that were used are gone, what remains is the self amount.
Spend(c, t) ==
  [c EXCEPT !.self = t.remaining, !.startIndex = t.index,
            !.incoming = SubSeq(@, t.index - c.startIndex + 1, Len(@))]

\* A new incoming amount; the two oldest are merged when there are too many.
Receive(c, amount) ==
  LET all == Append(c.incoming, amount)
  IN  IF Len(all) <= maxNumIncoming THEN [c EXCEPT !.incoming = all]
      ELSE [c EXCEPT !.startIndex = @ + 1,
                     !.incoming = <<aggregate(all[1], all[2])>> \o SubSeq(all, 3, Len(all))]

Execute(t) ==
  /\ Verifies(t) /\ WithinBound
  /\ t.kind = "transfer" => NextIndex(chain[t.to]) < MaxIndex
  /\ inflight' = inflight \ {t}
  /\ \E c \in {[chain EXCEPT ![t.from] = Spend(@, t)]} :
       chain' = IF t.kind = "transfer" THEN [c EXCEPT ![t.to] = Receive(@, t.amount)]
                ELSE [c EXCEPT ![t.to].public = @ + t.public]
  /\ spent' = [spent EXCEPT ![t.from] = @ + 1]
  /\ UNCHANGED wallet

Reject(t) ==
  /\ ~Verifies(t)
  /\ inflight' = inflight \ {t}
  /\ UNCHANGED <<chain, wallet, spent>>

Next ==
  \/ \E a \in Accounts :
       \/ \E x \in 1..Supply : PubToSec(a, x) \/ make_sec_to_pub_transfer_data(a, x)
       \/ \E i \in 0..MaxIndex : ReadBalance(a, i)
       \/ \E b \in Accounts \ {a}, x \in 1..Supply : make_transfer_data(a, b, x)
  \/ \E t \in inflight : Execute(t) \/ Reject(t)

Spec == Init /\ [][Next]_vars

(***************************************************************************)
(* Properties.                                                              *)
(***************************************************************************)
EncryptedBalance(a) == decrypt_amount(a, UpTo(chain[a], NextIndex(chain[a])))

\* No transfer, merge or change of chunks makes or loses money: what all accounts can
\* decrypt and what is public is what there was.
MoneyIsConserved ==
  FoldFunction(LAMBDA n, s : s + n, 0,
               [a \in Accounts |-> chain[a].public + EncryptedBalance(a)]) = Supply

\* A transfer stays valid while its account does nothing else and the amounts it used
\* are not merged with others: what arrives in the meantime does not disturb it.
TransfersStayValid ==
  \A t \in inflight :
    t.spent = spent[t.from] /\ (t.index > chain[t.from].startIndex \/ t.start = chain[t.from].startIndex)
      => Verifies(t)
===========================================================================
