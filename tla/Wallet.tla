-------------------------------- MODULE Wallet --------------------------------
(***************************************************************************)
(* Path 2B: a client pays with the wallet, from the payment requirements   *)
(* to the notes on the chain.                                              *)
(*                                                                         *)
(* build_exact_nockchain_payload_with_wallet writes the Authorization and  *)
(* NockchainWalletClient::authorize_and_sign checks it, pokes the wallet   *)
(* kernel twice under its mutex and signs.  Several calls share one        *)
(* kernel.  A call p stands before                                         *)
(*   "sig-hash"   its turn on the mutex for the %sig-hash poke             *)
(*   "tx-id"      its turn for the %tx-id poke                             *)
(*   "signed"     the payload is built; the facilitator has not seen it    *)
(*   "sent"       /settle has handed the transaction to the chain          *)
(* or has ended: "other", "unsupported" and "insufficient_funds" are the   *)
(* errors of WalletBackendError, "dropped" is a caller that went away.     *)
(*                                                                         *)
(* The chain is the environment.  It holds notes: the two hashes of a      *)
(* note's name are one number, a lock root is the spend condition it       *)
(* hashes, a spend condition the sequence of its primitives.  Hashes and   *)
(* signatures are the records of what went into them.                      *)
(***************************************************************************)
EXTENDS Surrogate, FiniteSetsExt, SequencesExt

CONSTANTS
  Payments,       \* the calls of the client
  Payer,          \* the key of the wallet
  Payees,         \* the keys of those who are paid
  Requirements,   \* the requirements servers ask for
  Timelocks,      \* the minimal timelocks of coinbase notes
  Genesis,        \* the notes on the chain at the start
  MaxNote,        \* bound: names of notes
  NoAuth,         \* the authorization of a call that has not been made
  NoHash          \* the sig-hash before its poke

(***************************************************************************)
(* The two hashes of one key, and the locks made from a hash.              *)
(***************************************************************************)
EnvelopePkh(k) == [key |-> k, form |-> "envelope"]
ChainPkh(k) == [key |-> k, form |-> "chain"]
Pkhs == {EnvelopePkh(k) : k \in {Payer} \cup Payees}
          \cup {ChainPkh(k) : k \in {Payer} \cup Payees}
Garbled == [key |-> "none", form |-> "not base58"]
Unparsable == -1    \* an amount that is not a decimal number

SimplePkh(h) == << h >>
CoinbasePkh(h, timelockMin) == << h, timelockMin >>

SimpleLock == [kind |-> "simple-pkh"]
CoinbaseLock(t) == [kind |-> "coinbase-pkh", timelockMin |-> t]

\* A defect: every input is taken for a simple one.
BuildInputConditionSimple(pkh, lock) == SimplePkh(pkh)

\* The condition the witness presents for a note under that lock.
BuildInputCondition(pkh, lock) ==
  IF lock.kind = "simple-pkh" THEN SimplePkh(pkh) ELSE CoinbasePkh(pkh, lock.timelockMin)

\* The spend conditions notes are under, and the notes.
Conditions ==
  {SimplePkh(h) : h \in Pkhs} \cup {CoinbasePkh(h, t) : h \in Pkhs, t \in Timelocks}

NotesUnder(conditions) ==
  [name : 1 .. MaxNote, assets : 0 .. MaxU64, condition : conditions]

ASSUME WalletConstants ==
  /\ MaxU64 \in Nat
  /\ MaxNote \in Nat
  /\ Payer \notin Payees
  /\ \A r \in Requirements :
       r.payTo \in Pkhs \cup {Garbled} /\ r.maxAmount \in Int /\ r.minFee \in Int
  /\ Timelocks \subseteq Nat
  /\ Genesis \subseteq NotesUnder(Conditions)
  /\ IsFiniteSet(Genesis)
  /\ \A n \in Genesis : n.name <= Cardinality(Genesis)

(***************************************************************************)
(* The authorization.                                                      *)
(***************************************************************************)
\* What a caller says of a note it read from the chain, with its lock or
\* with the default a caller that knows nothing of locks sends.
LockOf(n) == IF Len(n.condition) = 1 THEN SimpleLock ELSE CoinbaseLock(n.condition[2])
RefTo(n) == [name |-> n.name, assets |-> n.assets, lock |-> LockOf(n)]
UnlabelledRef(n) == [name |-> n.name, assets |-> n.assets, lock |-> SimpleLock]

\* The lists of notes callers choose: one note, none, or too many.
NoteLists(notes) ==
  {<< RefTo(n) >> : n \in notes} \cup {<< UnlabelledRef(n) >> : n \in notes}
    \cup {[i \in 1 .. k |-> RefTo(CHOOSE n \in notes : TRUE)] : k \in {0, 2}}

\* What an Authorization may say of a note, and all it may say.
NoteRefs ==
  [name : 1 .. MaxNote, assets : 0 .. MaxU64,
   lock : {SimpleLock} \cup {CoinbaseLock(t) : t \in Timelocks}]

Authorizations ==
  [from : Pkhs, to : Pkhs \cup {Garbled}, value : Int, fee : Int, nonce : Payments,
   notes : Seq(NoteRefs), changeAddress : Pkhs]

\* One for requirement req.
AuthorizationFor(p, req, notes, from, change) ==
  [from |-> from, to |-> req.payTo, value |-> req.maxAmount, fee |-> req.minFee,
   nonce |-> p, notes |-> notes, changeAddress |-> change]

\* What the payer signs of it.
EnvelopeDigest(auth) ==
  [auth EXCEPT !.notes = [i \in DOMAIN auth.notes |-> auth.notes[i].name]]

IsAmount(v) == v \in 0 .. MaxU64
IsHash(t) == t # Garbled

Needed(auth) == auth.value + auth.fee
Change(auth) == auth.notes[1].assets - Needed(auth)

(***************************************************************************)
(* authorize_and_sign up to the first poke: each line an early return.     *)
(***************************************************************************)
AuthorizeVerdict(auth) ==
  IF auth.from # EnvelopePkh(Payer) THEN "other"
  ELSE IF Len(auth.notes) # 1 THEN "unsupported"
  ELSE IF ~(IsAmount(auth.value) /\ IsAmount(auth.fee)
              /\ IsAmount(auth.notes[1].assets)) THEN "other"
  ELSE IF ~IsAmount(Needed(auth)) THEN "other"
  ELSE IF auth.notes[1].assets < Needed(auth) THEN "insufficient_funds"
  ELSE IF ~IsHash(auth.to) THEN "other"
  ELSE IF Change(auth) > 0 /\ ~IsHash(auth.changeAddress) THEN "other"
  ELSE "ok"

(***************************************************************************)
(* The transaction: its outputs, what is signed of it, and all of it.      *)
(***************************************************************************)
SeedTo(pkh, amount, parent) ==
  [outputSource |-> None, lockRoot |-> SimplePkh(pkh), noteData |-> << >>,
   gift |-> amount, parentHash |-> parent]

\* A defect: what is left of the note goes to the payee.
SeedsWithoutChange(auth) ==
  << SeedTo(auth.to, auth.notes[1].assets - auth.fee, auth.notes[1].name) >>

\* The payment, and the change if any is left.
SeedsFor(auth) ==
  LET parent == auth.notes[1].name
      payment == SeedTo(auth.to, auth.value, parent)
      change == SeedTo(auth.changeAddress, Change(auth), parent)
  IN  IF Change(auth) > 0 THEN << payment, change >> ELSE << payment >>

SigHash(seeds, fee) == [seeds |-> seeds, fee |-> fee]

\* The outputs and hashes of this wallet.
Seeds == {SeedTo(pkh, g, name) : pkh \in Pkhs, g \in 0 .. MaxU64, name \in 1 .. MaxNote}
SigHashes == [seeds : Seq(Seeds), fee : 0 .. MaxU64]

\* Whom an authorization pays, how much, and for which fee.
Amount(to, value, fee) == [payee |-> to.key, value |-> value, fee |-> fee]

\* The values for nothing are told from these.
ASSUME WalletPlaceholders ==
  /\ NoAuth \notin Authorizations
  /\ NoAuth \notin [payee : {Payer} \cup Payees, value : Int, fee : Int]
  /\ NoHash \notin SigHashes

Signature(key, digest) == [key |-> key, over |-> digest]

SpendsFor(auth, hash) ==
  << [name |-> auth.notes[1].name,
      kind |-> "witness",
      spend |->
        [witness |->
           [lockMerkleProof |-> BuildInputCondition(ChainPkh(Payer), auth.notes[1].lock),
            pkhSignature |-> << [hash |-> ChainPkh(Payer), pubkey |-> Payer,
                                 signature |-> Signature(Payer, hash)] >>,
            hax |-> << >>,
            tim |-> 0],
         seeds |-> SeedsFor(auth),
         fee |-> auth.fee]] >>

TxId(spends) == [of |-> spends]

RawTxFor(auth, hash) ==
  LET spends == SpendsFor(auth, hash)
  IN  [version |-> "V1", id |-> TxId(spends), spends |-> spends]

PayloadFor(auth, hash) ==
  [signature |-> Signature(Payer, EnvelopeDigest(auth)),
   authorization |-> auth,
   signedRawTx |-> SurrogateFromRawTx(RawTxFor(auth, hash))]

-----------------------------------------------------------------------------
VARIABLES
  stage,        \* stage[p]: where the call stands, or how it ended
  auth,         \* auth[p]: its authorization, while it is under way
  sigHash,      \* sigHash[p]: what the first poke returned, until the second
  payload,      \* payload[p]: {} before, then {the payload that was built}
  queue,        \* the mutex of the kernel: its holder, then those that wait
  ledger,       \* the unspent notes
  minted,       \* every note there has been
  nextName,     \* the name of the next one
  mempool,      \* transactions the node has and no block holds
  paid          \* history: the calls whose transfer is on the chain

callVars == <<stage, auth, sigHash, payload, queue>>
chainVars == <<ledger, minted, nextName, mempool, paid>>
vars == <<callVars, chainVars>>

InKernel == {"sig-hash", "tx-id"}
Errors == {"other", "unsupported", "insufficient_funds", "dropped", "refused"}

TypeOK ==
  /\ stage \in [Payments -> {"idle", "signed", "sent"} \cup InKernel \cup Errors]
  /\ DOMAIN auth = Payments
  /\ \A p \in Payments :
       /\ auth[p] # NoAuth <=> stage[p] \in InKernel
       /\ auth[p] # NoAuth => AuthorizeVerdict(auth[p]) = "ok"
       /\ sigHash[p] # NoHash <=> stage[p] = "tx-id"
       /\ Cardinality(payload[p]) = 1 <=> stage[p] \in {"signed", "sent", "refused"}
       /\ (\E i \in DOMAIN queue : queue[i] = p) <=> stage[p] \in InKernel
  /\ queue \in Seq(Payments)
  /\ \A i, j \in DOMAIN queue : queue[i] = queue[j] => i = j
  /\ ledger \subseteq minted
  /\ minted \subseteq NotesUnder(Conditions)
  /\ nextName \in Nat
  /\ paid \subseteq Payments

Init ==
  /\ stage = [p \in Payments |-> "idle"]
  /\ auth = [p \in Payments |-> NoAuth]
  /\ sigHash = [p \in Payments |-> NoHash]
  /\ payload = [p \in Payments |-> {}]
  /\ queue = << >>
  /\ ledger = Genesis
  /\ minted = Genesis
  /\ nextName = Cardinality(Genesis) + 1
  /\ mempool = {}
  /\ paid = {}

-----------------------------------------------------------------------------
(***************************************************************************)
(* The client and its wallet.                                              *)
(***************************************************************************)
Holds(p) == queue # << >> /\ Head(queue) = p

\* authorize_and_sign is called; it checks and asks for the kernel.
AuthorizeAndSign(p, a) ==
  LET v == AuthorizeVerdict(a)
  IN  /\ stage[p] = "idle"
      /\ stage' = [stage EXCEPT ![p] = IF v = "ok" THEN "sig-hash" ELSE v]
      /\ auth' = [auth EXCEPT ![p] = IF v = "ok" THEN a ELSE NoAuth]
      /\ queue' = IF v = "ok" THEN Append(queue, p) ELSE queue
      /\ UNCHANGED <<sigHash, payload, chainVars>>

\* build_exact_nockchain_payload_with_wallet: the payer, and its change
\* address, are what the wallet calls its hash.
BuildWithWallet(p) ==
  \E req \in Requirements, notes \in NoteLists(minted) :
    AuthorizeAndSign(p, AuthorizationFor(p, req, notes, EnvelopePkh(Payer),
                                         EnvelopePkh(Payer)))

\* A caller that writes the authorization itself, with a change address the
\* chain knows, and with either hash of the key for itself.
BuildByHand(p) ==
  \E req \in Requirements, notes \in NoteLists(minted),
     from \in {EnvelopePkh(Payer), ChainPkh(Payer)} :
    AuthorizeAndSign(p, AuthorizationFor(p, req, notes, from, ChainPkh(Payer)))

Place(p) == CHOOSE i \in DOMAIN queue : queue[i] = p

\* A defect: one that ends keeps its place.
EndInPlace(p, how) ==
  /\ stage' = [stage EXCEPT ![p] = how]
  /\ auth' = [auth EXCEPT ![p] = NoAuth]
  /\ sigHash' = [sigHash EXCEPT ![p] = NoHash]
  /\ UNCHANGED queue

\* A call ends: its locals are gone and it is not in the queue.
End(p, how) ==
  /\ stage' = [stage EXCEPT ![p] = how]
  /\ auth' = [auth EXCEPT ![p] = NoAuth]
  /\ sigHash' = [sigHash EXCEPT ![p] = NoHash]
  /\ queue' = RemoveAt(queue, Place(p))

\* A defect: the guard of the first poke is kept, and a tokio mutex is not
\* reentrant.
SigHashPokeKeepingGuard(p) ==
  /\ Holds(p)
  /\ stage[p] = "sig-hash"
  /\ stage' = [stage EXCEPT ![p] = "tx-id"]
  /\ sigHash' = [sigHash EXCEPT ![p] = SigHash(SeedsFor(auth[p]), auth[p].fee)]
  /\ queue' = Append(queue, p)
  /\ UNCHANGED <<auth, payload, chainVars>>

\* The %sig-hash poke under the mutex.  The guard is dropped with the block,
\* and the signature made; then the mutex is asked for again.
SigHashPoke(p) ==
  /\ Holds(p)
  /\ stage[p] = "sig-hash"
  /\ \/ /\ stage' = [stage EXCEPT ![p] = "tx-id"]
        /\ sigHash' = [sigHash EXCEPT ![p] = SigHash(SeedsFor(auth[p]), auth[p].fee)]
        /\ queue' = Append(Tail(queue), p)
        /\ UNCHANGED auth
     \/ End(p, "other")
  /\ UNCHANGED <<payload, chainVars>>

\* The %tx-id poke, the surrogate, the envelope signature, the payload.
TxIdPoke(p) ==
  /\ Holds(p)
  /\ stage[p] = "tx-id"
  /\ \/ /\ End(p, "signed")
        /\ payload' = [payload EXCEPT ![p] = {PayloadFor(auth[p], sigHash[p])}]
     \/ End(p, "other") /\ UNCHANGED payload
  /\ UNCHANGED chainVars

\* The caller drops the future at either await.
Cancel(p) ==
  /\ stage[p] \in InKernel
  /\ End(p, "dropped")
  /\ UNCHANGED <<payload, chainVars>>

-----------------------------------------------------------------------------
(***************************************************************************)
(* The facilitator and the chain.                                          *)
(***************************************************************************)
EnvelopeVerifies(x) ==
  /\ EnvelopePkh(x.signature.key) = x.authorization.from
  /\ x.signature.over = EnvelopeDigest(x.authorization)

\* What /settle needs of the payload itself: the signature of the envelope
\* and a surrogate that decodes.  It may be asked again.
Settle(p) ==
  \E x \in payload[p] :
    /\ stage[p] \in {"signed", "sent"}
    /\ \/ /\ EnvelopeVerifies(x) /\ SurrogateDecodes(x.signedRawTx)
          /\ stage' = [stage EXCEPT ![p] = "sent"]
          /\ mempool' = IF p \in paid THEN mempool
                        ELSE mempool \cup {RawTxFromSurrogate(x.signedRawTx)}
       \/ /\ ~(EnvelopeVerifies(x) /\ SurrogateDecodes(x.signedRawTx))
          /\ stage' = [stage EXCEPT ![p] = "refused"]
          /\ UNCHANGED mempool
    /\ UNCHANGED <<auth, sigHash, payload, queue, ledger, minted, nextName, paid>>

\* No transaction of this wallet has more than two outputs.
Gifts(seeds) == seeds[1].gift + (IF Len(seeds) = 2 THEN seeds[2].gift ELSE 0)

\* Consensus on a transaction that spends note n.
AcceptableOnChain(raw, n) ==
  LET entry == raw.spends[1]
      witness == entry.spend.witness
      signer == witness.pkhSignature[1]
  IN  /\ entry.name = n.name
      /\ witness.lockMerkleProof = n.condition
      /\ signer.hash = n.condition[1]
      /\ signer.hash = ChainPkh(signer.pubkey)
      /\ signer.signature
           = Signature(signer.pubkey, SigHash(entry.spend.seeds, entry.spend.fee))
      /\ Gifts(entry.spend.seeds) + entry.spend.fee = n.assets

Outputs(seeds) ==
  {[name |-> nextName + (i - 1), assets |-> seeds[i].gift,
    condition |-> seeds[i].lockRoot] : i \in DOMAIN seeds}

\* A block holds the transaction that p's payload carries.
Include(p) ==
  \E raw \in mempool, n \in ledger :
    LET seeds == raw.spends[1].spend.seeds
    IN  /\ p \notin paid
        /\ \E x \in payload[p] : raw = RawTxFromSurrogate(x.signedRawTx)
        /\ AcceptableOnChain(raw, n)
        /\ nextName + (Len(seeds) - 1) <= MaxNote
        /\ ledger' = (ledger \ {n}) \cup Outputs(seeds)
        /\ minted' = minted \cup Outputs(seeds)
        /\ nextName' = nextName + Len(seeds)
        /\ mempool' = mempool \ {raw}
        /\ paid' = paid \cup {p}
        /\ UNCHANGED callVars

\* The node forgets a transaction.
Forget(raw) ==
  /\ mempool' = mempool \ {raw}
  /\ UNCHANGED <<callVars, ledger, minted, nextName, paid>>

-----------------------------------------------------------------------------
Step(p) ==
  \/ BuildWithWallet(p)
  \/ BuildByHand(p)
  \/ SigHashPoke(p)
  \/ TxIdPoke(p)
  \/ Cancel(p)
  \/ Settle(p)
  \/ Include(p)

Next ==
  \/ \E p \in Payments : Step(p)
  \/ \E raw \in mempool : Forget(raw)

Spec == Init /\ [][Next]_vars

\* A poke ends, whoever's it is.  Nothing else need happen.
KernelPoke == \E p \in Payments : SigHashPoke(p) \/ TxIdPoke(p)

Fairness == WF_vars(KernelPoke)

FairSpec == Spec /\ Fairness

-----------------------------------------------------------------------------
(***************************************************************************)
(* Properties.                                                             *)
(***************************************************************************)
\* "A witness presenting the wrong condition is silently rejected at the
\* chain layer" (build_input_condition).  When what a caller says of a note
\* that the payer's key opens is true, /settle takes the payload built for it,
\* and the chain takes the transaction that comes out of the surrogate for as
\* long as the note is unspent.
SignedIsAcceptable ==
  \A p \in Payments : \A x \in payload[p] :
    /\ stage[p] # "refused"
    /\ \A n \in ledger :
         RefTo(n) = x.authorization.notes[1] /\ n.condition[1] = ChainPkh(Payer) =>
           AcceptableOnChain(RawTxFromSurrogate(x.signedRawTx), n)

\* Each call that waits for the kernel ends: the order in which calls take the
\* mutex twice, fail and go away leaves none behind (authorize_and_sign).
SigningEnds ==
  \A p \in Payments : stage[p] \in InKernel ~> stage[p] \notin InKernel

\* "Optional change seed back to the payer's change address" (wallet client,
\* authorize_and_sign): every unspent note made for the payer, by either hash
\* of its key, is under a lock for which the wallet has a witness.
ChangeComesBack ==
  \A n \in ledger :
    n.condition[1].key = Payer =>
      BuildInputCondition(ChainPkh(Payer), LockOf(n)) = n.condition

\* The wallet, the surrogate and the chain together move money as Transfers
\* promises.  What is locked to a key is counted under either of its hashes.
AssetsOf(notes) == MapThenSumSet(LAMBDA n : n.assets, notes)

Held ==
  [k \in {Payer} \cup Payees |-> AssetsOf({n \in ledger : n.condition[1].key = k})]

AuthorizedBy(payloads) ==
  IF payloads = {} THEN NoAuth
  ELSE LET a == (CHOOSE x \in payloads : TRUE).authorization
       IN  Amount(a.to, a.value, a.fee)

Authorized == [p \in Payments |-> AuthorizedBy(payload[p])]

Promise ==
  INSTANCE Transfers WITH
    held <- Held,
    authorized <- Authorized,
    NoAmount <- NoAuth,
    Amounts <- {Amount(r.payTo, r.maxAmount, r.minFee) :
                  r \in {q \in Requirements : q.payTo # Garbled}}

MovesMoneyAsPromised == Promise!Spec
=============================================================================
