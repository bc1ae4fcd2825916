----------------------------- MODULE Wallet_proofs -----------------------------
(***************************************************************************)
(* What a wallet signs is acceptable, for any number of calls, any notes   *)
(* on the chain, any amounts, and whatever the calls, the node and the     *)
(* chain do meanwhile.                                                     *)
(*                                                                         *)
(* SignedIsAcceptable speaks of finished payloads; the hash one was signed *)
(* over was made at the first poke of its call and carried over the second *)
(* turn on the mutex.  IInv says that it is still the hash of what the     *)
(* call is about, and that every payload is the one PayloadFor makes of a  *)
(* checked authorization.  The rest is of such payloads alone: the lemmas  *)
(* about authorizations, by way of SurrogateRoundTrip.                     *)
(*                                                                         *)
(* TypeInv adds the queue of the mutex and what each stage implies of a    *)
(* call's locals, and gives TypeOK.  MoneyInv adds that names are given    *)
(* once; with what a set of notes comes to when one goes or comes, which   *)
(* is induction over finite sets by a least counterexample, it gives that  *)
(* the whole implements Transfers.                                         *)
(***************************************************************************)
EXTENDS Wallet, FiniteSetTheorems, SequenceTheorems, WellFoundedInduction, TLAPS

\* The payment is one that a server asked for, the change the payer's own.
Asked(a) ==
  /\ a.changeAddress.key = Payer
  /\ \E r \in Requirements :
       a.to = r.payTo /\ a.value = r.maxAmount /\ a.fee = r.minFee

\* What the builders write and passes the checks of authorize_and_sign.
Ready == {a \in Authorizations : AuthorizeVerdict(a) = "ok" /\ Asked(a)}

\* The outputs a payment out of the note of a may have.
SeedsOf(a) == {SeedTo(pkh, g, a.notes[1].name) : pkh \in Pkhs, g \in 0 .. MaxU64}

HashOf(a) == SigHash(SeedsFor(a), a.fee)

Stages == {"idle", "signed", "sent"} \cup InKernel \cup Errors

CallInv(p) ==
  /\ stage[p] # "refused"
  /\ stage[p] \in InKernel => auth[p] \in Ready
  /\ stage[p] = "tx-id" => sigHash[p] = HashOf(auth[p])
  /\ \A x \in payload[p] : \E a \in Ready : x = PayloadFor(a, HashOf(a))

ChainInv ==
  /\ ledger \subseteq minted
  /\ minted \subseteq NotesUnder(Conditions)
  /\ nextName \in Nat \ {0}

IInv ==
  /\ stage \in [Payments -> Stages]
  /\ DOMAIN auth = Payments /\ DOMAIN sigHash = Payments /\ DOMAIN payload = Payments
  /\ ChainInv
  /\ \A p \in Payments : CallInv(p)

-----------------------------------------------------------------------------
(***************************************************************************)
(* The surrogate loses nothing.                                            *)
(***************************************************************************)
\* An element of a sequence is one of its set's.
LEMMA SeqElement ==
  ASSUME NEW S, NEW s \in Seq(S), NEW i \in DOMAIN s
  PROVE  s[i] \in S
  OBVIOUS

\* A sequence taken apart and put together again is the same.
LEMMA SeqAsFunction ==
  ASSUME NEW S, NEW s \in Seq(S)
  PROVE  s = [i \in DOMAIN s |-> s[i]]
  OBVIOUS

\* One output: its optional parts come back as they were.
LEMMA SeedRoundTrip ==
  ASSUME NEW Hashes, NEW Nouns, NEW s \in SeedsOver(Hashes, Nouns)
  PROVE  /\ SeedDecodes(SignedSeed(s))
         /\ SeedFromSurrogate(SignedSeed(s)) = s
<1> DEFINE t == SignedSeed(s)
<1>1. /\ s.outputSource \in {None} \cup {Some(x) : x \in Nouns}
      /\ s.noteData \in Seq(Nouns)
      /\ s.gift \in 0 .. MaxU64
  BY DEF SeedsOver
<1>2. /\ t.outputSourceNoun # None => IsJam(t.outputSourceNoun[1])
      /\ (IF t.outputSourceNoun = None THEN None ELSE Some(t.outputSourceNoun[1][2]))
           = s.outputSource
  <2>1. CASE s.outputSource = None
    BY <2>1 DEF SignedSeed
  <2>2. CASE s.outputSource # None
    <3>1. PICK x \in Nouns : s.outputSource = Some(x)
      BY <1>1, <2>2
    <3>2. t.outputSourceNoun = Some(Jam(x))
      BY <2>2, <3>1 DEF SignedSeed, Some
    <3> QED
      BY <3>1, <3>2 DEF None, Some, Jam, IsJam
  <2> QED
    BY <2>1, <2>2
<1>3. /\ t.noteDataNoun # None => IsJam(t.noteDataNoun[1])
      /\ (IF t.noteDataNoun = None THEN << >> ELSE t.noteDataNoun[1][2]) = s.noteData
  <2>1. CASE s.noteData = << >>
    BY <2>1 DEF SignedSeed
  <2>2. CASE s.noteData # << >>
    <3>1. t.noteDataNoun = Some(Jam(s.noteData))
      BY <2>2 DEF SignedSeed
    <3> QED
      BY <3>1 DEF None, Some, Jam, IsJam
  <2> QED
    BY <2>1, <2>2
<1>4. /\ t.lockRoot = B58(s.lockRoot)
      /\ t.gift = Decimal(s.gift)
      /\ t.parentHash = B58(s.parentHash)
  BY DEF SignedSeed
<1>5. SeedDecodes(t)
  BY <1>1, <1>2, <1>3, <1>4 DEF SeedDecodes, IsB58, IsU64, B58, Decimal
<1>6. SeedFromSurrogate(t)
        = [outputSource |-> s.outputSource, lockRoot |-> s.lockRoot,
           noteData |-> s.noteData, gift |-> s.gift, parentHash |-> s.parentHash]
  BY <1>2, <1>3, <1>4 DEF SeedFromSurrogate, B58, Decimal
<1>7. s = [outputSource |-> s.outputSource, lockRoot |-> s.lockRoot,
           noteData |-> s.noteData, gift |-> s.gift, parentHash |-> s.parentHash]
  BY DEF SeedsOver
<1> QED
  BY <1>5, <1>6, <1>7

\* The witness: signatures and preimages come back in their order.
LEMMA WitnessRoundTrip ==
  ASSUME NEW Hashes, NEW Keys, NEW Signatures, NEW Nouns,
         NEW w \in WitnessesOver(Hashes, Keys, Signatures, Nouns)
  PROVE  /\ WitnessDecodes(SignedWitness(w))
         /\ WitnessFromSurrogate(SignedWitness(w)) = w
<1> DEFINE t == SignedWitness(w)
           E == [hash : Hashes, pubkey : Keys, signature : Signatures]
           H == [hash : Hashes, value : Nouns]
<1>1. w.pkhSignature \in Seq(E) /\ w.hax \in Seq(H)
  BY DEF WitnessesOver
<1>2. /\ t.lockMerkleProofNoun = Jam(w.lockMerkleProof)
      /\ t.pkhSignature = [i \in DOMAIN w.pkhSignature |-> SignedPkhEntry(w.pkhSignature[i])]
      /\ t.hax = [i \in DOMAIN w.hax |-> SignedHax(w.hax[i])]
      /\ t.tim = w.tim
  BY DEF SignedWitness
<1>3. \A i \in DOMAIN w.pkhSignature :
        /\ PkhEntryDecodes(t.pkhSignature[i])
        /\ PkhEntryFromSurrogate(t.pkhSignature[i]) = w.pkhSignature[i]
  <2> TAKE i \in DOMAIN w.pkhSignature
  <2>1. w.pkhSignature[i] \in E
    <3> HIDE DEF E
    <3> QED
      BY <1>1, SeqElement
  <2>2. t.pkhSignature[i] = SignedPkhEntry(w.pkhSignature[i])
    BY <1>2
  <2> QED
    BY <2>1, <2>2 DEF PkhEntryDecodes, PkhEntryFromSurrogate, SignedPkhEntry,
                      B58, Belts, IsB58, IsBelts
<1>4. \A i \in DOMAIN w.hax :
        /\ IsB58(t.hax[i].hash) /\ IsJam(t.hax[i].valueNoun)
        /\ [hash |-> t.hax[i].hash[2], value |-> t.hax[i].valueNoun[2]] = w.hax[i]
  <2> TAKE i \in DOMAIN w.hax
  <2>1. w.hax[i] \in H
    <3> HIDE DEF H
    <3> QED
      BY <1>1, SeqElement
  <2>2. t.hax[i] = SignedHax(w.hax[i])
    BY <1>2
  <2> QED
    BY <2>1, <2>2 DEF SignedHax, B58, Jam, IsB58, IsJam
<1>5. /\ DOMAIN t.pkhSignature = DOMAIN w.pkhSignature
      /\ DOMAIN t.hax = DOMAIN w.hax
  BY <1>2
<1>6. WitnessDecodes(t)
  <2>1. IsJam(t.lockMerkleProofNoun)
    BY <1>2 DEF IsJam, Jam
  <2> HIDE DEF t
  <2> QED
    BY <2>1, <1>3, <1>4, <1>5 DEF WitnessDecodes
<1>7. [i \in DOMAIN t.pkhSignature |-> PkhEntryFromSurrogate(t.pkhSignature[i])]
        = w.pkhSignature
  <2> HIDE DEF t, E
  <2>1. w.pkhSignature = [i \in DOMAIN w.pkhSignature |-> w.pkhSignature[i]]
    BY <1>1, SeqAsFunction
  <2> QED
    BY <2>1, <1>3, <1>5
<1>8. [i \in DOMAIN t.hax |-> [hash |-> t.hax[i].hash[2], value |-> t.hax[i].valueNoun[2]]]
        = w.hax
  <2> HIDE DEF t, H
  <2>1. w.hax = [i \in DOMAIN w.hax |-> w.hax[i]]
    BY <1>1, SeqAsFunction
  <2> QED
    BY <2>1, <1>4, <1>5
<1>9. WitnessFromSurrogate(t)
        = [lockMerkleProof |-> w.lockMerkleProof, pkhSignature |-> w.pkhSignature,
           hax |-> w.hax, tim |-> w.tim]
  <2>1. t.lockMerkleProofNoun[2] = w.lockMerkleProof
    BY <1>2 DEF Jam
  <2> HIDE DEF t
  <2> QED
    BY <2>1, <1>2, <1>7, <1>8 DEF WitnessFromSurrogate
<1> QED
  BY <1>6, <1>9 DEF WitnessesOver

\* What the wallet encodes decodes, and to the same transaction: version, id,
\* every spend, every output and its order (surrogate_from_raw_tx and
\* raw_tx_from_surrogate of the wallet client).
THEOREM SurrogateRoundTrip ==
  ASSUME NEW Hashes, NEW Keys, NEW Signatures, NEW Nouns,
         NEW raw \in RawTxsOver(Hashes, Keys, Signatures, Nouns)
  PROVE  /\ HasSurrogate(raw)
         /\ SurrogateDecodes(SurrogateFromRawTx(raw))
         /\ RawTxFromSurrogate(SurrogateFromRawTx(raw)) = raw
<1> DEFINE t == SurrogateFromRawTx(raw)
           Spends1 == [witness : WitnessesOver(Hashes, Keys, Signatures, Nouns),
                       seeds : Seq(SeedsOver(Hashes, Nouns)),
                       fee : 0 .. MaxU64]
           Entries == [name : Hashes, kind : {"witness"}, spend : Spends1]
<1>1. raw.version = "V1" /\ raw.spends \in Seq(Entries)
  BY DEF RawTxsOver
<1>2. /\ t.version = "v1"
      /\ t.txId = B58(raw.id)
      /\ t.spends = [i \in DOMAIN raw.spends |-> SignedSpendEntry(raw.spends[i])]
  BY DEF SurrogateFromRawTx
<1>3. DOMAIN t.spends = DOMAIN raw.spends
  BY <1>2
<1>4. ASSUME NEW i \in DOMAIN raw.spends
      PROVE  /\ SpendDecodes(t.spends[i])
             /\ SpendFromSurrogate(t.spends[i]) = raw.spends[i]
  <2> DEFINE e == raw.spends[i]
             s == raw.spends[i].spend
             j == t.spends[i]
  <2>1. e \in Entries /\ s \in Spends1
    <3>1. e \in Entries
      <4> HIDE DEF Entries
      <4> QED
        BY <1>1, SeqElement
    <3> QED
      BY <3>1
  <2>2. /\ j.name = B58(e.name)
        /\ j.spend.witness = SignedWitness(s.witness)
        /\ j.spend.seeds = [k \in DOMAIN s.seeds |-> SignedSeed(s.seeds[k])]
        /\ j.spend.fee = Decimal(s.fee)
    <3>1. j = SignedSpendEntry(e)
      <4> HIDE DEF t
      <4> QED
        BY <1>2
    <3> HIDE DEF j
    <3> QED
      BY <3>1 DEF SignedSpendEntry
  <2>3. /\ WitnessDecodes(j.spend.witness)
        /\ WitnessFromSurrogate(j.spend.witness) = s.witness
    <3>1. s.witness \in WitnessesOver(Hashes, Keys, Signatures, Nouns)
      BY <2>1
    <3> QED
      BY <2>2, <3>1, WitnessRoundTrip
  <2>4. s.seeds \in Seq(SeedsOver(Hashes, Nouns))
    BY <2>1
  <2>5. \A k \in DOMAIN s.seeds :
          /\ SeedDecodes(j.spend.seeds[k])
          /\ SeedFromSurrogate(j.spend.seeds[k]) = s.seeds[k]
    <3> TAKE k \in DOMAIN s.seeds
    <3>1. s.seeds[k] \in SeedsOver(Hashes, Nouns)
      BY <2>4, SeqElement
    <3>2. j.spend.seeds[k] = SignedSeed(s.seeds[k])
      BY <2>2
    <3> QED
      BY <3>1, <3>2, SeedRoundTrip
  <2>6. DOMAIN j.spend.seeds = DOMAIN s.seeds
    BY <2>2
  <2>7. [k \in DOMAIN j.spend.seeds |-> SeedFromSurrogate(j.spend.seeds[k])] = s.seeds
    <3>1. s.seeds = [k \in DOMAIN s.seeds |-> s.seeds[k]]
      BY <2>4, SeqAsFunction
    <3> HIDE DEF j, s
    <3> QED
      BY <3>1, <2>5, <2>6
  <2>8. SpendDecodes(j)
    <3>1. IsB58(j.name) /\ IsU64(j.spend.fee)
      BY <2>1, <2>2 DEF IsB58, IsU64, B58, Decimal
    <3> HIDE DEF j, s
    <3> QED
      BY <3>1, <2>3, <2>5, <2>6 DEF SpendDecodes
  <2>9. SpendFromSurrogate(j)
          = [name |-> e.name, kind |-> "witness",
             spend |-> [witness |-> s.witness, seeds |-> s.seeds, fee |-> s.fee]]
    <3>1. j.name[2] = e.name /\ j.spend.fee[2] = s.fee
      BY <2>2 DEF B58, Decimal
    <3> HIDE DEF j, e, s
    <3> QED
      BY <3>1, <2>3, <2>7 DEF SpendFromSurrogate
  <2>10. e = [name |-> e.name, kind |-> "witness",
              spend |-> [witness |-> s.witness, seeds |-> s.seeds, fee |-> s.fee]]
    BY <2>1
  <2> QED
    BY <2>8, <2>9, <2>10
<1>5. HasSurrogate(raw)
  <2>1. \A i \in DOMAIN raw.spends : raw.spends[i] \in Entries
    <3> HIDE DEF Entries
    <3> QED
      BY <1>1, SeqElement
  <2> QED
    BY <1>1, <2>1 DEF HasSurrogate
<1>6. SurrogateDecodes(t)
  <2>1. t.version = "v1" /\ IsB58(t.txId)
    BY <1>2 DEF IsB58, B58
  <2> HIDE DEF t
  <2> QED
    BY <2>1, <1>3, <1>4 DEF SurrogateDecodes
<1>7. [i \in DOMAIN t.spends |-> SpendFromSurrogate(t.spends[i])] = raw.spends
  <2> HIDE DEF t, Entries
  <2>1. raw.spends = [i \in DOMAIN raw.spends |-> raw.spends[i]]
    BY <1>1, SeqAsFunction
  <2> QED
    BY <2>1, <1>3, <1>4
<1>8. RawTxFromSurrogate(t) = [version |-> "V1", id |-> raw.id, spends |-> raw.spends]
  BY <1>2, <1>7, SMTT(30) DEF RawTxFromSurrogate, B58
<1>9. raw = [version |-> "V1", id |-> raw.id, spends |-> raw.spends]
  BY <1>1 DEF RawTxsOver
<1> QED
  BY <1>5, <1>6, <1>8, <1>9

-----------------------------------------------------------------------------
(***************************************************************************)
(* Authorizations and what is made of them.                                *)
(***************************************************************************)
\* What the early returns of authorize_and_sign leave.
LEMMA ReadyMeans ==
  ASSUME NEW a \in Ready
  PROVE  /\ a \in Authorizations /\ a.from = EnvelopePkh(Payer)
         /\ Len(a.notes) = 1 /\ a.notes[1] \in NoteRefs
         /\ a.value \in 0 .. MaxU64 /\ a.fee \in 0 .. MaxU64
         /\ a.notes[1].assets \in 0 .. MaxU64
         /\ Change(a) = a.notes[1].assets - (a.value + a.fee)
         /\ Change(a) \in 0 .. MaxU64
         /\ a.to \in Pkhs
<1>1. a \in Authorizations /\ AuthorizeVerdict(a) = "ok"
  BY DEF Ready
<1>2. /\ a.from = EnvelopePkh(Payer) /\ Len(a.notes) = 1
      /\ IsAmount(a.value) /\ IsAmount(a.fee) /\ IsAmount(a.notes[1].assets)
      /\ ~(a.notes[1].assets < Needed(a)) /\ IsHash(a.to)
  BY <1>1 DEF AuthorizeVerdict
<1>3. a.notes[1] \in NoteRefs
  BY <1>1, <1>2 DEF Authorizations
<1>4. MaxU64 \in Nat
  BY WalletConstants
<1>5. /\ Change(a) = a.notes[1].assets - (a.value + a.fee)
      /\ Change(a) \in 0 .. MaxU64
  BY <1>2, <1>4 DEF Change, Needed, IsAmount
<1>6. a.to \in Pkhs
  BY <1>1, <1>2 DEF Authorizations, IsHash
<1>. QED
  BY <1>1, <1>2, <1>3, <1>5, <1>6 DEF IsAmount

\* The outputs: one or two, their amounts u64s that come to the note less the
\* fee, each to a key's hash.
LEMMA SeedsAre ==
  ASSUME NEW a \in Ready
  PROVE  /\ SeedsFor(a) \in Seq(SeedsOf(a))
         /\ Len(SeedsFor(a)) \in 1 .. 2
         /\ Gifts(SeedsFor(a)) + a.fee = a.notes[1].assets
<1> DEFINE seed(pkh, g) == SeedTo(pkh, g, a.notes[1].name)
<1>1. /\ a.value \in 0 .. MaxU64 /\ Change(a) \in 0 .. MaxU64 /\ a.fee \in 0 .. MaxU64
      /\ a.notes[1].assets \in 0 .. MaxU64 /\ a.to \in Pkhs /\ a.changeAddress \in Pkhs
      /\ Change(a) = a.notes[1].assets - (a.value + a.fee)
  BY ReadyMeans DEF Authorizations
<1>2. SeedsFor(a) = IF Change(a) > 0
                    THEN << seed(a.to, a.value), seed(a.changeAddress, Change(a)) >>
                    ELSE << seed(a.to, a.value) >>
  BY DEF SeedsFor
<1>3. \A pkh, g : seed(pkh, g).gift = g
  BY DEF SeedTo
<1>4. seed(a.to, a.value) \in SeedsOf(a) /\ seed(a.changeAddress, Change(a)) \in SeedsOf(a)
  BY <1>1 DEF SeedsOf
<1>. HIDE DEF seed
<1>5. MaxU64 \in Nat
  BY WalletConstants
<1>6. CASE Change(a) > 0
  <2>1. SeedsFor(a) = << seed(a.to, a.value), seed(a.changeAddress, Change(a)) >>
    BY <1>2, <1>6
  <2>2. SeedsFor(a) \in Seq(SeedsOf(a)) /\ Len(SeedsFor(a)) = 2
    BY <2>1, <1>4
  <2>3. Gifts(SeedsFor(a)) = a.value + Change(a)
    BY <2>1, <2>2, <1>3 DEF Gifts
  <2>. QED
    BY <2>2, <2>3, <1>1, <1>5
<1>7. CASE ~(Change(a) > 0)
  <2>1. SeedsFor(a) = << seed(a.to, a.value) >>
    BY <1>2, <1>7
  <2>2. SeedsFor(a) \in Seq(SeedsOf(a)) /\ Len(SeedsFor(a)) = 1
    BY <2>1, <1>4
  <2>3. Gifts(SeedsFor(a)) = a.value + 0 /\ Change(a) = 0
    BY <2>1, <2>2, <1>1, <1>3, <1>5, <1>7 DEF Gifts
  <2>. QED
    BY <2>2, <2>3, <1>1, <1>5
<1>. QED
  BY <1>6, <1>7

\* The transaction comes out of the surrogate as it went in (surrogate.rs, on
\* what authorize_and_sign builds).
LEMMA RawTxSurvives ==
  ASSUME NEW a \in Ready, NEW h
  PROVE  LET t == SurrogateFromRawTx(RawTxFor(a, h))
         IN  SurrogateDecodes(t) /\ RawTxFromSurrogate(t) = RawTxFor(a, h)
<1> DEFINE raw == RawTxFor(a, h)
           key == ChainPkh(Payer)
           condition == BuildInputCondition(key, a.notes[1].lock)
           signature == Signature(Payer, h)
           roots == {SimplePkh(pkh) : pkh \in Pkhs}
           Hashes == {a.notes[1].name, key, raw.id} \cup roots
           Nouns == {condition}
           Keys == {Payer}
           Signatures == {signature}
           entry == [hash |-> key, pubkey |-> Payer, signature |-> signature]
           witness == [lockMerkleProof |-> condition, pkhSignature |-> << entry >>,
                       hax |-> << >>, tim |-> 0]
           spend == [witness |-> witness, seeds |-> SeedsFor(a), fee |-> a.fee]
           one == [name |-> a.notes[1].name, kind |-> "witness", spend |-> spend]
<1>1. MaxU64 \in Nat /\ a.fee \in 0 .. MaxU64
  BY ReadyMeans, WalletConstants
<1>2. SeedsFor(a) \in Seq(SeedsOver(Hashes, Nouns))
  <2>1. SeedsFor(a) \in Seq(SeedsOf(a))
    BY SeedsAre
  <2>2. ASSUME NEW pkh \in Pkhs, NEW g \in 0 .. MaxU64
        PROVE  SeedTo(pkh, g, a.notes[1].name) \in SeedsOver(Hashes, Nouns)
    <3>1. SimplePkh(pkh) \in Hashes /\ a.notes[1].name \in Hashes
      OBVIOUS
    <3>. HIDE DEF Hashes, Nouns
    <3>. QED
      BY <3>1 DEF SeedTo, SeedsOver, None
  <2>3. SeedsOf(a) \subseteq SeedsOver(Hashes, Nouns)
    BY <2>2 DEF SeedsOf
  <2>. HIDE DEF Hashes, Nouns
  <2>. QED
    BY <2>1, <2>3
<1>3. witness \in WitnessesOver(Hashes, Keys, Signatures, Nouns)
  <2>1. key \in Hashes /\ condition \in Nouns /\ Payer \in Keys /\ signature \in Signatures
    OBVIOUS
  <2>. HIDE DEF key, condition, signature, Hashes, Nouns, Keys, Signatures
  <2>2. entry \in [hash : Hashes, pubkey : Keys, signature : Signatures]
    BY <2>1
  <2>. HIDE DEF entry
  <2>. QED
    BY <1>1, <2>1, <2>2 DEF WitnessesOver
<1>4. /\ raw.version = "V1" /\ raw.id \in Hashes /\ raw.spends = << one >>
      /\ raw = [version |-> "V1", id |-> raw.id, spends |-> << one >>]
  BY DEF RawTxFor, SpendsFor
<1>5. a.notes[1].name \in Hashes
  OBVIOUS
<1>. HIDE DEF raw, key, condition, signature, roots, Hashes, Nouns, Keys, Signatures, witness
<1> DEFINE Spends == [witness : WitnessesOver(Hashes, Keys, Signatures, Nouns),
                      seeds : Seq(SeedsOver(Hashes, Nouns)), fee : 0 .. MaxU64]
           Entries == [name : Hashes, kind : {"witness"}, spend : Spends]
<1>6. spend \in Spends
  BY <1>1, <1>2, <1>3
<1>. HIDE DEF spend
<1>7. one \in Entries
  BY <1>5, <1>6
<1>8. raw \in RawTxsOver(Hashes, Keys, Signatures, Nouns)
  <2>1. RawTxsOver(Hashes, Keys, Signatures, Nouns)
          = [version : {"V1"}, id : Hashes, spends : Seq(Entries)]
    BY DEF RawTxsOver
  <2>. HIDE DEF one, Spends, Entries
  <2>2. << one >> \in Seq(Entries)
    BY <1>7
  <2>. QED
    BY <1>4, <2>1, <2>2
<1>9. SurrogateDecodes(SurrogateFromRawTx(raw)) /\ RawTxFromSurrogate(SurrogateFromRawTx(raw)) = raw
  BY <1>8, SurrogateRoundTrip
<1>. QED
  BY <1>9 DEF raw

\* The condition the witness presents is the note's, if the payer's key opens
\* it and the lock was told as it is (build_input_condition).
LEMMA ConditionIs ==
  ASSUME NEW n \in NotesUnder(Conditions), n.condition[1] = ChainPkh(Payer)
  PROVE  BuildInputCondition(ChainPkh(Payer), LockOf(n)) = n.condition
<1>1. n.condition \in Conditions
  BY DEF NotesUnder
<1>2. CASE \E h \in Pkhs : n.condition = SimplePkh(h)
  BY <1>2 DEF SimplePkh, LockOf, SimpleLock, BuildInputCondition
<1>3. CASE \E h \in Pkhs, t \in Timelocks : n.condition = CoinbasePkh(h, t)
  <2>1. PICK h \in Pkhs, t \in Timelocks : n.condition = << h, t >>
    BY <1>3 DEF CoinbasePkh
  <2>2. Len(n.condition) = 2 /\ n.condition[2] = t /\ h = ChainPkh(Payer)
    BY <2>1
  <2>3. LockOf(n) = CoinbaseLock(t)
    BY <2>2 DEF LockOf
  <2>4. CoinbaseLock(t).kind # "simple-pkh" /\ CoinbaseLock(t).timelockMin = t
    BY DEF CoinbaseLock
  <2>. QED
    BY <2>1, <2>2, <2>3, <2>4 DEF BuildInputCondition, CoinbasePkh
<1>. QED
  BY <1>1, <1>2, <1>3 DEF Conditions

\* Consensus takes what was built for a note that is as it was told
\* (authorize_and_sign against the chain).
LEMMA ReadyIsAcceptable ==
  ASSUME NEW a \in Ready, NEW n \in NotesUnder(Conditions),
         RefTo(n) = a.notes[1], n.condition[1] = ChainPkh(Payer)
  PROVE  AcceptableOnChain(RawTxFor(a, HashOf(a)), n)
<1> DEFINE raw == RawTxFor(a, HashOf(a))
           condition == BuildInputCondition(ChainPkh(Payer), a.notes[1].lock)
           entry == [hash |-> ChainPkh(Payer), pubkey |-> Payer,
                     signature |-> Signature(Payer, HashOf(a))]
<1>1. a.notes[1].name = n.name /\ a.notes[1].assets = n.assets /\ a.notes[1].lock = LockOf(n)
  BY DEF RefTo
<1>2. condition = n.condition
  BY <1>1, ConditionIs
<1>3. Gifts(SeedsFor(a)) + a.fee = n.assets
  BY <1>1, SeedsAre
<1>. HIDE DEF condition
<1>4. /\ raw.spends[1].name = a.notes[1].name
      /\ raw.spends[1].spend.witness.lockMerkleProof = condition
      /\ raw.spends[1].spend.witness.pkhSignature[1] = entry
      /\ raw.spends[1].spend.seeds = SeedsFor(a)
      /\ raw.spends[1].spend.fee = a.fee
  BY DEF RawTxFor, SpendsFor, condition
<1>. HIDE DEF raw
<1>5. /\ entry.hash = ChainPkh(Payer) /\ entry.pubkey = Payer
      /\ entry.signature = Signature(Payer, HashOf(a))
  OBVIOUS
<1>. HIDE DEF entry
<1>6. AcceptableOnChain(raw, n)
  BY <1>1, <1>2, <1>3, <1>4, <1>5 DEF AcceptableOnChain, HashOf
<1>. QED
  BY <1>6 DEF raw

\* /settle finds the envelope of such a payload in order (NockchainVerifier,
\* raw_tx_from_surrogate).
LEMMA ReadyVerifies ==
  ASSUME NEW a \in Ready, NEW x, x = PayloadFor(a, HashOf(a))
  PROVE  /\ EnvelopeVerifies(x) /\ SurrogateDecodes(x.signedRawTx)
         /\ RawTxFromSurrogate(x.signedRawTx) = RawTxFor(a, HashOf(a))
         /\ x.authorization = a
<1>1. /\ x.signature = Signature(Payer, EnvelopeDigest(a)) /\ x.authorization = a
      /\ x.signedRawTx = SurrogateFromRawTx(RawTxFor(a, HashOf(a)))
  BY DEF PayloadFor
<1>2. a.from = EnvelopePkh(Payer)
  BY ReadyMeans
<1>3. EnvelopeVerifies(x)
  BY <1>1, <1>2 DEF EnvelopeVerifies, Signature
<1>. QED
  BY <1>1, <1>3, RawTxSurvives

\* What a caller says of a note it read from the chain is a reference to one.
LEMMA RefsAre ==
  ASSUME NEW n \in NotesUnder(Conditions)
  PROVE  RefTo(n) \in NoteRefs /\ UnlabelledRef(n) \in NoteRefs
<1>1. n.name \in 1 .. MaxNote /\ n.assets \in 0 .. MaxU64 /\ n.condition \in Conditions
  BY DEF NotesUnder
<1>2. LockOf(n) \in {SimpleLock} \cup {CoinbaseLock(t) : t \in Timelocks}
  <2>1. CASE \E h \in Pkhs : n.condition = << h >>
    BY <2>1 DEF LockOf
  <2>2. CASE \E h \in Pkhs, t \in Timelocks : n.condition = << h, t >>
    <3>1. PICK h \in Pkhs, t \in Timelocks : n.condition = << h, t >>
      BY <2>2
    <3>2. Len(n.condition) = 2 /\ n.condition[2] = t
      BY <3>1
    <3>. QED
      BY <3>2 DEF LockOf
  <2>. QED
    BY <1>1, <2>1, <2>2 DEF Conditions, SimplePkh, CoinbasePkh
<1>. QED
  BY <1>1, <1>2 DEF NoteRefs, RefTo, UnlabelledRef

\* An authorization that passes the checks is about one note that a caller
\* could read (build_exact_nockchain_payload_with_wallet).
LEMMA BuiltIsReady ==
  ASSUME ChainInv, NEW p \in Payments, NEW req \in Requirements,
         NEW notes \in NoteLists(minted), NEW from \in Pkhs,
         NEW change \in Pkhs, change.key = Payer,
         NEW a, a = AuthorizationFor(p, req, notes, from, change),
         AuthorizeVerdict(a) = "ok"
  PROVE  a \in Ready
<1>1. a = [from |-> from, to |-> req.payTo, value |-> req.maxAmount, fee |-> req.minFee,
           nonce |-> p, notes |-> notes, changeAddress |-> change]
  BY DEF AuthorizationFor
<1>2. a.notes = notes
  BY <1>1
<1>3. Len(notes) = 1
  BY <1>2 DEF AuthorizeVerdict
<1>4. notes \in Seq(NoteRefs)
  <2>1. CASE \E n \in minted : notes = << RefTo(n) >> \/ notes = << UnlabelledRef(n) >>
    <3>1. PICK n \in minted : notes = << RefTo(n) >> \/ notes = << UnlabelledRef(n) >>
      BY <2>1
    <3>2. RefTo(n) \in NoteRefs /\ UnlabelledRef(n) \in NoteRefs
      BY RefsAre DEF ChainInv
    <3>3. PICK r \in NoteRefs : notes = << r >>
      BY <3>1, <3>2
    <3>. QED
      BY <3>3
  <2>2. CASE \E k \in {0, 2} : notes = [i \in 1 .. k |-> RefTo(CHOOSE n \in minted : TRUE)]
    <3>1. PICK k \in {0, 2} : notes = [i \in 1 .. k |-> RefTo(CHOOSE n \in minted : TRUE)]
      BY <2>2
    <3>2. DOMAIN notes = 1 .. k
      BY <3>1
    <3>3. Len(notes) = k
      BY <3>1
    <3>. QED
      BY <3>3, <1>3
  <2>. QED
    BY <2>1, <2>2 DEF NoteLists
<1>5. req.payTo \in Pkhs \cup {Garbled} /\ req.maxAmount \in Int /\ req.minFee \in Int
  BY WalletConstants
<1>6. a \in Authorizations
  BY <1>1, <1>4, <1>5 DEF Authorizations
<1>7. Asked(a)
  BY <1>1 DEF Asked
<1>. QED
  BY <1>6, <1>7 DEF Ready

-----------------------------------------------------------------------------
(***************************************************************************)
(* The steps.                                                              *)
(***************************************************************************)
\* The initial states.
LEMMA InitIInv == Init => IInv
<1>. SUFFICES ASSUME Init PROVE IInv
  OBVIOUS
<1>1. nextName \in Nat \ {0}
  <2>1. Cardinality(Genesis) \in Nat
    BY FS_CardinalityType, WalletConstants
  <2>. QED
    BY <2>1 DEF Init
<1>2. ChainInv
  BY <1>1, WalletConstants DEF Init, ChainInv
<1>3. \A p \in Payments : CallInv(p)
  BY DEF Init, CallInv, InKernel
<1>. QED
  BY <1>2, <1>3 DEF Init, IInv, Stages

\* A step of one call that leaves the chain alone.
LEMMA OneMoves ==
  ASSUME IInv, NEW p \in Payments, UNCHANGED chainVars,
         stage' \in [Payments -> Stages],
         DOMAIN auth' = Payments, DOMAIN sigHash' = Payments, DOMAIN payload' = Payments,
         \A d \in Payments \ {p} :
           /\ stage'[d] = stage[d] /\ auth'[d] = auth[d]
           /\ sigHash'[d] = sigHash[d] /\ payload'[d] = payload[d],
         CallInv(p)'
  PROVE  IInv'
<1>1. ChainInv'
  BY DEF IInv, ChainInv, chainVars
<1>2. ASSUME NEW d \in Payments, d # p
      PROVE  CallInv(d)'
  BY <1>2 DEF IInv, CallInv
<1>. QED
  BY <1>1, <1>2 DEF IInv

\* authorize_and_sign is called with what a builder, or the caller, wrote.
LEMMA AuthorizeAndSignStep ==
  ASSUME IInv, NEW p \in Payments, NEW a, AuthorizeAndSign(p, a),
         AuthorizeVerdict(a) = "ok" => a \in Ready
  PROVE  IInv'
<1>1. PICK s, b :
        /\ stage' = [stage EXCEPT ![p] = s] /\ auth' = [auth EXCEPT ![p] = b]
        /\ \/ s \in {"other", "unsupported", "insufficient_funds"}
           \/ s = "sig-hash" /\ b \in Ready
  <2>1. AuthorizeVerdict(a) \in {"ok", "other", "unsupported", "insufficient_funds"}
    BY DEF AuthorizeVerdict
  <2>2. CASE AuthorizeVerdict(a) = "ok"
    BY <2>2 DEF AuthorizeAndSign
  <2>3. CASE AuthorizeVerdict(a) # "ok"
    BY <2>1, <2>3 DEF AuthorizeAndSign
  <2>. QED
    BY <2>2, <2>3
<1>2. /\ UNCHANGED chainVars /\ sigHash' = sigHash /\ payload' = payload
      /\ stage[p] = "idle"
  BY DEF AuthorizeAndSign
<1>3. /\ stage \in [Payments -> Stages] /\ DOMAIN auth = Payments
      /\ s \in Stages \ {"refused", "tx-id"}
      /\ s \in InKernel => b \in Ready
  BY <1>1 DEF IInv, Stages, InKernel, Errors
<1>4. stage'[p] = s /\ auth'[p] = b
  BY <1>1, <1>3
<1>5. CallInv(p)'
  BY <1>2, <1>3, <1>4 DEF IInv, CallInv
<1>6. \A d \in Payments \ {p} : stage'[d] = stage[d] /\ auth'[d] = auth[d]
  BY <1>1, <1>3
<1>7. stage' \in [Payments -> Stages] /\ DOMAIN auth' = Payments
  BY <1>1, <1>3
<1>. QED
  BY <1>2, <1>5, <1>6, <1>7, OneMoves DEF IInv

\* A call ends with no payload built in this step.
LEMMA EndStep ==
  ASSUME IInv, NEW p \in Payments, NEW how \in {"other", "dropped"}, End(p, how),
         UNCHANGED <<payload, chainVars>>
  PROVE  IInv'
<1>1. /\ stage \in [Payments -> Stages] /\ DOMAIN auth = Payments
      /\ DOMAIN sigHash = Payments /\ how \in Stages /\ how \notin InKernel \cup {"refused"}
  BY DEF IInv, Stages, InKernel, Errors
<1>2. /\ stage' = [stage EXCEPT ![p] = how] /\ auth' = [auth EXCEPT ![p] = NoAuth]
      /\ sigHash' = [sigHash EXCEPT ![p] = NoHash]
  BY DEF End
<1>3. stage'[p] = how
  BY <1>1, <1>2
<1>4. CallInv(p)'
  BY <1>1, <1>3 DEF IInv, CallInv, InKernel
<1>5. \A d \in Payments \ {p} :
        stage'[d] = stage[d] /\ auth'[d] = auth[d] /\ sigHash'[d] = sigHash[d]
  BY <1>1, <1>2
<1>6. /\ stage' \in [Payments -> Stages] /\ DOMAIN auth' = Payments
      /\ DOMAIN sigHash' = Payments
  BY <1>1, <1>2
<1>. QED
  BY <1>4, <1>5, <1>6, OneMoves DEF IInv

\* The %sig-hash poke: the hash is that of the call's own outputs.
LEMMA SigHashPokeStep ==
  ASSUME IInv, NEW p \in Payments, SigHashPoke(p)
  PROVE  IInv'
<1>1. CASE End(p, "other")
  BY <1>1, EndStep DEF SigHashPoke
<1>2. CASE /\ stage' = [stage EXCEPT ![p] = "tx-id"]
           /\ sigHash' = [sigHash EXCEPT ![p] = SigHash(SeedsFor(auth[p]), auth[p].fee)]
           /\ UNCHANGED auth
  <2>1. UNCHANGED <<payload, chainVars>> /\ stage[p] = "sig-hash"
    BY DEF SigHashPoke
  <2>2. /\ stage \in [Payments -> Stages] /\ DOMAIN sigHash = Payments /\ "tx-id" \in Stages
        /\ auth[p] \in Ready
    BY <2>1 DEF IInv, CallInv, Stages, InKernel
  <2>3. stage'[p] = "tx-id" /\ sigHash'[p] = HashOf(auth[p])
    BY <1>2, <2>2 DEF HashOf
  <2>4. CallInv(p)'
    BY <1>2, <2>1, <2>2, <2>3 DEF IInv, CallInv, HashOf
  <2>5. \A d \in Payments \ {p} : stage'[d] = stage[d] /\ sigHash'[d] = sigHash[d]
    BY <1>2, <2>2
  <2>6. stage' \in [Payments -> Stages] /\ DOMAIN sigHash' = Payments
    BY <1>2, <2>2
  <2>. QED
    BY <1>2, <2>1, <2>4, <2>5, <2>6, OneMoves DEF IInv
<1>. QED
  BY <1>1, <1>2 DEF SigHashPoke

\* The %tx-id poke: the payload is made of the call's authorization and of the
\* hash that was made for it.
LEMMA TxIdPokeStep ==
  ASSUME IInv, NEW p \in Payments, TxIdPoke(p)
  PROVE  IInv'
<1>1. CASE End(p, "other") /\ UNCHANGED payload
  BY <1>1, EndStep DEF TxIdPoke
<1>2. CASE /\ End(p, "signed")
           /\ payload' = [payload EXCEPT ![p] = {PayloadFor(auth[p], sigHash[p])}]
  <2>1. UNCHANGED chainVars /\ stage[p] = "tx-id"
    BY DEF TxIdPoke
  <2>2. /\ stage \in [Payments -> Stages] /\ DOMAIN auth = Payments
        /\ DOMAIN sigHash = Payments /\ DOMAIN payload = Payments
        /\ "signed" \in Stages /\ "signed" \notin InKernel
    BY DEF IInv, Stages, InKernel
  <2>3. auth[p] \in Ready /\ sigHash[p] = HashOf(auth[p])
    BY <2>1 DEF IInv, CallInv, InKernel
  <2>4. /\ stage' = [stage EXCEPT ![p] = "signed"] /\ auth' = [auth EXCEPT ![p] = NoAuth]
        /\ sigHash' = [sigHash EXCEPT ![p] = NoHash]
    BY <1>2 DEF End
  <2>5. stage'[p] = "signed" /\ payload'[p] = {PayloadFor(auth[p], HashOf(auth[p]))}
    BY <1>2, <2>2, <2>3, <2>4
  <2>6. CallInv(p)'
    <3>1. \A x \in payload'[p] : \E a \in Ready : x = PayloadFor(a, HashOf(a))
      BY <2>3, <2>5
    <3>. QED
      BY <2>2, <2>5, <3>1 DEF CallInv, InKernel
  <2>7. \A d \in Payments \ {p} :
          /\ stage'[d] = stage[d] /\ auth'[d] = auth[d]
          /\ sigHash'[d] = sigHash[d] /\ payload'[d] = payload[d]
    BY <1>2, <2>2, <2>4
  <2>8. /\ stage' \in [Payments -> Stages] /\ DOMAIN auth' = Payments
        /\ DOMAIN sigHash' = Payments /\ DOMAIN payload' = Payments
    BY <1>2, <2>2, <2>4
  <2>. QED
    BY <2>1, <2>6, <2>7, <2>8, OneMoves
<1>. QED
  BY <1>1, <1>2 DEF TxIdPoke

\* /settle never refuses such a payload.
LEMMA SettleStep ==
  ASSUME IInv, NEW p \in Payments, Settle(p)
  PROVE  IInv'
<1>1. PICK x \in payload[p] :
        /\ stage' = [stage EXCEPT ![p] = "sent"]
           \/ ~(EnvelopeVerifies(x) /\ SurrogateDecodes(x.signedRawTx))
        /\ UNCHANGED <<auth, sigHash, payload, ledger, minted, nextName>>
  BY DEF Settle
<1>2. PICK a \in Ready : x = PayloadFor(a, HashOf(a))
  BY DEF IInv, CallInv
<1>3. stage' = [stage EXCEPT ![p] = "sent"]
  BY <1>1, <1>2, ReadyVerifies
<1>4. stage \in [Payments -> Stages] /\ "sent" \in Stages /\ "sent" \notin InKernel
  BY DEF IInv, Stages, InKernel
<1>5. ASSUME NEW d \in Payments
      PROVE  CallInv(d)'
  <2>1. stage'[d] = stage[d] \/ stage'[d] = "sent"
    BY <1>3, <1>4
  <2>. QED
    BY <1>1, <1>4, <2>1 DEF IInv, CallInv, InKernel
<1>. QED
  BY <1>1, <1>3, <1>4, <1>5 DEF IInv, ChainInv

\* The outputs of a transaction of this wallet are notes under conditions of
\* the kinds there were.
LEMMA IncludeStep ==
  ASSUME IInv, NEW p \in Payments, Include(p)
  PROVE  IInv'
<1>1. PICK raw \in mempool, n \in ledger, x \in payload[p] :
        LET seeds == raw.spends[1].spend.seeds
        IN  /\ raw = RawTxFromSurrogate(x.signedRawTx)
            /\ nextName + (Len(seeds) - 1) <= MaxNote
            /\ ledger' = (ledger \ {n}) \cup Outputs(seeds)
            /\ minted' = minted \cup Outputs(seeds)
            /\ nextName' = nextName + Len(seeds)
            /\ UNCHANGED callVars
  BY DEF Include
<1>2. PICK a \in Ready : x = PayloadFor(a, HashOf(a))
  BY DEF IInv, CallInv
<1>3. raw.spends[1].spend.seeds = SeedsFor(a)
  <2>1. raw = RawTxFor(a, HashOf(a))
    BY <1>1, <1>2, ReadyVerifies
  <2>. QED
    BY <2>1 DEF RawTxFor, SpendsFor
<1>4. /\ SeedsFor(a) \in Seq(SeedsOf(a)) /\ Len(SeedsFor(a)) \in 1 .. 2
      /\ nextName + (Len(SeedsFor(a)) - 1) <= MaxNote
      /\ nextName \in Nat \ {0} /\ MaxNote \in Nat
  BY <1>1, <1>3, SeedsAre, WalletConstants DEF IInv, ChainInv
<1>5. Outputs(SeedsFor(a)) \subseteq NotesUnder(Conditions)
  <2>. SUFFICES ASSUME NEW i \in DOMAIN SeedsFor(a)
                PROVE  [name |-> nextName + (i - 1), assets |-> SeedsFor(a)[i].gift,
                        condition |-> SeedsFor(a)[i].lockRoot] \in NotesUnder(Conditions)
    BY DEF Outputs
  <2>1. nextName + (i - 1) \in 1 .. MaxNote
    BY <1>4
  <2>2. SeedsFor(a)[i] \in SeedsOf(a)
    BY <1>4
  <2>3. SeedsFor(a)[i].gift \in 0 .. MaxU64 /\ SeedsFor(a)[i].lockRoot \in Conditions
    BY <2>2 DEF SeedsOf, SeedTo, Conditions
  <2>. QED
    BY <2>1, <2>3 DEF NotesUnder
<1>6. ChainInv'
  BY <1>1, <1>3, <1>4, <1>5 DEF IInv, ChainInv
<1>. QED
  BY <1>1, <1>6 DEF IInv, CallInv, callVars

\* Every step of Next, and every step that changes nothing.
LEMMA NextIInv == IInv /\ [Next]_vars => IInv'
<1>. SUFFICES ASSUME IInv, [Next]_vars PROVE IInv'
  OBVIOUS
<1> DEFINE Own == {EnvelopePkh(Payer), ChainPkh(Payer)}
<1>1. Own \subseteq Pkhs /\ \A h \in Own : h.key = Payer
  BY SMTT(30) DEF Pkhs, EnvelopePkh, ChainPkh
<1>2. ASSUME NEW p \in Payments, BuildWithWallet(p) \/ BuildByHand(p)
      PROVE  IInv'
  <2>1. PICK req \in Requirements, notes \in NoteLists(minted),
             from \in Own, change \in Own :
          AuthorizeAndSign(p, AuthorizationFor(p, req, notes, from, change))
    BY <1>2 DEF BuildWithWallet, BuildByHand
  <2>. HIDE DEF Own
  <2>. PICK a : a = AuthorizationFor(p, req, notes, from, change)
    OBVIOUS
  <2>2. AuthorizeVerdict(a) = "ok" => a \in Ready
    BY <1>1, BuiltIsReady DEF IInv
  <2>. QED
    BY <2>1, <2>2, AuthorizeAndSignStep
<1>3. ASSUME NEW p \in Payments, Cancel(p)
      PROVE  IInv'
  BY <1>3, EndStep DEF Cancel
<1>4. CASE UNCHANGED vars \/ \E raw \in mempool : Forget(raw)
  BY <1>4 DEF IInv, ChainInv, CallInv, vars, callVars, chainVars, Forget
<1>. QED
  BY <1>2, <1>3, <1>4, SigHashPokeStep, TxIdPokeStep, SettleStep, IncludeStep
     DEF Next, Step

\* The invariant holds in every state of every behaviour.
THEOREM WalletInvariant == Spec => []IInv
<1>1. Init => IInv
  BY InitIInv
<1>2. IInv /\ [Next]_vars => IInv'
  BY NextIInv
<1>. QED
  BY <1>1, <1>2, PTL DEF Spec

\* What the wallet signs for a note told as it is, /settle takes and the chain
\* accepts for as long as the note is there (authorize_and_sign,
\* build_input_condition and the surrogate, against consensus).
THEOREM SignedIsGood == Spec => []SignedIsAcceptable
<1>1. IInv => SignedIsAcceptable
  <2>. SUFFICES ASSUME IInv, NEW p \in Payments, NEW x \in payload[p]
                PROVE  /\ stage[p] # "refused"
                       /\ \A n \in ledger :
                            RefTo(n) = x.authorization.notes[1]
                              /\ n.condition[1] = ChainPkh(Payer) =>
                              AcceptableOnChain(RawTxFromSurrogate(x.signedRawTx), n)
    BY DEF SignedIsAcceptable
  <2>1. PICK a \in Ready : x = PayloadFor(a, HashOf(a))
    BY DEF IInv, CallInv
  <2>2. x.authorization = a /\ RawTxFromSurrogate(x.signedRawTx) = RawTxFor(a, HashOf(a))
    BY <2>1, ReadyVerifies
  <2>3. ledger \subseteq NotesUnder(Conditions)
    BY DEF IInv, ChainInv
  <2>. QED
    BY <2>2, <2>3, ReadyIsAcceptable DEF IInv, CallInv
<1>. QED
  BY <1>1, WalletInvariant, PTL

-----------------------------------------------------------------------------
(***************************************************************************)
(* The kernel's mutex, and the types.                                      *)
(***************************************************************************)
Distinct(q) == \A i, j \in 1 .. Len(q) : q[i] = q[j] => i = j

In(d, q) == \E i \in 1 .. Len(q) : q[i] = d

Finished == {"signed", "sent", "refused"}

QueueInv ==
  /\ queue \in Seq(Payments)
  /\ Distinct(queue)
  /\ \A p \in Payments : In(p, queue) <=> stage[p] \in InKernel

LocalsInv(p) ==
  /\ stage[p] \notin InKernel => auth[p] = NoAuth
  /\ stage[p] # "tx-id" => sigHash[p] = NoHash
  /\ stage[p] \in Finished => \E x : payload[p] = {x}
  /\ stage[p] \notin Finished => payload[p] = {}

TypeInv ==
  /\ QueueInv
  /\ \A p \in Payments : LocalsInv(p)
  /\ paid \subseteq Payments

\* One more waits.
LEMMA Joined ==
  ASSUME NEW q \in Seq(Payments), Distinct(q), NEW p \in Payments, ~In(p, q),
         NEW r, r = Append(q, p)
  PROVE  /\ r \in Seq(Payments) /\ Distinct(r)
         /\ \A d \in Payments : In(d, r) <=> In(d, q) \/ d = p
<1>1. /\ r \in Seq(Payments) /\ Len(q) \in Nat /\ Len(r) = Len(q) + 1
      /\ r[Len(q) + 1] = p
      /\ \A i \in 1 .. Len(q) : r[i] = q[i]
  BY AppendProperties
<1>2. \A i \in 1 .. Len(r) : i \in 1 .. Len(q) \/ i = Len(q) + 1
  BY <1>1
<1>3. Distinct(r)
  BY <1>1, <1>2 DEF Distinct, In
<1>4. \A d \in Payments : In(d, r) <=> In(d, q) \/ d = p
  BY <1>1, <1>2 DEF In
<1>. QED
  BY <1>1, <1>3, <1>4

\* r is q without what stood at place k.
Without(r, q, k) ==
  /\ Len(r) = Len(q) - 1
  /\ \A i \in 1 .. Len(r) : r[i] = IF i < k THEN q[i] ELSE q[i + 1]

\* Who stood at place k is gone, and the others moved up.
LEMMA MovedUp ==
  ASSUME NEW q \in Seq(Payments), Distinct(q), NEW k \in 1 .. Len(q),
         NEW r \in Seq(Payments), Without(r, q, k)
  PROVE  /\ Distinct(r)
         /\ \A d \in Payments : In(d, r) <=> In(d, q) /\ d # q[k]
<1>. USE DEF Without
<1>. PICK n \in Nat : n = Len(q)
  OBVIOUS
<1>1. k \in 1 .. n /\ Len(r) = n - 1
  OBVIOUS
<1>2. \A i, j \in 1 .. n : q[i] = q[j] => i = j
  BY DEF Distinct
<1>3. \A i \in 1 .. n - 1 : r[i] = IF i < k THEN q[i] ELSE q[i + 1]
  BY <1>1
<1>4. Distinct(r)
  <2>. SUFFICES ASSUME NEW i \in 1 .. n - 1, NEW j \in 1 .. n - 1, r[i] = r[j]
                PROVE  i = j
    BY <1>1 DEF Distinct
  <2>1. i \in 1 .. n /\ i + 1 \in 1 .. n /\ j \in 1 .. n /\ j + 1 \in 1 .. n
    OBVIOUS
  <2>2. CASE i < k /\ j < k
    BY <1>2, <1>3, <2>1, <2>2
  <2>3. CASE i < k /\ ~(j < k)
    BY <1>2, <1>3, <2>1, <2>3
  <2>4. CASE ~(i < k) /\ j < k
    BY <1>2, <1>3, <2>1, <2>4
  <2>5. CASE ~(i < k) /\ ~(j < k)
    <3>1. i + 1 = j + 1
      BY <1>2, <1>3, <2>1, <2>5
    <3>. QED
      BY <3>1
  <2>. QED
    BY <2>2, <2>3, <2>4, <2>5
<1>5. ASSUME NEW d \in Payments, NEW i \in 1 .. n - 1, r[i] = d
      PROVE  In(d, q) /\ d # q[k]
  <2>1. i \in 1 .. n /\ i + 1 \in 1 .. n
    OBVIOUS
  <2>2. CASE i < k
    BY <1>1, <1>2, <1>3, <1>5, <2>1, <2>2 DEF In
  <2>3. CASE ~(i < k)
    <3>1. d = q[i + 1] /\ i + 1 # k
      BY <1>3, <1>5, <2>3
    <3>. QED
      BY <1>1, <1>2, <2>1, <3>1 DEF In
  <2>. QED
    BY <2>2, <2>3
<1>6. ASSUME NEW d \in Payments, NEW j \in 1 .. n, q[j] = d, d # q[k]
      PROVE  In(d, r)
  <2>1. j # k
    BY <1>6
  <2>2. CASE j < k
    <3>1. j \in 1 .. n - 1
      BY <1>1, <2>2
    <3>. QED
      BY <1>1, <1>3, <1>6, <2>2, <3>1 DEF In
  <2>3. CASE j > k
    <3>1. j - 1 \in 1 .. n - 1 /\ ~(j - 1 < k) /\ (j - 1) + 1 = j
      BY <1>1, <2>3
    <3>2. r[j - 1] = d
      BY <1>3, <1>6, <3>1
    <3>. QED
      BY <1>1, <3>1, <3>2 DEF In
  <2>. QED
    BY <1>1, <2>1, <2>2, <2>3
<1>7. ASSUME NEW d \in Payments
      PROVE  In(d, r) <=> In(d, q) /\ d # q[k]
  BY <1>1, <1>5, <1>6 DEF In
<1>. QED
  BY <1>4, <1>7

\* Place k is taken out of the queue.
LEMMA Removed ==
  ASSUME NEW q \in Seq(Payments), Distinct(q), NEW k \in 1 .. Len(q),
         NEW r, r = RemoveAt(q, k)
  PROVE  /\ r \in Seq(Payments) /\ Distinct(r)
         /\ \A d \in Payments : In(d, r) <=> In(d, q) /\ d # q[k]
<1>0. PICK front, back : /\ front = SubSeq(q, 1, k - 1)
                         /\ back = SubSeq(q, k + 1, Len(q))
  OBVIOUS
<1>1. r = front \o back
  BY <1>0 DEF RemoveAt
<1>2. Len(q) \in Nat /\ k \in Int /\ \A i \in 1 .. Len(q) : q[i] \in Payments
  OBVIOUS
<1>3. /\ front \in Seq(Payments) /\ Len(front) = k - 1
      /\ \A i \in 1 .. k - 1 : front[i] = q[i]
  BY <1>0, <1>2, SubSeqProperties
<1>4. /\ back \in Seq(Payments) /\ Len(back) = Len(q) - k
      /\ \A i \in 1 .. Len(q) - k : back[i] = q[k + i]
  BY <1>0, <1>2, SubSeqProperties
<1>5. /\ front \o back \in Seq(Payments)
      /\ Len(front \o back) = Len(front) + Len(back)
      /\ \A i \in 1 .. Len(front) + Len(back) :
           (front \o back)[i] = IF i <= Len(front) THEN front[i] ELSE back[i - Len(front)]
  BY <1>3, <1>4, ConcatProperties
<1>6. Len(front) + Len(back) = Len(q) - 1
  BY <1>2, <1>3, <1>4
<1>7. r \in Seq(Payments) /\ Len(r) = Len(q) - 1
  BY <1>1, <1>5, <1>6
<1>8. ASSUME NEW i \in 1 .. Len(r)
      PROVE  r[i] = IF i < k THEN q[i] ELSE q[i + 1]
  <2>1. r[i] = IF i <= k - 1 THEN front[i] ELSE back[i - (k - 1)]
    BY <1>1, <1>3, <1>5, <1>6, <1>7
  <2>2. CASE i < k
    BY <1>2, <1>3, <2>1, <2>2
  <2>3. CASE i >= k
    <3>1. i - (k - 1) \in 1 .. Len(q) - k /\ k + (i - (k - 1)) = i + 1
      BY <1>2, <1>7, <2>3
    <3>. QED
      BY <1>2, <1>4, <2>1, <2>3, <3>1
  <2>. QED
    BY <1>2, <2>2, <2>3
<1>9. Without(r, q, k)
  BY <1>7, <1>8 DEF Without
<1>. QED
  BY <1>7, <1>9, MovedUp

\* The head goes to the end.
LEMMA Rotated ==
  ASSUME NEW q \in Seq(Payments), Distinct(q), q # << >>,
         NEW p \in Payments, p = Head(q), NEW r, r = Append(Tail(q), p)
  PROVE  /\ r \in Seq(Payments) /\ Distinct(r)
         /\ \A d \in Payments : In(d, r) <=> In(d, q)
<1>0. PICK t : t = Tail(q)
  OBVIOUS
<1>1. /\ t \in Seq(Payments) /\ Len(t) = Len(q) - 1
      /\ \A i \in 1 .. Len(t) : t[i] = q[i + 1]
      /\ 1 \in 1 .. Len(q) /\ q[1] = p
  BY <1>0, HeadTailProperties
<1>. PICK k \in 1 .. Len(q) : k = 1
  BY <1>1
<1>2. Without(t, q, k)
  BY <1>1 DEF Without
<1>3. Distinct(t) /\ \A d \in Payments : In(d, t) <=> In(d, q) /\ d # q[k]
  BY <1>1, <1>2, MovedUp
<1>4. In(p, q) /\ ~In(p, t)
  BY <1>1, <1>3 DEF In
<1>5. r = Append(t, p)
  BY <1>0
<1>6. /\ r \in Seq(Payments) /\ Distinct(r)
      /\ \A d \in Payments : In(d, r) <=> In(d, t) \/ d = p
  BY <1>1, <1>3, <1>4, <1>5, Joined, Zenon
<1>. QED
  BY <1>1, <1>3, <1>4, <1>6

\* A step of one call p that leaves what is paid alone.
LEMMA OneTyped ==
  ASSUME IInv, TypeInv, NEW p \in Payments, UNCHANGED paid,
         \A d \in Payments \ {p} :
           /\ stage'[d] = stage[d] /\ auth'[d] = auth[d]
           /\ sigHash'[d] = sigHash[d] /\ payload'[d] = payload[d],
         LocalsInv(p)', QueueInv'
  PROVE  TypeInv'
<1>1. ASSUME NEW d \in Payments, d # p
      PROVE  LocalsInv(d)'
  BY <1>1 DEF TypeInv, LocalsInv
<1>. QED
  BY <1>1 DEF TypeInv

\* authorize_and_sign is called.
LEMMA AuthorizeTyped ==
  ASSUME IInv, TypeInv, NEW p \in Payments, NEW a, AuthorizeAndSign(p, a)
  PROVE  TypeInv'
<1>1. /\ stage[p] = "idle" /\ UNCHANGED <<sigHash, payload, chainVars>>
      /\ stage \in [Payments -> Stages] /\ DOMAIN auth = Payments
  BY DEF AuthorizeAndSign, IInv
<1>2. ~In(p, queue) /\ queue \in Seq(Payments) /\ Distinct(queue)
  BY <1>1 DEF TypeInv, QueueInv, InKernel
<1>3. AuthorizeVerdict(a) \in {"ok", "other", "unsupported", "insufficient_funds"}
  BY DEF AuthorizeVerdict
<1>4. PICK s, b :
        /\ stage' = [stage EXCEPT ![p] = s] /\ auth' = [auth EXCEPT ![p] = b]
        /\ \/ s = "sig-hash" /\ queue' = Append(queue, p)
           \/ /\ s \in {"other", "unsupported", "insufficient_funds"}
              /\ b = NoAuth /\ queue' = queue
  <2>1. CASE AuthorizeVerdict(a) = "ok"
    BY <2>1 DEF AuthorizeAndSign
  <2>2. CASE AuthorizeVerdict(a) # "ok"
    BY <1>3, <2>2 DEF AuthorizeAndSign
  <2>. QED
    BY <2>1, <2>2
<1>5. stage'[p] = s /\ auth'[p] = b
  BY <1>1, <1>4
<1>6. \A d \in Payments \ {p} : stage'[d] = stage[d] /\ auth'[d] = auth[d]
  BY <1>1, <1>4
<1>7. LocalsInv(p)'
  BY <1>1, <1>4, <1>5 DEF TypeInv, LocalsInv, InKernel, Finished
<1>8. QueueInv'
  <2>. PICK r : r = queue'
    OBVIOUS
  <2>1. CASE s = "sig-hash" /\ queue' = Append(queue, p)
    <3>1. /\ r \in Seq(Payments) /\ Distinct(r)
          /\ \A d \in Payments : In(d, r) <=> In(d, queue) \/ d = p
      BY <1>2, <2>1, Joined
    <3>. QED
      BY <1>5, <1>6, <2>1, <3>1 DEF TypeInv, QueueInv, InKernel
  <2>2. CASE s \in {"other", "unsupported", "insufficient_funds"} /\ queue' = queue
    BY <1>1, <1>5, <1>6, <2>2 DEF TypeInv, QueueInv, InKernel
  <2>. QED
    BY <1>4, <2>1, <2>2
<1>. QED
  BY <1>1, <1>6, <1>7, <1>8, OneTyped DEF chainVars

\* A call at the kernel ends: its place is another's, and its locals are gone.
LEMMA EndTyped ==
  ASSUME IInv, TypeInv, NEW p \in Payments, stage[p] \in InKernel,
         NEW how \in {"signed", "other", "dropped"}, End(p, how), UNCHANGED paid,
         \A d \in Payments \ {p} : payload'[d] = payload[d],
         IF how = "signed" THEN \E x : payload'[p] = {x} ELSE payload'[p] = payload[p]
  PROVE  TypeInv'
<1>1. /\ stage \in [Payments -> Stages] /\ DOMAIN auth = Payments
      /\ DOMAIN sigHash = Payments
  BY DEF IInv
<1>2. /\ stage' = [stage EXCEPT ![p] = how] /\ auth' = [auth EXCEPT ![p] = NoAuth]
      /\ sigHash' = [sigHash EXCEPT ![p] = NoHash]
      /\ queue' = RemoveAt(queue, Place(p))
  BY DEF End
<1>3. stage'[p] = how /\ auth'[p] = NoAuth /\ sigHash'[p] = NoHash
  BY <1>1, <1>2
<1>4. \A d \in Payments \ {p} :
        stage'[d] = stage[d] /\ auth'[d] = auth[d] /\ sigHash'[d] = sigHash[d]
  BY <1>1, <1>2
<1>5. LocalsInv(p)'
  BY <1>3 DEF TypeInv, LocalsInv, InKernel, Finished
<1>6. QueueInv'
  <2>1. queue \in Seq(Payments) /\ Distinct(queue) /\ In(p, queue)
    BY DEF TypeInv, QueueInv
  <2>. PICK k : k = Place(p)
    OBVIOUS
  <2>2. k \in 1 .. Len(queue) /\ queue[k] = p
    BY <2>1 DEF Place, In
  <2>. PICK r : r = queue'
    OBVIOUS
  <2>3. /\ r \in Seq(Payments) /\ Distinct(r)
        /\ \A d \in Payments : In(d, r) <=> In(d, queue) /\ d # p
    BY <1>2, <2>1, <2>2, Removed
  <2>. QED
    BY <1>3, <1>4, <2>3 DEF TypeInv, QueueInv, InKernel
<1>. QED
  BY <1>4, <1>5, <1>6, OneTyped

\* The %sig-hash poke: a call that goes on is the last of the queue.
LEMMA SigHashPokeTyped ==
  ASSUME IInv, TypeInv, NEW p \in Payments, SigHashPoke(p)
  PROVE  TypeInv'
<1>1. /\ stage[p] = "sig-hash" /\ queue # << >> /\ Head(queue) = p
      /\ UNCHANGED <<payload, chainVars>>
  BY DEF SigHashPoke, Holds
<1>2. CASE End(p, "other")
  BY <1>1, <1>2, EndTyped DEF InKernel, chainVars
<1>3. CASE /\ stage' = [stage EXCEPT ![p] = "tx-id"]
           /\ sigHash' = [sigHash EXCEPT ![p] = SigHash(SeedsFor(auth[p]), auth[p].fee)]
           /\ queue' = Append(Tail(queue), p)
           /\ UNCHANGED auth
  <2>1. stage \in [Payments -> Stages] /\ DOMAIN sigHash = Payments
    BY DEF IInv
  <2>2. stage'[p] = "tx-id"
    BY <1>3, <2>1
  <2>3. \A d \in Payments \ {p} : stage'[d] = stage[d] /\ sigHash'[d] = sigHash[d]
    BY <1>3, <2>1
  <2>4. LocalsInv(p)'
    BY <1>1, <2>2 DEF TypeInv, LocalsInv, InKernel, Finished
  <2>5. QueueInv'
    <3>1. queue \in Seq(Payments) /\ Distinct(queue)
      BY DEF TypeInv, QueueInv
    <3>. PICK r : r = queue'
      OBVIOUS
    <3>2. /\ r \in Seq(Payments) /\ Distinct(r)
          /\ \A d \in Payments : In(d, r) <=> In(d, queue)
      BY <1>1, <1>3, <3>1, Rotated
    <3>. QED
      BY <1>1, <2>2, <2>3, <3>2 DEF TypeInv, QueueInv, InKernel
  <2>. QED
    BY <1>1, <1>3, <2>3, <2>4, <2>5, OneTyped DEF chainVars
<1>. QED
  BY <1>2, <1>3 DEF SigHashPoke

\* The %tx-id poke.
LEMMA TxIdPokeTyped ==
  ASSUME IInv, TypeInv, NEW p \in Payments, TxIdPoke(p)
  PROVE  TypeInv'
<1>1. stage[p] = "tx-id" /\ UNCHANGED chainVars /\ DOMAIN payload = Payments
  BY DEF TxIdPoke, IInv
<1>2. CASE End(p, "other") /\ UNCHANGED payload
  BY <1>1, <1>2, EndTyped DEF InKernel, chainVars
<1>3. CASE /\ End(p, "signed")
           /\ payload' = [payload EXCEPT ![p] = {PayloadFor(auth[p], sigHash[p])}]
  <2>1. /\ \E x : payload'[p] = {x}
        /\ \A d \in Payments \ {p} : payload'[d] = payload[d]
    BY <1>1, <1>3
  <2>. QED
    BY <1>1, <1>3, <2>1, EndTyped DEF InKernel, chainVars
<1>. QED
  BY <1>2, <1>3 DEF TxIdPoke

\* /settle: the payload is there, and no call is at the kernel for it.
LEMMA SettleTyped ==
  ASSUME IInv, TypeInv, NEW p \in Payments, Settle(p)
  PROVE  TypeInv'
<1>1. /\ stage[p] \in {"signed", "sent"}
      /\ \/ stage' = [stage EXCEPT ![p] = "sent"]
         \/ stage' = [stage EXCEPT ![p] = "refused"]
      /\ UNCHANGED <<auth, sigHash, payload, queue, paid>>
  BY DEF Settle
<1>2. stage \in [Payments -> Stages]
  BY DEF IInv
<1>3. /\ stage'[p] \in {"sent", "refused"}
      /\ \A d \in Payments \ {p} : stage'[d] = stage[d]
  BY <1>1, <1>2
<1>4. LocalsInv(p)'
  BY <1>1, <1>3 DEF TypeInv, LocalsInv, InKernel, Finished
<1>5. QueueInv'
  BY <1>1, <1>3 DEF TypeInv, QueueInv, InKernel
<1>. QED
  BY <1>1, <1>3, <1>4, <1>5, OneTyped

\* Every step keeps the queue and the locals in order.
LEMMA NextTypeInv == IInv /\ TypeInv /\ [Next]_vars => TypeInv'
<1>. SUFFICES ASSUME IInv, TypeInv, [Next]_vars PROVE TypeInv'
  OBVIOUS
<1>1. ASSUME NEW p \in Payments, BuildWithWallet(p) \/ BuildByHand(p)
      PROVE  TypeInv'
  <2>1. PICK a : AuthorizeAndSign(p, a)
    BY <1>1 DEF BuildWithWallet, BuildByHand
  <2>. QED
    BY <2>1, AuthorizeTyped
<1>2. ASSUME NEW p \in Payments, Cancel(p)
      PROVE  TypeInv'
  BY <1>2, EndTyped DEF Cancel, chainVars
<1>3. ASSUME NEW p \in Payments, Include(p)
      PROVE  TypeInv'
  <2>1. UNCHANGED callVars /\ paid' = paid \cup {p}
    BY <1>3 DEF Include
  <2>. QED
    BY <2>1 DEF TypeInv, QueueInv, LocalsInv, callVars
<1>4. ASSUME UNCHANGED vars \/ \E raw \in mempool : Forget(raw)
      PROVE  TypeInv'
  BY <1>4 DEF TypeInv, QueueInv, LocalsInv, vars, callVars, chainVars, Forget
<1>. QED
  BY <1>1, <1>2, <1>3, <1>4, SigHashPokeTyped, TxIdPokeTyped, SettleTyped DEF Next, Step

\* The queue and the locals are in order when nothing has been called.
LEMMA InitTypeInv == Init => TypeInv
<1>. SUFFICES ASSUME Init PROVE TypeInv
  OBVIOUS
<1>1. QueueInv
  BY DEF Init, QueueInv, Distinct, In, InKernel
<1>2. \A p \in Payments : LocalsInv(p)
  BY DEF Init, LocalsInv, InKernel, Finished
<1>. QED
  BY <1>1, <1>2 DEF Init, TypeInv

\* The queue and the locals are in order in every state of every behaviour.
LEMMA QueueInOrder == Spec => []TypeInv
<1>1. IInv /\ TypeInv /\ [Next]_vars => TypeInv'
  BY NextTypeInv
<1>. QED
  BY <1>1, InitTypeInv, WalletInvariant, PTL DEF Spec

\* The hash of a checked authorization is one.
LEMMA HashOfType ==
  ASSUME NEW a \in Ready
  PROVE  HashOf(a) \in SigHashes
<1>1. /\ SeedsFor(a) \in Seq(SeedsOf(a)) /\ a.fee \in 0 .. MaxU64
      /\ a.notes[1].name \in 1 .. MaxNote
  BY SeedsAre, ReadyMeans DEF NoteRefs
<1>2. SeedsOf(a) \subseteq Seeds
  BY <1>1 DEF SeedsOf, Seeds
<1>3. SeedsFor(a) \in Seq(Seeds)
  BY <1>1, <1>2
<1>. QED
  BY <1>1, <1>3 DEF HashOf, SigHash, SigHashes

\* The locals of a call, its payload and its place at the kernel's mutex are
\* there exactly when its stage says so, and notes are notes
\* (authorize_and_sign).
THEOREM WalletTypeCorrect == Spec => []TypeOK
<1>1. Spec => []TypeInv
  BY QueueInOrder
<1>2. IInv /\ TypeInv => TypeOK
  <2>. SUFFICES ASSUME IInv, TypeInv PROVE TypeOK
    OBVIOUS
  <2>1. ASSUME NEW p \in Payments
        PROVE  /\ auth[p] # NoAuth <=> stage[p] \in InKernel
               /\ auth[p] # NoAuth => AuthorizeVerdict(auth[p]) = "ok"
               /\ sigHash[p] # NoHash <=> stage[p] = "tx-id"
               /\ Cardinality(payload[p]) = 1 <=> stage[p] \in {"signed", "sent", "refused"}
               /\ (\E i \in DOMAIN queue : queue[i] = p) <=> stage[p] \in InKernel
    <3>1. CallInv(p) /\ LocalsInv(p)
      BY DEF IInv, TypeInv
    <3>2. stage[p] \in InKernel => auth[p] \in Ready /\ auth[p] # NoAuth
      BY <3>1, WalletPlaceholders DEF CallInv, Ready
    <3>3. stage[p] = "tx-id" => sigHash[p] # NoHash
      BY <3>1, <3>2, HashOfType, WalletPlaceholders DEF CallInv, InKernel
    <3>4. Cardinality({}) = 0 /\ \A x : Cardinality({x}) = 1
      BY FS_EmptySet, FS_Singleton
    <3>5. Cardinality(payload[p]) = 1 <=> stage[p] \in {"signed", "sent", "refused"}
      BY <3>1, <3>4, SMTT(30) DEF LocalsInv, Finished
    <3>6. (\E i \in DOMAIN queue : queue[i] = p) <=> stage[p] \in InKernel
      BY DEF TypeInv, QueueInv, In
    <3>. QED
      BY <3>1, <3>2, <3>3, <3>5, <3>6 DEF LocalsInv, Ready
  <2>2. queue \in Seq(Payments) /\ \A i, j \in DOMAIN queue : queue[i] = queue[j] => i = j
    BY DEF TypeInv, QueueInv, Distinct
  <2>3. stage \in [Payments -> {"idle", "signed", "sent"} \cup InKernel \cup Errors]
    BY DEF IInv, Stages
  <2>. QED
    BY <2>1, <2>2, <2>3 DEF IInv, ChainInv, TypeInv, TypeOK
<1>. QED
  BY <1>1, <1>2, WalletInvariant, PTL

-----------------------------------------------------------------------------
(***************************************************************************)
(* What a set of notes comes to.                                           *)
(***************************************************************************)
\* A set of numbers has a least one: what induction is made of here.  A claim
\* about all finite sets of notes is refuted by a least counterexample.
LEMMA LeastNumber ==
  ASSUME NEW T \in SUBSET Nat, T # {}
  PROVE  \E x \in T : \A y \in T : x <= y
<1> DEFINE less == OpToRel(<, Nat)
<1>1. IsWellFoundedOn(less, Nat)
  BY NatLessThanWellFounded
<1>2. \A x, y \in Nat : x < y => <<x, y>> \in less
  BY DEF OpToRel
<1>. HIDE DEF less
<1>3. PICK x \in T : \A y \in T : ~(<<y, x>> \in less)
  BY <1>1, WFMin
<1>. SUFFICES ASSUME NEW y \in T PROVE x <= y
  OBVIOUS
<1>4. x \in Nat /\ y \in Nat /\ ~(<<y, x>> \in less)
  BY <1>3
<1>5. ~(y < x)
  BY <1>2, <1>4, Zenon
<1>. QED
  BY <1>4, <1>5

\* The note of s that is counted first.
One(s) == CHOOSE x \in s : TRUE

\* A fold over the subsets of S, up to those with n elements.
Folds(f, S, n) ==
  /\ f \in [{s \in SUBSET S : Cardinality(s) <= n} -> Nat]
  /\ \A s \in SUBSET S : Cardinality(s) <= n =>
       f[s] = IF s = {} THEN 0 ELSE One(s).assets + f[s \ {One(s)}]

\* A set without the note that is counted first is smaller by one.
LEMMA OneLess ==
  ASSUME NEW S, IsFiniteSet(S), NEW s \in SUBSET S, s # {}
  PROVE  /\ One(s) \in s /\ s \ {One(s)} \in SUBSET S
         /\ Cardinality(s) \in Nat
         /\ Cardinality(s \ {One(s)}) = Cardinality(s) - 1
<1>1. One(s) \in s
  BY DEF One
<1>2. IsFiniteSet(s)
  BY FS_Subset
<1>. QED
  BY <1>1, <1>2, FS_CardinalityType, FS_RemoveElement

\* A fold over the sets of at most n notes goes on to those of n + 1.
LEMMA FoldsFurther ==
  ASSUME NEW S, IsFiniteSet(S), \A x \in S : x.assets \in Nat,
         NEW n \in Nat, NEW f, Folds(f, S, n)
  PROVE  \E g : Folds(g, S, n + 1)
<1> DEFINE D == {s \in SUBSET S : Cardinality(s) <= n}
           E == {s \in SUBSET S : Cardinality(s) <= n + 1}
<1>. PICK g : g = [s \in E |-> IF s = {} THEN 0 ELSE One(s).assets + f[s \ {One(s)}]]
  OBVIOUS
<1>1. \A s \in SUBSET S : Cardinality(s) \in Nat
  BY FS_Subset, FS_CardinalityType
<1>2. ASSUME NEW s \in E, s # {}
      PROVE  One(s) \in S /\ s \ {One(s)} \in D
  BY <1>2, OneLess
<1>3. \A s \in D : g[s] = f[s]
  BY <1>1 DEF Folds
<1>4. g \in [E -> Nat]
  BY <1>2 DEF Folds
<1>5. \A s \in SUBSET S : Cardinality(s) <= n + 1 =>
        g[s] = IF s = {} THEN 0 ELSE One(s).assets + g[s \ {One(s)}]
  BY <1>2, <1>3
<1>. QED
  BY <1>4, <1>5 DEF Folds

\* There is a fold over the sets of no notes.
LEMMA FoldsStart ==
  ASSUME NEW S, IsFiniteSet(S)
  PROVE  \E f : Folds(f, S, 0)
<1>1. \A s \in SUBSET S : Cardinality(s) <= 0 => s = {}
  <2>. SUFFICES ASSUME NEW s \in SUBSET S, Cardinality(s) <= 0 PROVE s = {}
    OBVIOUS
  <2>1. IsFiniteSet(s) /\ Cardinality(s) \in Nat
    BY FS_Subset, FS_CardinalityType
  <2>. QED
    BY <2>1, FS_EmptySet
<1> DEFINE D == {s \in SUBSET S : Cardinality(s) <= 0}
           f == [s \in D |-> 0]
<1>2. f \in [D -> Nat] /\ \A s \in D : f[s] = 0
  OBVIOUS
<1>. HIDE DEF f
<1>3. Folds(f, S, 0)
  BY <1>1, <1>2 DEF Folds
<1>. QED
  BY <1>3

\* There is a fold over the sets of at most n notes, whatever n is.
LEMMA FoldsUpTo ==
  ASSUME NEW S, IsFiniteSet(S), \A x \in S : x.assets \in Nat, NEW n \in Nat
  PROVE  \E f : Folds(f, S, n)
<1>. PICK T : T = {k \in Nat : ~\E f : Folds(f, S, k)}
  OBVIOUS
<1>1. CASE T = {}
  BY <1>1
<1>2. CASE T # {}
  <2>1. PICK k \in T : \A j \in T : k <= j
    BY <1>2, LeastNumber
  <2>2. k # 0 /\ k \in Nat
    BY <2>1, FoldsStart
  <2>3. k - 1 \in Nat /\ k - 1 \notin T /\ (k - 1) + 1 = k
    BY <2>1, <2>2
  <2>4. PICK f : Folds(f, S, k - 1)
    BY <2>3
  <2>5. \E g : Folds(g, S, k)
    BY <2>3, <2>4, FoldsFurther
  <2>. QED
    BY <2>1, <2>5
<1>. QED
  BY <1>1, <1>2

\* A fold over all subsets of S, as MapThenSumSet has it.
IsFold(it, S) ==
  it = [s \in SUBSET S |-> IF s = {} THEN 0 ELSE One(s).assets + it[s \ {One(s)}]]

\* AssetsOf is the value of some fold, by its definition.
LEMMA AssetsOfIs ==
  ASSUME NEW S
  PROVE  AssetsOf(S) = (CHOOSE it : IsFold(it, S))[S]
BY DEF AssetsOf, MapThenSumSet, MapThenFoldSet, IsFold, One

\* There is a fold over all subsets of a finite set of notes.
LEMMA FoldExists ==
  ASSUME NEW S, IsFiniteSet(S), \A x \in S : x.assets \in Nat
  PROVE  \E it \in [SUBSET S -> Nat] : IsFold(it, S)
<1>1. Cardinality(S) \in Nat
  BY FS_CardinalityType
<1>2. \A s \in SUBSET S : Cardinality(s) <= Cardinality(S)
  BY FS_Subset
<1>3. PICK f : Folds(f, S, Cardinality(S))
  BY <1>1, FoldsUpTo
<1>4. {s \in SUBSET S : Cardinality(s) <= Cardinality(S)} = SUBSET S
  BY <1>2
<1>5. f \in [SUBSET S -> Nat]
  BY <1>3, <1>4 DEF Folds
<1>6. \A s \in SUBSET S : f[s] = IF s = {} THEN 0 ELSE One(s).assets + f[s \ {One(s)}]
  BY <1>2, <1>3 DEF Folds
<1>7. IsFold(f, S)
  BY <1>5, <1>6 DEF IsFold
<1>. QED
  BY <1>5, <1>7

\* Any two come to the same.
LEMMA FoldUnique ==
  ASSUME NEW S, IsFiniteSet(S), NEW a, IsFold(a, S), NEW b, IsFold(b, S)
  PROVE  a[S] = b[S]
<1>. PICK T : T = {n \in Nat : \E s \in SUBSET S : n = Cardinality(s) /\ a[s] # b[s]}
  OBVIOUS
<1>1. \A s \in SUBSET S : /\ a[s] = IF s = {} THEN 0 ELSE One(s).assets + a[s \ {One(s)}]
                         /\ b[s] = IF s = {} THEN 0 ELSE One(s).assets + b[s \ {One(s)}]
  BY DEF IsFold
<1>2. CASE T = {}
  BY <1>2, FS_CardinalityType
<1>3. CASE T # {}
  <2>1. PICK n \in T : \A m \in T : n <= m
    BY <1>3, LeastNumber
  <2>2. PICK s \in SUBSET S : n = Cardinality(s) /\ a[s] # b[s]
    BY <2>1
  <2>3. s # {}
    BY <1>1, <2>2
  <2>4. /\ s \ {One(s)} \in SUBSET S
        /\ n \in Nat /\ Cardinality(s \ {One(s)}) = n - 1
    BY <2>2, <2>3, OneLess
  <2>5. n - 1 \in Nat /\ n - 1 \notin T
    <3>1. IsFiniteSet(s \ {One(s)})
      BY <2>4, FS_Subset
    <3>. QED
      BY <2>1, <2>4, <3>1, FS_CardinalityType
  <2>6. a[s \ {One(s)}] = b[s \ {One(s)}]
    BY <2>4, <2>5
  <2>. QED
    BY <1>1, <2>2, <2>3, <2>6
<1>. QED
  BY <1>2, <1>3

\* So AssetsOf is what any of them comes to, and a number.
LEMMA AssetsOfFold ==
  ASSUME NEW S, IsFiniteSet(S), \A x \in S : x.assets \in Nat, NEW it, IsFold(it, S)
  PROVE  AssetsOf(S) = it[S] /\ AssetsOf(S) \in Nat
<1>1. PICK f \in [SUBSET S -> Nat] : IsFold(f, S)
  BY FoldExists
<1>. PICK c : c = CHOOSE g : IsFold(g, S)
  OBVIOUS
<1>2. IsFold(c, S)
  BY <1>1
<1>3. c[S] = f[S] /\ c[S] = it[S]
  BY <1>1, <1>2, FoldUnique
<1>. QED
  BY <1>3, AssetsOfIs

\* No notes come to nothing.
LEMMA AssetsOfNone == AssetsOf({}) = 0
<1>1. PICK it : IsFold(it, {})
  BY FoldExists, FS_EmptySet
<1>2. it[{}] = 0
  BY <1>1 DEF IsFold
<1>. QED
  BY <1>1, <1>2, AssetsOfFold, FS_EmptySet

\* The first note, and then the rest.
LEMMA AssetsOfFirst ==
  ASSUME NEW S, IsFiniteSet(S), \A x \in S : x.assets \in Nat, S # {}
  PROVE  AssetsOf(S) = One(S).assets + AssetsOf(S \ {One(S)})
<1>. PICK T : T = S \ {One(S)}
  OBVIOUS
<1>1. PICK f \in [SUBSET S -> Nat] : IsFold(f, S)
  BY FoldExists
<1>. PICK g : g = [s \in SUBSET T |-> f[s]]
  OBVIOUS
<1>2. T \in SUBSET S /\ IsFiniteSet(T) /\ \A x \in T : x.assets \in Nat
  BY FS_Subset
<1>3. IsFold(g, T)
  <2>1. \A s \in SUBSET T : s \in SUBSET S /\ s \ {One(s)} \in SUBSET T
    BY <1>2
  <2>2. \A s \in SUBSET T : g[s] = IF s = {} THEN 0 ELSE One(s).assets + g[s \ {One(s)}]
    BY <1>1, <2>1 DEF IsFold
  <2>. QED
    BY <2>2 DEF IsFold
<1>4. AssetsOf(T) = f[T]
  BY <1>2, <1>3, AssetsOfFold
<1>5. AssetsOf(S) = f[S]
  BY <1>1, AssetsOfFold
<1>6. f[S] = One(S).assets + f[S \ {One(S)}]
  BY <1>1 DEF IsFold
<1>. QED
  BY <1>4, <1>5, <1>6

\* What a finite set of notes comes to is a number.
LEMMA AssetsOfType ==
  ASSUME NEW S, IsFiniteSet(S), \A x \in S : x.assets \in Nat
  PROVE  AssetsOf(S) \in Nat
BY FoldExists, AssetsOfFold

\* Whichever note is counted first.
LEMMA AssetsOfLess ==
  ASSUME NEW S, IsFiniteSet(S), \A x \in S : x.assets \in Nat, NEW note \in S
  PROVE  AssetsOf(S) = note.assets + AssetsOf(S \ {note})
<1>. PICK T : T = {k \in Nat : \E s \in SUBSET S : \E x \in s :
                     k = Cardinality(s) /\ AssetsOf(s) # x.assets + AssetsOf(s \ {x})}
  OBVIOUS
<1>1. CASE T = {}
  <2>1. S \in SUBSET S /\ Cardinality(S) \in Nat
    BY FS_CardinalityType
  <2>2. Cardinality(S) \notin T
    BY <1>1
  <2>. QED
    BY <2>1, <2>2
<1>2. CASE T # {}
  <2>1. PICK k \in T : \A j \in T : k <= j
    BY <1>2, LeastNumber
  <2>2. PICK s \in SUBSET S : \E x \in s :
          k = Cardinality(s) /\ AssetsOf(s) # x.assets + AssetsOf(s \ {x})
    BY <2>1
  <2>. PICK x \in s : k = Cardinality(s) /\ AssetsOf(s) # x.assets + AssetsOf(s \ {x})
    BY <2>2
  <2>. PICK y, t, u : y = One(s) /\ t = s \ {y} /\ u = t \ {x}
    OBVIOUS
  <2>3. /\ IsFiniteSet(s) /\ y \in s /\ t \in SUBSET S /\ Cardinality(t) = k - 1
        /\ IsFiniteSet(t) /\ k - 1 \in Nat
    BY <2>2, OneLess, FS_Subset, FS_CardinalityType
  <2>4. AssetsOf(s) = y.assets + AssetsOf(t)
    BY <2>2, <2>3, AssetsOfFirst
  <2>5. x # y /\ x \in t
    BY <2>2, <2>3, <2>4
  <2>6. ASSUME NEW r \in SUBSET S, Cardinality(r) = k - 1, NEW z \in r
        PROVE  AssetsOf(r) = z.assets + AssetsOf(r \ {z})
    <3>1. ~(k <= k - 1)
      BY <2>3
    <3>2. Cardinality(r) \notin T
      BY <2>1, <2>6, <3>1
    <3>3. Cardinality(r) \in Nat
      BY <2>3, <2>6
    <3>. QED
      BY <3>2, <3>3
  <2>7. AssetsOf(t) = x.assets + AssetsOf(u)
    BY <2>3, <2>5, <2>6
  <2>. PICK v : v = s \ {x}
    OBVIOUS
  <2>8. v \in SUBSET S /\ y \in v /\ Cardinality(v) = k - 1 /\ v \ {y} = u
    BY <2>2, <2>3, <2>5, FS_RemoveElement
  <2>9. AssetsOf(v) = y.assets + AssetsOf(u)
    <3>1. AssetsOf(v) = y.assets + AssetsOf(v \ {y})
      BY <2>6, <2>8
    <3>. QED
      BY <2>8, <3>1
  <2>10. AssetsOf(u) \in Nat /\ x.assets \in Nat /\ y.assets \in Nat
    BY <2>3, <2>5, FS_Subset, AssetsOfType
  <2>. QED
    BY <2>2, <2>4, <2>7, <2>9, <2>10
<1>. QED
  BY <1>1, <1>2

\* One note more.
LEMMA AssetsOfMore ==
  ASSUME NEW S, IsFiniteSet(S), \A x \in S : x.assets \in Nat, NEW note, note \notin S,
         note.assets \in Nat
  PROVE  AssetsOf(S \cup {note}) = AssetsOf(S) + note.assets
<1>. PICK T : T = S \cup {note}
  OBVIOUS
<1>1. IsFiniteSet(T) /\ T \ {note} = S /\ note \in T /\ \A x \in T : x.assets \in Nat
  BY FS_AddElement
<1>. QED
  BY <1>1, AssetsOfLess, AssetsOfType

-----------------------------------------------------------------------------
(***************************************************************************)
(* The money.                                                              *)
(***************************************************************************)
\* Those of the notes that are locked to k, by either hash of its key.
Locked(notes, k) == {n \in notes : n.condition[1].key = k}

Keys == {Payer} \cup Payees

\* The names of notes are never given twice.
MoneyInv ==
  /\ IsFiniteSet(ledger)
  /\ \A n \in minted : n.name < nextName

\* What a set of notes is, for its sum.
Counted(notes) == IsFiniteSet(notes) /\ \A n \in notes : n.assets \in Nat

\* The ledger can be summed up.
LEMMA LedgerCounted ==
  ASSUME IInv, MoneyInv
  PROVE  Counted(ledger)
<1>1. MaxU64 \in Nat
  BY WalletConstants
<1>2. \A n \in ledger : n.assets \in 0 .. MaxU64
  BY DEF IInv, ChainInv, NotesUnder
<1>. QED
  BY <1>1, <1>2 DEF MoneyInv, Counted

\* So can what one key has of it.
LEMMA LockedCounted ==
  ASSUME NEW notes, Counted(notes), NEW k
  PROVE  Counted(Locked(notes, k)) /\ AssetsOf(Locked(notes, k)) \in Nat
<1>1. Locked(notes, k) \in SUBSET notes
  BY DEF Locked
<1>2. Counted(Locked(notes, k))
  BY <1>1, FS_Subset DEF Counted
<1>. QED
  BY <1>2, AssetsOfType DEF Counted

\* A note is spent: what its key has is less by its assets, and the notes of
\* other keys are what they were.
LEMMA LockedLess ==
  ASSUME NEW notes, Counted(notes), NEW note \in notes, NEW k,
         NEW rest, rest = notes \ {note}
  PROVE  /\ Counted(rest)
         /\ AssetsOf(Locked(notes, k))
              = AssetsOf(Locked(rest, k))
                  + (IF note.condition[1].key = k THEN note.assets ELSE 0)
<1>1. Counted(rest)
  BY FS_RemoveElement DEF Counted
<1>. PICK S, T : S = Locked(notes, k) /\ T = Locked(rest, k)
  OBVIOUS
<1>2. Counted(S) /\ Counted(T) /\ AssetsOf(S) \in Nat /\ AssetsOf(T) \in Nat
  BY <1>1, LockedCounted
<1>3. CASE note.condition[1].key = k
  <2>1. note \in S /\ T = S \ {note}
    BY <1>3 DEF Locked
  <2>2. AssetsOf(S) = note.assets + AssetsOf(S \ {note})
    BY <1>2, <2>1, AssetsOfLess DEF Counted
  <2>3. AssetsOf(S) = note.assets + AssetsOf(T)
    BY <2>1, <2>2
  <2>. QED
    BY <1>1, <1>2, <1>3, <2>3 DEF Counted
<1>4. CASE note.condition[1].key # k
  <2>1. T = S
    BY <1>4 DEF Locked
  <2>. QED
    BY <1>1, <1>2, <1>4, <2>1
<1>. QED
  BY <1>3, <1>4

\* A note is made.
LEMMA LockedMore ==
  ASSUME NEW notes, Counted(notes), NEW note, note \notin notes, note.assets \in Nat,
         NEW k, NEW more, more = notes \cup {note}
  PROVE  /\ Counted(more)
         /\ AssetsOf(Locked(more, k))
              = AssetsOf(Locked(notes, k))
                  + (IF note.condition[1].key = k THEN note.assets ELSE 0)
<1>1. Counted(more) /\ note \in more /\ notes = more \ {note}
  BY FS_AddElement DEF Counted
<1>. QED
  BY <1>1, LockedLess

\* What one transaction of this wallet does to what each key has: the note
\* goes, and the payment and the change come (AcceptableOnChain, Outputs).
LEMMA TransferOf ==
  ASSUME IInv, MoneyInv, NEW a \in Ready, NEW n \in ledger,
         n.condition[1].key = Payer,
         n.assets = a.notes[1].assets,
         ledger' = (ledger \ {n}) \cup Outputs(SeedsFor(a)),
         NEW k
  PROVE  /\ Counted(ledger')
         /\ AssetsOf(Locked(ledger, Payer)) >= a.value + a.fee
         /\ AssetsOf(Locked(ledger', k))
              = AssetsOf(Locked(ledger, k))
                  - (IF k = Payer THEN a.value + a.fee ELSE 0)
                  + (IF k = a.to.key THEN a.value ELSE 0)
<1> DEFINE made(i, amount, pkh) ==
             [name |-> nextName + (i - 1), assets |-> amount, condition |-> SimplePkh(pkh)]
           payment == made(1, a.value, a.to)
           change == made(2, Change(a), a.changeAddress)
<1>. PICK rest : rest = ledger \ {n}
  OBVIOUS
<1>1. /\ MaxU64 \in Nat /\ a.value \in Nat /\ a.fee \in Nat /\ Change(a) \in Nat
      /\ n.assets = a.value + a.fee + Change(a)
      /\ a.changeAddress.key = Payer
  BY ReadyMeans, WalletConstants DEF Ready, Asked
<1>2. /\ Counted(ledger) /\ Counted(rest)
      /\ AssetsOf(Locked(ledger, k))
           = AssetsOf(Locked(rest, k)) + (IF k = Payer THEN n.assets ELSE 0)
      /\ AssetsOf(Locked(ledger, Payer)) = AssetsOf(Locked(rest, Payer)) + n.assets
  BY LedgerCounted, LockedLess
<1>3. AssetsOf(Locked(rest, k)) \in Nat /\ AssetsOf(Locked(rest, Payer)) \in Nat
  BY <1>2, LockedCounted
<1>3a. nextName \in Nat
  BY DEF IInv, ChainInv
<1>4. /\ payment.assets = a.value /\ payment.condition[1].key = a.to.key
      /\ change.assets = Change(a) /\ change.condition[1].key = Payer
      /\ payment.name = nextName /\ change.name = nextName + 1
  BY <1>1, <1>3a DEF SimplePkh
<1>5. \A m \in rest : m.name < nextName
  BY DEF MoneyInv, IInv, ChainInv
<1>7. Outputs(SeedsFor(a)) = IF Change(a) > 0 THEN {payment, change} ELSE {payment}
  <2>1. CASE Change(a) > 0
    <3>1. SeedsFor(a) = << SeedTo(a.to, a.value, a.notes[1].name),
                           SeedTo(a.changeAddress, Change(a), a.notes[1].name) >>
      BY <2>1 DEF SeedsFor
    <3>2. /\ DOMAIN SeedsFor(a) = {1, 2}
          /\ SeedsFor(a)[1].gift = a.value /\ SeedsFor(a)[1].lockRoot = SimplePkh(a.to)
          /\ SeedsFor(a)[2].gift = Change(a)
          /\ SeedsFor(a)[2].lockRoot = SimplePkh(a.changeAddress)
      BY <3>1 DEF SeedTo
    <3>. QED
      BY <2>1, <3>2 DEF Outputs
  <2>2. CASE ~(Change(a) > 0)
    <3>1. SeedsFor(a) = << SeedTo(a.to, a.value, a.notes[1].name) >>
      BY <2>2 DEF SeedsFor
    <3>2. /\ DOMAIN SeedsFor(a) = {1}
          /\ SeedsFor(a)[1].gift = a.value /\ SeedsFor(a)[1].lockRoot = SimplePkh(a.to)
      BY <3>1 DEF SeedTo
    <3>. QED
      BY <2>2, <3>2 DEF Outputs
  <2>. QED
    BY <2>1, <2>2
<1>. HIDE DEF payment, change
<1>. PICK mid : mid = rest \cup {payment}
  OBVIOUS
<1>8. /\ Counted(mid)
      /\ AssetsOf(Locked(mid, k))
           = AssetsOf(Locked(rest, k)) + (IF a.to.key = k THEN a.value ELSE 0)
  <2>1. payment \notin rest
    BY <1>4, <1>5, <1>3a
  <2>. QED
    BY <1>1, <1>2, <1>4, <2>1, LockedMore
<1>9. AssetsOf(Locked(ledger, Payer)) >= a.value + a.fee
  BY <1>1, <1>2, <1>3
<1>. PICK after, outside : after = ledger' /\ outside = AssetsOf(Locked(rest, k))
  OBVIOUS
<1>. PICK inside, between, now :
       /\ inside = AssetsOf(Locked(ledger, k)) /\ between = AssetsOf(Locked(mid, k))
       /\ now = AssetsOf(Locked(after, k))
  OBVIOUS
<1>10. ASSUME Change(a) > 0
       PROVE  Counted(after) /\ now = between + (IF Payer = k THEN Change(a) ELSE 0)
  <2>1. change \notin mid
    BY <1>4, <1>5, <1>3a
  <2>2. after = mid \cup {change}
    BY <1>7, <1>10
  <2>3. change.assets \in Nat
    BY <1>1, <1>4
  <2>4. /\ Counted(after)
        /\ AssetsOf(Locked(after, k))
             = AssetsOf(Locked(mid, k))
                 + (IF change.condition[1].key = k THEN change.assets ELSE 0)
    BY <1>8, <2>1, <2>2, <2>3, LockedMore
  <2>5. now = between + (IF Payer = k THEN Change(a) ELSE 0)
    BY <1>4, <2>4
  <2>. QED
    BY <2>4, <2>5
<1>11. ASSUME ~(Change(a) > 0)
       PROVE  Counted(after) /\ now = between /\ Change(a) = 0
  <2>1. after = mid /\ Change(a) = 0
    BY <1>1, <1>7, <1>11
  <2>. QED
    BY <1>8, <2>1
<1>12. /\ Counted(after)
       /\ \/ now = between + (IF Payer = k THEN Change(a) ELSE 0)
          \/ now = between /\ Change(a) = 0
  BY <1>10, <1>11
<1>13. between = outside + (IF a.to.key = k THEN a.value ELSE 0)
  BY <1>8
<1>14. inside = outside + (IF k = Payer THEN n.assets ELSE 0)
  BY <1>2
<1>15. outside \in Nat
  BY <1>3
<1>16. now = inside - (IF k = Payer THEN a.value + a.fee ELSE 0)
               + (IF k = a.to.key THEN a.value ELSE 0)
  BY <1>1, <1>12, <1>13, <1>14, <1>15
<1>. QED
  BY <1>9, <1>12, <1>16

\* A payload carries the amounts of its authorization, and they are amounts.
LEMMA AmountOf ==
  ASSUME NEW a \in Ready
  PROVE  /\ Amount(a.to, a.value, a.fee) # NoAuth
         /\ a.to.key \in Keys
         /\ Amount(a.to, a.value, a.fee)
              \in {Amount(r.payTo, r.maxAmount, r.minFee) :
                     r \in {q \in Requirements : q.payTo # Garbled}}
<1>1. /\ a.to \in Pkhs /\ a.value \in Int /\ a.fee \in Int
  BY ReadyMeans DEF Authorizations
<1>2. a.to.key \in Keys
  BY <1>1 DEF Pkhs, EnvelopePkh, ChainPkh, Keys
<1>3. Amount(a.to, a.value, a.fee) # NoAuth
  BY <1>1, <1>2, WalletPlaceholders DEF Amount, Keys
<1>4. PICK r \in Requirements : a.to = r.payTo /\ a.value = r.maxAmount /\ a.fee = r.minFee
  BY DEF Ready, Asked
<1>5. a.to # Garbled
  BY ReadyMeans DEF Ready, AuthorizeVerdict, IsHash
<1>. QED
  BY <1>2, <1>3, <1>4, <1>5

\* A payload of this wallet is one transaction, for one note, by the payer
\* (authorize_and_sign, raw_tx_from_surrogate).
LEMMA IncludeMeans ==
  ASSUME IInv, NEW p \in Payments, Include(p)
  PROVE  \E x \in payload[p], a \in Ready, n \in ledger :
           /\ x.authorization = a
           /\ n.condition[1].key = Payer /\ n.assets = a.notes[1].assets
           /\ ledger' = (ledger \ {n}) \cup Outputs(SeedsFor(a))
           /\ minted' = minted \cup Outputs(SeedsFor(a))
           /\ nextName' = nextName + Len(SeedsFor(a))
<1>1. PICK raw \in mempool, n \in ledger, x \in payload[p] :
        LET seeds == raw.spends[1].spend.seeds
        IN  /\ raw = RawTxFromSurrogate(x.signedRawTx)
            /\ AcceptableOnChain(raw, n)
            /\ ledger' = (ledger \ {n}) \cup Outputs(seeds)
            /\ minted' = minted \cup Outputs(seeds)
            /\ nextName' = nextName + Len(seeds)
  BY DEF Include
<1>2. PICK a \in Ready : x = PayloadFor(a, HashOf(a))
  BY DEF IInv, CallInv
<1>3. raw = RawTxFor(a, HashOf(a)) /\ x.authorization = a
  BY <1>1, <1>2, ReadyVerifies
<1>4. /\ raw.spends[1].spend.seeds = SeedsFor(a) /\ raw.spends[1].spend.fee = a.fee
      /\ raw.spends[1].spend.witness.pkhSignature[1].hash = ChainPkh(Payer)
  BY <1>3 DEF RawTxFor, SpendsFor
<1>5. /\ raw.spends[1].spend.witness.pkhSignature[1].hash = n.condition[1]
      /\ Gifts(raw.spends[1].spend.seeds) + raw.spends[1].spend.fee = n.assets
  BY <1>1 DEF AcceptableOnChain
<1>6. n.condition[1].key = Payer /\ n.assets = a.notes[1].assets
  BY <1>4, <1>5, SeedsAre DEF ChainPkh
<1>. QED
  BY <1>1, <1>3, <1>4, <1>6

\* Every step gives notes new names only.
LEMMA NextMoneyInv == IInv /\ MoneyInv /\ [Next]_vars => MoneyInv'
<1>. SUFFICES ASSUME IInv, MoneyInv, [Next]_vars PROVE MoneyInv'
  OBVIOUS
<1>1. CASE UNCHANGED <<ledger, minted, nextName>>
  BY <1>1 DEF MoneyInv
<1>2. ASSUME NEW p \in Payments, Include(p)
      PROVE  MoneyInv'
  <2>1. PICK a \in Ready, n \in ledger :
          /\ ledger' = (ledger \ {n}) \cup Outputs(SeedsFor(a))
          /\ minted' = minted \cup Outputs(SeedsFor(a))
          /\ nextName' = nextName + Len(SeedsFor(a))
          /\ n.condition[1].key = Payer /\ n.assets = a.notes[1].assets
    BY <1>2, IncludeMeans
  <2>2. /\ nextName \in Nat /\ Len(SeedsFor(a)) \in 1 .. 2
        /\ DOMAIN SeedsFor(a) = 1 .. Len(SeedsFor(a))
        /\ minted \subseteq NotesUnder(Conditions)
    BY SeedsAre DEF IInv, ChainInv
  <2>3. \A m \in Outputs(SeedsFor(a)) : m.name < nextName'
    BY <2>1, <2>2 DEF Outputs
  <2>4. \A m \in minted : m.name < nextName'
    <3>1. \A m \in minted : m.name \in Int /\ m.name < nextName
      BY <2>2 DEF MoneyInv, NotesUnder
    <3>. QED
      BY <2>1, <2>2, <3>1
  <2>5. IsFiniteSet(ledger')
    BY <2>1, TransferOf DEF Counted
  <2>. QED
    BY <2>1, <2>3, <2>4, <2>5 DEF MoneyInv
<1>. QED
  BY <1>1, <1>2
     DEF Next, Step, BuildWithWallet, BuildByHand, AuthorizeAndSign, SigHashPoke, TxIdPoke,
         Cancel, Settle, Forget, vars, chainVars

\* The notes on the chain are finitely many, under names that come before the
\* next one.
LEMMA MoneyInOrder == Spec => []MoneyInv
<1>1. Init => MoneyInv
  <2>. SUFFICES ASSUME Init PROVE MoneyInv
    OBVIOUS
  <2>1. Cardinality(Genesis) \in Nat /\ MaxNote \in Nat
    BY FS_CardinalityType, WalletConstants
  <2>2. \A n \in Genesis : n.name \in Int /\ n.name <= Cardinality(Genesis)
    BY <2>1, WalletConstants DEF NotesUnder
  <2>. QED
    BY <2>1, <2>2, WalletConstants DEF Init, MoneyInv
<1>2. IInv /\ MoneyInv /\ [Next]_vars => MoneyInv'
  BY NextMoneyInv
<1>. QED
  BY <1>1, <1>2, WalletInvariant, PTL DEF Spec

\* What each key has is a number.
LEMMA HeldIs ==
  ASSUME IInv, MoneyInv
  PROVE  /\ Held \in [Keys -> Nat]
         /\ \A k \in Keys : Held[k] = AssetsOf(Locked(ledger, k))
<1>1. Held = [k \in Keys |-> AssetsOf(Locked(ledger, k))]
  BY DEF Held, Keys, Locked
<1>2. \A k \in Keys : AssetsOf(Locked(ledger, k)) \in Nat
  BY LedgerCounted, LockedCounted
<1>. QED
  BY <1>1, <1>2

\* What the payer has authorized is what the payload says.
LEMMA AuthorizedIs ==
  ASSUME NEW p \in Payments, NEW x, payload[p] = {x}
  PROVE  Authorized[p] = Amount(x.authorization.to, x.authorization.value, x.authorization.fee)
<1>1. (CHOOSE y \in payload[p] : TRUE) = x
  OBVIOUS
<1>. QED
  BY <1>1 DEF Authorized, AuthorizedBy

\* The %tx-id poke is the moment the payer authorizes the payment.
LEMMA TxIdPokeAuthorizes ==
  ASSUME IInv, TypeInv, NEW p \in Payments, TxIdPoke(p)
  PROVE  Promise!Next \/ UNCHANGED Promise!transfer
<1>1. UNCHANGED <<ledger, paid>> /\ stage[p] = "tx-id"
  BY DEF TxIdPoke, chainVars
<1>2. Held' = Held
  BY <1>1 DEF Held
<1>3. CASE UNCHANGED payload
  BY <1>1, <1>2, <1>3 DEF Promise!transfer, Authorized
<1>4. CASE payload' = [payload EXCEPT ![p] = {PayloadFor(auth[p], sigHash[p])}]
  <2>1. PICK a : a = auth[p]
    OBVIOUS
  <2>2. a \in Ready /\ sigHash[p] = HashOf(a) /\ DOMAIN payload = Payments
    BY <1>1, <2>1 DEF IInv, CallInv, InKernel
  <2>3. payload[p] = {}
    BY <1>1 DEF TypeInv, LocalsInv, Finished
  <2>4. PICK x : x = PayloadFor(a, HashOf(a))
    OBVIOUS
  <2>5. x.authorization = a
    BY <2>4 DEF PayloadFor
  <2>6. payload' = [payload EXCEPT ![p] = {x}]
    BY <1>4, <2>1, <2>2, <2>4
  <2>. PICK amount : amount = Amount(a.to, a.value, a.fee)
    OBVIOUS
  <2>7. Authorized[p] = NoAuth
    BY <2>3 DEF Authorized, AuthorizedBy
  <2>8. Authorized' = [Authorized EXCEPT ![p] = amount]
    <3>1. payload'[p] = {x} /\ \A d \in Payments \ {p} : payload'[d] = payload[d]
      BY <2>2, <2>6
    <3>2. (CHOOSE y \in payload'[p] : TRUE) = x
      BY <3>1
    <3>3. Authorized'[p] = amount
      BY <2>5, <3>1, <3>2 DEF Authorized, AuthorizedBy
    <3>4. \A d \in Payments \ {p} : Authorized'[d] = Authorized[d]
      BY <3>1 DEF Authorized
    <3>. QED
      BY <3>3, <3>4 DEF Authorized
  <2>9. amount \in {Amount(r.payTo, r.maxAmount, r.minFee) :
                      r \in {q \in Requirements : q.payTo # Garbled}}
    BY <2>2, AmountOf
  <2>10. Promise!Authorize(p, amount)
    BY <1>1, <1>2, <2>7, <2>8 DEF Promise!Authorize
  <2>. QED
    BY <2>9, <2>10 DEF Promise!Next
<1>. QED
  BY <1>3, <1>4 DEF TxIdPoke

\* A block with the transaction is the payment, of what was authorized and no
\* more.
LEMMA IncludePays ==
  ASSUME IInv, TypeInv, MoneyInv, (IInv /\ MoneyInv)', NEW p \in Payments, Include(p)
  PROVE  Promise!Pay(p)
<1>1. PICK x \in payload[p], a \in Ready, n \in ledger :
        /\ x.authorization = a
        /\ n.condition[1].key = Payer /\ n.assets = a.notes[1].assets
        /\ ledger' = (ledger \ {n}) \cup Outputs(SeedsFor(a))
  BY IncludeMeans
<1>2. p \notin paid /\ paid' = paid \cup {p} /\ payload' = payload
  BY DEF Include, callVars
<1>. PICK amount : amount = Amount(a.to, a.value, a.fee)
  OBVIOUS
<1>3. Authorized[p] = amount
  <2>1. payload[p] = {x}
    BY DEF TypeInv, LocalsInv
  <2>. QED
    BY <1>1, <2>1, AuthorizedIs
<1>4. amount # NoAuth /\ a.to.key \in Keys
  BY AmountOf
<1>5. /\ amount.payee = a.to.key /\ amount.value = a.value /\ amount.fee = a.fee
  BY DEF Amount
<1>6. /\ Held \in [Keys -> Nat] /\ Held' \in [Keys -> Nat]
      /\ \A k \in Keys : Held[k] = AssetsOf(Locked(ledger, k))
      /\ \A k \in Keys : Held'[k] = AssetsOf(Locked(ledger', k))
  <2>1. Held' \in [Keys -> Nat] /\ \A k \in Keys : Held'[k] = AssetsOf(Locked(ledger', k))
    <3>1. Held' = [k \in Keys |-> AssetsOf(Locked(ledger', k))]
      BY DEF Held, Keys, Locked
    <3>2. \A k \in Keys : AssetsOf(Locked(ledger', k)) \in Nat
      BY <1>1, TransferOf, LockedCounted
    <3>. QED
      BY <3>1, <3>2
  <2>. QED
    BY <2>1, HeldIs
<1>7. Payer \in Keys
  BY DEF Keys
<1>8. Held[Payer] >= amount.value + amount.fee
  BY <1>1, <1>5, <1>6, <1>7, TransferOf
<1>9. ASSUME NEW k \in Keys
      PROVE  Held'[k] = Held[k] - (IF k = Payer THEN amount.value + amount.fee ELSE 0)
                          + (IF k = amount.payee THEN amount.value ELSE 0)
  <2>1. AssetsOf(Locked(ledger', k))
          = AssetsOf(Locked(ledger, k))
              - (IF k = Payer THEN a.value + a.fee ELSE 0)
              + (IF k = a.to.key THEN a.value ELSE 0)
    BY <1>1, TransferOf
  <2>. QED
    BY <1>5, <1>6, <2>1
<1>10. amount.value \in Nat /\ amount.fee \in Nat
  BY <1>5, ReadyMeans, WalletConstants
<1>11. Held' = [Held EXCEPT ![Payer] = @ - (amount.value + amount.fee),
                            ![amount.payee] = @ + amount.value]
  <2>. PICK h, payee, out, value :
         /\ h = Held /\ payee = amount.payee /\ value = amount.value
         /\ out = amount.value + amount.fee
    OBVIOUS
  <2>1. /\ payee \in Keys /\ out \in Nat /\ value \in Nat
        /\ h \in [Keys -> Nat] /\ Held' \in [Keys -> Nat]
    BY <1>4, <1>5, <1>6, <1>10
  <2>2. \A k \in Keys : Held'[k] = h[k] - (IF k = Payer THEN out ELSE 0)
                                     + (IF k = payee THEN value ELSE 0)
    BY <1>9
  <2>3. Held' = [h EXCEPT ![Payer] = @ - out, ![payee] = @ + value]
    <3>. PICK e : e = [h EXCEPT ![Payer] = @ - out, ![payee] = @ + value]
      OBVIOUS
    <3>1. DOMAIN e = Keys
      BY <2>1
    <3>2. CASE payee = Payer
      <4>1. \A k \in Keys : e[k] = IF k = Payer THEN h[k] - out + value ELSE h[k]
        BY <1>7, <2>1, <3>2
      <4>. QED
        BY <1>7, <2>1, <2>2, <3>1, <3>2, <4>1
    <3>3. CASE payee # Payer
      <4>1. \A k \in Keys : e[k] = IF k = Payer THEN h[k] - out
                                   ELSE IF k = payee THEN h[k] + value ELSE h[k]
        BY <1>7, <2>1, <3>3
      <4>. QED
        BY <1>7, <2>1, <2>2, <3>1, <3>3, <4>1, SMTT(30)
    <3>. QED
      BY <3>2, <3>3
  <2>. QED
    BY <2>3
<1>12. Authorized' = Authorized
  BY <1>2 DEF Authorized
<1>. QED
  BY <1>2, <1>3, <1>4, <1>8, <1>11, <1>12 DEF Promise!Pay

\* Every step is a step of the promise, or none.
LEMMA NextKeepsPromise ==
  ASSUME IInv, TypeInv, MoneyInv, (IInv /\ MoneyInv)', [Next]_vars
  PROVE  [Promise!Next]_(Promise!transfer)
<1>1. CASE UNCHANGED <<payload, ledger, paid>>
  BY <1>1 DEF Promise!transfer, Held, Authorized
<1>2. ASSUME NEW p \in Payments, Include(p)
      PROVE  Promise!Next
  BY <1>2, IncludePays DEF Promise!Next
<1>3. ASSUME NEW p \in Payments, TxIdPoke(p)
      PROVE  [Promise!Next]_(Promise!transfer)
  BY <1>3, TxIdPokeAuthorizes
<1>. QED
  BY <1>1, <1>2, <1>3
     DEF Next, Step, BuildWithWallet, BuildByHand, AuthorizeAndSign, SigHashPoke,
         Cancel, Settle, Forget, vars, callVars, chainVars

\* Money leaves the payer only by a payment that the payer authorized, once
\* for each, and by its value and fee and no more: the wallet, the surrogate
\* and the chain together implement Transfers (authorize_and_sign,
\* raw_tx_from_surrogate and consensus).
THEOREM MovesMoney == Spec => MovesMoneyAsPromised
<1>1. Init /\ IInv /\ MoneyInv => Promise!Init
  <2>. SUFFICES ASSUME Init, IInv, MoneyInv PROVE Promise!Init
    OBVIOUS
  <2>1. Held \in [{Payer} \cup Payees -> Nat]
    BY HeldIs DEF Keys
  <2>2. Authorized = [p \in Payments |-> NoAuth]
    BY DEF Init, Authorized, AuthorizedBy
  <2>. QED
    BY <2>1, <2>2 DEF Init, Promise!Init
<1>2. IInv /\ TypeInv /\ MoneyInv /\ (IInv /\ MoneyInv)' /\ [Next]_vars
        => [Promise!Next]_(Promise!transfer)
  BY NextKeepsPromise
<1>. QED
  BY <1>1, <1>2, WalletInvariant, QueueInOrder, MoneyInOrder, PTL
     DEF Spec, MovesMoneyAsPromised, Promise!Spec
=============================================================================
