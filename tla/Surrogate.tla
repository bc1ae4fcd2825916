------------------------------ MODULE Surrogate ------------------------------
(***************************************************************************)
(* The JSON surrogate of a signed transaction, both ways: what the wallet  *)
(* ships inside the payload (surrogate_from_raw_tx) and what the           *)
(* facilitator's chain client reads out of it (raw_tx_from_surrogate).     *)
(*                                                                         *)
(* A text on the wire is a pair of its notation and its value: "b58" for   *)
(* hashes and public keys, "dec" for amounts, "belts" for the two lanes of *)
(* a signature, "jam" for the nouns that are carried as base64.  A text in *)
(* another notation is one the decoder refuses.  An Option is a sequence   *)
(* of at most one element.                                                 *)
(***************************************************************************)
EXTENDS Integers, Sequences

CONSTANT MaxU64     \* largest amount the decoder's u64 holds

None == << >>
Some(x) == << x >>

B58(h) == << "b58", h >>
Decimal(n) == << "dec", n >>
Belts(s) == << "belts", s >>
Jam(x) == << "jam", x >>

IsB58(t) == t[1] = "b58"
IsU64(t) == t[1] = "dec" /\ t[2] \in 0 .. MaxU64
IsBelts(t) == t[1] = "belts"
IsJam(t) == t[1] = "jam"

(***************************************************************************)
(* RawTx -> SignedRawTx.                                                   *)
(***************************************************************************)
SignedPkhEntry(e) ==
  [hash |-> B58(e.hash), pubkey |-> B58(e.pubkey), signature |-> Belts(e.signature)]

SignedHax(x) == [hash |-> B58(x.hash), valueNoun |-> Jam(x.value)]

SignedWitness(w) ==
  [lockMerkleProofNoun |-> Jam(w.lockMerkleProof),
   pkhSignature |-> [i \in DOMAIN w.pkhSignature |-> SignedPkhEntry(w.pkhSignature[i])],
   hax |-> [i \in DOMAIN w.hax |-> SignedHax(w.hax[i])],
   tim |-> w.tim]

\* No output source and no note data leave the field out.
SignedSeed(s) ==
  [outputSourceNoun |->
     IF s.outputSource = None THEN None ELSE Some(Jam(s.outputSource[1])),
   lockRoot |-> B58(s.lockRoot),
   noteDataNoun |-> IF s.noteData = << >> THEN None ELSE Some(Jam(s.noteData)),
   gift |-> Decimal(s.gift),
   parentHash |-> B58(s.parentHash)]

SignedSpendEntry(entry) ==
  [name |-> B58(entry.name),
   spend |-> [witness |-> SignedWitness(entry.spend.witness),
              seeds |-> [i \in DOMAIN entry.spend.seeds |->
                           SignedSeed(entry.spend.seeds[i])],
              fee |-> Decimal(entry.spend.fee)]]

\* Only v1 transactions without legacy spends have a surrogate.
HasSurrogate(raw) ==
  /\ raw.version = "V1"
  /\ \A i \in DOMAIN raw.spends : raw.spends[i].kind = "witness"

SurrogateFromRawTx(raw) ==
  [version |-> "v1",
   txId |-> B58(raw.id),
   spends |-> [i \in DOMAIN raw.spends |-> SignedSpendEntry(raw.spends[i])]]

(***************************************************************************)
(* SignedRawTx -> RawTx: what must hold of the texts, and the result.      *)
(***************************************************************************)
PkhEntryDecodes(e) == IsB58(e.hash) /\ IsB58(e.pubkey) /\ IsBelts(e.signature)

PkhEntryFromSurrogate(e) ==
  [hash |-> e.hash[2], pubkey |-> e.pubkey[2], signature |-> e.signature[2]]

WitnessDecodes(w) ==
  /\ IsJam(w.lockMerkleProofNoun)
  /\ \A i \in DOMAIN w.pkhSignature : PkhEntryDecodes(w.pkhSignature[i])
  /\ \A i \in DOMAIN w.hax : IsB58(w.hax[i].hash) /\ IsJam(w.hax[i].valueNoun)

WitnessFromSurrogate(w) ==
  [lockMerkleProof |-> w.lockMerkleProofNoun[2],
   pkhSignature |-> [i \in DOMAIN w.pkhSignature |->
                       PkhEntryFromSurrogate(w.pkhSignature[i])],
   hax |-> [i \in DOMAIN w.hax |->
              [hash |-> w.hax[i].hash[2], value |-> w.hax[i].valueNoun[2]]],
   tim |-> w.tim]

SeedDecodes(s) ==
  /\ s.outputSourceNoun # None => IsJam(s.outputSourceNoun[1])
  /\ IsB58(s.lockRoot)
  /\ s.noteDataNoun # None => IsJam(s.noteDataNoun[1])
  /\ IsU64(s.gift)
  /\ IsB58(s.parentHash)

SeedFromSurrogate(s) ==
  [outputSource |->
     IF s.outputSourceNoun = None THEN None ELSE Some(s.outputSourceNoun[1][2]),
   lockRoot |-> s.lockRoot[2],
   noteData |-> IF s.noteDataNoun = None THEN << >> ELSE s.noteDataNoun[1][2],
   gift |-> s.gift[2],
   parentHash |-> s.parentHash[2]]

SpendDecodes(entry) ==
  /\ IsB58(entry.name)
  /\ WitnessDecodes(entry.spend.witness)
  /\ \A i \in DOMAIN entry.spend.seeds : SeedDecodes(entry.spend.seeds[i])
  /\ IsU64(entry.spend.fee)

\* Every spend that comes off the wire is a witness spend.
SpendFromSurrogate(entry) ==
  [name |-> entry.name[2],
   kind |-> "witness",
   spend |-> [witness |-> WitnessFromSurrogate(entry.spend.witness),
              seeds |-> [i \in DOMAIN entry.spend.seeds |->
                           SeedFromSurrogate(entry.spend.seeds[i])],
              fee |-> entry.spend.fee[2]]]

SurrogateDecodes(signed) ==
  /\ signed.version = "v1"
  /\ IsB58(signed.txId)
  /\ \A i \in DOMAIN signed.spends : SpendDecodes(signed.spends[i])

\* The id is the one the text claims; it is not computed again.
RawTxFromSurrogate(signed) ==
  [version |-> "V1",
   id |-> signed.txId[2],
   spends |-> [i \in DOMAIN signed.spends |-> SpendFromSurrogate(signed.spends[i])]]

(***************************************************************************)
(* The transactions the two types can hold, over any sets of hashes, keys, *)
(* signatures and nouns.                                                   *)
(***************************************************************************)
SeedsOver(Hashes, Nouns) ==
  [outputSource : {None} \cup {Some(x) : x \in Nouns},
   lockRoot : Hashes,
   noteData : Seq(Nouns),
   gift : 0 .. MaxU64,
   parentHash : Hashes]

WitnessesOver(Hashes, Keys, Signatures, Nouns) ==
  [lockMerkleProof : Nouns,
   pkhSignature : Seq([hash : Hashes, pubkey : Keys, signature : Signatures]),
   hax : Seq([hash : Hashes, value : Nouns]),
   tim : 0 .. MaxU64]

RawTxsOver(Hashes, Keys, Signatures, Nouns) ==
  [version : {"V1"},
   id : Hashes,
   spends : Seq([name : Hashes,
                 kind : {"witness"},
                 spend : [witness : WitnessesOver(Hashes, Keys, Signatures, Nouns),
                          seeds : Seq(SeedsOver(Hashes, Nouns)),
                          fee : 0 .. MaxU64]])]
=============================================================================
