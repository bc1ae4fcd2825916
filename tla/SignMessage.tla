----------------------------- MODULE SignMessage -----------------------------
(***************************************************************************)
(* What the signature of an Authorization is over, and what it therefore   *)
(* holds together on the way from the signer to the verifier.              *)
(*                                                                         *)
(* x402_sign_message_digest packs the fields into field elements (belts)   *)
(* and hashes them.  The hash is taken to have no collisions, so a digest  *)
(* is the record of its input; the packing in front of it does identify    *)
(* authorizations, and how far is what is checked here.                    *)
(*                                                                         *)
(* A base58 text is the sequence of its digits, with Bad for a character   *)
(* outside of the alphabet; the alphabet is in the order of the characters *)
(* so that texts compare as their digits do.  A decimal text is its        *)
(* number, or Unparsable.                                                  *)
(***************************************************************************)
EXTENDS Integers, SequencesExt

CONSTANTS
  Prime,            \* the order of the field
  Lanes,            \* belts in a digest: 5
  Base,             \* the size of the alphabet: 58
  MaxU64,           \* the largest u64
  Keys,             \* key pairs
  PkhOf(_),         \* the digest of a public key's bytes
  Authorizations,   \* what clients ask their signers to sign
  FieldValues,      \* what a field is changed to on the way, by its name
  MaxEdits          \* bound: changes on the way

Bad == -1
Unparsable == -1

\* Nothing signed yet.
NoPayload == [none |-> TRUE]

Texts == Seq(Bad .. Base - 1)
Decimals == Nat \cup {Unparsable}
Times == 0 .. MaxU64
NoteRefs == [first : Texts, last : Texts, assets : Decimals, lock : STRING]

Messages ==
  [from : Texts, to : Texts, value : Decimals, fee : Decimals, nonce : Texts,
   validAfter : Times, validBefore : Times, notes : Seq(NoteRefs),
   changeAddress : Texts]

ASSUME SignMessageConstants ==
  /\ Prime \in Nat \ {0} /\ Lanes \in Nat \ {0} /\ Base \in Nat \ {0, 1}
  /\ MaxU64 \in Nat /\ MaxEdits \in Nat
  /\ \A k \in Keys : PkhOf(k) \in [1 .. Lanes -> 0 .. Prime - 1]
  /\ Authorizations \subseteq Messages
  /\ FieldValues \in
       [from : SUBSET Texts, to : SUBSET Texts, value : SUBSET Decimals,
        fee : SUBSET Decimals, nonce : SUBSET Texts, validAfter : SUBSET Times,
        validBefore : SUBSET Times, notes : SUBSET Seq(NoteRefs),
        changeAddress : SUBSET Texts]

(***************************************************************************)
(* Texts and belts.                                                        *)
(***************************************************************************)
\* The decoded bytes as a big-endian integer: leading zeros do not count.
TextValue(t) ==
  LET value[i \in 0 .. Len(t)] == IF i = 0 THEN 0 ELSE value[i - 1] * Base + t[i]
  IN  value[Len(t)]

\* What is left of a value after i belts have been taken from it.
Rest(value) ==
  LET rest[i \in 0 .. Lanes] == IF i = 0 THEN value ELSE rest[i - 1] \div Prime
  IN  rest

InAlphabet(t) == \A i \in DOMAIN t : t[i] # Bad

Decodes(t) == InAlphabet(t) /\ Rest(TextValue(t))[Lanes] = 0

\* base58_to_belts, of a text that decodes; the least significant belt first.
Base58ToBelts(t) == [i \in 1 .. Lanes |-> Rest(TextValue(t))[i - 1] % Prime]

\* A defect: the most significant belt first.
BeltsValueBackwards(belts) ==
  LET value[i \in 0 .. Lanes] == IF i = 0 THEN 0 ELSE value[i - 1] * Prime + belts[i]
  IN  value[Lanes]

BeltsValue(belts) ==
  LET value[i \in 0 .. Lanes] ==
        IF i = 0 THEN 0 ELSE value[i - 1] * Prime + belts[Lanes + 1 - i]
  IN  value[Lanes]

\* bs58::encode of a value's bytes: no leading zeros, and no digits for zero.
TextOf(value) ==
  LET text[v \in 0 .. value] ==
        IF v = 0 THEN << >> ELSE Append(text[v \div Base], v % Base)
  IN  text[value]

PkhBeltsToBase58(belts) == TextOf(BeltsValue(belts))

IdentifierOf(k) == PkhBeltsToBase58(PkhOf(k))

ParsesAsU64(n) == n \in 0 .. MaxU64

\* u64_to_belt
Belt(n) == n % Prime

(***************************************************************************)
(* The message.                                                            *)
(***************************************************************************)
TextBefore(s, t) ==
  \E k \in 0 .. Len(s) :
    /\ k <= Len(t)
    /\ \A i \in 1 .. k : s[i] = t[i]
    /\ \/ k = Len(s) /\ k < Len(t)
       \/ k < Len(s) /\ k < Len(t) /\ s[k + 1] < t[k + 1]

NoteBefore(a, b) ==
  TextBefore(a.first, b.first) \/ (a.first = b.first /\ TextBefore(a.last, b.last))

\* Where sort_by puts the i-th note; it is stable.
Place(notes, i) ==
  1 + Cardinality({j \in DOMAIN notes :
        \/ NoteBefore(notes[j], notes[i])
        \/ j < i /\ ~NoteBefore(notes[i], notes[j])})

Sorted(notes) ==
  [k \in DOMAIN notes |-> notes[CHOOSE i \in DOMAIN notes : Place(notes, i) = k]]

Tip5(belts) == [tip5 |-> belts]

NoteBelts(note) == Base58ToBelts(note.first) \o Base58ToBelts(note.last)

\* The belts of the names one after the other, or one for no notes at all.
NotesBelts(notes) ==
  LET belts[i \in 0 .. Len(notes)] ==
        IF i = 0 THEN << >> ELSE belts[i - 1] \o NoteBelts(notes[i])
  IN  IF notes = << >> THEN << 0 >> ELSE belts[Len(notes)]

\* A defect: the notes as they come.
NotesHashUnsorted(notes) == Tip5(NotesBelts(notes))

\* compute_notes_hash: names only, sorted as texts.
NotesHash(notes) == Tip5(NotesBelts(Sorted(notes)))

\* Every conversion in x402_sign_message_belts succeeds.
HasDigest(auth) ==
  /\ \A t \in {auth.from, auth.to, auth.nonce, auth.changeAddress} : Decodes(t)
  /\ ParsesAsU64(auth.value) /\ ParsesAsU64(auth.fee)
  /\ \A i \in DOMAIN auth.notes :
       Decodes(auth.notes[i].first) /\ Decodes(auth.notes[i].last)

\* A defect: the change address is left out.
DigestWithoutChange(auth) ==
  Tip5(<< "x402-nockchain-v2", Base58ToBelts(auth.from), Base58ToBelts(auth.to),
          Belt(auth.value), Belt(auth.fee), Base58ToBelts(auth.nonce),
          Belt(auth.validAfter), Belt(auth.validBefore), NotesHash(auth.notes) >>)

Digest(auth) ==
  Tip5(<< "x402-nockchain-v2", Base58ToBelts(auth.from), Base58ToBelts(auth.to),
          Belt(auth.value), Belt(auth.fee), Base58ToBelts(auth.nonce),
          Belt(auth.validAfter), Belt(auth.validBefore), NotesHash(auth.notes),
          Base58ToBelts(auth.changeAddress) >>)

-----------------------------------------------------------------------------
VARIABLES
  signed,       \* history: the authorization the signer was given
  payload,      \* the authorization and signature on the way, or NoPayload
  edits,        \* how often it has been changed
  result        \* what the signer or the verifier said last

vars == <<signed, payload, edits, result>>

Verdicts == {"ok", "signature_decode", "pubkey_binding", "sign_message", "signature_invalid"}

TypeOK ==
  /\ edits \in 0 .. MaxEdits
  /\ result \in {"none", "unsigned"} \cup Verdicts
  /\ payload = NoPayload <=> signed = NoPayload \/ result = "unsigned"
  /\ result \in Verdicts /\ edits = 0 =>
       payload.authorization = signed

Init ==
  /\ signed = NoPayload
  /\ payload = NoPayload
  /\ edits = 0
  /\ result = "none"

\* A defect: the signer puts its own identifier into what it was given.
SignAuthorizationFillingFrom(k, auth) ==
  LET own == [auth EXCEPT !.from = IdentifierOf(k)]
  IN  /\ signed = NoPayload
      /\ signed' = auth
      /\ IF HasDigest(own)
           THEN /\ payload' = [authorization |-> own,
                               signature |-> [key |-> k, over |-> Digest(own),
                                              decodes |-> TRUE]]
                /\ result' = "none"
           ELSE /\ result' = "unsigned"
                /\ UNCHANGED payload
      /\ UNCHANGED edits

\* NockchainSigner::sign_authorization with key k: an error when the digest
\* cannot be computed.
SignAuthorization(k, auth) ==
  /\ signed = NoPayload
  /\ signed' = auth
  /\ IF HasDigest(auth)
       THEN /\ payload' = [authorization |-> auth,
                           signature |-> [key |-> k, over |-> Digest(auth),
                                          decodes |-> TRUE]]
            /\ result' = "none"
       ELSE /\ result' = "unsigned"
            /\ UNCHANGED payload
  /\ UNCHANGED edits

\* A field is changed on the way, the notes are put in another order or
\* otherwise rewritten, or the signature is damaged.
Change ==
  /\ payload # NoPayload
  /\ edits < MaxEdits
  /\ edits' = edits + 1
  /\ \/ \E f \in DOMAIN FieldValues : \E v \in FieldValues[f] :
          payload' = [payload EXCEPT !.authorization[f] = v]
     \/ payload' = [payload EXCEPT !.signature.decodes = FALSE]
  /\ result' = "none"
  /\ UNCHANGED signed

\* NockchainVerifier::verify_payment
Verdict(auth, signature) ==
  IF ~signature.decodes THEN "signature_decode"
  ELSE IF IdentifierOf(signature.key) # auth.from THEN "pubkey_binding"
  ELSE IF ~HasDigest(auth) THEN "sign_message"
  ELSE IF signature.over # Digest(auth) THEN "signature_invalid"
  ELSE "ok"

VerifyPayment ==
  /\ payload # NoPayload
  /\ result = "none"
  /\ result' = Verdict(payload.authorization, payload.signature)
  /\ UNCHANGED <<signed, payload, edits>>

Next ==
  \/ \E k \in Keys, auth \in Authorizations : SignAuthorization(k, auth)
  \/ Change
  \/ VerifyPayment

Spec == Init /\ [][Next]_vars

-----------------------------------------------------------------------------
(***************************************************************************)
(* Properties.                                                             *)
(***************************************************************************)
Same(n, m) == n % Prime = m % Prime

\* The names of the notes, each as often as it occurs.
NameCount(notes, name) ==
  Cardinality({i \in DOMAIN notes :
    <<Base58ToBelts(notes[i].first), Base58ToBelts(notes[i].last)>> = name})

NamesIn(notes) ==
  {<<Base58ToBelts(notes[i].first), Base58ToBelts(notes[i].last)>> : i \in DOMAIN notes}

SameNames(ns, ms) ==
  \A name \in NamesIn(ns) \cup NamesIn(ms) : NameCount(ns, name) = NameCount(ms, name)

\* What verify_payment accepts is what was signed: every field, but for the
\* multiple of the prime in a number (u64_to_belt), the spelling of a hash
\* (base58_to_belts), the order of the notes, and what a note says besides
\* its name (compute_notes_hash).
VerifiedIsSigned ==
  LET auth == payload.authorization
  IN  result = "ok" =>
        /\ auth.from = IdentifierOf(payload.signature.key)
        /\ \A f \in {"from", "to", "nonce", "changeAddress"} :
             Base58ToBelts(auth[f]) = Base58ToBelts(signed[f])
        /\ \A f \in {"value", "fee", "validAfter", "validBefore"} : Same(auth[f], signed[f])
        /\ SameNames(auth.notes, signed.notes)

NameTexts(notes) == [i \in DOMAIN notes |-> <<notes[i].first, notes[i].last>>]

Occurrences(s, x) == Cardinality({i \in DOMAIN s : s[i] = x})

Reordered(s, t) == \A x \in ToSet(s) \cup ToSet(t) : Occurrences(s, x) = Occurrences(t, x)

\* "Notes are sorted lexicographically" (sign_message.rs): a list of notes that
\* arrives in another order than it was signed in still verifies.
OrderDoesNotMatter ==
  LET auth == payload.authorization
  IN  result = "signature_invalid" =>
        ~(/\ [auth EXCEPT !.notes = << >>] = [signed EXCEPT !.notes = << >>]
          /\ Reordered(NameTexts(auth.notes), NameTexts(signed.notes)))

\* from_identifier writes the hash so that base58_to_belts reads the same hash:
\* a payload that a signer made for itself, and nobody changed, verifies.
SignerIsVerified ==
  /\ result \in Verdicts /\ edits = 0 =>
       (result = "ok" <=> signed.from = IdentifierOf(payload.signature.key))
  /\ result = "ok" =>
       Base58ToBelts(payload.authorization.from) = PkhOf(payload.signature.key)
=============================================================================
