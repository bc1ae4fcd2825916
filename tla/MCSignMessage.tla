---------------------------- MODULE MCSignMessage ----------------------------
(* A small field and alphabet for model checking SignMessage: digests of    *)
(* two belts modulo 3, four characters.                                     *)
EXTENDS SignMessage

MCPkhOf(k) == IF k = "k1" THEN << 2, 1 >> ELSE << 1, 2 >>

\* One hash spelled twice, another one, one beyond the field, and no text.
One == << 1 >>
OneAgain == << 0, 1 >>
Eight == << 2, 0 >>
Nine == << 2, 1 >>
NoText == << Bad >>

Note(first, last) == [first |-> first, last |-> last, assets |-> 1, lock |-> "simple-pkh"]

MCNoteLists ==
  { << >>,
    << Note(One, Eight) >>,
    << [Note(One, Eight) EXCEPT !.assets = 2, !.lock = "coinbase-pkh"] >>,
    << Note(One, Eight), Note(Eight, One) >>,
    << Note(Eight, One), Note(One, Eight) >>,
    << Note(Eight, One), Note(OneAgain, Eight) >>,
    << Note(One, Nine) >> }

SomeTexts == {One, OneAgain, Eight, Nine, NoText}

\* Numbers below, at and above the prime, up to the largest u64 and beyond.
Amounts == {0, 3, 4, 5, Unparsable}

MCFieldValues ==
  [from |-> {One, IdentifierOf("k1"), IdentifierOf("k2")}, to |-> SomeTexts, nonce |-> SomeTexts,
   changeAddress |-> SomeTexts, value |-> Amounts, fee |-> Amounts,
   validAfter |-> {0, 1, 3}, validBefore |-> {1, 2, 4}, notes |-> MCNoteLists]

MCAuthorizations ==
  [from : {IdentifierOf("k1")}, to : {One, Nine}, nonce : {Eight}, changeAddress : {One},
   value : {1, 4}, fee : {0, Unparsable}, validAfter : {1}, validBefore : {2},
   notes : MCNoteLists]
=============================================================================
