-------------------------- MODULE SignMessage_proofs --------------------------
(***************************************************************************)
(* What SignMessage claims, for any prime, any number of belts in a        *)
(* digest, any alphabet, any authorizations and any notes.                 *)
(***************************************************************************)
EXTENDS SignMessage, FiniteSetTheorems, SequenceTheorems, WellFoundedInduction, TLAPS

(***************************************************************************)
(* Induction and recursion over the numbers.                               *)
(***************************************************************************)
\* A set of numbers has a least one: what induction is made of here.
LEMMA LeastNumber ==
  ASSUME NEW T \in SUBSET Nat, T # {}
  PROVE  \E x \in T : \A y \in T : x <= y
<1> DEFINE less == OpToRel(<, Nat)
<1>1. IsWellFoundedOn(less, Nat)
  BY NatLessThanWellFounded
<1>2. \A x, y \in Nat : x < y => <<x, y>> \in less
  BY DEF OpToRel
<1>. HIDE DEF less
<1>3. PICK x \in T : \A y \in T : ~(<<y, x>> \in less)
  BY <1>1, WFMin
<1>. SUFFICES ASSUME NEW y \in T PROVE x <= y
  OBVIOUS
<1>4. x \in Nat /\ y \in Nat /\ ~(<<y, x>> \in less)
  BY <1>3
<1>5. ~(y < x)
  BY <1>2, <1>4, Zenon
<1>. QED
  BY <1>4, <1>5

\* A set that holds a number whenever it holds all those below it holds all.
LEMMA NumbersByInduction ==
  ASSUME NEW n \in Nat, NEW T,
         \A i \in 0 .. n : (\A j \in 0 .. i - 1 : j \in T) => i \in T
  PROVE  \A i \in 0 .. n : i \in T
<1> DEFINE U == {i \in 0 .. n : i \notin T}
<1>1. U \in SUBSET Nat
  OBVIOUS
<1>2. CASE U # {}
  <2>1. PICK x \in U : \A y \in U : x <= y
    BY <1>1, <1>2, LeastNumber
  <2>2. \A j \in 0 .. x - 1 : j \in T
    BY <2>1
  <2>. QED
    BY <2>1, <2>2
<1>. QED
  BY <1>2

\* f is defined by recursion: a at zero, and g of a number and of what f is at
\* the smaller number h.
Recurs(f, n, a, h, g) ==
  f = [v \in 0 .. n |-> IF v = 0 THEN a ELSE g[v][f[h[v]]]]

\* What such an f is at each number.
LEMMA RecursAt ==
  ASSUME NEW n \in Nat, NEW a, NEW h, NEW g, NEW f, Recurs(f, n, a, h, g)
  PROVE  /\ DOMAIN f = 0 .. n
         /\ f[0] = a
         /\ \A v \in 1 .. n : f[v] = g[v][f[h[v]]]
<1>1. ASSUME NEW v \in 1 .. n PROVE f[v] = g[v][f[h[v]]]
  <2>1. v \in 0 .. n /\ v # 0
    OBVIOUS
  <2>. QED
    BY <2>1 DEF Recurs
<1>2. 0 \in 0 .. n
  OBVIOUS
<1>3. f[0] = a
  BY <1>2 DEF Recurs
<1>4. DOMAIN f = 0 .. n
  BY DEF Recurs
<1>. QED
  BY <1>1, <1>3, <1>4

\* Where its values are.
LEMMA RecursType ==
  ASSUME NEW n \in Nat, NEW S, NEW a \in S, NEW h \in [1 .. n -> Nat],
         \A v \in 1 .. n : h[v] < v, NEW g \in [1 .. n -> [S -> S]],
         NEW f, Recurs(f, n, a, h, g)
  PROVE  f \in [0 .. n -> S]
<1> DEFINE T == {v \in 0 .. n : f[v] \in S}
<1>1. ASSUME NEW i \in 0 .. n, \A j \in 0 .. i - 1 : j \in T
      PROVE  i \in T
  <2>1. CASE i = 0
    BY <2>1, RecursAt
  <2>2. CASE i # 0
    <3>1. i \in 1 .. n /\ h[i] \in 0 .. i - 1
      BY <2>2
    <3>2. f[h[i]] \in S /\ f[i] = g[i][f[h[i]]]
      BY <1>1, <3>1, RecursAt
    <3>. QED
      BY <3>1, <3>2
  <2>. QED
    BY <2>1, <2>2
<1>. HIDE DEF T
<1>2. \A i \in 0 .. n : i \in T
  BY <1>1, NumbersByInduction
<1>3. \A i \in 0 .. n : f[i] \in S
  BY <1>2 DEF T
<1>4. DOMAIN f = 0 .. n /\ f = [v \in DOMAIN f |-> f[v]]
  BY RecursAt DEF Recurs
<1>. QED
  BY <1>3, <1>4

\* There is one.
LEMMA RecursExists ==
  ASSUME NEW n \in Nat, NEW a, NEW h \in [1 .. n -> Nat],
         \A v \in 1 .. n : h[v] < v, NEW g
  PROVE  \E f : Recurs(f, n, a, h, g)
<1> DEFINE Defined(f, m) ==
             /\ f = [v \in 0 .. m |-> f[v]]
             /\ f[0] = a
             /\ \A v \in 1 .. m : f[v] = g[v][f[h[v]]]
           T == {m \in 0 .. n : \E f : Defined(f, m)}
<1>1. ASSUME NEW m \in 0 .. n, \A j \in 0 .. m - 1 : j \in T
      PROVE  m \in T
  <2>1. CASE m = 0
    <3> DEFINE f == [v \in 0 .. 0 |-> a]
    <3>1. Defined(f, 0)
      OBVIOUS
    <3>. HIDE DEF Defined
    <3>. QED
      BY <2>1, <3>1
  <2>2. CASE m # 0
    <3>1. m - 1 \in T /\ m - 1 \in Nat /\ m \in 1 .. n
      BY <1>1, <2>2
    <3>2. PICK f : Defined(f, m - 1)
      BY <3>1
    <3> DEFINE e == [v \in 0 .. m |-> IF v = m THEN g[m][f[h[m]]] ELSE f[v]]
    <3>3. DOMAIN e = 0 .. m /\ e[m] = g[m][f[h[m]]] /\ \A v \in 0 .. m - 1 : e[v] = f[v]
      BY <3>1
    <3>4. e = [v \in 0 .. m |-> e[v]]
      BY <3>3
    <3>. HIDE DEF e
    <3>5. e[0] = a
      <4>1. f[0] = a
        BY <3>2
      <4>2. 0 \in 0 .. m - 1
        BY <3>1
      <4>3. e[0] = f[0]
        BY <3>3, <4>2
      <4>. QED
        BY <4>1, <4>3
    <3>6. ASSUME NEW v \in 1 .. m PROVE e[v] = g[v][e[h[v]]]
      <4>1. h[v] \in 0 .. m - 1 /\ e[h[v]] = f[h[v]]
        BY <3>1, <3>3
      <4>2. CASE v = m
        BY <3>3, <4>1, <4>2
      <4>3. CASE v # m
        <5>1. v \in 1 .. m - 1 /\ v \in 0 .. m - 1
          BY <4>3
        <5>. QED
          BY <3>2, <3>3, <4>1, <5>1
      <4>. QED
        BY <4>2, <4>3
    <3>7. Defined(e, m)
      BY <3>4, <3>5, <3>6
    <3>. HIDE DEF Defined
    <3>. QED
      BY <3>7
  <2>. QED
    BY <2>1, <2>2
<1>. HIDE DEF T
<1>2. \A m \in 0 .. n : m \in T
  BY <1>1, NumbersByInduction
<1>3. PICK f : Defined(f, n)
  BY <1>2 DEF T
<1>4. ASSUME NEW v \in 0 .. n
      PROVE  f[v] = IF v = 0 THEN a ELSE g[v][f[h[v]]]
  <2>1. v = 0 \/ v \in 1 .. n
    OBVIOUS
  <2>. QED
    BY <1>3, <2>1
<1>5. f = [v \in 0 .. n |-> f[v]]
  BY <1>3
<1>6. Recurs(f, n, a, h, g)
  BY <1>4, <1>5 DEF Recurs
<1>. QED
  BY <1>6

\* What two functions agree on.
Alike(e, f, n) == \A v \in 0 .. n : e[v] = f[v]

\* There is no more than one.
LEMMA RecursUnique ==
  ASSUME NEW n \in Nat, NEW a, NEW h \in [1 .. n -> Nat],
         \A v \in 1 .. n : h[v] < v, NEW e, NEW f,
         e[0] = f[0],
         \A v \in 1 .. n : e[h[v]] = f[h[v]] => e[v] = f[v]
  PROVE  Alike(e, f, n)
<1> DEFINE T == {v \in 0 .. n : e[v] = f[v]}
<1>1. ASSUME NEW i \in 0 .. n, \A j \in 0 .. i - 1 : j \in T
      PROVE  i \in T
  <2>1. i = 0 \/ (i \in 1 .. n /\ h[i] \in 0 .. i - 1)
    OBVIOUS
  <2>. QED
    BY <1>1, <2>1
<1>. HIDE DEF T
<1>2. \A i \in 0 .. n : i \in T
  BY <1>1, NumbersByInduction
<1>. QED
  BY <1>2 DEF T, Alike

\* The simple case, a loop: what it starts from, and what each turn makes of
\* what the last one left.
Loop(f, n, S, a, step) ==
  /\ f \in [0 .. n -> S]
  /\ f[0] = a
  /\ \A v \in 1 .. n : f[v] = step[v][f[v - 1]]

\* There is such an f: what Rest, BeltsValue and NotesBelts choose exists.
LEMMA LoopExists ==
  ASSUME NEW n \in Nat, NEW S, NEW a \in S, NEW step \in [1 .. n -> [S -> S]]
  PROVE  \E f : Loop(f, n, S, a, step)
<1> DEFINE h == [v \in 1 .. n |-> v - 1]
<1>1. h \in [1 .. n -> Nat]
  OBVIOUS
<1>2. \A v \in 1 .. n : h[v] = v - 1
  OBVIOUS
<1>. HIDE DEF h
<1>3. \A v \in 1 .. n : h[v] < v
  BY <1>2
<1>4. PICK f : Recurs(f, n, a, h, step)
  BY <1>1, <1>3, RecursExists
<1>5. f \in [0 .. n -> S]
  BY <1>1, <1>3, <1>4, RecursType
<1>6. f[0] = a /\ \A v \in 1 .. n : f[v] = step[v][f[h[v]]]
  BY <1>4, RecursAt
<1>. QED
  BY <1>2, <1>5, <1>6, SMTT(30) DEF Loop

\* Two functions that start alike and go on alike are alike.
LEMMA LoopUnique ==
  ASSUME NEW n \in Nat, NEW e, NEW f, e[0] = f[0],
         \A v \in 1 .. n : e[v - 1] = f[v - 1] => e[v] = f[v]
  PROVE  Alike(e, f, n)
<1> DEFINE T == {v \in 0 .. n : e[v] = f[v]}
<1>1. ASSUME NEW i \in 0 .. n, \A j \in 0 .. i - 1 : j \in T
      PROVE  i \in T
  <2>1. i = 0 \/ (i \in 1 .. n /\ i - 1 \in 0 .. i - 1)
    OBVIOUS
  <2>. QED
    BY <1>1, <2>1
<1>. HIDE DEF T
<1>2. \A i \in 0 .. n : i \in T
  BY <1>1, NumbersByInduction
<1>. QED
  BY <1>2 DEF T, Alike

-----------------------------------------------------------------------------
(***************************************************************************)
(* Texts and belts are digits of one number.                               *)
(***************************************************************************)
\* f is what the first digits of t come to.
Reads(f, t) ==
  /\ f \in [0 .. Len(t) -> Int]
  /\ f[0] = 0
  /\ \A i \in 1 .. Len(t) : f[i] = f[i - 1] * Base + t[i]

\* TextValue reads a text digit by digit.
LEMMA TextValueReads ==
  ASSUME NEW t \in Seq(Int)
  PROVE  \E f : Reads(f, t) /\ TextValue(t) = f[Len(t)]
<1> DEFINE Turn(i, x) == x * Base + t[i]
           Eq(f) == f = [i \in 0 .. Len(t) |-> IF i = 0 THEN 0 ELSE Turn(i, f[i - 1])]
           c == CHOOSE f : Eq(f)
<1>1. TextValue(t) = c[Len(t)]
  BY DEF TextValue
<1>2. PICK n \in Nat : n = Len(t)
  OBVIOUS
<1>3. \A i \in 1 .. n, x \in Int : Turn(i, x) \in Int
  <2>1. Base \in Int /\ \A i \in 1 .. n : t[i] \in Int
    BY <1>2, SignMessageConstants
  <2>2. \A x \in Int : x * Base \in Int
    BY <2>1
  <2>. QED
    BY <2>1, <2>2
<1>4. \A f : Reads(f, t) <=> f \in [0 .. n -> Int] /\ f[0] = 0 /\ \A i \in 1 .. n : f[i] = Turn(i, f[i - 1])
  BY <1>2 DEF Reads
<1>. HIDE DEF Turn
<1>5. \E f \in [0 .. n -> Int] : f[0] = 0 /\ \A v \in 1 .. n : f[v] = Turn(v, f[v - 1])
  <2> DEFINE g == [i \in 1 .. n |-> [x \in Int |-> Turn(i, x)]]
  <2>1. g \in [1 .. n -> [Int -> Int]]
    BY <1>3
  <2>2. \A i \in 1 .. n, x \in Int : g[i][x] = Turn(i, x)
    OBVIOUS
  <2>. HIDE DEF g
  <2>0. PICK z \in Int : z = 0
    OBVIOUS
  <2>3. PICK f : Loop(f, n, Int, z, g)
    BY <2>1, LoopExists
  <2>4. ASSUME NEW v \in 1 .. n PROVE f[v] = Turn(v, f[v - 1])
    <3>1. v - 1 \in 0 .. n
      OBVIOUS
    <3>2. f[v - 1] \in Int /\ f[v] = g[v][f[v - 1]]
      BY <2>3, <3>1 DEF Loop
    <3>. QED
      BY <2>2, <3>2
  <2>. QED
    BY <2>0, <2>3, <2>4 DEF Loop
<1>6. PICK f \in [0 .. n -> Int] : f[0] = 0 /\ \A v \in 1 .. n : f[v] = Turn(v, f[v - 1])
  BY <1>5
<1>7. Eq(f)
  <2>1. \A i \in 0 .. n : f[i] = IF i = 0 THEN 0 ELSE Turn(i, f[i - 1])
    BY <1>6
  <2>2. f = [i \in 0 .. n |-> f[i]]
    BY <1>6
  <2>. QED
    BY <1>2, <2>1, <2>2
<1>. HIDE DEF Eq
<1>8. Eq(c)
  BY <1>7
<1>. HIDE DEF c
<1>9. \A i \in 0 .. n : c[i] = IF i = 0 THEN 0 ELSE Turn(i, c[i - 1])
  BY <1>2, <1>8 DEF Eq
<1>10. c[0] = f[0] /\ \A v \in 1 .. n : c[v - 1] = f[v - 1] => c[v] = f[v]
  BY <1>6, <1>9
<1>11. Alike(c, f, n)
  BY <1>10, LoopUnique
<1>. QED
  BY <1>1, <1>2, <1>4, <1>6, <1>11, SMTT(30) DEF Alike

\* No digits are nothing, and one more digit is the base times what was
\* there, and the digit.
LEMMA TextValueOfNone ==
  TextValue(<< >>) = 0
<1>1. << >> \in Seq(Int) /\ Len(<< >>) = 0
  OBVIOUS
<1>2. PICK f : Reads(f, << >>) /\ TextValue(<< >>) = f[Len(<< >>)]
  BY <1>1, TextValueReads
<1>. QED
  BY <1>1, <1>2 DEF Reads

\* A digit at the end of a text is a digit at the low end of its number.
LEMMA TextValueOfAppend ==
  ASSUME NEW t \in Seq(Int), NEW d \in Int
  PROVE  TextValue(Append(t, d)) = TextValue(t) * Base + d
<1>1. PICK s : s = Append(t, d)
  OBVIOUS
<1>2. PICK n \in Nat : n = Len(t)
  OBVIOUS
<1>3. s \in Seq(Int) /\ Len(s) = n + 1 /\ s[n + 1] = d /\ \A i \in 1 .. n : s[i] = t[i]
  BY <1>1, <1>2
<1>4. PICK e : Reads(e, s) /\ TextValue(s) = e[n + 1]
  BY <1>3, TextValueReads
<1>5. PICK f : Reads(f, t) /\ TextValue(t) = f[n]
  BY <1>2, TextValueReads
<1>6. e[0] = f[0]
  BY <1>4, <1>5 DEF Reads
<1>7. ASSUME NEW v \in 1 .. n, e[v - 1] = f[v - 1] PROVE e[v] = f[v]
  <2>1. v \in 1 .. Len(s) /\ v \in 1 .. Len(t) /\ s[v] = t[v]
    BY <1>2, <1>3
  <2>2. e[v] = e[v - 1] * Base + s[v]
    BY <1>4, <2>1 DEF Reads
  <2>3. f[v] = f[v - 1] * Base + t[v]
    BY <1>5, <2>1 DEF Reads
  <2>. QED
    BY <1>7, <2>1, <2>2, <2>3
<1>8. Alike(e, f, n)
  BY <1>6, <1>7, LoopUnique
<1>9. e[n] = f[n]
  BY <1>8 DEF Alike
<1>10. e[n + 1] = e[n] * Base + d
  <2>1. n + 1 \in 1 .. Len(s) /\ (n + 1) - 1 = n
    BY <1>3
  <2>. QED
    BY <1>3, <1>4, <2>1 DEF Reads
<1>. QED
  BY <1>1, <1>4, <1>5, <1>9, <1>10

\* A text in the alphabet is a number.
LEMMA TextValueType ==
  ASSUME NEW t \in Seq(0 .. Base - 1)
  PROVE  TextValue(t) \in Nat
<1>1. Base \in Nat /\ t \in Seq(Int)
  BY SignMessageConstants
<1>2. PICK n \in Nat : n = Len(t)
  OBVIOUS
<1>3. PICK f : Reads(f, t) /\ TextValue(t) = f[n]
  BY <1>1, <1>2, TextValueReads
<1> DEFINE T == {v \in 0 .. n : f[v] \in Nat}
<1>4. ASSUME NEW i \in 0 .. n, \A j \in 0 .. i - 1 : j \in T
      PROVE  i \in T
  <2>1. CASE i = 0
    BY <1>3, <2>1 DEF Reads
  <2>2. CASE i # 0
    <3>1. i \in 1 .. n /\ f[i - 1] \in Nat /\ t[i] \in Nat
      BY <1>1, <1>2, <1>4, <2>2
    <3>2. f[i] = f[i - 1] * Base + t[i]
      BY <1>2, <1>3, <3>1 DEF Reads
    <3>3. f[i - 1] * Base \in Nat
      BY <1>1, <3>1
    <3>. QED
      BY <3>1, <3>2, <3>3
  <2>. QED
    BY <2>1, <2>2
<1>. HIDE DEF T
<1>5. \A i \in 0 .. n : i \in T
  BY <1>4, NumbersByInduction
<1>. QED
  BY <1>3, <1>5 DEF T

\* f is the text of each number up to n.
Spells(f, n) ==
  /\ f \in [0 .. n -> Seq(0 .. Base - 1)]
  /\ f[0] = << >>
  /\ \A v \in 1 .. n : f[v] = Append(f[v \div Base], v % Base)

\* What is left of a number without its last digit, and that digit.
LEMMA LastDigit ==
  ASSUME NEW v \in Nat \ {0}
  PROVE  /\ v \div Base \in Nat /\ v \div Base < v
         /\ v % Base \in 0 .. Base - 1
         /\ v = (v \div Base) * Base + (v % Base)
<1>1. Base \in Nat \ {0, 1}
  BY SignMessageConstants
<1>2. v \div Base < v
  BY <1>1, SMTT(20)
<1>3. v \div Base \in Nat /\ v % Base \in 0 .. Base - 1
  BY <1>1, SMTT(20)
<1>4. v = (v \div Base) * Base + (v % Base)
  BY <1>1, SMTT(20)
<1>. QED
  BY <1>2, <1>3, <1>4

\* TextOf spells the number and all below it.
LEMMA TextOfSpells ==
  ASSUME NEW n \in Nat
  PROVE  \E f : Spells(f, n) /\ TextOf(n) = f[n]
<1> DEFINE Digits == Seq(0 .. Base - 1)
           Less(v) == v \div Base
           Turn(v, x) == Append(x, v % Base)
           h == [v \in 1 .. n |-> Less(v)]
           g == [v \in 1 .. n |-> [x \in Digits |-> Turn(v, x)]]
           Eq(f) == f = [v \in 0 .. n |-> IF v = 0 THEN << >> ELSE Turn(v, f[Less(v)])]
           c == CHOOSE f : Eq(f)
<1>1. TextOf(n) = c[n]
  BY DEF TextOf
<1>2. \A v \in 1 .. n : Less(v) \in 0 .. v - 1
  BY LastDigit
<1>3. \A v \in 1 .. n, x \in Digits : Turn(v, x) \in Digits
  <2>1. \A v \in 1 .. n : v % Base \in 0 .. Base - 1
    BY LastDigit
  <2>2. \A x \in Digits, d \in 0 .. Base - 1 : Append(x, d) \in Digits
    OBVIOUS
  <2>. QED
    BY <2>1, <2>2
<1>4. \A f : Spells(f, n) <=> f \in [0 .. n -> Digits] /\ f[0] = << >> /\ \A v \in 1 .. n : f[v] = Turn(v, f[Less(v)])
  BY DEF Spells
<1>7. PICK z \in Digits : z = << >>
  <2>1. << >> \in Seq(0 .. Base - 1)
    OBVIOUS
  <2>. QED
    BY <2>1
<1>. HIDE DEF Digits, Less, Turn
<1>5. h \in [1 .. n -> Nat] /\ \A v \in 1 .. n : h[v] = Less(v) /\ h[v] < v
  BY <1>2
<1>6. g \in [1 .. n -> [Digits -> Digits]] /\ \A v \in 1 .. n, x \in Digits : g[v][x] = Turn(v, x)
  BY <1>3
<1>. HIDE DEF g, h
<1>8. \A v \in 1 .. n : h[v] < v
  BY <1>5
<1>9. PICK f : Recurs(f, n, z, h, g)
  BY <1>5, <1>8, RecursExists
<1>10. f \in [0 .. n -> Digits]
  BY <1>5, <1>6, <1>8, <1>9, RecursType
<1>11. f[0] = z /\ \A v \in 1 .. n : f[v] = g[v][f[h[v]]]
  BY <1>9, RecursAt
<1>12. ASSUME NEW v \in 1 .. n PROVE f[v] = Turn(v, f[Less(v)])
  <2>1. h[v] = Less(v) /\ h[v] \in 0 .. n
    BY <1>5, <1>8
  <2>2. f[h[v]] \in Digits
    BY <1>10, <2>1
  <2>. QED
    BY <1>6, <1>11, <2>1, <2>2
<1>13. Spells(f, n)
  BY <1>4, <1>7, <1>10, <1>11, <1>12
<1>14. Eq(f)
  <2>1. \A v \in 0 .. n : f[v] = IF v = 0 THEN << >> ELSE Turn(v, f[Less(v)])
    BY <1>7, <1>11, <1>12
  <2>2. f = [v \in 0 .. n |-> f[v]]
    BY <1>10
  <2>. QED
    BY <2>1, <2>2
<1>. HIDE DEF Eq
<1>15. Eq(c)
  BY <1>14
<1>. HIDE DEF c
<1>16. \A v \in 0 .. n : c[v] = IF v = 0 THEN << >> ELSE Turn(v, c[Less(v)])
  BY <1>15 DEF Eq
<1>17. \A v \in 1 .. n : c[h[v]] = f[h[v]] => c[v] = f[v]
  BY <1>5, <1>12, <1>16
<1>18. c[0] = f[0]
  BY <1>7, <1>11, <1>16
<1>19. Alike(c, f, n)
  BY <1>5, <1>8, <1>17, <1>18, RecursUnique
<1>. QED
  BY <1>1, <1>13, <1>19 DEF Alike

\* The text of a number is in the alphabet and reads as that number.
LEMMA TextOfReads ==
  ASSUME NEW n \in Nat
  PROVE  TextOf(n) \in Seq(0 .. Base - 1) /\ TextValue(TextOf(n)) = n
<1>1. PICK f : Spells(f, n) /\ TextOf(n) = f[n]
  BY TextOfSpells
<1> DEFINE T == {v \in 0 .. n : TextValue(f[v]) = v}
<1>2. ASSUME NEW i \in 0 .. n, \A j \in 0 .. i - 1 : j \in T
      PROVE  i \in T
  <2>1. CASE i = 0
    BY <1>1, <2>1, TextValueOfNone DEF Spells
  <2>2. CASE i # 0
    <3>1. i \in 1 .. n /\ i \in Nat \ {0}
      BY <2>2
    <3>2. i \div Base \in 0 .. i - 1 /\ i % Base \in 0 .. Base - 1
          /\ i = (i \div Base) * Base + (i % Base)
      BY <3>1, LastDigit
    <3>3. 0 .. Base - 1 \in SUBSET Int
      BY SignMessageConstants
    <3>4. PICK q \in 0 .. i - 1, d \in Int : q = i \div Base /\ d = i % Base
      BY <3>2, <3>3
    <3>6. TextValue(f[q]) = q
      BY <1>2, <3>4
    <3>7. f[q] \in Seq(0 .. Base - 1) /\ f[i] = Append(f[q], d)
      <4>1. q \in 0 .. n
        OBVIOUS
      <4>2. f[q] \in Seq(0 .. Base - 1)
        BY <1>1, <4>1 DEF Spells
      <4>3. f[i] = Append(f[i \div Base], i % Base)
        BY <1>1, <3>1 DEF Spells
      <4>. QED
        BY <3>4, <4>2, <4>3
    <3>8. f[q] \in Seq(Int)
      BY <3>7, SignMessageConstants
    <3>5. TextValue(f[i]) = q * Base + d
      BY <3>6, <3>7, <3>8, TextValueOfAppend
    <3>. QED
      BY <3>1, <3>2, <3>4, <3>5
  <2>. QED
    BY <2>1, <2>2
<1>. HIDE DEF T
<1>3. \A i \in 0 .. n : i \in T
  BY <1>2, NumbersByInduction
<1>4. TextValue(f[n]) = n
  BY <1>3 DEF T
<1>. QED
  BY <1>1, <1>4 DEF Spells

\* r is what is left of v after each belt.
Divides(r, v) ==
  /\ r \in [0 .. Lanes -> Nat]
  /\ r[0] = v
  /\ \A i \in 1 .. Lanes : r[i] = r[i - 1] \div Prime

\* Division by the prime, and what it undoes.
LEMMA Division ==
  ASSUME NEW v \in Nat, NEW b \in 0 .. Prime - 1
  PROVE  /\ v \div Prime \in Nat
         /\ v % Prime \in 0 .. Prime - 1
         /\ v * Prime + b \in Nat
         /\ (v * Prime + b) \div Prime = v
         /\ (v * Prime + b) % Prime = b
<1>1. Prime \in Nat \ {0}
  BY SignMessageConstants
<1>2. v \div Prime \in Nat /\ v % Prime \in 0 .. Prime - 1
  BY <1>1, SMTT(20)
<1>3. (v * Prime + b) \div Prime = v
  BY <1>1, SMTT(20)
<1>4. (v * Prime + b) % Prime = b
  BY <1>1, SMTT(20)
<1>5. v * Prime \in Nat
  BY <1>1, SMTT(20)
<1>. QED
  BY <1>1, <1>2, <1>3, <1>4, <1>5

\* Rest(v) is v divided by the prime again and again: the loop of
\* base58_to_belts.
LEMMA RestDivides ==
  ASSUME NEW v \in Nat
  PROVE  Divides(Rest(v), v)
<1> DEFINE Turn(x) == x \div Prime
           Eq(f) == f = [i \in 0 .. Lanes |-> IF i = 0 THEN v ELSE Turn(f[i - 1])]
           c == CHOOSE f : Eq(f)
           g == [i \in 1 .. Lanes |-> [x \in Nat |-> Turn(x)]]
<1>1. Rest(v) = c
  BY DEF Rest
<1>2. Lanes \in Nat /\ 0 \in 0 .. Prime - 1
  BY SignMessageConstants
<1>3. \A x \in Nat : Turn(x) \in Nat
  BY <1>2, Division
<1>4. \A f : Divides(f, v) <=> f \in [0 .. Lanes -> Nat] /\ f[0] = v /\ \A i \in 1 .. Lanes : f[i] = Turn(f[i - 1])
  BY DEF Divides
<1>. HIDE DEF Turn
<1>5. g \in [1 .. Lanes -> [Nat -> Nat]] /\ \A i \in 1 .. Lanes, x \in Nat : g[i][x] = Turn(x)
  BY <1>3
<1>. HIDE DEF g
<1>6. PICK f : Loop(f, Lanes, Nat, v, g)
  BY <1>2, <1>5, LoopExists
<1>7. f \in [0 .. Lanes -> Nat] /\ f[0] = v
  BY <1>6 DEF Loop
<1>8. ASSUME NEW i \in 1 .. Lanes PROVE f[i] = Turn(f[i - 1])
  <2>1. i - 1 \in 0 .. Lanes
    BY <1>2
  <2>2. f[i - 1] \in Nat /\ f[i] = g[i][f[i - 1]]
    BY <1>6, <1>7, <2>1 DEF Loop
  <2>. QED
    BY <1>5, <2>2
<1>9. Divides(f, v)
  BY <1>4, <1>7, <1>8
<1>10. Eq(f)
  <2>1. \A i \in 0 .. Lanes : f[i] = IF i = 0 THEN v ELSE Turn(f[i - 1])
    BY <1>2, <1>7, <1>8
  <2>2. f = [i \in 0 .. Lanes |-> f[i]]
    BY <1>7
  <2>. QED
    BY <2>1, <2>2
<1>. HIDE DEF Eq
<1>11. Eq(c)
  BY <1>10
<1>. HIDE DEF c
<1>12. c = [i \in 0 .. Lanes |-> c[i]] /\ \A i \in 0 .. Lanes : c[i] = IF i = 0 THEN v ELSE Turn(c[i - 1])
  BY <1>11 DEF Eq
<1>13. c[0] = f[0] /\ \A i \in 1 .. Lanes : c[i - 1] = f[i - 1] => c[i] = f[i]
  <2>1. c[0] = v
    BY <1>2, <1>12
  <2>2. ASSUME NEW i \in 1 .. Lanes PROVE c[i] = Turn(c[i - 1])
    <3>1. i \in 0 .. Lanes /\ i # 0
      OBVIOUS
    <3>. QED
      BY <1>12, <3>1
  <2>. QED
    BY <1>7, <1>8, <2>1, <2>2
<1>14. Alike(c, f, Lanes)
  BY <1>2, <1>13, LoopUnique
<1>15. c = f
  BY <1>7, <1>12, <1>14 DEF Alike
<1>. QED
  BY <1>1, <1>9, <1>15

\* Belts: one for each lane, below the prime.
Belts == [1 .. Lanes -> 0 .. Prime - 1]

\* f is what the belts of b come to, from the most significant on.
Builds(f, b) ==
  /\ f \in [0 .. Lanes -> Nat]
  /\ f[0] = 0
  /\ \A i \in 1 .. Lanes : f[i] = f[i - 1] * Prime + b[Lanes + 1 - i]

\* BeltsValue(b) is built up from the highest belt: the loop of to_base58.
LEMMA BeltsValueBuilds ==
  ASSUME NEW b \in Belts
  PROVE  \E f : Builds(f, b) /\ BeltsValue(b) = f[Lanes]
<1> DEFINE Turn(i, x) == x * Prime + b[Lanes + 1 - i]
           Eq(f) == f = [i \in 0 .. Lanes |-> IF i = 0 THEN 0 ELSE Turn(i, f[i - 1])]
           c == CHOOSE f : Eq(f)
           g == [i \in 1 .. Lanes |-> [x \in Nat |-> Turn(i, x)]]
<1>1. BeltsValue(b) = c[Lanes]
  BY DEF BeltsValue
<1>2. Lanes \in Nat
  BY SignMessageConstants
<1>3. \A i \in 1 .. Lanes, x \in Nat : Turn(i, x) \in Nat
  <2>. SUFFICES ASSUME NEW i \in 1 .. Lanes, NEW x \in Nat PROVE Turn(i, x) \in Nat
    OBVIOUS
  <2>1. Lanes + 1 - i \in 1 .. Lanes
    BY <1>2
  <2>2. b[Lanes + 1 - i] \in 0 .. Prime - 1
    BY <2>1 DEF Belts
  <2>. QED
    BY <2>2, Division
<1>4. \A f : Builds(f, b) <=> f \in [0 .. Lanes -> Nat] /\ f[0] = 0 /\ \A i \in 1 .. Lanes : f[i] = Turn(i, f[i - 1])
  BY DEF Builds
<1>. HIDE DEF Turn
<1>5. g \in [1 .. Lanes -> [Nat -> Nat]] /\ \A i \in 1 .. Lanes, x \in Nat : g[i][x] = Turn(i, x)
  BY <1>3
<1>. HIDE DEF g
<1>6. PICK z \in Nat : z = 0
  OBVIOUS
<1>7. PICK f : Loop(f, Lanes, Nat, z, g)
  BY <1>2, <1>5, LoopExists
<1>8. f \in [0 .. Lanes -> Nat] /\ f[0] = 0
  BY <1>6, <1>7 DEF Loop
<1>9. ASSUME NEW i \in 1 .. Lanes PROVE f[i] = Turn(i, f[i - 1])
  <2>1. i - 1 \in 0 .. Lanes
    BY <1>2
  <2>2. f[i - 1] \in Nat /\ f[i] = g[i][f[i - 1]]
    BY <1>7, <1>8, <2>1 DEF Loop
  <2>. QED
    BY <1>5, <2>2
<1>10. Builds(f, b)
  BY <1>4, <1>8, <1>9
<1>11. Eq(f)
  <2>1. \A i \in 0 .. Lanes : f[i] = IF i = 0 THEN 0 ELSE Turn(i, f[i - 1])
    BY <1>2, <1>8, <1>9
  <2>2. f = [i \in 0 .. Lanes |-> f[i]]
    BY <1>8
  <2>. QED
    BY <2>1, <2>2
<1>. HIDE DEF Eq
<1>12. Eq(c)
  BY <1>11
<1>. HIDE DEF c
<1>13. \A i \in 0 .. Lanes : c[i] = IF i = 0 THEN 0 ELSE Turn(i, c[i - 1])
  BY <1>12 DEF Eq
<1>14. c[0] = f[0] /\ \A i \in 1 .. Lanes : c[i - 1] = f[i - 1] => c[i] = f[i]
  BY <1>2, <1>8, <1>9, <1>13
<1>15. Alike(c, f, Lanes)
  BY <1>2, <1>14, LoopUnique
<1>. QED
  BY <1>1, <1>2, <1>10, <1>15 DEF Alike

\* The value of belts falls into the same belts, and nothing is left of it.
LEMMA BeltsAreRead ==
  ASSUME NEW b \in Belts
  PROVE  /\ BeltsValue(b) \in Nat
         /\ Rest(BeltsValue(b))[Lanes] = 0
         /\ \A i \in 1 .. Lanes : Rest(BeltsValue(b))[i - 1] % Prime = b[i]
<1>1. Lanes \in Nat
  BY SignMessageConstants
<1>2. PICK f : Builds(f, b) /\ BeltsValue(b) = f[Lanes]
  BY BeltsValueBuilds
<1>3. BeltsValue(b) \in Nat
  BY <1>1, <1>2 DEF Builds
<1>4. PICK r : r = Rest(BeltsValue(b))
  OBVIOUS
<1>5. Divides(r, BeltsValue(b))
  BY <1>3, <1>4, RestDivides
<1>6. ASSUME NEW j \in 1 .. Lanes
      PROVE  /\ f[j] \div Prime = f[j - 1]
             /\ f[j] % Prime = b[Lanes + 1 - j]
  <2>1. Lanes + 1 - j \in 1 .. Lanes /\ j - 1 \in 0 .. Lanes
    BY <1>1
  <2>2. b[Lanes + 1 - j] \in 0 .. Prime - 1 /\ f[j - 1] \in Nat
    BY <1>2, <2>1 DEF Belts, Builds
  <2>3. f[j] = f[j - 1] * Prime + b[Lanes + 1 - j]
    BY <1>2 DEF Builds
  <2>. QED
    BY <2>2, <2>3, Division
<1> DEFINE T == {i \in 0 .. Lanes : r[i] = f[Lanes - i]}
<1>7. ASSUME NEW i \in 0 .. Lanes, \A j \in 0 .. i - 1 : j \in T
      PROVE  i \in T
  <2>1. CASE i = 0
    BY <1>1, <1>2, <1>5, <2>1 DEF Divides
  <2>2. CASE i # 0
    <3>1. i \in 1 .. Lanes /\ i - 1 \in 0 .. i - 1 /\ Lanes + 1 - i \in 1 .. Lanes
      BY <1>1, <2>2
    <3>2. PICK j \in 1 .. Lanes : j = Lanes + 1 - i
      BY <3>1
    <3>3. Lanes - (i - 1) = j /\ Lanes - i = j - 1
      BY <1>1, <3>2
    <3>4. r[i - 1] = f[j]
      BY <1>7, <3>1, <3>3
    <3>5. r[i] = r[i - 1] \div Prime
      BY <1>5, <3>1 DEF Divides
    <3>. QED
      BY <1>6, <3>3, <3>4, <3>5
  <2>. QED
    BY <2>1, <2>2
<1>. HIDE DEF T
<1>8. \A i \in 0 .. Lanes : i \in T
  BY <1>1, <1>7, NumbersByInduction
<1>9. \A i \in 0 .. Lanes : r[i] = f[Lanes - i]
  BY <1>8 DEF T
<1>10. r[Lanes] = 0
  BY <1>1, <1>2, <1>9 DEF Builds
<1>11. ASSUME NEW i \in 1 .. Lanes PROVE r[i - 1] % Prime = b[i]
  <2>1. PICK j \in 1 .. Lanes : j = Lanes + 1 - i
    BY <1>1
  <2>2. i - 1 \in 0 .. Lanes /\ Lanes - (i - 1) = j /\ Lanes + 1 - j = i
    BY <1>1, <2>1
  <2>3. r[i - 1] = f[j]
    BY <1>9, <2>2
  <2>. QED
    BY <1>6, <2>2, <2>3
<1>. QED
  BY <1>3, <1>4, <1>10, <1>11

\* from_identifier and base58_to_belts: the text of a key's hash reads as it.
LEMMA IdentifierReads ==
  ASSUME NEW k \in Keys
  PROVE  Base58ToBelts(IdentifierOf(k)) = PkhOf(k)
<1>1. PkhOf(k) \in Belts
  BY SignMessageConstants DEF Belts
<1>2. PICK v \in Nat : v = BeltsValue(PkhOf(k))
  BY <1>1, BeltsAreRead
<1>3. TextValue(IdentifierOf(k)) = v
  BY <1>2, TextOfReads DEF IdentifierOf, PkhBeltsToBase58
<1>4. \A i \in 1 .. Lanes : Rest(v)[i - 1] % Prime = PkhOf(k)[i]
  BY <1>1, <1>2, BeltsAreRead
<1>5. Base58ToBelts(IdentifierOf(k)) = [i \in 1 .. Lanes |-> PkhOf(k)[i]]
  BY <1>3, <1>4 DEF Base58ToBelts
<1>. QED
  BY <1>1, <1>5 DEF Belts

\* A text that decodes has belts.
LEMMA DecodedIsBelts ==
  ASSUME NEW t \in Texts, Decodes(t)
  PROVE  Base58ToBelts(t) \in Belts
<1>1. Base \in Nat /\ Lanes \in Nat
  BY SignMessageConstants
<1>2. t \in Seq(0 .. Base - 1)
  BY <1>1 DEF Decodes, InAlphabet, Texts, Bad
<1>3. PICK v \in Nat : v = TextValue(t)
  BY <1>2, TextValueType
<1>4. Divides(Rest(v), v)
  BY RestDivides
<1>5. \A i \in 1 .. Lanes : Rest(v)[i - 1] \in Nat
  <2>1. \A i \in 1 .. Lanes : i - 1 \in 0 .. Lanes
    BY <1>1
  <2>. QED
    BY <1>4, <2>1 DEF Divides
<1>6. \A x \in Nat : x % Prime \in 0 .. Prime - 1
  <2>1. 0 \in 0 .. Prime - 1
    BY SignMessageConstants
  <2>. QED
    BY <2>1, Division
<1>. QED
  BY <1>3, <1>5, <1>6 DEF Base58ToBelts, Belts

-----------------------------------------------------------------------------
(***************************************************************************)
(* The belts of a list of notes tell what each note is called.             *)
(***************************************************************************)
\* What a belt can be.
Residues == 0 .. Prime - 1

\* What follows a part of known length can be taken off.
Cuts(a, b, c, d) == Len(c) = Len(d) /\ a \o c = b \o d => a = b /\ c = d

\* Two sequences that agree, with ends of one length, agree in both parts.
LEMMA CutOff ==
  ASSUME NEW S, NEW a \in Seq(S), NEW b \in Seq(S), NEW c \in Seq(S), NEW d \in Seq(S)
  PROVE  Cuts(a, b, c, d)
<1>1. PICK k, l, m, o : k = Len(a) /\ l = Len(b) /\ m = Len(c) /\ o = Len(d)
  OBVIOUS
<1>2. PICK ac, bd : ac = a \o c /\ bd = b \o d
  OBVIOUS
<1>3. k \in Nat /\ l \in Nat /\ m \in Nat /\ o \in Nat
  BY <1>1
<1>4. /\ Len(a \o c) = Len(a) + Len(c)
      /\ \A i \in 1 .. Len(a) + Len(c) :
           (a \o c)[i] = IF i <= Len(a) THEN a[i] ELSE c[i - Len(a)]
  BY ConcatProperties
<1>5. /\ Len(b \o d) = Len(b) + Len(d)
      /\ \A i \in 1 .. Len(b) + Len(d) :
           (b \o d)[i] = IF i <= Len(b) THEN b[i] ELSE d[i - Len(b)]
  BY ConcatProperties
<1>6. Len(ac) = k + m /\ \A i \in 1 .. k + m : ac[i] = IF i <= k THEN a[i] ELSE c[i - k]
  BY <1>1, <1>2, <1>4
<1>7. Len(bd) = l + o /\ \A i \in 1 .. l + o : bd[i] = IF i <= l THEN b[i] ELSE d[i - l]
  BY <1>1, <1>2, <1>5
<1>8. ASSUME m = o, ac = bd PROVE a = b /\ c = d
  <2>1. k = l
    BY <1>3, <1>6, <1>7, <1>8
  <2>2. ASSUME NEW i \in 1 .. k PROVE a[i] = b[i]
    <3>1. i \in 1 .. k + m /\ i <= k
      BY <1>3
    <3>. QED
      BY <1>6, <1>7, <1>8, <2>1, <3>1
  <2>3. ASSUME NEW i \in 1 .. m PROVE c[i] = d[i]
    <3>1. k + i \in 1 .. k + m /\ ~(k + i <= k) /\ (k + i) - k = i
      BY <1>3
    <3>2. ac[k + i] = c[i]
      BY <1>6, <3>1
    <3>3. bd[k + i] = d[i]
      BY <1>7, <1>8, <2>1, <3>1
    <3>. QED
      BY <1>8, <3>2, <3>3
  <2>4. Len(a) = Len(b) /\ \A i \in 1 .. Len(a) : a[i] = b[i]
    BY <1>1, <2>1, <2>2
  <2>5. Len(c) = Len(d) /\ \A i \in 1 .. Len(c) : c[i] = d[i]
    BY <1>1, <1>8, <2>3
  <2>6. a = b
    BY <2>4, SeqEqual
  <2>7. c = d
    BY <2>5, SeqEqual
  <2>. QED
    BY <2>6, <2>7
<1>. QED
  BY <1>1, <1>2, <1>8 DEF Cuts

\* The names of these notes can be read.
Named(notes) ==
  \A i \in DOMAIN notes : Decodes(notes[i].first) /\ Decodes(notes[i].last)

\* The belts of a note.
LEMMA NoteBeltsType ==
  ASSUME NEW note \in NoteRefs, Decodes(note.first), Decodes(note.last)
  PROVE  /\ NoteBelts(note) \in Seq(Residues)
         /\ Len(NoteBelts(note)) = Lanes + Lanes
<1>1. Lanes \in Nat /\ Prime \in Nat
  BY SignMessageConstants
<1>2. Base58ToBelts(note.first) \in Belts /\ Base58ToBelts(note.last) \in Belts
  BY DecodedIsBelts DEF NoteRefs
<1>3. \A b \in Belts : b \in Seq(Residues) /\ Len(b) = Lanes
  BY <1>1 DEF Belts, Residues
<1>4. \A a \in Seq(Residues), b \in Seq(Residues) : a \o b \in Seq(Residues) /\ Len(a \o b) = Len(a) + Len(b)
  BY ConcatProperties
<1>. QED
  BY <1>2, <1>3, <1>4 DEF NoteBelts

\* They tell its name.
LEMMA NoteBeltsTell ==
  ASSUME NEW a \in NoteRefs, Decodes(a.first), Decodes(a.last),
         NEW b \in NoteRefs, Decodes(b.first), Decodes(b.last),
         NoteBelts(a) = NoteBelts(b)
  PROVE  /\ Base58ToBelts(a.first) = Base58ToBelts(b.first)
         /\ Base58ToBelts(a.last) = Base58ToBelts(b.last)
<1>1. Lanes \in Nat /\ Prime \in Nat
  BY SignMessageConstants
<1>2. \A b1 \in Belts : b1 \in Seq(Residues) /\ Len(b1) = Lanes
  BY <1>1 DEF Belts, Residues
<1>3. \A t \in {a.first, a.last, b.first, b.last} :
        Base58ToBelts(t) \in Seq(Residues) /\ Len(Base58ToBelts(t)) = Lanes
  BY <1>2, DecodedIsBelts DEF NoteRefs
<1>4. PICK w \in Seq(Residues), y \in Seq(Residues), x \in Seq(Residues), z \in Seq(Residues) :
        /\ w = Base58ToBelts(a.first) /\ y = Base58ToBelts(a.last)
        /\ x = Base58ToBelts(b.first) /\ z = Base58ToBelts(b.last)
  BY <1>3
<1>5. Len(y) = Len(z) /\ w \o y = x \o z
  BY <1>3, <1>4 DEF NoteBelts
<1>6. Cuts(w, x, y, z)
  BY CutOff
<1>7. w = x /\ y = z
  BY <1>5, <1>6 DEF Cuts
<1>. QED
  BY <1>4, <1>7

\* f is the belts of the first notes.
Packs(f, notes) ==
  /\ f \in [0 .. Len(notes) -> Seq(Residues)]
  /\ f[0] = << >>
  /\ \A i \in 1 .. Len(notes) : f[i] = f[i - 1] \o NoteBelts(notes[i])

\* NotesBelts(notes) is packed note by note: the loop of compute_notes_hash.
LEMMA NotesBeltsPacks ==
  ASSUME NEW notes \in Seq(NoteRefs), Named(notes)
  PROVE  \E f : /\ Packs(f, notes)
                /\ NotesBelts(notes) = IF notes = << >> THEN << 0 >> ELSE f[Len(notes)]
<1> DEFINE Turn(i, x) == x \o NoteBelts(notes[i])
           Eq(f) == f = [i \in 0 .. Len(notes) |-> IF i = 0 THEN << >> ELSE Turn(i, f[i - 1])]
           c == CHOOSE f : Eq(f)
           g == [i \in 1 .. Len(notes) |-> [x \in Seq(Residues) |-> Turn(i, x)]]
<1>1. NotesBelts(notes) = IF notes = << >> THEN << 0 >> ELSE c[Len(notes)]
  BY DEF NotesBelts
<1>2. PICK n \in Nat : n = Len(notes)
  OBVIOUS
<1>3. \A i \in 1 .. n, x \in Seq(Residues) : Turn(i, x) \in Seq(Residues)
  <2>1. \A i \in 1 .. n : NoteBelts(notes[i]) \in Seq(Residues)
    BY <1>2, NoteBeltsType DEF Named
  <2>. QED
    BY <2>1
<1>4. \A f : Packs(f, notes) <=> f \in [0 .. n -> Seq(Residues)] /\ f[0] = << >> /\ \A i \in 1 .. n : f[i] = Turn(i, f[i - 1])
  BY <1>2 DEF Packs
<1>. HIDE DEF Turn
<1>5. g \in [1 .. n -> [Seq(Residues) -> Seq(Residues)]] /\ \A i \in 1 .. n, x \in Seq(Residues) : g[i][x] = Turn(i, x)
  BY <1>2, <1>3
<1>. HIDE DEF g
<1>6. PICK z \in Seq(Residues) : z = << >>
  <2>1. << >> \in Seq(Residues)
    OBVIOUS
  <2>. QED
    BY <2>1
<1>7. PICK f : Loop(f, n, Seq(Residues), z, g)
  BY <1>5, LoopExists
<1>8. f \in [0 .. n -> Seq(Residues)] /\ f[0] = << >>
  BY <1>6, <1>7 DEF Loop
<1>9. ASSUME NEW i \in 1 .. n PROVE f[i] = Turn(i, f[i - 1])
  <2>1. i - 1 \in 0 .. n
    BY <1>2
  <2>2. f[i - 1] \in Seq(Residues) /\ f[i] = g[i][f[i - 1]]
    BY <1>7, <1>8, <2>1 DEF Loop
  <2>. QED
    BY <1>5, <2>2
<1>10. Packs(f, notes)
  BY <1>4, <1>8, <1>9
<1>11. Eq(f)
  <2>1. \A i \in 0 .. n : f[i] = IF i = 0 THEN << >> ELSE Turn(i, f[i - 1])
    BY <1>8, <1>9
  <2>2. f = [i \in 0 .. n |-> f[i]]
    BY <1>8
  <2>. QED
    BY <1>2, <2>1, <2>2
<1>. HIDE DEF Eq
<1>12. Eq(c)
  BY <1>11
<1>. HIDE DEF c
<1>13. \A i \in 0 .. n : c[i] = IF i = 0 THEN << >> ELSE Turn(i, c[i - 1])
  BY <1>2, <1>12 DEF Eq
<1>14. c[0] = f[0] /\ \A i \in 1 .. n : c[i - 1] = f[i - 1] => c[i] = f[i]
  <2>1. c[0] = << >>
    <3>1. 0 \in 0 .. n
      OBVIOUS
    <3>. QED
      BY <1>13, <3>1
  <2>2. ASSUME NEW i \in 1 .. n PROVE c[i] = Turn(i, c[i - 1])
    <3>1. i \in 0 .. n /\ i # 0
      OBVIOUS
    <3>. QED
      BY <1>13, <3>1
  <2>. QED
    BY <1>8, <1>9, <2>1, <2>2
<1>15. Alike(c, f, n)
  BY <1>14, LoopUnique
<1>. QED
  BY <1>1, <1>2, <1>10, <1>15 DEF Alike

\* Notes with the same belts one by one have the same belts together.
LEMMA SameBeltsTogether ==
  ASSUME NEW ns \in Seq(NoteRefs), NEW ms \in Seq(NoteRefs), Named(ns), Named(ms),
         Len(ns) = Len(ms), \A i \in 1 .. Len(ns) : NoteBelts(ns[i]) = NoteBelts(ms[i])
  PROVE  NotesBelts(ns) = NotesBelts(ms)
<1>1. PICK n \in Nat : n = Len(ns) /\ n = Len(ms)
  OBVIOUS
<1>2. PICK e : Packs(e, ns) /\ NotesBelts(ns) = IF ns = << >> THEN << 0 >> ELSE e[n]
  BY <1>1, NotesBeltsPacks
<1>3. PICK f : Packs(f, ms) /\ NotesBelts(ms) = IF ms = << >> THEN << 0 >> ELSE f[n]
  BY <1>1, NotesBeltsPacks
<1>4. e[0] = f[0]
  BY <1>2, <1>3 DEF Packs
<1>5. ASSUME NEW i \in 1 .. n, e[i - 1] = f[i - 1] PROVE e[i] = f[i]
  <2>1. e[i] = e[i - 1] \o NoteBelts(ns[i]) /\ f[i] = f[i - 1] \o NoteBelts(ms[i])
    BY <1>1, <1>2, <1>3 DEF Packs
  <2>. QED
    BY <1>1, <1>5, <2>1
<1>6. Alike(e, f, n)
  BY <1>4, <1>5, LoopUnique
<1>7. ns = << >> <=> ms = << >>
  BY <1>1
<1>. QED
  BY <1>2, <1>3, <1>6, <1>7 DEF Alike

\* Notes with the same belts together have the same belts one by one.
LEMMA SameBeltsOneByOne ==
  ASSUME NEW ns \in Seq(NoteRefs), NEW ms \in Seq(NoteRefs), Named(ns), Named(ms),
         NotesBelts(ns) = NotesBelts(ms)
  PROVE  Len(ns) = Len(ms) /\ \A i \in 1 .. Len(ns) : NoteBelts(ns[i]) = NoteBelts(ms[i])
<1>1. PICK n \in Nat, m \in Nat : n = Len(ns) /\ m = Len(ms)
  OBVIOUS
<1>2. PICK e : Packs(e, ns) /\ NotesBelts(ns) = IF ns = << >> THEN << 0 >> ELSE e[n]
  BY <1>1, NotesBeltsPacks
<1>3. PICK f : Packs(f, ms) /\ NotesBelts(ms) = IF ms = << >> THEN << 0 >> ELSE f[m]
  BY <1>1, NotesBeltsPacks
<1>4. Lanes \in Nat \ {0}
  BY SignMessageConstants
<1>5. \A i \in 1 .. n : /\ e[i - 1] \in Seq(Residues)
                        /\ NoteBelts(ns[i]) \in Seq(Residues) /\ Len(NoteBelts(ns[i])) = Lanes + Lanes
                        /\ e[i] = e[i - 1] \o NoteBelts(ns[i])
  <2>1. \A i \in 1 .. n : i - 1 \in 0 .. n
    OBVIOUS
  <2>2. \A i \in 1 .. n : NoteBelts(ns[i]) \in Seq(Residues) /\ Len(NoteBelts(ns[i])) = Lanes + Lanes
    BY <1>1, NoteBeltsType DEF Named
  <2>. QED
    BY <1>1, <1>2, <2>1, <2>2 DEF Packs
<1>6. \A i \in 1 .. m : /\ f[i - 1] \in Seq(Residues)
                        /\ NoteBelts(ms[i]) \in Seq(Residues) /\ Len(NoteBelts(ms[i])) = Lanes + Lanes
                        /\ f[i] = f[i - 1] \o NoteBelts(ms[i])
  <2>1. \A i \in 1 .. m : i - 1 \in 0 .. m
    OBVIOUS
  <2>2. \A i \in 1 .. m : NoteBelts(ms[i]) \in Seq(Residues) /\ Len(NoteBelts(ms[i])) = Lanes + Lanes
    BY <1>1, NoteBeltsType DEF Named
  <2>. QED
    BY <1>1, <1>3, <2>1, <2>2 DEF Packs
<1>7. e[0] = << >> /\ f[0] = << >>
  BY <1>2, <1>3 DEF Packs
<1>8. \A s \in Seq(Residues), b \in Seq(Residues) : Len(b) = Lanes + Lanes => s \o b # << >> /\ s \o b # << 0 >>
  <2>. SUFFICES ASSUME NEW s \in Seq(Residues), NEW b \in Seq(Residues)
                PROVE  Len(b) = Lanes + Lanes => s \o b # << >> /\ s \o b # << 0 >>
    OBVIOUS
  <2>1. Len(s \o b) = Len(s) + Len(b) /\ Len(s) \in Nat
    BY ConcatProperties
  <2>2. Len(b) = Lanes + Lanes => Len(s \o b) > 1
    BY <1>4, <2>1
  <2>3. Len(<< >>) = 0 /\ Len(<< 0 >>) = 1
    OBVIOUS
  <2>. QED
    BY <2>2, <2>3
<1>9. \A i \in 1 .. n : e[i] # << >> /\ e[i] # << 0 >>
  BY <1>5, <1>8
<1>10. \A i \in 1 .. m : f[i] # << >> /\ f[i] # << 0 >>
  BY <1>6, <1>8
<1> DEFINE OneByOne(i, j) == i = j /\ \A k \in 1 .. i : NoteBelts(ns[k]) = NoteBelts(ms[k])
           T == {i \in 0 .. n : \A j \in 0 .. m : e[i] = f[j] => OneByOne(i, j)}
<1>11. ASSUME NEW i \in 0 .. n, \A j \in 0 .. i - 1 : j \in T
       PROVE  i \in T
  <2>. SUFFICES ASSUME NEW j \in 0 .. m, e[i] = f[j] PROVE OneByOne(i, j)
    OBVIOUS
  <2>1. CASE i = 0
    <3>1. j \notin 1 .. m
      BY <1>7, <1>10, <2>1
    <3>. QED
      BY <2>1, <3>1
  <2>2. CASE i # 0
    <3>1. i \in 1 .. n /\ i - 1 \in 0 .. i - 1
      BY <2>2
    <3>2. j # 0
      BY <1>7, <1>9, <3>1
    <3>3. j \in 1 .. m /\ j - 1 \in 0 .. m
      BY <3>2
    <3>4. e[i - 1] = f[j - 1] /\ NoteBelts(ns[i]) = NoteBelts(ms[j])
      <4>1. e[i - 1] \o NoteBelts(ns[i]) = f[j - 1] \o NoteBelts(ms[j])
        BY <1>5, <1>6, <3>1, <3>3
      <4>2. Len(NoteBelts(ns[i])) = Len(NoteBelts(ms[j]))
        BY <1>5, <1>6, <3>1, <3>3
      <4>. QED
        <5>1. /\ e[i - 1] \in Seq(Residues) /\ NoteBelts(ns[i]) \in Seq(Residues)
              /\ f[j - 1] \in Seq(Residues) /\ NoteBelts(ms[j]) \in Seq(Residues)
          BY <1>5, <1>6, <3>1, <3>3
        <5>2. PICK w \in Seq(Residues), y \in Seq(Residues), x \in Seq(Residues), z \in Seq(Residues) :
                w = e[i - 1] /\ y = NoteBelts(ns[i]) /\ x = f[j - 1] /\ z = NoteBelts(ms[j])
          BY <5>1
        <5>3. Len(y) = Len(z) /\ w \o y = x \o z
          BY <4>1, <4>2, <5>2
        <5>4. Cuts(w, x, y, z)
          BY CutOff
        <5>. QED
          BY <5>2, <5>3, <5>4 DEF Cuts
    <3>5. OneByOne(i - 1, j - 1)
      BY <1>11, <3>1, <3>3, <3>4
    <3>6. i = j
      BY <3>5
    <3>7. \A k \in 1 .. i : k = i \/ k \in 1 .. i - 1
      BY <3>1
    <3>. QED
      BY <3>4, <3>5, <3>6, <3>7
  <2>. QED
    BY <2>1, <2>2
<1>. HIDE DEF T
<1>12. \A i \in 0 .. n : i \in T
  BY <1>11, NumbersByInduction
<1>13. e[n] = f[m] => OneByOne(n, m)
  BY <1>12 DEF T
<1>14. ns = << >> <=> n = 0
  BY <1>1
<1>15. ms = << >> <=> m = 0
  BY <1>1
<1>16. CASE n = 0 \/ m = 0
  <2>1. NotesBelts(ns) = IF n = 0 THEN << 0 >> ELSE e[n]
    BY <1>2, <1>14
  <2>2. NotesBelts(ns) = IF m = 0 THEN << 0 >> ELSE f[m]
    BY <1>3, <1>15
  <2>3. n # 0 => n \in 1 .. n /\ e[n] # << 0 >>
    BY <1>9
  <2>4. m # 0 => m \in 1 .. m /\ f[m] # << 0 >>
    BY <1>10
  <2>5. n = 0 /\ m = 0
    BY <1>16, <2>1, <2>2, <2>3, <2>4
  <2>. QED
    BY <1>1, <2>5
<1>17. CASE n # 0 /\ m # 0
  <2>1. e[n] = f[m]
    BY <1>2, <1>3, <1>14, <1>15, <1>17
  <2>. QED
    BY <1>1, <1>13, <2>1
<1>. QED
  BY <1>16, <1>17

-----------------------------------------------------------------------------
(***************************************************************************)
(* The order of the notes.                                                 *)
(***************************************************************************)
\* s comes before t, and k is how far they agree.
Parts(s, t, k) ==
  /\ k \in 0 .. Len(s) /\ k <= Len(t)
  /\ \A i \in 1 .. k : s[i] = t[i]
  /\ \/ k = Len(s) /\ k < Len(t)
     \/ k < Len(s) /\ k < Len(t) /\ s[k + 1] < t[k + 1]

\* TextBefore, with the place where the texts part named.
LEMMA PartsIs ==
  ASSUME NEW s, NEW t
  PROVE  TextBefore(s, t) <=> \E k : Parts(s, t, k)
BY DEF TextBefore, Parts

\* No text comes before itself.
LEMMA TextNotBeforeItself ==
  ASSUME NEW s \in Seq(Int)
  PROVE  ~TextBefore(s, s)
BY DEF TextBefore

\* The order of texts is transitive: each pair parts somewhere, and the first of
\* the two places parts the outer pair.
LEMMA TextBeforeTransitive ==
  ASSUME NEW s \in Seq(Int), NEW t \in Seq(Int), NEW u \in Seq(Int),
         TextBefore(s, t), TextBefore(t, u)
  PROVE  TextBefore(s, u)
<1>1. PICK j : Parts(s, t, j)
  BY PartsIs
<1>2. PICK k : Parts(t, u, k)
  BY PartsIs
<1>3. PICK a \in Nat, b \in Nat, c \in Nat : a = Len(s) /\ b = Len(t) /\ c = Len(u)
  OBVIOUS
<1>4. /\ j \in 0 .. a /\ j <= b
      /\ \A i \in 1 .. j : s[i] = t[i]
      /\ (j = a /\ j < b) \/ (j < a /\ j < b /\ s[j + 1] < t[j + 1])
  BY <1>1, <1>3 DEF Parts
<1>5. /\ k \in 0 .. b /\ k <= c
      /\ \A i \in 1 .. k : t[i] = u[i]
      /\ (k = b /\ k < c) \/ (k < b /\ k < c /\ t[k + 1] < u[k + 1])
  BY <1>2, <1>3 DEF Parts
<1>6. CASE j < k
  <2>1. j < c /\ \A i \in 1 .. j : s[i] = u[i]
    BY <1>4, <1>5, <1>6
  <2>2. t[j + 1] = u[j + 1]
    BY <1>4, <1>5, <1>6
  <2>3. Parts(s, u, j)
    BY <1>3, <1>4, <2>1, <2>2 DEF Parts
  <2>. QED
    BY <2>3, PartsIs
<1>7. CASE k < j
  <2>1. k < a /\ k < b /\ k \in 0 .. a /\ \A i \in 1 .. k : s[i] = u[i]
    BY <1>4, <1>5, <1>7
  <2>2. s[k + 1] = t[k + 1]
    BY <1>4, <1>5, <1>7
  <2>3. k < c /\ t[k + 1] < u[k + 1]
    BY <1>5, <2>1
  <2>4. Parts(s, u, k)
    BY <1>3, <2>1, <2>2, <2>3 DEF Parts
  <2>. QED
    BY <2>4, PartsIs
<1>8. CASE j = k
  <2>1. \A i \in 1 .. j : s[i] = u[i]
    BY <1>4, <1>5, <1>8
  <2>2. j < b /\ j < c /\ t[j + 1] < u[j + 1]
    BY <1>4, <1>5, <1>8
  <2>3. j < a => s[j + 1] \in Int /\ t[j + 1] \in Int /\ u[j + 1] \in Int
    <3>1. j < a => j + 1 \in 1 .. a /\ j + 1 \in 1 .. b /\ j + 1 \in 1 .. c
      BY <1>4, <2>2
    <3>. QED
      BY <1>3, <3>1
  <2>4. j = a \/ (j < a /\ s[j + 1] < u[j + 1])
    BY <1>4, <2>2, <2>3
  <2>5. Parts(s, u, j)
    BY <1>3, <1>4, <2>1, <2>2, <2>4 DEF Parts
  <2>. QED
    BY <2>5, PartsIs
<1>. QED
  BY <1>4, <1>5, <1>6, <1>7, <1>8

\* Of two different texts one comes first.
LEMMA TextBeforeTotal ==
  ASSUME NEW s \in Seq(Int), NEW t \in Seq(Int)
  PROVE  s = t \/ TextBefore(s, t) \/ TextBefore(t, s)
<1>1. PICK a \in Nat, b \in Nat : a = Len(s) /\ b = Len(t)
  OBVIOUS
<1> DEFINE K == {k \in Nat : k <= a /\ k <= b /\ (k = a \/ k = b \/ s[k + 1] # t[k + 1])}
<1>2. K # {}
  <2>1. CASE a <= b
    <3>1. a \in K
      BY <2>1
    <3>. QED
      BY <3>1
  <2>2. CASE b <= a
    <3>1. b \in K
      BY <2>2
    <3>. QED
      BY <3>1
  <2>. QED
    BY <2>1, <2>2
<1>3. PICK k \in K : \A j \in K : k <= j
  BY <1>2, LeastNumber
<1>4. \A i \in 1 .. k : s[i] = t[i]
  <2>. SUFFICES ASSUME NEW i \in 1 .. k, s[i] # t[i] PROVE FALSE
    OBVIOUS
  <2>1. i - 1 \in Nat /\ i - 1 < k /\ (i - 1) + 1 = i
    BY <1>3
  <2>2. k \in Nat /\ k <= a /\ k <= b
    BY <1>3
  <2>3. s[(i - 1) + 1] # t[(i - 1) + 1]
    BY <2>1
  <2>4. i - 1 \in K
    BY <2>1, <2>2, <2>3
  <2>5. k <= i - 1
    BY <1>3, <2>4
  <2>. QED
    BY <2>1, <2>2, <2>5
<1>5. k \in Nat /\ k <= a /\ k <= b /\ (k = a \/ k = b \/ s[k + 1] # t[k + 1])
  BY <1>3
<1>6. CASE k = a /\ k = b
  <2>1. Len(s) = Len(t) /\ \A i \in 1 .. Len(s) : s[i] = t[i]
    BY <1>1, <1>4, <1>6
  <2>. QED
    BY <2>1, SeqEqual
<1>7. CASE k = a /\ k < b
  <2>1. Parts(s, t, k)
    BY <1>1, <1>4, <1>5, <1>7 DEF Parts
  <2>. QED
    BY <2>1, PartsIs
<1>8. CASE k < a /\ k = b
  <2>1. Parts(t, s, k)
    BY <1>1, <1>4, <1>5, <1>8 DEF Parts
  <2>. QED
    BY <2>1, PartsIs
<1>9. CASE k < a /\ k < b
  <2>1. k + 1 \in 1 .. a /\ k + 1 \in 1 .. b
    BY <1>5, <1>9
  <2>2. s[k + 1] \in Int /\ t[k + 1] \in Int
    BY <1>1, <2>1
  <2>3. CASE s[k + 1] < t[k + 1]
    <3>1. Parts(s, t, k)
      BY <1>1, <1>4, <1>5, <1>9, <2>3 DEF Parts
    <3>. QED
      BY <3>1, PartsIs
  <2>4. CASE t[k + 1] < s[k + 1]
    <3>1. Parts(t, s, k)
      BY <1>1, <1>4, <1>5, <1>9, <2>4 DEF Parts
    <3>. QED
      BY <3>1, PartsIs
  <2>. QED
    BY <1>5, <1>9, <2>2, <2>3, <2>4
<1>. QED
  BY <1>5, <1>6, <1>7, <1>8, <1>9

\* What two notes are called.
SameName(a, b) == a.first = b.first /\ a.last = b.last

\* The order of notes is an order of their names.
LEMMA NotesAreOrdered ==
  /\ \A a \in NoteRefs : ~NoteBefore(a, a)
  /\ \A a, b, c \in NoteRefs : NoteBefore(a, b) /\ NoteBefore(b, c) => NoteBefore(a, c)
  /\ \A a, b \in NoteRefs : SameName(a, b) \/ NoteBefore(a, b) \/ NoteBefore(b, a)
<1>1. \A a \in NoteRefs : a.first \in Seq(Int) /\ a.last \in Seq(Int)
  <2>1. \A t \in Texts : t \in Seq(Int)
    BY SignMessageConstants DEF Texts, Bad
  <2>. QED
    BY <2>1 DEF NoteRefs
<1>2. ASSUME NEW a \in NoteRefs PROVE ~NoteBefore(a, a)
  BY <1>1, TextNotBeforeItself DEF NoteBefore
<1>3. ASSUME NEW a \in NoteRefs, NEW b \in NoteRefs, NEW c \in NoteRefs,
             NoteBefore(a, b), NoteBefore(b, c)
      PROVE  NoteBefore(a, c)
  BY <1>1, <1>3, TextBeforeTransitive DEF NoteBefore
<1>4. ASSUME NEW a \in NoteRefs, NEW b \in NoteRefs
      PROVE  SameName(a, b) \/ NoteBefore(a, b) \/ NoteBefore(b, a)
  BY <1>1, TextBeforeTotal DEF NoteBefore, SameName
<1>. QED
  BY <1>2, <1>3, <1>4

-----------------------------------------------------------------------------
(***************************************************************************)
(* Sorting.                                                                *)
(***************************************************************************)
\* The j-th note goes before the i-th.
Earlier(notes, j, i) ==
  NoteBefore(notes[j], notes[i]) \/ (j < i /\ ~NoteBefore(notes[i], notes[j]))

AllEarlier(notes, i) == {j \in 1 .. Len(notes) : Earlier(notes, j, i)}

\* The order of the sort is a strict total order of the places of a list, so that
\* every place of the sorted list is taken by one note.
LEMMA EarlierIsOrder ==
  ASSUME NEW notes \in Seq(NoteRefs)
  PROVE  /\ \A i \in 1 .. Len(notes) : ~Earlier(notes, i, i)
         /\ \A i, j, k \in 1 .. Len(notes) :
              Earlier(notes, i, j) /\ Earlier(notes, j, k) => Earlier(notes, i, k)
         /\ \A i, j \in 1 .. Len(notes) : i = j \/ Earlier(notes, i, j) \/ Earlier(notes, j, i)
<1>1. PICK n \in Nat : n = Len(notes)
  OBVIOUS
<1>2. \A i \in 1 .. n : notes[i] \in NoteRefs
  BY <1>1
<1>3. \A a, b, c \in NoteRefs : SameName(a, b) /\ NoteBefore(b, c) => NoteBefore(a, c)
  BY DEF SameName, NoteBefore
<1>4. \A a, b, c \in NoteRefs : NoteBefore(a, b) /\ SameName(b, c) => NoteBefore(a, c)
  BY DEF SameName, NoteBefore
<1>5. \A a, b \in NoteRefs : SameName(a, b) => SameName(b, a)
  BY DEF SameName
<1>6. ASSUME NEW i \in 1 .. n PROVE ~Earlier(notes, i, i)
  BY <1>2, NotesAreOrdered DEF Earlier
<1>7. ASSUME NEW i \in 1 .. n, NEW j \in 1 .. n PROVE i = j \/ Earlier(notes, i, j) \/ Earlier(notes, j, i)
  BY <1>2, NotesAreOrdered DEF Earlier
<1>8. ASSUME NEW i \in 1 .. n, NEW j \in 1 .. n, NEW k \in 1 .. n,
             Earlier(notes, i, j), Earlier(notes, j, k)
      PROVE  Earlier(notes, i, k)
  <2>1. PICK a \in NoteRefs, b \in NoteRefs, c \in NoteRefs : a = notes[i] /\ b = notes[j] /\ c = notes[k]
    BY <1>2
  <2>2. NoteBefore(a, b) \/ (i < j /\ SameName(a, b))
    BY <1>8, <2>1, NotesAreOrdered DEF Earlier
  <2>3. NoteBefore(b, c) \/ (j < k /\ SameName(b, c))
    BY <1>8, <2>1, NotesAreOrdered DEF Earlier
  <2>4. NoteBefore(a, c) \/ (i < k /\ SameName(a, b) /\ SameName(b, c))
    BY <1>3, <1>4, <2>2, <2>3, NotesAreOrdered
  <2>5. NoteBefore(c, a) /\ SameName(a, b) /\ SameName(b, c) => NoteBefore(a, a)
    BY <1>3
  <2>6. ~NoteBefore(a, a)
    BY NotesAreOrdered
  <2>. QED
    BY <2>1, <2>4, <2>5, <2>6 DEF Earlier
<1>. QED
  BY <1>1, <1>6, <1>7, <1>8

\* A place is one more than there are earlier notes.
LEMMA PlaceCounts ==
  ASSUME NEW notes \in Seq(NoteRefs), NEW i \in 1 .. Len(notes)
  PROVE  /\ IsFiniteSet(AllEarlier(notes, i))
         /\ Cardinality(AllEarlier(notes, i)) \in Nat
         /\ Place(notes, i) = 1 + Cardinality(AllEarlier(notes, i))
<1>1. Len(notes) \in Nat /\ DOMAIN notes = 1 .. Len(notes)
  OBVIOUS
<1>2. IsFiniteSet(1 .. Len(notes))
  BY <1>1, FS_Interval
<1>3. AllEarlier(notes, i) \in SUBSET (1 .. Len(notes))
  BY DEF AllEarlier
<1>4. IsFiniteSet(AllEarlier(notes, i))
  BY <1>2, <1>3, FS_Subset
<1>5. AllEarlier(notes, i) = {j \in DOMAIN notes :
        \/ NoteBefore(notes[j], notes[i])
        \/ j < i /\ ~NoteBefore(notes[i], notes[j])}
  BY <1>1 DEF AllEarlier, Earlier
<1>6. Place(notes, i) = 1 + Cardinality(AllEarlier(notes, i))
  BY <1>5 DEF Place
<1>. QED
  BY <1>4, <1>6, FS_CardinalityType

\* An earlier note has a lower place.
LEMMA EarlierIsLower ==
  ASSUME NEW notes \in Seq(NoteRefs), NEW i \in 1 .. Len(notes), NEW j \in 1 .. Len(notes),
         Earlier(notes, i, j)
  PROVE  Place(notes, i) < Place(notes, j)
<1>1. AllEarlier(notes, i) \in SUBSET AllEarlier(notes, j)
  BY EarlierIsOrder DEF AllEarlier
<1>2. i \in AllEarlier(notes, j) /\ i \notin AllEarlier(notes, i)
  BY EarlierIsOrder DEF AllEarlier
<1>3. Cardinality(AllEarlier(notes, i)) # Cardinality(AllEarlier(notes, j))
  BY <1>1, <1>2, PlaceCounts, FS_Subset
<1>4. Cardinality(AllEarlier(notes, i)) <= Cardinality(AllEarlier(notes, j))
  BY <1>1, PlaceCounts, FS_Subset
<1>. QED
  BY <1>3, <1>4, PlaceCounts

\* Each place is taken by one note.
LEMMA PlacesAreTaken ==
  ASSUME NEW notes \in Seq(NoteRefs), NEW n \in Nat, n = Len(notes)
  PROVE  /\ \A i \in 1 .. n : Place(notes, i) \in 1 .. n
         /\ \A i, j \in 1 .. n : Place(notes, i) = Place(notes, j) => i = j
         /\ \A k \in 1 .. n : \E i \in 1 .. n : Place(notes, i) = k
<1>1. IsFiniteSet(1 .. n) /\ Cardinality(1 .. n) = n
  <2>1. 1 \in Int /\ n \in Int
    OBVIOUS
  <2>2. IsFiniteSet(1 .. n) /\ Cardinality(1 .. n) = IF 1 > n THEN 0 ELSE n - 1 + 1
    BY <2>1, FS_Interval, Zenon
  <2>. QED
    BY <2>2
<1>2. ASSUME NEW i \in 1 .. n PROVE Place(notes, i) \in 1 .. n
  <2>1. AllEarlier(notes, i) \in SUBSET ((1 .. n) \ {i})
    BY EarlierIsOrder DEF AllEarlier
  <2>2. IsFiniteSet((1 .. n) \ {i}) /\ Cardinality((1 .. n) \ {i}) = n - 1
    BY <1>1, FS_RemoveElement
  <2>3. Cardinality(AllEarlier(notes, i)) <= n - 1
    BY <2>1, <2>2, FS_Subset
  <2>. QED
    BY <2>3, PlaceCounts
<1>3. ASSUME NEW i \in 1 .. n, NEW j \in 1 .. n, Place(notes, i) = Place(notes, j)
      PROVE  i = j
  <2>1. ~Earlier(notes, i, j)
    BY <1>2, <1>3, EarlierIsLower
  <2>2. ~Earlier(notes, j, i)
    BY <1>2, <1>3, EarlierIsLower
  <2>. QED
    BY <2>1, <2>2, EarlierIsOrder
<1> DEFINE f == [i \in 1 .. n |-> Place(notes, i)]
<1>4. f \in Injection(1 .. n, 1 .. n)
  BY <1>2, <1>3 DEF Injection, IsInjective
<1>5. f \in Surjection(1 .. n, 1 .. n)
  BY <1>1, <1>4, FS_Injection
<1>6. \A k \in 1 .. n : \E i \in 1 .. n : Place(notes, i) = k
  BY <1>5 DEF Surjection
<1>. QED
  BY <1>2, <1>3, <1>6

\* Sorted is the notes, each at its place.
LEMMA SortedIs ==
  ASSUME NEW notes \in Seq(NoteRefs), NEW n \in Nat, n = Len(notes)
  PROVE  /\ Sorted(notes) \in Seq(NoteRefs) /\ Len(Sorted(notes)) = n
         /\ \E g \in Bijection(1 .. n, 1 .. n) :
              \A k \in 1 .. n : Sorted(notes)[k] = notes[g[k]] /\ Place(notes, g[k]) = k
<1> DEFINE At(k) == CHOOSE i \in DOMAIN notes : Place(notes, i) = k
           g == [k \in 1 .. n |-> At(k)]
<1>0. DOMAIN notes = 1 .. n
  OBVIOUS
<1>1. \A k \in 1 .. n : At(k) \in 1 .. n /\ Place(notes, At(k)) = k
  <2>. SUFFICES ASSUME NEW k \in 1 .. n PROVE At(k) \in DOMAIN notes /\ Place(notes, At(k)) = k
    BY <1>0
  <2>1. \E i \in DOMAIN notes : Place(notes, i) = k
    BY <1>0, PlacesAreTaken
  <2>. QED
    BY <2>1
<1>2. Sorted(notes) = [k \in DOMAIN notes |-> notes[At(k)]]
  BY DEF Sorted
<1>3. \A i \in 1 .. n : At(Place(notes, i)) = i
  BY <1>1, PlacesAreTaken
<1>. HIDE DEF At
<1>4. g \in [1 .. n -> 1 .. n] /\ \A k \in 1 .. n : g[k] = At(k)
  BY <1>1
<1>. HIDE DEF g
<1>5. g \in Injection(1 .. n, 1 .. n)
  BY <1>1, <1>4 DEF Injection, IsInjective
<1>6. g \in Surjection(1 .. n, 1 .. n)
  <2>1. \A i \in 1 .. n : Place(notes, i) \in 1 .. n /\ g[Place(notes, i)] = i
    BY <1>3, <1>4, PlacesAreTaken
  <2>. QED
    BY <1>4, <2>1 DEF Surjection
<1>7. g \in Bijection(1 .. n, 1 .. n)
  BY <1>5, <1>6 DEF Bijection
<1>8. \A k \in 1 .. n : notes[At(k)] \in NoteRefs
  BY <1>1
<1>9. Sorted(notes) \in Seq(NoteRefs) /\ Len(Sorted(notes)) = n
  BY <1>0, <1>2, <1>8
<1>10. \A k \in 1 .. n : Sorted(notes)[k] = notes[g[k]] /\ Place(notes, g[k]) = k
  BY <1>0, <1>1, <1>2, <1>4
<1>. QED
  BY <1>7, <1>9, <1>10

\* What a bijection maps to each other is as many.
LEMMA AsMany ==
  ASSUME NEW n \in Nat, NEW m \in Nat, NEW g \in Bijection(1 .. n, 1 .. m),
         NEW X \in SUBSET (1 .. n), NEW Y \in SUBSET (1 .. m),
         \A k \in 1 .. n : k \in X <=> g[k] \in Y
  PROVE  Cardinality(X) = Cardinality(Y)
<1> DEFINE h == [k \in X |-> g[k]]
<1>1. g \in [1 .. n -> 1 .. m] /\ (\A a, b \in 1 .. n : g[a] = g[b] => a = b)
      /\ \A t \in 1 .. m : \E s \in 1 .. n : g[s] = t
  BY DEF Bijection, Injection, IsInjective, Surjection
<1>2. h \in [X -> Y] /\ \A k \in X : h[k] = g[k]
  BY <1>1
<1>. HIDE DEF h
<1>3. h \in Injection(X, Y)
  BY <1>1, <1>2 DEF Injection, IsInjective
<1>4. h \in Surjection(X, Y)
  BY <1>1, <1>2 DEF Surjection
<1>5. ExistsBijection(X, Y)
  BY <1>3, <1>4 DEF ExistsBijection, Bijection
<1>6. IsFiniteSet(1 .. n)
  BY FS_Interval
<1>7. IsFiniteSet(X)
  BY <1>6, FS_Subset
<1>. QED
  BY <1>5, <1>7, FS_Bijection

\* Sorting keeps each name as often as it occurs.
LEMMA SortedKeepsNames ==
  ASSUME NEW notes \in Seq(NoteRefs), NEW name
  PROVE  NameCount(Sorted(notes), name) = NameCount(notes, name)
<1>1. PICK n \in Nat : n = Len(notes)
  OBVIOUS
<1>2. PICK s \in Seq(NoteRefs) : s = Sorted(notes) /\ Len(s) = n
  BY <1>1, SortedIs
<1>3. PICK g \in Bijection(1 .. n, 1 .. n) : \A k \in 1 .. n : s[k] = notes[g[k]]
  BY <1>1, <1>2, SortedIs
<1> DEFINE Called(note) == <<Base58ToBelts(note.first), Base58ToBelts(note.last)>> = name
           X == {k \in 1 .. n : Called(s[k])}
           Y == {i \in 1 .. n : Called(notes[i])}
<1>4. NameCount(s, name) = Cardinality(X)
  <2>1. DOMAIN s = 1 .. n
    BY <1>2
  <2>. QED
    BY <2>1 DEF NameCount
<1>5. NameCount(notes, name) = Cardinality(Y)
  <2>1. DOMAIN notes = 1 .. n
    BY <1>1
  <2>. QED
    BY <2>1 DEF NameCount
<1>. HIDE DEF Called
<1>6. X \in SUBSET (1 .. n) /\ Y \in SUBSET (1 .. n)
  OBVIOUS
<1>7. \A k \in 1 .. n : g[k] \in 1 .. n
  BY DEF Bijection, Surjection
<1>8. \A k \in 1 .. n : k \in X <=> g[k] \in Y
  BY <1>3, <1>7
<1>. HIDE DEF X, Y
<1>9. Cardinality(X) = Cardinality(Y)
  BY <1>6, <1>8, AsMany
<1>. QED
  BY <1>2, <1>4, <1>5, <1>9

\* What compute_notes_hash hashes tells each name, as often as it occurs.
LEMMA NotesHashTells ==
  ASSUME NEW ns \in Seq(NoteRefs), NEW ms \in Seq(NoteRefs), Named(ns), Named(ms),
         NotesHash(ns) = NotesHash(ms)
  PROVE  SameNames(ns, ms)
<1>1. PICK n \in Nat, m \in Nat : n = Len(ns) /\ m = Len(ms)
  OBVIOUS
<1>2. PICK s \in Seq(NoteRefs) : s = Sorted(ns) /\ Len(s) = n
  BY <1>1, SortedIs
<1>3. PICK t \in Seq(NoteRefs) : t = Sorted(ms) /\ Len(t) = m
  BY <1>1, SortedIs
<1>4. Named(s)
  <2>1. \A k \in 1 .. n : \E i \in 1 .. n : s[k] = ns[i]
    <3>1. PICK g \in Bijection(1 .. n, 1 .. n) : \A k \in 1 .. n : s[k] = ns[g[k]]
      BY <1>1, <1>2, SortedIs
    <3>2. \A k \in 1 .. n : g[k] \in 1 .. n
      BY DEF Bijection, Surjection
    <3>. QED
      BY <3>1, <3>2
  <2>2. DOMAIN s = 1 .. n /\ DOMAIN ns = 1 .. n
    BY <1>1, <1>2
  <2>. QED
    BY <2>1, <2>2 DEF Named
<1>5. Named(t)
  <2>1. \A k \in 1 .. m : \E i \in 1 .. m : t[k] = ms[i]
    <3>1. PICK g \in Bijection(1 .. m, 1 .. m) : \A k \in 1 .. m : t[k] = ms[g[k]]
      BY <1>1, <1>3, SortedIs, SMTT(30)
    <3>2. \A k \in 1 .. m : g[k] \in 1 .. m
      BY DEF Bijection, Surjection
    <3>. QED
      BY <3>1, <3>2
  <2>2. DOMAIN t = 1 .. m /\ DOMAIN ms = 1 .. m
    BY <1>1, <1>3
  <2>. QED
    BY <2>1, <2>2 DEF Named
<1>6. NotesBelts(s) = NotesBelts(t)
  BY <1>2, <1>3 DEF NotesHash, Tip5
<1>7. n = m /\ \A i \in 1 .. n : NoteBelts(s[i]) = NoteBelts(t[i])
  BY <1>2, <1>3, <1>4, <1>5, <1>6, SameBeltsOneByOne
<1>8. DOMAIN s = 1 .. n /\ DOMAIN t = 1 .. n
  BY <1>2, <1>3, <1>7
<1>9. \A i \in 1 .. n : /\ Base58ToBelts(s[i].first) = Base58ToBelts(t[i].first)
                        /\ Base58ToBelts(s[i].last) = Base58ToBelts(t[i].last)
  <2>. SUFFICES ASSUME NEW i \in 1 .. n
                PROVE  /\ Base58ToBelts(s[i].first) = Base58ToBelts(t[i].first)
                       /\ Base58ToBelts(s[i].last) = Base58ToBelts(t[i].last)
    OBVIOUS
  <2>1. s[i] \in NoteRefs /\ t[i] \in NoteRefs
    BY <1>2, <1>3, <1>7
  <2>2. /\ Decodes(s[i].first) /\ Decodes(s[i].last)
        /\ Decodes(t[i].first) /\ Decodes(t[i].last)
    BY <1>4, <1>5, <1>8 DEF Named
  <2>. QED
    BY <1>7, <2>1, <2>2, NoteBeltsTell
<1>10. ASSUME NEW name PROVE NameCount(s, name) = NameCount(t, name)
  <2>1. {i \in DOMAIN s : <<Base58ToBelts(s[i].first), Base58ToBelts(s[i].last)>> = name}
          = {i \in DOMAIN t : <<Base58ToBelts(t[i].first), Base58ToBelts(t[i].last)>> = name}
    BY <1>8, <1>9
  <2>. QED
    BY <2>1 DEF NameCount
<1>11. ASSUME NEW name PROVE NameCount(ns, name) = NameCount(ms, name)
  BY <1>2, <1>3, <1>10, SortedKeepsNames
<1>. QED
  BY <1>11 DEF SameNames

\* Each element of s has one of its own in t that is the same.
Paired(s, t, n, m) ==
  \E g \in Bijection(1 .. n, 1 .. m) : \A i \in 1 .. n : s[i] = t[g[i]]

\* Lists of which one is the other in another order: which element goes where.
LEMMA ReorderedIs ==
  ASSUME NEW s, NEW t, NEW n \in Nat, NEW m \in Nat,
         DOMAIN s = 1 .. n, DOMAIN t = 1 .. m, Reordered(s, t)
  PROVE  Paired(s, t, n, m)
<1> DEFINE InS(x) == {i \in 1 .. n : s[i] = x}
           InT(x) == {i \in 1 .. m : t[i] = x}
           All == ToSet(s) \cup ToSet(t)
           To(x) == CHOOSE f : f \in Bijection(InS(x), InT(x))
           g == [i \in 1 .. n |-> To(s[i])[i]]
<1>1. ASSUME NEW x \in All PROVE To(x) \in Bijection(InS(x), InT(x))
  <2>1. Cardinality(InS(x)) = Cardinality(InT(x))
    BY DEF Reordered, Occurrences
  <2>2. IsFiniteSet(1 .. n) /\ IsFiniteSet(1 .. m)
    BY FS_Interval
  <2>3. InS(x) \in SUBSET (1 .. n) /\ InT(x) \in SUBSET (1 .. m)
    OBVIOUS
  <2>4. IsFiniteSet(InS(x)) /\ IsFiniteSet(InT(x))
    BY <2>2, <2>3, FS_Subset
  <2>. HIDE DEF InS, InT
  <2>5. ExistsBijection(InS(x), InT(x))
    BY <2>1, <2>4, FS_SameCardinalityBij
  <2>6. \E f : f \in Bijection(InS(x), InT(x))
    BY <2>5 DEF ExistsBijection
  <2>. QED
    BY <2>6, Zenon
<1>2. (\A i \in 1 .. n : s[i] \in All) /\ (\A j \in 1 .. m : t[j] \in All)
  BY DEF ToSet
<1>. HIDE DEF To, All
<1>3. ASSUME NEW x \in All
      PROVE  /\ \A i \in 1 .. n : s[i] = x => To(x)[i] \in 1 .. m /\ t[To(x)[i]] = x
             /\ \A i, j \in 1 .. n : s[i] = x /\ s[j] = x /\ To(x)[i] = To(x)[j] => i = j
             /\ \A j \in 1 .. m : t[j] = x => \E i \in 1 .. n : s[i] = x /\ To(x)[i] = j
  <2>1. /\ To(x) \in [InS(x) -> InT(x)]
        /\ \A a, b \in InS(x) : To(x)[a] = To(x)[b] => a = b
        /\ \A b \in InT(x) : \E a \in InS(x) : To(x)[a] = b
    BY <1>1 DEF Bijection, Injection, IsInjective, Surjection
  <2>. QED
    BY <2>1
<1>4. \A i \in 1 .. n : g[i] = To(s[i])[i]
  OBVIOUS
<1>5. DOMAIN g = 1 .. n /\ g = [i \in DOMAIN g |-> g[i]]
  OBVIOUS
<1>. HIDE DEF g
<1>6. \A i \in 1 .. n : g[i] \in 1 .. m /\ s[i] = t[g[i]]
  <2>. SUFFICES ASSUME NEW i \in 1 .. n PROVE g[i] \in 1 .. m /\ s[i] = t[g[i]]
    OBVIOUS
  <2>1. s[i] \in All /\ g[i] = To(s[i])[i]
    BY <1>2, <1>4
  <2>2. To(s[i])[i] \in 1 .. m /\ t[To(s[i])[i]] = s[i]
    BY <1>3, <2>1
  <2>. QED
    BY <2>1, <2>2
<1>7. g \in [1 .. n -> 1 .. m]
  BY <1>5, <1>6
<1>8. \A i, j \in 1 .. n : g[i] = g[j] => i = j
  <2>. SUFFICES ASSUME NEW i \in 1 .. n, NEW j \in 1 .. n, g[i] = g[j] PROVE i = j
    OBVIOUS
  <2>1. s[i] = s[j]
    BY <1>6
  <2>2. To(s[i])[i] = To(s[i])[j]
    BY <1>4, <2>1
  <2>. QED
    BY <1>2, <1>3, <2>1, <2>2
<1>9. \A j \in 1 .. m : \E i \in 1 .. n : g[i] = j
  <2>. SUFFICES ASSUME NEW j \in 1 .. m PROVE \E i \in 1 .. n : g[i] = j
    OBVIOUS
  <2>1. PICK x \in All : x = t[j]
    BY <1>2
  <2>2. PICK i \in 1 .. n : s[i] = x /\ To(x)[i] = j
    BY <1>3, <2>1
  <2>. QED
    BY <1>4, <2>2
<1>10. g \in Bijection(1 .. n, 1 .. m)
  BY <1>7, <1>8, <1>9 DEF Bijection, Injection, IsInjective, Surjection
<1>. QED
  BY <1>6, <1>10 DEF Paired

\* The notes earlier than the one at place k, and that one.
LEMMA UpToPlace ==
  ASSUME NEW notes \in Seq(NoteRefs), NEW i \in 1 .. Len(notes)
  PROVE  /\ IsFiniteSet(AllEarlier(notes, i) \cup {i})
         /\ Cardinality(AllEarlier(notes, i) \cup {i}) = Place(notes, i)
<1>1. i \notin AllEarlier(notes, i)
  BY EarlierIsOrder DEF AllEarlier
<1>2. PICK S : S = AllEarlier(notes, i)
  OBVIOUS
<1>3. IsFiniteSet(S) /\ Cardinality(S) \in Nat /\ Place(notes, i) = 1 + Cardinality(S)
  BY <1>2, PlaceCounts
<1>4. IsFiniteSet(S \cup {i}) /\ Cardinality(S \cup {i}) = Cardinality(S) + 1
  BY <1>1, <1>2, <1>3, FS_AddElement
<1>. QED
  BY <1>2, <1>3, <1>4

\* h says where in ms the name of each of the n notes of ns is.
Permutes(h, ns, ms, n) ==
  /\ h \in Bijection(1 .. n, 1 .. n)
  /\ n = Len(ns) /\ n = Len(ms)
  /\ \A i \in 1 .. n : SameName(ns[i], ms[h[i]])

\* Of two lists of the same names, what stands at a place once they are sorted
\* cannot come before what stands there in the other.
LEMMA NotBefore ==
  ASSUME NEW ns \in Seq(NoteRefs), NEW ms \in Seq(NoteRefs), NEW n \in Nat,
         NEW h, Permutes(h, ns, ms, n),
         NEW k \in 1 .. n, NEW i \in 1 .. n, NEW j \in 1 .. n,
         Place(ns, i) = k /\ Place(ms, j) = k
  PROVE  ~NoteBefore(ns[i], ms[j])
<1>. SUFFICES ASSUME NoteBefore(ns[i], ms[j]) PROVE FALSE
  OBVIOUS
<1>len. n = Len(ns) /\ n = Len(ms)
  BY DEF Permutes
<1>in. /\ \A l \in 1 .. n : ns[l] \in NoteRefs /\ ms[l] \in NoteRefs
      /\ i \in 1 .. Len(ns) /\ j \in 1 .. Len(ms)
  <2>1. n = Len(ns) /\ n = Len(ms)
    BY <1>len
  <2>2. \A l \in 1 .. Len(ns) : ns[l] \in NoteRefs
    OBVIOUS
  <2>3. \A l \in 1 .. Len(ms) : ms[l] \in NoteRefs
    OBVIOUS
  <2>. QED
    BY <2>1, <2>2, <2>3
<1> DEFINE X == {l \in 1 .. n : NoteBefore(ns[l], ms[j])}
           Y == {l \in 1 .. n : NoteBefore(ms[l], ms[j])}
<1>1. AllEarlier(ns, i) \cup {i} \in SUBSET X
  <2>. SUFFICES ASSUME NEW l \in AllEarlier(ns, i) \cup {i} PROVE l \in X
    OBVIOUS
  <2>1. l \in 1 .. n
    BY <1>len DEF AllEarlier
  <2>2. CASE l = i
    BY <2>2
  <2>3. CASE Earlier(ns, l, i)
    <3>1. PICK a \in NoteRefs, b \in NoteRefs, c \in NoteRefs : a = ns[l] /\ b = ns[i] /\ c = ms[j]
      BY <1>in, <2>1
    <3>2. NoteBefore(a, b) \/ SameName(a, b)
      BY <2>3, <3>1, NotesAreOrdered DEF Earlier
    <3>3. SameName(a, b) /\ NoteBefore(b, c) => NoteBefore(a, c)
      BY DEF SameName, NoteBefore
    <3>4. NoteBefore(a, c)
      BY <3>1, <3>2, <3>3, NotesAreOrdered
    <3>. QED
      BY <2>1, <3>1, <3>4
  <2>. QED
    BY <2>2, <2>3 DEF AllEarlier
<1>2. Y \in SUBSET AllEarlier(ms, j)
  BY <1>len DEF AllEarlier, Earlier
<1>3. \A l \in 1 .. n : l \in X <=> h[l] \in Y
  <2>. SUFFICES ASSUME NEW l \in 1 .. n PROVE l \in X <=> h[l] \in Y
    OBVIOUS
  <2>1. h[l] \in 1 .. n /\ SameName(ns[l], ms[h[l]])
    BY DEF Permutes, Bijection, Surjection
  <2>2. NoteBefore(ns[l], ms[j]) <=> NoteBefore(ms[h[l]], ms[j])
    BY <2>1 DEF SameName, NoteBefore
  <2>. QED
    BY <2>1, <2>2
<1>4. X \in SUBSET (1 .. n) /\ Y \in SUBSET (1 .. n)
  OBVIOUS
<1>. HIDE DEF X, Y
<1>5. Cardinality(X) = Cardinality(Y)
  <2>1. h \in Bijection(1 .. n, 1 .. n)
    BY DEF Permutes
  <2>. QED
    BY <1>3, <1>4, <2>1, AsMany
<1>6. IsFiniteSet(1 .. n)
  BY FS_Interval
<1>7. IsFiniteSet(X) /\ IsFiniteSet(Y)
  BY <1>4, <1>6, FS_Subset
<1>8. Cardinality(AllEarlier(ns, i) \cup {i}) <= Cardinality(X)
  BY <1>1, <1>7, FS_Subset
<1>9. Cardinality(AllEarlier(ns, i) \cup {i}) = k
  BY <1>in, UpToPlace
<1>10. IsFiniteSet(AllEarlier(ms, j)) /\ 1 + Cardinality(AllEarlier(ms, j)) = k
       /\ Cardinality(AllEarlier(ms, j)) \in Nat
  BY <1>in, PlaceCounts
<1>11. Cardinality(Y) <= Cardinality(AllEarlier(ms, j))
  BY <1>2, <1>10, FS_Subset
<1>12. Cardinality(X) \in Nat
  BY <1>7, FS_CardinalityType
<1>. QED
  BY <1>5, <1>8, <1>9, <1>10, <1>11, <1>12

\* Lists of notes of which one has the names of the other in another order
\* have one hash.
LEMMA SortingUndoesTheOrder ==
  ASSUME NEW ns \in Seq(NoteRefs), NEW ms \in Seq(NoteRefs), Named(ns), Named(ms),
         Reordered(NameTexts(ns), NameTexts(ms))
  PROVE  NotesHash(ns) = NotesHash(ms)
<1>1. PICK n \in Nat, m \in Nat : n = Len(ns) /\ m = Len(ms)
  OBVIOUS
<1>2. PICK s, t : s = NameTexts(ns) /\ t = NameTexts(ms)
  OBVIOUS
<1>3. /\ DOMAIN s = 1 .. n /\ DOMAIN t = 1 .. m /\ Reordered(s, t)
      /\ \A i \in 1 .. n : s[i] = <<ns[i].first, ns[i].last>>
      /\ \A i \in 1 .. m : t[i] = <<ms[i].first, ms[i].last>>
  <2>1. DOMAIN ns = 1 .. n /\ DOMAIN ms = 1 .. m
    BY <1>1
  <2>2. Reordered(s, t)
    BY <1>2
  <2>. QED
    BY <1>2, <2>1, <2>2 DEF NameTexts
<1>4. PICK h \in Bijection(1 .. n, 1 .. m) : \A i \in 1 .. n : s[i] = t[h[i]]
  <2>1. DOMAIN s = 1 .. n /\ DOMAIN t = 1 .. m /\ Reordered(s, t)
    BY <1>3
  <2>2. Paired(s, t, n, m)
    BY <2>1, ReorderedIs
  <2>. QED
    BY <2>2 DEF Paired
<1>5. n = m
  <2>1. ExistsBijection(1 .. n, 1 .. m)
    BY DEF ExistsBijection
  <2>2. \A k \in Nat : IsFiniteSet(1 .. k) /\ Cardinality(1 .. k) = k
    <3>. SUFFICES ASSUME NEW k \in Nat PROVE IsFiniteSet(1 .. k) /\ Cardinality(1 .. k) = k
      OBVIOUS
    <3>1. 1 \in Int /\ k \in Int
      OBVIOUS
    <3>2. IsFiniteSet(1 .. k) /\ Cardinality(1 .. k) = IF 1 > k THEN 0 ELSE k - 1 + 1
      BY <3>1, FS_Interval, Zenon
    <3>. QED
      BY <3>2
  <2>3. Cardinality(1 .. m) = Cardinality(1 .. n)
    BY <2>1, <2>2, FS_Bijection
  <2>. QED
    BY <2>2, <2>3
<1>6. \A i \in 1 .. n : h[i] \in 1 .. n /\ SameName(ns[i], ms[h[i]])
  <2>1. \A i \in 1 .. n : h[i] \in 1 .. m
    BY DEF Bijection, Surjection
  <2>. QED
    BY <1>3, <1>4, <1>5, <2>1 DEF SameName
<1>7. h \in Bijection(1 .. n, 1 .. n)
  BY <1>5
<1>8. PICK f \in Bijection(1 .. n, 1 .. n) :
        \A j \in 1 .. n : h[f[j]] = j
  <2> DEFINE f == [j \in 1 .. n |-> CHOOSE i \in 1 .. n : h[i] = j]
  <2>1. /\ h \in [1 .. n -> 1 .. n] /\ \A a, b \in 1 .. n : h[a] = h[b] => a = b
        /\ \A b \in 1 .. n : \E a \in 1 .. n : h[a] = b
    BY <1>7 DEF Bijection, Injection, IsInjective, Surjection
  <2>2. \A j \in 1 .. n : f[j] \in 1 .. n /\ h[f[j]] = j
    BY <2>1
  <2>3. f \in [1 .. n -> 1 .. n]
    BY <2>2
  <2>. HIDE DEF f
  <2>4. \A a, b \in 1 .. n : f[a] = f[b] => a = b
    BY <2>2
  <2>5. \A b \in 1 .. n : \E a \in 1 .. n : f[a] = b
    <3>. SUFFICES ASSUME NEW b \in 1 .. n PROVE \E a \in 1 .. n : f[a] = b
      OBVIOUS
    <3>1. PICK a \in 1 .. n : a = h[b]
      BY <2>1
    <3>2. f[a] \in 1 .. n /\ h[f[a]] = h[b]
      BY <2>2, <3>1
    <3>3. f[a] = b
      BY <2>1, <3>2
    <3>. QED
      BY <3>3
  <2>6. f \in Bijection(1 .. n, 1 .. n)
    BY <2>3, <2>4, <2>5 DEF Bijection, Injection, IsInjective, Surjection
  <2>. QED
    BY <2>2, <2>6
<1>9. \A j \in 1 .. n : f[j] \in 1 .. n /\ SameName(ms[j], ns[f[j]])
  <2>1. \A j \in 1 .. n : f[j] \in 1 .. n
    BY DEF Bijection, Surjection
  <2>. QED
    BY <1>6, <1>8, <2>1 DEF SameName
<1>10. PICK p \in Seq(NoteRefs) : p = Sorted(ns) /\ Len(p) = n
  BY <1>1, SortedIs
<1>11. PICK q \in Seq(NoteRefs) : q = Sorted(ms) /\ Len(q) = n
  BY <1>1, <1>5, SortedIs
<1>12. PICK u \in Bijection(1 .. n, 1 .. n) : \A k \in 1 .. n : p[k] = ns[u[k]] /\ Place(ns, u[k]) = k
  BY <1>1, <1>10, SortedIs
<1>13. PICK v \in Bijection(1 .. n, 1 .. n) : \A k \in 1 .. n : q[k] = ms[v[k]] /\ Place(ms, v[k]) = k
  BY <1>1, <1>5, <1>11, SortedIs
<1>14. \A k \in 1 .. n : u[k] \in 1 .. n /\ v[k] \in 1 .. n
  BY DEF Bijection, Surjection
<1>15. ASSUME NEW k \in 1 .. n PROVE SameName(p[k], q[k])
  <2>1. PICK i \in 1 .. n, j \in 1 .. n : i = u[k] /\ j = v[k]
    BY <1>14
  <2>2. p[k] = ns[i] /\ q[k] = ms[j] /\ Place(ns, i) = k /\ Place(ms, j) = k
    BY <1>12, <1>13, <2>1
  <2>3. n = Len(ns) /\ n = Len(ms)
    BY <1>1, <1>5
  <2>4. ~NoteBefore(ns[i], ms[j])
    <3>1. Permutes(h, ns, ms, n)
      BY <1>6, <1>7, <2>3 DEF Permutes
    <3>. QED
      BY <2>2, <3>1, NotBefore
  <2>5. ~NoteBefore(ms[j], ns[i])
    <3>1. Permutes(f, ms, ns, n)
      BY <1>9, <2>3 DEF Permutes
    <3>. QED
      BY <2>2, <3>1, NotBefore
  <2>6. ns[i] \in NoteRefs /\ ms[j] \in NoteRefs
    <3>1. \A l \in 1 .. Len(ns) : ns[l] \in NoteRefs
      OBVIOUS
    <3>2. \A l \in 1 .. Len(ms) : ms[l] \in NoteRefs
      OBVIOUS
    <3>. QED
      BY <2>3, <3>1, <3>2
  <2>. QED
    BY <2>2, <2>4, <2>5, <2>6, NotesAreOrdered
<1>16. \A k \in 1 .. n : NoteBelts(p[k]) = NoteBelts(q[k])
  BY <1>15 DEF SameName, NoteBelts
<1>17. Named(p)
  <2>1. DOMAIN p = 1 .. n /\ DOMAIN ns = 1 .. n
    BY <1>1, <1>10
  <2>. QED
    BY <1>12, <1>14, <2>1 DEF Named
<1>18. Named(q)
  <2>1. DOMAIN q = 1 .. n /\ DOMAIN ms = 1 .. n
    BY <1>1, <1>5, <1>11
  <2>. QED
    BY <1>13, <1>14, <2>1 DEF Named
<1>19. NotesBelts(p) = NotesBelts(q)
  BY <1>10, <1>11, <1>16, <1>17, <1>18, SameBeltsTogether
<1>. QED
  BY <1>10, <1>11, <1>19 DEF NotesHash

-----------------------------------------------------------------------------
(***************************************************************************)
(* The way from the signer to the verifier.                                *)
(***************************************************************************)
\* A signature over the digest of what was signed, damaged or not.
SignaturesOver(auth) ==
  [key : Keys, over : {Digest(auth)}, decodes : BOOLEAN]

Payloads(auth) == [authorization : Messages, signature : SignaturesOver(auth)]

\* The inductive invariant: the signature is of a message that has a digest, and
\* stays; the authorization beside it stays a message, and is the signed one
\* until it is changed; what the verifier said holds of the payload it saw.
IInv ==
  /\ edits \in 0 .. MaxEdits
  /\ result \in {"none", "unsigned"} \cup Verdicts
  /\ signed = NoPayload \/ signed \in Messages
  /\ signed = NoPayload => payload = NoPayload /\ result = "none"
  /\ payload = NoPayload <=> signed = NoPayload \/ result = "unsigned"
  /\ payload # NoPayload =>
       /\ HasDigest(signed)
       /\ payload \in Payloads(signed)
       /\ edits = 0 => payload.authorization = signed /\ payload.signature.decodes
  /\ result \in Verdicts =>
       /\ payload # NoPayload
       /\ result = Verdict(payload.authorization, payload.signature)

\* Nothing signed is not a message, and no payload.
LEMMA NothingIsNothing ==
  /\ NoPayload \notin Messages
  /\ \A auth : NoPayload \notin Payloads(auth)
<1>1. \A m \in Messages : m # NoPayload
  <2>. SUFFICES ASSUME NEW m \in Messages PROVE m # NoPayload
    OBVIOUS
  <2>1. "from" \in DOMAIN m
    BY DEF Messages
  <2>2. "from" \notin DOMAIN NoPayload
    BY DEF NoPayload
  <2>. QED
    BY <2>1, <2>2
<1>2. ASSUME NEW auth, NEW p \in Payloads(auth) PROVE p # NoPayload
  <2>1. "signature" \in DOMAIN p
    BY DEF Payloads
  <2>2. "signature" \notin DOMAIN NoPayload
    BY DEF NoPayload
  <2>. QED
    BY <2>1, <2>2
<1>. QED
  BY <1>1, <1>2

\* verify_payment answers with one of its verdicts.
LEMMA VerdictType ==
  ASSUME NEW auth, NEW signature
  PROVE  Verdict(auth, signature) \in Verdicts
BY DEF Verdict, Verdicts

\* A changed field leaves a message.
LEMMA ChangedIsMessage ==
  ASSUME NEW auth \in Messages, NEW f \in DOMAIN FieldValues, NEW v \in FieldValues[f]
  PROVE  [auth EXCEPT ![f] = v] \in Messages
<1>1. FieldValues \in
        [from : SUBSET Texts, to : SUBSET Texts, value : SUBSET Decimals,
         fee : SUBSET Decimals, nonce : SUBSET Texts, validAfter : SUBSET Times,
         validBefore : SUBSET Times, notes : SUBSET Seq(NoteRefs),
         changeAddress : SUBSET Texts]
  BY SignMessageConstants
<1>2. f \in {"from", "to", "value", "fee", "nonce", "validAfter", "validBefore", "notes",
             "changeAddress"}
  BY <1>1
<1>3. /\ FieldValues["from"] \subseteq Texts /\ FieldValues["to"] \subseteq Texts
      /\ FieldValues["value"] \subseteq Decimals /\ FieldValues["fee"] \subseteq Decimals
      /\ FieldValues["nonce"] \subseteq Texts /\ FieldValues["validAfter"] \subseteq Times
      /\ FieldValues["validBefore"] \subseteq Times
      /\ FieldValues["notes"] \subseteq Seq(NoteRefs)
      /\ FieldValues["changeAddress"] \subseteq Texts
  BY <1>1
<1>4. CASE f = "from"
  BY <1>3, <1>4 DEF Messages
<1>5. CASE f = "to"
  BY <1>3, <1>5 DEF Messages
<1>6. CASE f = "value"
  BY <1>3, <1>6 DEF Messages
<1>7. CASE f = "fee"
  BY <1>3, <1>7 DEF Messages
<1>8. CASE f = "nonce"
  BY <1>3, <1>8 DEF Messages
<1>9. CASE f = "validAfter"
  BY <1>3, <1>9 DEF Messages
<1>10. CASE f = "validBefore"
  BY <1>3, <1>10 DEF Messages
<1>11. CASE f = "notes"
  BY <1>3, <1>11 DEF Messages
<1>12. CASE f = "changeAddress"
  BY <1>3, <1>12 DEF Messages
<1>. QED
  BY <1>2, <1>4, <1>5, <1>6, <1>7, <1>8, <1>9, <1>10, <1>11, <1>12

\* Nothing is signed and nothing is verified to begin with.
LEMMA InitIInv == Init => IInv
BY SignMessageConstants, NothingIsNothing DEF Init, IInv, Verdicts

\* Signing leaves a payload with the digest of what was signed, or none.
LEMMA SignKeepsIInv ==
  ASSUME IInv, NEW k \in Keys, NEW auth \in Authorizations, SignAuthorization(k, auth)
  PROVE  IInv'
<1>1. auth \in Messages /\ auth # NoPayload
  BY SignMessageConstants, NothingIsNothing
<1>2. signed = NoPayload /\ payload = NoPayload /\ signed' = auth /\ edits' = edits
      /\ edits \in 0 .. MaxEdits
  BY DEF SignAuthorization, IInv
<1>3. CASE HasDigest(auth)
  <2>1. /\ payload' = [authorization |-> auth,
                       signature |-> [key |-> k, over |-> Digest(auth), decodes |-> TRUE]]
        /\ result' = "none"
    BY <1>3 DEF SignAuthorization
  <2>2. payload' \in Payloads(auth)
    BY <1>1, <2>1 DEF Payloads, SignaturesOver
  <2>3. payload' # NoPayload
    BY <2>2, NothingIsNothing
  <2>4. payload'.authorization = auth /\ payload'.signature.decodes
    BY <2>1
  <2>. QED
    BY <1>1, <1>2, <1>3, <2>1, <2>2, <2>3, <2>4 DEF IInv, Verdicts
<1>4. CASE ~HasDigest(auth)
  <2>1. payload' = NoPayload /\ result' = "unsigned"
    BY <1>2, <1>4 DEF SignAuthorization
  <2>. QED
    BY <1>1, <1>2, <2>1 DEF IInv, Verdicts
<1>. QED
  BY <1>3, <1>4

\* A change on the way leaves the signature over what was signed.
LEMMA ChangeKeepsIInv ==
  ASSUME IInv, Change
  PROVE  IInv'
<1>1. /\ payload # NoPayload /\ signed # NoPayload /\ result # "unsigned"
      /\ payload \in Payloads(signed) /\ HasDigest(signed) /\ signed \in Messages
  BY DEF IInv, Change
<1>2. edits' = edits + 1 /\ edits < MaxEdits /\ result' = "none" /\ signed' = signed
      /\ edits \in 0 .. MaxEdits /\ MaxEdits \in Nat
  BY SignMessageConstants DEF IInv, Change
<1>3. payload.authorization \in Messages /\ payload.signature \in SignaturesOver(signed)
  BY <1>1 DEF Payloads
<1>4. payload' \in Payloads(signed)
  <2>1. CASE \E f \in DOMAIN FieldValues : \E v \in FieldValues[f] :
               payload' = [payload EXCEPT !.authorization = [payload.authorization EXCEPT ![f] = v]]
    <3>0. PICK f \in DOMAIN FieldValues : \E v \in FieldValues[f] :
            payload' = [payload EXCEPT !.authorization = [payload.authorization EXCEPT ![f] = v]]
      BY <2>1
    <3>1. PICK v \in FieldValues[f] :
            payload' = [payload EXCEPT !.authorization = [payload.authorization EXCEPT ![f] = v]]
      BY <3>0
    <3>2. PICK auth \in Messages : auth = [payload.authorization EXCEPT ![f] = v]
      BY <1>3, ChangedIsMessage
    <3>3. payload' = [payload EXCEPT !.authorization = auth]
      BY <3>1, <3>2
    <3>. QED
      BY <1>1, <3>3 DEF Payloads
  <2>2. CASE payload' = [payload EXCEPT !.signature = [payload.signature EXCEPT !.decodes = FALSE]]
    <3>1. PICK signature : signature = [payload.signature EXCEPT !.decodes = FALSE]
      OBVIOUS
    <3>2. signature \in SignaturesOver(signed)
      BY <1>3, <3>1 DEF SignaturesOver
    <3>3. payload' = [payload EXCEPT !.signature = signature]
      BY <2>2, <3>1
    <3>. QED
      BY <1>1, <3>2, <3>3 DEF Payloads
  <2>. QED
    BY <2>1, <2>2 DEF Change
<1>5. payload' # NoPayload
  BY <1>4, NothingIsNothing
<1>6. edits' # 0 /\ edits' \in 0 .. MaxEdits
  BY <1>2
<1>. QED
  BY <1>1, <1>2, <1>4, <1>5, <1>6 DEF IInv, Verdicts

\* Verifying answers with the verdict on the payload as it is.
LEMMA VerifyKeepsIInv ==
  ASSUME IInv, VerifyPayment
  PROVE  IInv'
<1>1. /\ payload # NoPayload /\ result' = Verdict(payload.authorization, payload.signature)
      /\ signed' = signed /\ payload' = payload /\ edits' = edits
  BY DEF VerifyPayment
<1>2. result' \in Verdicts
  BY <1>1, VerdictType
<1>3. signed # NoPayload
  BY <1>1 DEF IInv
<1>4. result' = Verdict(payload.authorization, payload.signature)'
  BY <1>1 DEF Verdict, HasDigest, Digest, IdentifierOf
<1>. QED
  BY <1>1, <1>2, <1>3, <1>4 DEF IInv, Verdicts

\* The inductive invariant holds in every behaviour.
LEMMA IInvHolds == Spec => []IInv
<1>1. IInv /\ [Next]_vars => IInv'
  <2>. SUFFICES ASSUME IInv, [Next]_vars PROVE IInv'
    OBVIOUS
  <2>1. ASSUME NEW k \in Keys, NEW auth \in Authorizations, SignAuthorization(k, auth)
        PROVE  IInv'
    BY <2>1, SignKeepsIInv
  <2>2. CASE Change
    BY <2>2, ChangeKeepsIInv
  <2>3. CASE VerifyPayment
    BY <2>3, VerifyKeepsIInv
  <2>4. CASE UNCHANGED vars
    BY <2>4 DEF vars, IInv, Verdict
  <2>. QED
    BY <2>1, <2>2, <2>3, <2>4 DEF Next
<1>. QED
  BY InitIInv, <1>1, PTL DEF Spec

\* Type correctness, and that an unchanged payload carries what was signed, for
\* any authorizations, keys and changes.
THEOREM SignMessageTypeCorrect == Spec => []TypeOK
<1>1. IInv => TypeOK
  BY DEF IInv, TypeOK, Verdicts
<1>. QED
  BY IInvHolds, <1>1, PTL

\* A message that has a digest has notes whose names can be read.
LEMMA DigestNeedsNames ==
  ASSUME NEW auth \in Messages, HasDigest(auth)
  PROVE  auth.notes \in Seq(NoteRefs) /\ Named(auth.notes)
BY DEF Messages, HasDigest, Named

\* What a digest tells of a message.
LEMMA DigestTells ==
  ASSUME NEW a \in Messages, NEW b \in Messages, Digest(a) = Digest(b)
  PROVE  /\ Base58ToBelts(a.from) = Base58ToBelts(b.from)
         /\ Base58ToBelts(a.to) = Base58ToBelts(b.to)
         /\ Base58ToBelts(a.nonce) = Base58ToBelts(b.nonce)
         /\ Base58ToBelts(a.changeAddress) = Base58ToBelts(b.changeAddress)
         /\ Belt(a.value) = Belt(b.value) /\ Belt(a.fee) = Belt(b.fee)
         /\ Belt(a.validAfter) = Belt(b.validAfter)
         /\ Belt(a.validBefore) = Belt(b.validBefore)
         /\ NotesHash(a.notes) = NotesHash(b.notes)
<1> DEFINE In(m) == << "x402-nockchain-v2", Base58ToBelts(m.from), Base58ToBelts(m.to),
          Belt(m.value), Belt(m.fee), Base58ToBelts(m.nonce),
          Belt(m.validAfter), Belt(m.validBefore), NotesHash(m.notes),
          Base58ToBelts(m.changeAddress) >>
<1>1. Digest(a).tip5 = In(a) /\ Digest(b).tip5 = In(b)
  BY DEF Digest, Tip5
<1>2. In(a) = In(b)
  BY <1>1
<1>3. /\ In(a)[2] = In(b)[2] /\ In(a)[3] = In(b)[3] /\ In(a)[4] = In(b)[4]
      /\ In(a)[5] = In(b)[5] /\ In(a)[6] = In(b)[6] /\ In(a)[7] = In(b)[7]
      /\ In(a)[8] = In(b)[8] /\ In(a)[9] = In(b)[9] /\ In(a)[10] = In(b)[10]
  <2>. HIDE DEF In
  <2>. QED
    BY <1>2
<1>. QED
  BY <1>3

\* What verify_payment accepts is what was signed, field by field and note by
\* note, for any changes on the way: NockchainVerifier::verify_payment with
\* x402_sign_message_digest.
THEOREM VerifiedWasSigned == Spec => []VerifiedIsSigned
<1>1. ASSUME IInv PROVE VerifiedIsSigned
  <2>. SUFFICES ASSUME result = "ok"
       PROVE  /\ payload.authorization.from = IdentifierOf(payload.signature.key)
              /\ \A f \in {"from", "to", "nonce", "changeAddress"} :
                   Base58ToBelts(payload.authorization[f]) = Base58ToBelts(signed[f])
              /\ \A f \in {"value", "fee", "validAfter", "validBefore"} :
                   Same(payload.authorization[f], signed[f])
              /\ SameNames(payload.authorization.notes, signed.notes)
    BY DEF VerifiedIsSigned
  <2>1. PICK auth, signature : auth = payload.authorization /\ signature = payload.signature
    OBVIOUS
  <2>2. /\ payload # NoPayload /\ Verdict(auth, signature) = "ok"
    BY <1>1, <2>1 DEF IInv, Verdicts
  <2>3. /\ signed \in Messages /\ HasDigest(signed) /\ payload \in Payloads(signed)
    BY <1>1, <2>2 DEF IInv
  <2>4. auth \in Messages /\ signature.over = Digest(signed)
    BY <2>1, <2>3 DEF Payloads, SignaturesOver
  <2>5. /\ IdentifierOf(signature.key) = auth.from /\ HasDigest(auth)
        /\ signature.over = Digest(auth)
    BY <2>2 DEF Verdict
  <2>6. Digest(auth) = Digest(signed)
    BY <2>4, <2>5
  <2>7. \A f \in {"from", "to", "nonce", "changeAddress"} :
          Base58ToBelts(auth[f]) = Base58ToBelts(signed[f])
    BY <2>3, <2>4, <2>6, DigestTells
  <2>8. \A f \in {"value", "fee", "validAfter", "validBefore"} : Same(auth[f], signed[f])
    BY <2>3, <2>4, <2>6, DigestTells DEF Belt, Same
  <2>9. SameNames(auth.notes, signed.notes)
    <3>1. NotesHash(auth.notes) = NotesHash(signed.notes)
      BY <2>3, <2>4, <2>6, DigestTells
    <3>. QED
      BY <2>3, <2>4, <2>5, <3>1, DigestNeedsNames, NotesHashTells
  <2>. QED
    BY <2>1, <2>5, <2>7, <2>8, <2>9
<1>. QED
  BY IInvHolds, <1>1, PTL

\* A list of notes in another order than it was signed in is not refused for its
\* signature: compute_notes_hash sorts before it hashes.
THEOREM AnyOrderVerifies == Spec => []OrderDoesNotMatter
<1>1. ASSUME IInv PROVE OrderDoesNotMatter
  <2>1. PICK auth, signature : auth = payload.authorization /\ signature = payload.signature
    OBVIOUS
  <2>. SUFFICES ASSUME result = "signature_invalid",
                       [auth EXCEPT !.notes = << >>] = [signed EXCEPT !.notes = << >>],
                       Reordered(NameTexts(auth.notes), NameTexts(signed.notes))
                PROVE  FALSE
    BY <2>1 DEF OrderDoesNotMatter
  <2>2. payload # NoPayload /\ Verdict(auth, signature) = "signature_invalid"
    BY <1>1, <2>1 DEF IInv, Verdicts
  <2>3. /\ signed \in Messages /\ HasDigest(signed) /\ payload \in Payloads(signed)
    BY <1>1, <2>2 DEF IInv
  <2>4. auth \in Messages /\ signature.over = Digest(signed)
    BY <2>1, <2>3 DEF Payloads, SignaturesOver
  <2>5. HasDigest(auth) /\ signature.over # Digest(auth)
    BY <2>2 DEF Verdict
  <2>6. NotesHash(auth.notes) = NotesHash(signed.notes)
    BY <2>3, <2>4, <2>5, DigestNeedsNames, SortingUndoesTheOrder
  <2>7. \A f \in {"from", "to", "value", "fee", "nonce", "validAfter", "validBefore",
                  "changeAddress"} : auth[f] = signed[f]
    <3>1. PICK a, s : a = [auth EXCEPT !.notes = << >>] /\ s = [signed EXCEPT !.notes = << >>]
      OBVIOUS
    <3>2. a = s
      BY <3>1
    <3>3. \A f \in {"from", "to", "value", "fee", "nonce", "validAfter", "validBefore",
                    "changeAddress"} : a[f] = auth[f] /\ s[f] = signed[f]
      BY <2>3, <2>4, <3>1 DEF Messages
    <3>. QED
      BY <3>2, <3>3
  <2>8. Digest(auth) = Digest(signed)
    BY <2>6, <2>7 DEF Digest
  <2>. QED
    BY <2>4, <2>5, <2>8
<1>. QED
  BY IInvHolds, <1>1, PTL

\* A payload that a signer made for itself and nobody changed verifies, and the
\* payer a verified payload names is its key: from_identifier and
\* base58_to_belts are inverse, for any prime, alphabet and hash.
THEOREM OwnPayloadVerifies == Spec => []SignerIsVerified
<1>1. ASSUME IInv PROVE SignerIsVerified
  <2>1. PICK auth, signature : auth = payload.authorization /\ signature = payload.signature
    OBVIOUS
  <2>2. ASSUME result \in Verdicts
        PROVE  /\ payload # NoPayload /\ result = Verdict(auth, signature)
               /\ HasDigest(signed) /\ payload \in Payloads(signed)
               /\ signature.key \in Keys /\ signature.over = Digest(signed)
               /\ edits = 0 => auth = signed /\ signature.decodes
    <3>1. /\ payload # NoPayload /\ result = Verdict(auth, signature)
          /\ HasDigest(signed) /\ payload \in Payloads(signed)
          /\ edits = 0 => auth = signed /\ signature.decodes
      BY <1>1, <2>1, <2>2 DEF IInv
    <3>2. signature.key \in Keys /\ signature.over = Digest(signed)
      BY <2>1, <3>1 DEF Payloads, SignaturesOver
    <3>. QED
      BY <3>1, <3>2
  <2>3. ASSUME result \in Verdicts, edits = 0
        PROVE  result = "ok" <=> signed.from = IdentifierOf(signature.key)
    BY <2>2, <2>3 DEF Verdict
  <2>4. ASSUME result = "ok"
        PROVE  Base58ToBelts(auth.from) = PkhOf(signature.key)
    <3>1. result \in Verdicts
      BY <2>4 DEF Verdicts
    <3>2. auth.from = IdentifierOf(signature.key) /\ signature.key \in Keys
      BY <2>2, <2>4, <3>1 DEF Verdict
    <3>. QED
      BY <3>2, IdentifierReads
  <2>. QED
    BY <2>1, <2>3, <2>4 DEF SignerIsVerified
<1>. QED
  BY IInvHolds, <1>1, PTL
=============================================================================
