-------------------------- MODULE SqliteCatalog_proofs --------------------------
(***************************************************************************)
(* The table implements the catalog of the contract, for any entries, any  *)
(* number of requests and callers, and any number of rows.                 *)
(*                                                                         *)
(* The listing is what ORDER BY id makes of the table: row i is the one    *)
(* with i - 1 smaller ids.  That there is one such row for each i follows  *)
(* from the ids' being different (a rank is an injection of the rows into  *)
(* 0 .. n - 1, and there are n of them); that an upsert does to the list   *)
(* what the contract says, from the keys' being different and from the     *)
(* counter's being no smaller than any id.  IInv says these three things.  *)
(*                                                                         *)
(* PagingInv is for the callers: what one has seen is the beginning of     *)
(* what matches, and as long as its offset says.  An upsert extends what   *)
(* matches, or leaves it: that is induction over the list, by a least      *)
(* counterexample.                                                         *)
(***************************************************************************)
EXTENDS SqliteCatalog, FiniteSetTheorems, SequenceTheorems, WellFoundedInduction, TLAPS

\* A table under PRIMARY KEY and UNIQUE (resource, type).
Table(S) ==
  /\ IsFiniteSet(S)
  /\ S \subseteq [id : Nat, entry : Entries]
  /\ \A r, s \in S : r.id = s.id => r = s
  /\ \A r, s \in S : Contract!Key(r.entry) = Contract!Key(s.entry) => r = s

Smaller(S, r) == {other \in S : other.id < r.id}

Rank(S, r) == Cardinality(Smaller(S, r))

RowAt(S, i) == CHOOSE row \in S : Rank(S, row) = i - 1

ListOf(S) == [i \in 1 .. Cardinality(S) |-> RowAt(S, i).entry]

ReaderInv ==
  \A p \in Readers :
    \/ reader[p] = None
    \/ /\ reader[p].filter \in Filters
       /\ reader[p].limit \in Limits
       /\ reader[p].offset \in Nat
       /\ reader[p].done \in BOOLEAN

IInv ==
  /\ Table(rows)
  /\ \A row \in rows : row.id \in 1 .. lastId
  /\ lastId \in 0 .. MaxId
  /\ pending \in [Writers -> Entries \cup {None}]
  /\ DOMAIN reader = Readers
  /\ ReaderInv

-----------------------------------------------------------------------------
(***************************************************************************)
(* The order of the rows.                                                  *)
(***************************************************************************)
\* A row comes after the rows with smaller ids, of which there are fewer than
\* rows (ORDER BY id).
LEMMA RankRange ==
  ASSUME NEW S, Table(S), NEW r \in S
  PROVE  Rank(S, r) \in 0 .. Cardinality(S) - 1
<1>1. IsFiniteSet(S) /\ Cardinality(S) \in Nat
  BY FS_CardinalityType DEF Table
<1>2. IsFiniteSet(S \ {r}) /\ Cardinality(S \ {r}) = Cardinality(S) - 1
  BY <1>1, FS_RemoveElement
<1>3. Smaller(S, r) \subseteq S \ {r}
  BY DEF Smaller, Table
<1>4. IsFiniteSet(Smaller(S, r)) /\ Cardinality(Smaller(S, r)) <= Cardinality(S \ {r})
  BY <1>2, <1>3, FS_Subset
<1>5. Cardinality(Smaller(S, r)) \in Nat
  BY <1>4, FS_CardinalityType
<1>. QED
  BY <1>1, <1>2, <1>4, <1>5 DEF Rank

\* Of two rows the one with the smaller id comes first.
LEMMA RankGrows ==
  ASSUME NEW S, Table(S), NEW r \in S, NEW s \in S, r.id < s.id
  PROVE  Rank(S, r) < Rank(S, s)
<1>1. IsFiniteSet(S) /\ Smaller(S, s) \in SUBSET S /\ Smaller(S, r) \in SUBSET S
  BY DEF Table, Smaller
<1>2. IsFiniteSet(Smaller(S, s)) /\ IsFiniteSet(Smaller(S, r))
  BY <1>1, FS_Subset
<1>3. r \in Smaller(S, s)
  BY DEF Smaller
<1>4. /\ IsFiniteSet(Smaller(S, s) \ {r})
      /\ Cardinality(Smaller(S, s) \ {r}) = Cardinality(Smaller(S, s)) - 1
  BY <1>2, <1>3, FS_RemoveElement
<1>5. Smaller(S, r) \subseteq Smaller(S, s) \ {r}
  BY DEF Smaller, Table
<1>6. Cardinality(Smaller(S, r)) <= Cardinality(Smaller(S, s) \ {r})
  BY <1>4, <1>5, FS_Subset
<1>7. Cardinality(Smaller(S, s)) \in Nat /\ Cardinality(Smaller(S, r)) \in Nat
  BY <1>2, FS_CardinalityType
<1>. QED
  BY <1>4, <1>6, <1>7 DEF Rank

\* Each place of the listing is one row's, and each row has its place.
LEMMA RowAtIs ==
  ASSUME NEW S, Table(S)
  PROVE  /\ \A i \in 1 .. Cardinality(S) : RowAt(S, i) \in S /\ Rank(S, RowAt(S, i)) = i - 1
         /\ \A r \in S : RowAt(S, Rank(S, r) + 1) = r
<1> DEFINE n == Cardinality(S)
           f == [r \in S |-> Rank(S, r)]
<1>1. IsFiniteSet(S) /\ n \in Nat
  BY FS_CardinalityType DEF Table
<1>2. \A r \in S : Rank(S, r) \in 0 .. n - 1
  BY RankRange
<1>3. \A r, s \in S : Rank(S, r) = Rank(S, s) => r = s
  <2>. SUFFICES ASSUME NEW r \in S, NEW s \in S, Rank(S, r) = Rank(S, s), r # s
                PROVE  FALSE
    OBVIOUS
  <2>1. r.id \in Nat /\ s.id \in Nat /\ r.id # s.id
    BY DEF Table
  <2>2. Rank(S, r) \in Int
    BY <1>2
  <2>3. CASE r.id < s.id
    BY <2>2, <2>3, RankGrows
  <2>4. CASE s.id < r.id
    BY <2>2, <2>4, RankGrows
  <2>. QED
    BY <2>1, <2>3, <2>4
<1>4. f \in Injection(S, 0 .. n - 1)
  BY <1>2, <1>3 DEF Injection, IsInjective
<1>5. IsFiniteSet(0 .. n - 1) /\ Cardinality(0 .. n - 1) = n
  <2>1. 0 \in Int /\ n - 1 \in Int
    BY <1>1
  <2>2. /\ IsFiniteSet(0 .. n - 1)
        /\ Cardinality(0 .. n - 1) = IF 0 > n - 1 THEN 0 ELSE (n - 1) - 0 + 1
    BY <2>1, FS_Interval, Zenon
  <2>. QED
    BY <1>1, <2>2
<1>6. f \in Surjection(S, 0 .. n - 1)
  BY <1>4, <1>5, FS_Injection
<1>7. \A k \in 0 .. n - 1 : \E r \in S : Rank(S, r) = k
  BY <1>6 DEF Surjection
<1>8. ASSUME NEW i \in 1 .. n
      PROVE  RowAt(S, i) \in S /\ Rank(S, RowAt(S, i)) = i - 1
  <2>1. i - 1 \in 0 .. n - 1
    BY <1>1
  <2>2. \E r \in S : Rank(S, r) = i - 1
    BY <1>7, <2>1
  <2>. QED
    BY <2>2 DEF RowAt
<1>9. ASSUME NEW r \in S
      PROVE  RowAt(S, Rank(S, r) + 1) = r
  <2>1. (Rank(S, r) + 1) - 1 = Rank(S, r)
    BY <1>2
  <2>. QED
    BY <1>3, <2>1 DEF RowAt
<1>. QED
  BY <1>8, <1>9

\* An empty table lists nothing.
LEMMA ListOfNothing == ListOf({}) = << >>
<1>1. Cardinality({}) = 0
  BY FS_EmptySet
<1>2. ListOf({}) = [i \in 1 .. 0 |-> RowAt({}, i).entry]
  BY <1>1 DEF ListOf
<1>. QED
  BY <1>2

\* The listing is a list of entries, one for each row.
LEMMA ListOfType ==
  ASSUME NEW S, Table(S)
  PROVE  /\ ListOf(S) \in Seq(Entries)
         /\ Len(ListOf(S)) = Cardinality(S)
         /\ \A i \in 1 .. Cardinality(S) : ListOf(S)[i] = RowAt(S, i).entry
<1>1. Cardinality(S) \in Nat
  BY FS_CardinalityType DEF Table
<1>2. \A i \in 1 .. Cardinality(S) : RowAt(S, i).entry \in Entries
  BY RowAtIs DEF Table
<1>. QED
  BY <1>1, <1>2 DEF ListOf

\* A list that is longer by one element is that of Append (Vec::push).
Longer(s, t, x) ==
  Len(t) = Len(s) + 1 /\ (\A i \in 1 .. Len(s) : t[i] = s[i]) /\ t[Len(s) + 1] = x

\* What Append makes of a list.
LEMMA AppendIs ==
  \A s, t \in Seq(Entries), x \in Entries : Longer(s, t, x) => t = Append(s, x)
BY DEF Longer

\* A row with the largest id and a key of its own goes to the end (INSERT with
\* AUTOINCREMENT).
LEMMA ListOfInsert ==
  ASSUME NEW S, Table(S), NEW e \in Entries, NEW id \in Nat,
         \A row \in S : row.id < id,
         \A row \in S : Contract!Key(row.entry) # Contract!Key(e),
         NEW T, T = S \cup {[id |-> id, entry |-> e]}
  PROVE  Table(T) /\ ListOf(T) = Contract!Put(ListOf(S), e)
<1>. PICK new : new = [id |-> id, entry |-> e]
  OBVIOUS
<1>1. T = S \cup {new} /\ new.id = id /\ new.entry = e /\ new \in [id : Nat, entry : Entries]
  OBVIOUS
<1>2. new \notin S /\ IsFiniteSet(S)
  BY <1>1 DEF Table
<1>3. Cardinality(S) \in Nat
  BY <1>2, FS_CardinalityType
<1>4. IsFiniteSet(T) /\ Cardinality(T) = Cardinality(S) + 1
  BY <1>1, <1>2, FS_AddElement
<1>5. Table(T)
  <2>1. \A r, s \in T : r.id = s.id => r = s
    BY <1>1 DEF Table
  <2>2. \A r, s \in T : Contract!Key(r.entry) = Contract!Key(s.entry) => r = s
    BY <1>1 DEF Table
  <2>. QED
    BY <1>1, <1>4, <2>1, <2>2 DEF Table
<1>6. \A r \in S : Rank(T, r) = Rank(S, r)
  <2>1. ASSUME NEW r \in S
        PROVE  Smaller(T, r) = Smaller(S, r)
    <3>1. r.id < id /\ r.id \in Nat
      BY DEF Table
    <3>2. ~(new.id < r.id)
      BY <1>1, <3>1
    <3>. QED
      BY <1>1, <3>2 DEF Smaller
  <2>. QED
    BY <2>1 DEF Rank
<1>7. Rank(T, new) = Cardinality(S)
  <2>1. Smaller(T, new) = S
    <3>1. ~(new.id < new.id)
      BY <1>1
    <3>. QED
      BY <1>1, <3>1 DEF Smaller
  <2>. QED
    BY <2>1 DEF Rank
<1>8. \A i \in 1 .. Cardinality(S) : RowAt(T, i) = RowAt(S, i)
  <2>. SUFFICES ASSUME NEW i \in 1 .. Cardinality(S) PROVE RowAt(T, i) = RowAt(S, i)
    OBVIOUS
  <2>1. RowAt(S, i) \in S /\ Rank(S, RowAt(S, i)) = i - 1
    BY RowAtIs
  <2>2. Rank(T, RowAt(S, i)) + 1 = i
    BY <1>3, <1>6, <2>1
  <2>3. RowAt(T, Rank(T, RowAt(S, i)) + 1) = RowAt(S, i)
    BY <1>1, <1>5, <2>1, RowAtIs
  <2>. QED
    BY <2>2, <2>3
<1>9. RowAt(T, Cardinality(S) + 1) = new
  BY <1>1, <1>5, <1>7, RowAtIs
<1>10. ~\E i \in DOMAIN ListOf(S) : Contract!Key(ListOf(S)[i]) = Contract!Key(e)
  <2>1. DOMAIN ListOf(S) = 1 .. Cardinality(S)
    BY DEF ListOf
  <2>2. \A i \in 1 .. Cardinality(S) : RowAt(S, i) \in S
    BY RowAtIs
  <2>. QED
    BY <2>1, <2>2, ListOfType
<1>11. Contract!Put(ListOf(S), e) = Append(ListOf(S), e)
  BY <1>10 DEF Contract!Put
<1>12. ListOf(T) = Append(ListOf(S), e)
  <2>1. /\ ListOf(S) \in Seq(Entries) /\ Len(ListOf(S)) = Cardinality(S)
        /\ \A i \in 1 .. Cardinality(S) : ListOf(S)[i] = RowAt(S, i).entry
    BY ListOfType
  <2>2. /\ ListOf(T) \in Seq(Entries) /\ Len(ListOf(T)) = Cardinality(S) + 1
        /\ \A i \in 1 .. Cardinality(S) + 1 : ListOf(T)[i] = RowAt(T, i).entry
    BY <1>4, <1>5, ListOfType
  <2>. PICK n \in Nat : n = Cardinality(S)
    BY <1>3
  <2>3. ASSUME NEW i \in 1 .. n
        PROVE  ListOf(T)[i] = ListOf(S)[i]
    <3>1. ListOf(S)[i] = RowAt(S, i).entry /\ RowAt(T, i) = RowAt(S, i)
      BY <1>8, <2>1
    <3>2. i \in 1 .. n + 1
      OBVIOUS
    <3>3. ListOf(T)[i] = RowAt(T, i).entry
      BY <2>2, <3>2
    <3>. QED
      BY <3>1, <3>3
  <2>4. ListOf(T)[n + 1] = e
    <3>1. n + 1 \in 1 .. n + 1
      OBVIOUS
    <3>2. ListOf(T)[n + 1] = RowAt(T, n + 1).entry
      BY <2>2, <3>1
    <3>. QED
      BY <1>1, <1>9, <3>2
  <2>. PICK s \in Seq(Entries), t \in Seq(Entries) : s = ListOf(S) /\ t = ListOf(T)
    BY <2>1, <2>2
  <2>5. Longer(s, t, e)
    BY <2>1, <2>2, <2>3, <2>4 DEF Longer
  <2>6. t = Append(s, e)
    BY <2>5, AppendIs, Zenon
  <2>. QED
    BY <2>6
<1>. QED
  BY <1>5, <1>11, <1>12

\* An entry whose key a row has replaces that row's, in its place (ON CONFLICT
\* ... DO UPDATE).
LEMMA ListOfUpdate ==
  ASSUME NEW S, Table(S), NEW e \in Entries,
         \E row \in S : Contract!Key(row.entry) = Contract!Key(e),
         NEW T, T = {[row EXCEPT !.entry =
                        IF Contract!Key(row.entry) = Contract!Key(e) THEN e ELSE @] : row \in S}
  PROVE  Table(T) /\ ListOf(T) = Contract!Put(ListOf(S), e)
<1>. PICK up : up = [row \in S |->
                       [row EXCEPT !.entry =
                          IF Contract!Key(row.entry) = Contract!Key(e) THEN e ELSE @]]
  OBVIOUS
<1>1. T = {up[row] : row \in S}
  OBVIOUS
<1>2. ASSUME NEW row \in S
      PROVE  /\ up[row].id = row.id
             /\ up[row].entry = IF Contract!Key(row.entry) = Contract!Key(e)
                                THEN e ELSE row.entry
             /\ up[row] \in [id : Nat, entry : Entries]
  <2>1. row \in [id : Nat, entry : Entries]
    BY DEF Table
  <2>. QED
    BY <2>1
<1>3. IsFiniteSet(S) /\ Cardinality(S) \in Nat
  BY FS_CardinalityType DEF Table
<1>4. up \in Bijection(S, T)
  <2>1. \A r, s \in S : up[r] = up[s] => r = s
    BY <1>2 DEF Table
  <2>. QED
    BY <1>1, <2>1 DEF Bijection, Injection, Surjection, IsInjective
<1>5. IsFiniteSet(T) /\ Cardinality(T) = Cardinality(S)
  BY <1>3, <1>4, FS_Bijection DEF ExistsBijection
<1>6. Table(T)
  <2>1. T \subseteq [id : Nat, entry : Entries]
    BY <1>1, <1>2
  <2>2. \A r, s \in S : up[r].id = up[s].id => up[r] = up[s]
    BY <1>2 DEF Table
  <2>3. \A r, s \in S : Contract!Key(up[r].entry) = Contract!Key(up[s].entry) => up[r] = up[s]
    <3>1. \A r \in S : Contract!Key(up[r].entry) = Contract!Key(r.entry)
      BY <1>2
    <3>. QED
      BY <3>1 DEF Table
  <2>4. \A a, b \in T : a.id = b.id => a = b
    BY <1>1, <2>2
  <2>5. \A a, b \in T : Contract!Key(a.entry) = Contract!Key(b.entry) => a = b
    <3>. SUFFICES ASSUME NEW a \in T, NEW b \in T,
                         Contract!Key(a.entry) = Contract!Key(b.entry)
                  PROVE  a = b
      OBVIOUS
    <3>1. PICK r \in S, s \in S : a = up[r] /\ b = up[s]
      BY <1>1
    <3>2. Contract!Key(up[r].entry) = Contract!Key(up[s].entry)
      BY <3>1
    <3>. QED
      BY <2>3, <3>1, <3>2
  <2>. QED
    BY <1>5, <2>1, <2>4, <2>5 DEF Table
<1>7. ASSUME NEW r \in S
      PROVE  Rank(T, up[r]) = Rank(S, r)
  <2>1. \A s \in S : up[s] \in Smaller(T, up[r]) <=> s \in Smaller(S, r)
    BY <1>1, <1>2 DEF Smaller
  <2>. PICK g : g = [s \in Smaller(S, r) |-> up[s]]
    OBVIOUS
  <2>2. g \in Bijection(Smaller(S, r), Smaller(T, up[r]))
    <3>1. Smaller(S, r) \subseteq S /\ Smaller(T, up[r]) \subseteq T
      BY DEF Smaller
    <3>2. g \in [Smaller(S, r) -> Smaller(T, up[r])]
      BY <2>1, <3>1
    <3>3. \A s, t \in Smaller(S, r) : g[s] = g[t] => s = t
      BY <1>4, <3>1 DEF Bijection, Injection, IsInjective
    <3>4. ASSUME NEW t \in Smaller(T, up[r])
          PROVE  \E s \in Smaller(S, r) : g[s] = t
      <4>1. PICK s \in S : t = up[s]
        BY <1>1, <3>1
      <4>2. s \in Smaller(S, r)
        BY <2>1, <4>1
      <4>. QED
        BY <4>1, <4>2
    <3>. QED
      BY <3>2, <3>3, <3>4, ZenonT(30) DEF Bijection, Injection, Surjection, IsInjective
  <2>3. IsFiniteSet(Smaller(S, r))
    <3>1. Smaller(S, r) \in SUBSET S
      BY DEF Smaller
    <3>. QED
      BY <1>3, <3>1, FS_Subset
  <2>4. Cardinality(Smaller(T, up[r])) = Cardinality(Smaller(S, r))
    BY <2>2, <2>3, FS_Bijection DEF ExistsBijection
  <2>. QED
    BY <2>4 DEF Rank
<1>8. \A i \in 1 .. Cardinality(S) : RowAt(T, i) = up[RowAt(S, i)]
  <2>. SUFFICES ASSUME NEW i \in 1 .. Cardinality(S) PROVE RowAt(T, i) = up[RowAt(S, i)]
    OBVIOUS
  <2>1. RowAt(S, i) \in S /\ Rank(S, RowAt(S, i)) = i - 1
    BY RowAtIs
  <2>2. Rank(T, up[RowAt(S, i)]) + 1 = i
    <3>1. Rank(T, up[RowAt(S, i)]) = i - 1
      BY <1>7, <2>1
    <3>2. (i - 1) + 1 = i
      BY <1>3
    <3>. QED
      BY <3>1, <3>2
  <2>3. RowAt(T, Rank(T, up[RowAt(S, i)]) + 1) = up[RowAt(S, i)]
    BY <1>1, <1>6, <2>1, RowAtIs
  <2>. QED
    BY <2>2, <2>3
<1>9. /\ ListOf(S) \in Seq(Entries) /\ Len(ListOf(S)) = Cardinality(S)
      /\ \A i \in 1 .. Cardinality(S) : ListOf(S)[i] = RowAt(S, i).entry
  BY ListOfType
<1>10. /\ ListOf(T) \in Seq(Entries) /\ Len(ListOf(T)) = Cardinality(S)
       /\ \A i \in 1 .. Cardinality(S) : ListOf(T)[i] = RowAt(T, i).entry
  BY <1>5, <1>6, ListOfType
<1>11. \E i \in DOMAIN ListOf(S) : Contract!Key(ListOf(S)[i]) = Contract!Key(e)
  <2>1. PICK row \in S : Contract!Key(row.entry) = Contract!Key(e)
    OBVIOUS
  <2>2. Rank(S, row) \in 0 .. Cardinality(S) - 1 /\ RowAt(S, Rank(S, row) + 1) = row
    BY RankRange, RowAtIs
  <2>3. Rank(S, row) + 1 \in 1 .. Cardinality(S)
    BY <1>3, <2>2
  <2>4. DOMAIN ListOf(S) = 1 .. Cardinality(S)
    BY DEF ListOf
  <2>. QED
    BY <1>9, <2>1, <2>2, <2>3, <2>4
<1>12. Contract!Put(ListOf(S), e) =
         [i \in DOMAIN ListOf(S) |-> IF Contract!Key(ListOf(S)[i]) = Contract!Key(e)
                                     THEN e ELSE ListOf(S)[i]]
  BY <1>11 DEF Contract!Put
<1>13. \A i \in 1 .. Cardinality(S) :
         ListOf(T)[i] = IF Contract!Key(ListOf(S)[i]) = Contract!Key(e)
                        THEN e ELSE ListOf(S)[i]
  <2>. SUFFICES ASSUME NEW i \in 1 .. Cardinality(S)
                PROVE  ListOf(T)[i] = IF Contract!Key(ListOf(S)[i]) = Contract!Key(e)
                                      THEN e ELSE ListOf(S)[i]
    OBVIOUS
  <2>1. RowAt(S, i) \in S
    BY RowAtIs
  <2>2. ListOf(T)[i] = up[RowAt(S, i)].entry
    BY <1>8, <1>10
  <2>. QED
    BY <1>2, <1>9, <2>1, <2>2
<1>14. DOMAIN ListOf(S) = 1 .. Cardinality(S) /\ DOMAIN ListOf(T) = 1 .. Cardinality(S)
  BY <1>5 DEF ListOf
<1>15. ListOf(T) = [i \in 1 .. Cardinality(S) |-> ListOf(T)[i]]
  BY <1>5 DEF ListOf
<1>. QED
  BY <1>6, <1>12, <1>13, <1>14, <1>15

-----------------------------------------------------------------------------
(***************************************************************************)
(* The invariant.                                                          *)
(***************************************************************************)
\* What the invariant is for.
LEMMA TypeFollows == IInv => TypeOK
<1>. SUFFICES ASSUME IInv PROVE TypeOK
  OBVIOUS
<1>1. \A row \in rows : row.entry \in Entries
  BY DEF IInv, Table
<1>. QED
  BY <1>1 DEF IInv, ReaderInv, TypeOK

\* The listing of the model is that of the table.
LEMMA ListedIs == Listed = ListOf(rows)
BY DEF Listed, ListOf, RowAt, Rank, Smaller

\* An empty table is one.
LEMMA InitHolds == Init => IInv
<1>. SUFFICES ASSUME Init PROVE IInv
  OBVIOUS
<1>1. Table(rows)
  BY FS_EmptySet DEF Init, Table
<1>2. \A row \in rows : row.id \in 1 .. lastId
  BY DEF Init
<1>3. lastId \in 0 .. MaxId
  BY CatalogConstants DEF Init
<1>4. pending \in [Writers -> Entries \cup {None}]
  BY DEF Init
<1>5. DOMAIN reader = Readers /\ ReaderInv
  BY DEF Init, ReaderInv
<1>. QED
  BY <1>1, <1>2, <1>3, <1>4, <1>5 DEF IInv

\* An upsert is what the contract says of it, and leaves the table a table
\* (SqliteCatalogStore::upsert).
LEMMA UpsertStep ==
  ASSUME IInv, NEW e \in Entries, Upsert(e)
  PROVE  /\ Table(rows')
         /\ \A row \in rows' : row.id \in 1 .. lastId'
         /\ lastId' \in 0 .. MaxId
         /\ ListOf(rows') = Contract!Put(ListOf(rows), e)
<1>. PICK T : T = rows'
  OBVIOUS
<1>1. /\ Table(rows)
      /\ \A row \in rows : row.id \in 1 .. lastId
      /\ lastId \in 0 .. MaxId
      /\ MaxId \in Nat
  BY CatalogConstants DEF IInv
<1>2. CASE /\ \A row \in rows : ~SameKey(row, e)
           /\ lastId < MaxId
           /\ lastId' = lastId + 1
           /\ rows' = rows \cup {[id |-> lastId + 1, entry |-> e]}
  <2>. PICK id \in Nat : id = lastId + 1
    BY <1>1
  <2>1. T = rows \cup {[id |-> id, entry |-> e]}
    BY <1>2
  <2>2. \A row \in rows : row.id < id
    BY <1>1
  <2>3. \A row \in rows : Contract!Key(row.entry) # Contract!Key(e)
    BY <1>2 DEF SameKey
  <2>4. Table(T) /\ ListOf(T) = Contract!Put(ListOf(rows), e)
    BY <1>1, <2>1, <2>2, <2>3, ListOfInsert
  <2>5. \A row \in T : row.id \in 1 .. lastId'
    BY <1>1, <1>2, <2>1
  <2>6. lastId' \in 0 .. MaxId
    BY <1>1, <1>2
  <2>. QED
    BY <2>4, <2>5, <2>6
<1>3. CASE /\ \E row \in rows : SameKey(row, e)
           /\ lastId' \in {lastId, lastId + 1} \cap 0 .. MaxId
           /\ rows' = {[row EXCEPT !.entry = IF SameKey(row, e) THEN e ELSE @] : row \in rows}
  <2>1. T = {[row EXCEPT !.entry =
                IF Contract!Key(row.entry) = Contract!Key(e) THEN e ELSE @] : row \in rows}
    BY <1>3 DEF SameKey
  <2>2. \E row \in rows : Contract!Key(row.entry) = Contract!Key(e)
    BY <1>3 DEF SameKey
  <2>3. Table(T) /\ ListOf(T) = Contract!Put(ListOf(rows), e)
    BY <1>1, <2>1, <2>2, ListOfUpdate
  <2>4. ASSUME NEW row \in T
        PROVE  row.id \in 1 .. lastId'
    <3>1. PICK old \in rows :
            row = [old EXCEPT !.entry =
                     IF Contract!Key(old.entry) = Contract!Key(e) THEN e ELSE @]
      BY <2>1
    <3>2. old \in [id : Nat, entry : Entries]
      BY <1>1 DEF Table
    <3>3. row.id = old.id
      BY <3>1, <3>2
    <3>. QED
      BY <1>1, <1>3, <3>3
  <2>5. lastId' \in 0 .. MaxId
    BY <1>3
  <2>. QED
    BY <2>3, <2>4, <2>5
<1>. QED
  BY <1>2, <1>3, Zenon DEF Upsert

\* A step on the readers alone leaves the rest of the invariant as it is.
LEMMA ReaderStep ==
  ASSUME IInv, UNCHANGED <<rows, lastId, pending>>, NEW p \in Readers, NEW r,
         reader' = [reader EXCEPT ![p] = r],
         \/ r = None
         \/ /\ r.filter \in Filters
            /\ r.limit \in Limits
            /\ r.offset \in Nat
            /\ r.done \in BOOLEAN
  PROVE  IInv'
<1>1. DOMAIN reader' = Readers
  BY DEF IInv
<1>2. ReaderInv'
  <2>. SUFFICES ASSUME NEW q \in Readers
                PROVE  \/ reader'[q] = None
                       \/ /\ reader'[q].filter \in Filters
                          /\ reader'[q].limit \in Limits
                          /\ reader'[q].offset \in Nat
                          /\ reader'[q].done \in BOOLEAN
    BY DEF ReaderInv
  <2>1. CASE q = p
    BY <2>1 DEF IInv
  <2>2. CASE q # p
    BY <2>2 DEF IInv, ReaderInv
  <2>. QED
    BY <2>1, <2>2
<1>3. Table(rows)' /\ (\A row \in rows : row.id \in 1 .. lastId)'
  BY DEF IInv
<1>4. (lastId \in 0 .. MaxId)' /\ (pending \in [Writers -> Entries \cup {None}])'
  BY DEF IInv
<1>. QED
  BY <1>1, <1>2, <1>3, <1>4 DEF IInv

\* Each step keeps the invariant, and is one of the contract's or leaves the
\* listing alone.
LEMMA StepHolds ==
  ASSUME IInv, [Next]_vars
  PROVE  /\ IInv'
         /\ \/ \E e \in Entries : ListOf(rows') = Contract!Put(ListOf(rows), e)
            \/ rows' = rows
<1>1. ASSUME NEW w \in Writers, NEW e \in Entries, Build(w, e)
      PROVE  IInv' /\ rows' = rows
  <2>1. /\ pending' \in [Writers -> Entries \cup {None}]
        /\ UNCHANGED <<rows, lastId, reader>>
    BY <1>1 DEF IInv, Build
  <2>. QED
    BY <2>1 DEF IInv, ReaderInv
<1>2. ASSUME NEW w \in Writers, Store(w)
      PROVE  IInv' /\ \E e \in Entries : ListOf(rows') = Contract!Put(ListOf(rows), e)
  <2>1. /\ pending' \in [Writers -> Entries \cup {None}]
        /\ UNCHANGED <<reader>>
        /\ pending[w] \in Entries
        /\ Upsert(pending[w])
    BY <1>2 DEF IInv, Store
  <2>. PICK e \in Entries : e = pending[w]
    BY <2>1
  <2>2. Upsert(e)
    BY <2>1
  <2>3. /\ Table(rows')
        /\ \A row \in rows' : row.id \in 1 .. lastId'
        /\ lastId' \in 0 .. MaxId
        /\ ListOf(rows') = Contract!Put(ListOf(rows), e)
    BY <2>2, UpsertStep
  <2>. QED
    BY <2>1, <2>3 DEF IInv, ReaderInv
<1>3. ASSUME NEW w \in Writers, StoreFails(w)
      PROVE  IInv' /\ rows' = rows
  <2>1. /\ pending' \in [Writers -> Entries \cup {None}]
        /\ UNCHANGED <<rows, lastId, reader>>
    BY <1>3 DEF IInv, StoreFails
  <2>. QED
    BY <2>1 DEF IInv, ReaderInv
<1>4. ASSUME NEW p \in Readers, NEW filter \in Filters, NEW limit \in Limits,
             Open(p, filter, limit)
      PROVE  IInv' /\ rows' = rows
  <2>. PICK r : r = [filter |-> filter, limit |-> limit, offset |-> 0, done |-> FALSE,
                     seen |-> <<>>,
                     before |-> ToSet(Contract!KeysOf(Contract!Matching(Listed, filter)))]
    OBVIOUS
  <2>1. reader' = [reader EXCEPT ![p] = r] /\ UNCHANGED <<rows, lastId, pending>>
    BY <1>4 DEF Open
  <2>2. r.filter \in Filters /\ r.limit \in Limits /\ r.offset \in Nat /\ r.done \in BOOLEAN
    OBVIOUS
  <2>. QED
    BY <2>1, <2>2, ReaderStep
<1>5. ASSUME NEW p \in Readers, NextPage(p)
      PROVE  IInv' /\ rows' = rows
  <2> DEFINE matching == Contract!Matching(Listed, reader[p].filter)
  <2>. PICK seen : seen = reader[p].seen
                            \o Contract!KeysOf(Contract!Page(matching, reader[p].offset,
                                                            reader[p].limit))
    OBVIOUS
  <2>. PICK done \in BOOLEAN : done = (reader[p].offset + reader[p].limit >= Len(matching))
    <3> DEFINE done == reader[p].offset + reader[p].limit >= Len(matching)
    <3>1. CASE done
      <4>1. done = TRUE
        BY <3>1
      <4>. QED
        BY <4>1
    <3>2. CASE ~done
      <4>1. done = FALSE
        BY <3>2
      <4>. QED
        BY <4>1
    <3>. QED
      BY <3>1, <3>2
  <2>0. /\ reader[p] # None
        /\ reader' = [reader EXCEPT ![p] =
             [reader[p] EXCEPT !.seen = seen,
                               !.offset = @ + reader[p].limit,
                               !.done = done]]
        /\ UNCHANGED <<rows, lastId, pending>>
    BY <1>5, Zenon DEF NextPage
  <2>. HIDE DEF matching
  <2>. PICK r : r = [reader[p] EXCEPT !.seen = seen,
                                      !.offset = @ + reader[p].limit,
                                      !.done = done]
    OBVIOUS
  <2>1. reader[p].filter \in Filters /\ reader[p].limit \in Nat
        /\ reader[p].limit \in Limits /\ reader[p].offset \in Nat
    BY <2>0, CatalogConstants DEF IInv, ReaderInv
  <2>2. r.filter \in Filters /\ r.limit \in Limits /\ r.offset \in Nat /\ r.done \in BOOLEAN
    BY <2>1
  <2>3. reader' = [reader EXCEPT ![p] = r]
    BY <2>0
  <2>. QED
    BY <2>0, <2>2, <2>3, ReaderStep
<1>6. ASSUME NEW p \in Readers, Close(p)
      PROVE  IInv' /\ rows' = rows
  <2>1. reader' = [reader EXCEPT ![p] = None] /\ UNCHANGED <<rows, lastId, pending>>
    BY <1>6 DEF Close
  <2>. QED
    BY <2>1, ReaderStep
<1>7. ASSUME Restart
      PROVE  IInv' /\ rows' = rows
  <2>1. /\ pending' \in [Writers -> Entries \cup {None}]
        /\ UNCHANGED <<rows, lastId, reader>>
    BY <1>7 DEF Restart
  <2>. QED
    BY <2>1 DEF IInv, ReaderInv
<1>8. ASSUME UNCHANGED vars
      PROVE  IInv' /\ rows' = rows
  BY <1>8 DEF vars, IInv, ReaderInv
<1>. QED
  BY <1>1, <1>2, <1>3, <1>4, <1>5, <1>6, <1>7, <1>8 DEF Next

\* The ids of a table, its key and its counter fit together, whatever upserts
\* race, fail or are cut off by a restart.
THEOREM CatalogInvariant == Spec => []IInv
<1>1. IInv /\ [Next]_vars => IInv'
  BY StepHolds
<1>. QED
  BY InitHolds, <1>1, PTL DEF Spec

\* The rows, the counter and what the requests and the callers hold are of
\* their types.
THEOREM CatalogTypeCorrect == Spec => []TypeOK
BY CatalogInvariant, TypeFollows, PTL

\* The SQLite store keeps the contract of a CatalogStore: an upsert of a known
\* key updates it in its place and a new key goes to the end, and nothing else
\* changes what is listed (contract.rs, sqlite.rs).
THEOREM ImplementsTheContract == Spec => ImplementsContract
<1>1. Init => Contract!Init
  <2>. SUFFICES ASSUME Init PROVE Listed = << >>
    BY DEF Contract!Init
  <2>1. rows = {}
    BY DEF Init
  <2>. QED
    BY <2>1, ListedIs, ListOfNothing
<1>2. IInv /\ [Next]_vars => [Contract!Next]_Listed
  <2>. SUFFICES ASSUME IInv, [Next]_vars PROVE [Contract!Next]_Listed
    OBVIOUS
  <2>1. Listed = ListOf(rows) /\ Listed' = ListOf(rows')
    BY ListedIs DEF Listed, ListOf, RowAt, Rank, Smaller
  <2>2. CASE \E e \in Entries : ListOf(rows') = Contract!Put(ListOf(rows), e)
    <3>1. \E e \in Entries : Listed' = Contract!Put(Listed, e)
      BY <2>1, <2>2
    <3>. QED
      BY <3>1 DEF Contract!Next, Contract!Upsert
  <2>3. CASE rows' = rows
    BY <2>1, <2>3
  <2>. QED
    BY <2>2, <2>3, StepHolds
<1>. QED
  BY <1>1, <1>2, CatalogInvariant, PTL DEF Spec, ImplementsContract, Contract!Spec

-----------------------------------------------------------------------------
(***************************************************************************)
(* What a filter leaves of a list.                                         *)
(***************************************************************************)
\* A set of numbers has a least one: what induction is made of here.  A claim
\* about the first n entries, for any n, is refuted at a least n.
LEMMA LeastNumber ==
  ASSUME NEW T \in SUBSET Nat, T # {}
  PROVE  \E x \in T : \A y \in T : x <= y
<1> DEFINE less == OpToRel(<, Nat)
<1>1. IsWellFoundedOn(less, Nat)
  BY NatLessThanWellFounded
<1>2. \A x, y \in Nat : x < y => <<x, y>> \in less
  BY DEF OpToRel
<1>. HIDE DEF less
<1>3. PICK x \in T : \A y \in T : ~(<<y, x>> \in less)
  BY <1>1, WFMin
<1>. SUFFICES ASSUME NEW y \in T PROVE x <= y
  OBVIOUS
<1>4. x \in Nat /\ y \in Nat /\ ~(<<y, x>> \in less)
  BY <1>3
<1>5. ~(y < x)
  BY <1>2, <1>4, Zenon
<1>. QED
  BY <1>4, <1>5


\* f is what Matching comes to after each of the first n entries.
Runs(f, es, filter, n) ==
  f = [k \in 0 .. n |->
         IF k = 0 THEN << >>
         ELSE IF Contract!Matches(es[k], filter) THEN Append(f[k - 1], es[k])
         ELSE f[k - 1]]

\* Its step.
LEMMA RunsAt ==
  ASSUME NEW es, NEW filter, NEW n \in Nat, NEW f, Runs(f, es, filter, n), NEW k \in 1 .. n
  PROVE  f[k] = IF Contract!Matches(es[k], filter) THEN Append(f[k - 1], es[k]) ELSE f[k - 1]
<1>1. k \in 0 .. n /\ k # 0
  OBVIOUS
<1>. QED
  BY <1>1 DEF Runs

\* It can be run over one more entry.
LEMMA RunsFurther ==
  ASSUME NEW es, NEW filter, NEW n \in Nat, NEW f, Runs(f, es, filter, n)
  PROVE  \E g : Runs(g, es, filter, n + 1)
<1> DEFINE last == IF Contract!Matches(es[n + 1], filter) THEN Append(f[n], es[n + 1])
                   ELSE f[n]
           g == [k \in 0 .. n + 1 |-> IF k = n + 1 THEN last ELSE f[k]]
<1>1. DOMAIN g = 0 .. n + 1 /\ g[n + 1] = last /\ \A k \in 0 .. n : g[k] = f[k]
  OBVIOUS
<1>. HIDE DEF g
<1>2. ASSUME NEW k \in 0 .. n + 1
      PROVE  g[k] = IF k = 0 THEN << >>
                    ELSE IF Contract!Matches(es[k], filter) THEN Append(g[k - 1], es[k])
                    ELSE g[k - 1]
  <2>1. CASE k = n + 1
    <3>1. k # 0 /\ k - 1 = n /\ g[n] = f[n]
      BY <1>1, <2>1
    <3>. QED
      BY <1>1, <2>1, <3>1
  <2>2. CASE k # n + 1
    <3>1. k \in 0 .. n /\ (k # 0 => k - 1 \in 0 .. n)
      BY <2>2
    <3>. QED
      BY <1>1, <3>1 DEF Runs
  <2>. QED
    BY <2>1, <2>2
<1>3. g = [k \in 0 .. n + 1 |-> g[k]]
  BY <1>1 DEF g
<1>4. Runs(g, es, filter, n + 1)
  BY <1>2, <1>3 DEF Runs
<1>. QED
  BY <1>4

\* It can be run over all of them.
LEMMA RunsThrough ==
  ASSUME NEW es, NEW filter, NEW n \in Nat
  PROVE  \E f : Runs(f, es, filter, n)
<1>. PICK T : T = {k \in Nat : ~\E f : Runs(f, es, filter, k)}
  OBVIOUS
<1>1. CASE T = {}
  BY <1>1
<1>2. CASE T # {}
  <2>1. PICK k \in T : \A j \in T : k <= j
    BY <1>2, LeastNumber
  <2>2. k # 0
    <3>. PICK f : f = [i \in 0 .. 0 |-> << >>]
      OBVIOUS
    <3>1. Runs(f, es, filter, 0)
      BY DEF Runs
    <3>. QED
      BY <2>1, <3>1
  <2>3. k - 1 \in Nat /\ k - 1 \notin T /\ (k - 1) + 1 = k
    BY <2>1, <2>2
  <2>4. PICK f : Runs(f, es, filter, k - 1)
    BY <2>3
  <2>5. \E g : Runs(g, es, filter, k)
    BY <2>3, <2>4, RunsFurther
  <2>. QED
    BY <2>1, <2>5
<1>. QED
  BY <1>1, <1>2

\* Matching is where a run ends.
LEMMA MatchingIs ==
  ASSUME NEW es, Len(es) \in Nat, NEW filter
  PROVE  \E f : Runs(f, es, filter, Len(es)) /\ Contract!Matching(es, filter) = f[Len(es)]
<1> DEFINE Eq(f) == f = [n \in 0 .. Len(es) |->
                           IF n = 0 THEN << >>
                           ELSE IF Contract!Matches(es[n], filter)
                                THEN Append(f[n - 1], es[n]) ELSE f[n - 1]]
           c == CHOOSE f : Eq(f)
<1>1. Contract!Matching(es, filter) = c[Len(es)]
  BY DEF Contract!Matching
<1>2. PICK f : Runs(f, es, filter, Len(es))
  BY RunsThrough
<1>3. Eq(f)
  BY <1>2 DEF Runs
<1>. HIDE DEF Eq
<1>4. Eq(c)
  BY <1>3
<1>. HIDE DEF c
<1>5. Runs(c, es, filter, Len(es))
  BY <1>4 DEF Eq, Runs
<1>. QED
  BY <1>1, <1>5

\* The keys of entries.
Keys == {Contract!Key(e) : e \in Entries}

\* The keys of a list, one for each entry.
LEMMA KeysAre ==
  ASSUME NEW es \in Seq(Entries)
  PROVE  /\ Contract!KeysOf(es) \in Seq(Keys) /\ Len(Contract!KeysOf(es)) = Len(es)
         /\ \A i \in 1 .. Len(es) : Contract!KeysOf(es)[i] = Contract!Key(es[i])
<1>1. \A i \in 1 .. Len(es) : es[i] \in Entries
  OBVIOUS
<1>. QED
  BY <1>1 DEF Contract!KeysOf, Keys

\* One entry more, one key more.
LEMMA KeysOfAppend ==
  ASSUME NEW es \in Seq(Entries), NEW e \in Entries
  PROVE  Contract!KeysOf(Append(es, e)) = Append(Contract!KeysOf(es), Contract!Key(e))
<1>. PICK fs : fs = Append(es, e)
  OBVIOUS
<1>0. fs \in Seq(Entries)
  OBVIOUS
<1>. PICK n \in Nat : n = Len(es)
  OBVIOUS
<1>1. Len(fs) = n + 1 /\ fs[n + 1] = e /\ \A i \in 1 .. n : fs[i] = es[i]
  OBVIOUS
<1>. PICK a, b, c : /\ a = Contract!KeysOf(es) /\ b = Contract!KeysOf(fs)
                    /\ c = Contract!Key(e)
  OBVIOUS
<1>2. /\ a \in Seq(Keys) /\ Len(a) = n /\ \A i \in 1 .. n : a[i] = Contract!Key(es[i])
      /\ b \in Seq(Keys) /\ Len(b) = n + 1
      /\ \A i \in 1 .. n + 1 : b[i] = Contract!Key(fs[i])
  BY <1>0, <1>1, KeysAre
<1>3. c \in Keys
  BY DEF Keys
<1>4. b[n + 1] = c /\ \A i \in 1 .. n : b[i] = a[i]
  BY <1>1, <1>2
<1>5. b = Append(a, c)
  BY <1>2, <1>3, <1>4
<1>. QED
  BY <1>5

\* What matches is a list of entries.
LEMMA RunsType ==
  ASSUME NEW es \in Seq(Entries), NEW filter, NEW f, Runs(f, es, filter, Len(es))
  PROVE  \A k \in 0 .. Len(es) : f[k] \in Seq(Entries)
<1>. PICK T : T = {k \in Nat : k <= Len(es) /\ f[k] \notin Seq(Entries)}
  OBVIOUS
<1>1. CASE T = {}
  BY <1>1
<1>2. CASE T # {}
  <2>1. PICK k \in T : \A j \in T : k <= j
    BY <1>2, LeastNumber
  <2>2. k \in 0 .. Len(es) /\ f[k] \notin Seq(Entries)
    BY <2>1
  <2>3. k # 0
    <3>1. f[0] = << >> /\ << >> \in Seq(Entries)
      BY DEF Runs
    <3>. QED
      BY <2>2, <3>1, Zenon
  <2>4. k - 1 \in 0 .. Len(es) /\ k \in 1 .. Len(es) /\ ~(k <= k - 1)
    BY <2>2, <2>3
  <2>5. f[k - 1] \in Seq(Entries) /\ es[k] \in Entries
    BY <2>1, <2>4
  <2>6. Append(f[k - 1], es[k]) \in Seq(Entries)
    BY <2>5
  <2>. QED
    BY <2>2, <2>3, <2>5, <2>6 DEF Runs
<1>. QED
  BY <1>1, <1>2

\* So is all that matches.
LEMMA MatchingType ==
  ASSUME NEW es \in Seq(Entries), NEW filter
  PROVE  Contract!Matching(es, filter) \in Seq(Entries)
<1>1. Len(es) \in Nat
  OBVIOUS
<1>2. PICK f : Runs(f, es, filter, Len(es)) /\ Contract!Matching(es, filter) = f[Len(es)]
  BY <1>1, MatchingIs
<1>3. f[Len(es)] \in Seq(Entries)
  BY <1>1, <1>2, RunsType
<1>. QED
  BY <1>2, <1>3

\* Two lists of the same keys, as far as the first goes.
SameKeys(es, fs) ==
  /\ Len(es) <= Len(fs)
  /\ \A i \in 1 .. Len(es) : Contract!Key(fs[i]) = Contract!Key(es[i])

\* s is the beginning of t.
Begins(s, t) == Len(s) <= Len(t) /\ \A i \in 1 .. Len(s) : s[i] = t[i]

\* A filter on what an upsert cannot change.
OnKind(filter) == filter.network = Contract!Any /\ filter.scheme = Contract!Any

\* Entries of one key match such a filter both or neither.
LEMMA KindOfKey ==
  ASSUME NEW d, NEW e, Contract!Key(d) = Contract!Key(e), NEW filter, OnKind(filter)
  PROVE  Contract!Matches(d, filter) <=> Contract!Matches(e, filter)
<1>1. d.kind = e.kind
  BY DEF Contract!Key
<1>. QED
  BY <1>1 DEF OnKind, Contract!Matches

\* Lists of the same keys, the same keys of those that match.
LEMMA RunsAlike ==
  ASSUME NEW es \in Seq(Entries), NEW fs \in Seq(Entries), SameKeys(es, fs),
         NEW filter, OnKind(filter),
         NEW f, Runs(f, es, filter, Len(es)), NEW g, Runs(g, fs, filter, Len(fs))
  PROVE  \A k \in 0 .. Len(es) : Contract!KeysOf(g[k]) = Contract!KeysOf(f[k])
<1> DEFINE Same(k) == Contract!KeysOf(g[k]) = Contract!KeysOf(f[k])
<1>. PICK T : T = {k \in Nat : k <= Len(es) /\ ~Same(k)}
  OBVIOUS
<1>1. CASE T = {}
  BY <1>1
<1>2. CASE T # {}
  <2>1. PICK k \in T : \A j \in T : k <= j
    BY <1>2, LeastNumber
  <2>2. k \in 0 .. Len(es) /\ ~Same(k)
    BY <2>1
  <2>3. k # 0
    <3>1. f[0] = << >> /\ g[0] = << >>
      BY DEF Runs
    <3>. QED
      BY <2>2, <3>1
  <2>. PICK j : j = k - 1
    OBVIOUS
  <2>4. /\ j \in 0 .. Len(es) /\ j \in 0 .. Len(fs) /\ k \in 1 .. Len(es) /\ k \in 1 .. Len(fs)
        /\ ~(k <= j)
    BY <2>2, <2>3 DEF SameKeys
  <2>5. /\ f[j] \in Seq(Entries) /\ g[j] \in Seq(Entries)
        /\ es[k] \in Entries /\ fs[k] \in Entries
    BY <2>4, RunsType
  <2>6. Same(j)
    BY <2>1, <2>4
  <2>7. Contract!Key(fs[k]) = Contract!Key(es[k])
    BY <2>4 DEF SameKeys
  <2>7a. Contract!Matches(fs[k], filter) <=> Contract!Matches(es[k], filter)
    BY <2>7, KindOfKey, Zenon
  <2>7b. /\ f[k] = IF Contract!Matches(es[k], filter) THEN Append(f[j], es[k]) ELSE f[j]
         /\ g[k] = IF Contract!Matches(fs[k], filter) THEN Append(g[j], fs[k]) ELSE g[j]
    BY <2>4, RunsAt
  <2>8. CASE Contract!Matches(es[k], filter)
    <3>1. f[k] = Append(f[j], es[k]) /\ g[k] = Append(g[j], fs[k])
      BY <2>7a, <2>7b, <2>8
    <3>2. Contract!KeysOf(f[k]) = Append(Contract!KeysOf(f[j]), Contract!Key(es[k]))
      BY <2>5, <3>1, KeysOfAppend
    <3>3. Contract!KeysOf(g[k]) = Append(Contract!KeysOf(g[j]), Contract!Key(fs[k]))
      BY <2>5, <3>1, KeysOfAppend
    <3>. QED
      BY <2>2, <2>6, <2>7, <3>2, <3>3
  <2>9. CASE ~Contract!Matches(es[k], filter)
    <3>1. f[k] = f[j] /\ g[k] = g[j]
      BY <2>7a, <2>7b, <2>9
    <3>. QED
      BY <2>2, <2>6, <3>1
  <2>. QED
    BY <2>8, <2>9
<1>. QED
  BY <1>1, <1>2

\* An upsert leaves the keys that match as they are, or adds one at the end
\* (InMemoryCatalogStore::upsert against ::list).
LEMMA PutExtends ==
  ASSUME NEW es \in Seq(Entries), NEW e \in Entries, NEW filter, OnKind(filter),
         NEW fs \in Seq(Entries), fs = Contract!Put(es, e)
  PROVE  Begins(Contract!KeysOf(Contract!Matching(es, filter)),
                Contract!KeysOf(Contract!Matching(fs, filter)))
<1>1. Len(es) \in Nat /\ Len(fs) \in Nat
  OBVIOUS
<1>2. PICK f : Runs(f, es, filter, Len(es)) /\ Contract!Matching(es, filter) = f[Len(es)]
  BY <1>1, MatchingIs
<1>3. PICK g : Runs(g, fs, filter, Len(fs)) /\ Contract!Matching(fs, filter) = g[Len(fs)]
  BY <1>1, MatchingIs
<1>4. CASE \E i \in DOMAIN es : Contract!Key(es[i]) = Contract!Key(e)
  <2>1. fs = [i \in DOMAIN es |-> IF Contract!Key(es[i]) = Contract!Key(e) THEN e ELSE es[i]]
    BY <1>4 DEF Contract!Put
  <2>2. DOMAIN fs = 1 .. Len(es)
    BY <1>1, <2>1
  <2>3. Len(fs) = Len(es)
    BY <1>1, <2>2
  <2>4. SameKeys(es, fs)
    BY <1>1, <2>1, <2>3 DEF SameKeys
  <2>5. Contract!KeysOf(g[Len(es)]) = Contract!KeysOf(f[Len(es)])
    BY <1>1, <1>2, <1>3, <2>4, RunsAlike
  <2>6. Contract!Matching(es, filter) \in Seq(Entries)
    BY MatchingType
  <2>7. Len(Contract!KeysOf(Contract!Matching(es, filter))) \in Nat
    BY <2>6, KeysAre
  <2>. QED
    BY <1>2, <1>3, <2>3, <2>5, <2>7 DEF Begins
<1>5. CASE ~\E i \in DOMAIN es : Contract!Key(es[i]) = Contract!Key(e)
  <2>1. fs = Append(es, e)
    BY <1>5 DEF Contract!Put
  <2>2. /\ Len(fs) = Len(es) + 1 /\ fs[Len(es) + 1] = e
        /\ \A i \in 1 .. Len(es) : fs[i] = es[i]
    BY <2>1
  <2>3. SameKeys(es, fs)
    BY <1>1, <2>2 DEF SameKeys
  <2>. PICK n \in Nat : n = Len(es)
    BY <1>1
  <2>4. Contract!KeysOf(g[n]) = Contract!KeysOf(f[n])
    BY <1>1, <1>2, <1>3, <2>3, RunsAlike
  <2>5. g[n] \in Seq(Entries) /\ f[n] \in Seq(Entries)
    BY <1>1, <1>2, <1>3, <2>2, RunsType
  <2>6. g[n + 1] = Append(g[n], e) \/ g[n + 1] = g[n]
    <3>1. n + 1 \in 0 .. Len(fs) /\ n + 1 # 0 /\ (n + 1) - 1 = n /\ fs[n + 1] = e
      BY <2>2
    <3>. QED
      BY <1>3, <3>1 DEF Runs
  <2>. PICK a, b, c : /\ a = Contract!KeysOf(f[n]) /\ b = Contract!KeysOf(g[n + 1])
                      /\ c = Contract!Key(e)
    OBVIOUS
  <2>7. a \in Seq(Keys)
    BY <2>5, KeysAre
  <2>8. b = Append(a, c) \/ b = a
    BY <2>4, <2>5, <2>6, KeysOfAppend
  <2>9. c \in Keys
    BY DEF Keys
  <2>10. Begins(a, b)
    <3>1. CASE b = Append(a, c)
      BY <2>7, <2>9, <3>1 DEF Begins
    <3>2. CASE b = a
      BY <2>7, <3>2 DEF Begins
    <3>. QED
      BY <2>8, <3>1, <3>2
  <2>. QED
    BY <1>2, <1>3, <2>2, <2>10
<1>. QED
  BY <1>4, <1>5

-----------------------------------------------------------------------------
(***************************************************************************)
(* Paging.                                                                 *)
(***************************************************************************)
\* The keys a caller pages through.
KeysFor(filter) == Contract!KeysOf(Contract!Matching(Listed, filter))

Callers ==
  [filter : Filters, limit : Limits, offset : Nat, done : BOOLEAN,
   seen : Seq(Keys), before : SUBSET Keys]

\* What a caller has seen is the beginning of the listing, as long as its
\* offset says while it goes on; and nothing of what was there is lost.
Paged(r) ==
  LET keys == KeysFor(r.filter)
  IN  /\ Begins(r.seen, keys)
      /\ ~r.done => Len(r.seen) = r.offset
      /\ r.before \subseteq ToSet(keys)
      /\ r.done => r.before \subseteq ToSet(r.seen)

PagingInv ==
  \A p \in Readers :
    reader[p] # None =>
      /\ reader[p] \in Callers
      /\ OnKind(reader[p].filter) => Paged(reader[p])

\* What a caller pages through is a list of keys.
LEMMA KeysForType ==
  ASSUME IInv, NEW filter
  PROVE  /\ Contract!Matching(Listed, filter) \in Seq(Entries)
         /\ KeysFor(filter) \in Seq(Keys)
         /\ Len(KeysFor(filter)) = Len(Contract!Matching(Listed, filter))
         /\ \A i \in 1 .. Len(KeysFor(filter)) :
              KeysFor(filter)[i] = Contract!Key(Contract!Matching(Listed, filter)[i])
<1>1. Listed \in Seq(Entries)
  BY ListedIs, ListOfType DEF IInv
<1>2. Contract!Matching(Listed, filter) \in Seq(Entries)
  BY <1>1, MatchingType
<1>. QED
  BY <1>2, KeysAre DEF KeysFor

\* What is at the beginning is among all of it.
LEMMA BeginsKeeps ==
  ASSUME NEW s \in Seq(Keys), NEW t \in Seq(Keys), Begins(s, t)
  PROVE  ToSet(s) \subseteq ToSet(t)
<1>1. DOMAIN s = 1 .. Len(s) /\ DOMAIN t = 1 .. Len(t) /\ Len(s) \in Nat /\ Len(t) \in Nat
  OBVIOUS
<1>2. \A i \in 1 .. Len(s) : i \in 1 .. Len(t) /\ s[i] = t[i]
  BY <1>1 DEF Begins
<1>. QED
  BY <1>1, <1>2 DEF ToSet

\* The beginning of what is at the beginning.
LEMMA BeginsOn ==
  ASSUME NEW s \in Seq(Keys), NEW t \in Seq(Keys), NEW u \in Seq(Keys),
         Begins(s, t), Begins(t, u)
  PROVE  Begins(s, u)
<1>1. Len(s) \in Nat /\ Len(t) \in Nat /\ Len(u) \in Nat
  OBVIOUS
<1>2. \A i \in 1 .. Len(s) : i \in 1 .. Len(t) /\ s[i] = t[i] /\ t[i] = u[i]
  BY <1>1 DEF Begins
<1>. QED
  BY <1>1, <1>2 DEF Begins

\* It is a prefix, as SequencesExt has it.
LEMMA BeginsIsPrefix ==
  ASSUME NEW s \in Seq(Keys), NEW t \in Seq(Keys), Begins(s, t)
  PROVE  IsPrefix(s, t)
<1>. PICK n \in Nat : n = Len(s)
  OBVIOUS
<1>1. n <= Len(t) /\ \A i \in 1 .. n : s[i] = t[i]
  BY DEF Begins
<1>2. PICK a, b : a = SubSeq(s, 1, n) /\ b = SubSeq(t, 1, n)
  OBVIOUS
<1>3. /\ a \in Seq(Keys) /\ Len(a) = n /\ \A i \in 1 .. n : a[i] = s[i]
      /\ b \in Seq(Keys) /\ Len(b) = n /\ \A i \in 1 .. n : b[i] = t[i]
  BY <1>1, <1>2
<1>4. a = b
  BY <1>1, <1>3
<1>. QED
  BY <1>1, <1>2, <1>4 DEF IsPrefix

\* A caller that starts has seen nothing.
LEMMA OpenPages ==
  ASSUME IInv, NEW r \in Callers, r.seen = << >>, r.offset = 0, ~r.done,
         r.before = ToSet(KeysFor(r.filter))
  PROVE  Paged(r)
<1>. PICK keys : keys = KeysFor(r.filter)
  OBVIOUS
<1>1. keys \in Seq(Keys)
  BY KeysForType
<1>2. Begins(<< >>, keys)
  BY <1>1 DEF Begins
<1>. QED
  BY <1>2 DEF Paged

\* all is s and then t.
Joined(all, s, t) ==
  /\ all \in Seq(Keys) /\ Len(all) = Len(s) + Len(t)
  /\ \A i \in 1 .. Len(s) + Len(t) : all[i] = IF i <= Len(s) THEN s[i] ELSE t[i - Len(s)]

\* What \o makes of two lists.
LEMMA Joint ==
  ASSUME NEW s \in Seq(Keys), NEW t \in Seq(Keys)
  PROVE  Joined(s \o t, s, t)
BY ConcatProperties DEF Joined

\* more is what comes after the first offset of keys, limit of them if there
\* are as many.
PartOf(more, keys, offset, limit) ==
  /\ more \in Seq(Keys)
  /\ Len(more) = (IF offset + limit < Len(keys) THEN offset + limit ELSE Len(keys)) - offset
  /\ \A i \in 1 .. Len(more) : more[i] = keys[offset + i]

\* What a page has, in keys (skip and take).
LEMMA PageIsPart ==
  ASSUME NEW matching \in Seq(Entries), NEW keys \in Seq(Keys), Len(keys) = Len(matching),
         \A i \in 1 .. Len(matching) : keys[i] = Contract!Key(matching[i]),
         NEW offset \in Nat, NEW limit \in Nat, offset <= Len(matching)
  PROVE  PartOf(Contract!KeysOf(Contract!Page(matching, offset, limit)), keys, offset, limit)
<1>. PICK n \in Nat : n = Len(matching)
  OBVIOUS
<1>1. PICK last \in Nat : last = IF offset + limit < n THEN offset + limit ELSE n
  OBVIOUS
<1>2. offset <= last /\ last <= n
  BY <1>1
<1>3. PICK page : page = Contract!Page(matching, offset, limit)
  OBVIOUS
<1>4. page = SubSeq(matching, offset + 1, last)
  BY <1>1, <1>3 DEF Contract!Page
<1>5. /\ page \in Seq(Entries) /\ Len(page) = last - offset
      /\ \A i \in 1 .. last - offset : page[i] = matching[offset + i]
  <2>1. \A i \in offset + 1 .. last : matching[i] \in Entries
    BY <1>2
  <2>. QED
    BY <1>2, <1>4, <2>1, SubSeqProperties
<1>6. PICK more : more = Contract!KeysOf(page)
  OBVIOUS
<1>7. /\ more \in Seq(Keys) /\ Len(more) = last - offset
      /\ \A i \in 1 .. last - offset : more[i] = Contract!Key(page[i])
  BY <1>5, <1>6, KeysAre
<1>8. ASSUME NEW i \in 1 .. last - offset
      PROVE  more[i] = keys[offset + i]
  <2>1. offset + i \in 1 .. n
    BY <1>2
  <2>. QED
    BY <1>5, <1>7, <2>1
<1>9. PartOf(more, keys, offset, limit)
  BY <1>1, <1>7, <1>8 DEF PartOf
<1>. QED
  BY <1>3, <1>6, <1>9

\* Such a part goes on where what was seen ended.
LEMMA PartGoesOn ==
  ASSUME NEW keys \in Seq(Keys), NEW s \in Seq(Keys), Begins(s, keys), NEW limit \in Nat,
         NEW t, PartOf(t, keys, Len(s), limit), NEW all, Joined(all, s, t)
  PROVE  /\ all \in Seq(Keys) /\ Begins(all, keys)
         /\ Len(s) + limit < Len(keys) => Len(all) = Len(s) + limit
         /\ Len(s) + limit >= Len(keys) => ToSet(keys) \subseteq ToSet(all)
<1>1. /\ Len(s) \in Nat /\ Len(keys) \in Nat /\ Len(s) <= Len(keys)
      /\ t \in Seq(Keys) /\ Len(t) \in Nat
  BY DEF Begins, PartOf
<1>2. all \in Seq(Keys) /\ Len(all) = Len(s) + Len(t)
  BY DEF Joined
<1>3. Len(all) = IF Len(s) + limit < Len(keys) THEN Len(s) + limit ELSE Len(keys)
  BY <1>1, <1>2 DEF PartOf
<1>4. ASSUME NEW i \in 1 .. Len(all)
      PROVE  all[i] = keys[i]
  <2>1. CASE i <= Len(s)
    <3>1. i \in 1 .. Len(s)
      BY <1>1, <2>1
    <3>. QED
      BY <1>2, <2>1, <3>1 DEF Begins, Joined
  <2>2. CASE ~(i <= Len(s))
    <3>1. i - Len(s) \in 1 .. Len(t) /\ Len(s) + (i - Len(s)) = i
      BY <1>1, <1>2, <2>2
    <3>2. all[i] = t[i - Len(s)]
      BY <1>2, <2>2 DEF Joined
    <3>. QED
      BY <3>1, <3>2 DEF PartOf
  <2>. QED
    BY <2>1, <2>2
<1>5. Begins(all, keys)
  BY <1>1, <1>2, <1>3, <1>4 DEF Begins
<1>6. ASSUME Len(s) + limit >= Len(keys)
      PROVE  ToSet(keys) \subseteq ToSet(all)
  <2>1. Len(all) = Len(keys)
    BY <1>1, <1>3, <1>6
  <2>2. Begins(keys, all)
    BY <1>1, <1>4, <2>1 DEF Begins
  <2>. QED
    BY <1>2, <2>2, BeginsKeeps
<1>. QED
  BY <1>1, <1>2, <1>3, <1>5, <1>6

\* The next page goes on where the last one ended, and the caller stops when
\* it has seen all that matches (list_resources: skip, take and total).
LEMMA NextPages ==
  ASSUME IInv, NEW r \in Callers, Paged(r), ~r.done, NEW q \in Callers,
         NEW matching, matching = Contract!Matching(Listed, r.filter),
         q.seen = r.seen \o Contract!KeysOf(Contract!Page(matching, r.offset, r.limit)),
         q.filter = r.filter, q.before = r.before,
         q.done <=> r.offset + r.limit >= Len(matching),
         q.offset = r.offset + r.limit
  PROVE  Paged(q)
<1>1. PICK keys : keys = KeysFor(r.filter)
  OBVIOUS
<1>2. /\ matching \in Seq(Entries) /\ keys \in Seq(Keys) /\ Len(keys) = Len(matching)
      /\ \A i \in 1 .. Len(matching) : keys[i] = Contract!Key(matching[i])
  BY <1>1, KeysForType
<1>3. r.offset \in Nat /\ r.limit \in Nat /\ r.seen \in Seq(Keys)
  BY CatalogConstants DEF Callers
<1>4. Begins(r.seen, keys) /\ r.offset = Len(r.seen) /\ r.before \subseteq ToSet(keys)
  BY <1>1 DEF Paged
<1>5. r.offset <= Len(matching)
  BY <1>2, <1>4 DEF Begins
<1>6. PICK more : more = Contract!KeysOf(Contract!Page(matching, r.offset, r.limit))
  OBVIOUS
<1>7. PartOf(more, keys, Len(r.seen), r.limit)
  BY <1>2, <1>3, <1>4, <1>5, <1>6, PageIsPart
<1>8. PICK all : all = q.seen
  OBVIOUS
<1>9. Joined(all, r.seen, more)
  BY <1>3, <1>6, <1>7, <1>8, Joint DEF PartOf
<1>10. PICK n, limit \in Nat : n = r.offset /\ limit = r.limit
  BY <1>3
<1>11. /\ Begins(all, keys)
       /\ n + limit < Len(keys) => Len(all) = n + limit
       /\ n + limit >= Len(keys) => ToSet(keys) \subseteq ToSet(all)
  <2>1. PICK s \in Seq(Keys) : s = r.seen
    BY <1>3
  <2>2. Begins(s, keys) /\ PartOf(more, keys, Len(s), limit) /\ Joined(all, s, more) /\ Len(s) = n
    BY <1>4, <1>7, <1>9, <1>10, <2>1
  <2>. QED
    BY <1>2, <2>2, PartGoesOn
<1>12. q.offset = n + limit /\ (q.done <=> n + limit >= Len(keys)) /\ Len(keys) \in Nat
  BY <1>2, <1>10
<1>13. ~q.done => Len(all) = q.offset
  BY <1>11, <1>12
<1>14. q.done => q.before \subseteq ToSet(all)
  BY <1>4, <1>11, <1>12
<1>. QED
  BY <1>1, <1>4, <1>8, <1>11, <1>13, <1>14 DEF Paged

\* An upsert between two pages spoils neither.
LEMMA UpsertPages ==
  ASSUME IInv, IInv', NEW r \in Callers, OnKind(r.filter), Paged(r),
         \/ \E e \in Entries : ListOf(rows') = Contract!Put(ListOf(rows), e)
         \/ rows' = rows
  PROVE  Paged(r)'
<1>. PICK before, after : before = Listed /\ after = Listed'
  OBVIOUS
<1>1. before = ListOf(rows) /\ after = ListOf(rows')
  BY ListedIs DEF Listed, ListOf, RowAt, Rank, Smaller
<1>2. before \in Seq(Entries) /\ after \in Seq(Entries)
  BY <1>1, ListOfType DEF IInv
<1>. PICK keys, now :
       /\ keys = Contract!KeysOf(Contract!Matching(before, r.filter))
       /\ now = Contract!KeysOf(Contract!Matching(after, r.filter))
  OBVIOUS
<1>3. keys \in Seq(Keys) /\ now \in Seq(Keys)
  BY <1>2, MatchingType, KeysAre
<1>4. Begins(keys, now)
  <2>1. CASE after = before
    BY <1>3, <2>1 DEF Begins
  <2>2. CASE \E e \in Entries : after = Contract!Put(before, e)
    BY <1>2, <2>2, PutExtends
  <2>. QED
    BY <1>1, <2>1, <2>2
<1>5. r.seen \in Seq(Keys)
  BY DEF Callers
<1>6. /\ Begins(r.seen, keys) /\ r.before \subseteq ToSet(keys)
      /\ ~r.done => Len(r.seen) = r.offset
      /\ r.done => r.before \subseteq ToSet(r.seen)
  BY DEF Paged, KeysFor
<1>7. Begins(r.seen, now) /\ ToSet(keys) \subseteq ToSet(now)
  BY <1>3, <1>4, <1>5, <1>6, BeginsOn, BeginsKeeps
<1>. QED
  BY <1>6, <1>7 DEF Paged, KeysFor

\* One caller's step.
LEMMA PagingStep ==
  ASSUME IInv, PagingInv, UNCHANGED rows, NEW p \in Readers, NEW r,
         reader' = [reader EXCEPT ![p] = r],
         r # None => r \in Callers /\ (OnKind(r.filter) => Paged(r))
  PROVE  PagingInv'
<1>1. ASSUME NEW q \in Readers, reader'[q] # None
      PROVE  reader'[q] \in Callers /\ (OnKind(reader'[q].filter) => Paged(reader'[q]))
  <2>1. DOMAIN reader = Readers
    BY DEF IInv
  <2>2. CASE q = p
    BY <1>1, <2>1, <2>2
  <2>3. CASE q # p
    BY <1>1, <2>1, <2>3 DEF PagingInv
  <2>. QED
    BY <2>2, <2>3
<1>2. \A c : Paged(c)' <=> Paged(c)
  <2>. SUFFICES ASSUME NEW filter PROVE KeysFor(filter)' = KeysFor(filter)
    BY DEF Paged
  <2>1. Listed' = Listed
    BY DEF Listed
  <2>. QED
    BY <2>1 DEF KeysFor
<1>. QED
  BY <1>1, <1>2 DEF PagingInv

\* A caller starts.
LEMMA OpenStep ==
  ASSUME IInv, PagingInv, NEW p \in Readers, NEW filter \in Filters, NEW limit \in Limits,
         Open(p, filter, limit)
  PROVE  PagingInv'
<1>. PICK r : r = [filter |-> filter, limit |-> limit, offset |-> 0, done |-> FALSE,
                   seen |-> << >>, before |-> ToSet(KeysFor(filter))]
  OBVIOUS
<1>1. reader' = [reader EXCEPT ![p] = r] /\ UNCHANGED rows
  BY DEF Open, KeysFor
<1>2. PICK before : before = ToSet(KeysFor(filter))
  OBVIOUS
<1>3. before \in SUBSET Keys
  <2>1. PICK keys \in Seq(Keys) : keys = KeysFor(filter)
    BY KeysForType
  <2>2. ToSet(keys) \subseteq Keys
    BY DEF ToSet
  <2>. QED
    BY <1>2, <2>1, <2>2
<1>4. r = [filter |-> filter, limit |-> limit, offset |-> 0, done |-> FALSE,
           seen |-> << >>, before |-> before]
  BY <1>2
<1>5. r \in Callers
  BY <1>3, <1>4 DEF Callers
<1>6. r.filter = filter /\ r.seen = << >> /\ r.offset = 0 /\ ~r.done /\ r.before = before
  BY <1>4
<1>7. Paged(r)
  BY <1>2, <1>5, <1>6, OpenPages
<1>. QED
  BY <1>1, <1>5, <1>7, PagingStep

\* A caller turns the page.
LEMMA NextPageStep ==
  ASSUME IInv, PagingInv, NEW p \in Readers, NextPage(p)
  PROVE  PagingInv'
<1>1. PICK r : r = reader[p]
  OBVIOUS
<1>2. PICK matching : matching = Contract!Matching(Listed, r.filter)
  OBVIOUS
<1>3. PICK page : page = Contract!KeysOf(Contract!Page(matching, r.offset, r.limit))
  OBVIOUS
<1>4. PICK end \in BOOLEAN : end <=> r.offset + r.limit >= Len(matching)
  OBVIOUS
<1>5. PICK q : q = [r EXCEPT !.seen = @ \o page, !.offset = @ + r.limit, !.done = end]
  OBVIOUS
<1>6. /\ r # None /\ ~r.done /\ UNCHANGED rows
      /\ reader' = [reader EXCEPT ![p] =
           [r EXCEPT !.seen = @ \o page, !.offset = @ + r.limit,
                     !.done = r.offset + r.limit >= Len(matching)]]
  BY <1>1, <1>2, <1>3 DEF NextPage
<1>7. (r.offset + r.limit >= Len(matching)) = end
  BY <1>4
<1>8. reader' = [reader EXCEPT ![p] = q]
  BY <1>5, <1>6, <1>7
<1>9. r \in Callers /\ (OnKind(r.filter) => Paged(r))
  BY <1>1, <1>6 DEF PagingInv
<1>10. /\ r.filter \in Filters /\ r.limit \in Limits /\ r.limit \in Nat /\ r.offset \in Nat
       /\ r.seen \in Seq(Keys) /\ r.before \in SUBSET Keys
  BY <1>9, CatalogConstants DEF Callers
<1>11. page \in Seq(Keys)
  <2>1. matching \in Seq(Entries)
    BY <1>2, KeysForType
  <2>2. Contract!Page(matching, r.offset, r.limit) \in Seq(Entries)
    <3>1. PICK last \in Int : last = IF r.offset + r.limit < Len(matching)
                                     THEN r.offset + r.limit ELSE Len(matching)
      BY <1>10, <2>1
    <3>2. last <= Len(matching) /\ Len(matching) \in Nat
      BY <1>10, <2>1, <3>1
    <3>3. \A i \in r.offset + 1 .. last : matching[i] \in Entries
      BY <1>10, <2>1, <3>2
    <3>4. SubSeq(matching, r.offset + 1, last) \in Seq(Entries)
      BY <1>10, <2>1, <3>3, SubSeqProperties
    <3>. QED
      BY <3>1, <3>4 DEF Contract!Page
  <2>. QED
    BY <1>3, <2>2, KeysAre
<1>12. PICK seen : seen = r.seen \o page
  OBVIOUS
<1>13. seen \in Seq(Keys)
  BY <1>10, <1>11, <1>12, ConcatProperties
<1>14. q = [r EXCEPT !.seen = seen, !.offset = @ + r.limit, !.done = end]
  BY <1>5, <1>12
<1>15. /\ q \in Callers
       /\ q.seen = seen /\ q.filter = r.filter /\ q.before = r.before
       /\ q.done = end /\ q.offset = r.offset + r.limit
  <2>1. PICK offset \in Nat : offset = r.offset + r.limit
    BY <1>10
  <2>2. q = [r EXCEPT !.seen = seen, !.offset = offset, !.done = end]
    BY <1>14, <2>1
  <2>3. q = [filter |-> r.filter, limit |-> r.limit, offset |-> offset, done |-> end,
             seen |-> seen, before |-> r.before]
    BY <1>9, <2>2 DEF Callers
  <2>. QED
    BY <1>10, <1>13, <2>1, <2>3 DEF Callers
<1>16. OnKind(q.filter) => Paged(q)
  BY <1>2, <1>3, <1>4, <1>6, <1>9, <1>12, <1>15, NextPages
<1>. QED
  BY <1>6, <1>8, <1>15, <1>16, PagingStep

\* Whatever else happens, nothing that a caller has seen is lost or moved.
LEMMA NextPagingInv == IInv /\ PagingInv /\ [Next]_vars => PagingInv'
<1>. SUFFICES ASSUME IInv, PagingInv, [Next]_vars PROVE PagingInv'
  OBVIOUS
<1>1. /\ IInv'
      /\ \/ \E e \in Entries : ListOf(rows') = Contract!Put(ListOf(rows), e)
         \/ rows' = rows
  BY StepHolds
<1>2. CASE UNCHANGED reader
  <2>. SUFFICES ASSUME NEW p \in Readers, reader[p] # None
                PROVE  /\ reader[p] \in Callers
                       /\ OnKind(reader[p].filter) => Paged(reader[p])'
    BY <1>2 DEF PagingInv
  <2>1. reader[p] \in Callers /\ (OnKind(reader[p].filter) => Paged(reader[p]))
    BY DEF PagingInv
  <2>. PICK r : r = reader[p]
    OBVIOUS
  <2>2. OnKind(r.filter) => Paged(r)'
    BY <1>1, <2>1, UpsertPages
  <2>. QED
    BY <1>2, <2>1, <2>2 DEF Paged
<1>3. ASSUME NEW p \in Readers, Close(p)
      PROVE  PagingInv'
  BY <1>3, PagingStep DEF Close
<1>. QED
  BY <1>2, <1>3, OpenStep, NextPageStep
     DEF Next, Build, Store, StoreFails, Restart, vars

\* Paging through the catalog while requests write to it misses nothing that
\* was there at the start and shows nothing twice (list_resources, and "order
\* is insertion order", contract.rs), for any entries, filters, page sizes,
\* writers and readers.
THEOREM PagesAreComplete == Spec => []PagesComplete
<1>1. Init => PagingInv
  BY DEF Init, PagingInv
<1>2. IInv /\ PagingInv /\ [Next]_vars => PagingInv'
  BY NextPagingInv
<1>3. IInv /\ PagingInv => PagesComplete
  <2>. SUFFICES ASSUME IInv, PagingInv, NEW p \in Readers, reader[p] # None,
                       OnKind(reader[p].filter)
                PROVE  /\ IsPrefix(reader[p].seen, KeysFor(reader[p].filter))
                       /\ reader[p].done => reader[p].before \subseteq ToSet(reader[p].seen)
    BY DEF PagesComplete, KeysFor, OnKind
  <2>1. PICK seen, keys : seen = reader[p].seen /\ keys = KeysFor(reader[p].filter)
    OBVIOUS
  <2>2. seen \in Seq(Keys) /\ keys \in Seq(Keys) /\ Begins(seen, keys)
    BY <2>1, KeysForType DEF PagingInv, Callers, Paged
  <2>3. IsPrefix(seen, keys)
    BY <2>2, BeginsIsPrefix
  <2>. QED
    BY <2>1, <2>3 DEF PagingInv, Paged
<1>. QED
  BY <1>1, <1>2, <1>3, CatalogInvariant, PTL DEF Spec
=============================================================================
