------------------------------ MODULE Catalog ------------------------------
(***************************************************************************)
(* The contract of a CatalogStore: one entry per (resource, kind), listed  *)
(* in the order in which the pairs first came in.  InMemoryCatalogStore    *)
(* keeps exactly this; SqliteCatalog implements it over a table.           *)
(*                                                                         *)
(* An entry is a record: resource, kind, accepts (a set of records with a  *)
(* network and a scheme).  Its metadata, version and time of update are    *)
(* replaced along with accepts, and left out.                              *)
(***************************************************************************)
EXTENDS Sequences, Integers

CONSTANTS
  Entries       \* the entries that can be upserted

VARIABLE entries  \* the catalog

Key(e) == <<e.resource, e.kind>>

KeysOf(es) == [i \in DOMAIN es |-> Key(es[i])]

\* A known key keeps its place; a new one goes to the end.
Put(es, e) ==
  IF \E i \in DOMAIN es : Key(es[i]) = Key(e)
  THEN [i \in DOMAIN es |-> IF Key(es[i]) = Key(e) THEN e ELSE es[i]]
  ELSE Append(es, e)

-----------------------------------------------------------------------------
(***************************************************************************)
(* CatalogStore::list.  A filter is a record with a kind, a network and a  *)
(* scheme; a filter that is not asked for is Any.                          *)
(***************************************************************************)
Any == "any"

Matches(e, filter) ==
  /\ filter.kind \in {Any, e.kind}
  /\ filter.network = Any \/ \E p \in e.accepts : p.network = filter.network
  /\ filter.scheme = Any \/ \E p \in e.accepts : p.scheme = filter.scheme

\* filter(..): one entry after the other.
Matching(es, filter) ==
  LET upTo[n \in 0 .. Len(es)] ==
        IF n = 0 THEN << >>
        ELSE IF Matches(es[n], filter) THEN Append(upTo[n - 1], es[n])
        ELSE upTo[n - 1]
  IN  upTo[Len(es)]

\* skip(offset).take(limit)
Page(es, offset, limit) ==
  SubSeq(es, offset + 1, IF offset + limit < Len(es) THEN offset + limit ELSE Len(es))

-----------------------------------------------------------------------------
Init == entries = <<>>

Upsert(e) == entries' = Put(entries, e)

Next == \E e \in Entries : Upsert(e)

Spec == Init /\ [][Next]_entries
=============================================================================
