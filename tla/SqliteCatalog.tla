--------------------------- MODULE SqliteCatalog ---------------------------
(***************************************************************************)
(* The discovery catalog on SQLite, between the requests that fill it and  *)
(* the callers that page through it.                                       *)
(*                                                                         *)
(* bazaar::process builds an entry and then awaits the upsert; several do  *)
(* so at once, and their upserts run in any order.  A caller of            *)
(* GET /discovery/resources asks for one page after the other; each page   *)
(* is one SELECT over the table, filtered and cut in Rust, and upserts go  *)
(* on between them.                                                        *)
(***************************************************************************)
EXTENDS Integers, Sequences, FiniteSets, SequencesExt

CONSTANTS
  Entries,      \* what requests catalog, see Catalog
  Writers,      \* the requests that can be in bazaar::process at once
  Readers,      \* the callers that can be paging at once
  Filters,      \* the filters they ask for
  Limits,       \* the page sizes they ask for
  None,         \* no entry, no caller
  MaxId         \* bound: the largest row id

ASSUME CatalogConstants ==
  /\ None \notin Entries
  /\ Limits \subseteq Nat \ {0}
  /\ MaxId \in Nat

VARIABLES
  rows,         \* the table: a set of [id, entry]
  lastId,       \* its AUTOINCREMENT counter
  pending,      \* pending[w]: the entry w is about to upsert, or None
  reader        \* reader[p]: how far a caller has paged, or None

vars == <<rows, lastId, pending, reader>>

\* The table in the order of SELECT ... ORDER BY id.
Listed ==
  [i \in 1 .. Cardinality(rows) |->
     (CHOOSE row \in rows :
        Cardinality({other \in rows : other.id < row.id}) = i - 1).entry]

Contract == INSTANCE Catalog WITH entries <- Listed

TypeOK ==
  /\ \A row \in rows : row.id \in 1 .. lastId /\ row.entry \in Entries
  /\ lastId \in 0 .. MaxId
  /\ pending \in [Writers -> Entries \cup {None}]
  /\ \A p \in Readers :
       \/ reader[p] = None
       \/ /\ reader[p].filter \in Filters
          /\ reader[p].limit \in Limits
          /\ reader[p].offset \in Nat
          /\ reader[p].done \in BOOLEAN

Init ==
  /\ rows = {}
  /\ lastId = 0
  /\ pending = [w \in Writers |-> None]
  /\ reader = [p \in Readers |-> None]

-----------------------------------------------------------------------------
(***************************************************************************)
(* bazaar::process and SqliteCatalogStore::upsert.                         *)
(***************************************************************************)
\* The extension parsed and met its schema: the entry is built.
Build(w, e) ==
  /\ pending[w] = None
  /\ pending' = [pending EXCEPT ![w] = e]
  /\ UNCHANGED <<rows, lastId, reader>>

SameKey(row, e) == Contract!Key(row.entry) = Contract!Key(e)

\* A defect: INSERT OR REPLACE, which gives the row a new id.
UpsertReplacing(e) ==
  /\ lastId < MaxId
  /\ lastId' = lastId + 1
  /\ rows' = {row \in rows : ~SameKey(row, e)} \cup {[id |-> lastId + 1, entry |-> e]}

\* A defect: the next id is computed, and the counter left as it was.
UpsertForgettingCounter(e) ==
  /\ \A row \in rows : ~SameKey(row, e)
  /\ lastId < MaxId
  /\ rows' = rows \cup {[id |-> lastId + 1, entry |-> e]}
  /\ UNCHANGED lastId

\* INSERT ... ON CONFLICT(resource, type) DO UPDATE.  The statement may use
\* up an id on a conflict; the row keeps its own.
Upsert(e) ==
  \/ /\ \A row \in rows : ~SameKey(row, e)
     /\ lastId < MaxId
     /\ lastId' = lastId + 1
     /\ rows' = rows \cup {[id |-> lastId + 1, entry |-> e]}
  \/ /\ \E row \in rows : SameKey(row, e)
     /\ lastId' \in {lastId, lastId + 1} \cap 0 .. MaxId
     /\ rows' = {[row EXCEPT !.entry = IF SameKey(row, e) THEN e ELSE @] : row \in rows}

\* The statement is through.  The response may have nobody left to go to.
Store(w) ==
  /\ pending[w] # None
  /\ Upsert(pending[w])
  /\ pending' = [pending EXCEPT ![w] = None]
  /\ UNCHANGED <<reader>>

\* The statement fails, or its request is dropped before it ran.
StoreFails(w) ==
  /\ pending[w] # None
  /\ pending' = [pending EXCEPT ![w] = None]
  /\ UNCHANGED <<rows, lastId, reader>>

-----------------------------------------------------------------------------
(***************************************************************************)
(* GET /discovery/resources, from the first page to the last.              *)
(***************************************************************************)
\* What a caller knows that starts now.  The keys that match at this moment
\* are remembered for the properties.
Open(p, filter, limit) ==
  /\ reader[p] = None
  /\ reader' = [reader EXCEPT ![p] =
       [filter |-> filter, limit |-> limit, offset |-> 0, done |-> FALSE,
        seen |-> <<>>,
        before |-> ToSet(Contract!KeysOf(Contract!Matching(Listed, filter)))]]
  /\ UNCHANGED <<rows, lastId, pending>>

\* A defect: the offset is applied before the filter.
PageBeforeFilter(p) ==
  LET r == reader[p]
      page == Contract!Page(Listed, r.offset, r.limit)
  IN  /\ r # None
      /\ ~r.done
      /\ reader' = [reader EXCEPT ![p] =
           [r EXCEPT !.seen = @ \o Contract!KeysOf(Contract!Matching(page, r.filter)),
                     !.offset = @ + r.limit,
                     !.done = r.offset + r.limit
                                >= Len(Contract!Matching(Listed, r.filter))]]
      /\ UNCHANGED <<rows, lastId, pending>>

\* list_resources: the next page.  The caller stops when total says so.
NextPage(p) ==
  LET r == reader[p]
      matching == Contract!Matching(Listed, r.filter)
      page == Contract!Page(matching, r.offset, r.limit)
  IN  /\ r # None
      /\ ~r.done
      /\ reader' = [reader EXCEPT ![p] =
           [r EXCEPT !.seen = @ \o Contract!KeysOf(page),
                     !.offset = @ + r.limit,
                     !.done = r.offset + r.limit >= Len(matching)]]
      /\ UNCHANGED <<rows, lastId, pending>>

\* The caller leaves, done or not.
Close(p) ==
  /\ reader[p] # None
  /\ reader' = [reader EXCEPT ![p] = None]
  /\ UNCHANGED <<rows, lastId, pending>>

-----------------------------------------------------------------------------
\* The facilitator restarts; the database file and the callers stay.
Restart ==
  /\ pending' = [w \in Writers |-> None]
  /\ UNCHANGED <<rows, lastId, reader>>

Next ==
  \/ \E w \in Writers :
       \/ \E e \in Entries : Build(w, e)
       \/ Store(w)
       \/ StoreFails(w)
  \/ \E p \in Readers :
       \/ \E filter \in Filters, limit \in Limits : Open(p, filter, limit)
       \/ NextPage(p)
       \/ Close(p)
  \/ Restart

Spec == Init /\ [][Next]_vars

-----------------------------------------------------------------------------
(***************************************************************************)
(* Properties.                                                             *)
(***************************************************************************)
\* The table with its ids and its conflict clause is the catalog of the
\* contract: one entry per key, in the order the keys first came in,
\* whatever upserts race, fail or are repeated (contract.rs, sqlite.rs).
ImplementsContract == Contract!Spec

\* Paging through the catalog while it is written to misses nothing and shows
\* nothing twice: without a filter on what an upsert can change, what a
\* caller has seen is the beginning of the listing, and in the end it holds
\* all that was there at the start (list_resources, and "order is insertion
\* order", contract.rs).
PagesComplete ==
  \A p \in Readers :
    LET r == reader[p]
        keys == Contract!KeysOf(Contract!Matching(Listed, r.filter))
    IN  r # None /\ r.filter.network = Contract!Any /\ r.filter.scheme = Contract!Any
        => /\ IsPrefix(r.seen, keys)
           /\ r.done => r.before \subseteq ToSet(r.seen)
=============================================================================
