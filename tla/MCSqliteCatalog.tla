-------------------------- MODULE MCSqliteCatalog --------------------------
(* Entries and filters for model checking SqliteCatalog.                     *)
EXTENDS SqliteCatalog, TLC

OnNetwork(n) == {[network |-> n, scheme |-> "exact"]}

\* Two kinds of one resource, another resource, and a change of network.
MCEntries ==
  { [resource |-> "/a", kind |-> "http", accepts |-> OnNetwork("main")],
    [resource |-> "/a", kind |-> "mcp", accepts |-> OnNetwork("main")],
    [resource |-> "/b", kind |-> "http", accepts |-> OnNetwork("main")],
    [resource |-> "/b", kind |-> "http", accepts |-> OnNetwork("fakenet")] }

MCFilters ==
  { [kind |-> "any", network |-> "any", scheme |-> "any"],
    [kind |-> "http", network |-> "any", scheme |-> "any"],
    [kind |-> "any", network |-> "main", scheme |-> "any"] }

\* The requests are interchangeable.
Symmetric == Permutations(Writers)
=============================================================================
