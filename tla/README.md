# Verification of x402-nockchain

TLA+ modules, TLC configurations and TLAPS proofs for the x402 payment stack on
Nockchain: the facilitator service and the crates around it. `PROJECT.json`
lists the components, the runs, the mutants that show each property can fail,
the lines of code each definition stands for, the hazards and the theorems.

Run `tlc -config X.cfg M` for a run and `tlapm M_proofs.tla` for a proof module.

## 1. The system

A client asks a resource server for a resource, is told what it costs (402),
signs an authorization, and asks again with the payment attached. The resource
server sends the payment to the **facilitator**, which answers `/verify` (is
this payment good?) and `/settle` (put it on the chain), and which keeps a
catalog of the paid resources it has seen (`/discovery/resources`).

| Part | Code | State | Operations | Hard because |
|---|---|---|---|---|
| /verify pipeline | `handlers/verify.rs`, `error.rs` | none of its own | envelope checks, time window, nonce, scheme handler, bazaar | requests interleave at the shared cache; the order of the checks decides what is recorded |
| scheme registry, handlers | `scheme/` | the list of handlers | lookup, `extract_authorization`, `verify`, `settle` | two integer widths, early returns |
| nonce replay cache | `AppState.replay_cache` (external `InMemoryReplayCache`) | nonce -> end of entry | `seen(key, ttl)` | its TTL against the window; its clock against the wall clock; lost on restart |
| /settle | `handlers/settle.rs` | none of its own | re-verify, catalog, submit, answer | four awaits at which the caller can go away; the answer must say what happened at the node |
| chain client | `chain/grpc.rs` | one connection behind a mutex | `settle` = submit and wait | head-of-line blocking; lost answers; polling deadline |
| bazaar extension | `handlers/bazaar.rs` | none of its own | `process`: validate, upsert | runs before the settlement it is reported with |
| catalog | `storage/`, `handlers/discovery.rs` | rows in insertion order | `upsert`, `list` | concurrent upserts; paging while rows are written |
| SIWN gate | `middleware/siwn.rs` | a nonce cache of its own | `require_siwn` | - |
| clock | `clock.rs` | - | `now` | can be stepped |
| signing | `x402-nockchain-crypto` | - | digest, sign, verify | reduction modulo the field's prime, spellings, sorting |
| client | `x402-client` | the bound policy and signer | `get_payment_required`, `verify`, `fetch_with_payment`, both payload builders, `PolicyEnforcedSigner`, discovery paging | several services in one flow, one of which remembers the nonce; two clocks; a price that may have changed |
| wallet client | `x402-nockchain-wallet-client` | the wallet kernel behind a mutex | `authorize_and_sign`, the surrogate codec | the mutex is taken twice; two hashes of one key; a note is chosen and not reserved; the transaction travels as JSON |
| MCP paywall | `x402-mcp` | the tool registry | `call_tool` | verification and invocation are two steps |
| advertiser, types, demo | `x402-advertiser`, `x402-types`, `examples` | - | pure builders and data | - |

The parts interact by calls (handler -> scheme handler -> chain client), by
state shared between requests (`AppState`: the nonce cache, the catalog, the
mutex of the chain client) and over HTTP (client, resource server, facilitator,
node). Requests are tasks of a multi-threaded async runtime: they interleave
anywhere, and one whose client goes away is dropped at the await it stands at.

What makes the parts correct, in a sentence each:

- /verify: a nonce is granted at most once while any authorization with it can
  still pass; what is granted passed every check.
- /settle: the answer says what the node was handed; nothing is submitted or
  catalogued for a body that fails a check; every call ends.
- catalog: one entry per (resource, kind) in the place of its first upsert; a
  caller that pages misses nothing and sees nothing twice.
- signing: the digest the client signs is the one the verifier recomputes, and
  two authorizations with one digest agree in every field up to what is left out
  when it is packed: the spelling of a base58 text, multiples of the prime, the
  order of the notes, and what is known of a note beyond its name.
- MCP paywall: one payment buys one run of one tool, and the status says
  whether it ran.
- client: what the builders make from a requirement is accepted against that
  requirement, in time, and what was served for it can be settled.
- wallet: what is signed passes both the envelope check and the chain; no call
  is stuck at the kernel; money moves only as authorized.

`PROJECT.json`, "hazards", lists line by line what can go wrong.

## 2. The modules

| Module | Models | Role |
|---|---|---|
| `Envelope` | the checks that read only the request: `verify_envelope_inner` up to the clock, `check_time_window` as a predicate, `SchemeHandler::verify`, `verify_payment` | pure operators; `Sound` is the reference without an order |
| `ReplayCache` | `seen(key, ttl)` of the external cache | operators for hit and miss |
| `OncePerNonce` | what /verify promises | abstract specification |
| `VerifyPipeline` | `verify_envelope` and `verify_envelope_for_settle` with many requests at once | state machine, implements `OncePerNonce` |
| `Settlement` | the `/settle` handler, `bazaar::process` and `GrpcChainClient` with many calls at once, and the node | state machine |
| `Catalog` | the `CatalogStore` contract, which is also `InMemoryCatalogStore` | abstract specification |
| `SqliteCatalog` | `SqliteCatalogStore`, the writers in `bazaar::process`, the readers of `/discovery/resources` | state machine, implements `Catalog` |
| `McpPaywall` | `call_tool` of x402-mcp with many calls at once, over the registry and `RemoteFacilitatorVerifier`; the facilitator is an instance of `OncePerNonce` | state machine, composed with the abstract facilitator |
| `PaidFetch` | `fetch_with_payment` and the payload builders of x402-client, a resource server that verifies and settles, the facilitator they share; extends `Envelope` | state machine, composition |
| `Surrogate` | `surrogate_from_raw_tx` and `raw_tx_from_surrogate` with everything they call | pure operators; `HasSurrogate` is what the encoder takes, `SurrogateDecodes` what the decoder does |
| `Transfers` | what path 2B promises about money | abstract specification |
| `Wallet` | `build_exact_nockchain_payload_with_wallet`, `authorize_and_sign` over one kernel, `GrpcChainClient::settle`, and the notes on the chain; extends `Surrogate` | state machine, implements `Transfers` |
| `SignMessage` | `x402_sign_message_digest`, `NockchainSigner`, `NockchainVerifier` | state machine over the packing operators |
| `MC*` | values for the constants | model checking |
| `*_proofs` | theorems | proofs |

How they correspond to the code:

**Envelope.** A body is a record with the fields the code looks at. A decimal
string is its number or `Unparsable`; a signature is "valid" when it decodes,
its key hashes to `from` and it is over the digest. A sequence of `return Err`
is a sequence of [code, failed] pairs of which the first failing one counts.
The window is computed with the saturating u64 sums of the code. `exact` and
`upto` have the same checks in the same order.

**VerifyPipeline.** `stage[r]` is the point between two effects at which request
r stands; one action is the code between two points at which another task or
the clock can come in between: reading the clock, the one call of the cache, the
scheme handler, the answer. `mode[r]` is `ReplayMode`. `wall` is `Clock::now()`
and `mono` the clock of the cache; they drift by at most `MaxDrift`, for the
truncation to seconds and for steps of the host's clock. A task stays between
reading the clock and asking the cache for at most `MaxStall`. `Restart` loses
the cache and the tasks. `granted` is a history variable.

**Settlement.** `stage[c]` is the await the call stands at. The checks are one
step, since they touch nothing shared (`ReplayMode::Skip`). `queue` is the
mutex: its head is the holder, and tokio's mutex is first come, first served.
`Leave` is the drop of the guard or of the waiter. A failed submission may or
may not have reached the node, and so may one whose caller went away. The node
is a set of transactions it holds and a set it included; it includes none that
spends a note spent before. A transaction stands for what the payload carries
under one `SignedRawTx.tx_id`: the code submits and asks for it under that id and
does not look at what it pays. `sent` is a history variable. `OnlySoundEffects`
is about steps: what the node is handed, it is handed by the call that holds the
mutex, so the property asks for the checks of that call's own body, at every
step that can hand something over (`Submit`, answered or not, and `Cancel`).

**Catalog, SqliteCatalog.** The table is a set of [id, entry]; a listing is its
entries by id, and that sequence is the `entries` of the contract. An upsert on
a conflict may use up an id. A reader keeps its filter, page size, offset and
the keys it has seen.

**McpPaywall.** `stage[c]` is the await of `call_tool` the call stands at. The
facilitator is not modelled again: `Facilitator` is `OncePerNonce`, which
`VerifyPipeline` implements, so what is shown of the paywall holds with the real
pipeline behind it. A request or an answer can be lost, and a request whose
caller is gone can still arrive (`late`). The early returns before the POST are
the disjuncts of `Receive`. `ran`, `reached` and `restarts` are history variables.

**PaidFetch.** `stage[c]` is the await of `fetch_with_payment`, or of a caller that
drives the builder by hand as `demo_full` does (`flow[c]`), at which the call
stands. The facilitator is one step per request: `VerifyPipeline` has the steps
inside, and a nonce here belongs to one call. `Verdict` is the whole of
`verify_envelope_inner` and the handler over `Envelope`, and `FacilitatorVerify`
records the nonce where the code does, before the handler. `serving[c]` is how
far the server is with the request, whose requirement `asked[c]` is the one its
price list has at that moment (`Redeploy` changes the list). A request or an
answer can be lost on every connection. A call sends its payment to the server
once, as both callers in the repository do; what calls that repeat a payment at
the same time can get is the question of `McpPaywall`. `builtAt` is a history
variable.

**Surrogate.** A text on the wire is a pair of its notation and its value; a text
in another notation is one the decoder refuses, and a `u64` beyond `MaxU64` too.
The operators follow the two recursive-descent codecs record by record.

**Wallet.** `stage[p]` says which poke of the kernel the call waits for; `queue` is
the kernel's mutex, taken twice, with the signature made in between. The early
returns of `authorize_and_sign` are `AuthorizeVerdict`, in order. A key has two
hashes, `EnvelopePkh` and `ChainPkh`, as in the struct. A lock root is the spend
condition it hashes; a signature is its key and digest. The chain is the
environment: `AcceptableOnChain` is consensus on a v1 witness spend as the
comments of the wallet client describe it, `Include` a block, `Forget` a node that
drops a transaction. Callers choose any note that has ever been, say the truth
about its lock or send the default, and write the authorization themselves or
have the builder do it.

**SignMessage.** A base58 text is its digits over an alphabet of `Base`, a belt a
number below `Prime`, a digest `Lanes` belts: `TextValue`, `Base58ToBelts` and
`PkhBeltsToBase58` compute what the code computes on 58 characters and five
belts. A loop of the code is a recursive function: the division that
`base58_to_belts` repeats (`Rest`), the digits `bs58` writes (`TextOf`), the sum
that makes a number of belts (`BeltsValue`), the packing of the notes
(`NotesBelts`). The sort of `compute_notes_hash` is stable, and is defined by where
each note goes (`Place`: after those before it in the order, and after its equals
that stood before it). `Tip5` has no collisions, so a digest is what went into
it. `Verdict` has the early returns of `verify_payment` in order. `Change` rewrites
any field on the way from the signer to the verifier.

## 3. The runs

| Run | Bounds | Shows |
|---|---|---|
| `VerifyPipeline` | 2 requests, 2 nonces, 5 bodies (one nonce signed with two windows; one that fails the cap; a value beyond a u64; a foreign network), TTL 6, skew, window, drift, stall 1, time 0..6 | `TypeOK`, `AtMostOnceAccepted`, `CacheOutlivesWindow`, `OnlyTimelyNonces`, and `ImplementsPromise` (refinement) |
| `DocumentedTTL` | the same with TTL = window + skew, no drift and no stall | violation: see section 4 |
| `Settlement` | 2 calls, 6 bodies (two of them over the cap or beyond a u64), 2 transactions that spend one note, time 0..3 | `TypeOK`, `AcceptedIsFinal`, `RefusalsSubmitNothing`, `OnlySoundEffects`, and `CallsEnd` under fairness |
| `SettlementQueue` | 3 calls, an authorization that runs out at once and one that lasts to 4, upsert and hold 1, time 0..5 | `SubmitsTimely` |
| `ProcessingHeader` | as `Settlement` | violation: see section 4 |
| `SqliteCatalog` | 2 writers, 1 reader, 4 entries over 3 keys, 3 filters, pages of 1 and 2, ids to 4 | `TypeOK`, `PagesComplete`, and `ImplementsContract` (refinement) |
| `McpPaywall` | 2 calls, 2 tools, 2 nonces, 3 payments, 6 requests, 1 restart of the facilitator | `TypeOK`, `OneRunPerPayment`, `StatusTells` |
| `PaidFetch` | 1 call, 8 price lists, windows of 2 and of the largest u64 (7), tolerance and backdating 1, clocks up to 2 apart, time 0..4, 1 restart | `TypeOK`, `InTimeIsAccepted`, `RefusalsExplained`, `SettleFollowsVerify` |
| `PaidFetchDelivers` | the same | violation: see section 4 |
| `Wallet` | 2 calls, 6 requirements, 3 notes of 4, 5 and 8 (one coinbase), amounts to 9 | `TypeOK`, `SignedIsAcceptable`, `SigningEnds` under fairness, `MovesMoneyAsPromised` (refinement) |
| `ChangeComesBack` | the same with 1 call | violation: see section 4 |
| `SignMessage` | prime 3, 2 belts, base 4, 2 keys, 7 lists of notes, 5 texts, numbers to 4, 2 changes | `TypeOK`, `VerifiedIsSigned`, `OrderDoesNotMatter`, `SignerIsVerified` |

Why the bounds are enough. Two requests are the smallest race on a nonce, and a
third adds nothing the cache can see: it holds one entry per nonce. TTL 6 is
the smallest that satisfies `TTLOutlivesWindow` (6 > 1 + 2*1 + 1 + 1), and the
clock runs past the end of the entry, so the boundary is where it is tight; the
theorem below lifts it to every value. Two calls with two transactions on one
note meet every conflict at the node; three are needed for a queue with a
middle, and newcomers that arrive while the first one waits (the long-lived
authorization) to see that nobody is overtaken. Four entries over three keys meet insertion, replacement and a change of
what a filter matches, and two pages of 1 or 2 cut between any of them.
One call is all `PaidFetch` needs: each payment has a nonce of its own, so two
calls meet only at the price list, and the theorems are for any number. The
window is chosen at both edges of the clock gap and the clock runs past its
end. `MaxU64` is as small as `FetchConstants` allows and time starts at 0, so that
the sums of the builders and of the window check saturate at both ends; sums
that wrapped would break `InTimeIsAccepted`. One price is beyond a u64, which the
signer refuses and a stub signs. Two payments are the smallest fight over a note and over the kernel, whose
queue then holds a call at each of its two turns; the amounts leave change,
leave none, and overflow. Prime 3 with two belts makes hashes of nine values, so
that texts with one value, values beyond the field and numbers that differ by
the prime all occur among a few texts of two digits. `MaxTime`, `MaxId`,
`MaxNote`, `MaxEdits` and `MaxRestarts` stop what would grow for ever. `MaxUpsert`, `MaxHold`,
`MaxStall` and `MaxDrift` are assumptions on the environment: they bound the
database, the polling deadline of the chain client, preemption and the clock.

Deadlock is checked wherever a run expects to pass, but for `Wallet` and
`SignMessage`, where everything may have been paid or verified. Symmetry is used over
requests, calls and writers in runs without liveness. `McpPaywall` needs two
calls to race for a nonce and one restart to see that the bound moves with it.

**Fairness.** `FairSpec` of `Settlement` is weak fairness, for each call, of
going on from where it stands: the runtime polls a woken task, an upsert and a
request to the node return, and `submit_and_wait` has a deadline. Nothing is
assumed of the clients (they may never come back), of the node (it may never
include a transaction), of the clock or of restarts. `CallsEnd` then says that
the mutex cannot be left taken by any mix of errors, deadlines and dropped calls.

`FairSpec` of `Wallet` is weak fairness of one thing: whoever holds the kernel,
its poke ends. Nothing is assumed of the callers, who may go away while they
wait, of the facilitator or of the chain. `SigningEnds` then says that no mix of
first turns, second turns, failed pokes and dropped calls leaves one behind.

**Mutants.** Each property of a passing run has a defect in `PROJECT.json` that
breaks it. The defects are operators next to the definition they replace, marked
"A defect".

## 4. What disagrees

Four statements of the repository do not hold of the code; each has a run.

- `DocumentedTTL`: `with_replay_ttl` (`lib.rs:139-141`) asks for window +
  tolerance. The tolerance counts at both ends, so more than window +
  2 * tolerance is needed. The default (15 min against 5 min + 2 * 1 min) is on
  the safe side.
- `ProcessingHeader`: `ChainStatus::Processing` (`chain/mod.rs:50-51`,
  `chain/grpc.rs:82-83`) is said to surface in the `EXTENSION-RESPONSES` header. The
  header is filled before the settlement (`handlers/settle.rs:64-68`) and says
  success or rejected.
- `ChangeComesBack`: the payload builder for wallets names the envelope form of
  the payer's hash as the change address (`x402-client/src/lib.rs:568, 591`); the
  wallet locks the change to it as it is, while its witnesses show the chain
  form. The change of such a payment is under a lock this wallet makes no
  witness for. A caller that writes the chain form itself (`BuildByHand`) is not
  affected.
- `PaidFetchDelivers`: `fetch_with_payment` is the "full 402-flow round trip" and
  shows its payment to `/verify` before it retries the GET
  (`x402-client/src/lib.rs:396-399, 417`). The nonce is then used, and a server that
  asks the same facilitator is told `nonce_replayed`.

Seen while reading, without a run:

- `ARCHITECTURE.md` (`/verify` pipeline) lists `value >= maxAmountRequired` and a
  minimum fee where the code checks `value <= maxAmountRequired` and no fee, a
  tolerance of 30 s where the default is 60 s, and a check of the notes that the
  code does not make; it says the nonce check is against what was settled, and
  that `/settle` makes the same checks, where `/settle` skips that one; and it ends
  a settlement in `Rejected` where the chain client reports every error of the
  node as `chain_transport`.
- `Clock` asks its implementations to be monotonic, which `SystemClock` is not; the
  model lets the clock step, and the properties hold with the step within
  `MaxDrift`.
- `ToolHandler` (`x402-mcp/src/registry.rs:18-20`) is said to take arguments that the
  router validated against the tool's `inputSchema`; the router does not
  (`router.rs:111`).
- `build_exact_nockchain_payload` is documented to discard the signer's output
  (`x402-client/src/lib.rs:447-451`); it uses it. Its sister for wallets says that the
  caller does not choose the notes (558-561), and takes them as a parameter. What
  `fetch_with_payment` builds carries no transaction, so that `/settle` ends in
  `chain_unimplemented` for it.
- The replay cache is keyed by the nonce's text (`handlers/verify.rs:205-208`), while
  the digest covers the number that base58 text stands for
  (`sign_message.rs:172-191`): two spellings of one number, with and without a
  leading "1", are one authorization to the signature and two to the cache.
  `VerifiedIsSigned` leaves the spelling open, and once per nonce is meant of the
  text.
- `fetch_with_payment` retries with a GET and the header `payment-signature`
  (`x402-client/src/lib.rs:430-438`), the name `ARCHITECTURE.md` uses; the MCP router
  takes a POST with `x-payment-signature` (`x402-mcp/src/router.rs:30, 48`). The server
  of `PaidFetch` takes the payment from either caller.
- `NoteRef.assets` is said to be verified by the facilitator against the chain
  (`x402-types/src/payment.rs:164-165`); nothing in the facilitator looks it up.
- The comment on the sort of the notes says that base58 texts compare as the
  bytes they stand for (`sign_message.rs:146-147`), which holds only of texts of
  one length. The sort need only be the same at both ends, and it is
  (`OrderDoesNotMatter`).
- The installation of the metrics recorder is documented as idempotent; two first
  callers at once can both install, and the second is answered with an error.

## 5. What is proved

For every value of the constants, under the assumptions the modules name.

**Envelope_proofs.** `VerdictsMeanSound`: the two sequences of early returns
let through exactly the bodies for which `Sound` holds. `FirstFailureIs` gives the
verdict of a sequence of checks as the first that fails.

**VerifyPipeline_proofs.** `TypeCorrect`, `OnlyTimely` without an assumption on the
TTL; `AtMostOnce`, `CacheOutlives` and `Implements` under `TTLOutlivesWindow`.
`AtMostOnceAccepted` is not inductive: that a nonce is granted once follows from
where its entry stands while a request is between the cache and its answer. The
invariant `IInv` adds that clocks stay within their bounds of each other, that a
request past the window check was in the window when it read the clock
(`WindowHeld`), that the entry of a nonce that is granted, or about to be,
lasts beyond every instant at which a body of it passes (`EntryLasts`), and that
no two requests hold one nonce past the cache, nor one when it is granted
(`Exclusive`). The step that matters is `CheckReplay`: a miss needs the clock
past the entry, which `EntryLasts` puts beyond the window the request was in.

**Settlement_proofs.** `TypeCorrect`, `AcceptedStaysFinal`, `RefusalsAreSafe`,
`EffectsAreSound` and `SubmissionsTimely`. The invariant has three parts.
`CallInv` ties the stage of a call to its answer, to its checks, and to what it has
done to the node; `EffectsAreSound` is an action property that follows from it step
by step, as the holder of the mutex is a call whose checks are behind it. `QueueInv` says that the queue holds the calls at the mutex, each once,
and that only its head is polling. `TimeInv` is what makes the queueing bound
inductive: a call at place i started its wait early enough for the turns before
it, heldSince <= checkedAt + MaxUpsert + (N - i) * MaxHold. A call that joins
pays with the places behind it, of which there are enough because no call is in
the queue twice (a pigeonhole argument); a turn that ends moves everybody up by
one place and costs one MaxHold.

**McpPaywall_proofs.** `TypeCorrect`, `OneRun` and `StatusSound`. That a nonce buys
one run is not inductive, as a grant and the run it pays for are steps apart,
with calls dropped and the facilitator restarted between them. `TicketInv`
counts: the runs of a nonce and the calls that hold a grant for it (tickets)
are together at most the restarts, plus one when the facilitator has granted
the nonce since. A grant adds a ticket where nothing was spent, an invocation
turns a ticket into a run, a lost answer drops one, a restart forgets what was
spent and counts.

**SqliteCatalog_proofs.** `CatalogTypeCorrect` and `ImplementsTheContract`. The list
that ORDER BY id makes of the table is defined by ranks: row i is the one with
i - 1 smaller ids. `RowAtIs` shows that each place has exactly one row: ranks of
different rows differ, so they are an injection of n rows into 0 .. n - 1, and an
injection between finite sets of one size is onto. `ListOfInsert` and
`ListOfUpdate` show that the two halves of the upsert statement do to the list
what `Put` does: a row with an id above all others goes to the end and moves
nobody, and an update in place keeps every rank. That new ids are above the
others is why the invariant has the counter in it, and that a key has one row
is why the update changes one entry.

The second half is `PagesAreComplete`. What a reader has seen of a listing whose
filter no upsert can move is a prefix of the keys of that listing (`PagingInv`),
and stays one. An upsert puts a row at the end or replaces one where it is
(`PutExtends`), and selecting the rows of a kind from a list that does this gives
a list that does it (`MatchingIs`, `RunsAlike`: the selection is a recursive
function, and two lists are selected from alike as far as they are alike). A
page is the part of that list at the offset (`PageIsPart`), so a page put behind
the prefix is a longer prefix (`PartGoesOn`), whatever was inserted between.

**Wallet_proofs.** `SurrogateRoundTrip`: for every v1 witness transaction with
amounts that are u64s, every text the wallet writes decodes, and the facilitator
reads back the transaction itself. It goes up the records: preimages, seeds,
witnesses, spends, the transaction.

`SignedIsGood` and `WalletTypeCorrect`. `SignedIsAcceptable` speaks of finished
payloads, and the hash one is signed over was made a turn on the mutex earlier.
`IInv` says that a call past its first poke holds the hash of what it is about,
and that each payload is what `PayloadFor` makes of an authorization that passed
every early return. The rest is about such payloads alone: `RawTxSurvives` takes
the transaction through the surrogate by `SurrogateRoundTrip`, `ConditionIs` shows
that the witness presents the note's condition when the caller's word about the
lock is true, and `SeedsAre` that outputs and fee come to the note. For the types,
`TypeInv` says that the queue at the kernel has each call in it once, and exactly
the calls whose stage is in the kernel; `Joined`, `Removed` and `Rotated` are the
three things a step does to a queue.

`MovesMoney` is the refinement of `Transfers`: `NextKeepsPromise` has a case for each
action, of which the finished payload (`Authorize`), the block (`Pay`) and the rest
(no step) are the kinds. The ledger of `Transfers` is a balance for each key, and a
key's balance on the chain is a sum over the notes it can spend. `AssetsOf` is that
sum as a fold over a set; `FoldExists` and `FoldUnique` show that there is one such
fold, and `AssetsOfLess` and `AssetsOfMore` that any note more or less moves the sum
by what it holds, whichever the fold takes first. A block takes one note and makes the outputs, so
the balances move by what `IncludePays` says: the payer's by value and fee, the
payee's by the value, also when they are the same. `MoneyInv` adds that there are
finitely many notes and that no note has a name still to be given, so that an
output never falls together with a note that is there.

**SignMessage_proofs.** `SignMessageTypeCorrect`, `VerifiedWasSigned`,
`AnyOrderVerifies` and `OwnPayloadVerifies`, for any prime, any number of belts, any
alphabet, any authorizations and any changes. `IInv` says little that is
surprising: the signature on the way is over the digest of what was signed, the
authorization beside it is a message, and a verdict is the one on the payload as
it stands. The weight is in the operators.
`IdentifierReads`: base58_to_belts reads what `pkh_belts_to_base58` writes. The
text is decoded digit by digit from its end (`TextOfReads`), and dividing by the
prime again and again takes apart what multiplying by it put together
(`BeltsAreRead`). `SameBeltsOneByOne`: the packing of the notes can be undone, since
each note takes 2 * `Lanes` belts, so lists with one packing have the same names
at the same places. The exception the code makes, one zero for no note, is not
the packing of a note. `PlacesAreTaken`: the order is a strict total order of the
places of a list, so that each place of the sorted list gets exactly one note,
by the pigeonhole. From these, two lists with one hash hold the same names
(`NotesHashTells`), and a list and its reordering sort to one list
(`SortingUndoesTheOrder`): were they to differ, the names at the first difference
would be counted differently below it.

**Induction.** The library's induction theorems take an operator as a parameter,
which the provers cannot instantiate. What these proofs need of induction is in
`LeastNumber` instead, which speaks of a set: a set of numbers that is not empty
has a least one, from the library's `WFMin` or from the finiteness of an interval.
An induction is then a set of counterexamples and its least member
(`NumbersByInduction`). That a recursive function is what its definition says, and
is the only one, is shown the same way (`RecursExists` and `RecursUnique`, `RunsAt`,
`FoldExists`).

**PaidFetch_proofs.** `FetchTypeCorrect`, `InTime`, `RefusalsAreExplained`
and `SettleFollows`, from one invariant. `CallInv` says of each call what its
payload was built from (`BuiltInv`), that nothing stands at the server that was
not signed (`StageInv`), that what is granted meets `Sound` (`ServingInv`), and that
the nonce of a direct payment is unknown to the facilitator until the server has
asked about it (`UsedInv`), without which a `nonce_replayed` would have no
explanation. A step moves one call; `CallFrame` and `Forward` carry the invariant
of the others over it. That a fresh payment is in time is arithmetic on the saturating sums from
ClockGap <= Skew + Backdate; that what was served may be settled is
`VerdictsMeanSound` used in both directions.

**Assumptions.** The theorems rest on the assumptions on constants that each
module names, which TLC evaluates in its run. `AtMostOnce`, `CacheOutlives` and
`Implements` assume `TTLOutlivesWindow`, as the run does. What the assumptions of
`SignMessage` say of messages is their types; `Prime` need not be a prime.

**Model-checked only.** The liveness properties `CallsEnd` and `SigningEnds`, which are
out of the prover's reach. Every invariant and every refinement that a passing run
checks is also the statement of a theorem.

## 6. What is not modelled

JSON and base64 encodings, messages, logging and metrics. Cryptography: a
signature is its key and digest, a hash is what it is of. The external crates
(`vesl-signing`, `nockchain-client-rs`, the wallet kernel, tokio, SQLite) and the
node are modelled from how the code uses them.

- SIWN gate (`middleware/siwn.rs`): the message, its nonce and its times are
  checked by one call into `vesl-signing`, whose source is not part of the
  repository. What the gate adds is passing a request on or answering 401.
- Stub chain client: a hash as the transaction's id and always `Broadcast`;
  nothing is kept.
- Observability: no effect on any answer. Its set-once race is a hazard without
  a property.
- Advertiser: pure builders of a 402 body.
- Start-up and wiring: runs once, before requests are served.
- Of the client, `canonical_authorization_bytes`, the header and query encodings
  and the stub wallet; of the paywall, `list_tools`; of the catalog, the JSON of
  its columns and the order of `last_updated`.

## 7. Plan

What would come next, in this order.

1. `PaidFetch` over `VerifyPipeline` in place of its one-step facilitator, joined by
   `OncePerNonce`, as `McpPaywall` is.
2. An abstract specification of `/settle` for its callers (a payment is answered
   once, with an outcome that stays true), implemented by `Settlement`.
3. One module for the lemmas that several proof modules have a copy of
   (`LeastNumber` and what follows from it).
