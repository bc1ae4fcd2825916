----------------------------- MODULE Settlement -----------------------------
(***************************************************************************)
(* The `/settle` handler over GrpcChainClient, with many calls at once.    *)
(*                                                                         *)
(* A call is checked when it arrives (verify_envelope_for_settle), its     *)
(* resource is catalogued (bazaar::process), and its transaction goes to   *)
(* the node under one lock: GrpcChainClient holds its mutex over all of    *)
(* submit_and_wait, so the calls reach the node one after the other.       *)
(*   "bazaar"    the checks passed; the catalog upsert is under way        *)
(*   "lock"      in the mutex's queue; at its head, the call holds it      *)
(*   "poll"      submitted; waiting for the node to report acceptance      *)
(*   "answered"  the response is out                                       *)
(* A call whose client goes away is dropped at the await it stands at.     *)
(***************************************************************************)
EXTENDS Envelope, SequencesExt

CONSTANTS
  Calls,        \* the calls that can be in flight at once
  Bodies,       \* the bodies clients send, see Envelope, and two fields more:
                \*   bazaar  the echoed extension: "none", "invalid", "valid"
                \*   rawTx   signedRawTx: a transaction of Txs, "missing", or
                \*           "malformed" (no surrogate, or not decodable)
  NoBody,       \* the body of a slot without a call
  Txs,          \* the signed transactions, each with its SignedRawTx.tx_id:
                \*         the code submits and asks for it under that id
  Inputs,       \* Inputs[tx]: the notes tx spends
  MaxUpsert,    \* longest time a catalog upsert takes
  MaxHold,      \* longest time a call holds the mutex
  MaxTime       \* bound: the clock stops there

ASSUME SettlementConstants ==
  /\ IsFiniteSet(Calls)
  /\ \A b \in Bodies :
       /\ b.validBefore \in 0 .. MaxU64
       /\ b.bazaar \in {"none", "invalid", "valid"}
       /\ b.rawTx \in Txs \cup {"missing", "malformed"}
  /\ {"missing", "malformed"} \cap Txs = {}
  /\ NoBody \notin Bodies
  /\ MaxUpsert \in Nat
  /\ MaxHold \in Nat
  /\ MaxTime \in Nat

VARIABLES
  now,          \* Clock::now()
  stage,        \* stage[c]: the await call c stands at
  body,         \* body[c]: its request body
  checkedAt,    \* checkedAt[c]: when its envelope was checked
  header,       \* header[c]: the status in its EXTENSION-RESPONSES header
  answer,       \* answer[c]: transaction.status or error.code of its response
  queue,        \* the mutex of GrpcChainClient: its holder, then who waits
  heldSince,    \* when the holder got the mutex
  sent,         \* history: the calls whose transaction the node was handed
  catalogued,   \* the bodies whose resource was upserted into the catalog
  mempool,      \* the node: transactions it holds
  chain         \* the node: transactions included in a block

callVars == <<stage, body, checkedAt, header, answer, sent>>
lockVars == <<queue, heldSince>>
nodeVars == <<mempool, chain>>
vars == <<now, callVars, lockVars, catalogued, nodeVars>>

Stages == {"idle", "bazaar", "lock", "poll", "answered"}
Refusals ==
  {"outside_time_window", "chain_unimplemented", "chain_rejected"}
    \cup {EnvelopeVerdict(b) : b \in Bodies} \cup {HandlerVerdict(b) : b \in Bodies}
Answers == Refusals \cup {"none", "accepted", "processing", "chain_transport"}

TypeOK ==
  /\ now \in Nat
  /\ stage \in [Calls -> Stages]
  /\ body \in [Calls -> Bodies \cup {NoBody}]
  /\ checkedAt \in [Calls -> Nat]
  /\ header \in [Calls -> {"absent", "success", "rejected"}]
  /\ answer \in [Calls -> Answers]
  /\ queue \in Seq(Calls)
  /\ heldSince \in Nat
  /\ sent \subseteq Calls
  /\ catalogued \subseteq Bodies
  /\ mempool \subseteq Txs
  /\ chain \subseteq Txs
  /\ \A c \in Calls : stage[c] # "idle" => body[c] \in Bodies

Init ==
  /\ now = 0
  /\ stage = [c \in Calls |-> "idle"]
  /\ body = [c \in Calls |-> NoBody]
  /\ checkedAt = [c \in Calls |-> 0]
  /\ header = [c \in Calls |-> "absent"]
  /\ answer = [c \in Calls |-> "none"]
  /\ queue = <<>>
  /\ heldSince = 0
  /\ sent = {}
  /\ catalogued = {}
  /\ mempool = {}
  /\ chain = {}

-----------------------------------------------------------------------------
(***************************************************************************)
(* The mutex: first come, first served.                                    *)
(***************************************************************************)
Holds(c) == queue # <<>> /\ Head(queue) = c

\* A defect: a mutex that is not fair, whose next holder is who asked last.
EnqueueUnfairly(c) ==
  /\ queue' = IF queue = <<>> THEN <<c>> ELSE <<Head(queue), c>> \o Tail(queue)
  /\ heldSince' = IF queue = <<>> THEN now ELSE heldSince

Enqueue(c) ==
  /\ queue' = Append(queue, c)
  /\ heldSince' = IF queue = <<>> THEN now ELSE heldSince

Place(c) == CHOOSE i \in DOMAIN queue : queue[i] = c

\* c gives up its place: the holder's guard, or a waiter's future, is dropped.
Leave(c) ==
  /\ queue' = IF \E i \in DOMAIN queue : queue[i] = c
               THEN RemoveAt(queue, Place(c)) ELSE queue
  /\ heldSince' = IF Holds(c) THEN now ELSE heldSince

-----------------------------------------------------------------------------
(***************************************************************************)
(* The steps of one call.                                                  *)
(***************************************************************************)
Move(c, from, to) ==
  /\ stage[c] = from
  /\ stage' = [stage EXCEPT ![c] = to]

Answer(c, from, v) ==
  /\ Move(c, from, "answered")
  /\ answer' = [answer EXCEPT ![c] = v]

\* A defect: ReplayMode::Skip skips the scheme handler too.
SettleVerdictWithoutHandler(b, at) ==
  IF EnvelopeVerdict(b) # "ok" THEN EnvelopeVerdict(b)
  ELSE IF ~InWindow(b, at) THEN "outside_time_window"
  ELSE "ok"

\* verify_envelope_inner without the cache, at wall time at.
SettleVerdict(b, at) ==
  IF EnvelopeVerdict(b) # "ok" THEN EnvelopeVerdict(b)
  ELSE IF ~InWindow(b, at) THEN "outside_time_window"
  ELSE HandlerVerdict(b)

\* A call arrives, a first one or a retry.  Its checks touch nothing that is
\* shared and have no await: they are one step.
Receive(c, b) ==
  LET v == SettleVerdict(b, now)
  IN  /\ Move(c, "idle", IF v = "ok" THEN "bazaar" ELSE "answered")
      /\ answer' = [answer EXCEPT ![c] = IF v = "ok" THEN "none" ELSE v]
      /\ body' = [body EXCEPT ![c] = b]
      /\ checkedAt' = [checkedAt EXCEPT ![c] = now]
      /\ UNCHANGED <<now, header, lockVars, sent, catalogued, nodeVars>>

\* bazaar::process: no header, rejected (also when the upsert fails), success.
ProcessBazaar(c) ==
  /\ stage[c] = "bazaar"
  /\ \/ /\ body[c].bazaar = "none"
        /\ UNCHANGED <<header, catalogued>>
     \/ /\ body[c].bazaar \in {"invalid", "valid"}
        /\ header' = [header EXCEPT ![c] = "rejected"]
        /\ UNCHANGED catalogued
     \/ /\ body[c].bazaar = "valid"
        /\ header' = [header EXCEPT ![c] = "success"]
        /\ catalogued' = catalogued \cup {body[c]}

\* The upsert is through.  GrpcChainClient::settle takes the transaction out
\* of the payload and asks for the mutex.
Catalogue(c) ==
  /\ ProcessBazaar(c)
  /\ \/ /\ Answer(c, "bazaar", "chain_unimplemented")
        /\ body[c].rawTx = "missing"
        /\ UNCHANGED lockVars
     \/ /\ Answer(c, "bazaar", "chain_rejected")
        /\ body[c].rawTx = "malformed"
        /\ UNCHANGED lockVars
     \/ /\ Move(c, "bazaar", "lock")
        /\ body[c].rawTx \in Txs
        /\ Enqueue(c)
        /\ UNCHANGED answer
  /\ UNCHANGED <<now, body, checkedAt, sent, nodeVars>>

\* What a request to the node can have done when its answer is lost, or an
\* error: it arrived, or it did not.
Deliver(c) ==
  /\ mempool' = mempool \cup {body[c].rawTx}
  /\ sent' = sent \cup {c}

MaybeDeliver(c) == Deliver(c) \/ UNCHANGED <<mempool, sent>>

\* Defects: a failed submission keeps the lock, or is reported as a refusal.
SubmitKeepingLock(c) ==
  /\ Holds(c)
  /\ \/ /\ Move(c, "lock", "poll")
        /\ Deliver(c)
        /\ UNCHANGED answer
     \/ /\ Answer(c, "lock", "chain_transport")
        /\ MaybeDeliver(c)
  /\ UNCHANGED <<now, body, checkedAt, header, lockVars, catalogued, chain>>

SubmitErrorRejected(c) ==
  /\ Holds(c)
  /\ Answer(c, "lock", "chain_rejected")
  /\ MaybeDeliver(c)
  /\ Leave(c)
  /\ UNCHANGED <<now, body, checkedAt, header, catalogued, chain>>

\* submit_and_wait, the submission.  Every error is chain_transport: the node
\* may have refused the transaction, or the connection broke before or after.
Submit(c) ==
  /\ Holds(c)
  /\ \/ /\ Move(c, "lock", "poll")
        /\ Deliver(c)
        /\ UNCHANGED <<answer, lockVars>>
     \/ /\ Answer(c, "lock", "chain_transport")
        /\ MaybeDeliver(c)
        /\ Leave(c)
  /\ UNCHANGED <<now, body, checkedAt, header, catalogued, chain>>

\* A defect: the polling deadline counts as acceptance.
PollDeadlineAccepts(c) ==
  /\ Answer(c, "poll", "accepted")
  /\ Leave(c)
  /\ UNCHANGED <<now, body, checkedAt, header, sent, catalogued, nodeVars>>

\* submit_and_wait, the wait: the node reports acceptance, the polling
\* deadline passes, or a poll fails.
Poll(c) ==
  /\ \/ /\ Answer(c, "poll", "accepted")
        /\ body[c].rawTx \in chain
     \/ Answer(c, "poll", "processing")
     \/ Answer(c, "poll", "chain_transport")
  /\ Leave(c)
  /\ UNCHANGED <<now, body, checkedAt, header, sent, catalogued, nodeVars>>

\* A defect: the slot is cleared and keeps its stage.
ClearBodyOnly(c) ==
  /\ body' = [body EXCEPT ![c] = NoBody]
  /\ UNCHANGED <<stage, checkedAt, header, answer>>

Clear(c) ==
  /\ stage' = [stage EXCEPT ![c] = "idle"]
  /\ body' = [body EXCEPT ![c] = NoBody]
  /\ checkedAt' = [checkedAt EXCEPT ![c] = 0]
  /\ header' = [header EXCEPT ![c] = "absent"]
  /\ answer' = [answer EXCEPT ![c] = "none"]

\* The response went out, or was lost.
Finish(c) ==
  /\ stage[c] = "answered"
  /\ Clear(c)
  /\ sent' = sent \ {c}
  /\ UNCHANGED <<now, lockVars, catalogued, nodeVars>>

\* The client goes away and the runtime drops the call at its await.  What
\* was under way may still happen: the upsert, or the submission.  (When the
\* process ends instead, this is followed by Restart.)
Cancel(c) ==
  /\ \/ /\ stage[c] = "bazaar"
        /\ catalogued' \in
             {catalogued} \cup {catalogued \cup {b} : b \in {body[c]} \cap
                                  {x \in Bodies : x.bazaar = "valid"}}
        /\ UNCHANGED mempool
     \/ /\ stage[c] = "lock"
        /\ mempool' \in {mempool} \cup
             (IF Holds(c) THEN {mempool \cup {body[c].rawTx}} ELSE {})
        /\ UNCHANGED catalogued
     \/ /\ stage[c] = "poll"
        /\ UNCHANGED <<catalogued, mempool>>
  /\ Clear(c)
  /\ sent' = sent \ {c}
  /\ Leave(c)
  /\ UNCHANGED <<now, chain>>

-----------------------------------------------------------------------------
(***************************************************************************)
(* The environment: the node, time, and the process.                       *)
(***************************************************************************)
\* The node includes a transaction whose notes are unspent.
Include(tx) ==
  /\ tx \in mempool
  /\ \A other \in chain : Inputs[other] \cap Inputs[tx] = {}
  /\ chain' = chain \cup {tx}
  /\ mempool' = mempool \ {tx}
  /\ UNCHANGED <<now, callVars, lockVars, catalogued>>

\* The node forgets a transaction.
Drop(tx) ==
  /\ tx \in mempool
  /\ mempool' = mempool \ {tx}
  /\ UNCHANGED <<now, callVars, lockVars, catalogued, chain>>

\* A second passes.  The upsert and the mutex are held no longer than their
\* bounds.
Tick ==
  /\ now < MaxTime
  /\ \A c \in Calls : stage[c] = "bazaar" => now - checkedAt[c] < MaxUpsert
  /\ queue # <<>> => now - heldSince < MaxHold
  /\ now' = now + 1
  /\ UNCHANGED <<callVars, lockVars, catalogued, nodeVars>>

\* The process restarts.  The node and the SQLite catalog keep what they have.
Restart ==
  /\ stage' = [c \in Calls |-> "idle"]
  /\ body' = [c \in Calls |-> NoBody]
  /\ checkedAt' = [c \in Calls |-> 0]
  /\ header' = [c \in Calls |-> "absent"]
  /\ answer' = [c \in Calls |-> "none"]
  /\ queue' = <<>>
  /\ heldSince' = 0
  /\ sent' = {}
  /\ UNCHANGED <<now, catalogued, nodeVars>>

Progress(c) == Catalogue(c) \/ Submit(c) \/ Poll(c)

Step(c) ==
  \/ \E b \in Bodies : Receive(c, b)
  \/ Progress(c)
  \/ Finish(c)
  \/ Cancel(c)

Next ==
  \/ \E c \in Calls : Step(c)
  \/ \E tx \in Txs : Include(tx) \/ Drop(tx)
  \/ Tick
  \/ Restart

Spec == Init /\ [][Next]_vars

\* A call that can go on does: the runtime polls woken tasks, the upsert and
\* the requests to the node return.  Clients and the node owe nothing.
FairSpec == Spec /\ \A c \in Calls : WF_vars(Progress(c))

-----------------------------------------------------------------------------
(***************************************************************************)
(* Properties.                                                             *)
(***************************************************************************)
\* A caller that is told "accepted" can rely on it: the transaction of its
\* body is in a block, whoever submitted it and whatever else was retried,
\* dropped or timed out around it, and no other call is told "accepted" for
\* another transaction that spends a note of it (ChainStatus::Accepted).
AcceptedIsFinal ==
  \A c \in Calls :
    answer[c] = "accepted" =>
      /\ body[c].rawTx \in chain
      /\ \A d \in Calls :
           answer[d] = "accepted" =>
             \/ body[d].rawTx = body[c].rawTx
             \/ Inputs[body[d].rawTx] \cap Inputs[body[c].rawTx] = {}

\* The error code tells what a caller may assume: a refusal handed nothing
\* to the node, a success did, and only "chain_transport" leaves it open
\* (chain_error_to_facilitator and the errors of GrpcChainClient::settle).
RefusalsSubmitNothing ==
  \A c \in Calls :
    /\ answer[c] \in Refusals => c \notin sent
    /\ answer[c] \in {"accepted", "processing"} => c \in sent

\* Whose transaction the node is handed, whether or not the call learns of it,
\* has passed every check, and it is the call that holds the mutex; what is
\* catalogued comes from a call that stands there after its checks
\* (verify_envelope_for_settle before bazaar::process and submit_and_wait).
SoundEffects ==
  /\ \A c \in sent' \ sent : Sound(body[c])
  /\ \A tx \in (mempool' \cup chain') \ (mempool \cup chain) :
       \E c \in Calls : Holds(c) /\ Sound(body[c]) /\ body[c].rawTx = tx
  /\ \A b \in catalogued' \ catalogued :
       \E c \in Calls : stage[c] = "bazaar" /\ Sound(body[c]) /\ body[c] = b

OnlySoundEffects == [][SoundEffects]_vars

\* The window check is made before the upsert and the wait for the mutex,
\* and not again.  How stale it can be when the transaction goes out is
\* bounded by the calls in flight, as nobody overtakes in the queue.
SubmitsTimely ==
  \A c \in Calls :
    stage[c] = "lock" =>
      now <= body[c].validBefore + Skew + MaxUpsert + Cardinality(Calls) * MaxHold

\* "Polling timed out before block inclusion. [...] this surfaces as
\* EXTENSION-RESPONSES: {bazaar: {status: processing}}" (chain/mod.rs).
ProcessingSurfaces ==
  \A c \in Calls :
    answer[c] = "processing" /\ header[c] # "absent" => header[c] = "processing"

\* Every call that passed its checks is answered, unless its client goes away
\* or the process ends: no order of errors, timeouts and dropped calls
\* leaves the mutex taken (GrpcChainClient::settle).
CallsEnd == \A c \in Calls : stage[c] = "bazaar" ~> stage[c] \in {"answered", "idle"}
=============================================================================
