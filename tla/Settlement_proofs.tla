------------------------- MODULE Settlement_proofs -------------------------
(***************************************************************************)
(* The safety of Settlement for every value of its constants: any number   *)
(* of calls, any bodies, transactions and bounds.                          *)
(***************************************************************************)
EXTENDS Settlement, Envelope_proofs, FiniteSetTheorems, SequenceTheorems

-----------------------------------------------------------------------------
(* The inductive invariant.                                                *)

Waiting(c) == stage[c] \in {"lock", "poll"}

\* A call's stage, its answer, and what it has done to the node go together.
StageInv ==
  \A c \in Calls :
    /\ stage[c] \in {"bazaar", "lock", "poll"} => Sound(body[c])
    /\ Waiting(c) => body[c].rawTx \in Txs
    /\ stage[c] # "answered" => answer[c] = "none"
    /\ stage[c] \in {"idle", "bazaar", "lock"} => c \notin sent
    /\ stage[c] = "poll" => c \in sent

\* The queue holds the calls at the mutex, each once, and only its head talks
\* to the node.
QueueInv ==
  /\ \A i, j \in 1 .. Len(queue) : queue[i] = queue[j] => i = j
  /\ \A c \in Calls : Waiting(c) <=> \E i \in 1 .. Len(queue) : queue[i] = c
  /\ \A c \in Calls : stage[c] = "poll" => Len(queue) > 0 /\ queue[1] = c

\* What the calls behind place i of the queue can still cost.
Slack(i) == (Cardinality(Calls) - i) * MaxHold

\* A call's check and the holder's turn are no older than the bounds allow;
\* a call that waits started its wait early enough for all turns before it.
TimeInv ==
  /\ \A c \in Calls :
       /\ stage[c] = "bazaar" => now <= checkedAt[c] + MaxUpsert
       /\ stage[c] \in {"bazaar", "lock"} =>
            checkedAt[c] <= body[c].validBefore + Skew
  /\ Len(queue) > 0 => heldSince <= now /\ now <= heldSince + MaxHold
  /\ \A i \in 1 .. Len(queue) :
       heldSince <= checkedAt[queue[i]] + MaxUpsert + Slack(i)

\* "accepted" and the chain, and what the node keeps apart.
AcceptedIncluded ==
  \A c \in Calls : answer[c] = "accepted" => body[c].rawTx \in chain

NoNoteSpentTwice ==
  \A tx1, tx2 \in chain : tx1 = tx2 \/ Inputs[tx1] \cap Inputs[tx2] = {}

CallInv ==
  /\ TypeOK /\ StageInv /\ AcceptedIncluded /\ RefusalsSubmitNothing
  /\ NoNoteSpentTwice

IInv == CallInv /\ QueueInv /\ TimeInv

-----------------------------------------------------------------------------
(* Facts about the constants and the checks.                               *)

\* The constants as numbers.
LEMMA Numbers ==
  /\ Skew \in Nat /\ MaxU64 \in Nat
  /\ MaxUpsert \in Nat /\ MaxHold \in Nat
  /\ Cardinality(Calls) \in Nat
  /\ \A b \in Bodies : b.validBefore \in Nat
BY EnvelopeConstants, SettlementConstants, FS_CardinalityType

\* One turn more in front of a call costs MaxHold more.
LEMMA SlackStep ==
  /\ \A i \in Int : Slack(i) \in Int /\ Slack(i) = Slack(i + 1) + MaxHold
  /\ \A i \in Int : i <= Cardinality(Calls) => Slack(i) >= 0
<1>1. \A x \in Int, h \in Nat : x * h \in Int /\ x * h = (x - 1) * h + h
  OBVIOUS
<1>2. \A x \in Nat, h \in Nat : x * h >= 0
  OBVIOUS
<1>3. \A i \in Int : Slack(i) \in Int /\ Slack(i) = Slack(i + 1) + MaxHold
  <2>. TAKE i \in Int
  <2>1. Cardinality(Calls) - i \in Int
        /\ Cardinality(Calls) - (i + 1) = (Cardinality(Calls) - i) - 1
    BY Numbers
  <2>. QED
    BY <2>1, <1>1, Numbers DEF Slack
<1>4. \A i \in Int : i <= Cardinality(Calls) => Slack(i) >= 0
  <2>. TAKE i \in Int
  <2>. HAVE i <= Cardinality(Calls)
  <2>1. Cardinality(Calls) - i \in Nat
    BY Numbers
  <2>. QED
    BY <2>1, <1>2, Numbers DEF Slack
<1>. QED
  BY <1>3, <1>4

\* The verdict on a settle call is a refusal, or the body is sound and timely.
LEMMA SettleVerdicts ==
  ASSUME NEW b \in Bodies, NEW at \in Nat
  PROVE  /\ SettleVerdict(b, at) \in Refusals \cup {"ok"}
         /\ SettleVerdict(b, at) \notin {"none", "accepted", "processing"}
         /\ SettleVerdict(b, at) = "ok" =>
              Sound(b) /\ at <= b.validBefore + Skew
<1>1. SettleVerdict(b, at) \in Refusals \cup {"ok"}
  BY DEF SettleVerdict, Refusals
<1>2. SettleVerdict(b, at) \notin {"none", "accepted", "processing"}
  BY VerdictCodes DEF SettleVerdict, EnvelopeCodes, HandlerCodes
<1>3. ASSUME SettleVerdict(b, at) = "ok"
      PROVE  Sound(b) /\ at <= b.validBefore + Skew
  <2>1. EnvelopeVerdict(b) = "ok" /\ InWindow(b, at) /\ HandlerVerdict(b) = "ok"
    BY <1>3 DEF SettleVerdict
  <2>2. Sound(b)
    BY <2>1, VerdictsMeanSound
  <2>3. at <= b.validBefore + Skew
    BY <2>1, Numbers DEF InWindow, SaturatingSub
  <2>. QED
    BY <2>2, <2>3
<1>. QED
  BY <1>1, <1>2, <1>3

\* No success, and not the open answer, is a refusal.
LEMMA NoRefusal ==
  {"none", "accepted", "processing", "chain_transport"} \cap Refusals = {}
BY VerdictCodes DEF Refusals, EnvelopeCodes, HandlerCodes

-----------------------------------------------------------------------------
(* The calls.                                                              *)

\* No call has come and nobody is at the mutex.
LEMMA InitIInv == Init => IInv
<1>. SUFFICES ASSUME Init PROVE IInv
  OBVIOUS
<1>1. Len(queue) = 0 /\ queue \in Seq(Calls)
  BY DEF Init
<1>2. TypeOK
  BY <1>1 DEF Init, TypeOK, Stages, Answers
<1>3. /\ StageInv /\ AcceptedIncluded /\ RefusalsSubmitNothing
      /\ NoNoteSpentTwice
  BY DEF Init, StageInv, AcceptedIncluded, RefusalsSubmitNothing,
         NoNoteSpentTwice, Waiting
<1>4. QueueInv /\ TimeInv
  BY <1>1 DEF Init, QueueInv, TimeInv, Waiting
<1>. QED
  BY <1>2, <1>3, <1>4 DEF IInv, CallInv

\* Leaving the queue keeps it a queue of calls, in which everybody behind c
\* moves up by one place.
LEMMA LeaveMovesUp ==
  ASSUME queue \in Seq(Calls), QueueInv, NEW c \in Calls, Leave(c)
  PROVE  /\ queue' \in Seq(Calls)
         /\ \/ /\ queue' = queue
               /\ \A i \in 1 .. Len(queue) : queue[i] # c
            \/ \E k \in 1 .. Len(queue) :
                 /\ queue[k] = c
                 /\ Len(queue') = Len(queue) - 1
                 /\ \A i \in 1 .. Len(queue') :
                      queue'[i] = IF i < k THEN queue[i] ELSE queue[i + 1]
<1>1. DOMAIN queue = 1 .. Len(queue)
  OBVIOUS
<1>2. CASE \A i \in DOMAIN queue : queue[i] # c
  BY <1>1, <1>2 DEF Leave
<1>3. CASE \E i \in DOMAIN queue : queue[i] = c
  <2> DEFINE k == Place(c)
  <2>1. k \in 1 .. Len(queue) /\ queue[k] = c
    BY <1>1, <1>3 DEF Place
  <2>2. queue' = SubSeq(queue, 1, k - 1) \o SubSeq(queue, k + 1, Len(queue))
    BY <1>3 DEF Leave, RemoveAt
  <2>. HIDE DEF k
  <2> DEFINE front == SubSeq(queue, 1, k - 1)
             back == SubSeq(queue, k + 1, Len(queue))
  <2>3. /\ Len(queue) \in Nat /\ k \in Int
        /\ \A i \in 1 .. Len(queue) : queue[i] \in Calls
    BY <2>1
  <2>4. /\ front \in Seq(Calls) /\ Len(front) = k - 1
        /\ \A i \in 1 .. k - 1 : front[i] = queue[i]
    BY <2>1, <2>3, SubSeqProperties
  <2>5. /\ back \in Seq(Calls) /\ Len(back) = Len(queue) - k
        /\ \A i \in 1 .. Len(queue) - k : back[i] = queue[k + i]
    BY <2>1, <2>3, SubSeqProperties
  <2>8. queue' = front \o back
    BY <2>2
  <2>. HIDE DEF front, back
  <2>6. /\ queue' \in Seq(Calls)
        /\ Len(queue') = Len(queue) - 1
        /\ \A i \in 1 .. Len(queue) - 1 :
             queue'[i] = IF i <= k - 1 THEN front[i] ELSE back[i - (k - 1)]
    <3>1. /\ front \o back \in Seq(Calls)
          /\ Len(front \o back) = Len(front) + Len(back)
          /\ \A i \in 1 .. Len(front) + Len(back) :
               (front \o back)[i] =
                 IF i <= Len(front) THEN front[i] ELSE back[i - Len(front)]
      BY <2>4, <2>5, ConcatProperties
    <3>2. Len(front) + Len(back) = Len(queue) - 1
      BY <2>3, <2>4, <2>5
    <3>. QED
      BY <2>8, <2>4, <3>1, <3>2
  <2>7. ASSUME NEW i \in 1 .. Len(queue')
        PROVE  queue'[i] = IF i < k THEN queue[i] ELSE queue[i + 1]
    <3>1. CASE i < k
      BY <3>1, <2>1, <2>4, <2>6
    <3>2. CASE i >= k
      <4>1. i - (k - 1) \in 1 .. Len(queue) - k /\ k + (i - (k - 1)) = i + 1
        BY <3>2, <2>1, <2>6
      <4>. QED
        BY <3>2, <4>1, <2>1, <2>5, <2>6
    <3>. QED
      BY <3>1, <3>2, <2>1
  <2>. QED
    BY <2>1, <2>6, <2>7
<1>. QED
  BY <1>2, <1>3

\* Every step keeps a call's stage, its answer and its effects in agreement.
LEMMA NextCallInv == IInv /\ [Next]_vars => CallInv'
<1>. SUFFICES ASSUME IInv, [Next]_vars
              PROVE  CallInv'
  OBVIOUS
<1>. USE DEF IInv, CallInv
<1>0. /\ now \in Nat
      /\ stage \in [Calls -> Stages]
      /\ body \in [Calls -> Bodies \cup {NoBody}]
      /\ answer \in [Calls -> Answers]
      /\ sent \subseteq Calls
  BY DEF TypeOK
<1>1. ASSUME NEW c \in Calls, NEW b \in Bodies, Receive(c, b)
      PROVE  CallInv'
  <2> DEFINE v == SettleVerdict(b, now)
  <2>1. /\ v \in Refusals \cup {"ok"}
        /\ v \notin {"none", "accepted", "processing"}
        /\ v = "ok" => Sound(b)
    BY <1>0, SettleVerdicts
  <2>2. /\ stage[c] = "idle"
        /\ stage' = [stage EXCEPT ![c] = IF v = "ok" THEN "bazaar" ELSE "answered"]
        /\ answer' = [answer EXCEPT ![c] = IF v = "ok" THEN "none" ELSE v]
        /\ body' = [body EXCEPT ![c] = b]
        /\ checkedAt' = [checkedAt EXCEPT ![c] = now]
        /\ UNCHANGED <<now, header, queue, heldSince, sent, catalogued, mempool, chain>>
    BY <1>1 DEF Receive, Move, lockVars, nodeVars
  <2>. HIDE DEF v
  <2>3. TypeOK'
    BY <2>1, <2>2 DEF TypeOK, Stages, Answers
  <2>4. StageInv'
    BY <1>0, <2>1, <2>2 DEF StageInv, Waiting
  <2>5. AcceptedIncluded'
    BY <1>0, <2>1, <2>2 DEF AcceptedIncluded
  <2>6. RefusalsSubmitNothing'
    BY <1>0, <2>1, <2>2 DEF RefusalsSubmitNothing, StageInv
  <2>. QED
    BY <2>2, <2>3, <2>4, <2>5, <2>6 DEF NoNoteSpentTwice
<1>2. ASSUME NEW c \in Calls, Catalogue(c)
      PROVE  CallInv'
  <2>1. /\ stage[c] = "bazaar"
        /\ body[c] \in Bodies /\ Sound(body[c])
        /\ c \notin sent
        /\ header' \in [Calls -> {"absent", "success", "rejected"}]
        /\ catalogued' \in {catalogued, catalogued \cup {body[c]}}
        /\ UNCHANGED <<now, body, checkedAt, sent, mempool, chain>>
    BY <1>0, <1>2 DEF Catalogue, ProcessBazaar, TypeOK, StageInv, nodeVars
  <2>2. \/ /\ stage' = [stage EXCEPT ![c] = "answered"]
           /\ \E v \in {"chain_unimplemented", "chain_rejected"} :
                answer' = [answer EXCEPT ![c] = v]
           /\ UNCHANGED <<queue, heldSince>>
        \/ /\ stage' = [stage EXCEPT ![c] = "lock"]
           /\ body[c].rawTx \in Txs
           /\ queue' = Append(queue, c)
           /\ heldSince' \in {now, heldSince}
           /\ UNCHANGED answer
    BY <1>2 DEF Catalogue, Answer, Move, Enqueue, lockVars
  <2>3. TypeOK'
    <3>1. queue' \in Seq(Calls) /\ heldSince' \in Nat
      <4>1. Append(queue, c) \in Seq(Calls)
        BY AppendProperties DEF TypeOK
      <4>2. queue \in Seq(Calls) /\ heldSince \in Nat /\ now \in Nat
        BY DEF TypeOK
      <4>. QED
        BY <2>2, <4>1, <4>2
    <3>2. stage' \in [Calls -> Stages] /\ answer' \in [Calls -> Answers]
      BY <2>2 DEF TypeOK, Stages, Answers, Refusals
    <3>3. \A d \in Calls : stage'[d] # "idle" => body[d] \in Bodies
      BY <1>0, <2>1, <2>2 DEF TypeOK
    <3>. QED
      BY <2>1, <3>1, <3>2, <3>3 DEF TypeOK
  <2>4. StageInv'
    BY <1>0, <2>1, <2>2 DEF StageInv, Waiting
  <2>5. AcceptedIncluded'
    BY <1>0, <2>1, <2>2 DEF AcceptedIncluded
  <2>6. RefusalsSubmitNothing'
    BY <1>0, <2>1, <2>2 DEF RefusalsSubmitNothing
  <2>. QED
    BY <2>1, <2>3, <2>4, <2>5, <2>6 DEF NoNoteSpentTwice
<1>3. ASSUME NEW c \in Calls, Submit(c)
      PROVE  CallInv'
  <2>1. /\ stage[c] = "lock" /\ c \notin sent
        /\ body[c] \in Bodies /\ Sound(body[c]) /\ body[c].rawTx \in Txs
        /\ UNCHANGED <<now, body, checkedAt, header, catalogued, chain>>
    BY <1>0, <1>3 DEF Submit, Answer, Move, TypeOK, StageInv, Waiting
  <2>2. /\ queue' \in Seq(Calls) /\ heldSince' \in Nat
        /\ mempool' \in {mempool, mempool \cup {body[c].rawTx}}
        /\ sent' \in {sent, sent \cup {c}}
    BY <1>3, LeaveMovesUp
    DEF Submit, MaybeDeliver, Deliver, Leave, TypeOK, lockVars
  <2>3. \/ /\ stage' = [stage EXCEPT ![c] = "poll"]
           /\ c \in sent' /\ UNCHANGED answer
        \/ /\ stage' = [stage EXCEPT ![c] = "answered"]
           /\ answer' = [answer EXCEPT ![c] = "chain_transport"]
    BY <1>3 DEF Submit, Deliver, Answer, Move
  <2>4. TypeOK'
    BY <2>1, <2>2, <2>3 DEF TypeOK, Stages, Answers
  <2>5. StageInv'
    BY <1>0, <2>1, <2>2, <2>3 DEF StageInv, Waiting
  <2>6. AcceptedIncluded'
    BY <1>0, <2>1, <2>3 DEF AcceptedIncluded
  <2>7. RefusalsSubmitNothing'
    BY <1>0, <2>1, <2>2, <2>3, NoRefusal DEF RefusalsSubmitNothing, StageInv
  <2>. QED
    BY <2>1, <2>4, <2>5, <2>6, <2>7 DEF NoNoteSpentTwice
<1>4. ASSUME NEW c \in Calls, Poll(c)
      PROVE  CallInv'
  <2>1. /\ stage[c] = "poll" /\ c \in sent
        /\ stage' = [stage EXCEPT ![c] = "answered"]
        /\ \E v \in {"accepted", "processing", "chain_transport"} :
             /\ answer' = [answer EXCEPT ![c] = v]
             /\ v = "accepted" => body[c].rawTx \in chain
        /\ UNCHANGED <<now, body, checkedAt, header, sent, catalogued, mempool, chain>>
    BY <1>0, <1>4 DEF Poll, Answer, Move, StageInv, nodeVars
  <2>2. queue' \in Seq(Calls) /\ heldSince' \in Nat
    BY <1>4, LeaveMovesUp DEF Poll, Leave, TypeOK
  <2>3. TypeOK'
    BY <2>1, <2>2 DEF TypeOK, Stages, Answers
  <2>4. StageInv'
    BY <1>0, <2>1 DEF StageInv, Waiting
  <2>5. AcceptedIncluded'
    BY <1>0, <2>1 DEF AcceptedIncluded
  <2>6. RefusalsSubmitNothing'
    BY <1>0, <2>1, NoRefusal DEF RefusalsSubmitNothing
  <2>. QED
    BY <2>1, <2>3, <2>4, <2>5, <2>6 DEF NoNoteSpentTwice
<1>5. ASSUME NEW c \in Calls, Clear(c), sent' = sent \ {c},
             queue' \in Seq(Calls), heldSince' \in Nat,
             catalogued' \subseteq Bodies, mempool' \subseteq Txs,
             UNCHANGED <<now, chain>>
      PROVE  CallInv'
  <2>1. /\ stage' = [stage EXCEPT ![c] = "idle"]
        /\ body' = [body EXCEPT ![c] = NoBody]
        /\ answer' = [answer EXCEPT ![c] = "none"]
    BY <1>5 DEF Clear
  <2>2. TypeOK'
    BY <1>5 DEF Clear, TypeOK, Stages, Answers
  <2>3. StageInv'
    BY <1>0, <1>5, <2>1 DEF StageInv, Waiting
  <2>4. AcceptedIncluded'
    BY <1>0, <1>5, <2>1 DEF AcceptedIncluded
  <2>5. RefusalsSubmitNothing'
    BY <1>0, <1>5, <2>1 DEF RefusalsSubmitNothing
  <2>. QED
    BY <1>5, <2>2, <2>3, <2>4, <2>5 DEF NoNoteSpentTwice
<1>6. ASSUME NEW c \in Calls, Finish(c)
      PROVE  CallInv'
  BY <1>5, <1>6 DEF Finish, lockVars, nodeVars, TypeOK
<1>7. ASSUME NEW c \in Calls, Cancel(c)
      PROVE  CallInv'
  <2>1. queue' \in Seq(Calls) /\ heldSince' \in Nat
    BY <1>7, LeaveMovesUp DEF Cancel, Leave, TypeOK
  <2>2. stage[c] \in {"bazaar", "lock", "poll"} /\ body[c] \in Bodies
        /\ Sound(body[c]) /\ (Waiting(c) => body[c].rawTx \in Txs)
    BY <1>0, <1>7 DEF Cancel, TypeOK, StageInv
  <2>3. catalogued' \subseteq Bodies
    BY <1>7, <2>2 DEF Cancel, TypeOK
  <2>4. mempool' \subseteq Txs
    BY <1>7, <2>2 DEF Cancel, Waiting, TypeOK
  <2>. QED
    BY <1>5, <1>7, <2>1, <2>3, <2>4 DEF Cancel
<1>8. ASSUME NEW tx \in Txs, Include(tx) \/ Drop(tx)
      PROVE  CallInv'
  <2>1. /\ UNCHANGED <<now, stage, body, checkedAt, header, answer, sent,
                       queue, heldSince, catalogued>>
        /\ mempool' \subseteq mempool
        /\ chain \subseteq chain' /\ chain' \subseteq chain \cup mempool
    BY <1>8 DEF Include, Drop, callVars, lockVars
  <2>2. TypeOK'
    BY <2>1 DEF TypeOK
  <2>3. NoNoteSpentTwice'
    BY <1>8 DEF NoNoteSpentTwice, Include, Drop
  <2>. QED
    BY <2>1, <2>2, <2>3
    DEF StageInv, Waiting, AcceptedIncluded, RefusalsSubmitNothing
<1>9. CASE Tick
  <2>1. TypeOK'
    BY <1>9 DEF Tick, TypeOK, callVars, lockVars, nodeVars
  <2>. QED
    BY <1>9, <2>1
    DEF Tick, StageInv, Waiting, AcceptedIncluded, RefusalsSubmitNothing,
        NoNoteSpentTwice, callVars, lockVars, nodeVars
<1>10. CASE Restart
  <2>1. TypeOK'
    BY <1>10 DEF Restart, TypeOK, nodeVars, Stages, Answers
  <2>2. StageInv' /\ AcceptedIncluded' /\ RefusalsSubmitNothing'
    BY <1>10 DEF Restart, StageInv, Waiting, AcceptedIncluded,
                 RefusalsSubmitNothing
  <2>. QED
    BY <1>10, <2>1, <2>2 DEF Restart, NoNoteSpentTwice, nodeVars
<1>11. CASE UNCHANGED vars
  <2>1. TypeOK'
    BY <1>11 DEF vars, TypeOK, callVars, lockVars, nodeVars
  <2>. QED
    BY <1>11, <2>1
    DEF vars, StageInv, Waiting, AcceptedIncluded, RefusalsSubmitNothing,
        NoNoteSpentTwice, callVars, lockVars, nodeVars
<1>. QED
  BY <1>1, <1>2, <1>3, <1>4, <1>6, <1>7, <1>8, <1>9, <1>10, <1>11
  DEF Next, Step, Progress

-----------------------------------------------------------------------------
(* The queue and the clock.                                                *)

\* What neither asks for the mutex nor gives it up.
LEMMA QueueUntouched ==
  ASSUME QueueInv, queue' = queue,
         \A c \in Calls : Waiting(c)' <=> Waiting(c),
         \A c \in Calls : stage'[c] = "poll" => stage[c] = "poll"
  PROVE  QueueInv'
BY DEF QueueInv

\* A call that leaves the mutex leaves the others in their order.
LEMMA QueueLeft ==
  ASSUME queue \in Seq(Calls), QueueInv, NEW c \in Calls, Leave(c),
         ~Waiting(c)',
         \A d \in Calls \ {c} : stage'[d] = stage[d]
  PROVE  QueueInv'
<1>1. Len(queue) \in Nat
  OBVIOUS
<1>2. \A d \in Calls \ {c} : Waiting(d)' <=> Waiting(d)
  BY DEF Waiting
<1>3. CASE queue' = queue /\ \A i \in 1 .. Len(queue) : queue[i] # c
  BY <1>2, <1>3 DEF QueueInv, Waiting
<1>4. ASSUME NEW k \in 1 .. Len(queue), queue[k] = c,
             queue' \in Seq(Calls), Len(queue') = Len(queue) - 1,
             \A i \in 1 .. Len(queue') :
               queue'[i] = IF i < k THEN queue[i] ELSE queue[i + 1]
      PROVE  QueueInv'
  <2>1. \A i, j \in 1 .. Len(queue') : queue'[i] = queue'[j] => i = j
    <3>. SUFFICES ASSUME NEW i \in 1 .. Len(queue'), NEW j \in 1 .. Len(queue'),
                         queue'[i] = queue'[j]
                  PROVE  i = j
      OBVIOUS
    <3> DEFINE m == IF i < k THEN i ELSE i + 1
               n == IF j < k THEN j ELSE j + 1
    <3>1. /\ m \in 1 .. Len(queue) /\ n \in 1 .. Len(queue)
          /\ queue'[i] = queue[m] /\ queue'[j] = queue[n]
      BY <1>1, <1>4
    <3>. HIDE DEF m, n
    <3>2. m = n
      <4>1. queue[m] = queue[n]
        BY <3>1
      <4>2. \A x, y \in 1 .. Len(queue) : queue[x] = queue[y] => x = y
        BY DEF QueueInv
      <4>. QED
        BY <3>1, <4>1, <4>2
    <3>3. i \in Int /\ j \in Int /\ k \in Int
      BY <1>1, <1>4
    <3>4. (IF i < k THEN i ELSE i + 1) = (IF j < k THEN j ELSE j + 1)
      BY <3>2 DEF m, n
    <3>5. CASE i < k /\ j < k
      BY <3>4, <3>5
    <3>6. CASE i < k /\ ~(j < k)
      BY <3>3, <3>4, <3>6
    <3>7. CASE ~(i < k) /\ j < k
      BY <3>3, <3>4, <3>7
    <3>8. CASE ~(i < k) /\ ~(j < k)
      BY <3>3, <3>4, <3>8
    <3>. QED
      BY <3>5, <3>6, <3>7, <3>8
  <2>2. \A d \in Calls \ {c} : (\E i \in 1 .. Len(queue') : queue'[i] = d)
                              <=> \E i \in 1 .. Len(queue) : queue[i] = d
    <3>. TAKE d \in Calls \ {c}
    <3>1. ASSUME NEW i \in 1 .. Len(queue'), queue'[i] = d
          PROVE  \E j \in 1 .. Len(queue) : queue[j] = d
      <4>1. i \in 1 .. Len(queue) /\ i + 1 \in 1 .. Len(queue)
        BY <1>1, <1>4
      <4>. QED
        BY <1>4, <3>1, <4>1
    <3>2. ASSUME NEW j \in 1 .. Len(queue), queue[j] = d
          PROVE  \E i \in 1 .. Len(queue') : queue'[i] = d
      <4>1. CASE j < k
        <5>1. j \in 1 .. Len(queue')
          BY <4>1, <1>1, <1>4
        <5>. QED
          BY <5>1, <4>1, <3>2, <1>4
      <4>2. CASE j > k
        <5>1. j - 1 \in 1 .. Len(queue') /\ ~(j - 1 < k) /\ (j - 1) + 1 = j
          BY <4>2, <1>1, <1>4
        <5>. QED
          BY <5>1, <3>2, <1>4
      <4>3. j # k
        BY <1>4, <3>2
      <4>. QED
        BY <4>1, <4>2, <4>3, <1>1
    <3>. QED
      BY <3>1, <3>2
  <2>3. ~\E i \in 1 .. Len(queue') : queue'[i] = c
    <3>. SUFFICES ASSUME NEW i \in 1 .. Len(queue'), queue'[i] = c
                  PROVE  FALSE
      OBVIOUS
    <3>1. i \in 1 .. Len(queue) /\ i + 1 \in 1 .. Len(queue)
      BY <1>1, <1>4
    <3>. QED
      BY <1>1, <1>4, <3>1 DEF QueueInv
  <2>4. ASSUME NEW d \in Calls, stage'[d] = "poll"
        PROVE  Len(queue') > 0 /\ queue'[1] = d
    <3>1. d # c
      BY <2>4 DEF Waiting
    <3>2. stage[d] = "poll" /\ Len(queue) > 0 /\ queue[1] = d
      BY <2>4, <3>1 DEF QueueInv
    <3>3. k > 1
      BY <1>4, <3>1, <3>2
    <3>4. 1 \in 1 .. Len(queue')
      BY <1>1, <1>4, <3>3
    <3>. QED
      BY <1>4, <3>2, <3>3, <3>4
  <2>. QED
    BY <1>2, <2>1, <2>2, <2>3, <2>4 DEF QueueInv
<1>. QED
  BY <1>3, <1>4, LeaveMovesUp

\* A call that joins the mutex is behind all the others.
LEMMA QueueJoined ==
  ASSUME queue \in Seq(Calls), QueueInv, NEW c \in Calls,
         stage[c] = "bazaar", Waiting(c)', stage'[c] # "poll",
         queue' = Append(queue, c),
         \A d \in Calls \ {c} : stage'[d] = stage[d]
  PROVE  QueueInv' /\ Len(queue) < Cardinality(Calls)
<1>1. /\ Len(queue) \in Nat /\ Len(queue') = Len(queue) + 1
      /\ queue'[Len(queue) + 1] = c
      /\ \A i \in 1 .. Len(queue) : queue'[i] = queue[i] /\ queue[i] \in Calls
  BY AppendProperties
<1>2. \A d \in Calls \ {c} : Waiting(d)' <=> Waiting(d)
  BY DEF Waiting
<1>3. \A i \in 1 .. Len(queue) : queue[i] # c
  BY DEF QueueInv, Waiting
<1>4. \A i \in 1 .. Len(queue') : i \in 1 .. Len(queue) \/ i = Len(queue) + 1
  BY <1>1
<1>5. \A i, j \in 1 .. Len(queue') : queue'[i] = queue'[j] => i = j
  BY <1>1, <1>3, <1>4 DEF QueueInv
<1>6. QueueInv'
  <2>1. \A d \in Calls : (\E i \in 1 .. Len(queue') : queue'[i] = d)
                       <=> d = c \/ \E i \in 1 .. Len(queue) : queue[i] = d
    BY <1>1, <1>4
  <2>2. \A d \in Calls : stage'[d] = "poll" => Len(queue') > 0 /\ queue'[1] = d
    BY <1>1 DEF QueueInv
  <2>. QED
    BY <1>2, <1>5, <2>1, <2>2 DEF QueueInv
<1>7. Len(queue) < Cardinality(Calls)
  <2>. SUFFICES ASSUME Cardinality(Calls) <= Len(queue)
                PROVE  FALSE
    BY <1>1, Numbers
  <2> DEFINE places == 1 .. Len(queue) + 1
             who == [i \in places |-> queue'[i]]
  <2>1. IsFiniteSet(places) /\ Cardinality(places) = Len(queue) + 1
    BY <1>1, FS_Interval
  <2>2. who \in [places -> Calls]
    BY <1>1, <1>4
  <2>3. IsFiniteSet(Calls) /\ Cardinality(Calls) < Cardinality(places)
    BY <2>1, <1>1, Numbers, SettlementConstants
  <2>. HIDE DEF who, places
  <2>4. \E i, j \in places : i # j /\ who[i] = who[j]
    BY <2>1, <2>2, <2>3, FS_PigeonHole
  <2>. QED
    BY <2>4, <1>1, <1>5 DEF who, places
<1>. QED
  BY <1>6, <1>7

\* A holder's turn ends: who waited for it has been waiting MaxHold longer,
\* and has one place less in front.
LEMMA TurnEnds ==
  ASSUME NEW h \in Int, NEW h2 \in Int, NEW m \in Int, NEW a \in Int,
         NEW u \in Int, NEW s \in Int, NEW s2 \in Int,
         h <= a + u + s, s2 = s + m, h2 <= h + m
  PROVE  h2 <= a + u + s2
OBVIOUS

\* When a call leaves, those behind it are one turn closer, within their bounds.
LEMMA TimeLeft ==
  ASSUME IInv, NEW c \in Calls, Leave(c), now' = now,
         \A d \in Calls \ {c} :
           checkedAt'[d] = checkedAt[d] /\ stage'[d] = stage[d] /\ body'[d] = body[d],
         stage'[c] \notin {"bazaar", "lock"}
  PROVE  TimeInv'
<1>1. /\ queue \in Seq(Calls) /\ Len(queue) \in Nat
      /\ now \in Nat /\ heldSince \in Nat
      /\ \A d \in Calls : checkedAt[d] \in Nat
      /\ \A i \in 1 .. Len(queue) : queue[i] \in Calls
  BY DEF IInv, CallInv, TypeOK
<1>2. \A d \in Calls :
        /\ stage'[d] = "bazaar" => now' <= checkedAt'[d] + MaxUpsert
        /\ stage'[d] \in {"bazaar", "lock"} =>
             checkedAt'[d] <= body'[d].validBefore + Skew
  BY DEF IInv, TimeInv
<1>3. Len(queue) > 0 => (Holds(c) <=> queue[1] = c)
  BY <1>1 DEF Holds
<1>4. CASE queue' = queue /\ \A i \in 1 .. Len(queue) : queue[i] # c
  <2>1. heldSince' = heldSince
    BY <1>1, <1>3, <1>4 DEF Leave, Holds
  <2>2. \A i \in 1 .. Len(queue) : checkedAt'[queue[i]] = checkedAt[queue[i]]
    BY <1>1, <1>4
  <2>. QED
    BY <1>2, <1>4, <2>1, <2>2 DEF IInv, TimeInv, Slack
<1>5. ASSUME NEW k \in 1 .. Len(queue), queue[k] = c,
             Len(queue') = Len(queue) - 1,
             \A i \in 1 .. Len(queue') :
               queue'[i] = IF i < k THEN queue[i] ELSE queue[i + 1]
      PROVE  TimeInv'
  <2>1. heldSince <= now /\ now <= heldSince + MaxHold
    BY <1>1, <1>5 DEF IInv, TimeInv
  <2>2. heldSince' = (IF k = 1 THEN now ELSE heldSince)
    BY <1>1, <1>3, <1>5 DEF Leave, IInv, QueueInv
  <2>3. ASSUME NEW i \in 1 .. Len(queue')
        PROVE  heldSince' <= checkedAt'[queue'[i]] + MaxUpsert + Slack(i)
    <3> DEFINE j == IF i < k THEN i ELSE i + 1
    <3>1. /\ j \in 1 .. Len(queue) /\ j # k
          /\ queue'[i] = queue[j]
          /\ k = 1 => j = i + 1
          /\ i \in Int /\ j \in {i, i + 1}
      BY <1>1, <1>5
    <3>. HIDE DEF j
    <3>2. queue[j] # c
      BY <1>5, <3>1 DEF IInv, QueueInv
    <3>3. checkedAt'[queue'[i]] = checkedAt[queue[j]] /\ checkedAt[queue[j]] \in Nat
      BY <1>1, <3>1, <3>2
    <3>4. heldSince <= checkedAt[queue[j]] + MaxUpsert + Slack(j)
      BY <3>1 DEF IInv, TimeInv
    <3>5. /\ Slack(i) \in Int /\ Slack(j) \in Int
          /\ Slack(i) = Slack(i + 1) + MaxHold
          /\ Slack(j) \in {Slack(i), Slack(i + 1)}
          /\ k = 1 => Slack(j) = Slack(i + 1)
      BY <3>1, SlackStep
    <3>6. CASE k = 1
      <4>1. heldSince' = now
        BY <2>2, <3>6
      <4>2. heldSince' <= heldSince + MaxHold
        BY <4>1, <2>1
      <4>3. Slack(j) = Slack(i + 1)
        BY <3>5, <3>6
      <4>4. Slack(j) \in Int /\ Slack(i) \in Int /\ Slack(i) = Slack(j) + MaxHold
        BY <4>3, <3>5
      <4>5. /\ heldSince \in Int /\ heldSince' \in Int /\ MaxHold \in Int
            /\ MaxUpsert \in Int /\ checkedAt[queue[j]] \in Int
        BY <4>1, <1>1, <3>3, Numbers
      <4>6. heldSince' <= checkedAt[queue[j]] + MaxUpsert + Slack(i)
        <5>1. PICK x \in Int, y \in Int, a \in Int, q \in Int, r \in Int :
                /\ x = heldSince /\ y = heldSince' /\ a = checkedAt[queue[j]]
                /\ q = Slack(j) /\ r = Slack(i)
          BY <4>4, <4>5, Zenon
        <5>2. x <= a + MaxUpsert + q /\ r = q + MaxHold /\ y <= x + MaxHold
          BY <3>4, <4>2, <4>4, <5>1
        <5>3. y <= a + MaxUpsert + r
          BY <4>5, <5>2, TurnEnds
        <5>. QED
          BY <5>1, <5>3
      <4>. QED
        BY <4>6, <3>3
    <3>7. CASE k # 1
      <4>1. Slack(j) <= Slack(i)
        BY <3>5, Numbers
      <4>2. heldSince' = heldSince
        BY <2>2, <3>7
      <4>3. heldSince <= checkedAt[queue[j]] + MaxUpsert + Slack(i)
        BY <4>1, <3>3, <3>4, <3>5, <1>1, Numbers, SMTT(30)
      <4>. QED
        BY <4>2, <4>3, <3>3
    <3>. QED
      BY <3>6, <3>7
  <2>4. heldSince' <= now' /\ now' <= heldSince' + MaxHold
    BY <2>1, <2>2, <1>1, Numbers
  <2>. QED
    BY <1>2, <2>3, <2>4 DEF TimeInv, Slack
<1>. QED
  BY <1>1, <1>4, <1>5, LeaveMovesUp DEF IInv

\* A step of c that leaves the mutex alone.
LEMMA TimeUntouched ==
  ASSUME IInv, NEW c \in Calls,
         queue' = queue, heldSince' = heldSince, now' = now,
         \A d \in Calls \ {c} :
           checkedAt'[d] = checkedAt[d] /\ stage'[d] = stage[d] /\ body'[d] = body[d],
         stage'[c] = "bazaar" => now <= checkedAt'[c] + MaxUpsert,
         stage'[c] \in {"bazaar", "lock"} =>
           checkedAt'[c] <= body'[c].validBefore + Skew,
         Waiting(c) => checkedAt'[c] = checkedAt[c]
  PROVE  TimeInv'
<1>1. \A i \in 1 .. Len(queue) : queue[i] \in Calls
  BY DEF IInv, CallInv, TypeOK
<1>2. \A i \in 1 .. Len(queue) : checkedAt'[queue'[i]] = checkedAt[queue[i]]
  BY <1>1 DEF IInv, QueueInv
<1>3. \A d \in Calls :
        /\ stage'[d] = "bazaar" => now' <= checkedAt'[d] + MaxUpsert
        /\ stage'[d] \in {"bazaar", "lock"} =>
             checkedAt'[d] <= body'[d].validBefore + Skew
  BY DEF IInv, TimeInv
<1>4. Len(queue') > 0 => heldSince' <= now' /\ now' <= heldSince' + MaxHold
  BY DEF IInv, TimeInv
<1>5. \A i \in 1 .. Len(queue') :
        heldSince' <= checkedAt'[queue'[i]] + MaxUpsert + Slack(i)
  BY <1>2 DEF IInv, TimeInv
<1>. QED
  BY <1>3, <1>4, <1>5 DEF TimeInv, Slack

\* c joins the queue: the bound on its upsert, and the places that the other
\* calls leave free behind it, pay for its wait.
LEMMA TimeJoined ==
  ASSUME IInv, NEW c \in Calls, stage[c] = "bazaar", stage'[c] = "lock",
         Enqueue(c), now' = now, checkedAt' = checkedAt, body' = body,
         \A d \in Calls \ {c} : stage'[d] = stage[d],
         Len(queue) < Cardinality(Calls)
  PROVE  TimeInv'
<1>1. /\ queue \in Seq(Calls) /\ Len(queue) \in Nat
      /\ now \in Nat /\ heldSince \in Nat /\ checkedAt[c] \in Nat
  BY DEF IInv, CallInv, TypeOK
<1>2. /\ Len(queue') = Len(queue) + 1 /\ queue'[Len(queue) + 1] = c
      /\ \A i \in 1 .. Len(queue) : queue'[i] = queue[i]
  BY <1>1, AppendProperties DEF Enqueue
<1>3. heldSince' = (IF Len(queue) = 0 THEN now ELSE heldSince)
  BY <1>1, EmptySeq DEF Enqueue
<1>4. heldSince' <= now /\ now <= heldSince' + MaxHold
  BY <1>1, <1>3, Numbers DEF IInv, TimeInv
<1>5. ASSUME NEW i \in 1 .. Len(queue')
      PROVE  heldSince' <= checkedAt'[queue'[i]] + MaxUpsert + Slack(i)
  <2>1. CASE i \in 1 .. Len(queue)
    <3>1. heldSince' = heldSince
      BY <1>1, <1>3, <2>1
    <3>. QED
      BY <1>2, <2>1, <3>1 DEF IInv, TimeInv
  <2>2. CASE i = Len(queue) + 1
    <3>1. now <= checkedAt[c] + MaxUpsert
      BY DEF IInv, TimeInv
    <3>2. i \in Int /\ i <= Cardinality(Calls)
      BY <1>1, <2>2, Numbers
    <3>3. Slack(i) \in Int /\ Slack(i) >= 0
      BY <3>2, SlackStep
    <3>4. heldSince' \in Nat
      BY <1>1, <1>3
    <3>5. heldSince' <= checkedAt[c] + MaxUpsert + Slack(i)
      BY <1>1, <1>4, <3>1, <3>3, <3>4, Numbers
    <3>. QED
      BY <1>2, <2>2, <3>5
  <2>. QED
    BY <1>1, <1>2, <2>1, <2>2
<1>6. \A d \in Calls :
        /\ stage'[d] = "bazaar" => now' <= checkedAt'[d] + MaxUpsert
        /\ stage'[d] \in {"bazaar", "lock"} =>
             checkedAt'[d] <= body'[d].validBefore + Skew
  BY DEF IInv, TimeInv
<1>. QED
  BY <1>4, <1>5, <1>6 DEF TimeInv, Slack

\* Time passes only while the upserts and the holder are within their bounds.
LEMMA TimeTicks ==
  ASSUME IInv, Tick
  PROVE  TimeInv'
<1>1. /\ now \in Nat /\ heldSince \in Nat /\ queue \in Seq(Calls)
      /\ \A c \in Calls : checkedAt[c] \in Nat
  BY DEF IInv, CallInv, TypeOK
<1>2. /\ now' = now + 1
      /\ UNCHANGED <<stage, body, checkedAt, queue, heldSince>>
  BY DEF Tick, callVars, lockVars
<1>3. ASSUME NEW c \in Calls, stage[c] = "bazaar"
      PROVE  now + 1 <= checkedAt[c] + MaxUpsert
  BY <1>1, <1>3, Numbers DEF Tick
<1>4. Len(queue) > 0 => heldSince <= now + 1 /\ now + 1 <= heldSince + MaxHold
  BY <1>1, Numbers DEF Tick, IInv, TimeInv
<1>5. \A c \in Calls :
        stage[c] \in {"bazaar", "lock"} => checkedAt[c] <= body[c].validBefore + Skew
  BY DEF IInv, TimeInv
<1>6. \A i \in 1 .. Len(queue) :
        heldSince <= checkedAt[queue[i]] + MaxUpsert + Slack(i)
  BY DEF IInv, TimeInv
<1>. QED
  BY <1>2, <1>3, <1>4, <1>5, <1>6 DEF TimeInv, Slack

\* Every step keeps the order at the mutex and the bounds on the waits there.
LEMMA NextLockInv ==
  ASSUME IInv, [Next]_vars
  PROVE  QueueInv' /\ TimeInv'
<1>0. /\ queue \in Seq(Calls) /\ now \in Nat /\ QueueInv /\ TimeInv
      /\ stage \in [Calls -> Stages] /\ checkedAt \in [Calls -> Nat]
      /\ body \in [Calls -> Bodies \cup {NoBody}]
  BY DEF IInv, CallInv, TypeOK
<1>1. ASSUME NEW c \in Calls, NEW b \in Bodies, Receive(c, b)
      PROVE  QueueInv' /\ TimeInv'
  <2>1. /\ stage[c] = "idle"
        /\ stage' = [stage EXCEPT ![c] =
             IF SettleVerdict(b, now) = "ok" THEN "bazaar" ELSE "answered"]
        /\ body' = [body EXCEPT ![c] = b]
        /\ checkedAt' = [checkedAt EXCEPT ![c] = now]
        /\ UNCHANGED <<now, queue, heldSince>>
    BY <1>1 DEF Receive, Move, lockVars
  <2>2. \A d \in Calls \ {c} : checkedAt'[d] = checkedAt[d]
                               /\ stage'[d] = stage[d] /\ body'[d] = body[d]
    BY <1>0, <2>1
  <2>3. checkedAt'[c] = now /\ body'[c] = b /\ stage'[c] \in {"bazaar", "answered"}
        /\ (stage'[c] = "bazaar" => SettleVerdict(b, now) = "ok")
    BY <1>0, <2>1
  <2>4. stage'[c] = "bazaar" => now <= checkedAt'[c] + MaxUpsert
    BY <1>0, <2>3, Numbers
  <2>5. stage'[c] \in {"bazaar", "lock"} => checkedAt'[c] <= body'[c].validBefore + Skew
    BY <1>0, <2>3, SettleVerdicts
  <2>6. QueueInv'
    BY <1>0, <2>1, <2>2, <2>3, QueueUntouched DEF Waiting
  <2>7. TimeInv'
    BY <2>1, <2>2, <2>4, <2>5, TimeUntouched DEF Waiting
  <2>. QED
    BY <2>6, <2>7
<1>2. ASSUME NEW c \in Calls, Catalogue(c)
      PROVE  QueueInv' /\ TimeInv'
  <2>1. UNCHANGED <<now, body, checkedAt>>
    BY <1>2 DEF Catalogue
  <2>2. CASE Move(c, "bazaar", "answered") /\ UNCHANGED lockVars
    <3>1. /\ \A d \in Calls \ {c} : stage'[d] = stage[d]
          /\ stage[c] = "bazaar" /\ stage'[c] = "answered"
          /\ UNCHANGED <<queue, heldSince>>
      BY <1>0, <2>2 DEF Move, lockVars
    <3>2. QueueInv'
      BY <1>0, <3>1, QueueUntouched DEF Waiting
    <3>3. TimeInv'
      BY <2>1, <3>1, TimeUntouched DEF Waiting
    <3>. QED
      BY <3>2, <3>3
  <2>3. CASE Move(c, "bazaar", "lock") /\ Enqueue(c)
    <3>1. /\ \A d \in Calls \ {c} : stage'[d] = stage[d]
          /\ stage[c] = "bazaar" /\ stage'[c] = "lock"
          /\ queue' = Append(queue, c)
      BY <1>0, <2>3 DEF Move, Enqueue
    <3>2. QueueInv' /\ Len(queue) < Cardinality(Calls)
      BY <1>0, <3>1, QueueJoined DEF Waiting
    <3>3. TimeInv'
      BY <2>1, <2>3, <3>1, <3>2, TimeJoined
    <3>. QED
      BY <3>2, <3>3
  <2>. QED
    BY <1>2, <2>2, <2>3 DEF Catalogue, Answer
<1>3. ASSUME NEW c \in Calls, Leave(c), UNCHANGED now,
             stage'[c] \in {"answered", "idle"},
             \A d \in Calls \ {c} : checkedAt'[d] = checkedAt[d]
                                    /\ stage'[d] = stage[d] /\ body'[d] = body[d]
      PROVE  QueueInv' /\ TimeInv'
  <2>1. QueueInv'
    BY <1>0, <1>3, QueueLeft DEF Waiting
  <2>2. TimeInv'
    BY <1>3, TimeLeft
  <2>. QED
    BY <2>1, <2>2
<1>4. ASSUME NEW c \in Calls, Submit(c)
      PROVE  QueueInv' /\ TimeInv'
  <2>1. UNCHANGED <<now, body, checkedAt>> /\ Holds(c)
    BY <1>4 DEF Submit
  <2>2. CASE Move(c, "lock", "poll") /\ UNCHANGED lockVars
    <3>1. /\ \A d \in Calls \ {c} : stage'[d] = stage[d]
          /\ stage[c] = "lock" /\ stage'[c] = "poll"
          /\ UNCHANGED <<queue, heldSince>>
      BY <1>0, <2>2 DEF Move, lockVars
    <3>2. \A d \in Calls : Waiting(d)' <=> Waiting(d)
      BY <3>1 DEF Waiting
    <3>3. Len(queue) > 0 /\ queue[1] = c
      BY <1>0, <2>1, EmptySeq DEF Holds
    <3>4. QueueInv'
      BY <1>0, <3>1, <3>2, <3>3 DEF QueueInv
    <3>5. TimeInv'
      BY <2>1, <3>1, TimeUntouched
    <3>. QED
      BY <3>4, <3>5
  <2>3. CASE Answer(c, "lock", "chain_transport") /\ Leave(c)
    BY <1>0, <1>3, <2>1, <2>3 DEF Answer, Move
  <2>. QED
    BY <1>4, <2>2, <2>3 DEF Submit
<1>5. ASSUME NEW c \in Calls, Poll(c)
      PROVE  QueueInv' /\ TimeInv'
  <2>1. /\ Leave(c) /\ UNCHANGED <<now, body, checkedAt>>
        /\ stage' = [stage EXCEPT ![c] = "answered"]
    BY <1>5 DEF Poll, Answer, Move
  <2>. QED
    BY <1>0, <1>3, <2>1
<1>6. ASSUME NEW c \in Calls, Finish(c)
      PROVE  QueueInv' /\ TimeInv'
  <2>1. /\ stage[c] = "answered" /\ UNCHANGED <<now, queue, heldSince>>
        /\ stage'[c] = "idle"
        /\ \A d \in Calls \ {c} : checkedAt'[d] = checkedAt[d]
                                  /\ stage'[d] = stage[d] /\ body'[d] = body[d]
    BY <1>0, <1>6 DEF Finish, Clear, lockVars
  <2>2. QueueInv'
    BY <1>0, <2>1, QueueUntouched DEF Waiting
  <2>3. TimeInv'
    BY <2>1, TimeUntouched DEF Waiting
  <2>. QED
    BY <2>2, <2>3
<1>7. ASSUME NEW c \in Calls, Cancel(c)
      PROVE  QueueInv' /\ TimeInv'
  <2>1. /\ Leave(c) /\ UNCHANGED now
        /\ stage'[c] = "idle"
        /\ \A d \in Calls \ {c} : checkedAt'[d] = checkedAt[d]
                                  /\ stage'[d] = stage[d] /\ body'[d] = body[d]
    BY <1>0, <1>7 DEF Cancel, Clear
  <2>. QED
    BY <1>3, <2>1
<1>8. CASE Tick
  <2>1. UNCHANGED <<stage, queue>>
    BY <1>8 DEF Tick, callVars, lockVars
  <2>2. QueueInv'
    BY <1>0, <2>1 DEF QueueInv, Waiting
  <2>. QED
    BY <1>8, <2>2, TimeTicks
<1>9. CASE Restart
  <2>1. Len(queue') = 0 /\ \A c \in Calls : stage'[c] = "idle"
    BY <1>9, EmptySeq DEF Restart
  <2>. QED
    BY <2>1 DEF QueueInv, TimeInv, Waiting
<1>10. ASSUME UNCHANGED <<now, callVars, lockVars>>
       PROVE  QueueInv' /\ TimeInv'
  BY <1>0, <1>10 DEF callVars, lockVars, QueueInv, TimeInv, Waiting, Slack
<1>. QED
  BY <1>1, <1>2, <1>4, <1>5, <1>6, <1>7, <1>8, <1>9, <1>10
  DEF Next, Step, Progress, Include, Drop, vars

-----------------------------------------------------------------------------
(* The theorems.                                                           *)

\* The inductive invariant of /settle holds in every behaviour.
THEOREM Inductive == Spec => []IInv
<1>1. IInv /\ [Next]_vars => IInv'
  BY NextCallInv, NextLockInv DEF IInv
<1>. QED
  BY InitIInv, <1>1, PTL DEF Spec

\* Type correctness.
THEOREM TypeCorrect == Spec => []TypeOK
<1>1. IInv => TypeOK
  BY DEF IInv, CallInv
<1>. QED
  BY Inductive, <1>1, PTL

\* A caller that is told "accepted" finds its transaction in a block, and nobody
\* is told so for another one that spends the same notes
\* (GrpcChainClient::settle), through every retry, error and restart.
THEOREM AcceptedStaysFinal == Spec => []AcceptedIsFinal
<1>1. IInv => AcceptedIsFinal
  BY DEF IInv, CallInv, AcceptedIncluded, NoNoteSpentTwice, AcceptedIsFinal
<1>. QED
  BY Inductive, <1>1, PTL

\* A refusal has handed nothing to the node, a success has
\* (chain_error_to_facilitator): only "chain_transport" leaves it open.
THEOREM RefusalsAreSafe == Spec => []RefusalsSubmitNothing
<1>1. IInv => RefusalsSubmitNothing
  BY DEF IInv, CallInv
<1>. QED
  BY Inductive, <1>1, PTL

\* Whose transaction the node is handed has passed every check and holds the
\* mutex, and what is catalogued comes from a call that passed them, too
\* (verify_envelope_for_settle before bazaar::process and submit_and_wait).
THEOREM EffectsAreSound == Spec => OnlySoundEffects
<1>1. IInv /\ [Next]_vars => [SoundEffects]_vars
  <2>. SUFFICES ASSUME IInv, Next PROVE SoundEffects
    BY DEF SoundEffects, vars
  <2>1. \A c \in Calls : Holds(c) => Sound(body[c])
    <3>. SUFFICES ASSUME NEW c \in Calls, Holds(c) PROVE Sound(body[c])
      OBVIOUS
    <3>1. queue \in Seq(Calls)
      BY DEF IInv, CallInv, TypeOK
    <3>2. 1 \in 1 .. Len(queue) /\ queue[1] = c
      BY <3>1 DEF Holds
    <3>3. Waiting(c)
      BY <3>2 DEF IInv, QueueInv
    <3>. QED
      BY <3>3 DEF IInv, CallInv, StageInv, Waiting
  <2>2. \A c \in Calls : stage[c] = "bazaar" => Sound(body[c])
    BY DEF IInv, CallInv, StageInv
  <2>3. ASSUME NEW c \in Calls, Catalogue(c)
        PROVE  SoundEffects
    BY <2>2, <2>3 DEF Catalogue, ProcessBazaar, nodeVars, SoundEffects
  <2>4. ASSUME NEW c \in Calls, Submit(c)
        PROVE  SoundEffects
    BY <2>1, <2>4 DEF Submit, MaybeDeliver, Deliver, SoundEffects
  <2>5. ASSUME NEW c \in Calls, Cancel(c)
        PROVE  SoundEffects
    <3>1. sent' \subseteq sent /\ chain' = chain
      BY <2>5 DEF Cancel
    <3>2. catalogued' \subseteq catalogued \/
            (stage[c] = "bazaar" /\ catalogued' = catalogued \cup {body[c]})
      BY <2>5 DEF Cancel
    <3>3. mempool' \subseteq mempool \/
            (Holds(c) /\ mempool' = mempool \cup {body[c].rawTx})
      BY <2>5 DEF Cancel
    <3>. QED
      BY <2>1, <2>2, <3>1, <3>2, <3>3 DEF SoundEffects
  <2>6. CASE UNCHANGED <<sent, catalogued, mempool, chain>>
    BY <2>6 DEF SoundEffects
  <2>7. ASSUME NEW c \in Calls, Finish(c)
        PROVE  SoundEffects
    BY <2>7 DEF Finish, nodeVars, SoundEffects
  <2>8. ASSUME NEW tx \in Txs, Include(tx) \/ Drop(tx)
        PROVE  SoundEffects
    BY <2>8 DEF Include, Drop, callVars, SoundEffects
  <2>9. CASE Restart
    BY <2>9 DEF Restart, nodeVars, SoundEffects
  <2>10. ASSUME NEW c \in Calls, (\E b \in Bodies : Receive(c, b)) \/ Poll(c)
         PROVE  UNCHANGED <<sent, catalogued, mempool, chain>>
    BY <2>10 DEF Receive, Poll, nodeVars
  <2>11. CASE Tick
    BY <2>6, <2>11 DEF Tick, callVars, nodeVars
  <2>. QED
    BY <2>3, <2>4, <2>5, <2>6, <2>7, <2>8, <2>9, <2>10, <2>11
    DEF Next, Step, Progress
<1>. QED
  BY Inductive, <1>1, PTL DEF Spec, OnlySoundEffects

\* However many calls wait for the mutex of GrpcChainClient, a transaction
\* goes out at most one upsert and one turn of every call after its window.
THEOREM SubmissionsTimely == Spec => []SubmitsTimely
<1>1. IInv => SubmitsTimely
  <2>. SUFFICES ASSUME IInv, NEW c \in Calls, stage[c] = "lock"
                PROVE  now <= body[c].validBefore + Skew + MaxUpsert
                              + Cardinality(Calls) * MaxHold
    BY DEF SubmitsTimely
  <2>1. PICK i \in 1 .. Len(queue) : queue[i] = c
    BY DEF IInv, QueueInv, Waiting
  <2>2. /\ now \in Nat /\ heldSince \in Nat /\ checkedAt[c] \in Nat
        /\ queue \in Seq(Calls) /\ body[c] \in Bodies
    BY DEF IInv, CallInv, TypeOK
  <2>3. /\ now <= heldSince + MaxHold
        /\ heldSince <= checkedAt[c] + MaxUpsert + Slack(i)
        /\ checkedAt[c] <= body[c].validBefore + Skew
    BY <2>1, <2>2 DEF IInv, TimeInv
  <2>4. Slack(i) + MaxHold <= Cardinality(Calls) * MaxHold
    <3>1. \A x, n, h \in Nat : x >= 1 => (n - x) * h + h <= n * h
      <4>. TAKE x, n, h \in Nat
      <4>. HAVE x >= 1
      <4>1. (n - x) * h + h = n * h - (x - 1) * h
        OBVIOUS
      <4>2. x - 1 \in Nat /\ (x - 1) * h >= 0
        OBVIOUS
      <4>. QED
        BY <4>1, <4>2
    <3>2. i \in Nat /\ i >= 1
      BY <2>1, <2>2
    <3>. QED
      BY <3>1, <3>2, Numbers DEF Slack
  <2>5. Slack(i) \in Int /\ body[c].validBefore \in Nat
        /\ Cardinality(Calls) * MaxHold \in Nat
    <3>1. \A m, n \in Nat : m * n \in Nat
      OBVIOUS
    <3>2. i \in Int
      BY <2>1, <2>2
    <3>. QED
      BY <2>2, <3>1, <3>2, SlackStep, Numbers
  <2> DEFINE turns == Cardinality(Calls) * MaxHold
             slack == Slack(i)
             due == body[c].validBefore
  <2>6. slack + MaxHold <= turns /\ slack \in Int /\ turns \in Nat
    BY <2>4, <2>5
  <2>7. heldSince <= checkedAt[c] + MaxUpsert + slack
    BY <2>3
  <2>8. due \in Nat /\ checkedAt[c] <= due + Skew
    BY <2>3, <2>5
  <2>. HIDE DEF turns, slack, due
  <2>9. now <= due + Skew + MaxUpsert + turns
    <3>1. heldSince + MaxHold <= checkedAt[c] + MaxUpsert + turns
      BY <2>2, <2>6, <2>7, Numbers
    <3>2. now <= heldSince + MaxHold
      BY <2>3
    <3>. QED
      BY <2>2, <2>6, <2>8, <3>1, <3>2, Numbers
  <2>. QED
    BY <2>9 DEF turns, due
<1>. QED
  BY Inductive, <1>1, PTL
=============================================================================
