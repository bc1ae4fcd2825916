----------------------- MODULE VerifyPipeline_proofs -----------------------
(***************************************************************************)
(* The safety of VerifyPipeline for every value of its constants: any      *)
(* number of request tasks, nonces and bodies, any tolerance, drift and    *)
(* pause.  AtMostOnce, CacheOutlives and Implements hold for a replay TTL  *)
(* with TTLOutlivesWindow.  Their argument: the entry of a nonce that is   *)
(* taken (accepted, or held by a task in front of the scheme handler)      *)
(* outlasts the moment any body of that nonce can reach the cache.         *)
(***************************************************************************)
EXTENDS VerifyPipeline, Envelope_proofs

-----------------------------------------------------------------------------
(* The inductive invariant.                                                *)

\* Wall time is at most MaxDrift ahead of the cache's clock.
ClockBounds == mono <= wall /\ wall <= mono + MaxDrift

\* A task that got past Receive holds a well-formed body.
WellFormed ==
  \A r \in Requests :
    stage[r] \in {"window", "replay", "handler", "verified"} =>
      EnvelopeVerdict(body[r]) = "ok"

\* What the window check established for a task in front of the cache, and
\* how old that can be.
WindowHeld ==
  \A r \in Requests :
    stage[r] = "replay" =>
      /\ mode[r] = "Consume"
      /\ since[r] <= mono /\ mono <= since[r] + MaxStall
      /\ body[r].validAfter <= since[r] + MaxDrift + Skew
      /\ since[r] <= body[r].validBefore + Skew

TypeInv == TypeOK /\ ClockBounds /\ WellFormed /\ WindowHeld

Holds(r) == stage[r] = "handler" /\ mode[r] = "Consume"

Granted(n) == \E b \in Bodies : b.nonce = n /\ granted[b] > 0

Taken(n) ==
  \/ Granted(n)
  \/ \E r \in Requests : Holds(r) /\ body[r].nonce = n

\* The entry of a taken nonce outlasts every check of the cache by a task
\* with a body of that nonce.
EntryLasts ==
  \A b \in Bodies :
    Taken(b.nonce) => cache[b.nonce] > b.validBefore + Skew + MaxStall

\* Nobody else holds a nonce that a task holds, or that was accepted.
Exclusive ==
  /\ AtMostOnceAccepted
  /\ \A r \in Requests : Holds(r) => ~Granted(body[r].nonce)
  /\ \A r, q \in Requests :
       Holds(r) /\ Holds(q) /\ body[r].nonce = body[q].nonce => r = q

IInv == TypeInv /\ EntryLasts /\ Exclusive

-----------------------------------------------------------------------------
(* Facts about the constants and the window check.                         *)

\* The constants as numbers.
LEMMA Numbers ==
  /\ Skew \in Nat /\ MaxU64 \in Nat /\ ReplayTTL \in Nat
  /\ MaxWindow \in Int /\ MaxDrift \in Nat /\ MaxStall \in Nat
  /\ \A b \in Bodies :
       b.nonce \in Nonces /\ b.validAfter \in Nat /\ b.validBefore \in Nat
BY EnvelopeConstants, ReplayTTLInNat, PipelineConstants

\* The verdicts of a body's checks are verdicts.
LEMMA VerdictsOfBodies ==
  ASSUME NEW b \in Bodies
  PROVE  EnvelopeVerdict(b) \in Verdicts /\ HandlerVerdict(b) \in Verdicts
BY DEF Verdicts

\* Saturation at either end of u64 never lets a body through that plain
\* arithmetic would hold back (check_time_window).
LEMMA WindowBounds ==
  ASSUME NEW b \in Bodies, NEW now \in Nat, InWindow(b, now)
  PROVE  b.validAfter <= now + Skew /\ now <= b.validBefore + Skew
BY Numbers DEF InWindow, SaturatingAdd, SaturatingSub

-----------------------------------------------------------------------------
(* Types, clocks, and what a task knows of its body.                       *)

\* No request has come and the cache is empty.
LEMMA InitTypeInv == Init => TypeInv
BY Numbers DEF Init, TypeInv, TypeOK, ClockBounds, WellFormed, WindowHeld,
               Stages, Modes, Verdicts, Never

\* Every step of the pipeline keeps the types.
LEMMA NextTypeInv == TypeInv /\ [Next]_vars => TypeInv'
<1>. SUFFICES ASSUME TypeInv, [Next]_vars
              PROVE  TypeInv'
  OBVIOUS
<1>. USE Numbers DEF TypeInv
<1>1. ASSUME NEW r \in Requests, NEW b \in Bodies, NEW m \in Modes,
             Receive(r, b, m)
      PROVE  TypeInv'
  <2>1. EnvelopeVerdict(b) \in Verdicts /\ "none" \in Verdicts
    BY VerdictsOfBodies DEF Verdicts
  <2>2. TypeOK'
    BY <1>1, <2>1 DEF Receive, Move, TypeOK, Stages, Modes
  <2>3. WellFormed'
    BY <1>1 DEF Receive, Move, WellFormed, TypeOK
  <2>4. WindowHeld'
    BY <1>1 DEF Receive, Move, WindowHeld, TypeOK
  <2>. QED
    BY <1>1, <2>2, <2>3, <2>4 DEF Receive, ClockBounds
<1>2. ASSUME NEW r \in Requests, CheckTimeWindow(r)
      PROVE  TypeInv'
  <2>1. "outside_time_window" \in Verdicts
    BY DEF Verdicts
  <2>2. TypeOK'
    BY <1>2, <2>1 DEF CheckTimeWindow, Answer, Move, TypeOK, Stages
  <2>3. WellFormed'
    BY <1>2 DEF CheckTimeWindow, Answer, Move, WellFormed, TypeOK
  <2>4. WindowHeld'
    <3>1. ASSUME stage'[r] = "replay"
          PROVE  /\ mode[r] = "Consume"
                 /\ since'[r] = mono
                 /\ InWindow(body[r], wall)
                 /\ body[r] \in Bodies
      BY <1>2, <3>1 DEF CheckTimeWindow, Answer, Move, TypeOK
    <3>2. ASSUME stage'[r] = "replay"
          PROVE  /\ body[r].validAfter <= mono + MaxDrift + Skew
                 /\ mono <= body[r].validBefore + Skew
      <4>1. /\ body[r].validAfter <= wall + Skew
            /\ wall <= body[r].validBefore + Skew
        BY <3>1, <3>2, WindowBounds DEF TypeOK
      <4>. QED
        BY <4>1, <3>1, <3>2 DEF ClockBounds, TypeOK
    <3>3. \A q \in Requests \ {r} : stage'[q] = stage[q] /\ since'[q] = since[q]
      BY <1>2 DEF CheckTimeWindow, Answer, Move, TypeOK
    <3>4. UNCHANGED <<mono, mode, body>>
      BY <1>2 DEF CheckTimeWindow
    <3>. QED
      BY <3>1, <3>2, <3>3, <3>4 DEF WindowHeld, TypeOK
  <2>. QED
    BY <1>2, <2>2, <2>3, <2>4 DEF CheckTimeWindow, ClockBounds
<1>3. ASSUME NEW r \in Requests, CheckReplay(r)
      PROVE  TypeInv'
  <2>1. "nonce_replayed" \in Verdicts
    BY DEF Verdicts
  <2>2. body[r] \in Bodies /\ body[r].nonce \in Nonces
    BY <1>3 DEF CheckReplay, Answer, Move, TypeOK
  <2>3. cache' \in [Nonces -> Nat \cup {Never}]
    BY <1>3, <2>2 DEF CheckReplay, AfterHit, AfterMiss, TypeOK
  <2>4. TypeOK'
    BY <1>3, <2>1, <2>3 DEF CheckReplay, Answer, Move, TypeOK, Stages
  <2>5. WellFormed'
    BY <1>3 DEF CheckReplay, Answer, Move, WellFormed, TypeOK
  <2>6. WindowHeld'
    BY <1>3 DEF CheckReplay, Answer, Move, WindowHeld, TypeOK
  <2>. QED
    BY <1>3, <2>4, <2>5, <2>6 DEF CheckReplay, ClockBounds
<1>4. ASSUME NEW r \in Requests, VerifyScheme(r)
      PROVE  TypeInv'
  <2>1. body[r] \in Bodies /\ body[r].nonce \in Nonces
    BY <1>4 DEF VerifyScheme, TypeOK
  <2>2. HandlerVerdict(body[r]) \in Verdicts
    BY <2>1, VerdictsOfBodies
  <2>3. granted' \in [Bodies -> Nat]
    BY <1>4, <2>1 DEF VerifyScheme, TypeOK
  <2>4. TypeOK'
    BY <1>4, <2>2, <2>3 DEF VerifyScheme, TypeOK, Stages
  <2>5. WellFormed'
    BY <1>4 DEF VerifyScheme, WellFormed, TypeOK
  <2>6. WindowHeld'
    BY <1>4 DEF VerifyScheme, WindowHeld, TypeOK
  <2>. QED
    BY <1>4, <2>4, <2>5, <2>6 DEF VerifyScheme, ClockBounds
<1>5. ASSUME NEW r \in Requests, Respond(r)
      PROVE  TypeInv'
  BY <1>5 DEF Respond, Move, TypeOK, ClockBounds, WellFormed, WindowHeld, Stages
<1>6. ASSUME NEW r \in Requests, Release(r)
      PROVE  TypeInv'
  <2>1. "none" \in Verdicts
    BY DEF Verdicts
  <2>. QED
    BY <1>6, <2>1
    DEF Release, TypeOK, ClockBounds, WellFormed, WindowHeld, Stages, Modes
<1>7. CASE Tick
  <2>1. TypeOK' /\ ClockBounds'
    BY <1>7 DEF Tick, TypeOK, ClockBounds, reqVars
  <2>2. WellFormed'
    BY <1>7 DEF Tick, WellFormed, reqVars
  <2>3. WindowHeld'
    BY <1>7 DEF Tick, WindowHeld, TypeOK, reqVars
  <2>. QED
    BY <2>1, <2>2, <2>3
<1>8. CASE StepClock
  BY <1>8 DEF StepClock, TypeOK, ClockBounds, WellFormed, WindowHeld, reqVars
<1>9. CASE Restart
  <2>1. "none" \in Verdicts
    BY DEF Verdicts
  <2>. QED
    BY <1>9, <2>1 DEF Restart, TypeOK, ClockBounds, WellFormed, WindowHeld,
                      Stages, Modes, Never
<1>10. CASE UNCHANGED vars
  BY <1>10 DEF vars, reqVars, TypeOK, ClockBounds, WellFormed, WindowHeld
<1>. QED
  BY <1>1, <1>2, <1>3, <1>4, <1>5, <1>6, <1>7, <1>8, <1>9, <1>10 DEF Next, Step

\* Every state of the verify pipeline is well typed.
THEOREM TypeCorrect == Spec => []TypeOK
<1>1. TypeInv => TypeOK
  BY DEF TypeInv
<1>. QED
  BY <1>1, InitTypeInv, NextTypeInv, PTL DEF Spec

-----------------------------------------------------------------------------
(* The argument about the entries.                                         *)

\* An entry written, or renewed, when a task stands before the cache with a
\* timely body of the nonce lasts for every body of that nonce.
LEMMA FreshEntryLasts ==
  ASSUME TTLOutlivesWindow, TypeInv,
         NEW r \in Requests, stage[r] = "replay",
         NEW b \in Bodies, b.nonce = body[r].nonce
  PROVE  mono + ReplayTTL > b.validBefore + Skew + MaxStall
<1>1. body[r] \in Bodies
  BY DEF TypeInv, TypeOK
<1>2. b.validBefore <= body[r].validAfter + MaxWindow
  BY <1>1, WindowBound, Numbers
<1>3. since[r] \in Nat /\ mono \in Nat /\ since[r] <= mono
  BY DEF TypeInv, TypeOK, WindowHeld
<1>4. body[r].validAfter <= since[r] + MaxDrift + Skew
  BY DEF TypeInv, WindowHeld
<1>. QED
  BY <1>1, <1>2, <1>3, <1>4, Numbers DEF TTLOutlivesWindow

\* A task the cache lets through finds its nonce free: the entry of a taken
\* nonce is still there when a timely body gets to the cache.
LEMMA MissMeansFree ==
  ASSUME TypeInv, EntryLasts,
         NEW r \in Requests, stage[r] = "replay",
         MayMiss(cache[body[r].nonce], mono)
  PROVE  ~Taken(body[r].nonce)
<1>1. body[r] \in Bodies /\ body[r].nonce \in Nonces
  BY Numbers DEF TypeInv, TypeOK
<1>2. /\ since[r] \in Nat /\ mono \in Nat
      /\ mono <= since[r] + MaxStall
      /\ since[r] <= body[r].validBefore + Skew
  BY DEF TypeInv, TypeOK, WindowHeld
<1>3. cache[body[r].nonce] \in Int /\ cache[body[r].nonce] <= mono
  BY <1>1, <1>2 DEF MayMiss, TypeInv, TypeOK, Never
<1>. QED
  BY <1>1, <1>2, <1>3, Numbers DEF EntryLasts

\* What neither moves an entry nor takes a nonce keeps both parts.
LEMMA NothingTaken ==
  ASSUME TypeInv, EntryLasts, Exclusive,
         UNCHANGED <<cache, granted>>,
         \A r \in Requests : Holds(r)' => Holds(r) /\ body'[r] = body[r]
  PROVE  EntryLasts' /\ Exclusive'
<1>1. \A n : Taken(n)' => Taken(n)
  BY DEF Taken, Granted
<1>. QED
  BY <1>1 DEF EntryLasts, Exclusive, Granted, AtMostOnceAccepted

\* Under a TTL that outlives the window, every step keeps the invariant.
LEMMA NextIInv ==
  ASSUME TTLOutlivesWindow
  PROVE  IInv /\ [Next]_vars => IInv'
<1>. SUFFICES ASSUME IInv, [Next]_vars
              PROVE  EntryLasts' /\ Exclusive'
  BY NextTypeInv DEF IInv
<1>. USE DEF IInv
<1>0. stage \in [Requests -> Stages] /\ body \in [Requests -> Bodies \cup {NoBody}]
      /\ mode \in [Requests -> Modes]
  BY DEF TypeInv, TypeOK
<1>1. ASSUME NEW r \in Requests, NEW b \in Bodies, NEW m \in Modes,
             Receive(r, b, m)
      PROVE  EntryLasts' /\ Exclusive'
  <2>1. \A q \in Requests : Holds(q)' => Holds(q) /\ body'[q] = body[q]
    BY <1>0, <1>1 DEF Receive, Move, Holds
  <2>. QED
    BY <1>1, <2>1, NothingTaken DEF Receive
<1>2. ASSUME NEW r \in Requests, CheckTimeWindow(r)
      PROVE  EntryLasts' /\ Exclusive'
  <2>1. \A q \in Requests : Holds(q)' => Holds(q) /\ body'[q] = body[q]
    BY <1>0, <1>2 DEF CheckTimeWindow, Answer, Move, Holds
  <2>. QED
    BY <1>2, <2>1, NothingTaken DEF CheckTimeWindow
<1>3. ASSUME NEW r \in Requests, CheckReplay(r)
      PROVE  EntryLasts' /\ Exclusive'
  <2> DEFINE n == body[r].nonce
  <2>1. /\ stage[r] = "replay" /\ mode[r] = "Consume"
        /\ body[r] \in Bodies /\ n \in Nonces
        /\ UNCHANGED <<mono, mode, body, granted>>
    BY <1>3, <1>0, Numbers
    DEF CheckReplay, Answer, Move, TypeInv, TypeOK, WindowHeld
  <2>2. \A k \in Nonces \ {n} : cache'[k] = cache[k]
    BY <1>3 DEF CheckReplay, TypeInv, TypeOK
  <2>3. cache'[n] \in {cache[n], mono + ReplayTTL}
    BY <1>3, <2>1 DEF CheckReplay, AfterHit, AfterMiss, TypeInv, TypeOK
  <2>4. CASE stage'[r] = "answered"
    <3>1. \A q \in Requests : Holds(q)' <=> Holds(q)
      BY <1>0, <1>3, <2>1, <2>4 DEF CheckReplay, Answer, Move, Holds
    <3>2. \A k : Taken(k)' <=> Taken(k)
      BY <2>1, <3>1 DEF Taken, Granted
    <3>3. EntryLasts'
      <4>. SUFFICES ASSUME NEW c \in Bodies, Taken(c.nonce)
                    PROVE  cache'[c.nonce] > c.validBefore + Skew + MaxStall
        BY <3>2 DEF EntryLasts
      <4>1. CASE c.nonce = n /\ cache'[n] = mono + ReplayTTL
        BY <4>1, <2>1, FreshEntryLasts
      <4>2. CASE c.nonce # n \/ cache'[n] = cache[n]
        BY <4>2, <2>2, Numbers DEF EntryLasts
      <4>. QED
        BY <4>1, <4>2, <2>3
    <3>4. Exclusive'
      BY <2>1, <3>1 DEF Exclusive, Granted, AtMostOnceAccepted
    <3>. QED
      BY <3>3, <3>4
  <2>5. CASE stage'[r] = "handler"
    <3>1. /\ MayMiss(cache[n], mono)
          /\ cache'[n] = mono + ReplayTTL
      BY <1>0, <1>3, <2>1, <2>5
      DEF CheckReplay, Answer, Move, AfterMiss, TypeInv, TypeOK
    <3>2. ~Taken(n)
      BY <2>1, <3>1, MissMeansFree
    <3>3. \A q \in Requests \ {r} : Holds(q)' <=> Holds(q)
      BY <1>0, <1>3 DEF CheckReplay, Answer, Move, Holds
    <3>4. EntryLasts'
      <4>. SUFFICES ASSUME NEW c \in Bodies, Taken(c.nonce)'
                    PROVE  cache'[c.nonce] > c.validBefore + Skew + MaxStall
        BY DEF EntryLasts
      <4>1. CASE c.nonce = n
        BY <4>1, <2>1, <3>1, FreshEntryLasts
      <4>2. CASE c.nonce # n
        <5>1. Taken(c.nonce)
          BY <4>2, <2>1, <3>3 DEF Taken, Granted
        <5>. QED
          BY <4>2, <5>1, <2>2, Numbers DEF EntryLasts
      <4>. QED
        BY <4>1, <4>2
    <3>5. Exclusive'
      <4>1. ~Granted(n)
        BY <3>2 DEF Taken
      <4>2. \A q \in Requests : Holds(q) => body[q].nonce # n
        BY <3>2 DEF Taken
      <4>. QED
        BY <2>1, <3>3, <4>1, <4>2 DEF Exclusive, Granted, AtMostOnceAccepted
    <3>. QED
      BY <3>4, <3>5
  <2>. QED
    BY <1>0, <1>3, <2>4, <2>5 DEF CheckReplay, Answer, Move
<1>4. ASSUME NEW r \in Requests, VerifyScheme(r)
      PROVE  EntryLasts' /\ Exclusive'
  <2> DEFINE n == body[r].nonce
  <2>1. /\ stage[r] = "handler" /\ body[r] \in Bodies /\ n \in Nonces
        /\ UNCHANGED <<cache, mode, body>>
        /\ granted \in [Bodies -> Nat]
    BY <1>0, <1>4, Numbers DEF VerifyScheme, TypeInv, TypeOK
  <2>2. ~Holds(r)' /\ \A q \in Requests \ {r} : Holds(q)' <=> Holds(q)
    BY <1>0, <1>4 DEF VerifyScheme, Holds
  <2>3. CASE UNCHANGED granted
    BY <2>1, <2>2, <2>3, NothingTaken
  <2>4. CASE mode[r] = "Consume" /\ granted' = [granted EXCEPT ![body[r]] = @ + 1]
    <3>1. Holds(r) /\ ~Granted(n)
      BY <2>1, <2>4 DEF Holds, Exclusive
    <3>2. \A c \in Bodies : granted'[c] = IF c = body[r] THEN 1 ELSE granted[c]
      BY <2>1, <2>4, <3>1 DEF Granted
    <3>3. \A k : Granted(k)' => k = n \/ Granted(k)
      BY <2>1, <3>2 DEF Granted
    <3>4. \A k : Taken(k)' => Taken(k)
      BY <2>1, <2>2, <3>1, <3>3 DEF Taken
    <3>5. AtMostOnceAccepted'
      BY <2>1, <3>1, <3>2 DEF Exclusive, Granted, AtMostOnceAccepted
    <3>6. EntryLasts'
      BY <2>1, <3>4, Numbers DEF EntryLasts
    <3>7. \A q \in Requests : Holds(q)' => q # r /\ Holds(q) /\ body[q].nonce # n
      BY <2>2, <3>1 DEF Exclusive
    <3>. QED
      BY <2>1, <3>3, <3>6, <3>7, <3>5 DEF Exclusive
  <2>. QED
    BY <1>4, <2>3, <2>4 DEF VerifyScheme
<1>5. ASSUME NEW r \in Requests, Respond(r)
      PROVE  EntryLasts' /\ Exclusive'
  <2>1. \A q \in Requests : Holds(q)' => Holds(q) /\ body'[q] = body[q]
    BY <1>0, <1>5 DEF Respond, Move, Holds
  <2>. QED
    BY <1>5, <2>1, NothingTaken DEF Respond
<1>6. ASSUME NEW r \in Requests, Release(r)
      PROVE  EntryLasts' /\ Exclusive'
  <2>1. \A q \in Requests : Holds(q)' => Holds(q) /\ body'[q] = body[q]
    BY <1>0, <1>6 DEF Release, Holds
  <2>. QED
    BY <1>6, <2>1, NothingTaken DEF Release
<1>7. CASE Tick \/ StepClock \/ UNCHANGED vars
  <2>1. UNCHANGED <<cache, granted, stage, mode, body>>
    BY <1>7 DEF Tick, StepClock, vars, reqVars
  <2>. QED
    BY <2>1, NothingTaken DEF Holds
<1>8. CASE Restart
  <2>1. \A n : ~Taken(n)' /\ ~Granted(n)'
    BY <1>8 DEF Restart, Taken, Granted, Holds
  <2>3. AtMostOnceAccepted'
    BY <1>8 DEF Restart, AtMostOnceAccepted
  <2>2. \A q \in Requests : ~Holds(q)'
    BY <1>8 DEF Restart, Holds
  <2>. QED
    BY <2>1, <2>2, <2>3 DEF EntryLasts, Exclusive
<1>. QED
  BY <1>1, <1>2, <1>3, <1>4, <1>5, <1>6, <1>7, <1>8 DEF Next, Step

\* The invariant holds before the first request.
LEMMA InitIInv == Init => IInv
<1>1. Init => (\A n : ~Taken(n)) /\ AtMostOnceAccepted
  BY DEF Init, Taken, Granted, Holds, AtMostOnceAccepted
<1>2. Init => \A r \in Requests : ~Holds(r)
  BY DEF Init, Holds
<1>. QED
  BY <1>1, <1>2, InitTypeInv, Numbers DEF IInv, EntryLasts, Exclusive

\* The inductive invariant of /verify holds in every behaviour.
LEMMA Inductive == ASSUME TTLOutlivesWindow PROVE Spec => []IInv
BY InitIInv, NextIInv, PTL DEF Spec

\* With a TTL that outlives the window, /verify accepts a nonce at most once
\* in a process lifetime (check_replay).
THEOREM AtMostOnce ==
  ASSUME TTLOutlivesWindow
  PROVE  Spec => []AtMostOnceAccepted
<1>1. IInv => AtMostOnceAccepted
  BY DEF IInv, Exclusive, AtMostOnceAccepted
<1>. QED
  BY <1>1, Inductive, PTL

\* With such a TTL the entry of an accepted nonce lasts as long as any body
\* of that nonce passes the window check (DEFAULT_REPLAY_TTL, lib.rs).
THEOREM CacheOutlives ==
  ASSUME TTLOutlivesWindow
  PROVE  Spec => []CacheOutlivesWindow
<1>1. IInv => CacheOutlivesWindow
  <2>. SUFFICES ASSUME IInv, NEW b \in Bodies, NEW c \in Bodies,
                       granted[c] > 0, c.nonce = b.nonce, InWindow(b, wall)
                PROVE  mono < cache[b.nonce]
    BY DEF CacheOutlivesWindow
  <2>1. cache[b.nonce] > b.validBefore + Skew + MaxStall
    BY DEF IInv, EntryLasts, Taken, Granted
  <2>2. wall \in Nat /\ mono \in Nat /\ mono <= wall
        /\ cache[b.nonce] \in Int
    BY Numbers DEF IInv, TypeInv, TypeOK, ClockBounds, Never
  <2>3. wall <= b.validBefore + Skew
    BY <2>2, WindowBounds
  <2>. QED
    BY <2>1, <2>2, <2>3, Numbers
<1>. QED
  BY <1>1, Inductive, PTL

-----------------------------------------------------------------------------
(* What the cache holds.                                                   *)

\* Only a request inside its window writes to the cache: no TTL is needed.
LEMMA NextOnlyTimely ==
  TypeInv /\ OnlyTimelyNonces /\ [Next]_vars => OnlyTimelyNonces'
<1>. SUFFICES ASSUME TypeInv, OnlyTimelyNonces, [Next]_vars,
                     NEW n \in Nonces, cache'[n] # Never
              PROVE  \E b \in Bodies :
                       LET recorded == cache'[n] - ReplayTTL
                       IN  /\ b.nonce = n
                           /\ EnvelopeVerdict(b) = "ok"
                           /\ b.validAfter <= recorded + Skew + MaxDrift
                           /\ b.validBefore >= recorded - Skew - MaxStall
  BY DEF OnlyTimelyNonces
<1>1. CASE cache'[n] = cache[n]
  BY <1>1 DEF OnlyTimelyNonces
<1>2. ASSUME NEW r \in Requests, CheckReplay(r), cache'[n] # cache[n]
      PROVE  \E b \in Bodies :
               LET recorded == cache'[n] - ReplayTTL
               IN  /\ b.nonce = n
                   /\ EnvelopeVerdict(b) = "ok"
                   /\ b.validAfter <= recorded + Skew + MaxDrift
                   /\ b.validBefore >= recorded - Skew - MaxStall
  <2>1. /\ stage[r] = "replay"
        /\ body[r] \in Bodies /\ body[r].nonce \in Nonces
        /\ EnvelopeVerdict(body[r]) = "ok"
    BY <1>2, Numbers
    DEF CheckReplay, Answer, Move, TypeInv, TypeOK, WellFormed
  <2>2. body[r].nonce = n /\ cache'[n] = mono + ReplayTTL
    BY <1>2, <2>1 DEF CheckReplay, AfterHit, AfterMiss, TypeInv, TypeOK
  <2>3. /\ mono \in Nat /\ since[r] \in Nat
        /\ since[r] <= mono /\ mono <= since[r] + MaxStall
        /\ body[r].validAfter <= since[r] + MaxDrift + Skew
        /\ since[r] <= body[r].validBefore + Skew
    BY <2>1 DEF TypeInv, TypeOK, WindowHeld
  <2>. QED
    BY <2>1, <2>2, <2>3, Numbers
<1>3. cache' # cache => cache'[n] = Never \/ \E r \in Requests : CheckReplay(r)
  BY DEF Next, Step, Receive, CheckTimeWindow, VerifyScheme, Respond, Release,
         Tick, StepClock, Restart, vars
<1>. QED
  BY <1>1, <1>2, <1>3

\* The cache holds nothing but nonces recorded for well-formed bodies inside
\* their window (the doc comment of verify_envelope), whatever the TTL.
THEOREM OnlyTimely == Spec => []OnlyTimelyNonces
<1>1. Init => OnlyTimelyNonces
  BY DEF Init, OnlyTimelyNonces
<1>. QED
  BY <1>1, InitTypeInv, NextTypeInv, NextOnlyTimely, PTL DEF Spec

-----------------------------------------------------------------------------
(* The refinement.                                                         *)

\* With a TTL that outlives the window, verify_envelope implements the
\* promise of OncePerNonce: the two sequences of checks, the window and the
\* cache together grant what the promise grants.
THEOREM Implements ==
  ASSUME TTLOutlivesWindow
  PROVE  Spec => ImplementsPromise
<1>1. Init => Promise!Init
  BY DEF Init, Promise!Init
<1>2. IInv /\ [Next]_vars => [Promise!Next]_granted
  <2>. SUFFICES ASSUME IInv, [Next]_vars, granted' # granted
                PROVE  Promise!Next
    OBVIOUS
  <2>1. ASSUME NEW r \in Requests, VerifyScheme(r)
        PROVE  Promise!Next
    <3>1. /\ body[r] \in Bodies /\ body[r].nonce \in Nonces
          /\ EnvelopeVerdict(body[r]) = "ok"
          /\ granted \in [Bodies -> Nat]
      BY <2>1, Numbers DEF VerifyScheme, IInv, TypeInv, TypeOK, WellFormed
    <3>2. /\ stage[r] = "handler" /\ mode[r] = "Consume"
          /\ HandlerVerdict(body[r]) = "ok"
          /\ granted' = [granted EXCEPT ![body[r]] = @ + 1]
      BY <2>1 DEF VerifyScheme
    <3>3. Sound(body[r])
      BY <3>1, <3>2, VerdictsMeanSound
    <3>4. \A c \in Bodies : c.nonce = body[r].nonce => granted[c] = 0
      BY <3>1, <3>2 DEF IInv, Exclusive, Holds, Granted
    <3>5. granted' = [granted EXCEPT ![body[r]] = 1]
      <4>1. granted[body[r]] = 0
        BY <3>1, <3>4
      <4>. QED
        BY <3>1, <3>2, <4>1
    <3>. QED
      BY <3>1, <3>3, <3>4, <3>5 DEF Promise!Next, Promise!Grant
  <2>2. CASE Restart
    BY <2>2 DEF Restart, Promise!Next, Promise!Restart
  <2>. QED
    BY <2>1, <2>2 DEF Next, Step, Receive, CheckTimeWindow, CheckReplay,
                      Respond, Release, Tick, StepClock, vars
<1>. QED
  BY <1>1, <1>2, Inductive, PTL DEF Spec, ImplementsPromise, Promise!Spec
=============================================================================
