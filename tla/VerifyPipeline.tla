--------------------------- MODULE VerifyPipeline ---------------------------
(***************************************************************************)
(* verify_envelope and verify_envelope_for_settle under concurrency.       *)
(*                                                                         *)
(* Each request in flight is a task of the async runtime.  It is checked   *)
(* in the order of verify_envelope_inner, one action per point at which    *)
(* another task or the clock can come between:                             *)
(*   "window"    the request's own fields are in order; the clock is next  *)
(*   "replay"    the time window held; the nonce cache is next (/verify)   *)
(*   "handler"   the cache let it through; the scheme handler is next      *)
(*   "verified"  verify_envelope returned Ok; the response is not out yet  *)
(*   "answered"  the response is out                                       *)
(* Two clocks run.  wall is Clock::now, whole seconds of the host's clock. *)
(* mono is the clock the cache counts its TTL with.  They may drift apart  *)
(* by MaxDrift within the model's time: 1 for the truncation to whole      *)
(* seconds, more when the host's clock is stepped.                         *)
(***************************************************************************)
EXTENDS Envelope, ReplayCache

CONSTANTS
  Requests,     \* the request tasks that can be in flight at once
  Nonces,       \* the authorization nonces
  Bodies,       \* the request bodies clients send
  NoBody,       \* the body of a task without a request
  MaxWindow,    \* longest validBefore - validAfter over one nonce's bodies
  MaxDrift,     \* how far wall may move against mono
  MaxStall,     \* longest pause of a task between clock and cache
  MaxTime       \* bound: mono stops there

ASSUME PipelineConstants ==
  /\ \A b \in Bodies :
       /\ b.nonce \in Nonces
       /\ b.validAfter \in 0 .. MaxU64
       /\ b.validBefore \in 0 .. MaxU64
  /\ NoBody \notin Bodies
  /\ MaxWindow \in Int
  /\ MaxDrift \in Nat
  /\ MaxStall \in Nat
  /\ MaxTime \in Nat
  /\ MaxTime + MaxDrift <= MaxU64

\* What MaxWindow means.  A client that signs a nonce twice, with two
\* windows, is measured from the earlier start to the later end.
ASSUME WindowBound ==
  \A b1, b2 \in Bodies :
    b1.nonce = b2.nonce => b2.validBefore - b1.validAfter <= MaxWindow

VARIABLES
  wall,         \* Clock::now()
  mono,         \* the cache's own clock
  cache,        \* the nonce cache: key -> end of its entry, or Never
  stage,        \* stage[r]: the check request r stands before
  mode,         \* mode[r]: ReplayMode, "Consume" (/verify) or "Skip" (/settle)
  body,         \* body[r]: the request body
  since,        \* since[r]: mono when r read the clock, until the cache is asked
  verdict,      \* verdict[r]: "ok" or the rejection code, "none" before
  granted       \* history: how often /verify accepted each body since start

reqVars == <<stage, mode, body, since, verdict>>
vars == <<wall, mono, cache, reqVars, granted>>

Stages == {"idle", "window", "replay", "handler", "verified", "answered"}
Modes == {"Consume", "Skip"}
Verdicts ==
  {"none", "ok", "outside_time_window", "nonce_replayed"}
    \cup {EnvelopeVerdict(b) : b \in Bodies}
    \cup {HandlerVerdict(b) : b \in Bodies}

TypeOK ==
  /\ wall \in Nat
  /\ mono \in Nat
  /\ cache \in [Nonces -> Nat \cup {Never}]
  /\ stage \in [Requests -> Stages]
  /\ mode \in [Requests -> Modes]
  /\ body \in [Requests -> Bodies \cup {NoBody}]
  /\ since \in [Requests -> Nat]
  /\ verdict \in [Requests -> Verdicts]
  /\ granted \in [Bodies -> Nat]
  /\ \A r \in Requests : stage[r] # "idle" => body[r] \in Bodies

Init ==
  /\ mono = 0
  /\ wall \in 0 .. MaxDrift
  /\ cache = [n \in Nonces |-> Never]
  /\ stage = [r \in Requests |-> "idle"]
  /\ mode = [r \in Requests |-> "Consume"]
  /\ body = [r \in Requests |-> NoBody]
  /\ since = [r \in Requests |-> 0]
  /\ verdict = [r \in Requests |-> "none"]
  /\ granted = [b \in Bodies |-> 0]

-----------------------------------------------------------------------------
(***************************************************************************)
(* The steps of one request.                                               *)
(***************************************************************************)
Move(r, from, to) ==
  /\ stage[r] = from
  /\ stage' = [stage EXCEPT ![r] = to]

Answer(r, from, v) ==
  /\ Move(r, from, "answered")
  /\ verdict' = [verdict EXCEPT ![r] = v]

\* A request arrives: any body, also one sent before (a retry, a duplicate).
\* Its own fields are checked before anything shared is read.
Receive(r, b, m) ==
  LET v == EnvelopeVerdict(b)
  IN  /\ Move(r, "idle", IF v = "ok" THEN "window" ELSE "answered")
      /\ verdict' = [verdict EXCEPT ![r] = IF v = "ok" THEN "none" ELSE v]
      /\ body' = [body EXCEPT ![r] = b]
      /\ mode' = [mode EXCEPT ![r] = m]
      /\ UNCHANGED <<wall, mono, cache, since, granted>>

\* A defect: the cache is asked before the window is checked.
CheckTimeWindowLate(r) ==
  /\ Move(r, "window", IF mode[r] = "Consume" THEN "replay" ELSE "handler")
  /\ since' = [since EXCEPT ![r] = mono]
  /\ UNCHANGED <<wall, mono, cache, mode, body, verdict, granted>>

\* check_time_window; /settle goes on without the cache.
CheckTimeWindow(r) ==
  /\ \/ /\ mode[r] = "Consume"
        /\ Move(r, "window", "replay")
        /\ InWindow(body[r], wall)
        /\ since' = [since EXCEPT ![r] = mono]
        /\ UNCHANGED verdict
     \/ /\ mode[r] = "Skip"
        /\ Move(r, "window", "handler")
        /\ InWindow(body[r], wall)
        /\ UNCHANGED <<since, verdict>>
     \/ /\ Answer(r, "window", "outside_time_window")
        /\ ~InWindow(body[r], wall)
        /\ UNCHANGED since
  /\ UNCHANGED <<wall, mono, cache, mode, body, granted>>

\* Defects: a lookup that leaves the recording to a later step, and an entry
\* that lasts to the body's own validBefore.
CheckReplayLookup(r) ==
  /\ \/ /\ Answer(r, "replay", "nonce_replayed")
        /\ MayHit(cache[body[r].nonce], mono)
     \/ /\ Move(r, "replay", "handler")
        /\ MayMiss(cache[body[r].nonce], mono)
        /\ UNCHANGED verdict
  /\ UNCHANGED <<wall, mono, cache, mode, body, since, granted>>

CheckReplayToValidBefore(r) ==
  LET n == body[r].nonce
  IN  /\ Move(r, "replay", "handler")
      /\ MayMiss(cache[n], mono)
      /\ cache' = [cache EXCEPT ![n] = body[r].validBefore]
      /\ UNCHANGED <<wall, mono, mode, body, since, verdict, granted>>

\* check_replay: one call of ReplayCache::seen under the nonce's key.
CheckReplay(r) ==
  LET n == body[r].nonce
  IN  /\ \/ /\ Answer(r, "replay", "nonce_replayed")
            /\ MayHit(cache[n], mono)
            /\ \E until \in AfterHit(cache[n], mono) :
                 cache' = [cache EXCEPT ![n] = until]
         \/ /\ Move(r, "replay", "handler")
            /\ MayMiss(cache[n], mono)
            /\ cache' = [cache EXCEPT ![n] = AfterMiss(mono)]
            /\ UNCHANGED verdict
      /\ since' = [since EXCEPT ![r] = 0]
      /\ UNCHANGED <<wall, mono, mode, body, granted>>

\* SchemeHandler::verify.  Its Ok is the Ok of verify_envelope.
VerifyScheme(r) ==
  LET v == HandlerVerdict(body[r])
      grants == v = "ok" /\ mode[r] = "Consume"
  IN  /\ stage[r] = "handler"
      /\ stage' = [stage EXCEPT ![r] = IF v = "ok" THEN "verified" ELSE "answered"]
      /\ verdict' = [verdict EXCEPT ![r] = v]
      /\ granted' = IF grants
                    THEN [granted EXCEPT ![body[r]] = @ + 1]
                    ELSE granted
      /\ UNCHANGED <<wall, mono, cache, mode, body, since>>

\* The response goes out, after the work the handlers do on Ok.
Respond(r) ==
  /\ Move(r, "verified", "answered")
  /\ UNCHANGED <<wall, mono, cache, mode, body, since, verdict, granted>>

\* A defect: the slot is cleared and stays answered.
ReleaseBodyOnly(r) ==
  /\ stage[r] \in {"verified", "answered"}
  /\ body' = [body EXCEPT ![r] = NoBody]
  /\ UNCHANGED <<wall, mono, cache, stage, mode, since, verdict, granted>>

\* The connection is done with, before its answer when the client went away
\* at the await behind "verified", and the slot is free for a next request.
Release(r) ==
  /\ stage[r] \in {"verified", "answered"}
  /\ stage' = [stage EXCEPT ![r] = "idle"]
  /\ body' = [body EXCEPT ![r] = NoBody]
  /\ mode' = [mode EXCEPT ![r] = "Consume"]
  /\ since' = [since EXCEPT ![r] = 0]
  /\ verdict' = [verdict EXCEPT ![r] = "none"]
  /\ UNCHANGED <<wall, mono, cache, granted>>

-----------------------------------------------------------------------------
(***************************************************************************)
(* The environment: time, and the process.                                 *)
(***************************************************************************)
\* A second passes.  No task stays between clock and cache for more than
\* MaxStall: there is no await there, only preemption.
Tick ==
  /\ mono < MaxTime
  /\ \A r \in Requests : stage[r] = "replay" => mono - since[r] < MaxStall
  /\ mono' = mono + 1
  /\ wall' = wall + 1
  /\ UNCHANGED <<cache, reqVars, granted>>

\* SystemClock is the host's wall clock: it can be set, both ways.
StepClock ==
  /\ wall' \in mono .. mono + MaxDrift
  /\ wall' # wall
  /\ UNCHANGED <<mono, cache, reqVars, granted>>

\* The process restarts: its tasks and its cache are gone.
Restart ==
  /\ cache' = [n \in Nonces |-> Never]
  /\ stage' = [r \in Requests |-> "idle"]
  /\ mode' = [r \in Requests |-> "Consume"]
  /\ body' = [r \in Requests |-> NoBody]
  /\ since' = [r \in Requests |-> 0]
  /\ verdict' = [r \in Requests |-> "none"]
  /\ granted' = [b \in Bodies |-> 0]
  /\ UNCHANGED <<wall, mono>>

Step(r) ==
  \/ \E b \in Bodies, m \in Modes : Receive(r, b, m)
  \/ CheckTimeWindow(r)
  \/ CheckReplay(r)
  \/ VerifyScheme(r)
  \/ Respond(r)
  \/ Release(r)

Next ==
  \/ \E r \in Requests : Step(r)
  \/ Tick
  \/ StepClock
  \/ Restart

Spec == Init /\ [][Next]_vars

-----------------------------------------------------------------------------
(***************************************************************************)
(* Properties.                                                             *)
(***************************************************************************)
\* A replay TTL that is long enough.  An authorization can pass the window
\* check from Skew before its validAfter to Skew after its validBefore, and
\* the entry of its nonce must last over all of that, plus what the clocks
\* can drift and a task can be paused.
TTLOutlivesWindow ==
  ReplayTTL > MaxWindow + 2 * Skew + MaxDrift + MaxStall

\* In one process lifetime /verify answers valid at most once for a nonce,
\* however its requests interleave, repeat and are delayed, and whatever
\* other checks those requests fail (check_replay, verify.rs).
AtMostOnceAccepted ==
  \A b, c \in Bodies :
    b.nonce = c.nonce /\ granted[b] > 0 /\ granted[c] > 0 =>
      b = c /\ granted[b] = 1

\* "The cache MUST outlive any honest authorization's valid_before" (lib.rs,
\* DEFAULT_REPLAY_TTL): as long as some body of an accepted nonce can still
\* pass the window check, the entry of that nonce has not run out.
CacheOutlivesWindow ==
  \A b, c \in Bodies :
    granted[c] > 0 /\ c.nonce = b.nonce /\ InWindow(b, wall) =>
      mono < cache[b.nonce]

\* What with_replay_ttl documents: a TTL of "at least [...] the longest
\* `valid_before - valid_after` window [...], plus the clock-skew tolerance"
\* (lib.rs) keeps a nonce from being accepted twice.
DocumentedTTLSuffices ==
  ReplayTTL >= MaxWindow + Skew => AtMostOnceAccepted

\* "A clock-stale message doesn't pollute the cache" (verify_envelope): what
\* the cache holds was recorded for a well-formed body whose window, with the
\* tolerance, contained the time of the recording.
OnlyTimelyNonces ==
  \A n \in Nonces :
    cache[n] # Never =>
      \E b \in Bodies :
        LET recorded == cache[n] - ReplayTTL
        IN  /\ b.nonce = n
            /\ EnvelopeVerdict(b) = "ok"
            /\ b.validAfter <= recorded + Skew + MaxDrift
            /\ b.validBefore >= recorded - Skew - MaxStall

\* verify_envelope implements the promise of OncePerNonce.
Promise == INSTANCE OncePerNonce
ImplementsPromise == Promise!Spec
=============================================================================
