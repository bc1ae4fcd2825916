---------------------------- MODULE ReplayCache ----------------------------
(***************************************************************************)
(* The nonce cache behind `state.replay_cache`: `InMemoryReplayCache` of   *)
(* the external crate vesl-signing, modelled from the one call             *)
(* check_replay makes, `seen(&key, ttl)`: it says whether the key was      *)
(* recorded less than ttl ago and records it when it was not, as one       *)
(* atomic step.  Nothing here depends on what the crate leaves open:       *)
(*   - at exactly ttl after the recording both answers are possible, which *)
(*     also covers time the cache keeps at a finer grain than the model;   *)
(*   - a hit may or may not renew the entry.                               *)
(* The cache maps each key to the time its entry stops counting; Never is  *)
(* the value of a key that was not recorded.                               *)
(***************************************************************************)
EXTENDS Integers

CONSTANT ReplayTTL      \* AppState.replay_ttl, in seconds

ASSUME ReplayTTLInNat == ReplayTTL \in Nat

Never == -1

MayHit(until, now) == now <= until

MayMiss(until, now) == now >= until

\* What the entry of a key can be after `seen` answered TRUE.
AfterHit(until, now) == {until, now + ReplayTTL}

\* The entry after `seen` answered FALSE.
AfterMiss(now) == now + ReplayTTL
=============================================================================
