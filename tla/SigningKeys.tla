----------------------------- MODULE SigningKeys -----------------------------
(***************************************************************************)
(* The keys access tokens are signed with (services/identity-service/src/  *)
(* repo/signing-key.repo.ts, signing-key-rotation.ts, cli/rotate-signing-  *)
(* key-command.ts) and a gateway that verifies them by a cached JWKS       *)
(* (services/api-gateway/src/auth/access-token-verifier.ts).  Several      *)
(* copies and the operator advance the rotation: each reads which key      *)
(* signs, waits for its row's lock, and then acts in one transaction, by   *)
(* the time it took beforehand.                                            *)
(***************************************************************************)
EXTENDS Naturals, FiniteSets

CONSTANTS
  Copy,          \* the service's copies and the operator's command
  MaxKey,        \* bound: keys there are
  MaxMinute,     \* bound: the clock
  PublishAhead,  \* SIGNING_KEY_PUBLISH_AHEAD_MINUTES
  Overlap,       \* SIGNING_KEY_OVERLAP_DAYS
  TokenLife,     \* ACCESS_TOKEN_TTL_SECONDS
  CacheMaxAge,   \* JWKS_CACHE_MAX_AGE_MS
  Delay,         \* bound: how long a lock or an answer is waited for
  Alone          \* whether one copy starts before the others

ASSUME KeysAssumption ==
  /\ {MaxKey, MaxMinute, PublishAhead, Overlap, TokenLife, CacheMaxAge, Delay} \subseteq Nat
  /\ PublishAhead >= CacheMaxAge + 2 * Delay /\ Overlap >= TokenLife + Delay
  /\ Alone \in BOOLEAN

VARIABLES
  minute,   \* the time
  key,      \* signing_keys
  step,     \* what each copy is at
  cache,    \* the keys the gateway has, and since when
  fetch     \* the answer on its way to it

keyVars == <<minute, key, step, cache, fetch>>

KeyId == 1..MaxKey

(* time: created_at of a next key, activated_at of a current one and       *)
(* retired_at of a retired one.  History: when it last signed, and whether *)
(* it was published before it did.                                         *)
NoKey   == [at |-> "none", time |-> 0, signed |-> 0, ahead |-> FALSE]
NoStep  == [at |-> "none", id |-> 0, now |-> 0]
NoFetch == [at |-> 0, keys |-> {}, on |-> FALSE]

KeysTypeOK ==
  /\ minute \in 0..MaxMinute
  /\ key \in [KeyId -> [at : {"none", "next", "current", "retired", "revoked"},
                        time : Nat, signed : Nat, ahead : BOOLEAN]]
  /\ step \in [Copy -> [at : {"none", "starting", "advancing", "rotating", "revoking"},
                        id : 0..MaxKey, now : Nat]]
  /\ cache \in [keys : SUBSET KeyId, at : Nat]
  /\ fetch \in [on : BOOLEAN, keys : SUBSET KeyId, at : Nat]

KeysInit ==
  /\ minute = 0
  /\ key = [k \in KeyId |-> NoKey]
  /\ step = [c \in Copy |-> NoStep]
  /\ cache = [keys |-> {}, at |-> 0]
  /\ fetch = NoFetch

With(state) == {k \in KeyId : key[k].at = state}

(* The newest of the current keys: the one that signs.                     *)
Signing == {k \in With("current") : \A j \in With("current") : key[j].time <= key[k].time}

(* A key is generated and stored.                                          *)
Stored(keys, state, now) ==
  \E k \in With("none") :
    /\ \A j \in With("none") : k <= j
    /\ key' = [keys EXCEPT ![k] = [at |-> state, time |-> now, signed |-> 0, ahead |-> FALSE]]

Retire(k, now) == [at |-> "retired", time |-> now, signed |-> minute, ahead |-> key[k].ahead]

-----------------------------------------------------------------------------
(* ensureCurrentKey: looked for, and made if there is none. *)

Look(c) ==
  /\ step[c].at = "none" /\ With("current") = {} /\ (Alone => \A d \in Copy : step[d].at = "none")
  /\ step' = [step EXCEPT ![c] = [at |-> "starting", id |-> 0, now |-> minute]]
  /\ UNCHANGED <<minute, key, cache, fetch>>

EnsureCurrentKey(c) ==
  /\ step[c].at = "starting"
  /\ Stored(key, "current", minute)
  /\ step' = [step EXCEPT ![c] = NoStep]
  /\ UNCHANGED <<minute, cache, fetch>>

(* currentKeyId, and the time, before the lock.                            *)
Begin(c, what) ==
  /\ step[c].at = "none"
  /\ \E k \in Signing : step' = [step EXCEPT ![c] = [at |-> what, id |-> k, now |-> minute]]
  /\ UNCHANGED <<minute, key, cache, fetch>>

(* The key it read is still the current one (lockCurrent).                 *)
Holds(c) == step[c].id \in With("current")

Due(k, now) == now >= key[k].time + PublishAhead

Promoted(n, now) ==
  [k \in KeyId |-> CASE k = n -> [at |-> "current", time |-> now, signed |-> 0, ahead |-> TRUE]
                     [] k # n /\ k \in With("current") -> Retire(k, now)
                     [] OTHER -> key[k]]

(* advance: a next key that is due is promoted, one that is not waits; with*)
(* none, one is staged, if the current key is old enough (at any age: by   *)
(* the SIGNING_KEY_ROTATION_DAYS there are) or the operator says so.       *)
Advance(c) ==
  LET now == step[c].now
  IN  /\ step[c].at = "advancing"
      /\ \/ ~Holds(c) /\ key' = key
         \/ Holds(c) /\ With("next") = {} /\ (Stored(key, "next", now) \/ key' = key)
         \/ Holds(c) /\ (\E n \in With("next") : ~Due(n, now)) /\ key' = key
         \/ Holds(c) /\ (\E n \in With("next") : Due(n, now) /\ key' = Promoted(n, now))
      /\ step' = [step EXCEPT ![c] = NoStep]
      /\ UNCHANGED <<minute, cache, fetch>>

(* Every key there is retires, and is revoked if the operator says so.     *)
AllRetired(revokes) ==
  [k \in KeyId |-> CASE revokes /\ key[k].at # "none" -> [at |-> "revoked", time |-> 0, signed |-> 0, ahead |-> FALSE]
                     [] ~revokes /\ key[k].at \in {"next", "current"} -> Retire(k, minute)
                     [] OTHER -> key[k]]

(* rotateNow, begun again when the key had changed.                        *)
RotateNow(c) ==
  /\ step[c].at \in {"rotating", "revoking"}
  /\ IF Holds(c)
     THEN Stored(AllRetired(step[c].at = "revoking"), "current", minute) /\ step' = [step EXCEPT ![c] = NoStep]
     ELSE \E k \in Signing : key' = key /\ step' = [step EXCEPT ![c] = [at |-> @.at, id |-> k, now |-> minute]]
  /\ UNCHANGED <<minute, cache, fetch>>

-----------------------------------------------------------------------------
(* The JWKS, and the gateway's copy of it. *)

(* Defective: a retired key is published as long as a cache is kept.       *)
PublishBriefly ==
  {k \in KeyId : key[k].at \in {"next", "current"}
                   \/ (key[k].at = "retired" /\ key[k].time + CacheMaxAge > minute)}

(* forVerification. *)
Published ==
  {k \in KeyId : key[k].at \in {"next", "current"}
                   \/ (key[k].at = "retired" /\ key[k].time + Overlap > minute)}

InUse == cache.keys # {} /\ minute < cache.at + CacheMaxAge

(* Asked for again once it is too old, or for a key that is not in it.     *)
Fetch ==
  /\ ~fetch.on /\ (InUse => \E k \in Signing : k \notin cache.keys)
  /\ Published # {}
  /\ fetch' = [on |-> TRUE, keys |-> Published, at |-> minute]
  /\ UNCHANGED <<minute, key, step, cache>>

Cached ==
  /\ fetch.on
  /\ cache' = [keys |-> fetch.keys, at |-> minute]
  /\ fetch' = NoFetch
  /\ UNCHANGED <<minute, key, step>>

(* No lock and no answer takes longer than Delay.                          *)
Tick ==
  /\ minute < MaxMinute /\ minute' = minute + 1
  /\ \A c \in Copy : step[c].at # "none" => minute < step[c].now + Delay
  /\ fetch.on => minute < fetch.at + Delay
  /\ UNCHANGED <<key, step, cache, fetch>>

KeysNext ==
  \/ \E c \in Copy : Look(c) \/ EnsureCurrentKey(c) \/ Advance(c) \/ RotateNow(c)
  \/ \E c \in Copy, what \in {"advancing", "rotating", "revoking"} : Begin(c, what)
  \/ Fetch \/ Cached \/ Tick

KeysSpec == KeysInit /\ [][KeysNext]_keyVars

-----------------------------------------------------------------------------
(* Properties. *)

(* "The copies stage and promote exactly once between them" (signing-key-  *)
(* rotation.ts:54) and "a crash between the two must not leave zero        *)
(* current keys" (rotateNowOnce): whichever copies advance, rotate and     *)
(* revoke at once, one key signs, and at most one is staged.               *)
OneKeySigns ==
  /\ Cardinality(With("current")) <= 1 /\ Cardinality(With("next")) <= 1
  /\ With("current") = {} => \A k \in KeyId : key[k].at = "none"

(* "Every gateway has refetched the JWKS, and so holds the new key, before *)
(* the first token it signs arrives" (signing-key-rotation.ts:50): a cache *)
(* still in use has the key that signs, unless it was made to sign at once.*)
HeldBeforeUse ==
  InUse => \A k \in Signing : key[k].ahead => k \in cache.keys

(* "A token signed moments before a rotation must still verify after it"   *)
(* (forVerification): its key is published until it expires, unless        *)
(* revoked.                                                                *)
TokensVerify ==
  \A k \in With("retired") : minute < key[k].signed + TokenLife => k \in Published

(* Through any rotation, every token a gateway is shown within its life is *)
(* one it can verify, by the one key that signed at the time.              *)
KeysAreRight == KeysTypeOK /\ OneKeySigns /\ HeldBeforeUse /\ TokensVerify
=============================================================================
