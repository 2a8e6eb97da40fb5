---------------------------- MODULE AccountsProofs ----------------------------
(***************************************************************************)
(* Proofs about SigningKeys, for any copies, keys and times within         *)
(* KeysAssumption: types, that a key is held by every cache in use before  *)
(* it signs, that tokens verify until they expire, and, when one copy      *)
(* starts before the others, that one key signs.                           *)
(*                                                                         *)
(* Then about SignIn, for any requests, sessions, authenticators and links:*)
(* but for what overtakes a revocation, nobody is signed in by a password, *)
(* an account or a chain of tokens that is no longer good.  As in the runs,*)
(* a reset that has used its link goes through (Whole).                    *)
(*                                                                         *)
(* And about OrgLifecycle, for any resellers, tenants, requests and        *)
(* copies of the job: what is deleted is deleted once, for good and with   *)
(* nothing under it, only when its grace is over, and what was called off  *)
(* is as it was.  As in the runs, a deletion that was called off is not    *)
(* asked for again within a pass that had found it due (~Hurried).         *)
(*                                                                         *)
(* Then about Certificates, for any names, copies and batches: one worker  *)
(* asks for a certificate, none that is held is lost, and a name that was  *)
(* served stays served.  As in the runs, a batch is through before its     *)
(* lease runs out (InLease).                                               *)
(***************************************************************************)
EXTENDS SigningKeys, SignIn, OrgLifecycle, Certificates, FiniteSetTheorems, TLAPS

(* What the times say of one another.  What is under way was begun no more *)
(* than Delay ago, and nothing has a time to come.                         *)
InDelay ==
  /\ cache.at <= minute
  /\ \A c \in Copy : step[c].at # "none" => step[c].now <= minute /\ minute <= step[c].now + Delay
  /\ fetch.on => fetch.at <= minute /\ minute <= fetch.at + Delay

(* A staged key is in every JWKS read a Delay after it was staged, for its *)
(* row may be that much younger than its time.                             *)
StagedIsServed ==
  \A k \in With("next") :
    /\ fetch.on /\ fetch.at > key[k].time + Delay => k \in fetch.keys
    /\ cache.at > key[k].time + 2 * Delay => k \in cache.keys

(* A key that was published ahead and signs is in the cache in use and in  *)
(* the JWKS on its way to it.                                              *)
AheadIsHeld ==
  \A k \in With("current") :
    key[k].ahead =>
      /\ fetch.on /\ CacheMaxAge > 0 => k \in fetch.keys
      /\ InUse => k \in cache.keys

(* A retired key's time is hardly earlier than its last token.             *)
RetiredOnTime == \A k \in With("retired") : key[k].signed <= key[k].time + Delay

TimeInv == KeysTypeOK /\ InDelay /\ StagedIsServed /\ AheadIsHeld /\ RetiredOnTime

(* Without a key, a copy that starts is the only one at work.              *)
StartsAlone ==
  \A c \in Copy :
    step[c].at = "starting" =>
      With("current") = {} /\ \A d \in Copy \ {c} : step[d].at = "none"

(* OneKeySigns, without cardinalities.                                     *)
AtMostOne ==
  /\ \A j, k \in With("current") : j = k
  /\ \A j, k \in With("next") : j = k
  /\ With("current") = {} => \A k \in KeyId : key[k].at = "none"

-----------------------------------------------------------------------------
(* Types. *)

KeyRow == [at : {"none", "next", "current", "retired", "revoked"},
           time : Nat, signed : Nat, ahead : BOOLEAN]

StepRow == [at : {"none", "starting", "advancing", "rotating", "revoking"}, id : 0..MaxKey, now : Nat]

Constants ==
  /\ MaxKey \in Nat /\ MaxMinute \in Nat /\ PublishAhead \in Nat /\ Overlap \in Nat
  /\ TokenLife \in Nat /\ CacheMaxAge \in Nat /\ Delay \in Nat
  /\ PublishAhead >= CacheMaxAge + 2 * Delay /\ Overlap >= TokenLife + Delay

LEMMA ConstantsHold == Constants
  BY KeysAssumption DEF Constants

(* A stored key takes the place of one that is not there.                  *)
LEMMA StoredKey ==
  ASSUME NEW keys \in [KeyId -> KeyRow], NEW state \in {"next", "current"}, NEW now \in Nat,
         Stored(keys, state, now)
  PROVE  \E k \in With("none") :
           /\ key' = [keys EXCEPT ![k] = [at |-> state, time |-> now, signed |-> 0, ahead |-> FALSE]]
           /\ key' \in [KeyId -> KeyRow]
<1> DEFINE new == [at |-> state, time |-> now, signed |-> 0, ahead |-> FALSE]
<1>1. new \in KeyRow  BY DEF KeyRow
<1>2. PICK k \in With("none") : key' = [keys EXCEPT ![k] = new]  BY DEF Stored
<1> HIDE DEF new
<1>3. key' \in [KeyId -> KeyRow]  BY <1>1, <1>2
<1>4. QED  BY <1>2, <1>3 DEF new

LEMMA RetiredKey ==
  ASSUME KeysTypeOK, NEW k \in KeyId, NEW now \in Nat
  PROVE  Retire(k, now) \in KeyRow
<1>1. key[k].ahead \in BOOLEAN /\ minute \in Nat  BY ConstantsHold DEF KeysTypeOK, Constants
<1>2. QED  BY <1>1 DEF Retire, KeyRow

(* What each change of the keys does, key by key.                          *)
LEMMA PromotedKeys ==
  ASSUME KeysTypeOK, NEW n \in With("next"), NEW now \in Nat
  PROVE  /\ Promoted(n, now) \in [KeyId -> KeyRow]
         /\ Promoted(n, now)[n] = [at |-> "current", time |-> now, signed |-> 0, ahead |-> TRUE]
         /\ \A k \in KeyId \ {n} :
              Promoted(n, now)[k] = IF k \in With("current") THEN Retire(k, now) ELSE key[k]
<1>2. key \in [KeyId -> KeyRow] /\ n \in KeyId  BY DEF KeysTypeOK, KeyRow, With
<1>3. \A k \in KeyId : Retire(k, now) \in KeyRow  BY RetiredKey
<1>4. [at |-> "current", time |-> now, signed |-> 0, ahead |-> TRUE] \in KeyRow  BY DEF KeyRow
<1>5. QED  BY <1>2, <1>3, <1>4 DEF Promoted

LEMMA AllRetiredKeys ==
  ASSUME KeysTypeOK, NEW revokes \in BOOLEAN
  PROVE  /\ AllRetired(revokes) \in [KeyId -> KeyRow]
         /\ \A k \in KeyId :
              /\ AllRetired(revokes)[k].at \notin {"next", "current"}
              /\ key[k].at = "none" => AllRetired(revokes)[k] = key[k]
              /\ AllRetired(revokes)[k].at = "retired" =>
                   AllRetired(revokes)[k] = key[k] \/ AllRetired(revokes)[k] = Retire(k, minute)
<1>1. key \in [KeyId -> KeyRow] /\ minute \in Nat
  BY ConstantsHold DEF KeysTypeOK, KeyRow, Constants
<1>2. \A k \in KeyId : Retire(k, minute) \in KeyRow /\ Retire(k, minute).at = "retired"
  <2> TAKE k \in KeyId
  <2>1. QED  BY <1>1, RetiredKey DEF Retire
<1>4. [at |-> "revoked", time |-> 0, signed |-> 0, ahead |-> FALSE] \in KeyRow  BY DEF KeyRow
<1>5. \A k \in KeyId : key[k].at \in {"none", "next", "current", "retired", "revoked"}
  BY <1>1 DEF KeyRow
<1>6. QED  BY <1>1, <1>2, <1>4, <1>5 DEF AllRetired

-----------------------------------------------------------------------------
(* What every step does to the keys: one of five things.                   *)

(* One that was not there is made the current one, or staged.              *)
Makes(state, now) ==
  \E k \in With("none") :
    key' = [key EXCEPT ![k] = [at |-> state, time |-> now, signed |-> 0, ahead |-> FALSE]]

(* All there are retire or are revoked, and one is made.                   *)
Replaces(revokes) ==
  \E k \in With("none") :
    key' = [AllRetired(revokes) EXCEPT
              ![k] = [at |-> "current", time |-> minute, signed |-> 0, ahead |-> FALSE]]

LEMMA StepsChangeKeys ==
  ASSUME KeysTypeOK, InDelay, KeysNext
  PROVE  /\ key' \in [KeyId -> KeyRow]
         /\ \/ key' = key
            \/ \E c \in Copy : step[c].at = "starting" /\ step'[c] = NoStep /\ Makes("current", minute)
            \/ \E c \in Copy : /\ step[c].at = "advancing" /\ With("next") = {}
                               /\ Holds(c) /\ Makes("next", step[c].now)
            \/ \E c \in Copy : /\ step[c].at = "advancing" /\ Holds(c)
                               /\ \E n \in With("next") : /\ Due(n, step[c].now)
                                                          /\ key' = Promoted(n, step[c].now)
            \/ \E c \in Copy : /\ step[c].at \in {"rotating", "revoking"} /\ Holds(c)
                               /\ Replaces(step[c].at = "revoking")
<1>1. /\ key \in [KeyId -> KeyRow] /\ minute \in Nat
      /\ \A c \in Copy : step[c].now \in Nat /\ (step[c].at = "revoking") \in BOOLEAN
  BY ConstantsHold DEF KeysTypeOK, KeyRow, Constants
<1>2. ASSUME NEW c \in Copy, EnsureCurrentKey(c)
      PROVE  /\ key' \in [KeyId -> KeyRow] /\ step'[c] = NoStep
             /\ step[c].at = "starting" /\ Makes("current", minute)
  <2>1. Stored(key, "current", minute)  BY <1>2 DEF EnsureCurrentKey
  <2>2. key' \in [KeyId -> KeyRow] /\ Makes("current", minute)  BY <1>1, <2>1, StoredKey DEF Makes
  <2>3. QED  BY <1>2, <2>2 DEF EnsureCurrentKey, KeysTypeOK
<1>3. ASSUME NEW c \in Copy, Advance(c)
      PROVE  /\ key' \in [KeyId -> KeyRow]
             /\ step[c].at = "advancing"
             /\ \/ key' = key
                \/ With("next") = {} /\ Holds(c) /\ Makes("next", step[c].now)
                \/ Holds(c) /\ (\E n \in With("next") : /\ Due(n, step[c].now)
                                                        /\ key' = Promoted(n, step[c].now))
  <2>1. step[c].at = "advancing"  BY <1>3 DEF Advance
  <2>2. CASE key' = key  BY <1>1, <2>1, <2>2
  <2>3. CASE Holds(c) /\ With("next") = {} /\ Stored(key, "next", step[c].now)
    BY <1>1, <2>1, <2>3, StoredKey DEF Makes
  <2>4. CASE Holds(c) /\ (\E n \in With("next") : Due(n, step[c].now) /\ key' = Promoted(n, step[c].now))
    <3>1. PICK n \in With("next") : Due(n, step[c].now) /\ key' = Promoted(n, step[c].now)  BY <2>4
    <3>2. Promoted(n, step[c].now) \in [KeyId -> KeyRow]  BY <1>1, PromotedKeys
    <3>3. QED  BY <2>1, <2>4, <3>1, <3>2
  <2>5. QED  BY <1>3, <2>2, <2>3, <2>4 DEF Advance
<1>4. ASSUME NEW c \in Copy, RotateNow(c)
      PROVE  /\ key' \in [KeyId -> KeyRow]
             /\ \/ key' = key
                \/ /\ step[c].at \in {"rotating", "revoking"} /\ Holds(c)
                   /\ Replaces(step[c].at = "revoking")
  <2>1. CASE Holds(c)
    <3>1. Stored(AllRetired(step[c].at = "revoking"), "current", minute)  BY <1>4, <2>1 DEF RotateNow
    <3>2. AllRetired(step[c].at = "revoking") \in [KeyId -> KeyRow]  BY <1>1, AllRetiredKeys
    <3>3. key' \in [KeyId -> KeyRow] /\ Replaces(step[c].at = "revoking")
      BY <1>1, <3>1, <3>2, StoredKey DEF Replaces
    <3>4. QED  BY <1>4, <2>1, <3>3 DEF RotateNow
  <2>2. CASE ~Holds(c)  BY <1>1, <1>4, <2>2 DEF RotateNow
  <2>3. QED  BY <2>1, <2>2
<1>5. QED  BY <1>1, <1>2, <1>3, <1>4 DEF KeysNext, Look, Begin, Fetch, Cached, Tick

(* The rest of the state: what is under way, and the gateway's.            *)
LEMMA TypesKept ==
  ASSUME KeysTypeOK, InDelay, KeysNext
  PROVE  KeysTypeOK' /\ InDelay'
<1>1. /\ minute \in 0..MaxMinute /\ key' \in [KeyId -> KeyRow] /\ step \in [Copy -> StepRow]
      /\ cache \in [keys : SUBSET KeyId, at : Nat]
      /\ fetch \in [on : BOOLEAN, keys : SUBSET KeyId, at : Nat]
  BY StepsChangeKeys DEF KeysTypeOK, StepRow
<1>2. minute \in Nat /\ Delay \in Nat /\ MaxMinute \in Nat /\ MaxKey \in Nat
  BY <1>1, ConstantsHold DEF Constants
<1>3. NoStep \in StepRow /\ NoStep.at = "none"  BY <1>2 DEF NoStep, StepRow
<1>4. KeyId \subseteq 0..MaxKey /\ 0 \in 0..MaxKey  BY <1>2 DEF KeyId
<1> DEFINE Steps == step' \in [Copy -> StepRow]
           InTime == \A c \in Copy : step'[c].at # "none" =>
                       step'[c].now <= minute /\ minute <= step'[c].now + Delay
<1>5. ASSUME NEW c \in Copy, NEW r \in StepRow, step' = [step EXCEPT ![c] = r],
             r.at = "none" \/ r.now = minute
      PROVE  Steps /\ InTime
  BY <1>1, <1>2, <1>5 DEF InDelay, StepRow
<1>6. ASSUME NEW c \in Copy, Look(c) \/ (\E what \in {"advancing", "rotating", "revoking"} : Begin(c, what))
      PROVE  Steps /\ InTime
  <2>1. PICK k \in 0..MaxKey, what \in {"starting", "advancing", "rotating", "revoking"} :
          step' = [step EXCEPT ![c] = [at |-> what, id |-> k, now |-> minute]]
    BY <1>4, <1>6 DEF Look, Begin, Signing, With
  <2>2. [at |-> what, id |-> k, now |-> minute] \in StepRow  BY <1>2 DEF StepRow
  <2>3. QED  BY <1>5, <2>1, <2>2
<1>7. ASSUME NEW c \in Copy, EnsureCurrentKey(c) \/ Advance(c)
      PROVE  Steps /\ InTime
  BY <1>3, <1>5, <1>7 DEF EnsureCurrentKey, Advance
<1>8. ASSUME NEW c \in Copy, RotateNow(c)
      PROVE  Steps /\ InTime
  <2>1. CASE Holds(c)  BY <1>3, <1>5, <1>8, <2>1 DEF RotateNow
  <2>2. CASE ~Holds(c)
    <3>1. PICK k \in KeyId : step' = [step EXCEPT ![c] = [at |-> step[c].at, id |-> k, now |-> minute]]
      BY <1>8, <2>2 DEF RotateNow, Signing, With
    <3>2. [at |-> step[c].at, id |-> k, now |-> minute] \in StepRow  BY <1>1, <1>2, <1>4 DEF StepRow
    <3>3. QED  BY <1>5, <3>1, <3>2
  <2>3. QED  BY <2>1, <2>2
<1>9. ASSUME NEW c \in Copy,
             \/ Look(c) \/ EnsureCurrentKey(c) \/ Advance(c) \/ RotateNow(c)
             \/ \E what \in {"advancing", "rotating", "revoking"} : Begin(c, what)
      PROVE  KeysTypeOK' /\ InDelay'
  <2>1. UNCHANGED <<minute, cache, fetch>>
    BY <1>9 DEF Look, EnsureCurrentKey, Advance, RotateNow, Begin
  <2>2. Steps /\ InTime  BY <1>6, <1>7, <1>8, <1>9
  <2>3. KeysTypeOK'  BY <1>1, <2>1, <2>2 DEF KeysTypeOK, KeyRow, StepRow
  <2>4. InDelay'  BY <2>1, <2>2 DEF InDelay
  <2>5. QED  BY <2>3, <2>4
<1>10. CASE Fetch
  <2>1. Published \in SUBSET KeyId  BY DEF Published
  <2>2. fetch' \in [on : BOOLEAN, keys : SUBSET KeyId, at : Nat] /\ fetch'.at = minute
    BY <1>2, <1>10, <2>1 DEF Fetch
  <2>3. KeysTypeOK'  BY <1>1, <1>10, <2>2 DEF Fetch, KeysTypeOK, KeyRow, StepRow
  <2>4. InDelay'  BY <1>2, <1>10, <2>2 DEF Fetch, InDelay
  <2>5. QED  BY <2>3, <2>4
<1>11. CASE Cached
  <2>1. cache' \in [keys : SUBSET KeyId, at : Nat] /\ cache'.at = minute
    BY <1>1, <1>2, <1>11 DEF Cached
  <2>2. fetch' \in [on : BOOLEAN, keys : SUBSET KeyId, at : Nat] /\ ~fetch'.on
    BY <1>11 DEF Cached, NoFetch
  <2>3. KeysTypeOK'  BY <1>1, <1>11, <2>1, <2>2 DEF Cached, KeysTypeOK, KeyRow, StepRow
  <2>4. InDelay'  BY <1>2, <1>11, <2>1, <2>2 DEF Cached, InDelay
  <2>5. QED  BY <2>3, <2>4
<1>12. CASE Tick
  <2>1. minute' \in 0..MaxMinute  BY <1>2, <1>12, SMT DEF Tick
  <2>2. KeysTypeOK'  BY <1>1, <1>12, <2>1 DEF Tick, KeysTypeOK, KeyRow, StepRow
  <2>3. /\ \A c \in Copy : step[c].now \in Nat
        /\ cache.at \in Nat /\ fetch.at \in Nat
    BY <1>1 DEF StepRow
  <2>4. InDelay'  BY <1>2, <1>12, <2>3 DEF Tick, InDelay
  <2>5. QED  BY <2>2, <2>4
<1>13. QED  BY <1>9, <1>10, <1>11, <1>12 DEF KeysNext

-----------------------------------------------------------------------------
(* The times and the keys. *)

(* What a change of the keys leaves of the three parts that speak of them, *)
(* the JWKS there are staying as they are.                                 *)
LEMMA KeyStep ==
  ASSUME TimeInv, KeysNext, UNCHANGED <<minute, cache, fetch>>
  PROVE  StagedIsServed' /\ AheadIsHeld' /\ RetiredOnTime'
<1> USE DEF TimeInv
<1>1. /\ key \in [KeyId -> KeyRow] /\ step \in [Copy -> StepRow] /\ minute \in Nat
      /\ fetch.at \in Nat /\ cache.at \in Nat /\ fetch.on \in BOOLEAN
  BY ConstantsHold DEF KeysTypeOK, KeyRow, StepRow, Constants
<1>2. /\ Delay \in Nat /\ CacheMaxAge \in Nat /\ PublishAhead \in Nat
      /\ PublishAhead >= CacheMaxAge + 2 * Delay
  BY ConstantsHold DEF Constants
<1>3. \A k \in KeyId : key[k].time \in Nat /\ key[k].signed \in Nat  BY <1>1 DEF KeyRow
<1>4. cache.at <= minute /\ (fetch.on => fetch.at <= minute /\ minute <= fetch.at + Delay)
  BY DEF InDelay
<1> DEFINE Staged(k) == /\ fetch.on /\ fetch.at > key'[k].time + Delay => k \in fetch.keys
                        /\ cache.at > key'[k].time + 2 * Delay => k \in cache.keys
           Ahead(k)  == key'[k].ahead => /\ fetch.on /\ CacheMaxAge > 0 => k \in fetch.keys
                                         /\ InUse => k \in cache.keys
           OnTime(k) == key'[k].signed <= key'[k].time + Delay
           Right(k)  == /\ key'[k].at = "next" => Staged(k)
                        /\ key'[k].at = "current" => Ahead(k)
                        /\ key'[k].at = "retired" => OnTime(k)
<1>5. SUFFICES ASSUME NEW k \in KeyId PROVE Right(k)
  BY DEF StagedIsServed, AheadIsHeld, RetiredOnTime, With, InUse
<1>6. ASSUME key'[k] = key[k] PROVE Right(k)
  BY <1>6 DEF StagedIsServed, AheadIsHeld, RetiredOnTime, With
<1>7. ASSUME NEW now \in Nat, minute <= now + Delay, key'[k] = Retire(k, now)
      PROVE  Right(k)
  BY <1>1, <1>2, <1>7 DEF Retire
<1>8. ASSUME NEW j \in KeyId, NEW state \in {"next", "current"}, NEW now \in Nat,
             minute <= now + Delay, NEW keys \in [KeyId -> KeyRow],
             key' = [keys EXCEPT ![j] = [at |-> state, time |-> now, signed |-> 0, ahead |-> FALSE]],
             k # j => Right(k)
      PROVE  Right(k)
  <2>1. CASE k = j
    <3>1. key'[k].at = state /\ key'[k].time = now /\ key'[k].ahead = FALSE  BY <1>8, <2>1
    <3>2. ~(fetch.at > now + Delay /\ fetch.on) /\ ~(cache.at > now + 2 * Delay)
      BY <1>1, <1>2, <1>4, <1>8
    <3>3. QED  BY <3>1, <3>2
  <2>2. QED  BY <1>8, <2>1
<1> HIDE DEF Right
<1>9. \A c \in Copy : step[c].at # "none" =>
        step[c].now \in Nat /\ step[c].now <= minute /\ minute <= step[c].now + Delay
  BY <1>1 DEF InDelay, StepRow
<1>10. minute <= minute + Delay  BY <1>1, <1>2
<1>11. ASSUME NEW state \in {"next", "current"}, NEW now \in Nat, minute <= now + Delay,
              Makes(state, now)
       PROVE  Right(k)
  <2>1. PICK j \in With("none") :
          key' = [key EXCEPT ![j] = [at |-> state, time |-> now, signed |-> 0, ahead |-> FALSE]]
    BY <1>11 DEF Makes
  <2>2. j \in KeyId  BY DEF With
  <2>3. k # j => key'[k] = key[k]  BY <1>1, <2>1, <2>2
  <2>4. QED  BY <1>1, <1>6, <1>8, <1>11, <2>1, <2>2, <2>3
<1>12. ASSUME NEW revokes \in BOOLEAN, Replaces(revokes)
       PROVE  Right(k)
  <2>1. PICK j \in With("none") :
          key' = [AllRetired(revokes) EXCEPT
                    ![j] = [at |-> "current", time |-> minute, signed |-> 0, ahead |-> FALSE]]
    BY <1>12 DEF Replaces
  <2>2. j \in KeyId  BY DEF With
  <2>3. /\ AllRetired(revokes) \in [KeyId -> KeyRow]
        /\ AllRetired(revokes)[k].at \notin {"next", "current"}
        /\ AllRetired(revokes)[k].at = "retired" =>
             AllRetired(revokes)[k] = key[k] \/ AllRetired(revokes)[k] = Retire(k, minute)
    BY AllRetiredKeys
  <2>4. k # j => key'[k] = AllRetired(revokes)[k]  BY <2>1, <2>2, <2>3
  <2>5. k # j => Right(k)
    <3>1. CASE key'[k].at = "retired"  BY <1>1, <1>6, <1>7, <1>10, <2>3, <2>4, <3>1
    <3>2. CASE key'[k].at # "retired"  BY <2>3, <2>4, <3>2 DEF Right
    <3>3. QED  BY <3>1, <3>2
  <2>6. QED  BY <1>1, <1>8, <1>10, <2>1, <2>2, <2>3, <2>5
<1>13. ASSUME NEW n \in With("next"), NEW now \in Nat, now <= minute, minute <= now + Delay,
              Due(n, now), key' = Promoted(n, now)
       PROVE  Right(k)
  <2>1. /\ Promoted(n, now)[n] = [at |-> "current", time |-> now, signed |-> 0, ahead |-> TRUE]
        /\ \A i \in KeyId \ {n} :
             Promoted(n, now)[i] = IF i \in With("current") THEN Retire(i, now) ELSE key[i]
    BY <1>13, PromotedKeys
  <2>2. CASE k = n
    <3>1. key'[k].at = "current"  BY <1>13, <2>1, <2>2
    <3>2. n \in KeyId /\ minute >= key[n].time + CacheMaxAge + 2 * Delay
      <4>1. n \in KeyId  BY DEF With
      <4>2. now >= key[n].time + PublishAhead  BY <1>13 DEF Due
      <4>3. QED  BY <1>1, <1>2, <1>3, <1>13, <4>1, <4>2
    <3>3. fetch.on /\ CacheMaxAge > 0 => n \in fetch.keys
      <4>1. fetch.on /\ CacheMaxAge > 0 => fetch.at > key[n].time + Delay
        BY <1>1, <1>2, <1>3, <1>4, <3>2
      <4>2. QED  BY <4>1 DEF StagedIsServed
    <3>4. InUse => n \in cache.keys
      <4>1. InUse => cache.at > key[n].time + 2 * Delay  BY <1>1, <1>2, <1>3, <3>2 DEF InUse
      <4>2. QED  BY <4>1 DEF StagedIsServed
    <3>5. QED  BY <2>2, <3>1, <3>3, <3>4 DEF Right
  <2>3. CASE k # n  BY <1>6, <1>7, <1>13, <2>1, <2>3
  <2>4. QED  BY <2>2, <2>3
<1>14. QED
  <2>1. CASE key' = key  BY <1>6, <2>1
  <2>2. ASSUME NEW c \in Copy, step[c].at \in {"starting", "advancing", "rotating", "revoking"}
        PROVE  step[c].now \in Nat /\ step[c].now <= minute /\ minute <= step[c].now + Delay
    BY <1>9, <2>2
  <2>3. CASE \E c \in Copy : Makes("current", minute)  BY <1>1, <1>10, <1>11, <2>3
  <2>4. CASE \E c \in Copy : step[c].at = "advancing" /\ Makes("next", step[c].now)
    BY <1>11, <2>2, <2>4
  <2>5. CASE \E c \in Copy : step[c].at = "advancing"
               /\ \E n \in With("next") : Due(n, step[c].now) /\ key' = Promoted(n, step[c].now)
    BY <1>13, <2>2, <2>5
  <2>6. CASE \E revokes \in BOOLEAN : Replaces(revokes)  BY <1>12, <2>6
  <2>7. \A c \in Copy : (step[c].at = "revoking") \in BOOLEAN  OBVIOUS
  <2>8. QED  BY <2>1, <2>3, <2>4, <2>5, <2>6, <2>7, StepsChangeKeys

LEMMA TimeInit == KeysInit => TimeInv
<1> SUFFICES ASSUME KeysInit PROVE TimeInv  OBVIOUS
<1>1. 0 \in 0..MaxMinute /\ 0 \in 0..MaxKey  BY ConstantsHold DEF Constants
<1>2. KeysTypeOK  BY <1>1 DEF KeysInit, KeysTypeOK, NoKey, NoStep, NoFetch
<1>3. \A k \in KeyId : key[k].at = "none"  BY DEF KeysInit, NoKey
<1>4. InDelay  BY DEF KeysInit, InDelay, NoStep, NoFetch
<1>5. QED  BY <1>2, <1>3, <1>4 DEF TimeInv, StagedIsServed, AheadIsHeld, RetiredOnTime, With

LEMMA TimeNext == TimeInv /\ [KeysNext]_keyVars => TimeInv'
<1> SUFFICES ASSUME TimeInv, [KeysNext]_keyVars PROVE TimeInv'  OBVIOUS
<1>1. CASE UNCHANGED keyVars
  BY <1>1 DEF keyVars, TimeInv, KeysTypeOK, InDelay, StagedIsServed, AheadIsHeld, RetiredOnTime, With, InUse
<1>2. CASE KeysNext
  <2>1. KeysTypeOK' /\ InDelay'  BY <1>2, TypesKept DEF TimeInv
  <2>2. /\ minute \in Nat /\ Delay \in Nat /\ CacheMaxAge \in Nat
        /\ cache.at \in Nat /\ fetch.at \in Nat
        /\ \A k \in KeyId : key[k].time \in Nat
    BY ConstantsHold DEF TimeInv, KeysTypeOK, Constants
  <2>3. CASE Fetch
    <3>1. /\ key' = key /\ cache' = cache /\ minute' = minute
          /\ fetch'.keys = Published /\ InUse' = InUse
      BY <2>3 DEF Fetch, InUse
    <3>2. With("next") \cup With("current") \subseteq Published  BY DEF With, Published
    <3>3. QED
      BY <2>1, <3>1, <3>2 DEF TimeInv, StagedIsServed, AheadIsHeld, RetiredOnTime, With
  <2>4. CASE Cached
    <3>1. /\ key' = key /\ minute' = minute /\ cache'.keys = fetch.keys /\ cache'.at = minute
          /\ fetch.on /\ ~fetch'.on
      BY <2>4 DEF Cached, NoFetch
    <3>2. minute <= fetch.at + Delay  BY <3>1 DEF TimeInv, InDelay
    <3>3. StagedIsServed'
      <4>1. ASSUME NEW k \in With("next"), minute > key[k].time + 2 * Delay
            PROVE  k \in fetch.keys
        <5>1. k \in KeyId  BY DEF With
        <5>2. fetch.at > key[k].time + Delay  BY <2>2, <3>2, <4>1, <5>1
        <5>3. QED  BY <3>1, <5>2 DEF TimeInv, StagedIsServed
      <4>2. QED  BY <3>1, <4>1 DEF StagedIsServed, With
    <3>4. AheadIsHeld'
      <4>1. InUse' => CacheMaxAge > 0  BY <2>2, <3>1 DEF InUse
      <4>2. QED  BY <3>1, <4>1 DEF TimeInv, AheadIsHeld, With
    <3>5. QED  BY <2>1, <3>1, <3>3, <3>4 DEF TimeInv, RetiredOnTime, With
  <2>5. CASE Tick
    <3>1. /\ key' = key /\ cache' = cache /\ fetch' = fetch /\ (InUse' => InUse)
      BY <2>2, <2>5 DEF Tick, InUse
    <3>2. QED  BY <2>1, <3>1 DEF TimeInv, StagedIsServed, AheadIsHeld, RetiredOnTime, With
  <2>6. CASE UNCHANGED <<minute, cache, fetch>>  BY <1>2, <2>1, <2>6, KeyStep DEF TimeInv
  <2>7. QED
    BY <1>2, <2>3, <2>4, <2>5, <2>6
       DEF KeysNext, Look, EnsureCurrentKey, Advance, RotateNow, Begin
<1>3. QED  BY <1>1, <1>2

LEMMA TimeImplies == TimeInv => HeldBeforeUse /\ TokensVerify
<1> SUFFICES ASSUME TimeInv PROVE HeldBeforeUse /\ TokensVerify  OBVIOUS
<1>1. HeldBeforeUse  BY DEF TimeInv, HeldBeforeUse, AheadIsHeld, Signing
<1>2. ASSUME NEW k \in With("retired"), minute < key[k].signed + TokenLife
      PROVE  k \in Published
  <2>1. k \in KeyId /\ key[k].at = "retired"  BY DEF With
  <2>2. key[k].signed <= key[k].time + Delay  BY DEF TimeInv, RetiredOnTime
  <2>3. /\ key[k].signed \in Nat /\ key[k].time \in Nat /\ minute \in Nat
        /\ TokenLife \in Nat /\ Delay \in Nat /\ Overlap \in Nat /\ Overlap >= TokenLife + Delay
    BY <2>1, ConstantsHold DEF TimeInv, KeysTypeOK, Constants
  <2>4. key[k].time + Overlap > minute  BY <1>2, <2>2, <2>3
  <2>5. QED  BY <2>1, <2>4 DEF Published
<1>3. QED  BY <1>1, <1>2 DEF TokensVerify

(* A cache in use holds the key that signs, unless it was made to sign at  *)
(* once (signing-key-rotation.ts:50): whichever copies rotate, revoke and  *)
(* start at once, and however many keys they make.                         *)
THEOREM HeldBeforeUseHolds == KeysSpec => []HeldBeforeUse
<1>1. QED  BY TimeInit, TimeNext, TimeImplies, PTL DEF KeysSpec

(* The key of a token that has not expired is published, unless revoked    *)
(* (forVerification).                                                      *)
THEOREM TokensVerifyHolds == KeysSpec => []TokensVerify
<1>1. QED  BY TimeInit, TimeNext, TimeImplies, PTL DEF KeysSpec

(* The typing of the keys, and what the times say of one another.          *)
THEOREM TimeInvHolds == KeysSpec => []TimeInv
<1>1. QED  BY TimeInit, TimeNext, PTL DEF KeysSpec

-----------------------------------------------------------------------------
(* One key signs. *)

OneInv == KeysTypeOK /\ InDelay /\ StartsAlone /\ AtMostOne

LEMMA OneNext == Alone /\ OneInv /\ [KeysNext]_keyVars => OneInv'
<1> SUFFICES ASSUME Alone, OneInv, [KeysNext]_keyVars PROVE OneInv'  OBVIOUS
<1> USE DEF OneInv
<1>1. CASE UNCHANGED keyVars
  BY <1>1 DEF keyVars, KeysTypeOK, InDelay, StartsAlone, AtMostOne, With
<1>2. CASE KeysNext
  <2>1. KeysTypeOK' /\ InDelay'  BY <1>2, TypesKept
  <2>2. /\ key \in [KeyId -> KeyRow] /\ key' \in [KeyId -> KeyRow]
        /\ step \in [Copy -> StepRow] /\ step' \in [Copy -> StepRow]
    BY <2>1 DEF KeysTypeOK, KeyRow, StepRow
  <2>3. AtMostOne'
    <3>1. CASE key' = key  BY <3>1 DEF AtMostOne, With
    <3>2. ASSUME NEW c \in Copy, step[c].at = "starting", Makes("current", minute)
          PROVE  AtMostOne'
      <4>1. \A k \in KeyId : key[k].at = "none"  BY <3>2 DEF StartsAlone, AtMostOne
      <4>2. QED  BY <2>2, <3>2, <4>1 DEF Makes, AtMostOne, With
    <3>3. ASSUME NEW c \in Copy, With("next") = {}, Holds(c), Makes("next", step[c].now)
          PROVE  AtMostOne'
      <4>1. PICK i \in KeyId : key[i].at = "current"  BY <3>3 DEF Holds, With
      <4>2. PICK k \in With("none") :
              key' = [key EXCEPT ![k] = [at |-> "next", time |-> step[c].now, signed |-> 0, ahead |-> FALSE]]
        BY <3>3 DEF Makes
      <4>3. /\ key'[k].at = "next" /\ \A j \in KeyId \ {k} : key'[j] = key[j]
            /\ k # i /\ k \in KeyId /\ key[k].at = "none"
        BY <2>2, <4>1, <4>2 DEF With
      <4>4. QED  BY <3>3, <4>1, <4>3 DEF AtMostOne, With
    <3>4. ASSUME NEW now \in Nat, NEW n \in With("next"), key' = Promoted(n, now)
          PROVE  AtMostOne'
      <4>1. /\ Promoted(n, now)[n] = [at |-> "current", time |-> now, signed |-> 0, ahead |-> TRUE]
            /\ \A j \in KeyId \ {n} :
                 Promoted(n, now)[j] = IF j \in With("current") THEN Retire(j, now) ELSE key[j]
        BY PromotedKeys
      <4>2. ASSUME NEW j \in KeyId \ {n} PROVE key'[j].at \notin {"current", "next"}
        <5>1. CASE j \in With("current")
          <6>1. key'[j] = Retire(j, now)  BY <3>4, <4>1, <5>1
          <6>2. QED  BY <6>1 DEF Retire
        <5>2. CASE j \notin With("current")
          <6>1. key'[j] = key[j]  BY <3>4, <4>1, <5>2
          <6>2. key[j].at # "next"  BY <3>4 DEF AtMostOne, With
          <6>3. QED  BY <5>2, <6>1, <6>2 DEF With
        <5>3. QED  BY <5>1, <5>2
      <4>3. n \in KeyId  BY DEF With
      <4>4. key'[n].at = "current"  BY <3>4, <4>1
      <4>5. QED  BY <4>2, <4>3, <4>4 DEF AtMostOne, With
    <3>5. ASSUME NEW revokes \in BOOLEAN, Replaces(revokes)
          PROVE  AtMostOne'
      <4>1. PICK k \in With("none") :
              key' = [AllRetired(revokes) EXCEPT
                        ![k] = [at |-> "current", time |-> minute, signed |-> 0, ahead |-> FALSE]]
        BY <3>5 DEF Replaces
      <4>2. /\ AllRetired(revokes) \in [KeyId -> KeyRow]
            /\ \A j \in KeyId : AllRetired(revokes)[j].at \notin {"next", "current"}
        BY AllRetiredKeys
      <4>3. /\ k \in KeyId /\ key'[k].at = "current"
            /\ \A j \in KeyId \ {k} : key'[j].at \notin {"next", "current"}
        BY <4>1, <4>2 DEF With
      <4>4. QED  BY <4>3 DEF AtMostOne, With
    <3>6. \A c \in Copy : (step[c].at = "revoking") \in BOOLEAN /\ step[c].now \in Nat
      BY <2>2 DEF StepRow
    <3>7. CASE \E c \in Copy : \E n \in With("next") : key' = Promoted(n, step[c].now)
      BY <3>4, <3>6, <3>7
    <3>8. CASE \E c \in Copy : Replaces(step[c].at = "revoking")  BY <3>5, <3>6, <3>8
    <3>9. QED  BY <1>2, <3>1, <3>2, <3>3, <3>7, <3>8, StepsChangeKeys
  <2>4. StartsAlone'
    <3>1. ASSUME NEW c \in Copy, Look(c)
          PROVE  StartsAlone'
      BY <2>2, <3>1 DEF Look, StartsAlone, With
    <3>2. ASSUME NEW c \in Copy, EnsureCurrentKey(c)
          PROVE  StartsAlone'
      <4>1. \A d \in Copy : step'[d].at = "none"
        BY <2>2, <3>2 DEF EnsureCurrentKey, StartsAlone, NoStep
      <4>2. QED  BY <4>1 DEF StartsAlone
    <3>3. ASSUME NEW c \in Copy,
                 \/ Advance(c) \/ RotateNow(c)
                 \/ \E what \in {"advancing", "rotating", "revoking"} : Begin(c, what)
          PROVE  StartsAlone'
      <4>1. \A d \in Copy : step[d].at # "starting"
        <5>1. CASE Advance(c) \/ RotateNow(c)  BY <5>1 DEF Advance, RotateNow, StartsAlone
        <5>2. CASE \E what \in {"advancing", "rotating", "revoking"} : Begin(c, what)
          BY <5>2 DEF Begin, Signing, StartsAlone
        <5>3. QED  BY <3>3, <5>1, <5>2
      <4>2. \A d \in Copy : step'[d].at # "starting"
        BY <2>2, <3>3, <4>1 DEF Advance, RotateNow, Begin, NoStep
      <4>3. QED  BY <4>2 DEF StartsAlone
    <3>4. CASE Fetch \/ Cached \/ Tick
      BY <3>4 DEF Fetch, Cached, Tick, StartsAlone, With
    <3>5. QED  BY <1>2, <3>1, <3>2, <3>3, <3>4 DEF KeysNext
  <2>5. QED  BY <2>1, <2>3, <2>4
<1>3. QED  BY <1>1, <1>2

LEMMA FewIn ==
  ASSUME NEW S, \A j, k \in S : j = k
  PROVE  Cardinality(S) <= 1
<1>1. CASE S = {}  BY <1>1, FS_EmptySet
<1>2. CASE S # {}
  <2>1. PICK k \in S : S = {k}  BY <1>2
  <2>2. QED  BY <2>1, FS_Singleton
<1>3. QED  BY <1>1, <1>2

(* When one copy of the service starts before the others, then whichever   *)
(* copies advance, rotate and revoke at once, one key signs and at most    *)
(* one is staged, every cache in use holds the key that signs, and tokens  *)
(* verify for as long as they live.                                        *)
THEOREM KeysAreRightHolds == Alone /\ KeysSpec => []KeysAreRight
<1> SUFFICES ASSUME Alone PROVE KeysSpec => []KeysAreRight  OBVIOUS
<1>1. KeysInit => OneInv
  <2> SUFFICES ASSUME KeysInit PROVE OneInv  OBVIOUS
  <2>1. KeysTypeOK /\ InDelay  BY TimeInit DEF TimeInv
  <2>2. StartsAlone /\ AtMostOne  BY DEF KeysInit, StartsAlone, AtMostOne, With, NoKey, NoStep
  <2>3. QED  BY <2>1, <2>2 DEF OneInv
<1>2. OneInv => OneKeySigns  BY FewIn DEF OneInv, AtMostOne, OneKeySigns
<1>3. OneInv /\ TimeInv => KeysAreRight
  BY <1>2, TimeImplies DEF TimeInv, KeysAreRight
<1>4. OneInv /\ [KeysNext]_keyVars => OneInv'  BY OneNext
<1>5. QED  BY <1>1, <1>3, <1>4, TimeInvHolds, PTL DEF KeysSpec

-----------------------------------------------------------------------------
(* Sessions. *)

SessionRow == [at : {"none", "live", "revoked"}, family : 0..MaxSession, proof : Nat, stale : BOOLEAN]
RequestRow == [at : {"none", "verified", "enrolling", "verifying", "proved", "rotating", "replayed",
                     "resetting", "consumed", "changed"},
               proof : Nat, of : Nat, stale : BOOLEAN]

SigningIn == {"verified", "enrolling", "verifying", "proved"}

(* A reset that has used its link has yet to set its password, and is the  *)
(* only one.                                                               *)
OneResets ==
  /\ LinkWorksOnce
  /\ \A q \in Request : request[q].at = "consumed" => reset.at = "used" /\ password = 0
  /\ \A q, r \in Request : request[q].at = "consumed" /\ request[r].at = "consumed" => q = r

(* Every session, and every login under way, is by the password there is,  *)
(* or a reset is about to revoke it.                                       *)
ByThePassword ==
  \/ \E q \in Request : request[q].at = "changed"
  \/ /\ \A s \in Live : ~session[s].stale => session[s].proof = password
     /\ \A q \in Request : request[q].at \in SigningIn /\ ~request[q].stale => request[q].proof = password

(* Whatever a disabled account had under way is stale.                     *)
DisabledIsStale ==
  status = "disabled" =>
    /\ \A s \in Live : session[s].stale
    /\ \A q \in Request : request[q].at \in SigningIn \cup {"rotating"} => request[q].stale

(* A family is the number of its first session, and is not used again.     *)
FamiliesStart ==
  /\ \A s \in Session : session[s].at # "none" =>
       session[s].family \in Session /\ session[session[s].family].at # "none"
  /\ \A s \in reused : session[s].at # "none"

(* What a request is about is there.                                       *)
OfIsThere ==
  \A q \in Request :
    /\ request[q].at \in {"rotating", "replayed"} =>
         request[q].of \in Session /\ session[request[q].of].at # "none"
    /\ request[q].at = "enrolling" => request[q].of \in Factor

SignInInv ==
  /\ SignInTypeOK
  /\ OneResets /\ ByThePassword /\ DisabledIsStale
  /\ ReplayEndsFamily /\ OneOfAFamily /\ FamiliesStart /\ OfIsThere
  /\ EnrolledHasFactor

LEMMA SignInTypes ==
  SignInTypeOK <=>
    /\ password \in Nat /\ status \in {"active", "disabled"} /\ enrolled \in BOOLEAN /\ required \in BOOLEAN
    /\ factor \in [Factor -> {"none", "pending", "confirmed", "deleted"}]
    /\ session \in [Session -> SessionRow]
    /\ reset \in [at : {"none", "open", "used"}, link : Link]
    /\ request \in [Request -> RequestRow]
    /\ reused \in SUBSET Session
  BY DEF SignInTypeOK, SessionRow, RequestRow

LEMMA SignInFacts ==
  /\ MaxSession \in Nat /\ MaxFactor \in Nat /\ MaxLink \in Nat
  /\ Session \subseteq 0..MaxSession /\ Factor \subseteq Nat /\ Link \subseteq Nat
  /\ 0 \in Link /\ 0 \notin Session
  /\ NoSession \in SessionRow /\ NoRequest \in RequestRow
  /\ NoSession.at = "none" /\ NoRequest.at = "none" /\ ~NoRequest.stale
<1>1. MaxSession \in Nat /\ MaxFactor \in Nat /\ MaxLink \in Nat  BY SignInAssumption
<1>2. QED  BY <1>1 DEF Session, Factor, Link, NoSession, NoRequest, SessionRow, RequestRow

LEMMA SignInStarts == SignInInit => SignInInv
<1> SUFFICES ASSUME SignInInit PROVE SignInInv  OBVIOUS
<1>1. SignInTypeOK  BY SignInFacts, SignInTypes DEF SignInInit
<1>2. /\ \A s \in Session : session[s].at = "none"
      /\ \A q \in Request : request[q].at = "none"
      /\ \A f \in Factor : factor[f] = "none"
      /\ reused = {} /\ password = 0 /\ enrolled = FALSE
  BY SignInFacts DEF SignInInit
<1>3. Live = {} /\ Confirmed = {}  BY <1>2 DEF Live, Confirmed
<1>4. OneResets  BY <1>2 DEF OneResets, LinkWorksOnce
<1>5. QED
  BY <1>1, <1>2, <1>3, <1>4 DEF SignInInv, ByThePassword, DisabledIsStale, ReplayEndsFamily,
       OneOfAFamily, FamiliesStart, OfIsThere, EnrolledHasFactor, SigningIn

(* What is left to show of a step of one request that changes no session.  *)
LEMMA RequestOnly ==
  ASSUME SignInInv, SignInTypeOK', NEW q \in Request, NEW r \in RequestRow, Become(q, r),
         UNCHANGED <<password, status, session, reset, reused>>,
         request[q].at # "changed", r.at # "consumed", EnrolledHasFactor',
         r.at \in SigningIn /\ ~r.stale =>
           \/ r.proof = password
           \/ request[q].at \in SigningIn /\ ~request[q].stale /\ request[q].proof = r.proof,
         r.at \in SigningIn \cup {"rotating"} /\ status = "disabled" => r.stale,
         r.at \in {"rotating", "replayed"} => r.of \in Session /\ session[r.of].at # "none",
         r.at = "enrolling" => r.of \in Factor
  PROVE  SignInInv'
<1>1. request \in [Request -> RequestRow]  BY SignInTypes DEF SignInInv
<1>2. request'[q] = r /\ \A p \in Request \ {q} : request'[p] = request[p]  BY <1>1 DEF Become
<1>3. Live' = Live  BY DEF Live
<1>4. OneResets'  BY <1>2 DEF SignInInv, OneResets, LinkWorksOnce
<1>5. ByThePassword'
  <2>1. CASE \E p \in Request : request[p].at = "changed"
    BY <1>2, <2>1 DEF ByThePassword
  <2>2. CASE ~ \E p \in Request : request[p].at = "changed"
    BY <1>2, <1>3, <2>2 DEF SignInInv, ByThePassword, SigningIn
  <2>3. QED  BY <2>1, <2>2
<1>6. DisabledIsStale'  BY <1>2, <1>3 DEF SignInInv, DisabledIsStale
<1>7. ReplayEndsFamily' /\ OneOfAFamily' /\ FamiliesStart'
  BY <1>3 DEF SignInInv, ReplayEndsFamily, OneOfAFamily, FamiliesStart
<1>8. OfIsThere'  BY <1>2 DEF SignInInv, OfIsThere
<1>9. QED  BY <1>4, <1>5, <1>6, <1>7, <1>8 DEF SignInInv

(* What is left to show of a step that makes a session.                    *)
LEMMA SessionMade ==
  ASSUME SignInInv, SignInTypeOK', NEW q \in Request, request[q].at # "changed", Become(q, NoRequest),
         UNCHANGED <<password, status, enrolled, factor, reset, reused>>,
         NEW s \in Session, session[s].at = "none", session'[s].at = "live",
         \A t \in Session \ {s} : \/ session'[t] = session[t]
                                  \/ /\ session[t].at # "none" /\ session'[t].at = "revoked"
                                     /\ session'[t].family = session[t].family,
         session'[s].family = s \/ session[session'[s].family].at # "none",
         session'[s].family \in Session,
         ~session'[s].stale =>
           /\ session'[s].proof = password \/ \E p \in Request : request[p].at = "changed"
           /\ status # "disabled" /\ session'[s].family \notin reused
           /\ \A t \in Session \ {s} :
                session'[t].at = "live" /\ ~session'[t].stale => session'[t].family # session'[s].family
  PROVE  SignInInv'
<1>1. /\ request \in [Request -> RequestRow] /\ session \in [Session -> SessionRow]
      /\ session' \in [Session -> SessionRow]
  BY SignInTypes DEF SignInInv, SignInTypeOK, SessionRow
<1>2. /\ request'[q].at = "none" /\ \A p \in Request \ {q} : request'[p] = request[p]
  BY <1>1, SignInFacts DEF Become
<1>3. Live' \subseteq Live \cup {s} /\ \A t \in Live' \ {s} : session'[t] = session[t]
  BY DEF Live
<1>4. OneResets'  BY <1>2 DEF SignInInv, OneResets, LinkWorksOnce
<1>5. ByThePassword'
  <2>1. CASE \E p \in Request : request[p].at = "changed"
    BY <1>2, <2>1 DEF ByThePassword
  <2>2. CASE ~ \E p \in Request : request[p].at = "changed"
    BY <1>2, <1>3, <2>2 DEF SignInInv, ByThePassword, SigningIn
  <2>3. QED  BY <2>1, <2>2
<1>6. DisabledIsStale'
  <2>1. \A t \in Live' : status = "disabled" => session'[t].stale
    BY <1>1, <1>3 DEF SignInInv, DisabledIsStale, SessionRow
  <2>2. QED  BY <1>2, <2>1 DEF SignInInv, DisabledIsStale, SigningIn
<1>7. ReplayEndsFamily'
  BY <1>3 DEF SignInInv, ReplayEndsFamily
<1>8. OneOfAFamily'
  <2>1. ASSUME NEW t \in Live', NEW u \in Live', session'[t].family = session'[u].family,
               ~session'[t].stale, ~session'[u].stale
        PROVE  t = u
    <3>1. CASE t # s /\ u # s  BY <1>3, <2>1, <3>1 DEF SignInInv, OneOfAFamily
    <3>2. CASE t = s \/ u = s  BY <2>1, <3>2 DEF Live
    <3>3. QED  BY <3>1, <3>2
  <2>2. QED  BY <2>1 DEF OneOfAFamily
<1>9. FamiliesStart'
  <2>1. \A t \in Session : session[t].at # "none" => session'[t].at # "none"  OBVIOUS
  <2>2. ASSUME NEW t \in Session, session'[t].at # "none"
        PROVE  session'[t].family \in Session /\ session'[session'[t].family].at # "none"
    <3>1. CASE t = s  BY <2>1, <3>1
    <3>2. CASE t # s  BY <2>1, <2>2, <3>2 DEF SignInInv, FamiliesStart
    <3>3. QED  BY <3>1, <3>2
  <2>3. \A t \in reused : t \in Session  BY SignInTypes DEF SignInInv
  <2>4. QED  BY <2>1, <2>2, <2>3 DEF SignInInv, FamiliesStart
<1>10. OfIsThere'  BY <1>2 DEF SignInInv, OfIsThere
<1>11. EnrolledHasFactor'  BY DEF SignInInv, EnrolledHasFactor, Confirmed
<1>12. QED  BY <1>4, <1>5, <1>6, <1>7, <1>8, <1>9, <1>10, <1>11 DEF SignInInv

LEMMA Revoked ==
  ASSUME SignInInv, NEW which, Revokes(which)
  PROVE  /\ session' \in [Session -> SessionRow]
         /\ \A s \in Session : /\ session'[s].family = session[s].family
                               /\ (session'[s].at = "none" <=> session[s].at = "none")
         /\ Live' = Live \ which
         /\ \A s \in Live' : session'[s] = session[s]
<1>1. session \in [Session -> SessionRow]  BY SignInTypes DEF SignInInv
<1>2. \A s \in Session : /\ [session[s] EXCEPT !.at = "revoked"] \in SessionRow
                         /\ [session[s] EXCEPT !.at = "revoked"].at = "revoked"
                         /\ [session[s] EXCEPT !.at = "revoked"].family = session[s].family
  BY <1>1 DEF SessionRow
<1>3. \A s \in Session : session'[s] = IF s \in which /\ session[s].at = "live"
                                       THEN [session[s] EXCEPT !.at = "revoked"] ELSE session[s]
  BY DEF Revokes
<1>4. session' \in [Session -> SessionRow]
  <2>1. session' = [s \in Session |-> session'[s]]  BY DEF Revokes
  <2>2. QED  BY <1>1, <1>2, <1>3, <2>1
<1>5. Live' = Live \ which /\ \A s \in Live' : session'[s] = session[s]
  BY <1>2, <1>3 DEF Live
<1>6. QED  BY <1>2, <1>3, <1>4, <1>5

LEMMA AllOvertaken ==
  ASSUME SignInInv, NEW except, Overtaken(except)
  PROVE  /\ request' \in [Request -> RequestRow]
         /\ \A q \in Request :
              \/ request'[q] = NoRequest
              \/ /\ q \notin except /\ request'[q].stale
                 /\ request'[q].at = request[q].at /\ request'[q].of = request[q].of
         /\ \A q \in Request : q \notin except => request'[q].at = request[q].at
<1>1. request \in [Request -> RequestRow]  BY SignInTypes DEF SignInInv
<1>2. \A q \in Request : /\ [request[q] EXCEPT !.stale = TRUE] \in RequestRow
                         /\ [request[q] EXCEPT !.stale = TRUE].stale
                         /\ [request[q] EXCEPT !.stale = TRUE].at = request[q].at
                         /\ [request[q] EXCEPT !.stale = TRUE].of = request[q].of
  BY <1>1 DEF RequestRow
<1>3. \A q \in Request : request'[q] = IF q \in except \/ request[q].at = "none" THEN NoRequest
                                       ELSE [request[q] EXCEPT !.stale = TRUE]
  BY DEF Overtaken
<1>4. request' \in [Request -> RequestRow]
  <2>1. request' = [q \in Request |-> request'[q]]  BY DEF Overtaken
  <2>2. QED  BY <1>2, <1>3, <2>1, SignInFacts
<1>5. QED  BY <1>2, <1>3, <1>4, SignInFacts

(* All sessions are revoked, and what is under way is stale: by a reset    *)
(* that is through, or by the administrator.                               *)
LEMMA AllRevoked ==
  ASSUME SignInInv, SignInTypeOK', Revokes(Session), NEW except, Overtaken(except),
         UNCHANGED <<password, reset, reused>>, EnrolledHasFactor'
  PROVE  SignInInv'
<1>1. Live' = {}  BY Revoked DEF Live
<1>2. \A q \in Request : request'[q].at = request[q].at \/ request'[q].at = "none"
  BY AllOvertaken, SignInFacts
<1>3. OneResets'  BY <1>2 DEF SignInInv, OneResets, LinkWorksOnce
<1>4. \A q \in Request : request'[q].at # "none" => request'[q].stale  BY AllOvertaken, SignInFacts
<1>5. ByThePassword' /\ DisabledIsStale'
  BY <1>1, <1>4 DEF ByThePassword, DisabledIsStale, SigningIn
<1>6. ReplayEndsFamily' /\ OneOfAFamily'  BY <1>1 DEF ReplayEndsFamily, OneOfAFamily
<1>7. FamiliesStart'
  <2>1. \A s \in reused : s \in Session  BY SignInTypes DEF SignInInv
  <2>2. QED  BY <2>1, Revoked DEF SignInInv, FamiliesStart
<1>8. OfIsThere'
  <2>1. \A q \in Request : request'[q].at # "none" =>
          request'[q].at = request[q].at /\ request'[q].of = request[q].of
    BY AllOvertaken, SignInFacts
  <2>2. QED  BY <2>1, Revoked DEF SignInInv, OfIsThere
<1>9. QED  BY <1>3, <1>5, <1>6, <1>7, <1>8 DEF SignInInv

(* Some are: a token's family, or the one that is logged out.              *)
LEMMA SomeRevoked ==
  ASSUME SignInInv, SignInTypeOK', NEW which, Revokes(which),
         request' = request \/ \E q \in Request : request[q].at # "changed" /\ Become(q, NoRequest),
         UNCHANGED <<password, status, enrolled, factor, reset>>,
         \A f \in reused' : f \in reused \/ (f \in Session /\ session[f].at # "none"
                                             /\ \A s \in Live : session[s].family = f => s \in which)
  PROVE  SignInInv'
<1>1. Live' \subseteq Live /\ \A s \in Live' : session'[s] = session[s] /\ s \notin which  BY Revoked
<1>2. request \in [Request -> RequestRow] /\ Live \subseteq Session  BY SignInTypes DEF SignInInv, Live
<1>3. \A q \in Request : request'[q] = request[q] \/ (request[q].at # "changed" /\ request'[q].at = "none")
  BY <1>2, SignInFacts DEF Become
<1>4. OneResets'  BY <1>3 DEF SignInInv, OneResets, LinkWorksOnce
<1>5. ByThePassword'
  <2>1. CASE \E p \in Request : request[p].at = "changed"  BY <1>3, <2>1 DEF ByThePassword
  <2>2. CASE ~ \E p \in Request : request[p].at = "changed"
    BY <1>1, <1>3, <2>2 DEF SignInInv, ByThePassword, SigningIn
  <2>3. QED  BY <2>1, <2>2
<1>6. DisabledIsStale'  BY <1>1, <1>3 DEF SignInInv, DisabledIsStale, SigningIn
<1>7. ReplayEndsFamily'  BY <1>1 DEF SignInInv, ReplayEndsFamily
<1>8. OneOfAFamily'  BY <1>1 DEF SignInInv, OneOfAFamily
<1>9. FamiliesStart'
  <2>1. \A s \in reused : s \in Session  BY SignInTypes DEF SignInInv
  <2>2. QED  BY <2>1, Revoked DEF SignInInv, FamiliesStart
<1>10. OfIsThere'  BY <1>3, Revoked DEF SignInInv, OfIsThere
<1>11. EnrolledHasFactor'  BY DEF SignInInv, EnrolledHasFactor, Confirmed
<1>12. QED  BY <1>4, <1>5, <1>6, <1>7, <1>8, <1>9, <1>10, <1>11 DEF SignInInv

-----------------------------------------------------------------------------
(* One lemma per action. *)

LEMMA BecomeType ==
  ASSUME SignInInv, NEW q \in Request, NEW r \in RequestRow, Become(q, r)
  PROVE  request' \in [Request -> RequestRow]
  BY SignInTypes DEF SignInInv, Become

LEMMA GiveUpKeeps ==
  ASSUME SignInInv, Whole, NEW q \in Request, GiveUp(q)
  PROVE  SignInInv'
<1>1. Become(q, NoRequest) /\ UNCHANGED <<account, factor, session, reset, reused>> /\ request[q].at # "changed"
  BY DEF GiveUp
<1>2. SignInTypeOK'
  BY <1>1, SignInFacts, SignInTypes, BecomeType DEF SignInInv, SignInTypeOK, RequestRow, account
<1>3. EnrolledHasFactor'  BY <1>1 DEF SignInInv, EnrolledHasFactor, Confirmed, account
<1>4. QED  BY <1>1, <1>2, <1>3, RequestOnly, SignInFacts DEF account, SigningIn

LEMMA LoginKeeps ==
  ASSUME SignInInv, NEW q \in Request, Login(q)
  PROVE  SignInInv'
<1> DEFINE r == [NoRequest EXCEPT !.at = "verified", !.proof = password, !.of = IF enrolled THEN 1 ELSE 0]
<1>1. /\ Become(q, r) /\ UNCHANGED <<account, factor, session, reset, reused>>
      /\ request[q].at = "none" /\ status = "active"
  BY DEF Login
<1>2. r \in RequestRow /\ r.at = "verified" /\ r.proof = password
  <2>1. (IF enrolled THEN 1 ELSE 0) \in Nat /\ password \in Nat  BY SignInTypes DEF SignInInv
  <2>2. QED  BY <2>1, SignInFacts DEF NoRequest, RequestRow
<1> HIDE DEF r
<1>3. SignInTypeOK'
  BY <1>1, <1>2, SignInTypes, BecomeType DEF SignInInv, SignInTypeOK, RequestRow, account
<1>4. EnrolledHasFactor'  BY <1>1 DEF SignInInv, EnrolledHasFactor, Confirmed, account
<1>5. QED  BY <1>1, <1>2, <1>3, <1>4, RequestOnly DEF account, SigningIn

(* A login that goes on, with what else it is about.                       *)
LEMMA GoesOn ==
  ASSUME SignInInv, NEW q \in Request, request[q].at \in SigningIn,
         NEW a \in {"enrolling", "verifying", "proved"}, NEW n \in Nat,
         NEW r, r = [request[q] EXCEPT !.at = a, !.of = n] \/ (r = [request[q] EXCEPT !.at = a] /\ n = request[q].of),
         Become(q, r), a = "enrolling" => n \in Factor,
         UNCHANGED <<password, status, required, session, reset, reused>>,
         factor' \in [Factor -> {"none", "pending", "confirmed", "deleted"}], enrolled' \in BOOLEAN,
         EnrolledHasFactor'
  PROVE  SignInInv'
<1>1. request[q] \in RequestRow  BY SignInTypes DEF SignInInv
<1>2. /\ r \in RequestRow /\ r.at = a /\ r.of = n
      /\ r.proof = request[q].proof /\ r.stale = request[q].stale
  BY <1>1 DEF RequestRow
<1>3. SignInTypeOK'
  <2>1. request' \in [Request -> RequestRow]  BY <1>2, BecomeType
  <2>2. QED  BY <2>1, SignInTypes DEF SignInInv, SignInTypeOK, RequestRow, SessionRow
<1>4. r.at \in SigningIn /\ request[q].at # "changed" /\ r.at \notin {"consumed", "rotating", "replayed"}
  BY <1>2 DEF SigningIn
<1>5. status = "disabled" => r.stale  BY <1>2 DEF SignInInv, DisabledIsStale
<1>6. r.at = "enrolling" => r.of \in Factor  BY <1>2
<1>7. ~r.stale => ~request[q].stale /\ request[q].proof = r.proof  BY <1>2
<1>8. QED  BY <1>2, <1>3, <1>4, <1>5, <1>6, <1>7, RequestOnly

LEMMA CreateKeeps ==
  ASSUME SignInInv, NEW q \in Request, request[q].at \in SigningIn,
         Create(q), Become(q, NoRequest), UNCHANGED <<account, factor, reset, reused>>
  PROVE  SignInInv'
<1>1. /\ request \in [Request -> RequestRow] /\ session \in [Session -> SessionRow]
      /\ request[q] \in RequestRow
  BY SignInTypes DEF SignInInv
<1>2. PICK s \in Session :
        /\ Fresh(session, NoSession, s)
        /\ session' = [session EXCEPT ![s] = [at |-> "live", family |-> s, proof |-> request[q].proof,
                                              stale |-> request[q].stale]]
  BY DEF Create, Inserts
<1> DEFINE n == [at |-> "live", family |-> s, proof |-> request[q].proof, stale |-> request[q].stale]
<1>3. n \in SessionRow  BY <1>1, SignInFacts DEF SessionRow, RequestRow
<1>4. session[s].at = "none"  BY <1>2, SignInFacts DEF Fresh
<1>5. /\ session' \in [Session -> SessionRow] /\ session'[s] = n
      /\ \A t \in Session \ {s} : session'[t] = session[t]
  BY <1>1, <1>2, <1>3
<1>6. SignInTypeOK'
  <2>1. request' \in [Request -> RequestRow]  BY SignInFacts, BecomeType
  <2>2. QED  BY <1>5, <2>1 DEF SignInInv, SignInTypeOK, SessionRow, RequestRow, account
<1>7. s \notin reused  BY <1>4 DEF SignInInv, FamiliesStart
<1>8. \A t \in Session \ {s} : session'[t].at = "live" => session'[t].family # s
  BY <1>4, <1>5 DEF SignInInv, FamiliesStart
<1>9. ~n.stale => n.proof = password \/ \E p \in Request : request[p].at = "changed"
  BY DEF SignInInv, ByThePassword
<1>10. ~n.stale => status # "disabled"  BY DEF SignInInv, DisabledIsStale
<1>11. UNCHANGED <<password, status, enrolled, factor, reset, reused>>  BY DEF account
<1>12. request[q].at # "changed" /\ n.family = s /\ n.at = "live"  BY DEF SigningIn
<1> HIDE DEF n
<1>13. QED
  BY <1>4, <1>5, <1>6, <1>7, <1>8, <1>9, <1>10, <1>11, <1>12, SessionMade

LEMMA AdmitKeeps ==
  ASSUME SignInInv, NEW q \in Request, Admit(q)
  PROVE  SignInInv'
<1>1. /\ request[q].at = "verified" /\ request[q].at \in SigningIn
      /\ UNCHANGED <<account, reset, reused>>
  BY DEF Admit, SigningIn
<1>2. /\ factor \in [Factor -> {"none", "pending", "confirmed", "deleted"}] /\ enrolled \in BOOLEAN
  BY SignInTypes DEF SignInInv
<1>3. CASE Create(q) /\ Become(q, NoRequest) /\ UNCHANGED factor
  BY <1>1, <1>3, CreateKeeps
<1>4. CASE /\ \E f \in Factor :
                /\ Fresh(factor, "none", f)
                /\ factor' = [factor EXCEPT ![f] = "pending"]
                /\ Become(q, [request[q] EXCEPT !.at = "enrolling", !.of = f])
           /\ UNCHANGED session
  <2>1. PICK f \in Factor :
          /\ factor[f] = "none" /\ factor' = [factor EXCEPT ![f] = "pending"]
          /\ Become(q, [request[q] EXCEPT !.at = "enrolling", !.of = f])
    BY <1>4 DEF Fresh
  <2>2. factor' \in [Factor -> {"none", "pending", "confirmed", "deleted"}]  BY <1>2, <2>1
  <2>3. Confirmed' = Confirmed  BY <1>2, <2>1 DEF Confirmed
  <2>4. EnrolledHasFactor' /\ f \in Nat  BY <1>1, <2>3, SignInFacts DEF SignInInv, EnrolledHasFactor, account
  <2>5. QED  BY <1>1, <1>2, <1>4, <2>1, <2>2, <2>4, GoesOn DEF account
<1>5. CASE /\ Become(q, [request[q] EXCEPT !.at = "verifying", !.of = 0])
           /\ UNCHANGED <<session, factor>>
  <2>1. EnrolledHasFactor'  BY <1>1, <1>5 DEF SignInInv, EnrolledHasFactor, Confirmed, account
  <2>2. 0 \in Nat /\ enrolled' \in BOOLEAN  BY <1>1, <1>2 DEF account
  <2>3. QED  BY <1>1, <1>2, <1>5, <2>1, <2>2, GoesOn DEF account
<1>6. QED  BY <1>3, <1>4, <1>5 DEF Admit

LEMMA SecondFactorKeeps ==
  ASSUME SignInInv, NEW q \in Request, ConfirmMfaEnrollment(q) \/ VerifyMfa(q)
  PROVE  SignInInv'
<1> DEFINE r == [request[q] EXCEPT !.at = "proved"]
<1>1. /\ request[q].at \in {"enrolling", "verifying"} /\ Become(q, r)
      /\ UNCHANGED <<password, status, required, session, reset, reused>>
  BY DEF ConfirmMfaEnrollment, VerifyMfa, account
<1>2. request[q] \in RequestRow /\ request[q].of \in Nat /\ request[q].at \in SigningIn
  BY <1>1, SignInTypes DEF SignInInv, RequestRow, SigningIn
<1>3. /\ factor \in [Factor -> {"none", "pending", "confirmed", "deleted"}] /\ enrolled \in BOOLEAN
  BY SignInTypes DEF SignInInv
<1>4. CASE VerifyMfa(q)
  <2>1. EnrolledHasFactor' /\ UNCHANGED <<factor, enrolled>>
    BY <1>4 DEF VerifyMfa, SignInInv, EnrolledHasFactor, Confirmed, account
  <2>2. QED  BY <1>1, <1>2, <1>3, <2>1, GoesOn
<1>5. CASE ConfirmMfaEnrollment(q)
  <2>1. /\ factor' = [factor EXCEPT ![request[q].of] = "confirmed"] /\ enrolled' = TRUE
        /\ request[q].at = "enrolling"
    BY <1>5 DEF ConfirmMfaEnrollment
  <2>2. request[q].of \in Factor  BY <2>1 DEF SignInInv, OfIsThere
  <2>3. factor' \in [Factor -> {"none", "pending", "confirmed", "deleted"}]  BY <1>3, <2>1
  <2>4. Confirmed' # {}  BY <1>3, <2>1, <2>2 DEF Confirmed
  <2>5. EnrolledHasFactor' /\ enrolled' \in BOOLEAN  BY <2>1, <2>4 DEF EnrolledHasFactor
  <2>6. QED  BY <1>1, <1>2, <2>3, <2>5, GoesOn
<1>6. QED  BY <1>4, <1>5

LEMMA RefreshKeeps ==
  ASSUME SignInInv, NEW q \in Request, NEW s \in Session, Refresh(q, s)
  PROVE  SignInInv'
<1>1. PICK a \in {"replayed", "rotating"} :
        /\ Become(q, [NoRequest EXCEPT !.at = a, !.of = s])
        /\ a = "rotating" => status = "active"
  BY DEF Refresh
<1> DEFINE r == [NoRequest EXCEPT !.at = a, !.of = s]
<1>2. r \in RequestRow /\ r.at = a /\ r.of = s
  <2>1. s \in Nat  BY SignInFacts DEF Session
  <2>2. QED  BY <2>1, SignInFacts DEF NoRequest, RequestRow
<1>3. Become(q, r)  BY <1>1
<1> HIDE DEF r
<1>4. /\ UNCHANGED <<account, factor, session, reset, reused>>
      /\ request[q].at = "none" /\ session[s].at # "none"
  BY DEF Refresh
<1>5. SignInTypeOK'
  <2>1. request' \in [Request -> RequestRow]  BY <1>2, <1>3, BecomeType
  <2>2. QED  BY <1>4, <2>1 DEF SignInInv, SignInTypeOK, RequestRow, account
<1>6. EnrolledHasFactor'  BY <1>4 DEF SignInInv, EnrolledHasFactor, Confirmed, account
<1>7. UNCHANGED <<password, status, session, reset, reused>>  BY <1>4 DEF account
<1>8. a = "rotating" => status # "disabled"  BY <1>1
<1>9. a \notin SigningIn /\ a \notin {"consumed", "enrolling"} /\ (a \in SigningIn \cup {"rotating"} => a = "rotating")
  BY DEF SigningIn
<1>10. QED  BY <1>2, <1>3, <1>4, <1>5, <1>6, <1>7, <1>8, <1>9, RequestOnly

LEMMA RotateKeeps ==
  ASSUME SignInInv, NEW q \in Request, Rotate(q)
  PROVE  SignInInv'
<1> DEFINE o == request[q].of
           old == session[o]
<1>1. /\ request \in [Request -> RequestRow] /\ session \in [Session -> SessionRow]
      /\ request[q] \in RequestRow
  BY SignInTypes DEF SignInInv
<1>2. /\ request[q].at = "rotating" /\ Become(q, NoRequest) /\ UNCHANGED <<account, factor, reset, reused>>
  BY DEF Rotate
<1>3. o \in Session /\ old.at # "none"  BY <1>2 DEF SignInInv, OfIsThere
<1> DEFINE was == [session EXCEPT ![o] = [session[o] EXCEPT !.at = "revoked"]]
           stale == old.stale \/ request[q].stale \/ old.at # "live"
<1>4. PICK s \in Session :
        /\ Fresh(session, NoSession, s)
        /\ session' = [was EXCEPT ![s] = [at |-> "live", family |-> old.family, proof |-> old.proof,
                                          stale |-> stale]]
  BY DEF Rotate, Inserts
<1> DEFINE n == [at |-> "live", family |-> old.family, proof |-> old.proof, stale |-> stale]
<1>5. old \in SessionRow /\ stale \in BOOLEAN  BY <1>1, <1>3 DEF SessionRow, RequestRow
<1>6. n \in SessionRow  BY <1>5 DEF SessionRow
<1>7. session[s].at = "none" /\ s # o  BY <1>3, <1>4, SignInFacts DEF Fresh
<1>8. /\ was \in [Session -> SessionRow] /\ was[o].at = "revoked" /\ was[o].family = old.family
      /\ \A t \in Session \ {o} : was[t] = session[t]
  <2>1. /\ [session[o] EXCEPT !.at = "revoked"] \in SessionRow
        /\ [session[o] EXCEPT !.at = "revoked"].at = "revoked"
        /\ [session[o] EXCEPT !.at = "revoked"].family = old.family
    BY <1>5 DEF SessionRow
  <2>2. QED  BY <1>1, <1>3, <2>1
<1> HIDE DEF was
<1>9. /\ session' \in [Session -> SessionRow] /\ session'[s] = n
      /\ \A t \in Session \ {s} : session'[t] = was[t]
  BY <1>4, <1>6, <1>8
<1>10. SignInTypeOK'
  <2>1. request' \in [Request -> RequestRow]  BY <1>2, SignInFacts, BecomeType
  <2>2. QED  BY <1>2, <1>9, <2>1 DEF SignInInv, SignInTypeOK, SessionRow, RequestRow, account
<1>11. \A t \in Session \ {s} : \/ session'[t] = session[t]
                                \/ /\ session[t].at # "none" /\ session'[t].at = "revoked"
                                   /\ session'[t].family = session[t].family
  BY <1>3, <1>8, <1>9
<1>12. old.family \in Session /\ session[old.family].at # "none"
  BY <1>3 DEF SignInInv, FamiliesStart
<1>13. ASSUME ~n.stale
       PROVE  /\ n.proof = password \/ \E p \in Request : request[p].at = "changed"
              /\ status # "disabled" /\ n.family \notin reused
              /\ \A t \in Session \ {s} :
                   session'[t].at = "live" /\ ~session'[t].stale => session'[t].family # n.family
  <2>1. o \in Live /\ ~old.stale  BY <1>3, <1>13 DEF Live
  <2>2. n.proof = password \/ \E p \in Request : request[p].at = "changed"
    BY <2>1 DEF SignInInv, ByThePassword
  <2>3. status # "disabled"  BY <2>1 DEF SignInInv, DisabledIsStale
  <2>4. n.family \notin reused  BY <2>1 DEF SignInInv, ReplayEndsFamily
  <2>5. ASSUME NEW t \in Session \ {s}, session'[t].at = "live", ~session'[t].stale
        PROVE  session'[t].family # n.family
    <3>1. t # o /\ session'[t] = session[t]  BY <1>8, <1>9, <2>5
    <3>2. t \in Live  BY <2>5, <3>1 DEF Live
    <3>3. QED  BY <2>1, <2>5, <3>1, <3>2 DEF SignInInv, OneOfAFamily
  <2>6. QED  BY <2>2, <2>3, <2>4, <2>5
<1>14. UNCHANGED <<password, status, enrolled, factor, reset, reused>> /\ request[q].at # "changed"
  BY <1>2 DEF account
<1>15. n.family = old.family /\ n.at = "live"  OBVIOUS
<1> HIDE DEF n, old, o
<1>16. QED
  BY <1>2, <1>7, <1>9, <1>10, <1>11, <1>12, <1>13, <1>14, <1>15, SessionMade

LEMMA ReplayedKeeps ==
  ASSUME SignInInv, NEW q \in Request, Replayed(q)
  PROVE  SignInInv'
<1> DEFINE family == session[request[q].of].family
           which  == {s \in Session : session[s].family = family}
<1>1. /\ request[q].at = "replayed" /\ Revokes(which) /\ Become(q, NoRequest)
      /\ reused' = reused \cup {family} /\ UNCHANGED <<account, factor, reset>>
  BY DEF Replayed
<1>2. family \in Session /\ session[family].at # "none"
  BY <1>1 DEF SignInInv, OfIsThere, FamiliesStart
<1>3. SignInTypeOK'
  <2>1. request' \in [Request -> RequestRow] /\ session' \in [Session -> SessionRow]
    BY <1>1, SignInFacts, BecomeType, Revoked
  <2>2. reused' \in SUBSET Session  BY <1>1, <1>2 DEF SignInInv, SignInTypeOK
  <2>3. QED  BY <1>1, <2>1, <2>2 DEF SignInInv, SignInTypeOK, SessionRow, RequestRow, account
<1>4. \A s \in Live : session[s].family = family => s \in which  BY DEF Live
<1>5. UNCHANGED <<password, status, enrolled, factor, reset>>  BY <1>1 DEF account
<1>6. request[q].at # "changed"  BY <1>1
<1> HIDE DEF family, which
<1>7. QED  BY <1>1, <1>2, <1>3, <1>4, <1>5, <1>6, SomeRevoked

LEMMA LogoutKeeps ==
  ASSUME SignInInv, NEW s \in Session, Logout(s)
  PROVE  SignInInv'
<1>1. Revokes({s}) /\ UNCHANGED <<account, factor, reset, request, reused>>  BY DEF Logout
<1>2. session' \in [Session -> SessionRow]  BY <1>1, Revoked
<1>3. SignInTypeOK'  BY <1>1, <1>2 DEF SignInInv, SignInTypeOK, SessionRow, account
<1>4. UNCHANGED <<password, status, enrolled, factor, reset>>  BY <1>1 DEF account
<1>5. QED  BY <1>1, <1>3, <1>4, SomeRevoked

LEMMA ConfirmResetKeeps ==
  ASSUME SignInInv, NEW q \in Request, ConfirmPasswordReset(q)
  PROVE  SignInInv'
<1> DEFINE r == [NoRequest EXCEPT !.at = "resetting", !.of = reset.link]
<1>1. /\ Become(q, r) /\ UNCHANGED <<account, factor, session, reset, reused>> /\ request[q].at = "none"
  BY DEF ConfirmPasswordReset
<1>2. r \in RequestRow /\ r.at = "resetting"
  <2>1. reset.link \in Nat  BY SignInTypes, SignInFacts DEF SignInInv
  <2>2. QED  BY <2>1, SignInFacts DEF NoRequest, RequestRow
<1> HIDE DEF r
<1>3. SignInTypeOK'
  <2>1. request' \in [Request -> RequestRow]  BY <1>1, <1>2, BecomeType
  <2>2. QED  BY <1>1, <2>1 DEF SignInInv, SignInTypeOK, RequestRow, account
<1>4. EnrolledHasFactor'  BY <1>1 DEF SignInInv, EnrolledHasFactor, Confirmed, account
<1>5. UNCHANGED <<password, status, session, reset, reused>>  BY <1>1 DEF account
<1>6. QED  BY <1>1, <1>2, <1>3, <1>4, <1>5, RequestOnly DEF SigningIn

(* A reset of the password, up to its revocations: the link is used before *)
(* anything else, so that no other request has got past it.                *)
LEMMA ResetKeeps ==
  ASSUME SignInInv, NEW q \in Request, Consume(q) \/ SetPassword(q)
  PROVE  SignInInv'
<1>1. request \in [Request -> RequestRow] /\ request[q] \in RequestRow /\ password \in Nat
      /\ reset \in [at : {"none", "open", "used"}, link : Link]
  BY SignInTypes DEF SignInInv
<1>2. UNCHANGED <<status, enrolled, required, factor, session, reused>>
  BY DEF Consume, SetPassword, account
<1>3. PICK r \in RequestRow :
        /\ Become(q, r)
        /\ \/ /\ r.at = "none" /\ request[q].at = "resetting" /\ UNCHANGED <<reset, password>>
           \/ /\ r.at = "consumed" /\ request[q].at = "resetting" /\ UNCHANGED password
              /\ reset.at = "open" /\ reset' = [reset EXCEPT !.at = "used"]
           \/ /\ r.at = "changed" /\ request[q].at = "consumed" /\ UNCHANGED reset
              /\ password' = password + 1
  <2>1. CASE Consume(q) /\ reset = [at |-> "open", link |-> request[q].of]
    <3> DEFINE r == [request[q] EXCEPT !.at = "consumed"]
    <3>1. r \in RequestRow /\ r.at = "consumed"  BY <1>1 DEF RequestRow
    <3>2. Become(q, r) /\ request[q].at = "resetting" /\ UNCHANGED password
          /\ reset.at = "open" /\ reset' = [reset EXCEPT !.at = "used"]
      BY <2>1 DEF Consume, account
    <3> HIDE DEF r
    <3>3. QED  BY <3>1, <3>2
  <2>2. CASE Consume(q) /\ reset # [at |-> "open", link |-> request[q].of]
    BY <2>2, SignInFacts DEF Consume, account
  <2>3. CASE SetPassword(q)
    <3> DEFINE r == [request[q] EXCEPT !.at = "changed"]
    <3>1. r \in RequestRow /\ r.at = "changed"  BY <1>1 DEF RequestRow
    <3>2. Become(q, r) /\ request[q].at = "consumed" /\ UNCHANGED reset /\ password' = password + 1
      BY <2>3 DEF SetPassword
    <3> HIDE DEF r
    <3>3. QED  BY <3>1, <3>2
  <2>4. QED  BY <2>1, <2>2, <2>3
<1>4. /\ request'[q] = r /\ request' \in [Request -> RequestRow]
      /\ \A p \in Request \ {q} : request'[p] = request[p]
  BY <1>1, <1>3 DEF Become
<1>5. /\ password' \in Nat /\ reset' \in [at : {"none", "open", "used"}, link : Link]
      /\ reset'.at = "used" \/ reset'.at = reset.at
  BY <1>1, <1>3
<1>6. SignInTypeOK'  BY <1>2, <1>4, <1>5 DEF SignInInv, SignInTypeOK, RequestRow
<1>7. request[q].at # "changed" /\ r.at \notin SigningIn \cup {"rotating", "replayed", "enrolling"}
  BY <1>3 DEF SigningIn
<1>8. OneResets'
  <2>1. CASE r.at = "none" /\ UNCHANGED <<reset, password>>
    BY <1>4, <2>1 DEF SignInInv, OneResets, LinkWorksOnce
  <2>2. CASE /\ r.at = "consumed" /\ UNCHANGED password
             /\ reset.at = "open" /\ reset' = [reset EXCEPT !.at = "used"]
    <3>1. password = 0 /\ \A p \in Request : request[p].at # "consumed"
      BY <1>1, <2>2 DEF SignInInv, OneResets, LinkWorksOnce
    <3>2. reset'.at = "used"  BY <1>1, <2>2
    <3>3. QED  BY <1>4, <2>2, <3>1, <3>2 DEF OneResets, LinkWorksOnce
  <2>3. CASE /\ r.at = "changed" /\ request[q].at = "consumed" /\ UNCHANGED reset
             /\ password' = password + 1
    <3>1. password = 0 /\ reset.at = "used" /\ \A p \in Request : request[p].at = "consumed" => p = q
      BY <2>3 DEF SignInInv, OneResets
    <3>2. \A p \in Request : request'[p].at # "consumed"  BY <1>4, <2>3, <3>1
    <3>3. QED  BY <2>3, <3>1, <3>2 DEF OneResets, LinkWorksOnce
  <2>4. QED  BY <1>3, <2>1, <2>2, <2>3
<1>9. Live' = Live  BY <1>2 DEF Live
<1>10. ByThePassword'
  <2>1. CASE \E p \in Request : request[p].at = "changed"  BY <1>4, <1>7, <2>1 DEF ByThePassword
  <2>2. CASE r.at = "changed"  BY <1>4, <2>2 DEF ByThePassword
  <2>3. CASE r.at # "changed" /\ ~ \E p \in Request : request[p].at = "changed"
    <3>1. password' = password  BY <1>3, <2>3
    <3>2. QED  BY <1>2, <1>4, <1>7, <1>9, <2>3, <3>1 DEF SignInInv, ByThePassword
  <2>4. QED  BY <2>1, <2>2, <2>3
<1>11. DisabledIsStale'
  BY <1>2, <1>4, <1>7, <1>9 DEF SignInInv, DisabledIsStale
<1>12. ReplayEndsFamily' /\ OneOfAFamily' /\ FamiliesStart' /\ EnrolledHasFactor'
  BY <1>2, <1>9 DEF SignInInv, ReplayEndsFamily, OneOfAFamily, FamiliesStart, EnrolledHasFactor, Confirmed
<1>13. OfIsThere'  BY <1>2, <1>4, <1>7 DEF SignInInv, OfIsThere
<1>14. QED  BY <1>6, <1>8, <1>10, <1>11, <1>12, <1>13 DEF SignInInv

LEMMA RevokeAllKeeps ==
  ASSUME SignInInv, (\E q \in Request : RevokeAllForUser(q)) \/ Disable \/ ResetMfa
  PROVE  SignInInv'
<1>1. PICK except : Overtaken(except)  BY DEF RevokeAllForUser, Disable, ResetMfa
<1>2. Revokes(Session) /\ UNCHANGED <<password, required, reset, reused>>
  BY DEF RevokeAllForUser, Disable, ResetMfa, account
<1>3. factor' \in [Factor -> {"none", "pending", "confirmed", "deleted"}] /\ EnrolledHasFactor'
      /\ enrolled' \in BOOLEAN /\ status' \in {"active", "disabled"}
  <2>1. CASE (\E q \in Request : RevokeAllForUser(q)) \/ Disable
    <3>1. UNCHANGED <<factor, enrolled>> /\ (status' = status \/ status' = "disabled")
      BY <2>1 DEF RevokeAllForUser, Disable, account
    <3>2. EnrolledHasFactor'  BY <3>1 DEF SignInInv, EnrolledHasFactor, Confirmed
    <3>3. QED  BY <3>1, <3>2, SignInTypes DEF SignInInv
  <2>2. CASE ResetMfa
    <3>1. factor' = [f \in Factor |-> IF factor[f] = "none" THEN "none" ELSE "deleted"] /\ enrolled' = FALSE
          /\ status' = status
      BY <2>2 DEF ResetMfa
    <3>2. Confirmed' = {}  BY <3>1 DEF Confirmed
    <3>3. QED  BY <3>1, <3>2, SignInTypes DEF SignInInv, EnrolledHasFactor
  <2>3. QED  BY <2>1, <2>2
<1>4. SignInTypeOK'
  <2>1. request' \in [Request -> RequestRow] /\ session' \in [Session -> SessionRow]
    BY <1>1, <1>2, AllOvertaken, Revoked
  <2>2. QED  BY <1>2, <1>3, <2>1 DEF SignInInv, SignInTypeOK, RequestRow, SessionRow
<1>5. QED  BY <1>1, <1>2, <1>3, <1>4, AllRevoked

LEMMA AccountKeeps ==
  ASSUME SignInInv, RequestPasswordReset \/ IssuePasswordResetLink \/ Enable \/ SetPolicy
  PROVE  SignInInv'
<1>1. UNCHANGED <<password, enrolled, factor, session, request, reused>>
  BY DEF RequestPasswordReset, IssuePasswordResetLink, Enable, SetPolicy, account
<1>2. /\ reset' \in [at : {"none", "open", "used"}, link : Link] /\ status' \in {"active", "disabled"}
      /\ required' \in BOOLEAN /\ (reset.at = "used" => reset'.at = "used")
      /\ (status' = "disabled" => status = "disabled")
  <2>1. /\ reset \in [at : {"none", "open", "used"}, link : Link] /\ status \in {"active", "disabled"}
        /\ required \in BOOLEAN
    BY SignInTypes DEF SignInInv
  <2>2. CASE RequestPasswordReset  BY <2>1, <2>2 DEF RequestPasswordReset, account
  <2>3. CASE IssuePasswordResetLink
    <3>1. reset.link + 1 \in Link
      <4>1. reset.link \in 0..MaxLink /\ reset.link < MaxLink  BY <2>1, <2>3 DEF IssuePasswordResetLink, Link
      <4>2. QED  BY <4>1, SignInFacts DEF Link
    <3>2. QED  BY <2>1, <2>3, <3>1 DEF IssuePasswordResetLink, account
  <2>4. CASE Enable \/ SetPolicy  BY <2>1, <2>4 DEF Enable, SetPolicy
  <2>5. QED  BY <2>2, <2>3, <2>4
<1>3. SignInTypeOK'  BY <1>1, <1>2 DEF SignInInv, SignInTypeOK
<1>4. OneResets'
  <2>1. password \in Nat /\ password' = password /\ request' = request  BY <1>1, SignInTypes DEF SignInInv
  <2>2. LinkWorksOnce'  BY <1>2, <2>1 DEF SignInInv, OneResets, LinkWorksOnce
  <2>3. QED  BY <1>2, <2>1, <2>2 DEF SignInInv, OneResets
<1>5. Live' = Live  BY <1>1 DEF Live
<1>6. ByThePassword' /\ DisabledIsStale'
  BY <1>1, <1>2, <1>5 DEF SignInInv, ByThePassword, DisabledIsStale
<1>7. ReplayEndsFamily' /\ OneOfAFamily' /\ FamiliesStart' /\ OfIsThere' /\ EnrolledHasFactor'
  BY <1>1, <1>5 DEF SignInInv, ReplayEndsFamily, OneOfAFamily, FamiliesStart, OfIsThere,
       EnrolledHasFactor, Confirmed
<1>8. QED  BY <1>3, <1>4, <1>6, <1>7 DEF SignInInv

LEMMA SignInSteps ==
  ASSUME SignInInv, Whole, [SignInNext]_signInVars
  PROVE  SignInInv'
<1>1. CASE UNCHANGED signInVars
  BY <1>1 DEF signInVars, account, SignInInv, SignInTypeOK, OneResets, LinkWorksOnce, ByThePassword,
       DisabledIsStale, ReplayEndsFamily, OneOfAFamily, FamiliesStart, OfIsThere, EnrolledHasFactor,
       Confirmed, Live
<1>2. ASSUME NEW q \in Request, RequestStep(q)
      PROVE  SignInInv'
  <2>1. CASE SignedIn(q)
    <3>1. request[q].at \in SigningIn  BY <2>1 DEF SignedIn, SigningIn
    <3>2. QED  BY <2>1, <3>1, CreateKeeps DEF SignedIn
  <2>2. QED
    BY <1>2, <2>1, GiveUpKeeps, LoginKeeps, AdmitKeeps, SecondFactorKeeps, RefreshKeeps, RotateKeeps,
       ReplayedKeeps, ConfirmResetKeeps, ResetKeeps, RevokeAllKeeps
       DEF RequestStep
<1>3. QED
  BY <1>1, <1>2, LogoutKeeps, AccountKeeps, RevokeAllKeeps DEF SignInNext

(* But for what overtakes a revocation, nobody is signed in by a password, *)
(* an account or a chain of tokens that is no longer good; and a token, a  *)
(* link and a second factor work as often as they are meant to: whatever   *)
(* requests are under way at once, and wherever they are given up.         *)
THEOREM SessionsAreRightHolds == Whole /\ SignInSpec => []SessionsAreRight
<1> SUFFICES ASSUME Whole PROVE SignInSpec => []SessionsAreRight  OBVIOUS
<1>1. SignInInv /\ [SignInNext]_signInVars => SignInInv'  BY SignInSteps
<1>2. SignInInv => SessionsAreRight
  BY DEF SignInInv, SessionsAreRight, OneResets, ByThePassword, OldPasswordEnds, DisabledIsStale,
         DisabledIsSignedOut
<1>3. QED  BY SignInStarts, <1>1, <1>2, PTL DEF SignInSpec

-----------------------------------------------------------------------------
(* OrgLifecycle and Certificates. *)

Row == [at : {"none", "active", "suspended", "pending", "deleted"},
        before : {"none", "active", "suspended"}, due : BOOLEAN]
AdminRow   == [at : {"none", "active", "suspended"}, on : SUBSET Org]
DeleterRow == [found : SUBSET Org, clear : SUBSET Org]

Status == {"active", "suspended"}

(* No request is under way on an org that is due, or that is deleted: each *)
(* began after the grace had, and it is over only when none is left.       *)
RequestsAreOver ==
  \A q \in Admin : \A o \in admin[q].on :
    /\ admin[q].at \in Status
    /\ ~org[o].due /\ org[o].at # "deleted"

(* Nor is one that creates a tenant of a reseller that is.                 *)
NothingBegun ==
  \A q \in Admin : \A t \in Tenant \cap admin[q].on :
    org[t].at = "none" => ~org[ParentOf[t]].due /\ org[ParentOf[t]].at # "deleted"

(* Only what is on its way out, or gone, is due.                           *)
DueIsLeaving == \A o \in Org : org[o].due => org[o].at \in {"pending", "deleted"}

(* What a pass has found and is still to be deleted is due, and what it has*)
(* looked at has no tenants.                                               *)
FoundIsDue ==
  \A d \in Deleter :
    /\ deleter[d].clear \subseteq deleter[d].found
    /\ \A o \in deleter[d].found : org[o].at = "pending" => org[o].due
    /\ \A o \in deleter[d].clear : org[o].at = "pending" => TenantsOf(o) = {}

(* What cancelDeletion puts back is what was last written.                 *)
BeforeStands == \A o \in Org : org[o].at = "pending" => org[o].before = wish[o]

OrgInv ==
  /\ DeletionsAreRight
  /\ RequestsAreOver /\ NothingBegun /\ DueIsLeaving /\ FoundIsDue /\ BeforeStands

-----------------------------------------------------------------------------
(* One field of a row. *)

LEMMA RowFields ==
  ASSUME NEW r \in Row, NEW a \in {"none", "active", "suspended", "pending", "deleted"}, NEW b \in BOOLEAN
  PROVE  /\ [r EXCEPT !.at = a] \in Row
         /\ [r EXCEPT !.at = a].at = a /\ [r EXCEPT !.at = a].due = r.due
         /\ [r EXCEPT !.at = a].before = r.before
         /\ [r EXCEPT !.due = b] \in Row
         /\ [r EXCEPT !.due = b].due = b /\ [r EXCEPT !.due = b].at = r.at
         /\ [r EXCEPT !.due = b].before = r.before
  BY DEF Row

LEMMA DeleterFields ==
  ASSUME NEW r \in DeleterRow, NEW S \in SUBSET Org
  PROVE  /\ [r EXCEPT !.found = S] \in DeleterRow
         /\ [r EXCEPT !.found = S].found = S /\ [r EXCEPT !.found = S].clear = r.clear
         /\ [r EXCEPT !.clear = S] \in DeleterRow
         /\ [r EXCEPT !.clear = S].clear = S /\ [r EXCEPT !.clear = S].found = r.found
  BY DEF DeleterRow

(* What a change of one org leaves to be shown.                            *)
LEMMA Types ==
  ASSUME OrgTypeOK
  PROVE  /\ org \in [Org -> Row] /\ admin \in [Admin -> AdminRow] /\ deleter \in [Deleter -> DeleterRow]
         /\ said \in [Org -> Nat] /\ wish \in [Org -> Status] /\ failures \in 0..MaxFailures
         /\ Tenant \subseteq Org /\ Reseller \subseteq Org
         /\ \A t \in Tenant : ParentOf[t] \in Reseller
         /\ \A t \in Tenant : t \notin Reseller
  BY OrgAssumption DEF OrgTypeOK, Row, AdminRow, DeleterRow, Status, Org

LEMMA OrgStarts == OrgInit => OrgInv
<1> SUFFICES ASSUME OrgInit PROVE OrgInv  OBVIOUS
<1>1. /\ \A o \in Org : org[o].at \in {"none", "active"} /\ org[o].due = FALSE /\ org[o].before = "none"
      /\ org \in [Org -> Row]
      /\ \A t \in Tenant : org[t].at = "none"
      /\ \A o \in Org : wish[o] = "active" /\ said[o] = 0
      /\ \A q \in Admin : admin[q].on = {}
      /\ \A d \in Deleter : deleter[d].found = {} /\ deleter[d].clear = {}
  <2> DEFINE active == [NoOrg EXCEPT !.at = "active"]
  <2>1. NoOrg \in Row  BY DEF NoOrg, Row
  <2>3. active \in Row /\ active.at = "active" /\ active.due = FALSE /\ active.before = "none"
    BY <2>1, RowFields DEF NoOrg
  <2> HIDE DEF active
  <2>4. org = [o \in Org |-> IF o \in Reseller THEN active ELSE NoOrg]  BY DEF OrgInit, active
  <2>2. \A t \in Tenant : t \in Org /\ t \notin Reseller  BY OrgAssumption DEF Org
  <2>5. \A o \in Org : org[o] = IF o \in Reseller THEN active ELSE NoOrg  BY <2>4
  <2>6. QED  BY <2>1, <2>2, <2>3, <2>4, <2>5 DEF OrgInit, NoOrg, NoAdmin, NoneDue
<1>2. OrgTypeOK
  <2>1. 0 \in 0..MaxFailures  BY OrgAssumption
  <2>2. QED  BY <1>1, <2>1 DEF OrgInit, OrgTypeOK, Row, NoAdmin, NoneDue
<1>3. DeletionsAreRight
  BY <1>1, <1>2 DEF DeletionsAreRight, DeletedHasNoTenants, DeletedOnce, SuspensionStands, Org
<1>4. QED
  BY <1>1, <1>3 DEF OrgInv, RequestsAreOver, NothingBegun, DueIsLeaving, FoundIsDue, BeforeStands

-----------------------------------------------------------------------------
(* One lemma per action. *)

(* What is left to show of a step that has changed no org.                 *)
LEMMA OrgsStay ==
  ASSUME OrgInv, OrgTypeOK', UNCHANGED <<org, said, wish>>, RequestsAreOver', NothingBegun', FoundIsDue'
  PROVE  OrgInv'
  BY DEF OrgInv, DeletionsAreRight, DeletedHasNoTenants, DeletedOnce, SuspensionStands, TenantsOf,
         DueIsLeaving, BeforeStands

LEMMA ReadsKeep ==
  ASSUME OrgInv, NEW q \in Admin, NEW o \in Org, ReadSuspend(q, o) \/ ReadResume(q, o)
  PROVE  OrgInv'
<1>1. PICK read \in Status : Reads(q, o, read)
  BY DEF ReadSuspend, ReadResume, Status
<1>2. org[o].at \in Status  BY DEF ReadSuspend, ReadResume, Status
<1>3. org \in [Org -> Row] /\ admin \in [Admin -> AdminRow]  BY Types DEF OrgInv, DeletionsAreRight
<1>4. /\ admin' \in [Admin -> AdminRow] /\ admin'[q].on = {o} /\ admin'[q].at = read
      /\ \A r \in Admin \ {q} : admin'[r] = admin[r]
      /\ UNCHANGED <<org, deleter, said, wish, failures>>
  BY <1>1, <1>3 DEF Reads, AdminRow, Status
<1>5. ~org[o].due /\ org[o].at # "deleted" /\ org[o].at # "none"  BY <1>2, <1>3 DEF OrgInv, DueIsLeaving, Status
<1>6. OrgTypeOK'  BY <1>4 DEF OrgInv, DeletionsAreRight, OrgTypeOK, AdminRow
<1>7. RequestsAreOver'  BY <1>4, <1>5 DEF OrgInv, RequestsAreOver
<1>8. NothingBegun'  BY <1>4, <1>5 DEF OrgInv, NothingBegun
<1>9. FoundIsDue'  BY <1>4 DEF OrgInv, FoundIsDue, TenantsOf
<1>10. QED  BY <1>4, <1>6, <1>7, <1>8, <1>9, OrgsStay

LEMMA ReadCreateKeeps ==
  ASSUME OrgInv, NEW q \in Admin, NEW t \in Tenant, ReadCreate(q, t)
  PROVE  OrgInv'
<1>1. org \in [Org -> Row] /\ admin \in [Admin -> AdminRow] /\ t \in Org /\ ParentOf[t] \in Org
  BY Types DEF OrgInv, DeletionsAreRight
<1>2. org[t].at = "none" /\ org[ParentOf[t]].at \notin {"pending", "deleted"}  BY DEF ReadCreate
<1>3. /\ admin' \in [Admin -> AdminRow] /\ admin'[q].on = {t} /\ admin'[q].at = "active"
      /\ \A r \in Admin \ {q} : admin'[r] = admin[r]
      /\ UNCHANGED <<org, deleter, said, wish, failures>>
  BY <1>1 DEF ReadCreate, Reads, AdminRow
<1>4. ~org[t].due /\ ~org[ParentOf[t]].due  BY <1>1, <1>2 DEF OrgInv, DueIsLeaving
<1>5. OrgTypeOK'  BY <1>3 DEF OrgInv, DeletionsAreRight, OrgTypeOK, AdminRow
<1>6. RequestsAreOver'  BY <1>2, <1>3, <1>4 DEF OrgInv, RequestsAreOver, Status
<1>7. NothingBegun'  BY <1>2, <1>3, <1>4 DEF OrgInv, NothingBegun
<1>8. FoundIsDue'  BY <1>3 DEF OrgInv, FoundIsDue, TenantsOf
<1>9. QED  BY <1>3, <1>5, <1>6, <1>7, <1>8, OrgsStay

(* What is left to show when one org has, and none of the requests but one *)
(* that is over: what it was, and what of it and of its tenants.           *)
LEMMA OneOrg ==
  ASSUME OrgInv, NEW o \in Org, NEW r \in Row, org' = [org EXCEPT ![o] = r],
         OrgTypeOK', \A p \in Admin : admin'[p] = admin[p] \/ admin'[p].on = {},
         \A d \in Deleter : /\ deleter'[d].found \subseteq deleter[d].found
                            /\ deleter'[d].clear \subseteq deleter[d].clear \cap deleter'[d].found,
         \A p \in Org \ {o} : said'[p] = said[p] /\ wish'[p] = wish[p],
         said'[o] = (IF r.at = "deleted" THEN 1 ELSE 0),
         r.at \in Status => r.at = wish'[o],
         r.at = "pending" => r.before = wish'[o],
         r.due => r.at \in {"pending", "deleted"},
         r.due \/ r.at = "deleted" =>
           \A p \in Admin : /\ o \notin admin'[p].on
                            /\ \A t \in Tenant : org[t].at = "none" /\ ParentOf[t] = o => t \notin admin'[p].on,
         r.at = "deleted" => TenantsOf(o) = {},
         r.at \in {"pending", "active", "suspended"} /\ o \in Tenant /\ org[o].at \in {"none", "deleted"} =>
           ~org[ParentOf[o]].due /\ org[ParentOf[o]].at # "deleted",
         r.at # "none",
         r.at = "pending" => \A d \in Deleter : o \notin deleter[d].found
  PROVE  OrgInv'
<1>1. /\ org \in [Org -> Row] /\ Tenant \subseteq Org /\ Reseller \subseteq Org
      /\ \A t \in Tenant : ParentOf[t] \in Reseller /\ t \notin Reseller
  BY Types DEF OrgInv, DeletionsAreRight
<1>2. /\ org'[o] = r
      /\ \A p \in Org \ {o} : org'[p] = org[p]
  BY <1>1
<1>3. \A p \in Org : TenantsOf(p)' \subseteq TenantsOf(p) \cup {o}
  BY <1>1, <1>2 DEF TenantsOf
<1>4. ASSUME NEW p \in Reseller, TenantsOf(p) = {}, org[p].due \/ org[p].at = "deleted", p # o
      PROVE  TenantsOf(p)' = {}
  <2>1. SUFFICES ASSUME o \in TenantsOf(p)' PROVE FALSE  BY <1>1, <1>3, <1>4
  <2>2. o \in Tenant /\ ParentOf[o] = p /\ r.at \notin {"none", "deleted"}  BY <1>2, <2>1 DEF TenantsOf
  <2>3. org[o].at \in {"none", "deleted"}  BY <1>4, <2>2 DEF TenantsOf
  <2>4. QED  BY <1>4, <2>2, <2>3 DEF Row
<1>5. o \in Reseller => TenantsOf(o)' = TenantsOf(o)
  BY <1>1, <1>2 DEF TenantsOf
<1>6. DeletedHasNoTenants'
  <2>1. ASSUME NEW p \in Reseller, org'[p].at = "deleted" PROVE TenantsOf(p)' = {}
    <3>1. CASE p = o  BY <1>2, <1>5, <2>1, <3>1
    <3>2. CASE p # o  BY <1>1, <1>2, <1>4, <2>1, <3>2 DEF OrgInv, DeletionsAreRight, DeletedHasNoTenants
    <3>3. QED  BY <3>1, <3>2
  <2>2. QED  BY <2>1 DEF DeletedHasNoTenants
<1>7. DeletedOnce' /\ SuspensionStands' /\ DueIsLeaving' /\ BeforeStands'
  BY <1>1, <1>2 DEF OrgInv, DeletionsAreRight, DeletedOnce, SuspensionStands, DueIsLeaving, BeforeStands, Status
<1>8. RequestsAreOver'
  BY <1>1, <1>2 DEF OrgInv, RequestsAreOver
<1>9. NothingBegun'
  <2>1. ASSUME NEW q \in Admin, NEW t \in Tenant \cap admin'[q].on, org'[t].at = "none"
        PROVE  ~org'[ParentOf[t]].due /\ org'[ParentOf[t]].at # "deleted"
    <3>1. admin'[q] = admin[q]  BY <2>1
    <3>2. t # o /\ org[t].at = "none"  BY <1>1, <1>2, <2>1
    <3>3. ~org[ParentOf[t]].due /\ org[ParentOf[t]].at # "deleted"
      BY <3>1, <3>2 DEF OrgInv, NothingBegun
    <3>4. CASE ParentOf[t] = o  BY <1>1, <1>2, <2>1, <3>2, <3>4
    <3>5. CASE ParentOf[t] # o  BY <1>1, <1>2, <2>1, <3>3, <3>5
    <3>6. QED  BY <3>4, <3>5
  <2>2. QED  BY <2>1 DEF NothingBegun
<1>10. FoundIsDue'
  <2>1. ASSUME NEW d \in Deleter, NEW p \in deleter'[d].clear, org'[p].at = "pending", p \in Org
        PROVE  TenantsOf(p)' = {}
    <3>1. p \in deleter[d].clear /\ p \in deleter[d].found  BY <2>1 DEF OrgInv, FoundIsDue
    <3>2. p # o  BY <1>2, <2>1, <3>1
    <3>3. org[p].at = "pending" /\ TenantsOf(p) = {} /\ org[p].due
      BY <1>2, <2>1, <3>1, <3>2 DEF OrgInv, FoundIsDue
    <3>4. CASE p \in Reseller  BY <1>4, <3>2, <3>3, <3>4
    <3>5. CASE p \notin Reseller  BY <1>1, <3>5 DEF TenantsOf
    <3>6. QED  BY <3>4, <3>5
  <2>2. \A d \in Deleter : deleter'[d].clear \subseteq Org /\ deleter'[d].found \subseteq Org
    BY DEF OrgTypeOK
  <2>3. \A d \in Deleter : \A p \in deleter'[d].found : org'[p].at = "pending" => org'[p].due
    BY <1>2, <2>2 DEF OrgInv, FoundIsDue
  <2>4. QED  BY <2>1, <2>2, <2>3 DEF OrgInv, FoundIsDue
<1>11. QED
  BY <1>6, <1>7, <1>8, <1>9, <1>10 DEF OrgInv, DeletionsAreRight

LEMMA WriteKeeps ==
  ASSUME OrgInv, NEW q \in Admin, NEW o \in Org, Write(q, o)
  PROVE  OrgInv'
<1> DEFINE r == [org[o] EXCEPT !.at = admin[q].at]
<1>1. /\ org \in [Org -> Row] /\ admin \in [Admin -> AdminRow] /\ wish \in [Org -> Status]
      /\ said \in [Org -> Nat]
  BY Types DEF OrgInv, DeletionsAreRight
<1>2. /\ o \in admin[q].on /\ org' = [org EXCEPT ![o] = r]
      /\ wish' = [wish EXCEPT ![o] = admin[q].at] /\ admin' = [admin EXCEPT ![q] = NoAdmin]
      /\ UNCHANGED <<deleter, said, failures>>
  BY DEF Write
<1>3. admin[q].at \in Status /\ ~org[o].due /\ org[o].at # "deleted"
  BY <1>2 DEF OrgInv, RequestsAreOver
<1>4. r \in Row /\ r.at = admin[q].at /\ ~r.due
  <2>1. org[o] \in Row /\ admin[q].at \in {"none", "active", "suspended", "pending", "deleted"}
    BY <1>1, <1>3 DEF Status
  <2>2. QED  BY <1>3, <2>1 DEF Row
<1> HIDE DEF r
<1>5. /\ admin' \in [Admin -> AdminRow] /\ admin'[q].on = {}
      /\ \A p \in Admin \ {q} : admin'[p] = admin[p]
  BY <1>1, <1>2 DEF NoAdmin, AdminRow
<1>6. /\ wish' \in [Org -> Status] /\ wish'[o] = r.at /\ org' \in [Org -> Row]
      /\ \A p \in Org \ {o} : wish'[p] = wish[p]
  BY <1>1, <1>2, <1>3, <1>4
<1>7. OrgTypeOK'
  BY <1>2, <1>5, <1>6 DEF OrgInv, DeletionsAreRight, OrgTypeOK, Row, AdminRow, Status
<1>8. said'[o] = 0 /\ r.at \in Status /\ r.at \notin {"deleted", "pending", "none"}
  BY <1>2, <1>3, <1>4 DEF OrgInv, DeletionsAreRight, DeletedOnce, Status
<1>9. o \in Tenant /\ org[o].at \in {"none", "deleted"} =>
        ~org[ParentOf[o]].due /\ org[ParentOf[o]].at # "deleted"
  BY <1>2, <1>3 DEF OrgInv, NothingBegun
<1>10. \A d \in Deleter : /\ deleter'[d].found \subseteq deleter[d].found
                          /\ deleter'[d].clear \subseteq deleter[d].clear \cap deleter'[d].found
  BY <1>2 DEF OrgInv, FoundIsDue
<1>11. \A p \in Org \ {o} : said'[p] = said[p]  BY <1>2
<1>12. QED
  BY <1>2, <1>4, <1>5, <1>6, <1>7, <1>8, <1>9, <1>10, <1>11, OneOrg

LEMMA RequestDeletionKeeps ==
  ASSUME OrgInv, ~Hurried, NEW o \in Org, RequestDeletion(o)
  PROVE  OrgInv'
<1> DEFINE r == [at |-> "pending", before |-> org[o].at, due |-> FALSE]
<1>1. org \in [Org -> Row] /\ wish \in [Org -> Status]  BY Types DEF OrgInv, DeletionsAreRight
<1>2. /\ org[o].at \in Status /\ TenantsOf(o) = {} /\ org' = [org EXCEPT ![o] = r]
      /\ \A d \in Deleter : o \notin deleter[d].found
      /\ UNCHANGED <<admin, deleter, said, wish, failures>>
  BY DEF RequestDeletion, Status
<1>3. r \in Row /\ r.at = "pending" /\ r.before = org[o].at /\ ~r.due  BY <1>1, <1>2 DEF Row, Status
<1> HIDE DEF r
<1>4. org' \in [Org -> Row]  BY <1>1, <1>2, <1>3
<1>5. OrgTypeOK'  BY <1>2, <1>4 DEF OrgInv, DeletionsAreRight, OrgTypeOK, Row
<1>6. r.before = wish'[o] /\ said'[o] = 0
  BY <1>2, <1>3 DEF OrgInv, DeletionsAreRight, SuspensionStands, DeletedOnce, Status
<1>7. \A d \in Deleter : /\ deleter'[d].found \subseteq deleter[d].found
                         /\ deleter'[d].clear \subseteq deleter[d].clear \cap deleter'[d].found
  BY <1>2 DEF OrgInv, FoundIsDue
<1>8. \A p \in Org \ {o} : said'[p] = said[p] /\ wish'[p] = wish[p]  BY <1>2
<1>9. org[o].at \notin {"none", "deleted"} /\ r.at \notin Status /\ r.at # "deleted" /\ r.at # "none"
  BY <1>2, <1>3 DEF Status
<1>10. QED  BY <1>2, <1>3, <1>5, <1>6, <1>7, <1>8, <1>9, OneOrg

LEMMA CancelDeletionKeeps ==
  ASSUME OrgInv, NEW o \in Org, CancelDeletion(o)
  PROVE  OrgInv'
<1> DEFINE a == IF org[o].before = "suspended" THEN "suspended" ELSE "active"
           r == [NoOrg EXCEPT !.at = a]
<1>1. org \in [Org -> Row] /\ wish \in [Org -> Status]  BY Types DEF OrgInv, DeletionsAreRight
<1>2. /\ org[o].at = "pending" /\ org' = [org EXCEPT ![o] = r]
      /\ UNCHANGED <<admin, deleter, said, wish, failures>>
  BY DEF CancelDeletion
<1>3. a \in Status /\ a = wish[o]
  BY <1>1, <1>2 DEF OrgInv, BeforeStands, Status
<1> HIDE DEF a
<1>4. r \in Row /\ r.at = a /\ ~r.due
  <2>1. NoOrg \in Row /\ NoOrg.due = FALSE  BY DEF NoOrg, Row
  <2>2. a \in {"none", "active", "suspended", "pending", "deleted"}  BY <1>3 DEF Status
  <2>3. QED  BY <2>1, <2>2 DEF Row
<1> HIDE DEF r
<1>5. org' \in [Org -> Row]  BY <1>1, <1>2, <1>4
<1>6. OrgTypeOK'  BY <1>2, <1>5 DEF OrgInv, DeletionsAreRight, OrgTypeOK, Row
<1>7. said'[o] = 0 /\ wish'[o] = r.at /\ r.at \notin {"none", "pending", "deleted"}
  BY <1>2, <1>3, <1>4 DEF OrgInv, DeletionsAreRight, DeletedOnce, Status
<1>8. \A d \in Deleter : /\ deleter'[d].found \subseteq deleter[d].found
                         /\ deleter'[d].clear \subseteq deleter[d].clear \cap deleter'[d].found
  BY <1>2 DEF OrgInv, FoundIsDue
<1>9. \A p \in Org \ {o} : said'[p] = said[p] /\ wish'[p] = wish[p]  BY <1>2
<1>10. QED  BY <1>2, <1>4, <1>6, <1>7, <1>8, <1>9, OneOrg

LEMMA GraceEndsKeeps ==
  ASSUME OrgInv, NEW o \in Org, GraceEnds(o)
  PROVE  OrgInv'
<1> DEFINE r == [org[o] EXCEPT !.due = TRUE]
<1>1. org \in [Org -> Row] /\ wish \in [Org -> Status]  BY Types DEF OrgInv, DeletionsAreRight
<1>2. /\ org[o].at = "pending" /\ ~org[o].due /\ org' = [org EXCEPT ![o] = r]
      /\ \A q \in Admin : admin[q].on = {}
      /\ UNCHANGED <<admin, deleter, said, wish, failures>>
  BY DEF GraceEnds, NoAdmin
<1>3. r \in Row /\ r.at = "pending" /\ r.before = org[o].before  BY <1>1, <1>2 DEF Row
<1> HIDE DEF r
<1>4. org' \in [Org -> Row]  BY <1>1, <1>2, <1>3
<1>5. OrgTypeOK'  BY <1>2, <1>4 DEF OrgInv, DeletionsAreRight, OrgTypeOK, Row
<1>6. said'[o] = 0 /\ r.before = wish'[o]
  BY <1>2, <1>3 DEF OrgInv, DeletionsAreRight, DeletedOnce, BeforeStands
<1>7. \A d \in Deleter : o \notin deleter[d].found
  BY <1>2 DEF OrgInv, FoundIsDue
<1>8. \A d \in Deleter : /\ deleter'[d].found \subseteq deleter[d].found
                         /\ deleter'[d].clear \subseteq deleter[d].clear \cap deleter'[d].found
  BY <1>2 DEF OrgInv, FoundIsDue
<1>9. \A p \in Org \ {o} : said'[p] = said[p] /\ wish'[p] = wish[p]  BY <1>2
<1>10. r.at \notin Status /\ r.at # "deleted" /\ r.at # "none"  BY <1>3 DEF Status
<1>11. \A q \in Admin : admin'[q].on = {}  BY <1>2
<1>12. org[o].at \notin {"none", "deleted"}  BY <1>2
<1>13. QED  BY <1>2, <1>3, <1>5, <1>6, <1>7, <1>8, <1>9, <1>10, <1>11, <1>12, OneOrg

LEMMA ClaimDeletionKeeps ==
  ASSUME OrgInv, NEW d \in Deleter, NEW o \in Org, ClaimDeletion(d, o)
  PROVE  OrgInv' /\ (org'[o].at = "deleted" /\ org[o].at # "deleted" => org[o].due)
                 /\ \A p \in Org \ {o} : org'[p] = org[p]
<1>1. /\ org \in [Org -> Row] /\ wish \in [Org -> Status] /\ said \in [Org -> Nat]
      /\ deleter \in [Deleter -> DeleterRow]
  BY Types DEF OrgInv, DeletionsAreRight
<1>2. /\ deleter' \in [Deleter -> DeleterRow]
      /\ deleter'[d].found = deleter[d].found \ {o} /\ deleter'[d].clear = {}
      /\ \A e \in Deleter \ {d} : deleter'[e] = deleter[e]
  BY <1>1 DEF ClaimDeletion, Passes, DeleterRow
<1>3. \A e \in Deleter : /\ deleter'[e].found \subseteq deleter[e].found
                         /\ deleter'[e].clear \subseteq deleter[e].clear \cap deleter'[e].found
  BY <1>2 DEF OrgInv, FoundIsDue
<1>4. UNCHANGED <<admin, wish, failures>> /\ o \in deleter[d].clear /\ o \in deleter[d].found
  BY DEF ClaimDeletion, OrgInv, FoundIsDue
<1>5. CASE org[o].at = "pending"
  <2> DEFINE r == [org[o] EXCEPT !.at = "deleted"]
  <2>1. org' = [org EXCEPT ![o] = r] /\ said' = [said EXCEPT ![o] = @ + 1]
    BY <1>5 DEF ClaimDeletion
  <2>2. r \in Row /\ r.at = "deleted" /\ r.due = org[o].due  BY <1>1 DEF Row
  <2> HIDE DEF r
  <2>3. org' \in [Org -> Row] /\ said' \in [Org -> Nat]  BY <1>1, <2>1, <2>2
  <2>4. OrgTypeOK'
    BY <1>2, <1>4, <2>3 DEF OrgInv, DeletionsAreRight, OrgTypeOK, Row, DeleterRow
  <2>5. org[o].due /\ TenantsOf(o) = {}  BY <1>4, <1>5 DEF OrgInv, FoundIsDue
  <2>6. said'[o] = 1 /\ \A p \in Org \ {o} : said'[p] = said[p] /\ wish'[p] = wish[p]
    BY <1>1, <1>4, <1>5, <2>1 DEF OrgInv, DeletionsAreRight, DeletedOnce
  <2>7. \A q \in Admin : /\ o \notin admin'[q].on
                         /\ \A t \in Tenant : org[t].at = "none" /\ ParentOf[t] = o => t \notin admin'[q].on
    BY <1>4, <2>5 DEF OrgInv, RequestsAreOver, NothingBegun
  <2>8. r.at \notin Status /\ r.at \notin {"none", "pending"}  BY <2>2 DEF Status
  <2>9. \A q \in Admin : admin'[q] = admin[q]  BY <1>4
  <2>10. r.at \notin {"pending", "active", "suspended"}  BY <2>2
  <2>11. OrgInv'  BY <1>3, <2>1, <2>2, <2>4, <2>5, <2>6, <2>7, <2>8, <2>9, <2>10, OneOrg
  <2>12. QED  BY <1>1, <2>1, <2>5, <2>11
<1>6. CASE org[o].at # "pending"
  <2>1. UNCHANGED <<org, said>>  BY <1>6 DEF ClaimDeletion
  <2>2. OrgTypeOK'
    BY <1>2, <1>4, <2>1 DEF OrgInv, DeletionsAreRight, OrgTypeOK, DeleterRow
  <2>3. RequestsAreOver' /\ NothingBegun'
    BY <1>4, <2>1 DEF OrgInv, RequestsAreOver, NothingBegun
  <2>4. FoundIsDue'  BY <1>3, <2>1 DEF OrgInv, FoundIsDue, TenantsOf
  <2>5. OrgInv'  BY <1>4, <2>1, <2>2, <2>3, <2>4, OrgsStay
  <2>6. QED  BY <2>1, <2>5
<1>7. QED  BY <1>5, <1>6

LEMMA PassKeeps ==
  ASSUME OrgInv, NEW d \in Deleter, Pass(d) \/ PassFails(d) \/ \E o \in Org : Check(d, o)
  PROVE  OrgInv'
<1>1. /\ deleter \in [Deleter -> DeleterRow] /\ failures \in 0..MaxFailures
  BY Types DEF OrgInv, DeletionsAreRight
<1>2. UNCHANGED <<org, admin, said, wish>>  BY DEF Pass, PassFails, Check
<1>3. failures' \in 0..MaxFailures
  BY <1>1, OrgAssumption DEF Pass, PassFails, Check, Failure
<1> DEFINE Kept == /\ deleter' \in [Deleter -> DeleterRow]
                   /\ \A e \in Deleter \ {d} : deleter'[e] = deleter[e]
                   /\ deleter'[d].clear \subseteq deleter'[d].found
                   /\ \A o \in deleter'[d].found : o \in deleter[d].found \/ org[o].due
                   /\ \A o \in deleter'[d].clear : o \in deleter[d].clear \/ TenantsOf(o) = {}
<1>4. Kept
  <2>1. CASE Pass(d)
    <3> DEFINE due == {o \in Org : org[o].at = "pending" /\ org[o].due}
    <3>1. deleter[d] = NoneDue /\ deleter' = [deleter EXCEPT ![d] = [deleter[d] EXCEPT !.found = due]]
      BY <2>1 DEF Pass
    <3> HIDE DEF due
    <3>2. deleter[d] \in DeleterRow /\ due \in SUBSET Org /\ deleter[d].clear = {}
      <4>1. deleter[d].clear = {}  BY <3>1 DEF NoneDue
      <4>2. due \subseteq Org  BY DEF due
      <4>3. QED  BY <1>1, <4>1, <4>2
    <3> DEFINE r == [deleter[d] EXCEPT !.found = due]
    <3>3. r \in DeleterRow /\ r.found = due /\ r.clear = {}  BY <3>2 DEF DeleterRow
    <3>4. \A o \in due : org[o].due  BY DEF due
    <3> HIDE DEF r
    <3>5. deleter' = [deleter EXCEPT ![d] = r]  BY <3>1 DEF r
    <3>6. QED  BY <1>1, <3>3, <3>4, <3>5
  <2>2. CASE PassFails(d)
    <3>1. deleter' = [deleter EXCEPT ![d] = NoneDue] /\ NoneDue \in DeleterRow
      BY <2>2 DEF PassFails, NoneDue, DeleterRow
    <3>2. QED  BY <1>1, <3>1 DEF NoneDue
  <2>3. ASSUME NEW o \in Org, Check(d, o)
        PROVE  Kept
    <3> DEFINE r == IF TenantsOf(o) # {} THEN [found |-> deleter[d].found \ {o}, clear |-> {}]
                    ELSE [found |-> deleter[d].found, clear |-> {o}]
    <3>1. /\ o \in deleter[d].found /\ deleter[d].clear = {}
          /\ deleter' = [deleter EXCEPT ![d] = r]
      BY <2>3 DEF Check
    <3>2. deleter[d] \in DeleterRow  BY <1>1
    <3>3. r \in DeleterRow /\ r.found \subseteq deleter[d].found /\ r.clear \subseteq r.found
      BY <3>1, <3>2 DEF DeleterRow
    <3>4. \A p \in r.clear : TenantsOf(p) = {}  BY <3>1, <3>2 DEF DeleterRow
    <3> HIDE DEF r
    <3>5. QED  BY <1>1, <3>1, <3>3, <3>4
  <2>4. QED  BY <2>1, <2>2, <2>3
<1>5. OrgTypeOK'
  BY <1>2, <1>3, <1>4 DEF OrgInv, DeletionsAreRight, OrgTypeOK, DeleterRow
<1>6. FoundIsDue'
  BY <1>2, <1>4 DEF OrgInv, FoundIsDue, TenantsOf
<1>7. RequestsAreOver' /\ NothingBegun'
  BY <1>2 DEF OrgInv, RequestsAreOver, NothingBegun
<1>8. QED  BY <1>2, <1>5, <1>6, <1>7, OrgsStay

-----------------------------------------------------------------------------
LEMMA OrgSteps ==
  ASSUME OrgInv, ~Hurried, [OrgNext]_orgVars
  PROVE  OrgInv' /\ \A o \in Org : org'[o].at = "deleted" /\ org[o].at # "deleted" => org[o].due
<1> DEFINE Held == \A o \in Org : org'[o].at = "deleted" /\ org[o].at # "deleted" => org[o].due
<1>1. org \in [Org -> Row] /\ admin \in [Admin -> AdminRow] /\ Tenant \subseteq Org
  BY Types DEF OrgInv, DeletionsAreRight
<1>2. CASE UNCHANGED orgVars
  BY <1>2 DEF orgVars, OrgInv, DeletionsAreRight, OrgTypeOK, DeletedHasNoTenants, DeletedOnce,
       SuspensionStands, RequestsAreOver, NothingBegun, DueIsLeaving, FoundIsDue, BeforeStands, TenantsOf
<1>3. ASSUME NEW q \in Admin, NEW o \in Org, ReadSuspend(q, o) \/ ReadResume(q, o)
      PROVE  OrgInv' /\ Held
  BY <1>3, ReadsKeep DEF ReadSuspend, ReadResume, Reads
<1>4. ASSUME NEW q \in Admin, NEW t \in Tenant, ReadCreate(q, t)
      PROVE  OrgInv' /\ Held
  BY <1>4, ReadCreateKeeps DEF ReadCreate, Reads
<1>5. ASSUME NEW q \in Admin, NEW o \in Org, Write(q, o)
      PROVE  OrgInv' /\ Held
  <2>1. admin[q].at \in Status  BY <1>5 DEF Write, OrgInv, RequestsAreOver
  <2>2. org'[o].at # "deleted"
    <3>1. org'[o] = [org[o] EXCEPT !.at = admin[q].at]  BY <1>1, <1>5 DEF Write
    <3>2. [org[o] EXCEPT !.at = admin[q].at].at = admin[q].at  BY <1>1 DEF Row
    <3>3. QED  BY <2>1, <3>1, <3>2 DEF Status
  <2>3. \A p \in Org \ {o} : org'[p] = org[p]  BY <1>1, <1>5 DEF Write
  <2>4. QED  BY <1>5, <2>2, <2>3, WriteKeeps
<1>6. ASSUME NEW o \in Org, RequestDeletion(o)
      PROVE  OrgInv' /\ Held
  BY <1>1, <1>6, RequestDeletionKeeps DEF RequestDeletion
<1>7. ASSUME NEW o \in Org, CancelDeletion(o)
      PROVE  OrgInv' /\ Held
  <2>1. org'[o].at # "deleted"
    <3> DEFINE a == IF org[o].before = "suspended" THEN "suspended" ELSE "active"
    <3>1. org'[o] = [NoOrg EXCEPT !.at = a]  BY <1>1, <1>7 DEF CancelDeletion
    <3>2. a # "deleted"  OBVIOUS
    <3> HIDE DEF a
    <3>3. [NoOrg EXCEPT !.at = a].at = a  BY DEF NoOrg
    <3>4. QED  BY <3>1, <3>2, <3>3
  <2>2. \A p \in Org \ {o} : org'[p] = org[p]  BY <1>1, <1>7 DEF CancelDeletion
  <2>3. QED  BY <1>7, <2>1, <2>2, CancelDeletionKeeps
<1>8. ASSUME NEW o \in Org, GraceEnds(o)
      PROVE  OrgInv' /\ Held
  <2>1. org'[o].at = "pending"
    <3>1. org'[o] = [org[o] EXCEPT !.due = TRUE] /\ org[o].at = "pending"  BY <1>1, <1>8 DEF GraceEnds
    <3>2. [org[o] EXCEPT !.due = TRUE].at = org[o].at  BY <1>1 DEF Row
    <3>3. QED  BY <3>1, <3>2
  <2>2. \A p \in Org \ {o} : org'[p] = org[p]  BY <1>1, <1>8 DEF GraceEnds
  <2>3. QED  BY <1>8, <2>1, <2>2, GraceEndsKeeps
<1>9. ASSUME NEW d \in Deleter, NEW o \in Org, ClaimDeletion(d, o)
      PROVE  OrgInv' /\ Held
  BY <1>9, ClaimDeletionKeeps
<1>10. ASSUME NEW d \in Deleter, Pass(d) \/ PassFails(d) \/ \E o \in Org : Check(d, o)
       PROVE  OrgInv' /\ Held
  <2>1. UNCHANGED org  BY <1>10 DEF Pass, PassFails, Check
  <2>2. OrgInv'  BY <1>10, PassKeeps
  <2>3. QED  BY <2>1, <2>2
<1>11. QED
  BY <1>2, <1>3, <1>4, <1>5, <1>6, <1>7, <1>8, <1>9, <1>10 DEF OrgNext, DeleterStep

(* What finishDueDeletions deletes is deleted once and has no tenants, and *)
(* what cancelDeletion puts back is as it was last suspended or resumed,   *)
(* whatever requests and however many copies of the job there are.         *)
THEOREM DeletionsAreRightHolds == ~Hurried /\ OrgSpec => []DeletionsAreRight
<1> SUFFICES ASSUME ~Hurried PROVE OrgSpec => []DeletionsAreRight  OBVIOUS
<1>1. OrgInv /\ [OrgNext]_orgVars => OrgInv'  BY OrgSteps
<1>2. OrgInv => DeletionsAreRight  BY DEF OrgInv
<1>3. QED  BY OrgStarts, <1>1, <1>2, PTL DEF OrgSpec

(* Nothing is deleted before its grace is over, which begins anew when a   *)
(* deletion that was called off is asked for again.                        *)
THEOREM GraceHeldHolds == ~Hurried /\ OrgSpec => GraceHeld
<1> SUFFICES ASSUME ~Hurried PROVE OrgSpec => GraceHeld  OBVIOUS
<1>1. OrgInv /\ [OrgNext]_orgVars => OrgInv'  BY OrgSteps
<1>2. OrgInv /\ [OrgNext]_orgVars =>
        [\A o \in Org : org'[o].at = "deleted" /\ org[o].at # "deleted" => org[o].due]_orgVars
  BY OrgSteps
<1>3. QED  BY OrgStarts, <1>1, <1>2, PTL DEF OrgSpec, GraceHeld

-----------------------------------------------------------------------------
(* Certificates. *)

CertRow   == [at : {"none", "pending", "active", "failed"}, cert : Cert, due : BOOLEAN]
IssuerRow == [at : {"idle", "issuing", "failing"}, has : SUBSET Host, held : BOOLEAN]

(* What is due is there, and nobody has it leased.                         *)
DueIsFree == \A h \in Host : row[h].due => row[h].at # "none" /\ ~Leased(h)

(* Nor has anyone leased a wanted name without a row, which a survey is    *)
(* about to add.                                                           *)
MissingIsFree ==
  \A h \in Host : h \in survey \/ (h \in wanted /\ row[h].at = "none") => row[h].at = "none" /\ ~Leased(h)

(* What a copy has read of a certificate's row before it writes a failure. *)
NoneHeld ==
  \A i \in Issuer : issuer[i].at = "failing" /\ ~issuer[i].held =>
    \A h \in Working(i) : row[h].cert = 0

(* What the gateway serves is still there.                                 *)
ServedIsHeld == \A h \in ConsoleHost : served[h] # 0 /\ h \in wanted => row[h].cert # 0

CertInv ==
  /\ CertificatesKept
  /\ DueIsFree /\ MissingIsFree /\ NoneHeld /\ ServedIsHeld

(* The types in their parts: what the workers write, and what is served.   *)
RowTypes ==
  /\ wanted \subseteq Host /\ survey \subseteq Host
  /\ row \in [Host -> CertRow] /\ issuer \in [Issuer -> IssuerRow] /\ issued \in Cert

SipTypes ==
  /\ news \subseteq SipHost
  /\ syncOne \in [SipHost -> [at : {"idle", "fetched", "written"}, cert : Cert]]
  /\ syncAll \in [at : {"idle", "listed", "compared", "fetched"}, wants : [SipHost -> Cert],
                  stale : SUBSET SipHost, gone : SUBSET SipHost, cert : Cert, wrote : BOOLEAN]
  /\ table \in [SipHost -> Cert] /\ loaded \in [SipHost -> Cert] /\ torn \in BOOLEAN

LEMMA CertTypes ==
  CertTypeOK <=> RowTypes /\ SipTypes /\ served \in [ConsoleHost -> Cert] /\ faults \in 0..MaxFaults
  BY DEF CertTypeOK, RowTypes, SipTypes, CertRow, IssuerRow

LEMMA CertFacts ==
  /\ 0 \in Cert /\ MaxCert \in Nat /\ MaxFaults \in Nat /\ Cert = 0..MaxCert
  /\ SipHost \subseteq Host /\ ConsoleHost \subseteq Host
  BY CertAssumption DEF Cert, Host

LEMMA MaterialType ==
  ASSUME RowTypes
  PROVE  \A h \in Host : Material(h) \in Cert
  BY CertFacts DEF RowTypes, CertRow, Material

SipStep ==
  \/ \E h \in SipHost : OneStep(h) \/ FailOne(h)
  \/ AllStep \/ FailAll

LEMMA FaultType ==
  ASSUME faults \in 0..MaxFaults, Fault
  PROVE  faults' \in 0..MaxFaults
  BY CertFacts, SMT DEF Fault

(* OpenSIPs' part writes nothing of the others.                            *)
LEMMA SipStepTypes ==
  ASSUME RowTypes, SipTypes, faults \in 0..MaxFaults, SipStep
  PROVE  SipTypes' /\ faults' \in 0..MaxFaults /\ UNCHANGED <<rowVars, served>>
<1> DEFINE PassRow == [at : {"idle", "listed", "compared", "fetched"}, wants : [SipHost -> Cert],
                       stale : SUBSET SipHost, gone : SUBSET SipHost, cert : Cert, wrote : BOOLEAN]
           OneRow == [at : {"idle", "fetched", "written"}, cert : Cert]
<1>1. /\ syncAll \in PassRow /\ syncOne \in [SipHost -> OneRow] /\ table \in [SipHost -> Cert]
      /\ loaded \in [SipHost -> Cert] /\ torn \in BOOLEAN /\ news \subseteq SipHost
  BY DEF SipTypes
<1>2. \A h \in SipHost : Material(h) \in Cert  BY MaterialType, CertFacts
<1>3. NoSync \in OneRow /\ NoPass \in PassRow /\ 0 \in Cert  BY CertFacts DEF NoSync, NoPass
<1>4. ASSUME NEW h \in SipHost, OneStep(h) \/ FailOne(h)
      PROVE  SipTypes' /\ faults' \in 0..MaxFaults /\ UNCHANGED <<rowVars, served>>
  <2>1. CASE FetchOne(h)
    <3>1. [at |-> "fetched", cert |-> Material(h)] \in OneRow  BY <1>2
    <3>2. syncOne' \in [SipHost -> OneRow] /\ news' \subseteq SipHost  BY <1>1, <2>1, <3>1 DEF FetchOne
    <3>3. QED  BY <1>1, <2>1, <3>2 DEF FetchOne, SipTypes
  <2>2. CASE WriteOne(h)
    <3>1. syncOne[h] \in OneRow  BY <1>1
    <3>2. [syncOne[h] EXCEPT !.at = "written"] \in OneRow /\ syncOne[h].cert \in Cert  BY <3>1
    <3>3. syncOne' = [syncOne EXCEPT ![h] = [syncOne[h] EXCEPT !.at = "written"]]
      BY <2>2 DEF WriteOne
    <3> HIDE DEF OneRow
    <3>4. syncOne' \in [SipHost -> OneRow]  BY <1>1, <3>2, <3>3
    <3>5. QED  BY <1>1, <2>2, <3>2, <3>4 DEF WriteOne, SipTypes, OneRow
  <2>3. CASE ReloadOne(h)
    <3>1. syncOne' \in [SipHost -> OneRow] /\ loaded' = table /\ torn' = FALSE /\ news' \subseteq SipHost
      BY <1>1, <1>3, <2>3 DEF ReloadOne, Reload
    <3>2. QED  BY <1>1, <2>3, <3>1 DEF ReloadOne, SipTypes
  <2>4. CASE FailOne(h)
    <3>1. syncOne' \in [SipHost -> OneRow]  BY <1>1, <1>3, <2>4 DEF FailOne
    <3>2. QED  BY <1>1, <2>4, <3>1, FaultType DEF FailOne, SipTypes
  <2>5. QED  BY <1>4, <2>1, <2>2, <2>3, <2>4 DEF OneStep
<1>5. ASSUME AllStep \/ FailAll
      PROVE  SipTypes' /\ faults' \in 0..MaxFaults /\ UNCHANGED <<rowVars, served>>
  <2>1. CASE List
    <3>1. [h \in SipHost |-> Material(h)] \in [SipHost -> Cert]  BY <1>2
    <3>2. syncAll' \in PassRow  BY <1>3, <2>1, <3>1 DEF List
    <3>3. QED  BY <1>1, <2>1, <3>2 DEF List, SipTypes
  <2>2. CASE Compare
    <3>1. PICK stale \in SUBSET SipHost : Compared(stale)  BY <2>2 DEF Compare
    <3>2. syncAll' \in PassRow  BY <1>1, <3>1 DEF Compared
    <3>3. QED  BY <1>1, <3>1, <3>2 DEF Compared, SipTypes
  <2>3. ASSUME NEW h \in SipHost, FetchAll(h)
        PROVE  SipTypes' /\ faults' \in 0..MaxFaults /\ UNCHANGED <<rowVars, served>>
    <3>1. syncAll' \in PassRow  BY <1>1, <1>2, <2>3 DEF FetchAll
    <3>2. QED  BY <1>1, <2>3, <3>1 DEF FetchAll, SipTypes
  <2>4. ASSUME NEW h \in SipHost, WriteAll(h)
        PROVE  SipTypes' /\ faults' \in 0..MaxFaults /\ UNCHANGED <<rowVars, served>>
    <3>1. syncAll' \in PassRow  BY <1>1, <1>3, <2>4 DEF WriteAll
    <3>2. table' \in [SipHost -> Cert]  BY <1>1, <2>4 DEF WriteAll
    <3>3. QED  BY <1>1, <2>4, <3>1, <3>2 DEF WriteAll, SipTypes
  <2>5. ASSUME NEW h \in SipHost, Remove(h)
        PROVE  SipTypes' /\ faults' \in 0..MaxFaults /\ UNCHANGED <<rowVars, served>>
    <3>1. syncAll' \in PassRow  BY <1>1, <2>5 DEF Remove
    <3>2. table' \in [SipHost -> Cert]  BY <1>1, <1>3, <2>5 DEF Remove
    <3>3. QED  BY <1>1, <2>5, <3>1, <3>2 DEF Remove, SipTypes
  <2>6. CASE Finish
    <3>1. loaded' \in [SipHost -> Cert] /\ torn' \in BOOLEAN  BY <1>1, <2>6 DEF Finish, Reload
    <3>2. QED  BY <1>1, <1>3, <2>6, <3>1 DEF Finish, SipTypes
  <2>7. CASE FailAll
    <3>1. torn' \in BOOLEAN  BY <1>1, <2>7 DEF FailAll
    <3>2. QED  BY <1>1, <1>3, <2>7, <3>1, FaultType DEF FailAll, SipTypes
  <2>8. QED  BY <1>5, <2>1, <2>2, <2>3, <2>4, <2>5, <2>6, <2>7 DEF AllStep
<1>6. QED  BY <1>4, <1>5 DEF SipStep

(* What a step of the names or of a worker leaves to be shown.             *)
RowInv == /\ RowTypes
          /\ LeasedToOne /\ HeldStaysActive /\ DueIsFree /\ MissingIsFree /\ NoneHeld /\ ServedIsHeld

LEMMA CertStarts == CertInit => CertInv
<1> SUFFICES ASSUME CertInit PROVE CertInv  OBVIOUS
<1>1. RowTypes /\ SipTypes /\ served \in [ConsoleHost -> Cert] /\ faults \in 0..MaxFaults
  <2>1. RowTypes  BY CertFacts DEF CertInit, RowTypes, NoRow, AtRest, CertRow, IssuerRow
  <2>2. SipTypes  BY CertFacts DEF CertInit, SipTypes, NoSync, NoPass
  <2>3. faults \in 0..MaxFaults /\ served \in [ConsoleHost -> Cert]  BY CertFacts DEF CertInit
  <2>4. QED  BY <2>1, <2>2, <2>3
<1>2. /\ \A h \in Host : row[h].at = "none" /\ row[h].cert = 0 /\ ~row[h].due
      /\ \A i \in Issuer : issuer[i].has = {} /\ issuer[i].at = "idle"
      /\ \A h \in ConsoleHost : served[h] = 0
  BY CertFacts DEF CertInit, NoRow, AtRest
<1>3. QED
  BY <1>1, <1>2, CertTypes
     DEF CertInv, CertificatesKept, LeasedToOne, HeldStaysActive, DueIsFree, MissingIsFree, NoneHeld,
         ServedIsHeld, Leased, CertInit

(* The survey and the names.                                               *)
LEMMA SurveyKeeps ==
  ASSUME RowInv, Survey
  PROVE  RowInv'
<1>1. UNCHANGED <<wanted, row, issuer, issued, served>> /\ survey' = {h \in wanted : row[h].at = "none"}
  BY DEF Survey
<1>2. QED
  BY <1>1 DEF RowInv, RowTypes, LeasedToOne, HeldStaysActive, Material, DueIsFree, MissingIsFree, Leased,
       NoneHeld, Working, ServedIsHeld

LEMMA AddKeeps ==
  ASSUME RowInv, NEW h \in Host, Add(h)
  PROVE  RowInv'
<1>1. /\ UNCHANGED <<wanted, issuer, issued, served>> /\ h \in survey /\ survey' = survey \ {h}
      /\ row[h].at = "none" /\ ~Leased(h)
      /\ row' = [row EXCEPT ![h] = [at |-> "pending", cert |-> 0, due |-> TRUE]]
  BY DEF Add, RowInv, MissingIsFree
<1>2. [at |-> "pending", cert |-> 0, due |-> TRUE] \in CertRow  BY CertFacts DEF CertRow
<1>3. row \in [Host -> CertRow]  BY DEF RowInv, RowTypes
<1>4. /\ row' \in [Host -> CertRow] /\ row'[h].at = "pending" /\ row'[h].cert = 0 /\ row'[h].due
      /\ \A g \in Host \ {h} : row'[g] = row[g]
  BY <1>1, <1>2, <1>3
<1>5. row[h].cert = 0  BY <1>1, <1>3, CertFacts DEF RowInv, HeldStaysActive, Material
<1>6. RowTypes' /\ LeasedToOne'  BY <1>1, <1>4 DEF RowInv, RowTypes, LeasedToOne
<1>7. HeldStaysActive' /\ DueIsFree' /\ MissingIsFree'
  BY <1>1, <1>4 DEF RowInv, HeldStaysActive, Material, DueIsFree, MissingIsFree, Leased
<1>8. NoneHeld'
  <2>1. \A i \in Issuer : Working(i) \subseteq Host
    BY DEF RowInv, RowTypes, IssuerRow, Working
  <2>2. \A i \in Issuer : Working(i)' = Working(i)  BY <1>1 DEF Working
  <2>3. QED  BY <1>1, <1>4, <2>1, <2>2 DEF RowInv, NoneHeld
<1>9. ServedIsHeld'  BY <1>1, <1>4, <1>5, CertFacts DEF RowInv, ServedIsHeld
<1>10. QED  BY <1>6, <1>7, <1>8, <1>9 DEF RowInv

LEMMA ResellerDeletedKeeps ==
  ASSUME RowInv, NEW h \in Host, ResellerDeleted(h)
  PROVE  RowInv'
<1>1. /\ UNCHANGED <<survey, issuer, issued, served>> /\ wanted' = wanted \ {h}
      /\ row' = [row EXCEPT ![h] = NoRow] /\ h \in wanted
  BY DEF ResellerDeleted
<1>2. NoRow \in CertRow  BY CertFacts DEF CertRow, NoRow
<1>3. /\ row' \in [Host -> CertRow] /\ row'[h].at = "none" /\ row'[h].cert = 0 /\ ~row'[h].due
      /\ \A g \in Host \ {h} : row'[g] = row[g]
  BY <1>1, <1>2 DEF RowInv, RowTypes, NoRow
<1>4. RowTypes' /\ LeasedToOne'  BY <1>1, <1>3 DEF RowInv, RowTypes, LeasedToOne
<1>5. HeldStaysActive' /\ DueIsFree'
  BY <1>1, <1>3 DEF RowInv, HeldStaysActive, Material, DueIsFree, Leased
<1>6. MissingIsFree'
  BY <1>1, <1>3 DEF RowInv, MissingIsFree, Leased
<1>7. NoneHeld'
  <2>1. \A i \in Issuer : Working(i) \subseteq Host
    BY DEF RowInv, RowTypes, IssuerRow, Working
  <2>2. \A i \in Issuer : Working(i)' = Working(i)  BY <1>1 DEF Working
  <2>3. QED  BY <1>1, <1>3, <2>1, <2>2 DEF RowInv, NoneHeld
<1>8. ServedIsHeld'  BY <1>1, <1>3, CertFacts DEF RowInv, ServedIsHeld
<1>9. QED  BY <1>4, <1>5, <1>6, <1>7, <1>8 DEF RowInv

LEMMA ComesDueKeeps ==
  ASSUME RowInv, InLease, NEW h \in Host, ComesDue(h)
  PROVE  RowInv'
<1> DEFINE r == [row[h] EXCEPT !.due = TRUE]
<1>1. /\ UNCHANGED <<wanted, survey, issuer, issued, served>>
      /\ row' = [row EXCEPT ![h] = r] /\ row[h].at # "none" /\ ~Leased(h)
  BY DEF ComesDue
<1>2. row[h] \in CertRow  BY DEF RowInv, RowTypes
<1>3. r \in CertRow /\ r.at = row[h].at /\ r.cert = row[h].cert /\ r.due = TRUE
  BY <1>2 DEF CertRow
<1> HIDE DEF r
<1>4. /\ row' \in [Host -> CertRow] /\ row'[h].at = row[h].at /\ row'[h].cert = row[h].cert
      /\ \A g \in Host \ {h} : row'[g] = row[g]
  BY <1>1, <1>3 DEF RowInv, RowTypes
<1>5. \A g \in Host : row'[g].at = row[g].at /\ row'[g].cert = row[g].cert  BY <1>4
<1>6. RowTypes' /\ LeasedToOne'  BY <1>1, <1>4 DEF RowInv, RowTypes, LeasedToOne
<1>7. HeldStaysActive' /\ MissingIsFree'
  BY <1>1, <1>5 DEF RowInv, HeldStaysActive, Material, MissingIsFree, Leased
<1>8. DueIsFree'  BY <1>1, <1>4 DEF RowInv, DueIsFree, Leased
<1>9. NoneHeld'
  <2>1. \A i \in Issuer : Working(i) \subseteq Host
    BY DEF RowInv, RowTypes, IssuerRow, Working
  <2>2. \A i \in Issuer : Working(i)' = Working(i)  BY <1>1 DEF Working
  <2>3. QED  BY <1>1, <1>5, <2>1, <2>2 DEF RowInv, NoneHeld
<1>10. ServedIsHeld'  BY <1>1, <1>5, CertFacts DEF RowInv, ServedIsHeld
<1>11. QED  BY <1>6, <1>7, <1>8, <1>9, <1>10 DEF RowInv

(* The workers.                                                            *)
LEMMA ClaimKeeps ==
  ASSUME RowInv, NEW i \in Issuer, Claim(i)
  PROVE  RowInv'
<1>1. PICK b \in SUBSET Host : /\ \A h \in b : row[h].due
                               /\ Takes(i, b) /\ row' = Pushed(b)
  BY DEF Claim, Batches
<1>2. UNCHANGED <<wanted, survey, issued, served>>  BY DEF Claim
<1>3. row \in [Host -> CertRow] /\ issuer \in [Issuer -> IssuerRow]  BY DEF RowInv, RowTypes
<1>4. /\ row' \in [Host -> CertRow]
      /\ \A h \in Host : row'[h].at = row[h].at /\ row'[h].cert = row[h].cert
      /\ \A h \in Host : row'[h].due => row[h].due /\ h \notin b
  <2>1. \A h \in Host : /\ [row[h] EXCEPT !.due = FALSE] \in CertRow
                        /\ [row[h] EXCEPT !.due = FALSE].at = row[h].at
                        /\ [row[h] EXCEPT !.due = FALSE].cert = row[h].cert
                        /\ [row[h] EXCEPT !.due = FALSE].due = FALSE
    BY <1>3 DEF CertRow
  <2>2. \A h \in Host : row'[h] = IF h \in b THEN [row[h] EXCEPT !.due = FALSE] ELSE row[h]
    BY <1>1 DEF Pushed
  <2>3. row' = [h \in Host |-> row'[h]]  BY <1>1 DEF Pushed
  <2>4. QED  BY <1>3, <2>1, <2>2, <2>3
<1>5. /\ issuer' \in [Issuer -> IssuerRow] /\ issuer'[i].at = "issuing" /\ issuer'[i].has = b
      /\ \A j \in Issuer \ {i} : issuer'[j] = issuer[j]
  BY <1>1, <1>3 DEF Takes, IssuerRow
<1>6. \A h \in b : ~Leased(h) /\ row[h].at # "none"  BY <1>1 DEF RowInv, DueIsFree
<1>7. \A h \in Host : Leased(h)' => Leased(h) \/ h \in b  BY <1>5 DEF Leased
<1>8. RowTypes'  BY <1>2, <1>4, <1>5 DEF RowInv, RowTypes
<1>9. LeasedToOne'
  BY <1>3, <1>5, <1>6 DEF RowInv, LeasedToOne, Leased
<1>10. HeldStaysActive' /\ DueIsFree' /\ MissingIsFree'
  BY <1>2, <1>4, <1>6, <1>7 DEF RowInv, HeldStaysActive, Material, DueIsFree, MissingIsFree
<1>11. NoneHeld'
  <2>1. ASSUME NEW j \in Issuer, issuer'[j].at = "failing", ~issuer'[j].held, NEW h \in Working(j)'
        PROVE  row'[h].cert = 0
    <3>1. j # i /\ issuer'[j] = issuer[j]  BY <1>5, <2>1
    <3>2. Working(j)' = Working(j) /\ Working(j) \subseteq Host  BY <1>3, <3>1 DEF Working, IssuerRow
    <3>3. QED  BY <1>4, <2>1, <3>1, <3>2 DEF RowInv, NoneHeld
  <2>2. QED  BY <2>1 DEF NoneHeld
<1>12. ServedIsHeld'  BY <1>2, <1>4, CertFacts DEF RowInv, ServedIsHeld
<1>13. QED  BY <1>8, <1>9, <1>10, <1>11, <1>12 DEF RowInv

(* What a copy that is through with one, or dies, has is less than it had. *)
LEMMA LetsGo ==
  ASSUME RowInv, NEW i \in Issuer,
         UNCHANGED <<wanted, survey, served>>, issued' \in Cert,
         row' \in [Host -> CertRow],
         issuer' \in [Issuer -> IssuerRow], issuer'[i].has \subseteq issuer[i].has,
         issuer'[i].at = "failing" /\ ~issuer'[i].held => \A h \in Working(i)' : row'[h].cert = 0,
         \A j \in Issuer \ {i} : issuer'[j] = issuer[j],
         \A h \in Host : \/ row'[h] = row[h]
                         \/ /\ h \in issuer[i].has /\ row[h].at # "none" /\ row'[h].at # "none"
                            /\ ~row'[h].due
                            /\ row'[h].cert # 0 => row'[h].at = "active"
                            /\ row[h].cert # 0 => row'[h].cert # 0
  PROVE  RowInv'
<1>1. row \in [Host -> CertRow] /\ issuer \in [Issuer -> IssuerRow]  BY DEF RowInv, RowTypes
<1>2. RowTypes' /\ LeasedToOne'  BY DEF RowInv, RowTypes, LeasedToOne
<1>3. \A h \in Host : Leased(h)' => Leased(h)  BY DEF Leased
<1>4. HeldStaysActive'  BY DEF RowInv, HeldStaysActive, Material
<1>5. DueIsFree' /\ MissingIsFree'  BY <1>3 DEF RowInv, DueIsFree, MissingIsFree
<1>6. NoneHeld'
  <2>1. ASSUME NEW j \in Issuer, j # i, issuer'[j].at = "failing", ~issuer'[j].held, NEW h \in Working(j)'
        PROVE  row'[h].cert = 0
    <3>1. issuer'[j] = issuer[j] /\ Working(j)' = Working(j)  BY <2>1 DEF Working
    <3>2. issuer[j].has # {}  BY <2>1, <3>1 DEF Working
    <3>3. h \in issuer[j].has  BY <2>1, <3>1, <3>2 DEF Working
    <3>4. h \in Host /\ h \notin issuer[i].has
      BY <1>1, <2>1, <3>3 DEF RowInv, LeasedToOne, IssuerRow
    <3>5. QED  BY <2>1, <3>1, <3>4 DEF RowInv, NoneHeld
  <2>2. QED  BY <2>1 DEF NoneHeld
<1>7. ServedIsHeld'  BY CertFacts DEF RowInv, ServedIsHeld
<1>8. QED  BY <1>2, <1>4, <1>5, <1>6, <1>7 DEF RowInv

LEMMA WorkingOne ==
  ASSUME RowInv, NEW i \in Issuer, NEW h \in Working(i)
  PROVE  h \in issuer[i].has /\ h \in Host /\ Working(i) = {h}
<1>1. issuer[i].has # {}  BY DEF Working
<1>2. h \in issuer[i].has /\ Working(i) = {h}  BY <1>1 DEF Working
<1>3. QED  BY <1>2 DEF RowInv, RowTypes, IssuerRow

LEMMA DoneWith ==
  ASSUME RowInv, NEW i \in Issuer, NEW h \in Host, Done(i, h)
  PROVE  /\ issuer' \in [Issuer -> IssuerRow] /\ issuer'[i].has \subseteq issuer[i].has
         /\ issuer'[i].at # "failing"
         /\ \A j \in Issuer \ {i} : issuer'[j] = issuer[j]
<1> DEFINE r == IF issuer[i].has = {h} THEN AtRest
                ELSE [at |-> "issuing", has |-> issuer[i].has \ {h}, held |-> issuer[i].held]
<1>1. issuer \in [Issuer -> IssuerRow] /\ issuer[i] \in IssuerRow  BY DEF RowInv, RowTypes
<1>2. r \in IssuerRow /\ r.has \subseteq issuer[i].has /\ r.at # "failing"
  BY <1>1 DEF IssuerRow, AtRest
<1>3. issuer' = [issuer EXCEPT ![i] = r]  BY DEF Done
<1> HIDE DEF r
<1>4. QED  BY <1>1, <1>2, <1>3

LEMMA WorkerKeeps ==
  ASSUME RowInv, NEW i \in Issuer,
         Issue(i) \/ NotWanted(i) \/ Refused(i) \/ RecordFailure(i) \/ Abandon(i)
  PROVE  RowInv'
<1>1. /\ row \in [Host -> CertRow] /\ issuer \in [Issuer -> IssuerRow] /\ issued \in Cert
      /\ issuer[i] \in IssuerRow
  BY DEF RowInv, RowTypes
<1>2. CASE Issue(i)
  <2>1. PICK h \in Working(i) :
          /\ row[h].at # "none" /\ issued < MaxCert /\ issued' = issued + 1
          /\ row' = [row EXCEPT ![h] = [at |-> "active", cert |-> issued', due |-> FALSE]]
          /\ Done(i, h) /\ UNCHANGED <<wanted, survey, served>>
    BY <1>2 DEF Issue
  <2>2. h \in issuer[i].has /\ h \in Host  BY WorkingOne
  <2>3. issued' \in Cert /\ issued' # 0  BY <1>1, <2>1, CertFacts
  <2>4. /\ row' \in [Host -> CertRow] /\ row'[h].at = "active" /\ ~row'[h].due /\ row'[h].cert # 0
        /\ \A g \in Host \ {h} : row'[g] = row[g]
    BY <1>1, <2>1, <2>2, <2>3 DEF CertRow
  <2>5. /\ issuer' \in [Issuer -> IssuerRow] /\ issuer'[i].has \subseteq issuer[i].has
        /\ issuer'[i].at # "failing" /\ \A j \in Issuer \ {i} : issuer'[j] = issuer[j]
    BY <2>1, <2>2, DoneWith
  <2>6. \A g \in Host : row'[g] = row[g] \/ g = h  BY <2>4
  <2>7. row[h].at # "none" /\ row'[h].at # "none"  BY <2>1, <2>4
  <2>8. UNCHANGED <<wanted, survey, served>>  BY <2>1
  <2>9. QED  BY <2>2, <2>3, <2>4, <2>5, <2>6, <2>7, <2>8, LetsGo
<1>3. CASE NotWanted(i)
  <2>1. PICK h \in Working(i) : Done(i, h) /\ UNCHANGED <<wanted, survey, row, issued, served>>
    BY <1>3 DEF NotWanted
  <2>2. h \in Host  BY WorkingOne
  <2>3. QED  BY <1>1, <2>1, <2>2, DoneWith, LetsGo
<1>4. CASE Refused(i)
  <2>1. PICK h \in Working(i) : Fails(i, h) /\ UNCHANGED <<wanted, survey, row, issued, served>>
    BY <1>4 DEF Refused
  <2>2. h \in Host /\ Working(i) = {h}  BY WorkingOne
  <2>3. /\ issuer' \in [Issuer -> IssuerRow] /\ issuer'[i].has = issuer[i].has
        /\ issuer'[i].held = (row[h].cert # 0)
        /\ \A j \in Issuer \ {i} : issuer'[j] = issuer[j]
    BY <1>1, <2>1 DEF Fails, IssuerRow
  <2>4. Working(i)' = {h}  BY <2>2, <2>3 DEF Working
  <2>5. ~issuer'[i].held => \A g \in Working(i)' : row'[g].cert = 0  BY <2>1, <2>3, <2>4
  <2>6. QED  BY <1>1, <2>1, <2>3, <2>5, LetsGo
<1>5. CASE RecordFailure(i)
  <2>1. PICK h \in Working(i) :
          /\ issuer[i].at = "failing"
          /\ row' = IF row[h].at = "none" THEN row
                    ELSE [row EXCEPT ![h] = [at |-> IF issuer[i].held THEN "active" ELSE "failed",
                                             cert |-> @.cert, due |-> FALSE]]
          /\ Done(i, h) /\ UNCHANGED <<wanted, survey, issued, served>>
    BY <1>5 DEF RecordFailure
  <2>2. h \in issuer[i].has /\ h \in Host  BY WorkingOne
  <2>3. ~issuer[i].held => row[h].cert = 0  BY <2>1 DEF RowInv, NoneHeld
  <2>4. /\ row' \in [Host -> CertRow]
        /\ \A g \in Host \ {h} : row'[g] = row[g]
        /\ \/ row'[h] = row[h]
           \/ /\ row[h].at # "none" /\ row'[h].cert = row[h].cert /\ ~row'[h].due
              /\ row'[h].at = IF issuer[i].held THEN "active" ELSE "failed"
    BY <1>1, <2>1, <2>2 DEF CertRow
  <2>5. /\ issuer' \in [Issuer -> IssuerRow] /\ issuer'[i].has \subseteq issuer[i].has
        /\ issuer'[i].at # "failing" /\ \A j \in Issuer \ {i} : issuer'[j] = issuer[j]
    BY <2>1, <2>2, DoneWith
  <2>6. \A g \in Host : row'[g] = row[g] \/ g = h  BY <2>4
  <2>7. \/ row'[h] = row[h]
        \/ /\ row[h].at # "none" /\ row'[h].at # "none" /\ ~row'[h].due
           /\ row'[h].cert # 0 => row'[h].at = "active"
           /\ row[h].cert # 0 => row'[h].cert # 0
    BY <2>3, <2>4
  <2>8. UNCHANGED <<wanted, survey, served>> /\ issued' \in Cert  BY <1>1, <2>1
  <2>9. QED  BY <2>2, <2>4, <2>5, <2>6, <2>7, <2>8, LetsGo
<1>6. CASE Abandon(i)
  <2>1. issuer' = [issuer EXCEPT ![i] = AtRest] /\ UNCHANGED <<wanted, survey, row, issued, served>>
    BY <1>6 DEF Abandon
  <2>2. AtRest \in IssuerRow /\ AtRest.has = {} /\ AtRest.at = "idle"  BY DEF AtRest, IssuerRow
  <2>3. /\ issuer' \in [Issuer -> IssuerRow] /\ issuer'[i] = AtRest
        /\ \A j \in Issuer \ {i} : issuer'[j] = issuer[j]
    BY <1>1, <2>1, <2>2
  <2>4. QED  BY <1>1, <2>1, <2>2, <2>3, LetsGo
<1>7. QED  BY <1>2, <1>3, <1>4, <1>5, <1>6

(* The gateway.                                                            *)
LEMMA LookUpKeeps ==
  ASSUME CertInv, NEW h \in ConsoleHost, LookUp(h)
  PROVE  /\ CertInv'
         /\ \A g \in ConsoleHost : served[g] # 0 /\ g \in wanted => served'[g] # 0
<1>1. RowTypes /\ served \in [ConsoleHost -> Cert]  BY CertTypes DEF CertInv, CertificatesKept
<1>2. Material(h) \in Cert  BY <1>1, MaterialType, CertFacts
<1>3. /\ UNCHANGED <<rowVars, sipVars, faults>>
      /\ served' \in [ConsoleHost -> Cert] /\ served'[h] = Material(h)
      /\ \A g \in ConsoleHost \ {h} : served'[g] = served[g]
  BY <1>1, <1>2 DEF LookUp
<1>4. ServedIsHeld'
  BY <1>3 DEF CertInv, ServedIsHeld, Material, rowVars
<1>5. CertTypeOK'
  BY <1>3 DEF CertInv, CertificatesKept, CertTypeOK, rowVars, sipVars
<1>6. CertInv'
  BY <1>3, <1>4, <1>5
     DEF CertInv, CertificatesKept, LeasedToOne, HeldStaysActive, Material, DueIsFree, MissingIsFree,
         Leased, NoneHeld, Working, rowVars
<1>7. h \in wanted /\ served[h] # 0 => Material(h) # 0
  BY CertFacts DEF CertInv, CertificatesKept, ServedIsHeld, HeldStaysActive
<1>8. QED  BY <1>3, <1>6, <1>7

LEMMA CertSteps ==
  ASSUME CertInv, InLease, [CertNext]_certVars
  PROVE  /\ CertInv'
         /\ \A g \in ConsoleHost : served[g] # 0 /\ g \in wanted => served'[g] # 0
<1>1. RowTypes /\ SipTypes /\ served \in [ConsoleHost -> Cert] /\ faults \in 0..MaxFaults /\ RowInv
  BY CertTypes DEF CertInv, CertificatesKept, RowInv
<1>2. ASSUME RowInv', SipTypes', faults' \in 0..MaxFaults, UNCHANGED served
      PROVE  /\ CertInv'
             /\ \A g \in ConsoleHost : served[g] # 0 /\ g \in wanted => served'[g] # 0
  <2>1. CertTypeOK'  BY <1>1, <1>2, CertTypes DEF CertTypeOK, RowInv, RowTypes, SipTypes, CertRow, IssuerRow
  <2>2. QED  BY <1>2, <2>1 DEF CertInv, CertificatesKept, RowInv
<1>3. CASE UNCHANGED certVars
  <2>1. RowInv' /\ SipTypes' /\ faults' = faults /\ served' = served
    BY <1>1, <1>3 DEF certVars, rowVars, sipVars, SipTypes, RowInv, RowTypes, LeasedToOne, HeldStaysActive,
         Material, DueIsFree, MissingIsFree, Leased, NoneHeld, Working, ServedIsHeld
  <2>2. QED  BY <1>1, <1>2, <2>1
<1>4. CASE SipStep
  <2>1. SipTypes' /\ faults' \in 0..MaxFaults /\ UNCHANGED <<rowVars, served>>
    BY <1>1, <1>4, SipStepTypes
  <2>2. RowInv'
    BY <1>1, <2>1 DEF rowVars, RowInv, RowTypes, LeasedToOne, HeldStaysActive,
         Material, DueIsFree, MissingIsFree, Leased, NoneHeld, Working, ServedIsHeld
  <2>3. QED  BY <1>2, <2>1, <2>2
<1>5. ASSUME RowInv', UNCHANGED <<sipVars, served>>, faults' = faults \/ Fault
      PROVE  /\ CertInv'
             /\ \A g \in ConsoleHost : served[g] # 0 /\ g \in wanted => served'[g] # 0
  <2>1. faults' \in 0..MaxFaults  BY <1>1, <1>5, FaultType
  <2>2. SipTypes'  BY <1>1, <1>5 DEF SipTypes, sipVars
  <2>3. QED  BY <1>2, <1>5, <2>1, <2>2
<1>6. ASSUME NEW i \in Issuer, Issue(i)
      PROVE  /\ CertInv'
             /\ \A g \in ConsoleHost : served[g] # 0 /\ g \in wanted => served'[g] # 0
  <2>1. RowInv'  BY <1>1, <1>6, WorkerKeeps
  <2>2. /\ news' \subseteq SipHost
        /\ UNCHANGED <<syncOne, syncAll, table, loaded, torn, served, faults>>
    BY <1>1, <1>6 DEF Issue, SipTypes
  <2>3. SipTypes'  BY <1>1, <2>2 DEF SipTypes
  <2>4. QED  BY <1>1, <1>2, <2>1, <2>2, <2>3
<1>7. ASSUME NEW i \in Issuer, Claim(i) \/ NotWanted(i) \/ RecordFailure(i) \/ Refused(i) \/ Abandon(i)
      PROVE  /\ CertInv'
             /\ \A g \in ConsoleHost : served[g] # 0 /\ g \in wanted => served'[g] # 0
  <2>1. RowInv'  BY <1>1, <1>7, ClaimKeeps, WorkerKeeps
  <2>2. UNCHANGED <<sipVars, served>> /\ (faults' = faults \/ Fault)
    BY <1>7 DEF Claim, NotWanted, RecordFailure, Refused, Abandon
  <2>3. QED  BY <1>5, <2>1, <2>2
<1>8. ASSUME Survey \/ \E h \in Host : Add(h) \/ ResellerDeleted(h) \/ ComesDue(h)
      PROVE  /\ CertInv'
             /\ \A g \in ConsoleHost : served[g] # 0 /\ g \in wanted => served'[g] # 0
  <2>1. RowInv'  BY <1>1, <1>8, SurveyKeeps, AddKeeps, ResellerDeletedKeeps, ComesDueKeeps
  <2>2. UNCHANGED <<sipVars, served, faults>>  BY <1>8 DEF Survey, Add, ResellerDeleted, ComesDue
  <2>3. QED  BY <1>5, <2>1, <2>2
<1>9. QED
  BY <1>3, <1>4, <1>6, <1>7, <1>8, LookUpKeeps DEF CertNext, IssuerStep, SipStep

(* One worker at a time asks for a certificate, and none that is held is   *)
(* lost by asking for the next (claimDue, recordFailure): whatever is      *)
(* refused, whichever copies die, and whenever a reseller is deleted.      *)
THEOREM CertificatesKeptHolds == InLease /\ CertSpec => []CertificatesKept
<1> SUFFICES ASSUME InLease PROVE CertSpec => []CertificatesKept  OBVIOUS
<1>1. CertInv /\ [CertNext]_certVars => CertInv'  BY CertSteps
<1>2. CertInv => CertificatesKept  BY DEF CertInv
<1>3. QED  BY CertStarts, <1>1, <1>2, PTL DEF CertSpec

(* A console that was answered with a certificate is never answered without*)
(* one until its reseller is deleted (certificate-source.ts).              *)
THEOREM ConsoleStaysServedHolds == InLease /\ CertSpec => ConsoleStaysServed
<1> SUFFICES ASSUME InLease PROVE CertSpec => ConsoleStaysServed  OBVIOUS
<1>1. CertInv /\ [CertNext]_certVars => CertInv'  BY CertSteps
<1>2. CertInv /\ [CertNext]_certVars =>
        [\A h \in ConsoleHost : served[h] # 0 /\ h \in wanted => served'[h] # 0]_certVars
  BY CertSteps
<1>3. QED  BY CertStarts, <1>1, <1>2, PTL DEF CertSpec, ConsoleStaysServed
=============================================================================
