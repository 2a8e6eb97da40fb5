----------------------------- MODULE CallRegistry -----------------------------
(***************************************************************************)
(* One media node's part of the call registry in Redis                     *)
(* (services/call-control/src/redis/registry.ts): the hash call:{uuid} of  *)
(* each call and the node's index node:{id}:calls.                         *)
(*                                                                         *)
(* A hash is the set of what it records beyond the call's creation:        *)
(* "tenant" (its tenant is known), "answered" (its state) and "bridged"    *)
(* (bridgedTo).  The other fields (hold, recording, queue, parking slot)   *)
(* are set as the answer is.  Every operation is one command, script or    *)
(* MULTI, so it is atomic; none is taken when Redis is out of reach.       *)
(***************************************************************************)
CONSTANT Call  \* call ids: a channel has one for its life

Field == {"tenant", "answered", "bridged"}

(* What HGETALL of a missing hash stands for. *)
Absent == {"absent"}

VARIABLES
  hash,   \* call:{uuid}
  index   \* node:{id}:calls

registry == <<hash, index>>

RegistryTypeOK ==
  /\ hash \in [Call -> (SUBSET Field) \cup {Absent}]
  /\ index \in SUBSET Call

RegistryInit == hash = [c \in Call |-> Absent] /\ index = {}

HasCall(c) == hash[c] # Absent

TenantOf(c) == HasCall(c) /\ "tenant" \in hash[c]

Registered == {c \in Call : HasCall(c)}

(* HSET of the state, "ringing", and of the tenant, known or not: over a   *)
(* hash that is there, bridgedTo stays.                                    *)
CreateCall(c, told) ==
  /\ hash' = [hash EXCEPT ![c] =
                (IF HasCall(c) THEN @ \cap {"bridged"} ELSE {})
                  \cup (IF told THEN {"tenant"} ELSE {})]
  /\ index' = index \cup {c}

(* UPDATE_IF_EXISTS. *)
UpdateCall(c, fields) ==
  /\ hash' = [hash EXCEPT ![c] = IF HasCall(c) THEN @ \cup fields ELSE @]
  /\ UNCHANGED index

EndCall(c) ==
  /\ hash' = [hash EXCEPT ![c] = Absent]
  /\ index' = index \ {c}

(* ATTACH_TENANT: only a hash that is there and has no tenant yet.         *)
Attaches(c) == HasCall(c) /\ "tenant" \notin hash[c]

AttachTenant(c) == UpdateCall(c, {"tenant"})

ForgetNodeCalls == index' = {} /\ UNCHANGED hash

(* A hash outlives its safety TTL, which nothing renews.                   *)
ExpireCall(c) == hash' = [hash EXCEPT ![c] = Absent] /\ UNCHANGED index

(* Redis loses its data. *)
LoseRegistry == hash' = [c \in Call |-> Absent] /\ index' = {}
=============================================================================
