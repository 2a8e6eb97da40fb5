------------------------------ MODULE Projection ------------------------------
(***************************************************************************)
(* telephony-config keeps a read model of what the other services          *)
(* configure, and projects it into the tables OpenSIPs reads (services/    *)
(* telephony-config/src/projection.ts, consumers/*.ts, tenant-purge.ts,    *)
(* repo/read-model.repo.ts, repo/opensips-projection.repo.ts), while a     *)
(* periodic pass compares the two (reconcile.ts).  The two schemas share   *)
(* no transaction: a handler writes OpenSIPs' tables a step at a time and  *)
(* its read model when it commits, and the pass reads and writes between.  *)
(*                                                                         *)
(* What is configured is a set of rows, {} when there is nothing.  A row's *)
(* key starts with what it belongs to.  A route's rows name trunks, whose  *)
(* own rows say where the gateways are.                                    *)
(***************************************************************************)
EXTENDS Naturals, FiniteSets

CONSTANTS
  Thing,       \* what is configured
  Kind,        \* of each: extension, mirror, handling, trunk, route, emergency or tenant
  Shapes,      \* of each: what it can be configured as
  Belongs,     \* the things of a tenant
  Worker,      \* the consumers that run
  Feed,        \* of each: the things whose events it handles
  Attrs,       \* of a gateway's data: what a carrier is answered with (attrs)
  MaxChange,   \* bound: changes made
  MaxFailure   \* bound: deliveries and passes that fail

Tables == {"domain", "subscriber", "registrant", "address", "gateway", "rule", "mirror"}

(* Rows of one table differ in their keys, and a route has a rule.         *)
ASSUME ProjectionAssumption ==
  /\ Thing # {} /\ Belongs \in [Thing -> SUBSET Thing]
  /\ Kind \in [Thing -> {"extension", "mirror", "handling", "trunk", "route", "emergency", "tenant"}]
  /\ \A t \in Thing : \A x \in Belongs[t] : Kind[t] = "tenant" /\ Kind[x] # "tenant"
  /\ \A t \in Thing : \A shape \in Shapes[t] :
       /\ \A row \in shape :
            /\ row = [table |-> row.table, key |-> row.key, data |-> row.data]
            /\ row.table \in Tables /\ row.key[1] = t
       /\ \A r, s \in shape : r.table = s.table /\ r.key = s.key => r = s
       /\ Kind[t] = "route" => \E row \in shape : row.table = "rule"
  /\ Feed \in [Worker -> SUBSET Thing]
  /\ MaxChange \in Nat /\ MaxFailure \in Nat

VARIABLES
  source,    \* what the owning services have configured
  changes,   \* how many changes there have been
  deleted,   \* what was deleted: its id is not used again (call handling has its phone's)
  pending,   \* the events not yet acknowledged
  failures,  \* how often a delivery or a pass failed
  model,     \* the read model
  rows,      \* OpenSIPs' tables
  loaded,    \* what OpenSIPs has read of them
  job,       \* what each consumer is at
  pass,      \* the reconciliation pass
  sync,      \* the pass over the call handling, and what it was told
  torn       \* history: whether a pass failed before it had OpenSIPs reload, or
             \* removed a row a handler had written since the pass read

config   == <<source, changes, deleted>>
events   == <<pending, failures>>
opensips == <<rows, loaded>>
projectionVars == <<config, events, model, opensips, job, pass, sync, torn>>

NoJob  == [at |-> "idle", event |-> 0, thing |-> CHOOSE t \in Thing : TRUE, new |-> {}]
NoPass == [at |-> "none", model |-> [t \in Thing |-> {}], listed |-> {}, read |-> {}, todo |-> {},
           touched |-> {}]
NoSync == [on |-> FALSE, told |-> [t \in Thing |-> {}]]

OfKind(k) == {t \in Thing : Kind[t] = k}
Routing   == OfKind("route") \cup OfKind("emergency")

ProjectionTypeOK ==
  /\ \A t \in Thing : {source[t], model[t]} \ {{}} \subseteq Shapes[t]
  /\ deleted \subseteq Thing /\ changes \in 0..MaxChange /\ failures \in 0..MaxFailure
  /\ \A e \in pending : e.n \in 1..MaxChange /\ e.thing \in Thing /\ e.failed \in BOOLEAN
  /\ \A r \in rows \cup loaded : r.table \in Tables \ {"mirror"}
  /\ \A r, s \in rows : r.table = s.table /\ r.key = s.key => r = s
  /\ \A w \in Worker : job[w].at \in {"idle", "fetched", "cleared", "written"}
  /\ pass.at \in {"none", "reading", "repairing"} /\ sync.on \in BOOLEAN /\ torn \in BOOLEAN

ProjectionInit ==
  /\ source = [t \in Thing |-> {}] /\ changes = 0 /\ deleted = {}
  /\ pending = {} /\ failures = 0
  /\ model = [t \in Thing |-> {}]
  /\ rows = {} /\ loaded = {}
  /\ job = [w \in Worker |-> NoJob]
  /\ pass = NoPass /\ sync = NoSync /\ torn = FALSE

-----------------------------------------------------------------------------
(* The services that own the configuration, each of whose changes enqueues *)
(* an event; a tenant's event says what it now is, the others only that it *)
(* changed.                                                                *)

Event(t, value) == [n |-> changes + 1, thing |-> t, gone |-> value = {}, says |-> value, failed |-> FALSE]

Change(t) ==
  /\ changes < MaxChange
  /\ \E value \in Shapes[t] \cup {{}} :
       /\ value # source[t]
       /\ value # {} => t \notin deleted
       /\ source' = [x \in Thing |-> IF x = t THEN value
                                     ELSE IF value = {} /\ x \in Belongs[t] THEN {} ELSE source[x]]
       /\ pending' = pending \cup {Event(t, value)}
       /\ deleted' = deleted \cup IF value = {} /\ Kind[t] # "handling" THEN {t} \cup Belongs[t] ELSE {}
  /\ changes' = changes + 1
  /\ UNCHANGED <<failures, model, opensips, job, pass, sync, torn>>

-----------------------------------------------------------------------------
(* Rows. *)

Same(r, s) == r.table = s.table /\ r.key = s.key

Without(rs, gone) == {r \in rs : ~\E g \in gone : Same(r, g)}

Upsert(rs, new) == Without(rs, new) \cup new

(* dr_reload reads gateways and rules alike.                               *)
Reload(tables) ==
  LET read == tables \cup IF tables \cap {"gateway", "rule"} # {} THEN {"gateway", "rule"} ELSE {}
  IN  loaded' = {r \in loaded : r.table \notin read} \cup {r \in rows : r.table \in read}

(* outboundGwid, and a rule's description.                                 *)
Synthesized(t) == {r \in rows : r.table = "gateway" /\ r.key[1] = t}
RulesOf(t)     == {r \in rows : r.table = "rule" /\ r.key[1] = t}

(* Where a trunk this service has projected is reached; nothing otherwise. *)
Gateway(trunk) == {r \in model[trunk] : r.table = "gateway"}

Reachable(shape) == {r \in shape : r.table = "gateway" /\ Gateway(r.key[2]) # {}}

(* projectOutboundRoute: a trunk that is not projected is skipped; a rule  *)
(* lists the gateways there are.                                           *)
Routed(shape) ==
  LET gateways == {[r EXCEPT !.data = UNION {g.data : g \in Gateway(r.key[2])}] : r \in Reachable(shape)}
  IN  gateways \cup {[r EXCEPT !.data = {g.key[2] : g \in gateways}] : r \in {x \in shape : x.table = "rule"}}

(* projectEmergencyRoute: no rules without its trunk.                      *)
RoutedEmergency(shape) == IF Reachable(shape) = {} THEN {} ELSE Routed(shape)

-----------------------------------------------------------------------------
(* A consumer handles an event: what it removes of OpenSIPs' rows first, what *)
(* it writes, and what it has OpenSIPs reload.                             *)

(* The oldest not yet tried, or one given back.                            *)
Take(w, e) ==
  /\ job[w].at = "idle" /\ e \in pending /\ e.thing \in Feed[w]
  /\ \A v \in Worker : job[v].event # e.n
  /\ e.failed \/ \A f \in pending : f.thing \in Feed[w] /\ ~f.failed => e.n <= f.n

(* Defective: an event's own words are believed.                           *)
HandleAsTold(w, e) ==
  /\ Take(w, e)
  /\ job' = [job EXCEPT ![w] = [at |-> "fetched", event |-> e.n, thing |-> e.thing, new |-> e.says]]
  /\ UNCHANGED <<config, events, model, opensips, pass, sync, torn>>

(* Fetched anew, unless it is gone or a tenant's; a change of something    *)
(* that has gone since is passed over, but clears call handling.           *)
Handle(w, e) ==
  LET new == IF e.gone \/ Kind[e.thing] = "tenant" THEN e.says ELSE source[e.thing]
  IN  /\ Take(w, e)
      /\ IF new = {} /\ ~e.gone /\ Kind[e.thing] # "handling"
         THEN pending' = pending \ {e} /\ UNCHANGED job
         ELSE /\ job' = [job EXCEPT ![w] = [at |-> "fetched", event |-> e.n, thing |-> e.thing, new |-> new]]
              /\ UNCHANGED pending
      /\ UNCHANGED <<config, failures, model, opensips, pass, sync, torn>>

(* projectExtension, removeExtension: the subscriber under the former name *)
(* or realm.                                                               *)
ExtensionClears(t, new) == Without(model[t], new)

(* projectTrunk: a registration under another identity, and every address  *)
(* when the set changed.  removeTrunk: its gateway too.                    *)
TrunkClears(t, new) ==
  LET addresses(shape) == {r \in shape : r.table = "address"}
  IN  Without({r \in model[t] : r.table # "address"}, new)
        \cup (IF addresses(model[t]) # addresses(new)
              THEN {r \in rows : r.table = "address" /\ r.key[1] = t} ELSE {})

(* projectOutboundRoute, removeOutboundRoute.                              *)
RouteClears(t, new) == Synthesized(t) \cup IF new = {} THEN RulesOf(t) ELSE {}

(* projectEmergencyRoute, removeEmergencyRoute.                            *)
EmergencyClears(t) == Synthesized(t) \cup RulesOf(t)

(* purgeTenant: all that was projected of a tenant.                        *)
Purged(t) ==
  UNION {IF x \in Routing THEN Synthesized(x) \cup RulesOf(x) ELSE model[x] : x \in Belongs[t] \cup {t}}

(* The org consumer: a tenant suspended loses its domain, and all it has   *)
(* when it is deleted.                                                     *)
TenantClears(t, new) == IF new = {} THEN Purged(t) ELSE Without(model[t], new)

Clears(t, new) ==
  CASE Kind[t] = "extension" -> ExtensionClears(t, new)
    [] Kind[t] = "trunk"     -> TrunkClears(t, new)
    [] Kind[t] = "route"     -> RouteClears(t, new)
    [] Kind[t] = "emergency" -> EmergencyClears(t)
    [] Kind[t] = "tenant"    -> TenantClears(t, new)
    [] OTHER                 -> {}

(* Its rows for OpenSIPs.                                                  *)
Projects(t, new) ==
  CASE Kind[t] = "route"     -> Routed(new)
    [] Kind[t] = "emergency" -> RoutedEmergency(new)
    [] OTHER                 -> {r \in new : r.table # "mirror"}

(* mi.call: what changed of the cached tables.  (subscriber is not one.)   *)
Reloads(t, new) ==
  CASE Kind[t] = "trunk" ->
         {r.table : r \in (model[t] \cup new) \ (model[t] \cap new)}
           \cup {"registrant" : r \in {x \in new : x.table = "registrant"}}
    [] t \in Routing -> {"gateway", "rule"}
    [] Kind[t] = "tenant" ->
         {"domain"} \cup IF new # {} THEN {}
                         ELSE (UNION {{r.table : r \in model[x]} : x \in Belongs[t]}) \ {"subscriber", "mirror"}
    [] OTHER -> {}

Clear(w) ==
  /\ job[w].at = "fetched"
  /\ rows' = Without(rows, Clears(job[w].thing, job[w].new))
  /\ job' = [job EXCEPT ![w].at = "cleared"]
  /\ UNCHANGED <<config, events, model, loaded, pass, sync, torn>>

Write(w) ==
  /\ job[w].at = "cleared"
  /\ rows' = Upsert(rows, Projects(job[w].thing, job[w].new))
  /\ job' = [job EXCEPT ![w].at = "written"]
  /\ UNCHANGED <<config, events, model, loaded, pass, sync, torn>>

(* A purge takes the tenant's things along.                                *)
Saved(t, new) ==
  [x \in Thing |-> IF x = t THEN new
                   ELSE IF Kind[t] = "tenant" /\ new = {} /\ x \in Belongs[t] THEN {} ELSE model[x]]

Finish(w) ==
  LET t == job[w].thing
  IN  /\ job[w].at = "written"
      /\ Reload(Reloads(t, job[w].new))
      /\ model' = Saved(t, job[w].new)
      /\ pending' = {e \in pending : e.n # job[w].event}
      /\ job' = [job EXCEPT ![w] = NoJob]
      /\ UNCHANGED <<config, failures, rows, pass, sync, torn>>

(* An error or a crash: rolled back, and delivered again.                  *)
Fail(w) ==
  /\ job[w].at # "idle" /\ failures < MaxFailure
  /\ failures' = failures + 1
  /\ pending' = {[e EXCEPT !.failed = @ \/ e.n = job[w].event] : e \in pending}
  /\ job' = [job EXCEPT ![w] = NoJob]
  /\ UNCHANGED <<config, model, opensips, pass, sync, torn>>

-----------------------------------------------------------------------------
(* reconcileOnce. *)

(* The tables it compares.                                                 *)
Compared == {"domain", "subscriber", "registrant", "address", "gateway"}

BeginPass ==
  /\ pass.at = "none"
  /\ pass' = [NoPass EXCEPT !.at = "reading"]
  /\ UNCHANGED <<config, events, model, opensips, job, sync, torn>>

(* Promise.all: read in any order.                                         *)
Read(what) ==
  /\ pass.at = "reading" /\ what \notin pass.read
  /\ pass' = [pass EXCEPT !.read = @ \cup {what},
                          !.model = IF what = "model" THEN model ELSE @,
                          !.listed = IF what = "rows" THEN {r \in rows : r.table \in Compared} ELSE @]
  /\ UNCHANGED <<config, events, model, opensips, job, sync, torn>>

Desired(m) == {r \in UNION {m[t] : t \in Thing \ Routing} : r.table \in Compared}

(* What it found missing.                                                  *)
OnlyMissing == Without(Desired(pass.model), pass.listed)

(* And what it did not find desired.                                       *)
Drift == OnlyMissing \cup Without(pass.listed, Desired(pass.model))

Compare ==
  /\ pass.at = "reading" /\ pass.read = {"model", "rows"}
  /\ pass' = [pass EXCEPT !.at = "repairing", !.todo = Drift]
  /\ UNCHANGED <<config, events, model, opensips, job, sync, torn>>

(* A row the read model has by now, or is about to have.                   *)
Wanted(r) == \E s \in Desired(model) \cup UNION {job[w].new : w \in Worker} : Same(r, s)

(* A gateway is added without its attrs.                                   *)
Repaired(r) ==
  [table |-> r.table, key |-> r.key, data |-> IF r.table = "gateway" THEN r.data \ Attrs ELSE r.data]

Repair(r) ==
  /\ pass.at = "repairing" /\ r \in pass.todo
  /\ IF r \in Desired(pass.model)
     THEN rows' = Upsert(rows, {Repaired(r)}) /\ UNCHANGED torn
     ELSE rows' = Without(rows, {r}) /\ torn' = (torn \/ Wanted(r))
  /\ pass' = [pass EXCEPT !.todo = @ \ {r}, !.touched = @ \cup {r.table}]
  /\ UNCHANGED <<config, events, model, loaded, job, sync>>

(* Defective: nothing is reloaded.                                         *)
FinishQuietly ==
  /\ pass.at = "repairing" /\ pass.todo = {}
  /\ pass' = NoPass
  /\ UNCHANGED <<config, events, model, opensips, job, sync, torn>>

FinishPass ==
  /\ pass.at = "repairing" /\ pass.todo = {}
  /\ Reload(pass.touched \ {"subscriber"})
  /\ pass' = NoPass
  /\ UNCHANGED <<config, events, model, rows, job, sync, torn>>

(* A pass that throws is left for the next one.                            *)
FailPass ==
  /\ pass.at = "repairing" /\ failures < MaxFailure
  /\ failures' = failures + 1
  /\ torn' = (torn \/ pass.touched # {})
  /\ pass' = NoPass
  /\ UNCHANGED <<config, pending, model, opensips, job, sync>>

(* reconcileCallHandlingOnce, reconcileRecordingSettingsOnce: asked for,   *)
(* then written as it was told.                                            *)
AskHandling ==
  /\ ~sync.on /\ OfKind("handling") # {}
  /\ sync' = [on |-> TRUE, told |-> [t \in Thing |-> IF Kind[t] = "handling" THEN source[t] ELSE {}]]
  /\ UNCHANGED <<config, events, model, opensips, job, pass, torn>>

SyncHandling ==
  /\ sync.on
  /\ model' = [t \in Thing |-> IF Kind[t] = "handling" THEN sync.told[t] ELSE model[t]]
  /\ sync' = NoSync
  /\ UNCHANGED <<config, events, opensips, job, pass, torn>>

-----------------------------------------------------------------------------
Working(w) ==
  \/ \E e \in pending : Handle(w, e)
  \/ Clear(w) \/ Write(w) \/ Finish(w)

Reconciling ==
  \/ BeginPass \/ Compare \/ FinishPass
  \/ \E what \in {"model", "rows"} : Read(what)
  \/ \E r \in pass.todo : Repair(r)

Projecting ==
  \/ \E w \in Worker : Working(w) \/ Fail(w)
  \/ Reconciling \/ FailPass
  \/ AskHandling \/ SyncHandling

ProjectionNext == (\E t \in Thing : Change(t)) \/ Projecting

(* The consumers go on and the timers fire.                                *)
ProjectionFairness ==
  /\ \A w \in Worker : WF_projectionVars(Working(w))
  /\ WF_projectionVars(Reconciling) /\ WF_projectionVars(AskHandling \/ SyncHandling)

ProjectionSpec == ProjectionInit /\ [][ProjectionNext]_projectionVars /\ ProjectionFairness

-----------------------------------------------------------------------------
(* Properties. *)

Keys(rs) == {<<r.table, r.key>> : r \in rs}

Quiet == pending = {}

(* A tenant whose events were handled out of turn, or what a deleted       *)
(* tenant's other consumers were still at, may be left wrong.              *)
Exempt(t) ==
  \/ Kind[t] = "handling"
  \/ Kind[t] = "tenant" /\ failures > 0
  \/ \E o \in OfKind("tenant") : t \in Belongs[o] /\ o \in deleted

(* "If the process dies between them, the event is redelivered and both    *)
(* steps simply run again; a retry is safe" (projection.ts:69): whatever   *)
(* was delivered again, and in whatever order, once every event is         *)
(* acknowledged the read model is what the services have configured.       *)
ModelAgrees == Quiet => \A t \in Thing : Exempt(t) \/ model[t] = source[t]

(* Once every event is acknowledged a route has its rule, and one that is  *)
(* gone has none (removeOutboundRoute): no pass repairs either.            *)
RulesStand ==
  Quiet => \A t \in OfKind("route") : Exempt(t) \/ ((RulesOf(t) # {}) <=> (source[t] # {}))

(* "It repairs the failure this service's own two-step, cross-schema       *)
(* writes can leave behind" (reconcile.ts:37): in the end OpenSIPs' tables *)
(* have a row for just what the read model has, whatever failed and        *)
(* whatever a pass and a handler wrote over each other.                    *)
TablesCatchUp ==
  <>[](Keys({r \in rows : r.table \in Compared /\ r.key[1] \notin Routing}) = Keys(Desired(model)))

Cached(rs) == {r \in rs : r.table \in Compared \ {"subscriber"}}

(* And OpenSIPs has read them, unless a pass failed before it said so, as  *)
(* the next one finds nothing to repair and has nothing reloaded; or it    *)
(* removed, and had reloaded, what a handler had just written, and the     *)
(* next handler writes it again as nothing new.                            *)
LoadedCatchesUp == <>[](torn \/ Keys(Cached(loaded)) = Keys(Cached(rows)))

(* Without those exceptions it does not hold: "if (gatewayChanged) await   *)
(* mi.call('dr_reload')" (projection.ts:501).                              *)
RowsAreLoaded == <>[](Keys(Cached(loaded)) = Keys(Cached(rows)))

(* "So a missed pbx.call_handling.updated heals on the next pass"          *)
(* (reconcile.ts:58), and so does a pass that wrote what was out of date.  *)
HandlingCatchesUp == <>[](\A t \in OfKind("handling") : model[t] = source[t])

(* The pass "never touches the per-route synthesized gateways" (decisions  *)
(* G-32): once every event is acknowledged, a rule's gateways are there.   *)
RoutesKeepGateways ==
  Quiet => \A t \in Routing : \A r \in RulesOf(t) : r.data \subseteq {g.key[2] : g \in Synthesized(t)}

(* "attrs carries username:password:realm for a trunk with a register      *)
(* credential" (opensips-projection.repo.ts:435): that does not hold of a  *)
(* gateway that a pass has added.                                          *)
GatewaysKeepAttrs ==
  Quiet => \A r \in rows, t \in OfKind("trunk") :
             \A g \in Gateway(t) : Same(r, g) => g.data \cap Attrs \subseteq r.data

(* It does not (the README says which run shows it) hold that a phone's    *)
(* secret is the one configured in the end: a pass may write the one it    *)
(* read over the one handled since, and then finds the name there.         *)
SecretsCatchUp ==
  <>[](\A t \in OfKind("extension") : {r \in rows : r.key[1] = t} = model[t])

(* Nor that a route's gateways are where its trunk is: a trunk that moves  *)
(* moves its own gateway only.                                             *)
RoutesFollowTrunks ==
  Quiet => \A t \in Routing : \A g \in Synthesized(t) : \A h \in Gateway(g.key[2]) : g.data = h.data

(* Once every event is acknowledged, the read model and the rules are      *)
(* those of what is configured.                                            *)
ModelStands == ProjectionTypeOK /\ ModelAgrees /\ RulesStand

(* Whatever was missed, overwritten or lost by a failure, the passes make  *)
(* up for it, in the read model, in the tables and in what is loaded of    *)
(* them.                                                                   *)
DriftIsRepaired == TablesCatchUp /\ LoadedCatchesUp /\ HandlingCatchesUp
=============================================================================
