----------------------------- MODULE OrgLifecycle -----------------------------
(***************************************************************************)
(* The life of resellers and of their tenants (services/org-service/src/   *)
(* repo/org.repo.ts, domain/org.ts, deletion-job.ts): created, suspended   *)
(* and resumed, their deletion asked for and called off, and deleted once  *)
(* their grace is over.  Creating, suspending and resuming read a row and  *)
(* write by its id; a deletion locks it; the job's copies claim it by its  *)
(* status.                                                                 *)
(***************************************************************************)
EXTENDS Naturals, FiniteSets

CONSTANTS
  Reseller, Tenant,
  ParentOf,   \* the reseller of a tenant
  Admin,      \* requests that may be under way at a time
  Deleter,    \* org-service's copies
  MaxFailures, \* bound: passes that fail or die midway
  Hurried     \* whether a deletion that was called off may be asked for again
              \* while a pass that has found it due is under way

Org == Reseller \cup Tenant

ASSUME OrgAssumption ==
  /\ Reseller \cap Tenant = {} /\ ParentOf \in [Tenant -> Reseller]
  /\ MaxFailures \in Nat /\ Hurried \in BOOLEAN

VARIABLES
  org,      \* orgs: status, status_before_deletion, whether delete_after has come
  admin,    \* where each request is
  deleter,  \* the orgs a copy's pass found due, and the one it has looked at
  said,     \* history: the org.{type}.deleted events of an org
  wish,     \* history: what it was last suspended or resumed to
  failures

orgVars == <<org, admin, deleter, said, wish, failures>>

NoOrg == [at |-> "none", before |-> "none", due |-> FALSE]

OrgTypeOK ==
  /\ org \in [Org -> [at : {"none", "active", "suspended", "pending", "deleted"},
                      before : {"none", "active", "suspended"}, due : BOOLEAN]]
  /\ admin \in [Admin -> [at : {"none", "active", "suspended"}, on : SUBSET Org]]
  /\ deleter \in [Deleter -> [found : SUBSET Org, clear : SUBSET Org]]
  /\ said \in [Org -> Nat] /\ wish \in [Org -> {"active", "suspended"}]
  /\ failures \in 0..MaxFailures

(* A request is at the status it is about to write.                        *)
NoAdmin == [at |-> "none", on |-> {}]
NoneDue == [found |-> {}, clear |-> {}]

OrgInit ==
  /\ org = [o \in Org |-> IF o \in Reseller THEN [NoOrg EXCEPT !.at = "active"] ELSE NoOrg]
  /\ admin = [q \in Admin |-> NoAdmin]
  /\ deleter = [d \in Deleter |-> NoneDue]
  /\ said = [o \in Org |-> 0] /\ wish = [o \in Org |-> "active"]
  /\ failures = 0

(* Its tenants, but for those that are deleted.                            *)
TenantsOf(o) == {t \in Tenant : ParentOf[t] = o /\ org[t].at \notin {"none", "deleted"}}

Failure == failures < MaxFailures /\ failures' = failures + 1

-----------------------------------------------------------------------------
(* Administrators. *)

Reads(q, o, status) ==
  /\ admin[q].at = "none"
  /\ admin' = [admin EXCEPT ![q] = [at |-> status, on |-> {o}]]
  /\ UNCHANGED <<org, deleter, said, wish, failures>>

(* create, suspend, resume: what each requires, as it is read.             *)
ReadCreate(q, t) ==
  org[t].at = "none" /\ org[ParentOf[t]].at \notin {"pending", "deleted"} /\ Reads(q, t, "active")

ReadSuspend(q, o) == org[o].at = "active" /\ Reads(q, o, "suspended")

ReadResume(q, o) == org[o].at = "suspended" /\ Reads(q, o, "active")

Write(q, o) ==
  /\ o \in admin[q].on
  /\ org' = [org EXCEPT ![o].at = admin[q].at]
  /\ wish' = [wish EXCEPT ![o] = admin[q].at]
  /\ admin' = [admin EXCEPT ![q] = NoAdmin]
  /\ UNCHANGED <<deleter, said, failures>>

RequestDeletion(o) ==
  /\ org[o].at \in {"active", "suspended"} /\ TenantsOf(o) = {}
  /\ Hurried \/ \A d \in Deleter : o \notin deleter[d].found
  /\ org' = [org EXCEPT ![o] = [at |-> "pending", before |-> org[o].at, due |-> FALSE]]
  /\ UNCHANGED <<admin, deleter, said, wish, failures>>

CancelDeletion(o) ==
  /\ org[o].at = "pending"
  /\ org' = [org EXCEPT ![o] = [NoOrg EXCEPT !.at = IF org[o].before = "suspended" THEN "suspended" ELSE "active"]]
  /\ UNCHANGED <<admin, deleter, said, wish, failures>>

(* delete_after comes, thirty days on: no request takes as long.           *)
GraceEnds(o) ==
  /\ org[o].at = "pending" /\ ~org[o].due /\ \A q \in Admin : admin[q] = NoAdmin
  /\ org' = [org EXCEPT ![o].due = TRUE]
  /\ UNCHANGED <<admin, deleter, said, wish, failures>>

-----------------------------------------------------------------------------
(* finishDueDeletions. *)

Pass(d) ==
  LET due == {o \in Org : org[o].at = "pending" /\ org[o].due}
  IN  /\ deleter[d] = NoneDue /\ due # {}
      /\ deleter' = [deleter EXCEPT ![d].found = due]
      /\ UNCHANGED <<org, admin, said, wish, failures>>

(* Defective: that there were none when it was asked for is enough.        *)
CheckNothing(d, o) ==
  /\ o \in deleter[d].found /\ deleter[d].clear = {}
  /\ deleter' = [deleter EXCEPT ![d].clear = {o}]
  /\ UNCHANGED <<org, admin, said, wish, failures>>

(* A reseller with tenants waits for the next pass.                        *)
Check(d, o) ==
  /\ o \in deleter[d].found /\ deleter[d].clear = {}
  /\ deleter' = [deleter EXCEPT ![d] =
       IF TenantsOf(o) # {} THEN [found |-> @.found \ {o}, clear |-> {}] ELSE [found |-> @.found, clear |-> {o}]]
  /\ UNCHANGED <<org, admin, said, wish, failures>>

Passes(d, o) == deleter' = [deleter EXCEPT ![d] = [found |-> @.found \ {o}, clear |-> {}]]

(* Defective: what was found is deleted, whatever has become of it.        *)
ClaimAnyway(d, o) ==
  /\ o \in deleter[d].clear
  /\ org' = [org EXCEPT ![o].at = "deleted"]
  /\ said' = [said EXCEPT ![o] = @ + 1]
  /\ Passes(d, o)
  /\ UNCHANGED <<admin, wish, failures>>

(* The conditional update, with its event.                                 *)
ClaimDeletion(d, o) ==
  /\ o \in deleter[d].clear
  /\ IF org[o].at = "pending"
     THEN org' = [org EXCEPT ![o].at = "deleted"] /\ said' = [said EXCEPT ![o] = @ + 1]
     ELSE UNCHANGED <<org, said>>
  /\ Passes(d, o)
  /\ UNCHANGED <<admin, wish, failures>>

PassFails(d) ==
  /\ deleter[d] # NoneDue /\ Failure
  /\ deleter' = [deleter EXCEPT ![d] = NoneDue]
  /\ UNCHANGED <<org, admin, said, wish>>

-----------------------------------------------------------------------------
DeleterStep(d) == Pass(d) \/ \E o \in Org : Check(d, o) \/ ClaimDeletion(d, o)

OrgNext ==
  \/ \E q \in Admin, o \in Org : ReadSuspend(q, o) \/ ReadResume(q, o) \/ Write(q, o)
  \/ \E q \in Admin, t \in Tenant : ReadCreate(q, t)
  \/ \E o \in Org : RequestDeletion(o) \/ CancelDeletion(o) \/ GraceEnds(o)
  \/ \E d \in Deleter : DeleterStep(d) \/ PassFails(d)

OrgFairness ==
  \A d \in Deleter : WF_orgVars(DeleterStep(d))

OrgSpec == OrgInit /\ [][OrgNext]_orgVars /\ OrgFairness

-----------------------------------------------------------------------------
(* Properties. *)

(* "A reseller is deleted only once it has no tenants left" (G-11 (4)),    *)
(* one included that was being created as its deletion was asked for.      *)
DeletedHasNoTenants ==
  \A o \in Reseller : org[o].at = "deleted" => TenantsOf(o) = {}

(* "Two copies running at once delete it once" (finishDueDeletions), and   *)
(* for good: it is announced once, and nothing written by its id later     *)
(* brings it back.                                                         *)
DeletedOnce == \A o \in Org : said[o] = IF org[o].at = "deleted" THEN 1 ELSE 0

(* "Putting back the status the org had" (cancelDeletion): a suspended org *)
(* whose deletion is asked for and called off, in whatever order with      *)
(* other requests, is active only if someone resumed it.                   *)
SuspensionStands ==
  \A o \in Org : org[o].at \in {"active", "suspended"} => org[o].at = wish[o]

(* Nothing is deleted before its grace is over, which begins anew when a   *)
(* deletion called off is asked for again.                                 *)
GraceHeld ==
  [][\A o \in Org : org'[o].at = "deleted" /\ org[o].at # "deleted" => org[o].due]_orgVars

(* What is due is deleted, a reseller once its last tenant is, though      *)
(* copies die or fail at another org of their pass.                        *)
DueIsDeleted ==
  \A o \in Org :
    org[o].at = "pending" /\ org[o].due ~> ~(org[o].at = "pending" /\ org[o].due) \/ TenantsOf(o) # {}

(* Not so: a tenant being created as its reseller's deletion is asked for  *)
(* comes after it ("nothing new under an org on its way out", create).     *)
NothingNewUnderIt == \A o \in Reseller : org[o].at = "pending" => TenantsOf(o) = {}

(* Not so: a suspension that read the org before writes over its deletion. *)
DeletionStands ==
  [][\A o \in Org : org[o].at = "pending" /\ org'[o].at \in {"active", "suspended"} =>
       org'[o].before = "none"]_orgVars

(* What was deleted is gone once and with nothing under it, and what was   *)
(* called off is as it was.                                                *)
DeletionsAreRight == OrgTypeOK /\ DeletedHasNoTenants /\ DeletedOnce /\ SuspensionStands

(* A deletion comes after its grace, and it comes.                         *)
DeletionKeepsItsTerms == GraceHeld /\ DueIsDeleted
=============================================================================
