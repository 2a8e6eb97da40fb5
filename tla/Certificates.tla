----------------------------- MODULE Certificates -----------------------------
(***************************************************************************)
(* The TLS certificates the platform keeps (services/org-service/src/      *)
(* repo/certificate.repo.ts, certificate-worker.ts): rows for the names    *)
(* that are wanted, workers that lease those that are due and ask the CA   *)
(* for them, and the two that serve them: OpenSIPs, by way of telephony-   *)
(* config's table (certificate-sync.ts), and the gateway, which asks for a *)
(* console's when it has not for a minute (certificate-source.ts).         *)
(***************************************************************************)
EXTENDS Naturals, FiniteSets

CONSTANTS
  SipHost, ConsoleHost,  \* the names there may be
  Issuer,      \* org-service's copies
  Batch,       \* batchSize: how many a copy leases at once
  MaxCert,     \* bound: certificates the CA issues
  MaxFaults,   \* bound: refusals, failures and copies that die
  InLease      \* whether a batch is through before its lease runs out

Host == SipHost \cup ConsoleHost

ASSUME CertAssumption == Batch \in Nat \ {0} /\ {MaxCert, MaxFaults} \subseteq Nat /\ InLease \in BOOLEAN

VARIABLES
  wanted,   \* reseller_base_domains and console_hostnames
  survey,   \* what a pass of reconcileWanted has still to add
  row,      \* tls_certificates
  issuer,   \* what each copy has leased, and what it is at
  issued,   \* certificates issued so far: a certificate is its number
  news,     \* org.certificate.issued events not yet handled
  syncOne,  \* the handler of such an event
  syncAll,  \* the pass on a timer
  table,    \* OpenSIPs' tls_mgm
  loaded,   \* what OpenSIPs serves
  torn,     \* history: a pass wrote the table and did not get to reload it
  served,   \* what the gateway serves
  faults

rowVars  == <<wanted, survey, row, issuer, issued>>
sipVars  == <<news, syncOne, syncAll, table, loaded, torn>>
certVars == <<rowVars, sipVars, served, faults>>

Cert == 0..MaxCert \* 0: none

NoRow    == [at |-> "none", cert |-> 0, due |-> FALSE]
AtRest   == [at |-> "idle", has |-> {}, held |-> FALSE]
NoSync   == [at |-> "idle", cert |-> 0]
NoPass   == [at |-> "idle", wants |-> [h \in SipHost |-> 0], stale |-> {}, gone |-> {},
             cert |-> 0, wrote |-> FALSE]

CertTypeOK ==
  /\ wanted \subseteq Host /\ survey \subseteq Host
  /\ row \in [Host -> [at : {"none", "pending", "active", "failed"}, cert : Cert, due : BOOLEAN]]
  /\ issuer \in [Issuer -> [at : {"idle", "issuing", "failing"}, has : SUBSET Host, held : BOOLEAN]]
  /\ issued \in Cert /\ news \subseteq SipHost
  /\ syncOne \in [SipHost -> [at : {"idle", "fetched", "written"}, cert : Cert]]
  /\ syncAll \in [at : {"idle", "listed", "compared", "fetched"}, wants : [SipHost -> Cert],
                  stale : SUBSET SipHost, gone : SUBSET SipHost, cert : Cert, wrote : BOOLEAN]
  /\ table \in [SipHost -> Cert] /\ loaded \in [SipHost -> Cert] /\ torn \in BOOLEAN
  /\ served \in [ConsoleHost -> Cert] /\ faults \in 0..MaxFaults

CertInit ==
  /\ wanted = Host /\ survey = {}
  /\ row = [h \in Host |-> NoRow]
  /\ issuer = [i \in Issuer |-> AtRest]
  /\ issued = 0 /\ news = {}
  /\ syncOne = [h \in SipHost |-> NoSync] /\ syncAll = NoPass
  /\ table = [h \in SipHost |-> 0] /\ loaded = [h \in SipHost |-> 0] /\ torn = FALSE
  /\ served = [h \in ConsoleHost |-> 0]
  /\ faults = 0

Fault == faults < MaxFaults /\ faults' = faults + 1

(* getMaterial, and what listActive lists.                                 *)
Material(h) == IF row[h].at = "active" THEN row[h].cert ELSE 0

-----------------------------------------------------------------------------
(* The names. *)

(* reconcileWanted reads what is wanted,                                   *)
Survey ==
  /\ survey = {} /\ (\E h \in wanted : row[h].at = "none")
  /\ survey' = {h \in wanted : row[h].at = "none"}
  /\ UNCHANGED <<wanted, row, issuer, issued, sipVars, served, faults>>

(* and adds the rows there are not, due at once.                           *)
Add(h) ==
  /\ h \in survey /\ survey' = survey \ {h}
  /\ row' = IF row[h].at = "none" THEN [row EXCEPT ![h] = [at |-> "pending", cert |-> 0, due |-> TRUE]] ELSE row
  /\ UNCHANGED <<wanted, issuer, issued, sipVars, served, faults>>

(* A reseller is deleted, its names and certificates with it.              *)
ResellerDeleted(h) ==
  /\ h \in wanted /\ wanted' = wanted \ {h}
  /\ row' = [row EXCEPT ![h] = NoRow]
  /\ UNCHANGED <<survey, issuer, issued, sipVars, served, faults>>

-----------------------------------------------------------------------------
(* The workers. *)

Leased(h) == \E i \in Issuer : h \in issuer[i].has

(* next_attempt_at comes: a lease has run out, a retry or a renewal is due.*)
ComesDue(h) ==
  /\ row[h].at # "none" /\ ~row[h].due /\ (InLease => ~Leased(h))
  /\ row[h].at = "active" => issued < MaxCert
  /\ row' = [row EXCEPT ![h].due = TRUE]
  /\ UNCHANGED <<wanted, survey, issuer, issued, sipVars, served, faults>>

Pushed(hosts) == [h \in Host |-> IF h \in hosts THEN [row[h] EXCEPT !.due = FALSE] ELSE row[h]]

Takes(i, hosts) == issuer' = [issuer EXCEPT ![i] = [at |-> "issuing", has |-> hosts, held |-> FALSE]]

Batches(hosts) == {b \in SUBSET hosts : b # {} /\ Cardinality(b) <= Batch}

(* Defective: what is due is taken, its clock stays.                       *)
ClaimUnleased(i) ==
  /\ issuer[i].at = "idle"
  /\ \E b \in Batches({h \in Host : row[h].due}) : Takes(i, b)
  /\ UNCHANGED <<wanted, survey, row, issued, sipVars, served, faults>>

(* claimDue, and the pass over what it answers.                            *)
Claim(i) ==
  /\ issuer[i].at = "idle"
  /\ \E b \in Batches({h \in Host : row[h].due}) : Takes(i, b) /\ row' = Pushed(b)
  /\ UNCHANGED <<wanted, survey, issued, sipVars, served, faults>>

Done(i, h) ==
  issuer' = [issuer EXCEPT ![i] =
    IF @.has = {h} THEN AtRest ELSE [at |-> "issuing", has |-> @.has \ {h}, held |-> @.held]]

Fails(i, h) ==
  issuer' = [issuer EXCEPT ![i] = [at |-> "failing", has |-> @.has, held |-> (row[h].cert # 0)]]

(* The certificate under way is any of the batch: they are taken in turn.  *)
Working(i) == IF issuer[i].has = {} THEN {} ELSE {CHOOSE h \in issuer[i].has : TRUE}

(* The CA issues; storeIssued, with its event.                             *)
Issue(i) ==
  \E h \in Working(i) :
    /\ issuer[i].at = "issuing" /\ row[h].at # "none" /\ issued < MaxCert
    /\ issued' = issued + 1
    /\ row' = [row EXCEPT ![h] = [at |-> "active", cert |-> issued', due |-> FALSE]]
    /\ news' = news \cup ({h} \cap SipHost)
    /\ Done(i, h)
    /\ UNCHANGED <<wanted, survey, syncOne, syncAll, table, loaded, torn, served, faults>>

(* No row is there to store it in: recordFailure finds none either.        *)
NotWanted(i) ==
  \E h \in Working(i) :
    /\ issuer[i].at = "issuing" /\ row[h].at = "none"
    /\ Done(i, h)
    /\ UNCHANGED <<wanted, survey, row, issued, sipVars, served, faults>>

(* The CA refuses; recordFailure reads whether a certificate is held.      *)
Refused(i) ==
  \E h \in Working(i) :
    /\ issuer[i].at = "issuing" /\ row[h].at # "none"
    /\ Fault /\ Fails(i, h)
    /\ UNCHANGED <<wanted, survey, row, issued, sipVars, served>>

(* It writes by what it has read.                                          *)
RecordFailure(i) ==
  \E h \in Working(i) :
    /\ issuer[i].at = "failing"
    /\ row' = IF row[h].at = "none" THEN row
              ELSE [row EXCEPT ![h] = [at |-> IF issuer[i].held THEN "active" ELSE "failed",
                                       cert |-> @.cert, due |-> FALSE]]
    /\ Done(i, h)
    /\ UNCHANGED <<wanted, survey, issued, sipVars, served, faults>>

(* A copy dies, or its pass throws: what it has leased waits.              *)
Abandon(i) ==
  /\ issuer[i].at # "idle" /\ Fault
  /\ issuer' = [issuer EXCEPT ![i] = AtRest]
  /\ UNCHANGED <<wanted, survey, row, issued, sipVars, served>>

-----------------------------------------------------------------------------
(* OpenSIPs. *)

(* syncOne: the certificate there is now, none after all, ...              *)
FetchOne(h) ==
  /\ syncOne[h].at = "idle" /\ h \in news
  /\ IF Material(h) = 0 THEN news' = news \ {h} /\ UNCHANGED syncOne
     ELSE syncOne' = [syncOne EXCEPT ![h] = [at |-> "fetched", cert |-> Material(h)]] /\ UNCHANGED news
  /\ UNCHANGED <<rowVars, syncAll, table, loaded, torn, served, faults>>

(* ... its row in the table, ...                                           *)
WriteOne(h) ==
  /\ syncOne[h].at = "fetched"
  /\ table' = [table EXCEPT ![h] = syncOne[h].cert]
  /\ syncOne' = [syncOne EXCEPT ![h].at = "written"]
  /\ UNCHANGED <<rowVars, news, syncAll, loaded, torn, served, faults>>

Reload == loaded' = table /\ torn' = FALSE

(* ... and tls_reload.  An event that came meanwhile is another.           *)
ReloadOne(h) ==
  /\ syncOne[h].at = "written" /\ Reload
  /\ syncOne' = [syncOne EXCEPT ![h] = NoSync]
  /\ news' = IF row[h].cert = syncOne[h].cert THEN news \ {h} ELSE news
  /\ UNCHANGED <<rowVars, syncAll, table, served, faults>>

(* The handler fails: the event comes again.                               *)
FailOne(h) ==
  /\ syncOne[h].at # "idle" /\ Fault
  /\ syncOne' = [syncOne EXCEPT ![h] = NoSync]
  /\ UNCHANGED <<rowVars, news, syncAll, table, loaded, torn, served>>

(* syncAll lists what there is, ...                                        *)
List ==
  /\ syncAll.at = "idle"
  /\ syncAll' = [NoPass EXCEPT !.at = "listed", !.wants = [h \in SipHost |-> Material(h)]]
  /\ UNCHANGED <<rowVars, news, syncOne, table, loaded, torn, served, faults>>

Compared(stale) ==
  /\ syncAll.at = "listed"
  /\ syncAll' = [syncAll EXCEPT !.at = "compared", !.stale = stale,
                   !.gone = {h \in SipHost : table[h] # 0 /\ syncAll.wants[h] = 0}]
  /\ UNCHANGED <<rowVars, news, syncOne, table, loaded, torn, served, faults>>

(* Defective: rows are compared by their names alone.                      *)
CompareNames == Compared({h \in SipHost : syncAll.wants[h] # 0 /\ table[h] = 0})

(* ... compares it with the table, ...                                     *)
Compare == Compared({h \in SipHost : syncAll.wants[h] # 0 /\ table[h] # syncAll.wants[h]})

(* ... fetches what differs, unless it is gone by now, ...                 *)
FetchAll(h) ==
  /\ syncAll.at = "compared" /\ h \in syncAll.stale
  /\ syncAll' = IF Material(h) = 0 THEN [syncAll EXCEPT !.stale = @ \ {h}]
                ELSE [syncAll EXCEPT !.at = "fetched", !.cert = Material(h)]
  /\ UNCHANGED <<rowVars, news, syncOne, table, loaded, torn, served, faults>>

WriteAll(h) ==
  /\ syncAll.at = "fetched" /\ h \in syncAll.stale
  /\ table' = [table EXCEPT ![h] = syncAll.cert]
  /\ syncAll' = [syncAll EXCEPT !.at = "compared", !.stale = @ \ {h}, !.cert = 0, !.wrote = TRUE]
  /\ UNCHANGED <<rowVars, news, syncOne, loaded, torn, served, faults>>

(* ... removes what is no longer there, ...                                *)
Remove(h) ==
  /\ syncAll.at = "compared" /\ syncAll.stale = {} /\ h \in syncAll.gone
  /\ table' = [table EXCEPT ![h] = 0]
  /\ syncAll' = [syncAll EXCEPT !.gone = @ \ {h}, !.wrote = TRUE]
  /\ UNCHANGED <<rowVars, news, syncOne, loaded, torn, served, faults>>

(* ... and reloads, if it changed anything.                                *)
Finish ==
  /\ syncAll.at = "compared" /\ syncAll.stale = {} /\ syncAll.gone = {}
  /\ IF syncAll.wrote THEN Reload ELSE UNCHANGED <<loaded, torn>>
  /\ syncAll' = NoPass
  /\ UNCHANGED <<rowVars, news, syncOne, table, served, faults>>

FailAll ==
  /\ syncAll.at # "idle" /\ Fault
  /\ torn' = (torn \/ syncAll.wrote)
  /\ syncAll' = NoPass
  /\ UNCHANGED <<rowVars, news, syncOne, table, loaded, served>>

-----------------------------------------------------------------------------
(* The gateway: a certificate it cannot ask after stays. *)

LookUp(h) ==
  /\ served' = [served EXCEPT ![h] = Material(h)]
  /\ UNCHANGED <<rowVars, sipVars, faults>>

-----------------------------------------------------------------------------
IssuerStep(i) == Claim(i) \/ Issue(i) \/ NotWanted(i) \/ RecordFailure(i)

OneStep(h) == FetchOne(h) \/ WriteOne(h) \/ ReloadOne(h)

AllStep == List \/ Compare \/ (\E h \in SipHost : FetchAll(h) \/ WriteAll(h) \/ Remove(h)) \/ Finish

CertNext ==
  \/ Survey
  \/ \E h \in Host : Add(h) \/ ResellerDeleted(h) \/ ComesDue(h)
  \/ \E i \in Issuer : IssuerStep(i) \/ Refused(i) \/ Abandon(i)
  \/ \E h \in SipHost : OneStep(h) \/ FailOne(h)
  \/ AllStep \/ FailAll
  \/ \E h \in ConsoleHost : LookUp(h)

CertFairness ==
  /\ WF_certVars(Survey)
  /\ \A h \in Host : WF_certVars(Add(h)) /\ WF_certVars(ComesDue(h))
  /\ \A i \in Issuer : WF_certVars(IssuerStep(i))
  /\ \A h \in SipHost : WF_certVars(OneStep(h))
  /\ WF_certVars(AllStep)

CertSpec == CertInit /\ [][CertNext]_certVars /\ CertFairness

-----------------------------------------------------------------------------
(* Properties. *)

(* "A certificate is leased to one at a time" (certificate-worker.ts:40):  *)
(* whatever fails and whoever dies, two copies never ask for the same one  *)
(* at once, as long as a batch stays within its lease.                     *)
LeasedToOne ==
  \A i, j \in Issuer : i # j => issuer[i].has \cap issuer[j].has = {}

(* "A certificate already held stays active" (recordFailure): whatever     *)
(* copies fail at renewing it, and whatever they had read of it before,    *)
(* one that is stored is handed out.                                       *)
HeldStaysActive == \A h \in Host : row[h].cert # 0 => Material(h) # 0

(* A name with an active certificate is never answered without one by the  *)
(* gateway again, until its reseller is deleted ("a renewal that cannot be *)
(* read leaves the certificate already held in use").                      *)
ConsoleStaysServed ==
  [][\A h \in ConsoleHost : served[h] # 0 /\ h \in wanted => served'[h] # 0]_certVars

(* Every name that stays wanted gets a certificate, through refusals and   *)
(* dying copies.                                                           *)
WantedIsHeld ==
  \A h \in Host : h \in wanted ~> Material(h) # 0 \/ h \notin wanted \/ issued = MaxCert

(* The handler and the timer, which write one table from what each fetched *)
(* before, leave it with the certificate there is, and with none that is   *)
(* gone; and OpenSIPs loads it, unless a pass failed before its reload.    *)
SipServesCurrent ==
  <>[](\A h \in SipHost : table[h] = Material(h) /\ (torn \/ loaded[h] = table[h]))

(* Not so: a survey begun before a reseller was deleted adds its name      *)
(* again after.                                                            *)
OnlyWanted == \A h \in Host : row[h].at # "none" => h \in wanted

(* One worker asks for a certificate, and none that is held is lost by     *)
(* asking for the next.                                                    *)
CertificatesKept == CertTypeOK /\ LeasedToOne /\ HeldStaysActive
=============================================================================
