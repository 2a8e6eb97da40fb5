--------------------------- MODULE MCOrganisations ---------------------------
(* OrgLifecycle and Certificates for TLC: a reseller and its two tenants,  *)
(* or a name of each kind.  Which of the two is chosen initially.          *)
EXTENDS OrgLifecycle, Certificates, TLC

CONSTANTS o1, t1, t2

VARIABLE names  \* whether it is the certificates' run

OneReseller == t1 :> o1 @@ t2 :> o1

OrganisationsInit == OrgInit /\ CertInit /\ names \in BOOLEAN

OrganisationsNext ==
  /\ IF names THEN CertNext /\ UNCHANGED orgVars ELSE OrgNext /\ UNCHANGED certVars
  /\ UNCHANGED names

(* CertFairness and OrgFairness, each of its part.                         *)
OrganisationsSpec ==
  /\ OrganisationsInit /\ [][OrganisationsNext]_<<orgVars, certVars, names>>
  /\ \A d \in Deleter : WF_orgVars(~names /\ DeleterStep(d))
  /\ WF_certVars(names /\ Survey)
  /\ \A h \in Host : WF_certVars(names /\ Add(h)) /\ WF_certVars(names /\ ComesDue(h))
  /\ \A i \in Issuer : WF_certVars(names /\ IssuerStep(i))
  /\ \A h \in SipHost : WF_certVars(names /\ OneStep(h))
  /\ WF_certVars(names /\ AllStep)

(* Every name that stays wanted gets a certificate, through refusals and   *)
(* dying copies (WantedIsHeld, of the certificates' instance).             *)
WantedNamesAreHeld ==
  \A h \in Host : names /\ h \in wanted ~> Material(h) # 0 \/ h \notin wanted \/ issued = MaxCert

(* Every wanted name is given a certificate, and the one it has is what    *)
(* the gateway and OpenSIPs answer with.                                   *)
NamesAreServed == WantedNamesAreHeld /\ ConsoleStaysServed /\ SipServesCurrent
=============================================================================
