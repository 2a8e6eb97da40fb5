SPECIFICATION OrganisationsSpec
CONSTANTS
  o1 = o1
  t1 = t1
  t2 = t2
  Reseller = {o1}
  Tenant = {t1, t2}
  ParentOf <- OneReseller
  Admin = {q1}
  Deleter = {d1, d2}
  MaxFailures = 1
  Hurried = FALSE
  SipHost = {s1}
  ConsoleHost = {k1}
  Issuer = {i1, i2}
  Batch = 2
  MaxCert = 2
  MaxFaults = 2
  InLease = TRUE
CHECK_DEADLOCK FALSE
INVARIANTS
  DeletionsAreRight
  CertificatesKept
PROPERTIES
  DeletionKeepsItsTerms
  NamesAreServed
