-------------------------- MODULE MCConfiguration --------------------------
(* Projection for TLC.  Which of five runs it is is chosen initially: a    *)
(* phone; what is mirrored and its passes; a trunk and a route over it,    *)
(* changed often; an emergency route, with failures; or a tenant and its   *)
(* phone, which there are already.                                         *)
EXTENDS Projection, TLC

CONSTANTS e1, d1, h1, t1, r1, m1, o1, pbx, trunk, org

VARIABLE part

Row(table, key, data) == [table |-> table, key |-> key, data |-> data]

Things == {e1, d1, h1, t1, r1, m1, o1}

Kinds ==
  e1 :> "extension" @@ d1 :> "mirror" @@ h1 :> "handling" @@ t1 :> "trunk"
    @@ r1 :> "route" @@ m1 :> "emergency" @@ o1 :> "tenant"

Subscriber(name, secret) == {Row("subscriber", <<e1, name>>, {secret})}
Carrier(host, ips, names) ==
  {Row("gateway", <<t1>>, IF names = {} THEN {host} ELSE {host, "auth"})} \cup {Row("address", <<t1, i>>, {}) : i \in ips}
    \cup {Row("registrant", <<t1, n>>, {}) : n \in names}

(* What each can be: a phone renamed or given another secret; a trunk      *)
(* moved, or identified another way: one that registers has credentials.   *)
Configured ==
  e1 :> {Subscriber("a", "s"), Subscriber("a", "t"), Subscriber("b", "s")}
    @@ d1 :> {{Row("mirror", <<d1>>, {v})} : v \in {1, 2}}
    @@ h1 :> {{Row("mirror", <<h1>>, {v})} : v \in {1, 2}}
    @@ t1 :> {Carrier("x", {}, {"a"}), Carrier("x", {"i"}, {}), Carrier("y", {"i"}, {"a"})}
    @@ r1 :> {{Row("rule", <<r1>>, {}), Row("gateway", <<r1, t1>>, {})}}
    @@ m1 :> {{Row("rule", <<m1>>, {}), Row("gateway", <<m1, t1>>, {})}}
    @@ o1 :> {{Row("domain", <<o1, "d">>, {})}, {Row("mirror", <<o1>>, {})}}

Owned == [t \in Things |-> IF t = o1 THEN {e1} ELSE {}]

Feeds == pbx :> {e1, d1, h1} @@ trunk :> {t1, r1, m1} @@ org :> {o1}

(* What changes in each run, and how often.                                *)
Parts ==
  [phone |-> {e1}, mirrors |-> {d1, h1}, trunks |-> {t1, r1}, faults |-> {t1, m1}, tenants |-> {o1, e1}]

Often == [phone |-> 3, mirrors |-> 2, trunks |-> 3, faults |-> 2, tenants |-> 2]

(* The tenant and its phone are there from the start.                      *)
Known == [t \in Things |-> CASE t = o1 -> {Row("domain", <<o1, "d">>, {})}
                             [] t = e1 -> Subscriber("a", "s")
                             [] OTHER  -> {}]

TenantsInit ==
  /\ source = Known /\ model = Known
  /\ rows = Known[o1] \cup Known[e1] /\ loaded = Known[o1]
  /\ changes = 0 /\ deleted = {} /\ pending = {} /\ failures = 0
  /\ job = [w \in Worker |-> NoJob] /\ pass = NoPass /\ sync = NoSync /\ torn = FALSE

ConfigurationInit ==
  /\ part \in DOMAIN Parts
  /\ IF part = "tenants" THEN TenantsInit ELSE ProjectionInit

ConfigurationNext ==
  /\ \/ changes < Often[part] /\ \E t \in Parts[part] : Change(t)
     \/ Projecting
  /\ part \in {"phone", "trunks"} => failures' = failures
  /\ UNCHANGED part

ConfigurationSpec ==
  ConfigurationInit /\ [][ConfigurationNext]_<<projectionVars, part>> /\ ProjectionFairness
=============================================================================
