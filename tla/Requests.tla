------------------------------ MODULE Requests ------------------------------
(***************************************************************************)
(* The Worker's fetch handler (packages/server/src/worker.ts): who a       *)
(* request is from, which store, tenant and partition it reaches, and what *)
(* the Durable Object or the D1 dispatch makes of it.                      *)
(*                                                                         *)
(* reached is the operation a request has reached, until it is answered.   *)
(* On D1 the state is a version of the primary, replicas lag behind it,    *)
(* and a client threads the bookmark of what it saw through its calls      *)
(* (client/src/index.ts); answers arrive in any order.  What else a call   *)
(* carries matters only where it arrives, and is chosen there.  A Durable  *)
(* Object enters itself in the KV registry before it serves.               *)
(***************************************************************************)
EXTENDS Integers, FiniteSets

CONSTANTS
  Envs,                \* deployments: [store, header, db, do, shared, keys, claims, dev, lan, requireExp]
  Tokens,              \* callers: [name, signer, aud, exp, revoked, roles, tenants]
  Tenants,             \* "main" among them
  Partitions,          \* the schema's, "default" among them
  Handlers,            \* [name, kind, auth, partition] of the app's handlers, named apart
  MaxWrites,           \* bound on D1 mutations
  MaxSent              \* bound on D1 calls a client has in flight

(* What the Worker serves beside the handlers.                             *)
Routes == {"live", "admin", "migrations", "tenants", "drain", "list"}

(* A token is named once, "worker" is nobody's, and who sends none has     *)
(* none that could expire or be revoked.  A handler is named once too.     *)
ASSUME RequestsAssumption ==
  /\ "main" \in Tenants /\ "default" \in Partitions
  /\ MaxWrites \in Nat /\ MaxSent \in Nat
  /\ \A t \in Tokens :
       /\ t.name # "worker" /\ \A u \in Tokens : u.name = t.name => u = t
       /\ t.signer = "nobody" => t.exp = "none" /\ ~t.revoked
  /\ \A h \in Handlers :
       /\ h.name \notin Routes
       /\ \A g \in Handlers : g.name = h.name => g = h

VARIABLES
  env,
  reached,             \* the operation a request has reached, or Nothing
  primary,             \* D1: the primary's version
  sent,                \* the bookmarks that D1 calls on their way took along
  answers,             \* answers on their way back
  bookmark,            \* the client's d1Bookmark
  seen,                \* history: the latest version an answer showed the client
  staleRead,           \* history: a read was older than what the caller had seen
  registry,            \* KV: stores listed by /tenants
  meta,                \* stores whose _pramen_meta says registered
  serving              \* stores that have served an operation
d1Vars == <<primary, sent, answers, bookmark, seen, staleRead>>
doVars == <<registry, meta, serving>>
vars == <<env, reached, d1Vars, doVars>>

Nothing == [op |-> "none"]
Anonymous == [roles |-> {}, tenants |-> {}, known |-> FALSE]
Op(op, store, tenant, partition, roles, token, host) ==
  [op |-> op, store |-> store, tenant |-> tenant, partition |-> partition,
   roles |-> roles, token |-> token, public |-> host = "public"]
SystemRoles == {"__system"}

-----------------------------------------------------------------------------
(* What the Worker refuses to serve at all, whatever the route.  dev: the  *)
(* deployment carries the published development secret.                    *)

Hosts == {"local", "lan", "public"}
isLocalHost(host) == host = "local" \/ (env.lan /\ host = "lan")
unboundKeys == env.keys = "jwks" /\ ~env.claims
misconfigurationDevOnly(host) == env.dev /\ ~isLocalHost(host)
misconfiguration(host) == unboundKeys \/ (env.dev /\ ~isLocalHost(host))

-----------------------------------------------------------------------------
(* Who calls.  signer: "nobody" (no token), "service" (AUTH_SECRET),       *)
(* "published" (the development secret), "idp" (a key of the JWKS) or      *)
(* "stranger".                                                             *)

trusts(token) ==
  IF env.keys = "jwks" THEN token.signer = "idp"
  ELSE token.signer = IF env.dev THEN "published" ELSE "service"
verifyJwt(token) ==
  /\ trusts(token)
  /\ token.exp # "past"
  /\ env.requireExp => token.exp = "live"
  /\ env.claims => token.aud = "here"

toIdentityAsClaimed(token) ==
  IF token.signer = "nobody" THEN Anonymous
  ELSE [roles |-> token.roles, tenants |-> token.tenants, known |-> TRUE]
toIdentity(token) ==
  IF token.signer = "nobody" THEN Anonymous
  ELSE [roles |-> token.roles \ SystemRoles, tenants |-> token.tenants, known |-> TRUE]

(* A token that was sent and did not verify is refused, not anonymous.     *)
authenticates(host, token) ==
  /\ ~misconfiguration(host)
  /\ token.signer = "nobody" \/ (verifyJwt(token) /\ ~token.revoked)

isAdmin(identity) == "admin" \in identity.roles
anyTenant(identity, tenant) == identity.known
authorizeTenant(identity, tenant) ==
  \/ tenant = "main"
  \/ isAdmin(identity)
  \/ tenant \in identity.tenants

(* A handler's auth: "open", "authenticated", or a list of roles.          *)
authorizeHandler(h, identity) ==
  CASE h.auth = {"open"} -> TRUE
    [] h.auth = {"authenticated"} -> identity.known
    [] OTHER -> h.auth \cap identity.roles # {}

-----------------------------------------------------------------------------
(* Which store.  header: "none", "d1" or "do".                             *)

useD1Store(header, isLive) ==
  /\ ~isLive
  /\ IF env.header /\ header # "none" THEN header = "d1" ELSE env.store = "d1"

mayUseD1(tenant) == env.db /\ (tenant = "main" \/ env.shared)

-----------------------------------------------------------------------------
(* A Durable Object.  ensureRegistered comes before whatever it serves; it *)
(* may die between KV and its own table.                                   *)

Store(tenant, partition) == <<tenant, partition>>

registersMetaFirst(s) ==
  \/ meta' = meta \cup {s} /\ registry' = registry \cup {s}
  \/ meta' = meta \cup {s} /\ UNCHANGED registry
ensureRegistered(s) ==
  IF s \in meta THEN UNCHANGED <<meta, registry>>
  ELSE /\ registry' = registry \cup {s}
       /\ meta' = meta \cup {s}

(* The KV write took effect and the call died.                             *)
dies(s) ==
  /\ env.do
  /\ s \notin meta
  /\ registry' = registry \cup {s}
  /\ reached' = Nothing
  /\ UNCHANGED <<env, d1Vars, meta, serving>>

Serves(s) == ensureRegistered(s) /\ serving' = serving \cup {s}

(* A restore to a point in time before the store was registered.           *)
Restored(s) ==
  /\ s \in meta
  /\ meta' = meta \ {s}
  /\ reached' = Nothing
  /\ UNCHANGED <<env, d1Vars, registry, serving>>

(* The identity header: set or deleted on every proxied request, so what   *)
(* the caller put there (spoofed) is gone.                                 *)
forwardedIfAnonymous(identity, spoofed) == IF identity.known THEN identity ELSE spoofed
forwarded(identity, spoofed) == identity

-----------------------------------------------------------------------------
(* Requests.                                                               *)

rpcOnDo(host, token, tenant, header, h, spoofed) ==
  LET identity == toIdentity(token) IN
  /\ authenticates(host, token)
  /\ authorizeTenant(identity, tenant)
  /\ ~useD1Store(header, FALSE)
  /\ env.do
  /\ Serves(Store(tenant, h.partition))
  /\ LET caller == forwarded(identity, spoofed) IN
       reached' = IF authorizeHandler(h, caller)
                  THEN Op(h.name, "do", tenant, h.partition, caller.roles, token.name, host) ELSE Nothing
  /\ UNCHANGED <<env, d1Vars>>

live(host, token, tenant, partition, spoofed) ==
  LET identity == toIdentity(token) IN
  /\ authenticates(host, token)
  /\ env.store # "d1" /\ env.do
  /\ authorizeTenant(identity, tenant)
  /\ partition \in Partitions
  /\ Serves(Store(tenant, partition))
  /\ reached' = Op("live", "do", tenant, partition, forwarded(identity, spoofed).roles, token.name, host)
  /\ UNCHANGED <<env, d1Vars>>

(* /admin/recover, schema, data, tasks/drain and tasks/list: an            *)
(* administrator's, of whichever tenant and partition it names.            *)
adminOnDo(host, token, tenant, partition) ==
  LET identity == toIdentity(token) IN
  /\ authenticates(host, token)
  /\ isAdmin(identity)
  /\ env.do
  /\ Serves(Store(tenant, partition))
  /\ reached' = Op("admin", "do", tenant, partition, identity.roles, token.name, host)
  /\ UNCHANGED <<env, d1Vars>>

(* migrations asks a store without booting or registering it; /tenants     *)
(* reads the registry.                                                     *)
adminProbes(host, token, op, tenant, partition) ==
  LET identity == toIdentity(token) IN
  /\ authenticates(host, token)
  /\ isAdmin(identity)
  /\ op = "migrations" => partition \in Partitions /\ env.do
  /\ reached' = Op(op, "do", tenant, partition, identity.roles, token.name, host)
  /\ UNCHANGED <<env, d1Vars, doVars>>

(* The d1 header alone picks D1 for drain and list (the whole database)    *)
(* and for migrations, which keeps to the tenant rule.                     *)
adminOnD1(host, token, op, tenant) ==
  LET identity == toIdentity(token) IN
  /\ authenticates(host, token)
  /\ isAdmin(identity)
  /\ env.db
  /\ IF op = "migrations" THEN mayUseD1(tenant) ELSE tenant = "main"
  /\ reached' = Op(op, "d1", tenant, "default", identity.roles, token.name, host)
  /\ UNCHANGED <<env, d1Vars, doVars>>

(* A route runs before authentication, and what it calls runs with the     *)
(* roles and in the partition it asks for.                                 *)
privilegedCall(host, header, tenant, partition, h, roles) ==
  LET system == [roles |-> roles, tenants |-> {}, known |-> TRUE]
      onD1 == useD1Store(header, FALSE)
  IN /\ ~misconfiguration(host)
     /\ authorizeHandler(h, system)
     /\ IF onD1
        THEN mayUseD1(tenant) /\ UNCHANGED doVars
        ELSE env.do /\ Serves(Store(tenant, partition))
     /\ reached' = IF onD1 THEN Op(h.name, "d1", tenant, "default", roles, "worker", host)
                   ELSE Op(h.name, "do", tenant, partition, roles, "worker", host)
     /\ UNCHANGED <<env, d1Vars>>

-----------------------------------------------------------------------------
(* D1.  A call leaves with the client's bookmark, runs, and its answer     *)
(* travels back.                                                           *)

calls ==
  /\ Cardinality(sent) + Cardinality(answers) < MaxSent
  /\ sent' = sent \cup {[bookmark |-> bookmark, floor |-> seen]}
  /\ reached' = Nothing
  /\ UNCHANGED <<env, primary, answers, bookmark, seen, staleRead, doVars>>

(* The oldest version a session may read.                                  *)
startIgnored(call, h) == IF h.kind = "mutation" THEN primary ELSE 0
start(call, h) == IF h.kind = "mutation" THEN primary ELSE call.bookmark

dispatchD1(call, host, token, tenant, header, h) ==
  LET identity == toIdentity(token)
      allowed == /\ authenticates(host, token)
                 /\ authorizeTenant(identity, tenant)
                 /\ mayUseD1(tenant)
                 /\ authorizeHandler(h, identity)
  IN /\ useD1Store(header, FALSE)
     /\ sent' = sent \ {call}
     /\ IF ~allowed
        THEN reached' = Nothing /\ UNCHANGED <<primary, answers, staleRead>>
        ELSE /\ reached' = Op(h.name, "d1", tenant, "default", identity.roles, token.name, host)
             /\ \E read \in start(call, h) .. primary :
                  /\ staleRead' = (staleRead \/ read < call.floor)
                  /\ IF h.kind = "mutation"
                     THEN /\ primary < MaxWrites
                          /\ primary' = primary + 1
                          \* thrown after a write committed: no bookmark comes back
                          /\ \/ answers' = answers \cup {primary + 1}
                             \/ UNCHANGED answers
                     ELSE answers' = answers \cup {read} /\ UNCHANGED primary
     /\ UNCHANGED <<env, bookmark, seen, doVars>>

latest(a) == a
newest(a) == IF a > bookmark THEN a ELSE bookmark

answered(a) ==
  /\ answers' = answers \ {a}
  /\ bookmark' = newest(a)
  /\ seen' = IF a > seen THEN a ELSE seen
  /\ reached' = Nothing
  /\ UNCHANGED <<env, primary, sent, staleRead, doVars>>

Init ==
  /\ env \in Envs
  /\ reached = Nothing
  /\ primary = 0 /\ bookmark = 0 /\ seen = 0
  /\ sent = {} /\ answers = {}
  /\ staleRead = FALSE
  /\ registry = {} /\ meta = {} /\ serving = {}

Headers == {"none", "d1", "do"}
Spoofed == [roles |-> {"admin"} \cup SystemRoles, tenants |-> Tenants, known |-> TRUE]

Request ==
  \/ \E host \in Hosts, token \in Tokens, tenant \in Tenants :
       \/ \E header \in Headers, h \in Handlers : rpcOnDo(host, token, tenant, header, h, Spoofed)
       \/ \E partition \in Partitions \cup {"unknown"} :
            \/ live(host, token, tenant, partition, Spoofed)
            \/ adminProbes(host, token, "migrations", tenant, partition)
            \/ adminOnDo(host, token, tenant, partition)
       \/ adminProbes(host, token, "tenants", "main", "default")
       \/ \E op \in {"migrations", "drain", "list"} : adminOnD1(host, token, op, tenant)
  \/ \E host \in Hosts, header \in Headers, tenant \in Tenants, partition \in Partitions,
        h \in Handlers, roles \in {{}, {"admin"}, SystemRoles} :
       privilegedCall(host, header, tenant, partition, h, roles)
  \/ calls
  \/ \E call \in sent, host \in Hosts, token \in Tokens, tenant \in Tenants, header \in Headers,
        h \in Handlers : dispatchD1(call, host, token, tenant, header, h)
  \/ \E a \in answers : answered(a)
  \/ \E tenant \in Tenants, partition \in Partitions :
       dies(Store(tenant, partition)) \/ Restored(Store(tenant, partition))

(* The request is answered; the next one finds nothing of it.              *)
replied ==
  /\ reached # Nothing
  /\ reached' = Nothing
  /\ UNCHANGED <<env, d1Vars, doVars>>

Next == replied \/ (reached = Nothing /\ Request)

Spec == Init /\ [][Next]_vars

-----------------------------------------------------------------------------
(* Properties.  They speak of the token a request came with, never of the  *)
(* identity the code made of it.                                           *)

Sender == CHOOSE t \in Tokens : t.name = reached.token
Happened == reached # Nothing
FromOutside == Happened /\ reached.token # "worker"

(* An operation on a tenant is of somebody its token names the tenant for, *)
(* or of an administrator; the shared tenant is everybody's.               *)
TenantsAreApart ==
  FromOutside =>
    \/ reached.tenant \in Sender.tenants \cup {"main"}
    \/ "admin" \in Sender.roles

(* A call from outside reaches the partition its handler lives in, on D1   *)
(* the one there is, whatever partition it names; and nobody but an        *)
(* administrator reaches a partition that is not the schema's, so nobody   *)
(* else brings one up.                                                     *)
PartitionsAreApart ==
  LET homes == {h.partition : h \in {g \in Handlers : g.name = reached.op}} IN
  FromOutside =>
    IF reached.op \in Routes
    THEN reached.partition \in Partitions \/ "admin" \in Sender.roles
    ELSE reached.partition \in (IF reached.store = "d1" THEN {"default"} ELSE homes)

(* Nobody acts with a role its token does not grant, whatever headers it   *)
(* sends, and a token counts only when it is alive and signed for this     *)
(* service: the published secret nowhere but at home, another client's     *)
(* token of the same provider nowhere.                                     *)
NobodyPoses ==
  FromOutside =>
    /\ reached.roles \subseteq Sender.roles \ SystemRoles
    /\ ~Sender.revoked /\ Sender.exp # "past"
    /\ Sender.signer \in {"nobody", "service", "published", "idp"}
    /\ Sender.signer = "published" => ~reached.public
    /\ Sender.signer = "idp" => Sender.aud = "here"

(* On a D1 without tenant isolation only the main tenant is served.        *)
SharedStaysMain ==
  Happened /\ reached.store = "d1" /\ ~env.shared => reached.tenant = "main"

(* A client never reads less than an answer has shown it, in whatever      *)
(* order answers come and however far the replica lags.                    *)
ReadsWhatItSaw == ~staleRead

(* Whatever has served an operation is listed, also after a call that died *)
(* while registering and after a restore.                                  *)
NothingIsHidden == serving \subseteq registry

(* A request reaches the store of its own tenant and of its handler's      *)
(* partition, as the caller its token proves, a database session never     *)
(* reads less than it was shown, and no store that served is missing from  *)
(* the list of stores.                                                     *)
RequestsAreBound ==
  /\ TenantsAreApart
  /\ PartitionsAreApart
  /\ NobodyPoses
  /\ SharedStaysMain
  /\ ReadsWhatItSaw
  /\ NothingIsHidden
=============================================================================
