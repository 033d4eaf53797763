------------------------------ MODULE Tenancy ------------------------------
(***************************************************************************)
(* Tenants, their users and one registry name, as the dashboard handlers   *)
(* and the end-to-end seed of cmd/init change them, statement by           *)
(* statement.  Every request first puts its user into the tenant that its  *)
(* token names, so users move under requests that are being handled.       *)
(***************************************************************************)
EXTENDS Naturals, FiniteSets

CONSTANTS
    User, Tenant,
    Personal,      \* the tenant of a user whose token names no organization
    Tokens,        \* the tenants that tokens of a user may name
    Seeder,        \* the user that the seed is configured with
    Request,       \* dashboard requests that may run at a time
    Seed,          \* init containers that run the seed, with one configuration
    NoTenant,
    MaxChanges     \* bound: requests that are to change something, restarts, failures

ASSUME TenancyAssumption ==
    /\ Personal \in [User -> Tenant]
    /\ Tokens \in [User -> SUBSET Tenant]
    /\ Seeder \in User
    /\ NoTenant \notin Tenant
    /\ MaxChanges \in Nat

VARIABLES
    tenants,   \* rows of tenants
    onboarded, \* those of them with onboarded set
    tenantOf,  \* users.tenant_id, NoTenant when the user has no row
    registry,  \* the registry with the name that the seed is configured with
    lastId,    \* ids of registries made so far: 1, 2, ...
    apiKeys,   \* the keys with the name or the prefix of the seed's
    lastKey,   \* ids of keys made so far
    requests,  \* what each request is doing
    seeds,     \* what each run of the seed is doing
    changes,   \* what MaxChanges bounds
    owned,     \* history: tenants for which the registry was made at some time
    strayed,   \* history: tenants marked for another's registry, or left unmarked
    promised   \* history: a run of the seed succeeded, and no user has undone it

tenancyVars == <<tenants, onboarded, tenantOf, registry, lastId, apiKeys, lastKey,
                 requests, seeds, changes, owned, strayed, promised>>
userVars == <<tenants, onboarded, tenantOf, owned, strayed>>
registryVars == <<registry, lastId>>
keyVars == <<apiKeys, lastKey, promised>>

NoRegistry == [id |-> 0, tenant |-> NoTenant]
RegistryRow == [id: Nat, tenant: Tenant \cup {NoTenant}]

\* "configured" is what the seed is configured with; other names are alike, and so
\* are the prefixes of other keys, which are never the same.
Label == {"configured", "other"}

\* The scope is the id of the registry, 0 when its row has gone with the registry.  The
\* secret is the configured one if it decrypts, with the configured encryption key, to
\* the configured key.
KeyRow == [id: Nat, user: User, name: Label, prefix: Label, secret: Label, scope: Nat]

RequestSteps == {"addRegistry", "onboard", "removeRegistry", "addKey", "removeKey"}
SeedSteps == {"find", "create", "add", "again", "align", "onboard", "prefix", "scopes",
              "replace", "list", "clear", "tell"}

IdleRequest == [step |-> "idle", user |-> Seeder, tenant |-> NoTenant,
                onboarded |-> FALSE, id |-> 0]
SeedAt(step) == [step |-> step, registry |-> NoRegistry, key |-> 0, todo |-> {}]

\* The type invariant.
TenancyTypeOK ==
    /\ tenants \in SUBSET Tenant
    /\ onboarded \in SUBSET tenants
    /\ tenantOf \in [User -> tenants \cup {NoTenant}]
    /\ registry \in RegistryRow /\ (registry = NoRegistry \/ registry.tenant \in tenants)
    /\ apiKeys \in SUBSET KeyRow /\ \A k \in apiKeys : tenantOf[k.user] # NoTenant
    /\ requests \in [Request -> [step: RequestSteps \cup {"idle"}, user: User,
                                 tenant: tenants \cup {NoTenant}, onboarded: BOOLEAN,
                                 id: Nat]]
    /\ seeds \in [Seed -> [step: SeedSteps \cup {"failed", "succeeded"},
                           registry: RegistryRow, key: Nat, todo: SUBSET Nat]]
    /\ {owned, strayed} \subseteq SUBSET tenants

\* Pods may run whose seed succeeded long ago.  The dashboard may have made the
\* registry, for any tenant, and earlier configurations may have left a key of the
\* seed's name or of its prefix, the latter with another user, another secret or
\* another encryption key.
TenancyInit ==
    /\ registry \in {NoRegistry} \cup {[id |-> 1, tenant |-> t] : t \in Tokens[Seeder]}
    /\ lastId = registry.id
    /\ apiKeys \in {{}} \cup {{k} : k \in [id: {1}, user: User, name: Label, prefix: Label,
                                          secret: Label, scope: {0}]}
    /\ \A k \in apiKeys :
          \/ k.prefix = "configured"
          \/ k.name = "configured" /\ k.user = Seeder /\ k.secret = "other"
    /\ lastKey = 1
    /\ owned = {registry.tenant} \ {NoTenant}
    /\ onboarded = owned
    /\ tenantOf = [u \in User |-> IF \E k \in apiKeys : k.user = u
                                  THEN Personal[u] ELSE NoTenant]
    /\ tenants = owned \cup ({tenantOf[u] : u \in User} \ {NoTenant})
    /\ requests = [q \in Request |-> IdleRequest]
    /\ seeds \in [Seed -> {SeedAt("failed"), SeedAt("succeeded")}]
    /\ changes = 0
    /\ strayed = {}
    /\ promised = FALSE

-----------------------------------------------------------------------------
(* The statements that both use *)

\* Mutant: a tenant that is not there is not made.
PutUserAlone(u, t) ==
    /\ tenantOf' = [tenantOf EXCEPT ![u] = t]
    /\ UNCHANGED <<tenants, onboarded, owned, strayed>>

\* GetOrCreateUser, one statement: tenant and user are there, the user in the tenant.
PutUser(u, t) ==
    /\ tenants' = tenants \cup {t}
    /\ tenantOf' = [tenantOf EXCEPT ![u] = t]
    /\ UNCHANGED <<onboarded, owned, strayed>>

\* SetUserOnboarded marks the tenant that the user is in by now, for a registry of t.
SetUserOnboarded(u, t) ==
    /\ onboarded' = onboarded \cup {tenantOf[u]}
    /\ strayed' = IF tenantOf[u] = t THEN strayed \ {t}
                  ELSE strayed \cup ({t, tenantOf[u]} \ onboarded)
    /\ UNCHANGED <<tenants, tenantOf, owned>>

\* An end before t is marked.
Unmarked(t) ==
    /\ strayed' = strayed \cup ({t} \ onboarded)
    /\ UNCHANGED <<tenants, onboarded, tenantOf, owned>>

InsertRegistry(t) ==
    /\ registry = NoRegistry
    /\ lastId' = lastId + 1
    /\ registry' = [id |-> lastId', tenant |-> t]
    /\ owned' = owned \cup {t}
    /\ UNCHANGED <<tenants, onboarded, tenantOf, strayed>>

\* api_keys is unique by user and name, and by prefix.
Taken(u, n, p) ==
    \E k \in apiKeys : \/ k.user = u /\ k.name = n
                       \/ k.prefix = p /\ p = "configured"

\* The secret comes with the prefix, both being parts of the key.
InsertKey(u, p, id) ==
    /\ lastKey' = lastKey + 1
    /\ apiKeys' = apiKeys \cup {[id |-> lastKey', user |-> u, name |-> "configured",
                                 prefix |-> p, secret |-> p, scope |-> id]}

Change == changes < MaxChanges /\ changes' = changes + 1

-----------------------------------------------------------------------------
(* The dashboard *)

Doing(q, step) == requests[q].step = step
Reply(q) == requests' = [requests EXCEPT ![q] = IdleRequest]

\* authMiddleware; getCurrentUserHandler answers with what it found.
GetCurrentUser(u, t) ==
    /\ PutUser(u, t)
    /\ UNCHANGED <<registryVars, keyVars, requests, seeds, changes>>

\* authMiddleware; the tenant and its flag are what they are now until the answer.
Arrive(q, u, t, step) ==
    /\ Doing(q, "idle")
    /\ Change
    /\ PutUser(u, t)
    /\ requests' = [requests EXCEPT ![q] =
          [step |-> step, user |-> u, tenant |-> t, onboarded |-> t \in onboarded,
           id |-> registry.id]]
    /\ UNCHANGED <<registryVars, keyVars, seeds>>

\* Mutant: a name that is taken is taken for made.
AddRegistryAnyway(q) ==
    /\ Doing(q, "addRegistry")
    /\ \/ InsertRegistry(requests[q].tenant)
       \/ registry # NoRegistry /\ UNCHANGED <<userVars, registryVars>>
    /\ IF requests[q].onboarded THEN Reply(q)
       ELSE requests' = [requests EXCEPT ![q].step = "onboard"]
    /\ UNCHANGED <<keyVars, seeds, changes>>

\* AddRegistryWithKey; its key has a name and a prefix of its own.  409 if the name
\* is taken.
AddRegistry(q) ==
    /\ Doing(q, "addRegistry")
    /\ \/ /\ InsertRegistry(requests[q].tenant)
          /\ IF requests[q].onboarded THEN Reply(q)
             ELSE requests' = [requests EXCEPT ![q].step = "onboard"]
       \/ registry # NoRegistry /\ Reply(q) /\ UNCHANGED <<userVars, registryVars>>
    /\ UNCHANGED <<keyVars, seeds, changes>>

OnboardUser(q) ==
    /\ Doing(q, "onboard")
    /\ SetUserOnboarded(requests[q].user, requests[q].tenant)
    /\ Reply(q)
    /\ UNCHANGED <<registryVars, keyVars, seeds, changes>>

\* By the id that the client knew; the scopes go with it.  Else 404.
RemoveRegistry(q) ==
    /\ Doing(q, "removeRegistry")
    /\ IF registry.id = requests[q].id /\ registry.tenant = requests[q].tenant
       THEN /\ registry' = NoRegistry
            /\ apiKeys' = {[k EXCEPT !.scope = 0] : k \in apiKeys}
            /\ promised' = FALSE
       ELSE UNCHANGED <<registry, apiKeys, promised>>
    /\ Reply(q)
    /\ UNCHANGED <<userVars, lastId, lastKey, seeds, changes>>

\* A key for the registry, which may be of the seed's name, or 409.
AddAPIKey(q) ==
    LET rq == requests[q]
    IN  /\ Doing(q, "addKey")
        /\ \/ /\ registry.tenant = rq.tenant
              /\ ~Taken(rq.user, "configured", "other")
              /\ InsertKey(rq.user, "other", registry.id)
           \/ UNCHANGED <<apiKeys, lastKey>>
        /\ Reply(q)
        /\ UNCHANGED <<userVars, registryVars, promised, seeds, changes>>

\* A key of the user's own, or 404.
RemoveAPIKey(q) ==
    /\ Doing(q, "removeKey")
    /\ \/ \E k \in apiKeys :
             /\ k.user = requests[q].user
             /\ apiKeys' = apiKeys \ {k}
             /\ promised' = (promised /\ k.prefix # "configured")
       \/ UNCHANGED <<apiKeys, promised>>
    /\ Reply(q)
    /\ UNCHANGED <<userVars, registryVars, lastKey, seeds, changes>>

\* A request ends early: the key of a new registry is not told then, and the tenant
\* is not marked.
FailRequest(q) ==
    /\ ~Doing(q, "idle")
    /\ IF Doing(q, "onboard") THEN Unmarked(requests[q].tenant) ELSE UNCHANGED userVars
    /\ Reply(q)
    /\ UNCHANGED <<registryVars, keyVars, seeds, changes>>

-----------------------------------------------------------------------------
(* The seed *)

In(s, step) == seeds[s].step = step
Goto(s, step) == seeds' = [seeds EXCEPT ![s].step = step]

\* The run ends with an error, at "align" or "onboard" with the tenant not marked.
Fails(s) ==
    /\ seeds' = [seeds EXCEPT ![s] = SeedAt("failed")]
    /\ IF In(s, "align") \/ In(s, "onboard") THEN Unmarked(seeds[s].registry.tenant)
       ELSE UNCHANGED userVars

\* r is there, and no run works for one that was removed.
OnlyFor(r, s) ==
    \A p \in Seed : \/ seeds[p].registry = r
                    \/ p # s /\ (seeds[p].registry = NoRegistry \/ In(p, "succeeded"))

\* An init container that failed is run again.
StartSeed(s) ==
    /\ In(s, "failed")
    /\ seeds' = [seeds EXCEPT ![s] = SeedAt("find")]
    /\ UNCHANGED <<userVars, registryVars, keyVars, requests, changes>>

\* So is that of a pod that starts anew.
RestartSeed(s) ==
    /\ In(s, "succeeded")
    /\ Change
    /\ seeds' = [seeds EXCEPT ![s] = SeedAt("find")]
    /\ UNCHANGED <<userVars, registryVars, keyVars, requests>>

\* GetRegistryByName.
Find(s, step, otherwise) ==
    /\ In(s, step)
    /\ IF registry # NoRegistry
       THEN /\ seeds' = [seeds EXCEPT ![s].step = "align", ![s].registry = registry]
            /\ UNCHANGED userVars
       ELSE otherwise
    /\ UNCHANGED <<registryVars, keyVars, requests, changes>>

FindRegistry(s) == Find(s, "find", Goto(s, "create") /\ UNCHANGED userVars)

CreateSeedUser(s) ==
    /\ In(s, "create")
    /\ PutUser(Seeder, Personal[Seeder])
    /\ Goto(s, "add")
    /\ UNCHANGED <<registryVars, keyVars, requests, changes>>

\* AddRegistry, ErrConflict if the name is taken by now.
AddSeedRegistry(s) ==
    /\ In(s, "add")
    /\ \/ /\ InsertRegistry(Personal[Seeder])
          /\ seeds' = [seeds EXCEPT ![s].step = "align", ![s].registry = registry']
       \/ registry # NoRegistry /\ Goto(s, "again") /\ UNCHANGED <<userVars, registryVars>>
    /\ UNCHANGED <<keyVars, requests, changes>>

FindRegistryAgain(s) == Find(s, "again", Fails(s))

\* GetOrCreateUserInTenant.
AlignUser(s) ==
    LET t == seeds[s].registry.tenant
    IN  /\ In(s, "align")
        /\ PutUser(Seeder, t)
        /\ seeds' = [seeds EXCEPT ![s].step = IF t \in onboarded THEN "prefix" ELSE "onboard"]
        /\ UNCHANGED <<registryVars, keyVars, requests, changes>>

OnboardSeedUser(s) ==
    /\ In(s, "onboard")
    /\ SetUserOnboarded(Seeder, seeds[s].registry.tenant)
    /\ Goto(s, "prefix")
    /\ UNCHANGED <<registryVars, keyVars, requests, changes>>

\* GetAPIKeyByPrefix; a key that does not decrypt, that has another secret or that is
\* another user's ends the run.
FindKey(s) ==
    LET K == {k \in apiKeys : k.prefix = "configured"}
    IN  /\ In(s, "prefix")
        /\ IF K = {} THEN Goto(s, "list")
           ELSE \E k \in K :
                   IF k.secret = "configured" /\ k.user = Seeder
                   THEN seeds' = [seeds EXCEPT ![s].step = "scopes", ![s].key = k.id]
                   ELSE Fails(s)
        /\ UNCHANGED <<userVars, registryVars, keyVars, requests, changes>>

\* ListAPIKeyScopesByAPIKeyID; a key that does what the seed's is to do is kept.
InspectKey(s) ==
    LET good == \E k \in apiKeys : /\ k.id = seeds[s].key /\ k.name = "configured"
                                   /\ k.scope = seeds[s].registry.id
    IN  /\ In(s, "scopes")
        /\ Goto(s, IF good THEN "succeeded" ELSE "replace")
        /\ promised' = (promised \/ (good /\ OnlyFor(registry, s)))
        /\ UNCHANGED <<userVars, registryVars, apiKeys, lastKey, requests, changes>>

\* Mutant: the key is removed by its prefix.
KeyByPrefix(id) == {k \in apiKeys : k.prefix = "configured"}

\* The key that was looked at, which may be gone by now.
KeyById(id) == {k \in apiKeys : k.id = id}

\* RemoveAPIKey of one key, ErrNotFound if there is none.
RemoveKeyOf(s, id, step) ==
    /\ IF KeyById(id) = {} THEN Fails(s) /\ UNCHANGED apiKeys
       ELSE /\ apiKeys' = apiKeys \ KeyById(id)
            /\ seeds' = [seeds EXCEPT ![s].step = step, ![s].todo = @ \ {id}]
            /\ UNCHANGED userVars
    /\ UNCHANGED <<registryVars, lastKey, promised, requests, changes>>

ReplaceKey(s) == In(s, "replace") /\ RemoveKeyOf(s, seeds[s].key, "list")

\* Mutant: only keys with the configured prefix are in the way.
InTheWayByPrefix == {k \in apiKeys : k.user = Seeder /\ k.prefix = "configured"}

InTheWay ==
    {k \in apiKeys : k.user = Seeder /\ k.name = "configured" /\ k.prefix # "configured"}

\* ListAPIKeysByUser, of which those go that have the name.
ListKeys(s) ==
    /\ In(s, "list")
    /\ seeds' = [seeds EXCEPT ![s].step = "clear", ![s].todo = {k.id : k \in InTheWay}]
    /\ UNCHANGED <<userVars, registryVars, keyVars, requests, changes>>

ClearKey(s) ==
    In(s, "clear") /\ \E id \in seeds[s].todo : RemoveKeyOf(s, id, "clear")

\* AddAPIKey: ErrConflict, or a foreign key that fails, or a key with its scope.
AddSeedKey(s) ==
    LET id == seeds[s].registry.id
    IN  /\ In(s, "clear") /\ seeds[s].todo = {}
        /\ IF Taken(Seeder, "configured", "configured") \/ registry.id # id
           THEN Fails(s) /\ UNCHANGED keyVars
           ELSE /\ InsertKey(Seeder, "configured", id)
                /\ Goto(s, "tell")
                /\ promised' = OnlyFor(registry, s)
                /\ UNCHANGED userVars
        /\ UNCHANGED <<registryVars, requests, changes>>

\* AddAPIKey reads the scopes back, and the run is over.
EndSeed(s) ==
    /\ In(s, "tell")
    /\ Goto(s, "succeeded")
    /\ UNCHANGED <<userVars, registryVars, keyVars, requests, changes>>

\* Any statement may fail, and any run may be killed.
FailSeed(s) ==
    /\ seeds[s].step \in SeedSteps
    /\ Change
    /\ Fails(s)
    /\ UNCHANGED <<registryVars, keyVars, requests>>

-----------------------------------------------------------------------------

Dashboard ==
    \/ \E u \in User : \E t \in Tokens[u] :
          \/ GetCurrentUser(u, t)
          \/ \E q \in Request, step \in RequestSteps \ {"onboard"} : Arrive(q, u, t, step)
    \/ \E q \in Request :
          \/ AddRegistry(q) \/ OnboardUser(q) \/ RemoveRegistry(q)
          \/ AddAPIKey(q) \/ RemoveAPIKey(q) \/ FailRequest(q)

RunSeed(s) ==
    \/ StartSeed(s) \/ FindRegistry(s) \/ CreateSeedUser(s) \/ AddSeedRegistry(s)
    \/ FindRegistryAgain(s) \/ AlignUser(s) \/ OnboardSeedUser(s) \/ FindKey(s)
    \/ InspectKey(s) \/ ReplaceKey(s) \/ ListKeys(s) \/ ClearKey(s) \/ AddSeedKey(s)
    \/ EndSeed(s)

TenancyNext ==
    \/ Dashboard
    \/ \E s \in Seed : RunSeed(s) \/ RestartSeed(s) \/ FailSeed(s)

\* Kubernetes runs an init container until it succeeds.
TenancyFairness == \A s \in Seed : WF_tenancyVars(RunSeed(s))

TenancySpec == TenancyInit /\ [][TenancyNext]_tenancyVars /\ TenancyFairness

-----------------------------------------------------------------------------
(* Properties *)

\* Somebody is about to mark t.
Marking(t) ==
    \/ \E q \in Request : Doing(q, "onboard") /\ requests[q].tenant = t
    \/ \E s \in Seed : seeds[s].step \in {"align", "onboard"} /\ seeds[s].registry.tenant = t

\* A tenant is onboarded if and only if a registry was made for it: whoever made it,
\* the dashboard or the seed, and whichever conflicts they met.  Except when its user
\* signed in to another tenant, or an error came, before it was marked.
OnboardedWithRegistry ==
    \A t \in Tenant \ strayed :
        /\ t \in onboarded => t \in owned
        /\ t \in owned => t \in onboarded \/ Marking(t)

\* Once a run of the seed has succeeded, the configured key of the configured user
\* opens the configured registry until a user removes one of the two: no other run of
\* the seed takes it away, in whatever order their statements come and wherever it
\* ends.  Unless that run still works for a registry that was removed.
SeedKeepsItsPromise ==
    promised => \E k \in apiKeys :
        /\ k.user = Seeder /\ k.name = "configured"
        /\ k.prefix = "configured" /\ k.secret = "configured"
        /\ registry # NoRegistry /\ k.scope = registry.id

\* The prefix of the configured key is that of another key: another user's, one with
\* another secret, or one that the configured encryption key does not open.
PrefixTaken ==
    \E k \in apiKeys :
        k.prefix = "configured" /\ (k.user # Seeder \/ k.secret # "configured")

\* Every init container succeeds in the end, so that the API starts: whatever earlier
\* configurations, other runs and the dashboard left in its way.  Only as long as its
\* prefix is taken it does not.
SeedsSucceed == \A s \in Seed : []<>(In(s, "succeeded") \/ PrefixTaken)

=============================================================================
