----------------------------- MODULE TokenAuth -----------------------------
(***************************************************************************)
(* Who may do what: registries, repositories, API keys and their scopes as *)
(* tables, the token service that turns a key into a bearer token, and the *)
(* API and the pull worker that let a request through on a token alone.    *)
(*                                                                         *)
(* A token is signed and held by its client: nothing recalls it, and it    *)
(* names the registry, while the tables know it by id.  Queries of one     *)
(* handler are separate steps.  Refused requests are no step.              *)
(***************************************************************************)
EXTENDS Naturals, Sequences, FiniteSets

CONSTANTS
    Tenant,
    Name,          \* registry names
    Path,          \* repository paths of requests, cut at the first slash
    Registry,      \* uuids
    Repository,    \* uuids
    Key,           \* uuids of API keys
    Caller,        \* handlers that may run at a time
    Access,        \* the access lists that clients ask a token for
    TTL,           \* registryTokenTTL
    Leeway,        \* jwt.WithLeeway
    MaxTime,       \* bound: the clock stops here
    MaxTokens,     \* bound: no more tokens are issued
    MaxTargets,    \* bound: scopes asked for one key
    Asked,         \* bound: permissions asked for a key
    NoRow,         \* an id that no row has yet
    AnyRepository  \* repository_id IS NULL

Permission == {"read", "write", "admin"}

\* The sentinels are no ids, and a path has a namespace and perhaps a leaf.
ASSUME TokenAssumption ==
    /\ TTL \in Nat /\ Leeway \in Nat
    /\ Asked \subseteq Permission
    /\ AnyRepository \notin Repository
    /\ \A p \in Path : p \in Seq(STRING \cup Name) /\ Len(p) \in 1 .. 2

VARIABLES
    now,
    registries,    \* by id: tenant and name, live until deleted
    repositories,  \* by id: registry and name, live until deleted
    keys,          \* api_keys: "unused", "live" or "gone"
    scopes,        \* api_key_scopes
    revoked,       \* history: rows that left api_key_scopes, and when
    tokens,        \* tokens that clients hold
    callers        \* the state of each handler

vars == <<now, registries, repositories, keys, scopes, revoked, tokens, callers>>

Action == {"pull", "push"}
Idle == [step |-> "idle"]

registryNamespace(path) == path[1]
repoLeaf(path) == path[Len(path)]

RegistryRow == [tenant: Tenant, name: Name, live: BOOLEAN]
RepositoryRow == [registry: Registry, name: {repoLeaf(p) : p \in Path},
                  live: BOOLEAN]

\* The sentinel is no row.
ASSUME RowAssumption == NoRow \notin RegistryRow /\ NoRow \notin RepositoryRow

Target == [registry: Registry, repository: Repository \cup {AnyRepository},
           permission: Permission]
Scope == [key: Key, registry: Registry,
          repository: Repository \cup {AnyRepository}, permission: Permission]
\* key, registry and asked are history: the signed claims hold the rest.
Token == [namespace: Name, access: SUBSET (Path \X Action), issued: Nat,
          key: Key, registry: Registry, asked: Nat]

\* What a handler holds between two queries.
Handler ==
    {Idle}
    \cup [step: {"resolving"}, tenant: Tenant, targets: SUBSET Target]
    \cup [step: {"asked"}, key: Key, rows: (SUBSET Scope) \ {{}}, asked: Nat,
          access: Access]
    \cup [step: {"named"}, key: Key, rows: (SUBSET Scope) \ {{}}, asked: Nat,
          access: Access, registry: Registry, namespace: Name]
    \cup [step: {"authorized"}, by: {"api", "worker"}, token: Token, path: Path,
          action: Action, at: Nat]
    \cup [step: {"resolved"}, by: {"api", "worker"}, token: Token, path: Path,
          action: Action, at: Nat, registry: Registry]

\* The type invariant.
TypeOK ==
    /\ now \in Nat
    /\ registries \in [Registry -> RegistryRow \cup {NoRow}]
    /\ repositories \in [Repository -> RepositoryRow \cup {NoRow}]
    /\ keys \in [Key -> {"unused", "live", "gone"}]
    /\ scopes \in SUBSET Scope
    /\ revoked \in SUBSET [row: Scope, at: Nat]
    /\ tokens \in SUBSET Token
    /\ callers \in [Caller -> Handler]

Init ==
    /\ now = 0
    /\ registries = [g \in Registry |-> NoRow]
    /\ repositories = [r \in Repository |-> NoRow]
    /\ keys = [k \in Key |-> "unused"]
    /\ scopes = {} /\ revoked = {} /\ tokens = {}
    /\ callers = [c \in Caller |-> Idle]

Become(c, handler) == callers' = [callers EXCEPT ![c] = handler]

-----------------------------------------------------------------------------
(***************************************************************************)
(* Registries, repositories and keys.  The tenant of a management request  *)
(* is the one its own JWT names (authMiddleware), whatever the tables say. *)
(***************************************************************************)
LiveRegistry(g) == registries[g] # NoRow /\ registries[g].live
LiveRepository(r) == repositories[r] # NoRow /\ repositories[r].live

\* GetRegistryByName: the unique index leaves at most one.
RegistryNamed(name) == {g \in Registry : LiveRegistry(g) /\ registries[g].name = name}

\* Mutant: the index is on the tenant and the name.
NameTakenByTenant(t, name) ==
    \E g \in RegistryNamed(name) : registries[g].tenant = t

\* unique_registry_name, over all tenants.
NameTaken(t, name) == RegistryNamed(name) # {}

\* The registry, a key of its creator, and the admin scope: one transaction.
AddRegistryWithKey(t, name, g, k) ==
    /\ ~NameTaken(t, name) /\ registries[g] = NoRow /\ keys[k] = "unused"
    /\ registries' = [registries EXCEPT
                        ![g] = [tenant |-> t, name |-> name, live |-> TRUE]]
    /\ keys' = [keys EXCEPT ![k] = "live"]
    /\ scopes' = scopes \cup {[key |-> k, registry |-> g,
                              repository |-> AnyRepository, permission |-> "admin"]}
    /\ UNCHANGED <<now, repositories, revoked, tokens, callers>>

\* Mutant: ON DELETE SET NULL, as usage_events has it.
DropScopesToNull(dropped) ==
    /\ scopes' = (scopes \ dropped)
                   \cup {[s EXCEPT !.repository = AnyRepository] : s \in dropped}
    /\ UNCHANGED revoked

\* ON DELETE CASCADE into api_key_scopes.
DropScopes(dropped) ==
    /\ scopes' = scopes \ dropped
    /\ revoked' = revoked \cup {[row |-> s, at |-> now] : s \in dropped}

DeleteRegistryByIDAndOrg(g) ==
    /\ LiveRegistry(g)
    /\ registries' = [registries EXCEPT ![g].live = FALSE]
    /\ repositories' = [r \in Repository |->
          IF LiveRepository(r) /\ repositories[r].registry = g
            THEN [repositories[r] EXCEPT !.live = FALSE] ELSE repositories[r]]
    /\ DropScopes({s \in scopes : s.registry = g})
    /\ UNCHANGED <<now, keys, tokens, callers>>

\* Mutant: no ON DELETE.
RepositoryScopesKept(r) == {}

RepositoryScopes(r) == {s \in scopes : s.repository = r}

DeleteRepositoryByIDAndRegistryID(r) ==
    /\ LiveRepository(r)
    /\ repositories' = [repositories EXCEPT ![r].live = FALSE]
    /\ DropScopes(RepositoryScopes(r))
    /\ UNCHANGED <<now, registries, keys, tokens, callers>>

KeyScopes(k) == {s \in scopes : s.key = k}

RemoveAPIKey(k) ==
    /\ keys[k] = "live"
    /\ keys' = [keys EXCEPT ![k] = "gone"]
    /\ DropScopes(KeyScopes(k))
    /\ UNCHANGED <<now, registries, repositories, tokens, callers>>

\* The row of that name, or a new one (INSERT ... ON CONFLICT).
EnsureRegistryRepository(g, name, r) ==
    LET row == [registry |-> g, name |-> name, live |-> TRUE]
    IN  IF \E s \in Repository : repositories[s] = row
          THEN repositories[r] = row /\ UNCHANGED repositories
          ELSE /\ repositories[r] = NoRow
               /\ repositories' = [repositories EXCEPT ![r] = row]

-----------------------------------------------------------------------------
(***************************************************************************)
(* A key with chosen scopes.  Each scope is resolved by itself, and leaves *)
(* the repository it names behind even if the request is refused later.    *)
(***************************************************************************)
AddAPIKey(c, t) ==
    /\ callers[c] = Idle
    /\ Become(c, [step |-> "resolving", tenant |-> t, targets |-> {}])
    /\ UNCHANGED <<now, registries, repositories, keys, scopes, revoked, tokens>>

SameTarget(s, t) == s.registry = t.registry /\ s.repository = t.repository

AddTarget(c, g, r, permission) ==
    LET target == [registry |-> g, repository |-> r, permission |-> permission]
    IN  /\ \A s \in callers[c].targets : ~SameTarget(s, target)
        /\ Become(c, [callers[c] EXCEPT !.targets = @ \cup {target}])

MayScope(c, g) ==
    /\ callers[c].step = "resolving"
    /\ Cardinality(callers[c].targets) < MaxTargets
    /\ LiveRegistry(g) /\ registries[g].tenant = callers[c].tenant

ResolveRegistryScope(c, g, permission) ==
    /\ MayScope(c, g)
    /\ AddTarget(c, g, AnyRepository, permission)
    /\ UNCHANGED <<now, registries, repositories, keys, scopes, revoked, tokens>>

ResolveRepositoryScope(c, g, path, r, permission) ==
    /\ MayScope(c, g)
    /\ registryNamespace(path) = registries[g].name
    /\ EnsureRegistryRepository(g, repoLeaf(path), r)
    /\ AddTarget(c, g, r, permission)
    /\ UNCHANGED <<now, registries, keys, scopes, revoked, tokens>>

\* A foreign key refuses what was deleted since.
InsertAPIKey(c, k) ==
    /\ callers[c].step = "resolving" /\ keys[k] = "unused"
    /\ callers[c].targets # {}
    /\ \A t \in callers[c].targets :
          /\ LiveRegistry(t.registry)
          /\ t.repository # AnyRepository => LiveRepository(t.repository)
    /\ keys' = [keys EXCEPT ![k] = "live"]
    /\ scopes' = scopes \cup
          {[key |-> k, registry |-> t.registry, repository |-> t.repository,
            permission |-> t.permission] : t \in callers[c].targets}
    /\ Become(c, Idle)
    /\ UNCHANGED <<now, registries, repositories, revoked, tokens>>

-----------------------------------------------------------------------------
(***************************************************************************)
(* The token service.                                                      *)
(***************************************************************************)
apiKeyPermissionAllows(permission, action) ==
    \/ action = "pull" /\ permission \in {"read", "write", "admin"}
    \/ action = "push" /\ permission \in {"write", "admin"}

\* A repository keeps its name: the row read with the scope says the same later.
ScopeCovers(s, path, action) ==
    /\ s.repository = AnyRepository \/ repositories[s.repository].name = repoLeaf(path)
    /\ apiKeyPermissionAllows(s.permission, action)

expandRequestedRegistryAction(action) ==
    IF action = "*" THEN Action ELSE {action} \cap Action

\* In the key's registry, and asked for.
Requested(namespace, access, grant) ==
    /\ registryNamespace(grant[1]) = namespace
    /\ \E asked \in access :
          /\ asked[1] = grant[1]
          /\ grant[2] \in expandRequestedRegistryAction(asked[2])

\* Mutant: the repository of a scope is not looked at.
grantWholeRegistry(g, namespace, rows, access) ==
    {grant \in Path \X Action :
        /\ Requested(namespace, access, grant)
        /\ \E s \in rows :
              s.registry = g /\ apiKeyPermissionAllows(s.permission, grant[2])}

grantRegistryTokenScopes(g, namespace, rows, access) ==
    {grant \in Path \X Action :
        /\ Requested(namespace, access, grant)
        /\ \E s \in rows : s.registry = g /\ ScopeCovers(s, grant[1], grant[2])}

\* Mutant: a key without scopes goes on.
authenticateUnscopedKey(c, k, access) ==
    /\ callers[c] = Idle /\ keys[k] = "live"
    /\ Become(c, [step |-> "asked", key |-> k, rows |-> KeyScopes(k),
                  asked |-> now, access |-> access])
    /\ UNCHANGED <<now, registries, repositories, keys, scopes, revoked, tokens>>

\* The key by its prefix, and its scopes; a key with none is no key.
authenticateRegistryBasic(c, k, access) ==
    /\ callers[c] = Idle /\ keys[k] = "live" /\ KeyScopes(k) # {}
    /\ Become(c, [step |-> "asked", key |-> k, rows |-> KeyScopes(k),
                  asked |-> now, access |-> access])
    /\ UNCHANGED <<now, registries, repositories, keys, scopes, revoked, tokens>>

\* The first scope by created_at decides; those of one insert are all equal.
NameRegistry(c, s) ==
    /\ callers[c].step = "asked" /\ s \in callers[c].rows
    /\ LiveRegistry(s.registry)
    /\ Become(c, [step |-> "named", key |-> callers[c].key, rows |-> callers[c].rows,
                  asked |-> callers[c].asked, access |-> callers[c].access,
                  registry |-> s.registry, namespace |-> registries[s.registry].name])
    /\ UNCHANGED <<now, registries, repositories, keys, scopes, revoked, tokens>>

issueRegistryToken(c) ==
    LET h == callers[c]
    IN  /\ h.step = "named" /\ Cardinality(tokens) < MaxTokens
        /\ tokens' = tokens \cup
              {[namespace |-> h.namespace, issued |-> now,
                access |-> grantRegistryTokenScopes(h.registry, h.namespace,
                                                    h.rows, h.access),
                key |-> h.key, registry |-> h.registry, asked |-> h.asked]}
        /\ Become(c, Idle)
        /\ UNCHANGED <<now, registries, repositories, keys, scopes, revoked>>

-----------------------------------------------------------------------------
(***************************************************************************)
(* Requests on a token.                                                    *)
(***************************************************************************)
\* The signature, the audience and the issuer are right; not-before is past.
verifyRegistryToken(token) == now < token.issued + TTL + Leeway

registryTokenAllows(token, path, action) ==
    \E granted \in token.access : granted[1] = path /\ granted[2] \in {action, "*"}

ensureRepoAuthorized(token, path) == registryNamespace(path) = token.namespace

LetThrough(c, by, token, path, action) ==
    /\ callers[c] = Idle /\ token \in tokens
    /\ verifyRegistryToken(token)
    /\ registryTokenAllows(token, path, action)
    /\ ensureRepoAuthorized(token, path)
    /\ Become(c, [step |-> "authorized", by |-> by, token |-> token, path |-> path,
                  action |-> action, at |-> now])
    /\ UNCHANGED <<now, registries, repositories, keys, scopes, revoked, tokens>>

\* The API: the action is that of requiredRegistryScope.
RegistryBearerAuth(c, token, path, action) == LetThrough(c, "api", token, path, action)

\* The worker serves pulls only, from R2; the API hears of it afterwards.
HandleBlob(c, token, path) == LetThrough(c, "worker", token, path, "pull")

\* The registry is found again by name: by the API for the request's repository,
\* by the usage endpoint for the namespace that the worker posts.
resolveRegistryIDForRepo(c) ==
    LET h == callers[c]
    IN  /\ h.step = "authorized"
        /\ \E g \in RegistryNamed(registryNamespace(h.path)) :
              Become(c, [step |-> "resolved", by |-> h.by, token |-> h.token,
                         path |-> h.path, action |-> h.action, at |-> h.at,
                         registry |-> g])
        /\ UNCHANGED <<now, registries, repositories, keys, scopes, revoked, tokens>>

\* A manifest push ends in UpsertManifest, which makes the repository.
PutManifest(c, r) ==
    /\ callers[c].step = "resolved"
    /\ callers[c].by = "api" /\ callers[c].action = "push"
    /\ LiveRegistry(callers[c].registry)
    /\ EnsureRegistryRepository(callers[c].registry, repoLeaf(callers[c].path), r)
    /\ Become(c, Idle)
    /\ UNCHANGED <<now, registries, keys, scopes, revoked, tokens>>

\* Any handler may end early: done, refused by a later check, or failed.
EndRequest(c) ==
    /\ callers[c] # Idle
    /\ Become(c, Idle)
    /\ UNCHANGED <<now, registries, repositories, keys, scopes, revoked, tokens>>

Tick ==
    /\ now < MaxTime
    /\ now' = now + 1
    /\ UNCHANGED <<registries, repositories, keys, scopes, revoked, tokens, callers>>

Next ==
    \/ Tick
    \/ \E t \in Tenant, name \in Name, g \in Registry, k \in Key :
          AddRegistryWithKey(t, name, g, k)
    \/ \E g \in Registry : DeleteRegistryByIDAndOrg(g)
    \/ \E r \in Repository : DeleteRepositoryByIDAndRegistryID(r)
    \/ \E k \in Key : RemoveAPIKey(k)
    \/ \E c \in Caller :
          \/ \E t \in Tenant : AddAPIKey(c, t)
          \/ \E g \in Registry, permission \in Asked :
                \/ ResolveRegistryScope(c, g, permission)
                \/ \E path \in Path, r \in Repository :
                      ResolveRepositoryScope(c, g, path, r, permission)
          \/ \E k \in Key : InsertAPIKey(c, k)
          \/ \E k \in Key, access \in Access : authenticateRegistryBasic(c, k, access)
          \/ \E s \in Scope : NameRegistry(c, s)
          \/ issueRegistryToken(c)
          \/ \E token \in tokens, path \in Path :
                \/ \E action \in Action : RegistryBearerAuth(c, token, path, action)
                \/ HandleBlob(c, token, path)
          \/ resolveRegistryIDForRepo(c)
          \/ \E r \in Repository : PutManifest(c, r)
          \/ EndRequest(c)

Spec == Init /\ [][Next]_vars

-----------------------------------------------------------------------------
\* A row that was in api_key_scopes at the time, or some time after it.
HeldSince(s, time) ==
    s \in scopes \/ \E end \in revoked : end.row = s /\ end.at >= time

\* A scope that the token's key held when the token was asked for.
Backed(token, path, action) ==
    \E s \in Scope :
        /\ HeldSince(s, token.asked)
        /\ s.key = token.key /\ s.registry = token.registry
        /\ ScopeCovers(s, path, action)

Working(c) == callers[c].step \in {"authorized", "resolved"}

(***************************************************************************)
(* Whatever happened to keys, scopes, repositories and registries since, a *)
(* request let through by the API or by the worker was let through within  *)
(* TTL and leeway of the token's issue, and the token rests on a scope     *)
(* that the tables still held when the token was asked for: a revoked key  *)
(* works for as long as its last token, and no longer.                     *)
(***************************************************************************)
GrantsAreRecent ==
    \A c \in Caller : Working(c) =>
        LET h == callers[c]
        IN  /\ h.at < h.token.issued + TTL + Leeway
            /\ Backed(h.token, h.path, h.action)

(***************************************************************************)
(* Tokens and usage posts name a registry, and the handler looks the name  *)
(* up again.  As long as the registry that the key was scoped to is there, *)
(* that is the one found: only a deleted registry's name can lead a token  *)
(* to another.                                                             *)
(***************************************************************************)
ActsOnScopedRegistry ==
    \A c \in Caller :
        callers[c].step = "resolved" =>
            LET h == callers[c]
            IN  /\ registries[h.registry].name = registryNamespace(h.path)
                /\ LiveRegistry(h.token.registry) => h.registry = h.token.registry

(***************************************************************************)
(* The rows of api_key_scopes belong to a live key, a live registry, and a *)
(* live repository of that registry, with one row a target: no order of    *)
(* creating keys and deleting what they name leaves one dangling.          *)
(***************************************************************************)
ScopesConsistent ==
    \A s \in scopes :
        /\ keys[s.key] = "live" /\ LiveRegistry(s.registry)
        /\ s.repository # AnyRepository =>
              /\ LiveRepository(s.repository)
              /\ repositories[s.repository].registry = s.registry
        /\ \A t \in scopes : s.key = t.key /\ SameTarget(s, t) => s = t

\* What a key may do now: in which registry, on which path, which action.
Covered(k) ==
    {may \in Registry \X Path \X Action :
        /\ LiveRegistry(may[1]) /\ registryNamespace(may[2]) = registries[may[1]].name
        /\ \E s \in KeyScopes(k) : s.registry = may[1] /\ ScopeCovers(s, may[2], may[3])}

(***************************************************************************)
(* A key never comes to cover more than before: not when a repository it   *)
(* is scoped to is deleted (the scope goes with it, it does not become one *)
(* for the whole registry), nor when a repository or a registry of the     *)
(* same name is made again.                                                *)
(***************************************************************************)
KeysNeverWiden ==
    [][\A k \in Key : keys[k] # "unused" => Covered(k)' \subseteq Covered(k)]_vars

(***************************************************************************)
(* registryv2_auth.go:123 "Keys are currently scoped to exactly one        *)
(* registry, so the first scope's registry is authoritative."              *)
(***************************************************************************)
KeysHaveOneRegistry ==
    \A s, t \in scopes : s.key = t.key => s.registry = t.registry
=============================================================================
