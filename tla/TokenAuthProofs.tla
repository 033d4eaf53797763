-------------------------- MODULE TokenAuthProofs --------------------------
(***************************************************************************)
(* Proofs about TokenAuth, for any tenants, registries, repositories, keys *)
(* and handlers, any access lists, and any length of time.                 *)
(***************************************************************************)
EXTENDS TokenAuth, TLAPS

-----------------------------------------------------------------------------
(* What a handler holds, by its step *)

LEMMA HandlerSteps ==
    ASSUME NEW h \in Handler
    PROVE  /\ h.step = "resolving" => h \in [step: {"resolving"}, tenant: Tenant,
                                             targets: SUBSET Target]
           /\ h.step = "asked" =>
                h \in [step: {"asked"}, key: Key, rows: (SUBSET Scope) \ {{}},
                       asked: Nat, access: Access]
           /\ h.step = "named" =>
                h \in [step: {"named"}, key: Key, rows: (SUBSET Scope) \ {{}},
                       asked: Nat, access: Access, registry: Registry,
                       namespace: Name]
           /\ h.step = "authorized" =>
                h \in [step: {"authorized"}, by: {"api", "worker"}, token: Token,
                       path: Path, action: Action, at: Nat]
           /\ h.step = "resolved" =>
                h \in [step: {"resolved"}, by: {"api", "worker"}, token: Token,
                       path: Path, action: Action, at: Nat, registry: Registry]
  BY DEF Handler, Idle

\* A handler that becomes something of its type leaves the others as they are.
LEMMA BecomeType ==
    ASSUME callers \in [Caller -> Handler], NEW c \in Caller, NEW h \in Handler,
           Become(c, h)
    PROVE  callers' \in [Caller -> Handler]
  BY DEF Become

\* A handler may be idle.
LEMMA IdleType == Idle \in Handler
  BY DEF Handler

\* A handler with one more target is of its type.
LEMMA AddTargetType ==
    ASSUME callers \in [Caller -> Handler], NEW c \in Caller, NEW g, NEW r, NEW permission,
           [registry |-> g, repository |-> r, permission |-> permission] \in Target,
           MayScope(c, g), AddTarget(c, g, r, permission)
    PROVE  callers' \in [Caller -> Handler]
<1> DEFINE target == [registry |-> g, repository |-> r, permission |-> permission]
<1>1. callers[c] \in [step: {"resolving"}, tenant: Tenant, targets: SUBSET Target]
  BY HandlerSteps DEF MayScope
<1>2. [callers[c] EXCEPT !.targets = @ \cup {target}]
         \in [step: {"resolving"}, tenant: Tenant, targets: SUBSET Target]
  BY <1>1
<1>3. [callers[c] EXCEPT !.targets = @ \cup {target}] \in Handler
  BY <1>2 DEF Handler
<1>4. QED
  BY <1>3, BecomeType DEF AddTarget

\* Ensuring a repository keeps the type of the table.
LEMMA EnsureType ==
    ASSUME repositories \in [Repository -> RepositoryRow \cup {NoRow}],
           NEW g \in Registry, NEW p \in Path, NEW r \in Repository,
           EnsureRegistryRepository(g, repoLeaf(p), r)
    PROVE  repositories' \in [Repository -> RepositoryRow \cup {NoRow}]
<1> DEFINE row == [registry |-> g, name |-> repoLeaf(p), live |-> TRUE]
<1>1. row \in RepositoryRow
  BY DEF RepositoryRow
<1>2. \/ UNCHANGED repositories
      \/ repositories' = [repositories EXCEPT ![r] = row]
  BY DEF EnsureRegistryRepository
<1>3. QED
  BY <1>1, <1>2

-----------------------------------------------------------------------------
(* Type correctness *)

\* Every step keeps every part of the state in its type.
LEMMA TypeStep ==
    ASSUME TypeOK, [Next]_vars
    PROVE  TypeOK'
<1> USE DEF TypeOK
<1>1. ASSUME Tick PROVE TypeOK'
  BY <1>1 DEF Tick
<1>2. ASSUME NEW t \in Tenant, NEW name \in Name, NEW g \in Registry, NEW k \in Key,
             AddRegistryWithKey(t, name, g, k)
      PROVE TypeOK'
  BY <1>2 DEF AddRegistryWithKey, RegistryRow, Scope, Permission
<1>3. ASSUME NEW g \in Registry, DeleteRegistryByIDAndOrg(g) PROVE TypeOK'
  <2>1. registries' \in [Registry -> RegistryRow \cup {NoRow}]
    BY <1>3 DEF DeleteRegistryByIDAndOrg, LiveRegistry, RegistryRow
  <2>2. repositories' \in [Repository -> RepositoryRow \cup {NoRow}]
    BY <1>3 DEF DeleteRegistryByIDAndOrg, LiveRepository, RepositoryRow
  <2>3. QED
    BY <1>3, <2>1, <2>2 DEF DeleteRegistryByIDAndOrg, DropScopes
<1>4. ASSUME NEW r \in Repository, DeleteRepositoryByIDAndRegistryID(r) PROVE TypeOK'
  <2>1. repositories' \in [Repository -> RepositoryRow \cup {NoRow}]
    BY <1>4 DEF DeleteRepositoryByIDAndRegistryID, LiveRepository, RepositoryRow
  <2>2. QED
    BY <1>4, <2>1 DEF DeleteRepositoryByIDAndRegistryID, DropScopes, RepositoryScopes
<1>5. ASSUME NEW k \in Key, RemoveAPIKey(k) PROVE TypeOK'
  BY <1>5 DEF RemoveAPIKey, DropScopes, KeyScopes
<1>6. ASSUME NEW c \in Caller, NEW t \in Tenant, AddAPIKey(c, t) PROVE TypeOK'
  <2>1. [step |-> "resolving", tenant |-> t, targets |-> {}] \in Handler
    BY DEF Handler
  <2>2. QED
    BY <1>6, <2>1, BecomeType DEF AddAPIKey
<1>7. ASSUME NEW c \in Caller, NEW g \in Registry, NEW permission \in Asked,
             ResolveRegistryScope(c, g, permission)
      PROVE TypeOK'
  <2>1. [registry |-> g, repository |-> AnyRepository,
         permission |-> permission] \in Target
    BY TokenAssumption DEF Target
  <2>2. callers' \in [Caller -> Handler]
    BY <1>7, <2>1, AddTargetType DEF ResolveRegistryScope
  <2>3. QED
    BY <1>7, <2>2 DEF ResolveRegistryScope
<1>8. ASSUME NEW c \in Caller, NEW g \in Registry, NEW permission \in Asked,
             NEW path \in Path, NEW r \in Repository,
             ResolveRepositoryScope(c, g, path, r, permission)
      PROVE TypeOK'
  <2>1. [registry |-> g, repository |-> r, permission |-> permission] \in Target
    BY TokenAssumption DEF Target
  <2>2. callers' \in [Caller -> Handler]
    BY <1>8, <2>1, AddTargetType DEF ResolveRepositoryScope
  <2>3. repositories' \in [Repository -> RepositoryRow \cup {NoRow}]
    BY <1>8, EnsureType DEF ResolveRepositoryScope
  <2>4. QED
    BY <1>8, <2>2, <2>3 DEF ResolveRepositoryScope
<1>9. ASSUME NEW c \in Caller, NEW k \in Key, InsertAPIKey(c, k) PROVE TypeOK'
  <2>1. callers[c].targets \subseteq Target
    BY <1>9, HandlerSteps DEF InsertAPIKey
  <2>2. scopes' \in SUBSET Scope
    BY <1>9, <2>1 DEF InsertAPIKey, Target, Scope
  <2>3. QED
    BY <1>9, <2>2, IdleType, BecomeType DEF InsertAPIKey
<1>10. ASSUME NEW c \in Caller, NEW k \in Key, NEW access \in Access,
              authenticateRegistryBasic(c, k, access)
       PROVE TypeOK'
  <2>1. [step |-> "asked", key |-> k, rows |-> KeyScopes(k), asked |-> now,
         access |-> access] \in Handler
    BY <1>10 DEF authenticateRegistryBasic, Handler, KeyScopes
  <2>2. QED
    BY <1>10, <2>1, BecomeType DEF authenticateRegistryBasic
<1>11. ASSUME NEW c \in Caller, NEW s \in Scope, NameRegistry(c, s) PROVE TypeOK'
  <2>1. [step |-> "named", key |-> callers[c].key, rows |-> callers[c].rows,
         asked |-> callers[c].asked, access |-> callers[c].access,
         registry |-> s.registry, namespace |-> registries[s.registry].name]
           \in Handler
    BY <1>11, HandlerSteps DEF NameRegistry, LiveRegistry, Handler, Scope, RegistryRow
  <2>2. QED
    BY <1>11, <2>1, BecomeType DEF NameRegistry
<1>12. ASSUME NEW c \in Caller, issueRegistryToken(c) PROVE TypeOK'
  <2> DEFINE h == callers[c]
             token == [namespace |-> h.namespace, issued |-> now,
                       access |-> grantRegistryTokenScopes(h.registry, h.namespace,
                                                           h.rows, h.access),
                       key |-> h.key, registry |-> h.registry, asked |-> h.asked]
  <2>1. grantRegistryTokenScopes(h.registry, h.namespace, h.rows, h.access)
           \in SUBSET (Path \X Action)
    BY DEF grantRegistryTokenScopes
  <2>2. token \in Token
    BY <1>12, <2>1, HandlerSteps DEF issueRegistryToken, Token
  <2>3. QED
    BY <1>12, <2>2, IdleType, BecomeType DEF issueRegistryToken
<1>13. ASSUME NEW c \in Caller, NEW by \in {"api", "worker"}, NEW token \in tokens,
              NEW path \in Path, NEW action \in Action,
              LetThrough(c, by, token, path, action)
       PROVE TypeOK'
  <2>1. [step |-> "authorized", by |-> by, token |-> token, path |-> path,
         action |-> action, at |-> now] \in Handler
    BY DEF Handler
  <2>2. QED
    BY <1>13, <2>1, BecomeType DEF LetThrough
<1>14. ASSUME NEW c \in Caller, resolveRegistryIDForRepo(c) PROVE TypeOK'
  <2>1. PICK g \in Registry :
           Become(c, [step |-> "resolved", by |-> callers[c].by,
                      token |-> callers[c].token, path |-> callers[c].path,
                      action |-> callers[c].action, at |-> callers[c].at,
                      registry |-> g])
    BY <1>14 DEF resolveRegistryIDForRepo, RegistryNamed
  <2>2. [step |-> "resolved", by |-> callers[c].by, token |-> callers[c].token,
         path |-> callers[c].path, action |-> callers[c].action,
         at |-> callers[c].at, registry |-> g] \in Handler
    BY <1>14, HandlerSteps DEF resolveRegistryIDForRepo, Handler
  <2>3. QED
    BY <1>14, <2>1, <2>2, BecomeType DEF resolveRegistryIDForRepo
<1>15. ASSUME NEW c \in Caller, NEW r \in Repository, PutManifest(c, r) PROVE TypeOK'
  BY <1>15, HandlerSteps, IdleType, BecomeType, EnsureType DEF PutManifest
<1>16. ASSUME NEW c \in Caller, EndRequest(c) PROVE TypeOK'
  BY <1>16, IdleType, BecomeType DEF EndRequest
<1>17. ASSUME UNCHANGED vars PROVE TypeOK'
  BY <1>17 DEF vars
<1>18. QED
  BY <1>1, <1>2, <1>3, <1>4, <1>5, <1>6, <1>7, <1>8, <1>9, <1>10, <1>11, <1>12,
     <1>13, <1>14, <1>15, <1>16, <1>17
  DEF Next, RegistryBearerAuth, HandleBlob, Action

\* Tables, tokens and handlers keep to their types under every handler step.
THEOREM TypeCorrect == Spec => []TypeOK
<1>1. Init => TypeOK
  BY IdleType DEF Init, TypeOK
<1>2. TypeOK /\ [Next]_vars => TypeOK'
  BY TypeStep
<1>3. QED
  BY <1>1, <1>2, PTL DEF Spec

-----------------------------------------------------------------------------
(* What no step undoes *)

\* A row once there keeps all but its life, and does not come back to life.
RowKept(row, new) ==
    row # NoRow => /\ new # NoRow
                   /\ new.name = row.name
                   /\ new.live => row.live

RegistriesKept == \A g \in Registry : RowKept(registries[g], registries'[g])

RepositoriesKept ==
    \A r \in Repository :
        /\ RowKept(repositories[r], repositories'[r])
        /\ repositories[r] # NoRow =>
              repositories'[r].registry = repositories[r].registry

\* What leaves api_key_scopes leaves a trace.
ScopesTraced ==
    /\ revoked \subseteq revoked'
    /\ \A s \in scopes : s \in scopes' \/ [row |-> s, at |-> now] \in revoked'

\* Ensuring a repository keeps the rows that are there.
LEMMA EnsureKeeps ==
    ASSUME TypeOK, NEW g \in Registry, NEW p \in Path, NEW r \in Repository,
           EnsureRegistryRepository(g, repoLeaf(p), r)
    PROVE  RepositoriesKept
<1> DEFINE row == [registry |-> g, name |-> repoLeaf(p), live |-> TRUE]
<1>1. \/ UNCHANGED repositories
      \/ repositories[r] = NoRow /\ repositories' = [repositories EXCEPT ![r] = row]
  BY DEF EnsureRegistryRepository
<1>2. QED
  BY <1>1 DEF TypeOK, RepositoriesKept, RowKept

\* Rows keep their names, dead ones stay dead, tokens and traces stay, time goes on.
LEMMA StepKeeps ==
    ASSUME TypeOK, [Next]_vars
    PROVE  /\ RegistriesKept /\ RepositoriesKept /\ ScopesTraced
           /\ tokens \subseteq tokens' /\ now' >= now
<1> USE DEF TypeOK
<1> DEFINE Tables == <<now, registries, repositories, scopes, revoked>>
           Goal == /\ RegistriesKept /\ RepositoriesKept /\ ScopesTraced
                   /\ tokens \subseteq tokens' /\ now' >= now
<1>1. UNCHANGED Tables /\ tokens \subseteq tokens' => Goal
  BY DEF RegistriesKept, RepositoriesKept, RowKept, ScopesTraced
<1>2. ASSUME NEW t \in Tenant, NEW name \in Name, NEW g \in Registry, NEW k \in Key,
             AddRegistryWithKey(t, name, g, k)
      PROVE Goal
  BY <1>2 DEF AddRegistryWithKey, RegistriesKept, RepositoriesKept, RowKept, ScopesTraced
<1>3. ASSUME NEW g \in Registry, DeleteRegistryByIDAndOrg(g) PROVE Goal
  <2>1. RegistriesKept
    BY <1>3, RowAssumption
    DEF DeleteRegistryByIDAndOrg, LiveRegistry, RegistriesKept, RowKept, RegistryRow
  <2>2. RepositoriesKept
    BY <1>3, RowAssumption
    DEF DeleteRegistryByIDAndOrg, LiveRepository, RepositoriesKept, RowKept, RepositoryRow
  <2>3. ScopesTraced
    BY <1>3 DEF DeleteRegistryByIDAndOrg, DropScopes, ScopesTraced
  <2>4. QED
    BY <1>3, <2>1, <2>2, <2>3 DEF DeleteRegistryByIDAndOrg
<1>4. ASSUME NEW r \in Repository, DeleteRepositoryByIDAndRegistryID(r) PROVE Goal
  <2>1. RepositoriesKept
    BY <1>4, RowAssumption
    DEF DeleteRepositoryByIDAndRegistryID, LiveRepository, RepositoriesKept, RowKept,
        RepositoryRow
  <2>2. ScopesTraced
    BY <1>4 DEF DeleteRepositoryByIDAndRegistryID, DropScopes, ScopesTraced
  <2>3. QED
    BY <1>4, <2>1, <2>2
    DEF DeleteRepositoryByIDAndRegistryID, RegistriesKept, RowKept
<1>5. ASSUME NEW k \in Key, RemoveAPIKey(k) PROVE Goal
  BY <1>5 DEF RemoveAPIKey, DropScopes, RegistriesKept, RepositoriesKept, RowKept,
              ScopesTraced
<1>6. ASSUME NEW c \in Caller, NEW g \in Registry, NEW permission \in Asked,
             NEW path \in Path, NEW r \in Repository,
             ResolveRepositoryScope(c, g, path, r, permission)
      PROVE Goal
  BY <1>6, EnsureKeeps
  DEF ResolveRepositoryScope, RegistriesKept, RowKept, ScopesTraced
<1>7. ASSUME NEW c \in Caller, NEW k \in Key, InsertAPIKey(c, k) PROVE Goal
  BY <1>7 DEF InsertAPIKey, RegistriesKept, RepositoriesKept, RowKept, ScopesTraced
<1>8. ASSUME NEW c \in Caller, NEW r \in Repository, PutManifest(c, r) PROVE Goal
  <2>1. callers[c].registry \in Registry /\ callers[c].path \in Path
    BY <1>8, HandlerSteps DEF PutManifest
  <2>2. QED
    BY <1>8, <2>1, EnsureKeeps DEF PutManifest, RegistriesKept, RowKept, ScopesTraced
<1>9. ASSUME Tick PROVE Goal
  BY <1>9 DEF Tick, RegistriesKept, RepositoriesKept, RowKept, ScopesTraced
<1>10. ASSUME NEW c \in Caller, issueRegistryToken(c) PROVE Goal
  BY <1>10, <1>1 DEF issueRegistryToken
<1>11. ASSUME NEW c \in Caller,
              \/ \E t \in Tenant : AddAPIKey(c, t)
              \/ \E g \in Registry, permission \in Asked :
                    ResolveRegistryScope(c, g, permission)
              \/ \E k \in Key, access \in Access : authenticateRegistryBasic(c, k, access)
              \/ \E s \in Scope : NameRegistry(c, s)
              \/ \E by \in {"api", "worker"}, token \in tokens, path \in Path,
                    action \in Action : LetThrough(c, by, token, path, action)
              \/ resolveRegistryIDForRepo(c)
              \/ EndRequest(c)
       PROVE Goal
  BY <1>11, <1>1
  DEF AddAPIKey, ResolveRegistryScope, authenticateRegistryBasic, NameRegistry,
      LetThrough, resolveRegistryIDForRepo, EndRequest
<1>12. ASSUME UNCHANGED vars PROVE Goal
  BY <1>12, <1>1 DEF vars
<1>13. QED
  BY <1>2, <1>3, <1>4, <1>5, <1>6, <1>7, <1>8, <1>9, <1>10, <1>11, <1>12
  DEF Next, RegistryBearerAuth, HandleBlob, Action

\* What was held at a past time or later still is.
LEMMA HeldStays ==
    ASSUME ScopesTraced, NEW s, NEW time \in Nat, now \in Nat, time <= now,
           HeldSince(s, time)
    PROVE  HeldSince(s, time)'
  BY DEF ScopesTraced, HeldSince

-----------------------------------------------------------------------------
(* Grants are recent *)

\* Rows of api_key_scopes, now or once, name repositories that have a row.
RepositoriesKnown ==
    \A s \in Scope :
        HeldSince(s, 0) /\ s.repository # AnyRepository =>
            repositories[s.repository] # NoRow

\* What the token service has read was there when it was asked.
RowsWereHeld ==
    \A c \in Caller :
        callers[c].step \in {"asked", "named"} =>
            /\ callers[c].asked <= now
            /\ \A s \in callers[c].rows :
                  s.key = callers[c].key /\ HeldSince(s, callers[c].asked)

TokensBacked ==
    \A token \in tokens :
        /\ token.asked <= now
        /\ \A grant \in token.access : Backed(token, grant[1], grant[2])

RequestsBacked ==
    \A c \in Caller :
        Working(c) =>
            LET h == callers[c]
            IN  /\ h.token \in tokens
                /\ h.at < h.token.issued + TTL + Leeway
                /\ Backed(h.token, h.path, h.action)

\* The inductive invariant, with TypeOK.
GrantInv == RepositoriesKnown /\ RowsWereHeld /\ TokensBacked /\ RequestsBacked

\* Where rows of api_key_scopes come from, and where its traces do.
LEMMA NewRows ==
    ASSUME TypeOK, [Next]_vars
    PROVE  /\ \A s \in scopes' : \/ s \in scopes
                                 \/ s.repository = AnyRepository
                                 \/ repositories[s.repository] # NoRow
           /\ \A end \in revoked' : end \in revoked \/ end.row \in scopes
<1> USE DEF TypeOK
<1> DEFINE Goal == /\ \A s \in scopes' : \/ s \in scopes
                                         \/ s.repository = AnyRepository
                                         \/ repositories[s.repository] # NoRow
                   /\ \A end \in revoked' : end \in revoked \/ end.row \in scopes
<1>1. UNCHANGED <<scopes, revoked>> => Goal
  OBVIOUS
<1>2. ASSUME NEW t \in Tenant, NEW name \in Name, NEW g \in Registry, NEW k \in Key,
             AddRegistryWithKey(t, name, g, k)
      PROVE Goal
  BY <1>2 DEF AddRegistryWithKey
<1>3. ASSUME NEW g \in Registry, DeleteRegistryByIDAndOrg(g) PROVE Goal
  BY <1>3 DEF DeleteRegistryByIDAndOrg, DropScopes
<1>4. ASSUME NEW r \in Repository, DeleteRepositoryByIDAndRegistryID(r) PROVE Goal
  BY <1>4 DEF DeleteRepositoryByIDAndRegistryID, DropScopes, RepositoryScopes
<1>5. ASSUME NEW k \in Key, RemoveAPIKey(k) PROVE Goal
  BY <1>5 DEF RemoveAPIKey, DropScopes, KeyScopes
<1>6. ASSUME NEW c \in Caller, NEW k \in Key, InsertAPIKey(c, k) PROVE Goal
  BY <1>6 DEF InsertAPIKey, LiveRepository
<1>7. ASSUME UNCHANGED vars PROVE Goal
  BY <1>7 DEF vars
<1>8. ASSUME NEW c \in Caller,
             \/ \E t \in Tenant : AddAPIKey(c, t)
             \/ \E g \in Registry, permission \in Asked :
                   ResolveRegistryScope(c, g, permission)
             \/ \E g \in Registry, permission \in Asked, path \in Path,
                   r \in Repository : ResolveRepositoryScope(c, g, path, r, permission)
             \/ \E k \in Key, access \in Access : authenticateRegistryBasic(c, k, access)
             \/ \E s \in Scope : NameRegistry(c, s)
             \/ issueRegistryToken(c)
             \/ \E by \in {"api", "worker"}, token \in tokens, path \in Path,
                   action \in Action : LetThrough(c, by, token, path, action)
             \/ resolveRegistryIDForRepo(c)
             \/ \E r \in Repository : PutManifest(c, r)
             \/ EndRequest(c)
      PROVE Goal
  BY <1>8, <1>1
  DEF AddAPIKey, ResolveRegistryScope, ResolveRepositoryScope, authenticateRegistryBasic,
      NameRegistry, issueRegistryToken, LetThrough, resolveRegistryIDForRepo, PutManifest,
      EndRequest
<1>9. Tick => Goal
  BY <1>1 DEF Tick
<1>10. QED
  BY <1>2, <1>3, <1>4, <1>5, <1>6, <1>7, <1>8, <1>9
  DEF Next, RegistryBearerAuth, HandleBlob, Action

\* Rows of repositories do not go away.
LEMMA KnownStays ==
    ASSUME TypeOK, [Next]_vars, RepositoriesKnown
    PROVE  RepositoriesKnown'
<1> SUFFICES ASSUME NEW s \in Scope, HeldSince(s, 0)', s.repository # AnyRepository
             PROVE  repositories'[s.repository] # NoRow
  BY DEF RepositoriesKnown
<1>1. HeldSince(s, 0) \/ repositories[s.repository] # NoRow
  BY NewRows DEF HeldSince, TypeOK
<1>2. repositories[s.repository] # NoRow
  BY <1>1 DEF RepositoriesKnown
<1>3. s.repository \in Repository
  BY DEF Scope
<1>4. QED
  BY <1>2, <1>3, StepKeeps DEF RepositoriesKept, RowKept

\* A scope once held covers later what it covered: names do not change.
LEMMA CoverStays ==
    ASSUME TypeOK, [Next]_vars, RepositoriesKnown, NEW s \in Scope, NEW time \in Nat,
           HeldSince(s, time), NEW path, NEW action, ScopeCovers(s, path, action)
    PROVE  ScopeCovers(s, path, action)'
<1>1. HeldSince(s, 0)
  BY DEF HeldSince, TypeOK
<1>2. s.repository \in Repository \cup {AnyRepository}
  BY DEF Scope
<1>3. s.repository # AnyRepository =>
         repositories'[s.repository].name = repositories[s.repository].name
  BY <1>1, <1>2, StepKeeps DEF RepositoriesKnown, RepositoriesKept, RowKept
<1>4. QED
  BY <1>3 DEF ScopeCovers

\* What a token rests on stays, whatever the step.
LEMMA BackedStays ==
    ASSUME TypeOK, [Next]_vars, RepositoriesKnown, NEW token \in Token,
           token.asked <= now, NEW path, NEW action, Backed(token, path, action)
    PROVE  Backed(token, path, action)'
<1>1. PICK s \in Scope :
         /\ HeldSince(s, token.asked)
         /\ s.key = token.key /\ s.registry = token.registry
         /\ ScopeCovers(s, path, action)
  BY DEF Backed
<1>2. token.asked \in Nat /\ now \in Nat
  BY DEF Token, TypeOK
<1>3. HeldSince(s, token.asked)'
  BY <1>1, <1>2, StepKeeps, HeldStays
<1>4. ScopeCovers(s, path, action)'
  BY <1>1, <1>2, CoverStays
<1>5. QED
  BY <1>1, <1>3, <1>4 DEF Backed

\* Tokens come from the token service alone.
LEMMA NewTokens ==
    ASSUME TypeOK, [Next]_vars
    PROVE  UNCHANGED tokens \/ \E c \in Caller : issueRegistryToken(c)
<1>1. ASSUME NEW c \in Caller,
             \/ \E t \in Tenant : AddAPIKey(c, t)
             \/ \E g \in Registry, permission \in Asked :
                   \/ ResolveRegistryScope(c, g, permission)
                   \/ \E path \in Path, r \in Repository :
                         ResolveRepositoryScope(c, g, path, r, permission)
             \/ \E k \in Key : InsertAPIKey(c, k)
             \/ \E k \in Key, access \in Access : authenticateRegistryBasic(c, k, access)
             \/ \E s \in Scope : NameRegistry(c, s)
             \/ \E by \in {"api", "worker"}, token \in tokens, path \in Path,
                   action \in Action : LetThrough(c, by, token, path, action)
             \/ resolveRegistryIDForRepo(c)
             \/ \E r \in Repository : PutManifest(c, r)
             \/ EndRequest(c)
      PROVE UNCHANGED tokens
  BY <1>1
  DEF AddAPIKey, ResolveRegistryScope, ResolveRepositoryScope, InsertAPIKey,
      authenticateRegistryBasic, NameRegistry, LetThrough, resolveRegistryIDForRepo,
      PutManifest, EndRequest
<1>2. ASSUME \/ Tick
             \/ \E t \in Tenant, name \in Name, g \in Registry, k \in Key :
                   AddRegistryWithKey(t, name, g, k)
             \/ \E g \in Registry : DeleteRegistryByIDAndOrg(g)
             \/ \E r \in Repository : DeleteRepositoryByIDAndRegistryID(r)
             \/ \E k \in Key : RemoveAPIKey(k)
             \/ UNCHANGED vars
      PROVE UNCHANGED tokens
  BY <1>2
  DEF Tick, AddRegistryWithKey, DeleteRegistryByIDAndOrg,
      DeleteRepositoryByIDAndRegistryID, RemoveAPIKey, vars
<1>3. QED
  BY <1>1, <1>2 DEF Next, RegistryBearerAuth, HandleBlob, Action

\* What a step can make of a handler.
LEMMA HandlerMoves ==
    ASSUME TypeOK, [Next]_vars, NEW c \in Caller
    PROVE  \/ callers'[c] = callers[c]
           \/ callers'[c].step \in {"idle", "resolving"}
           \/ \E k \in Key, access \in Access : authenticateRegistryBasic(c, k, access)
           \/ \E s \in Scope : NameRegistry(c, s)
           \/ \E by \in {"api", "worker"}, token \in tokens, path \in Path,
                 action \in Action : LetThrough(c, by, token, path, action)
           \/ resolveRegistryIDForRepo(c)
<1> USE DEF TypeOK
<1> DEFINE Goal ==
       \/ callers'[c] = callers[c]
       \/ callers'[c].step \in {"idle", "resolving"}
       \/ \E k \in Key, access \in Access : authenticateRegistryBasic(c, k, access)
       \/ \E s \in Scope : NameRegistry(c, s)
       \/ \E by \in {"api", "worker"}, token \in tokens, path \in Path,
             action \in Action : LetThrough(c, by, token, path, action)
       \/ resolveRegistryIDForRepo(c)
<1>1. UNCHANGED callers => Goal
  OBVIOUS
<1>2. ASSUME NEW d \in Caller,
             \/ \E t \in Tenant : AddAPIKey(d, t)
             \/ \E k \in Key : InsertAPIKey(d, k)
             \/ issueRegistryToken(d)
             \/ \E r \in Repository : PutManifest(d, r)
             \/ EndRequest(d)
      PROVE Goal
  BY <1>2 DEF AddAPIKey, InsertAPIKey, issueRegistryToken, PutManifest, EndRequest,
              Become, Idle
<1>3. ASSUME NEW d \in Caller, NEW g \in Registry, NEW r, NEW permission,
             MayScope(d, g), AddTarget(d, g, r, permission)
      PROVE Goal
  <2>1. callers[d].step = "resolving"
    BY <1>3 DEF MayScope
  <2>2. callers[d] \in [step: {"resolving"}, tenant: Tenant, targets: SUBSET Target]
    BY <2>1, HandlerSteps
  <2>3. CASE d = c
    <3>1. callers'[c].step = "resolving"
      BY <1>3, <2>2, <2>3 DEF AddTarget, Become
    <3>2. QED
      BY <3>1
  <2>4. CASE d # c
    BY <1>3, <2>4 DEF AddTarget, Become
  <2>5. QED
    BY <2>3, <2>4
<1>4. ASSUME NEW d \in Caller, d # c,
             \/ \E k \in Key, access \in Access : authenticateRegistryBasic(d, k, access)
             \/ \E s \in Scope : NameRegistry(d, s)
             \/ \E by \in {"api", "worker"}, token \in tokens, path \in Path,
                   action \in Action : LetThrough(d, by, token, path, action)
             \/ resolveRegistryIDForRepo(d)
      PROVE Goal
  BY <1>4 DEF authenticateRegistryBasic, NameRegistry, LetThrough,
              resolveRegistryIDForRepo, Become
<1>5. ASSUME NEW d \in Caller, NEW g \in Registry, NEW permission \in Asked,
             \/ ResolveRegistryScope(d, g, permission)
             \/ \E path \in Path, r \in Repository :
                   ResolveRepositoryScope(d, g, path, r, permission)
      PROVE Goal
  BY <1>5, <1>3 DEF ResolveRegistryScope, ResolveRepositoryScope
<1>6. ASSUME \/ Tick
             \/ \E t \in Tenant, name \in Name, g \in Registry, k \in Key :
                   AddRegistryWithKey(t, name, g, k)
             \/ \E g \in Registry : DeleteRegistryByIDAndOrg(g)
             \/ \E r \in Repository : DeleteRepositoryByIDAndRegistryID(r)
             \/ \E k \in Key : RemoveAPIKey(k)
             \/ UNCHANGED vars
      PROVE Goal
  BY <1>6, <1>1
  DEF Tick, AddRegistryWithKey, DeleteRegistryByIDAndOrg,
      DeleteRepositoryByIDAndRegistryID, RemoveAPIKey, vars
<1>7. QED
  BY <1>2, <1>4, <1>5, <1>6 DEF Next, RegistryBearerAuth, HandleBlob, Action

\* What a step can make of a handler that is resolving scopes after it.
LEMMA ResolvingMoves ==
    ASSUME TypeOK, [Next]_vars, NEW c \in Caller, callers'[c].step = "resolving"
    PROVE  \/ callers'[c] = callers[c]
           \/ \E t \in Tenant : AddAPIKey(c, t)
           \/ \E g \in Registry, permission \in Asked :
                 \/ ResolveRegistryScope(c, g, permission)
                 \/ \E path \in Path, r \in Repository :
                       ResolveRepositoryScope(c, g, path, r, permission)
<1> USE DEF TypeOK
<1> DEFINE Goal == \/ callers'[c] = callers[c]
                   \/ \E t \in Tenant : AddAPIKey(c, t)
                   \/ \E g \in Registry, permission \in Asked :
                         \/ ResolveRegistryScope(c, g, permission)
                         \/ \E path \in Path, r \in Repository :
                               ResolveRepositoryScope(c, g, path, r, permission)
<1>1. ASSUME NEW d \in Caller,
             \/ \E k \in Key : InsertAPIKey(d, k)
             \/ \E k \in Key, access \in Access : authenticateRegistryBasic(d, k, access)
             \/ \E s \in Scope : NameRegistry(d, s)
             \/ issueRegistryToken(d)
             \/ \E by \in {"api", "worker"}, token \in tokens, path \in Path,
                   action \in Action : LetThrough(d, by, token, path, action)
             \/ resolveRegistryIDForRepo(d)
             \/ \E r \in Repository : PutManifest(d, r)
             \/ EndRequest(d)
      PROVE Goal
  BY <1>1 DEF InsertAPIKey, authenticateRegistryBasic, NameRegistry, issueRegistryToken,
              LetThrough, resolveRegistryIDForRepo, PutManifest, EndRequest, Become, Idle
<1>2. ASSUME NEW d \in Caller, d # c,
             \/ \E t \in Tenant : AddAPIKey(d, t)
             \/ \E g \in Registry, permission \in Asked :
                   \/ ResolveRegistryScope(d, g, permission)
                   \/ \E path \in Path, r \in Repository :
                         ResolveRepositoryScope(d, g, path, r, permission)
      PROVE callers'[c] = callers[c]
  BY <1>2 DEF AddAPIKey, ResolveRegistryScope, ResolveRepositoryScope, AddTarget, Become
<1>3. ASSUME \/ Tick
             \/ \E t \in Tenant, name \in Name, g \in Registry, k \in Key :
                   AddRegistryWithKey(t, name, g, k)
             \/ \E g \in Registry : DeleteRegistryByIDAndOrg(g)
             \/ \E r \in Repository : DeleteRepositoryByIDAndRegistryID(r)
             \/ \E k \in Key : RemoveAPIKey(k)
             \/ UNCHANGED vars
      PROVE callers'[c] = callers[c]
  BY <1>3
  DEF Tick, AddRegistryWithKey, DeleteRegistryByIDAndOrg,
      DeleteRepositoryByIDAndRegistryID, RemoveAPIKey, vars
<1>4. QED
  BY <1>1, <1>2, <1>3 DEF Next, RegistryBearerAuth, HandleBlob, Action

\* Rows read stay rows that were held: a trace is no older than the reading.
LEMMA RowsStayHeld ==
    ASSUME TypeOK, [Next]_vars, GrantInv
    PROVE  RowsWereHeld'
<1> SUFFICES ASSUME NEW c \in Caller, NEW new, new = callers'[c],
                    new.step \in {"asked", "named"}
             PROVE  /\ new.asked <= now'
                    /\ \A s \in new.rows : s.key = new.key /\ HeldSince(s, new.asked)'
  BY DEF RowsWereHeld, HeldSince
<1> DEFINE Read(h) == /\ h.asked \in Nat /\ h.asked <= now
                      /\ \A s \in h.rows : s.key = h.key /\ HeldSince(s, h.asked)
<1> USE DEF TypeOK
<1>1. ASSUME callers[c].step \in {"asked", "named"} PROVE Read(callers[c])
  <2>1. callers[c].asked \in Nat
    BY <1>1, HandlerSteps
  <2>2. QED
    BY <1>1, <2>1 DEF GrantInv, RowsWereHeld
<1>2. Read(new)
  <2>1. CASE callers'[c] = callers[c]
    BY <2>1, <1>1
  <2>2. ASSUME NEW k \in Key, NEW access \in Access,
               authenticateRegistryBasic(c, k, access)
        PROVE Read(new)
    BY <2>2 DEF authenticateRegistryBasic, Become, KeyScopes, HeldSince
  <2>3. ASSUME NEW s \in Scope, NameRegistry(c, s) PROVE Read(new)
    <3>1. Read(callers[c])
      BY <2>3, <1>1 DEF NameRegistry
    <3>2. callers'[c].asked = callers[c].asked /\ callers'[c].rows = callers[c].rows
            /\ callers'[c].key = callers[c].key
      BY <2>3 DEF NameRegistry, Become
    <3>3. QED
      BY <3>1, <3>2
  <2>4. ~\E by \in {"api", "worker"}, token \in tokens, path \in Path,
            action \in Action : LetThrough(c, by, token, path, action)
    BY DEF LetThrough, Become
  <2>5. ~resolveRegistryIDForRepo(c)
    BY DEF resolveRegistryIDForRepo, Become
  <2>6. QED
    BY <2>1, <2>2, <2>3, <2>4, <2>5, HandlerMoves
<1>3. now \in Nat /\ now' \in Nat /\ now' >= now
  BY StepKeeps, TypeStep
<1>4. QED
  BY <1>2, <1>3, StepKeeps, HeldStays

\* An issued token is granted what a scope of its key covered.
LEMMA TokensStayBacked ==
    ASSUME TypeOK, [Next]_vars, GrantInv
    PROVE  TokensBacked'
<1> SUFFICES ASSUME NEW token \in tokens'
             PROVE  /\ token.asked <= now'
                    /\ \A grant \in token.access : Backed(token, grant[1], grant[2])'
  BY DEF TokensBacked, Backed
<1> USE DEF TypeOK
<1>1. now \in Nat /\ now' \in Nat /\ now' >= now
  BY StepKeeps, TypeStep
<1>2. CASE token \in tokens
  <2>1. /\ token \in Token /\ token.asked \in Nat /\ token.asked <= now
        /\ \A grant \in token.access : Backed(token, grant[1], grant[2])
    BY <1>2 DEF GrantInv, TokensBacked, Token
  <2>2. QED
    BY <1>1, <2>1, BackedStays DEF GrantInv
<1>3. CASE token \notin tokens
  <2>1. PICK c \in Caller : issueRegistryToken(c)
    BY <1>3, NewTokens
  <2> DEFINE h == callers[c]
  <2>2. token = [namespace |-> h.namespace, issued |-> now,
                 access |-> grantRegistryTokenScopes(h.registry, h.namespace,
                                                     h.rows, h.access),
                 key |-> h.key, registry |-> h.registry, asked |-> h.asked]
    BY <1>3, <2>1 DEF issueRegistryToken
  <2>3. /\ h.rows \in SUBSET Scope /\ h.asked \in Nat
    BY <2>1, HandlerSteps DEF issueRegistryToken
  <2>4. /\ h.asked <= now
        /\ \A s \in h.rows : s.key = h.key /\ HeldSince(s, h.asked)
    BY <2>1 DEF issueRegistryToken, GrantInv, RowsWereHeld
  <2>5. ASSUME NEW grant \in token.access PROVE Backed(token, grant[1], grant[2])
    <3>1. PICK s \in h.rows : s.registry = h.registry /\ ScopeCovers(s, grant[1], grant[2])
      BY <2>2, <2>5 DEF grantRegistryTokenScopes
    <3>2. QED
      BY <2>2, <2>3, <2>4, <3>1 DEF Backed
  <2>6. token \in Token
    BY TypeStep
  <2>7. token.asked = h.asked
    BY <2>2
  <2>8. QED
    BY <1>1, <2>3, <2>4, <2>5, <2>6, <2>7, BackedStays DEF GrantInv
<1>4. QED
  BY <1>2, <1>3

\* A request is let through on a token that allows it; what it rests on stays.
LEMMA RequestsStayBacked ==
    ASSUME TypeOK, [Next]_vars, GrantInv
    PROVE  RequestsBacked'
<1> DEFINE Rests(h) == /\ h.token \in tokens
                       /\ h.at < h.token.issued + TTL + Leeway
                       /\ Backed(h.token, h.path, h.action)
<1> SUFFICES ASSUME NEW c \in Caller, NEW new, new = callers'[c],
                    new.step \in {"authorized", "resolved"}
             PROVE  /\ new.token \in tokens'
                    /\ new.at < new.token.issued + TTL + Leeway
                    /\ Backed(new.token, new.path, new.action)'
  BY DEF RequestsBacked, Working, Backed
<1> USE DEF TypeOK
<1>1. ASSUME callers[c].step \in {"authorized", "resolved"} PROVE Rests(callers[c])
  BY <1>1 DEF GrantInv, RequestsBacked, Working
<1>2. Rests(new)
  <2>1. CASE callers'[c] = callers[c]
    BY <2>1, <1>1
  <2>2. ASSUME NEW by \in {"api", "worker"}, NEW token \in tokens, NEW path \in Path,
               NEW action \in Action, LetThrough(c, by, token, path, action)
        PROVE Rests(new)
    <3>1. callers'[c] = [step |-> "authorized", by |-> by, token |-> token,
                         path |-> path, action |-> action, at |-> now]
      BY <2>2 DEF LetThrough, Become
    <3>2. now < token.issued + TTL + Leeway
      BY <2>2 DEF LetThrough, verifyRegistryToken
    <3>3. PICK grant \in token.access : grant[1] = path /\ grant[2] \in {action, "*"}
      BY <2>2 DEF LetThrough, registryTokenAllows
    <3>4. grant[2] = action
      BY <3>3 DEF Token, Action
    <3>5. Backed(token, path, action)
      BY <3>3, <3>4 DEF GrantInv, TokensBacked
    <3>6. QED
      BY <3>1, <3>2, <3>5
  <2>3. ASSUME resolveRegistryIDForRepo(c) PROVE Rests(new)
    <3>1. Rests(callers[c])
      BY <2>3, <1>1 DEF resolveRegistryIDForRepo
    <3>2. /\ callers'[c].token = callers[c].token /\ callers'[c].path = callers[c].path
          /\ callers'[c].action = callers[c].action /\ callers'[c].at = callers[c].at
      BY <2>3 DEF resolveRegistryIDForRepo, Become
    <3>3. QED
      BY <3>1, <3>2
  <2>4. ~\E k \in Key, access \in Access : authenticateRegistryBasic(c, k, access)
    BY DEF authenticateRegistryBasic, Become
  <2>5. ~\E s \in Scope : NameRegistry(c, s)
    BY DEF NameRegistry, Become
  <2>6. QED
    BY <2>1, <2>2, <2>3, <2>4, <2>5, HandlerMoves
<1>3. new.token \in Token /\ new.token.asked <= now
  BY <1>2 DEF GrantInv, TokensBacked
<1>4. Backed(new.token, new.path, new.action)'
  BY <1>2, <1>3, BackedStays DEF GrantInv
<1>5. QED
  BY <1>2, <1>4, StepKeeps

\* Tables, tokens and requests agree in every state: the inductive invariant.
THEOREM GrantsInvariant == Spec => []GrantInv
<1>1. Init => GrantInv
  BY DEF Init, GrantInv, RepositoriesKnown, RowsWereHeld, TokensBacked, RequestsBacked,
         HeldSince, Working, Idle
<1>2. TypeOK /\ GrantInv /\ [Next]_vars => GrantInv'
  BY KnownStays, RowsStayHeld, TokensStayBacked, RequestsStayBacked DEF GrantInv
<1>3. QED
  BY <1>1, <1>2, TypeCorrect, PTL DEF Spec

\* No request rests on anything but a recent token of a scope held when it was
\* asked for, however keys, scopes, repositories and registries change.
THEOREM GrantsRecent == Spec => []GrantsAreRecent
<1>1. GrantInv => GrantsAreRecent
  BY DEF GrantInv, RequestsBacked, GrantsAreRecent
<1>2. QED
  BY <1>1, GrantsInvariant, PTL

-----------------------------------------------------------------------------
(* Scopes are consistent *)

\* What is asked for a key names repositories where they are, one a target.
TargetsConsistent ==
    \A c \in Caller :
        callers[c].step = "resolving" =>
            \A t \in callers[c].targets :
                /\ t.repository # AnyRepository =>
                      /\ repositories[t.repository] # NoRow
                      /\ repositories[t.repository].registry = t.registry
                /\ \A u \in callers[c].targets : SameTarget(t, u) => t = u

\* The inductive invariant, with TypeOK.
ScopeInv == ScopesConsistent /\ TargetsConsistent

\* Ensuring a repository gives one of that registry and leaves the others be.
LEMMA EnsureGives ==
    ASSUME TypeOK, NEW g \in Registry, NEW p \in Path, NEW r \in Repository,
           EnsureRegistryRepository(g, repoLeaf(p), r)
    PROVE  /\ repositories'[r] # NoRow /\ repositories'[r].registry = g
           /\ \A s \in Repository :
                 repositories[s] # NoRow => repositories'[s] = repositories[s]
<1> DEFINE row == [registry |-> g, name |-> repoLeaf(p), live |-> TRUE]
<1>1. row \in RepositoryRow
  BY DEF RepositoryRow
<1>2. \/ UNCHANGED repositories /\ repositories[r] = row
      \/ repositories[r] = NoRow /\ repositories' = [repositories EXCEPT ![r] = row]
  BY DEF EnsureRegistryRepository
<1>3. row # NoRow /\ row.registry = g
  BY <1>1, RowAssumption
<1>4. CASE UNCHANGED repositories /\ repositories[r] = row
  BY <1>3, <1>4
<1>5. CASE repositories[r] = NoRow /\ repositories' = [repositories EXCEPT ![r] = row]
  <2>1. repositories'[r] = row
    BY <1>5 DEF TypeOK
  <2>2. \A s \in Repository : s # r => repositories'[s] = repositories[s]
    BY <1>5 DEF TypeOK
  <2>3. QED
    BY <1>3, <1>5, <2>1, <2>2
<1>6. QED
  BY <1>2, <1>4, <1>5

\* Targets change only where one is added to them.
LEMMA TargetsStay ==
    ASSUME TypeOK, [Next]_vars, TargetsConsistent
    PROVE  TargetsConsistent'
<1> USE DEF TypeOK
<1> DEFINE Good(targets) ==
       \A t \in targets :
          /\ t.repository # AnyRepository =>
                /\ repositories[t.repository] # NoRow
                /\ repositories[t.repository].registry = t.registry
          /\ \A u \in targets : SameTarget(t, u) => t = u
<1> SUFFICES ASSUME NEW c \in Caller, NEW new, new = callers'[c],
                    new.step = "resolving"
             PROVE  \A t \in new.targets :
                       /\ t.repository # AnyRepository =>
                             /\ repositories'[t.repository] # NoRow
                             /\ repositories'[t.repository].registry = t.registry
                       /\ \A u \in new.targets : SameTarget(t, u) => t = u
  BY DEF TargetsConsistent
<1>1. ASSUME callers[c].step = "resolving"
      PROVE /\ callers[c] \in [step: {"resolving"}, tenant: Tenant,
                               targets: SUBSET Target]
            /\ Good(callers[c].targets)
  BY <1>1, HandlerSteps DEF TargetsConsistent
<1>2. ASSUME new.targets \subseteq Target, Good(new.targets)
      PROVE \A t \in new.targets :
               /\ t.repository # AnyRepository =>
                     /\ repositories'[t.repository] # NoRow
                     /\ repositories'[t.repository].registry = t.registry
               /\ \A u \in new.targets : SameTarget(t, u) => t = u
  BY <1>2, StepKeeps DEF RepositoriesKept, RowKept, Target
<1>3. ASSUME NEW g \in Registry, NEW permission \in Asked,
             ResolveRegistryScope(c, g, permission)
      PROVE new.targets \subseteq Target /\ Good(new.targets)
  <2> DEFINE target == [registry |-> g, repository |-> AnyRepository,
                        permission |-> permission]
  <2>1. /\ callers[c].step = "resolving"
        /\ \A s \in callers[c].targets : ~SameTarget(s, target)
        /\ new = [callers[c] EXCEPT !.targets = @ \cup {target}]
    BY <1>3 DEF ResolveRegistryScope, MayScope, AddTarget, Become
  <2>2. new.targets = callers[c].targets \cup {target}
    BY <1>1, <2>1
  <2>3. target \in Target
    BY TokenAssumption DEF Target
  <2>4. QED
    BY <1>1, <2>1, <2>2, <2>3 DEF SameTarget
<1>4. ASSUME NEW g \in Registry, NEW permission \in Asked, NEW path \in Path,
             NEW r \in Repository, ResolveRepositoryScope(c, g, path, r, permission)
      PROVE \A t \in new.targets :
               /\ t.repository # AnyRepository =>
                     /\ repositories'[t.repository] # NoRow
                     /\ repositories'[t.repository].registry = t.registry
               /\ \A u \in new.targets : SameTarget(t, u) => t = u
  <2> DEFINE target == [registry |-> g, repository |-> r, permission |-> permission]
  <2>1. /\ callers[c].step = "resolving"
        /\ \A s \in callers[c].targets : ~SameTarget(s, target)
        /\ new = [callers[c] EXCEPT !.targets = @ \cup {target}]
    BY <1>4 DEF ResolveRepositoryScope, MayScope, AddTarget, Become
  <2>2. new.targets = callers[c].targets \cup {target}
    BY <1>1, <2>1
  <2>3. /\ repositories'[r] # NoRow /\ repositories'[r].registry = g
        /\ \A s \in Repository :
              repositories[s] # NoRow => repositories'[s] = repositories[s]
    BY <1>4, EnsureGives DEF ResolveRepositoryScope
  <2>4. ASSUME NEW t \in new.targets, t.repository # AnyRepository
        PROVE /\ repositories'[t.repository] # NoRow
              /\ repositories'[t.repository].registry = t.registry
    BY <1>1, <2>1, <2>2, <2>3, <2>4 DEF Target
  <2>5. ASSUME NEW t \in new.targets, NEW u \in new.targets, SameTarget(t, u)
        PROVE t = u
    BY <1>1, <2>1, <2>2, <2>5 DEF SameTarget
  <2>6. QED
    BY <2>4, <2>5
<1>5. ASSUME NEW t \in Tenant, AddAPIKey(c, t)
      PROVE new.targets \subseteq Target /\ Good(new.targets)
  BY <1>5 DEF AddAPIKey, Become
<1>6. ASSUME callers'[c] = callers[c]
      PROVE new.targets \subseteq Target /\ Good(new.targets)
  BY <1>6, <1>1
<1>7. \/ callers'[c] = callers[c]
      \/ \E t \in Tenant : AddAPIKey(c, t)
      \/ \E g \in Registry, permission \in Asked :
            \/ ResolveRegistryScope(c, g, permission)
            \/ \E path \in Path, r \in Repository :
                  ResolveRepositoryScope(c, g, path, r, permission)
  BY ResolvingMoves
<1>8. QED
  BY <1>2, <1>3, <1>4, <1>5, <1>6, <1>7

\* What a step does to the rows of api_key_scopes, and to what they refer to.
LEMMA ScopesStay ==
    ASSUME TypeOK, [Next]_vars, ScopeInv
    PROVE  ScopesConsistent'
<1> USE DEF TypeOK
<1> USE DEF ScopeInv
<1>1. ASSUME UNCHANGED <<registries, repositories, keys, scopes>>
      PROVE ScopesConsistent'
  BY <1>1 DEF ScopesConsistent, LiveRegistry, LiveRepository
<1>2. ASSUME NEW t \in Tenant, NEW name \in Name, NEW g \in Registry, NEW k \in Key,
             AddRegistryWithKey(t, name, g, k)
      PROVE ScopesConsistent'
  <2>1. \A s \in scopes : s.key # k /\ s.registry # g
    BY <1>2 DEF AddRegistryWithKey, ScopesConsistent, LiveRegistry
  <2> DEFINE row == [tenant |-> t, name |-> name, live |-> TRUE]
  <2>2. /\ registries'[g] # NoRow /\ registries'[g].live
        /\ \A x \in Registry \ {g} : registries'[x] = registries[x]
    <3>1. row \in RegistryRow
      BY DEF RegistryRow
    <3>2. registries' = [registries EXCEPT ![g] = row]
      BY <1>2 DEF AddRegistryWithKey
    <3>3. registries'[g] = row /\ row.live /\ row # NoRow
      BY <3>1, <3>2, RowAssumption
    <3>4. QED
      BY <3>2, <3>3
  <2>3. QED
    BY <1>2, <2>1, <2>2
    DEF AddRegistryWithKey, ScopesConsistent, LiveRegistry, LiveRepository, Scope,
        SameTarget
<1>3. ASSUME NEW g \in Registry, DeleteRegistryByIDAndOrg(g) PROVE ScopesConsistent'
  <2>1. scopes' = {s \in scopes : s.registry # g}
    BY <1>3 DEF DeleteRegistryByIDAndOrg, DropScopes
  <2>2. \A s \in scopes' :
           /\ registries'[s.registry] = registries[s.registry]
           /\ s.repository # AnyRepository =>
                 repositories'[s.repository] = repositories[s.repository]
    <3> TAKE s \in scopes'
    <3>1. s \in scopes /\ s.registry # g /\ s.registry \in Registry
      BY <2>1 DEF Scope
    <3>2. registries'[s.registry] = registries[s.registry]
      BY <1>3, <3>1 DEF DeleteRegistryByIDAndOrg
    <3>3. s.repository # AnyRepository =>
             /\ s.repository \in Repository
             /\ repositories[s.repository].registry # g
      BY <3>1 DEF ScopesConsistent, Scope
    <3>4. QED
      BY <1>3, <3>2, <3>3 DEF DeleteRegistryByIDAndOrg
  <2>3. UNCHANGED keys
    BY <1>3 DEF DeleteRegistryByIDAndOrg
  <2>4. QED
    BY <2>1, <2>2, <2>3 DEF ScopesConsistent, LiveRegistry, LiveRepository
<1>4. ASSUME NEW r \in Repository, DeleteRepositoryByIDAndRegistryID(r)
      PROVE ScopesConsistent'
  <2>1. scopes' = {s \in scopes : s.repository # r}
    BY <1>4 DEF DeleteRepositoryByIDAndRegistryID, DropScopes, RepositoryScopes
  <2>2. \A s \in scopes' :
           s.repository # AnyRepository =>
              repositories'[s.repository] = repositories[s.repository]
    BY <1>4, <2>1 DEF DeleteRepositoryByIDAndRegistryID, Scope
  <2>3. QED
    BY <1>4, <2>1, <2>2
    DEF DeleteRepositoryByIDAndRegistryID, ScopesConsistent, LiveRegistry, LiveRepository
<1>5. ASSUME NEW k \in Key, RemoveAPIKey(k) PROVE ScopesConsistent'
  <2>1. scopes' = {s \in scopes : s.key # k}
    BY <1>5 DEF RemoveAPIKey, DropScopes, KeyScopes
  <2>2. QED
    BY <1>5, <2>1
    DEF RemoveAPIKey, ScopesConsistent, LiveRegistry, LiveRepository, Scope
<1>6. ASSUME NEW g \in Registry, NEW p \in Path, NEW r \in Repository,
             EnsureRegistryRepository(g, repoLeaf(p), r),
             UNCHANGED <<registries, keys, scopes>>
      PROVE ScopesConsistent'
  <2>1. \A s \in scopes : s.repository # AnyRepository =>
           repositories'[s.repository] = repositories[s.repository]
    BY <1>6, EnsureGives DEF ScopesConsistent, LiveRepository, Scope
  <2>2. QED
    BY <1>6, <2>1 DEF ScopesConsistent, LiveRegistry, LiveRepository
<1>7. ASSUME NEW c \in Caller, NEW g \in Registry, NEW permission \in Asked,
             NEW path \in Path, NEW r \in Repository,
             ResolveRepositoryScope(c, g, path, r, permission)
      PROVE ScopesConsistent'
  BY <1>7, <1>6 DEF ResolveRepositoryScope
<1>8. ASSUME NEW c \in Caller, NEW r \in Repository, PutManifest(c, r)
      PROVE ScopesConsistent'
  <2>1. callers[c].registry \in Registry /\ callers[c].path \in Path
    BY <1>8, HandlerSteps DEF PutManifest
  <2>2. QED
    BY <1>8, <2>1, <1>6 DEF PutManifest
<1>9. ASSUME NEW c \in Caller, NEW k \in Key, InsertAPIKey(c, k) PROVE ScopesConsistent'
  <2> DEFINE targets == callers[c].targets
             Row(t) == [key |-> k, registry |-> t.registry,
                        repository |-> t.repository, permission |-> t.permission]
  <2>1. targets \subseteq Target
    BY <1>9, HandlerSteps DEF InsertAPIKey
  <2>2. /\ scopes' = scopes \cup {Row(t) : t \in targets}
        /\ keys[k] = "unused" /\ keys' = [keys EXCEPT ![k] = "live"]
        /\ UNCHANGED <<registries, repositories>>
        /\ \A t \in targets :
              /\ LiveRegistry(t.registry)
              /\ t.repository # AnyRepository =>
                    /\ LiveRepository(t.repository)
                    /\ repositories[t.repository].registry = t.registry
              /\ \A u \in targets : SameTarget(t, u) => t = u
    BY <1>9 DEF InsertAPIKey, TargetsConsistent
  <2>3. \A s \in scopes : s.key # k
    BY <2>2 DEF ScopesConsistent
  <2>4. ASSUME NEW s \in scopes'
        PROVE  /\ keys'[s.key] = "live" /\ LiveRegistry(s.registry)'
               /\ s.repository # AnyRepository =>
                     /\ LiveRepository(s.repository)'
                     /\ repositories'[s.repository].registry = s.registry
    <3>1. CASE s \in scopes
      BY <3>1, <2>2, <2>3 DEF ScopesConsistent, LiveRegistry, LiveRepository, Scope
    <3>2. ASSUME NEW t \in targets, s = Row(t)
          PROVE /\ keys'[s.key] = "live" /\ LiveRegistry(s.registry)'
                /\ s.repository # AnyRepository =>
                      /\ LiveRepository(s.repository)'
                      /\ repositories'[s.repository].registry = s.registry
      BY <3>2, <2>2 DEF LiveRegistry, LiveRepository
    <3>3. QED
      BY <3>1, <3>2, <2>2
  <2>5. ASSUME NEW s \in scopes', NEW t \in scopes', s.key = t.key, SameTarget(s, t)
        PROVE  s = t
    <3>1. CASE s \in scopes /\ t \in scopes
      BY <3>1, <2>5 DEF ScopesConsistent
    <3>2. ASSUME NEW x \in targets, NEW y \in targets, s = Row(x), t = Row(y)
          PROVE s = t
      BY <3>2, <2>2, <2>5 DEF SameTarget
    <3>3. QED
      BY <3>1, <3>2, <2>2, <2>3, <2>5
  <2>6. QED
    BY <2>4, <2>5 DEF ScopesConsistent, LiveRegistry, LiveRepository, SameTarget
<1>10. ASSUME NEW c \in Caller,
              \/ \E t \in Tenant : AddAPIKey(c, t)
              \/ \E g \in Registry, permission \in Asked :
                    ResolveRegistryScope(c, g, permission)
              \/ \E k \in Key, access \in Access : authenticateRegistryBasic(c, k, access)
              \/ \E s \in Scope : NameRegistry(c, s)
              \/ issueRegistryToken(c)
              \/ \E by \in {"api", "worker"}, token \in tokens, path \in Path,
                    action \in Action : LetThrough(c, by, token, path, action)
              \/ resolveRegistryIDForRepo(c)
              \/ EndRequest(c)
       PROVE ScopesConsistent'
  BY <1>10, <1>1
  DEF AddAPIKey, ResolveRegistryScope, authenticateRegistryBasic, NameRegistry,
      issueRegistryToken, LetThrough, resolveRegistryIDForRepo, EndRequest
<1>11. ASSUME Tick \/ UNCHANGED vars PROVE ScopesConsistent'
  BY <1>11, <1>1 DEF Tick, vars
<1>12. QED
  BY <1>2, <1>3, <1>4, <1>5, <1>7, <1>8, <1>9, <1>10, <1>11
  DEF Next, RegistryBearerAuth, HandleBlob, Action

\* No order of creating keys and deleting what they name leaves a dangling scope.
THEOREM ScopesInvariant == Spec => []ScopeInv
<1>1. Init => ScopeInv
  BY DEF Init, ScopeInv, ScopesConsistent, TargetsConsistent, Idle
<1>2. TypeOK /\ ScopeInv /\ [Next]_vars => ScopeInv'
  BY ScopesStay, TargetsStay DEF ScopeInv
<1>3. QED
  BY <1>1, <1>2, TypeCorrect, PTL DEF Spec

\* The rows of api_key_scopes belong to live keys, registries and repositories.
THEOREM ScopesAreConsistent == Spec => []ScopesConsistent
<1>1. ScopeInv => ScopesConsistent
  BY DEF ScopeInv
<1>2. QED
  BY <1>1, ScopesInvariant, PTL

-----------------------------------------------------------------------------
(* Keys never widen *)

\* Rows are inserted for new keys only.
LEMMA RowsOfNewKeys ==
    ASSUME TypeOK, [Next]_vars, NEW s \in scopes', s \notin scopes
    PROVE  keys[s.key] = "unused"
<1> USE DEF TypeOK
<1>1. ASSUME NEW t \in Tenant, NEW name \in Name, NEW g \in Registry, NEW k \in Key,
             AddRegistryWithKey(t, name, g, k)
      PROVE keys[s.key] = "unused"
  BY <1>1 DEF AddRegistryWithKey
<1>2. ASSUME NEW c \in Caller, NEW k \in Key, InsertAPIKey(c, k)
      PROVE keys[s.key] = "unused"
  BY <1>2 DEF InsertAPIKey
<1>3. ASSUME \/ Tick
             \/ \E g \in Registry : DeleteRegistryByIDAndOrg(g)
             \/ \E r \in Repository : DeleteRepositoryByIDAndRegistryID(r)
             \/ \E k \in Key : RemoveAPIKey(k)
             \/ UNCHANGED vars
      PROVE FALSE
  BY <1>3 DEF Tick, DeleteRegistryByIDAndOrg, DeleteRepositoryByIDAndRegistryID,
              RemoveAPIKey, DropScopes, vars
<1>4. ASSUME NEW c \in Caller,
             \/ \E t \in Tenant : AddAPIKey(c, t)
             \/ \E g \in Registry, permission \in Asked :
                   \/ ResolveRegistryScope(c, g, permission)
                   \/ \E path \in Path, r \in Repository :
                         ResolveRepositoryScope(c, g, path, r, permission)
             \/ \E k \in Key, access \in Access : authenticateRegistryBasic(c, k, access)
             \/ \E x \in Scope : NameRegistry(c, x)
             \/ issueRegistryToken(c)
             \/ \E by \in {"api", "worker"}, token \in tokens, path \in Path,
                   action \in Action : LetThrough(c, by, token, path, action)
             \/ resolveRegistryIDForRepo(c)
             \/ \E r \in Repository : PutManifest(c, r)
             \/ EndRequest(c)
      PROVE FALSE
  BY <1>4
  DEF AddAPIKey, ResolveRegistryScope, ResolveRepositoryScope, authenticateRegistryBasic,
      NameRegistry, issueRegistryToken, LetThrough, resolveRegistryIDForRepo, PutManifest,
      EndRequest
<1>5. QED
  BY <1>1, <1>2, <1>3, <1>4 DEF Next, RegistryBearerAuth, HandleBlob, Action

\* A key covers after a step no more than before it.
LEMMA CoveredShrinks ==
    ASSUME TypeOK, [Next]_vars, ScopesConsistent, NEW k \in Key, keys[k] # "unused"
    PROVE  Covered(k)' \subseteq Covered(k)
<1> USE DEF TypeOK
<1> SUFFICES ASSUME NEW may \in Covered(k)' PROVE may \in Covered(k)
  OBVIOUS
<1> DEFINE g == may[1]
<1>1. /\ may \in Registry \X Path \X Action /\ g \in Registry
      /\ LiveRegistry(g)' /\ registryNamespace(may[2]) = registries'[g].name
  BY DEF Covered
<1>2. PICK s \in scopes' :
         s.key = k /\ s.registry = g /\ ScopeCovers(s, may[2], may[3])'
  BY DEF Covered, KeyScopes
<1>3. s \in scopes
  BY <1>2, RowsOfNewKeys
<1>4. /\ LiveRegistry(g)
      /\ s.repository # AnyRepository => LiveRepository(s.repository)
  BY <1>2, <1>3 DEF ScopesConsistent
<1>5. registries'[g].name = registries[g].name
  BY <1>1, <1>4, StepKeeps DEF LiveRegistry, RegistriesKept, RowKept
<1>6. s.repository # AnyRepository =>
         repositories'[s.repository].name = repositories[s.repository].name
  BY <1>3, <1>4, StepKeeps DEF LiveRepository, RepositoriesKept, RowKept, Scope
<1>7. ScopeCovers(s, may[2], may[3])
  BY <1>2, <1>6 DEF ScopeCovers
<1>8. QED
  BY <1>1, <1>2, <1>3, <1>4, <1>5, <1>7 DEF Covered, KeyScopes

\* What a key may do only ever shrinks, from its creation on.
THEOREM NeverWiden == Spec => KeysNeverWiden
<1>1. TypeOK /\ ScopeInv /\ [Next]_vars =>
         [\A k \in Key : keys[k] # "unused" => Covered(k)' \subseteq Covered(k)]_vars
  BY CoveredShrinks DEF ScopeInv
<1>2. QED
  BY <1>1, TypeCorrect, ScopesInvariant, PTL DEF Spec, KeysNeverWiden

-----------------------------------------------------------------------------
(* Requests act in the registry that their key was scoped to *)

NamesUnique ==
    \A g, o \in Registry :
        LiveRegistry(g) /\ LiveRegistry(o) /\ registries[g].name = registries[o].name =>
            g = o

\* The registry that a token was issued for has, or had, the name in the token.
NamesKnown ==
    /\ \A c \in Caller :
          callers[c].step = "named" =>
              /\ registries[callers[c].registry] # NoRow
              /\ registries[callers[c].registry].name = callers[c].namespace
    /\ \A token \in tokens :
          /\ registries[token.registry] # NoRow
          /\ registries[token.registry].name = token.namespace

InNamespace ==
    \A c \in Caller :
        callers[c].step \in {"authorized", "resolved"} =>
            /\ callers[c].token \in tokens
            /\ registryNamespace(callers[c].path) = callers[c].token.namespace

FoundByName ==
    \A c \in Caller :
        callers[c].step = "resolved" =>
            /\ registries[callers[c].registry] # NoRow
            /\ registries[callers[c].registry].name = registryNamespace(callers[c].path)
            /\ LiveRegistry(callers[c].token.registry) =>
                  callers[c].registry = callers[c].token.registry

\* The inductive invariant, with TypeOK.
NameInv == NamesUnique /\ NamesKnown /\ InNamespace /\ FoundByName

\* A registry comes to life once, with a name that no other live one has.
LEMMA RegistryMoves ==
    ASSUME TypeOK, [Next]_vars
    PROVE  \/ UNCHANGED registries
           \/ \E g \in Registry :
                 LiveRegistry(g) /\ registries' = [registries EXCEPT ![g].live = FALSE]
           \/ \E t \in Tenant, name \in Name, g \in Registry :
                 /\ RegistryNamed(name) = {}
                 /\ registries' = [registries EXCEPT
                       ![g] = [tenant |-> t, name |-> name, live |-> TRUE]]
<1>1. ASSUME NEW c \in Caller,
             \/ \E t \in Tenant : AddAPIKey(c, t)
             \/ \E g \in Registry, permission \in Asked :
                   \/ ResolveRegistryScope(c, g, permission)
                   \/ \E path \in Path, r \in Repository :
                         ResolveRepositoryScope(c, g, path, r, permission)
             \/ \E k \in Key : InsertAPIKey(c, k)
             \/ \E k \in Key, access \in Access : authenticateRegistryBasic(c, k, access)
             \/ \E s \in Scope : NameRegistry(c, s)
             \/ issueRegistryToken(c)
             \/ \E by \in {"api", "worker"}, token \in tokens, path \in Path,
                   action \in Action : LetThrough(c, by, token, path, action)
             \/ resolveRegistryIDForRepo(c)
             \/ \E r \in Repository : PutManifest(c, r)
             \/ EndRequest(c)
      PROVE UNCHANGED registries
  BY <1>1
  DEF AddAPIKey, ResolveRegistryScope, ResolveRepositoryScope, InsertAPIKey,
      authenticateRegistryBasic, NameRegistry, issueRegistryToken, LetThrough,
      resolveRegistryIDForRepo, PutManifest, EndRequest
<1>2. ASSUME \/ Tick
             \/ \E r \in Repository : DeleteRepositoryByIDAndRegistryID(r)
             \/ \E k \in Key : RemoveAPIKey(k)
             \/ UNCHANGED vars
      PROVE UNCHANGED registries
  BY <1>2 DEF Tick, DeleteRepositoryByIDAndRegistryID, RemoveAPIKey, vars
<1>3. ASSUME NEW g \in Registry, DeleteRegistryByIDAndOrg(g)
      PROVE LiveRegistry(g) /\ registries' = [registries EXCEPT ![g].live = FALSE]
  BY <1>3 DEF DeleteRegistryByIDAndOrg
<1>4. ASSUME NEW t \in Tenant, NEW name \in Name, NEW g \in Registry, NEW k \in Key,
             AddRegistryWithKey(t, name, g, k)
      PROVE /\ RegistryNamed(name) = {}
            /\ registries' = [registries EXCEPT
                  ![g] = [tenant |-> t, name |-> name, live |-> TRUE]]
  BY <1>4 DEF AddRegistryWithKey, NameTaken
<1>5. QED
  BY <1>1, <1>2, <1>3, <1>4 DEF Next, RegistryBearerAuth, HandleBlob, Action

\* unique_registry_name holds over all registries that live.
LEMMA UniqueStays ==
    ASSUME TypeOK, [Next]_vars, NamesUnique
    PROVE  NamesUnique'
<1> USE DEF TypeOK
<1>1. CASE UNCHANGED registries
  BY <1>1 DEF NamesUnique, LiveRegistry
<1>2. ASSUME NEW g \in Registry, LiveRegistry(g),
             registries' = [registries EXCEPT ![g].live = FALSE]
      PROVE NamesUnique'
  <2>1. \A x \in Registry : LiveRegistry(x)' =>
           LiveRegistry(x) /\ registries'[x].name = registries[x].name
    <3> SUFFICES ASSUME NEW x \in Registry, LiveRegistry(x)'
                 PROVE  LiveRegistry(x) /\ registries'[x].name = registries[x].name
      OBVIOUS
    <3>1. CASE x # g
      BY <1>2, <3>1 DEF LiveRegistry
    <3>2. CASE x = g
      <4>1. registries'[g] = [registries[g] EXCEPT !.live = FALSE]
        BY <1>2
      <4>2. registries[g] \in RegistryRow
        BY <1>2 DEF LiveRegistry
      <4>3. QED
        BY <3>2, <4>1, <4>2 DEF LiveRegistry, RegistryRow
    <3>3. QED
      BY <3>1, <3>2
  <2>2. QED
    BY <2>1 DEF NamesUnique, LiveRegistry
<1>3. ASSUME NEW t \in Tenant, NEW name \in Name, NEW g \in Registry,
             RegistryNamed(name) = {},
             registries' = [registries EXCEPT
                ![g] = [tenant |-> t, name |-> name, live |-> TRUE]]
      PROVE NamesUnique'
  <2>1. registries'[g].name = name
    BY <1>3
  <2>2. \A x \in Registry : x # g => registries'[x] = registries[x]
    BY <1>3
  <2>3. \A x \in Registry : LiveRegistry(x) => registries[x].name # name
    BY <1>3 DEF RegistryNamed
  <2>4. QED
    BY <2>1, <2>2, <2>3 DEF NamesUnique, LiveRegistry
<1>4. QED
  BY <1>1, <1>2, <1>3, RegistryMoves

\* The name in a token stays the one its registry has or had.
LEMMA NamesKnownStay ==
    ASSUME TypeOK, [Next]_vars, NamesKnown
    PROVE  NamesKnown'
<1> USE DEF TypeOK
<1> DEFINE Known(x) == /\ registries[x.registry] # NoRow
                       /\ registries[x.registry].name = x.namespace
<1>1. ASSUME NEW x, x.registry \in Registry, Known(x)
      PROVE  /\ registries'[x.registry] # NoRow
             /\ registries'[x.registry].name = x.namespace
  BY <1>1, StepKeeps DEF RegistriesKept, RowKept
<1>2. ASSUME NEW c \in Caller, callers[c].step = "named"
      PROVE callers[c].registry \in Registry /\ Known(callers[c])
  BY <1>2, HandlerSteps DEF NamesKnown
<1>3. ASSUME NEW c \in Caller, NEW new, new = callers'[c], new.step = "named"
      PROVE  /\ registries'[new.registry] # NoRow
             /\ registries'[new.registry].name = new.namespace
  <2>1. CASE callers'[c] = callers[c]
    BY <2>1, <1>1, <1>2, <1>3
  <2>2. ASSUME NEW s \in Scope, NameRegistry(c, s)
        PROVE /\ registries'[new.registry] # NoRow
              /\ registries'[new.registry].name = new.namespace
    BY <2>2, <1>3 DEF NameRegistry, LiveRegistry, Become
  <2>3. \/ callers'[c] = callers[c]
        \/ \E s \in Scope : NameRegistry(c, s)
    BY <1>3, HandlerMoves
    DEF authenticateRegistryBasic, LetThrough, resolveRegistryIDForRepo, Become
  <2>4. QED
    BY <2>1, <2>2, <2>3
<1>4. ASSUME NEW token \in tokens'
      PROVE  /\ registries'[token.registry] # NoRow
             /\ registries'[token.registry].name = token.namespace
  <2>1. token \in Token
    BY TypeStep
  <2>2. CASE token \in tokens
    BY <2>1, <2>2, <1>1 DEF NamesKnown, Token
  <2>3. CASE token \notin tokens
    <3>1. PICK c \in Caller : issueRegistryToken(c)
      BY <2>3, NewTokens
    <3>2. /\ callers[c].step = "named" /\ token.registry = callers[c].registry
          /\ token.namespace = callers[c].namespace
      BY <2>3, <3>1 DEF issueRegistryToken
    <3>3. token.registry \in Registry /\ Known(token)
      BY <1>2, <3>2
    <3>4. QED
      BY <3>3, <1>1
  <2>4. QED
    BY <2>2, <2>3
<1>5. QED
  BY <1>3, <1>4 DEF NamesKnown

\* A request let through stays within the namespace of its token.
LEMMA InNamespaceStays ==
    ASSUME TypeOK, [Next]_vars, InNamespace
    PROVE  InNamespace'
<1> USE DEF TypeOK
<1> SUFFICES ASSUME NEW c \in Caller, NEW new, new = callers'[c],
                    new.step \in {"authorized", "resolved"}
             PROVE  /\ new.token \in tokens'
                    /\ registryNamespace(new.path) = new.token.namespace
  BY DEF InNamespace
<1>1. CASE callers'[c] = callers[c]
  BY <1>1, StepKeeps DEF InNamespace
<1>2. ASSUME NEW by \in {"api", "worker"}, NEW token \in tokens, NEW path \in Path,
             NEW action \in Action, LetThrough(c, by, token, path, action)
      PROVE /\ new.token \in tokens'
            /\ registryNamespace(new.path) = new.token.namespace
  BY <1>2 DEF LetThrough, ensureRepoAuthorized, Become
<1>3. ASSUME resolveRegistryIDForRepo(c)
      PROVE /\ new.token \in tokens'
            /\ registryNamespace(new.path) = new.token.namespace
  <2>1. /\ callers[c].token \in tokens
        /\ registryNamespace(callers[c].path) = callers[c].token.namespace
    BY <1>3 DEF resolveRegistryIDForRepo, InNamespace
  <2>2. new.token = callers[c].token /\ new.path = callers[c].path
    BY <1>3 DEF resolveRegistryIDForRepo, Become
  <2>3. QED
    BY <2>1, <2>2, StepKeeps
<1>4. \/ callers'[c] = callers[c]
      \/ \E by \in {"api", "worker"}, token \in tokens, path \in Path,
            action \in Action : LetThrough(c, by, token, path, action)
      \/ resolveRegistryIDForRepo(c)
  BY HandlerMoves DEF authenticateRegistryBasic, NameRegistry, Become
<1>5. QED
  BY <1>1, <1>2, <1>3, <1>4

\* The registry found by name is the one of the token, while that lives.
LEMMA FoundStays ==
    ASSUME TypeOK, [Next]_vars, NameInv
    PROVE  FoundByName'
<1> USE DEF TypeOK, NameInv
<1> DEFINE Found(h) ==
       /\ h.registry \in Registry /\ h.token.registry \in Registry
       /\ registries[h.registry] # NoRow /\ registries[h.token.registry] # NoRow
       /\ registries[h.registry].name = registryNamespace(h.path)
       /\ LiveRegistry(h.token.registry) => h.registry = h.token.registry
<1> SUFFICES ASSUME NEW c \in Caller, NEW new, new = callers'[c], new.step = "resolved"
             PROVE  /\ registries'[new.registry] # NoRow
                    /\ registries'[new.registry].name = registryNamespace(new.path)
                    /\ LiveRegistry(new.token.registry)' =>
                          new.registry = new.token.registry
  BY DEF FoundByName, LiveRegistry
<1>1. Found(new)
  <2>1. CASE callers'[c] = callers[c]
    <3>1. callers[c].token \in tokens /\ callers[c].registry \in Registry
      BY <2>1, HandlerSteps DEF InNamespace
    <3>2. QED
      BY <2>1, <3>1 DEF FoundByName, NamesKnown, Token
  <2>2. CASE resolveRegistryIDForRepo(c)
    <3> DEFINE h == callers[c]
    <3>1. /\ h.token \in tokens /\ registryNamespace(h.path) = h.token.namespace
      BY <2>2 DEF resolveRegistryIDForRepo, InNamespace
    <3>2. PICK g \in RegistryNamed(registryNamespace(h.path)) :
             new.registry = g /\ new.token = h.token /\ new.path = h.path
      BY <2>2 DEF resolveRegistryIDForRepo, Become
    <3>3. /\ g \in Registry /\ LiveRegistry(g)
          /\ registries[g].name = registryNamespace(h.path)
      BY <3>2 DEF RegistryNamed
    <3>4. /\ h.token.registry \in Registry /\ registries[h.token.registry] # NoRow
          /\ registries[h.token.registry].name = h.token.namespace
      BY <3>1 DEF NamesKnown, Token
    <3>5. LiveRegistry(h.token.registry) => g = h.token.registry
      BY <3>1, <3>3, <3>4 DEF NamesUnique
    <3>6. QED
      BY <3>2, <3>3, <3>4, <3>5 DEF LiveRegistry
  <2>3. callers'[c] = callers[c] \/ resolveRegistryIDForRepo(c)
    BY HandlerMoves DEF authenticateRegistryBasic, NameRegistry, LetThrough, Become
  <2>4. QED
    BY <2>1, <2>2, <2>3
<1>2. /\ RowKept(registries[new.registry], registries'[new.registry])
      /\ RowKept(registries[new.token.registry], registries'[new.token.registry])
  BY <1>1, StepKeeps DEF RegistriesKept
<1>3. LiveRegistry(new.token.registry)' => LiveRegistry(new.token.registry)
  BY <1>1, <1>2 DEF LiveRegistry, RowKept
<1>4. QED
  BY <1>1, <1>2, <1>3 DEF RowKept

\* Registry names, tokens and requests agree in every state: the inductive invariant.
THEOREM NamesInvariant == Spec => []NameInv
<1>1. Init => NameInv
  BY DEF Init, NameInv, NamesUnique, NamesKnown, InNamespace, FoundByName, LiveRegistry,
         Idle
<1>2. TypeOK /\ NameInv /\ [Next]_vars => NameInv'
  BY UniqueStays, NamesKnownStay, InNamespaceStays, FoundStays DEF NameInv
<1>3. QED
  BY <1>1, <1>2, TypeCorrect, PTL DEF Spec

\* A request is served in the registry of its key, as long as that one is there.
THEOREM ActsOnScoped == Spec => []ActsOnScopedRegistry
<1>1. NameInv => ActsOnScopedRegistry
  BY DEF NameInv, FoundByName, ActsOnScopedRegistry
<1>2. QED
  BY <1>1, NamesInvariant, PTL
=============================================================================
