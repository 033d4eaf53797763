--------------------------- MODULE TenancyProofs ---------------------------
(***************************************************************************)
(* What Tenancy promises of onboarding and of the seed's key, for any      *)
(* number of users, tenants, dashboard requests and runs of the seed, and  *)
(* however often the dashboard interferes.                                 *)
(***************************************************************************)
EXTENDS Tenancy, TLAPS

-----------------------------------------------------------------------------
(* The strengthened invariant *)

UserTypes ==
    /\ tenants \in SUBSET Tenant
    /\ onboarded \in SUBSET tenants
    /\ tenantOf \in [User -> tenants \cup {NoTenant}]
    /\ owned \in SUBSET tenants
    /\ strayed \in SUBSET tenants

\* The registry was made for somebody, and ids are counted.
RegistryTypes ==
    /\ registry \in RegistryRow
    /\ lastId \in Nat
    /\ registry # NoRegistry => registry.id \in 1..lastId /\ registry.tenant \in owned

\* Keys have users, and ids of their own.
KeyTypes ==
    /\ apiKeys \in SUBSET KeyRow
    /\ lastKey \in Nat
    /\ \A k \in apiKeys : tenantOf[k.user] # NoTenant /\ k.id <= lastKey
    /\ \A j, k \in apiKeys : j.id = k.id => j = k

RequestRow == [step: RequestSteps \cup {"idle"}, user: User, tenant: tenants \cup {NoTenant},
               onboarded: BOOLEAN, id: Nat]

\* A request has a user with a tenant, and what it was told of it is still so.
RequestKnows(q) ==
    ~Doing(q, "idle") =>
        /\ tenantOf[requests[q].user] # NoTenant
        /\ requests[q].tenant \in tenants
        /\ requests[q].onboarded => requests[q].tenant \in onboarded
        /\ Doing(q, "onboard") => requests[q].tenant \in owned

SeedRow == [step: SeedSteps \cup {"failed", "succeeded"}, registry: RegistryRow,
            key: Nat, todo: SUBSET Nat]

Searching(s) == seeds[s].step \in {"find", "create", "add", "again", "failed"}
Aligned(s) == seeds[s].step \in
    {"onboard", "prefix", "scopes", "replace", "list", "clear", "tell"}

\* A key that a run is to replace is the configured one, with the wrong scope or name;
\* those that it is to clear have another prefix.
SeedKnows(s) ==
    /\ Searching(s) => seeds[s].registry = NoRegistry
    /\ In(s, "add") => Personal[Seeder] \in tenants
    /\ In(s, "align") \/ Aligned(s) =>
          seeds[s].registry.id \in 1..lastId /\ seeds[s].registry.tenant \in owned
    /\ Aligned(s) => tenantOf[Seeder] # NoTenant
    /\ In(s, "scopes") \/ In(s, "replace") =>
          /\ seeds[s].key <= lastKey
          /\ \A k \in apiKeys : k.id = seeds[s].key =>
                k.user = Seeder /\ k.prefix = "configured" /\ k.secret = "configured"
    /\ In(s, "replace") =>
          \A k \in apiKeys : k.id = seeds[s].key =>
              k.name # "configured" \/ k.scope # seeds[s].registry.id
    /\ In(s, "clear") =>
          /\ \A i \in seeds[s].todo : i <= lastKey
          /\ \A k \in apiKeys : k.id \in seeds[s].todo => k.prefix # "configured"

Consistent ==
    /\ UserTypes /\ RegistryTypes /\ KeyTypes
    /\ requests \in [Request -> RequestRow] /\ \A q \in Request : RequestKnows(q)
    /\ seeds \in [Seed -> SeedRow] /\ \A s \in Seed : SeedKnows(s)

-----------------------------------------------------------------------------
(* The rows of requests and of runs *)

\* The row of a request after a step, and those of the others.
LEMMA RequestAfter ==
    ASSUME requests \in [Request -> RequestRow], NEW q \in Request, NEW w,
           requests' = [requests EXCEPT ![q] = w]
    PROVE  /\ requests'[q] = w
           /\ \A p \in Request : p # q => requests'[p] = requests[p]
  OBVIOUS

\* The row of a run after a step, and those of the others.
LEMMA SeedAfter ==
    ASSUME seeds \in [Seed -> SeedRow], NEW s \in Seed, NEW w, seeds' = [seeds EXCEPT ![s] = w]
    PROVE  /\ seeds'[s] = w
           /\ \A p \in Seed : p # s => seeds'[p] = seeds[p]
  OBVIOUS

\* The same when it only goes on to another step.
LEMMA GotoAfter ==
    ASSUME seeds \in [Seed -> SeedRow], NEW s \in Seed, NEW step, Goto(s, step)
    PROVE  /\ seeds'[s].step = step
           /\ seeds'[s].registry = seeds[s].registry
           /\ seeds'[s].key = seeds[s].key
           /\ seeds'[s].todo = seeds[s].todo
           /\ \A p \in Seed : p # s => seeds'[p] = seeds[p]
<1> DEFINE w == [seeds[s] EXCEPT !.step = step]
<1>1. seeds' = [seeds EXCEPT ![s] = w]
  BY DEF Goto
<1>2. seeds[s] \in SeedRow
  OBVIOUS
<1>3. /\ w.step = step /\ w.registry = seeds[s].registry
      /\ w.key = seeds[s].key /\ w.todo = seeds[s].todo
  BY <1>2 DEF SeedRow
<1> HIDE DEF w
<1> QED
  BY <1>1, <1>3, SeedAfter

\* The steps of a run that note something besides.
NotesRegistry(s, step, r) == seeds' = [seeds EXCEPT ![s].step = step, ![s].registry = r]
NotesKey(s, step, id) == seeds' = [seeds EXCEPT ![s].step = step, ![s].key = id]
NotesTodo(s, step, K) == seeds' = [seeds EXCEPT ![s].step = step, ![s].todo = K]

\* When it notes a registry.
LEMMA NoteRegistryAfter ==
    ASSUME seeds \in [Seed -> SeedRow], NEW s \in Seed, NEW step, NEW r,
           NotesRegistry(s, step, r)
    PROVE  /\ seeds'[s].step = step /\ seeds'[s].registry = r
           /\ seeds'[s].key = seeds[s].key /\ seeds'[s].todo = seeds[s].todo
           /\ \A p \in Seed : p # s => seeds'[p] = seeds[p]
<1> DEFINE w == [seeds[s] EXCEPT !.step = step, !.registry = r]
<1>1. seeds' = [seeds EXCEPT ![s] = w]
  BY DEF NotesRegistry
<1>2. seeds[s] \in SeedRow
  OBVIOUS
<1>3. /\ w.step = step /\ w.registry = r
      /\ w.key = seeds[s].key /\ w.todo = seeds[s].todo
  BY <1>2 DEF SeedRow
<1> HIDE DEF w
<1> QED
  BY <1>1, <1>3, SeedAfter

\* Or a key.
LEMMA NoteKeyAfter ==
    ASSUME seeds \in [Seed -> SeedRow], NEW s \in Seed, NEW step, NEW r,
           NotesKey(s, step, r)
    PROVE  /\ seeds'[s].step = step /\ seeds'[s].key = r
           /\ seeds'[s].registry = seeds[s].registry /\ seeds'[s].todo = seeds[s].todo
           /\ \A p \in Seed : p # s => seeds'[p] = seeds[p]
<1> DEFINE w == [seeds[s] EXCEPT !.step = step, !.key = r]
<1>1. seeds' = [seeds EXCEPT ![s] = w]
  BY DEF NotesKey
<1>2. seeds[s] \in SeedRow
  OBVIOUS
<1>3. /\ w.step = step /\ w.key = r
      /\ w.registry = seeds[s].registry /\ w.todo = seeds[s].todo
  BY <1>2 DEF SeedRow
<1> HIDE DEF w
<1> QED
  BY <1>1, <1>3, SeedAfter

\* Or what is to do.
LEMMA NoteTodoAfter ==
    ASSUME seeds \in [Seed -> SeedRow], NEW s \in Seed, NEW step, NEW r,
           NotesTodo(s, step, r)
    PROVE  /\ seeds'[s].step = step /\ seeds'[s].todo = r
           /\ seeds'[s].registry = seeds[s].registry /\ seeds'[s].key = seeds[s].key
           /\ \A p \in Seed : p # s => seeds'[p] = seeds[p]
<1> DEFINE w == [seeds[s] EXCEPT !.step = step, !.todo = r]
<1>1. seeds' = [seeds EXCEPT ![s] = w]
  BY DEF NotesTodo
<1>2. seeds[s] \in SeedRow
  OBVIOUS
<1>3. /\ w.step = step /\ w.todo = r
      /\ w.registry = seeds[s].registry /\ w.key = seeds[s].key
  BY <1>2 DEF SeedRow
<1> HIDE DEF w
<1> QED
  BY <1>1, <1>3, SeedAfter

-----------------------------------------------------------------------------
(* What a step may do to users, to the registry and to keys *)

UserMove ==
    \/ UNCHANGED userVars
    \/ \E u \in User, t \in Tenant : PutUser(u, t)
    \/ \E u \in User, t \in owned : tenantOf[u] # NoTenant /\ SetUserOnboarded(u, t)
    \/ \E t \in owned : Unmarked(t)
    \/ \E t \in tenants : InsertRegistry(t)

RegistryMove ==
    \/ UNCHANGED registryVars
    \/ \E t \in tenants : InsertRegistry(t)
    \/ registry' = NoRegistry /\ lastId' = lastId

KeyMove ==
    \/ UNCHANGED <<apiKeys, lastKey>>
    \/ /\ apiKeys' \subseteq apiKeys /\ lastKey' = lastKey
    \/ /\ apiKeys' = {[k EXCEPT !.scope = 0] : k \in apiKeys} /\ lastKey' = lastKey
    \/ \E u \in User, p \in Label, id \in Nat : tenantOf[u] # NoTenant /\ InsertKey(u, p, id)

\* A seed that has its registry has a tenant to work for.
LEMMA SeedTenant ==
    ASSUME Consistent, NEW s \in Seed, In(s, "align") \/ Aligned(s)
    PROVE  /\ seeds[s].registry.tenant \in owned
           /\ seeds[s].registry.tenant \in tenants
           /\ seeds[s].registry.id \in Nat
           /\ Aligned(s) => tenantOf[Seeder] # NoTenant
  BY DEF Consistent, SeedKnows, UserTypes, RegistryTypes

\* Users and tenants move in one of these ways only.
LEMMA UserMoves == Consistent /\ [TenancyNext]_tenancyVars => UserMove
<1> SUFFICES ASSUME Consistent, [TenancyNext]_tenancyVars
             PROVE  UserMove
  OBVIOUS
<1> USE DEF UserMove
<1>1. ASSUME Dashboard
      PROVE  UserMove
  <2>1. ASSUME NEW u \in User, NEW t \in Tokens[u], GetCurrentUser(u, t)
        PROVE  UserMove
    BY <2>1, TenancyAssumption DEF GetCurrentUser
  <2>2. ASSUME NEW u \in User, NEW t \in Tokens[u], NEW q \in Request, NEW step,
               Arrive(q, u, t, step)
        PROVE  UserMove
    BY <2>2, TenancyAssumption DEF Arrive
  <2>3. ASSUME NEW q \in Request, ~Doing(q, "idle")
        PROVE  /\ requests[q].user \in User /\ tenantOf[requests[q].user] # NoTenant
               /\ requests[q].tenant \in tenants
               /\ Doing(q, "onboard") => requests[q].tenant \in owned
    BY <2>3 DEF Consistent, RequestKnows, RequestRow
  <2>4. ASSUME NEW q \in Request, AddRegistry(q)
        PROVE  UserMove
    BY <2>3, <2>4 DEF AddRegistry, Doing
  <2>5. ASSUME NEW q \in Request, OnboardUser(q)
        PROVE  UserMove
    BY <2>3, <2>5 DEF OnboardUser, Doing
  <2>6. ASSUME NEW q \in Request, RemoveRegistry(q) \/ AddAPIKey(q) \/ RemoveAPIKey(q)
        PROVE  UserMove
    BY <2>6 DEF RemoveRegistry, AddAPIKey, RemoveAPIKey
  <2>7. ASSUME NEW q \in Request, FailRequest(q)
        PROVE  UserMove
    BY <2>3, <2>7 DEF FailRequest, Doing
  <2> QED
    BY <1>1, <2>1, <2>2, <2>4, <2>5, <2>6, <2>7 DEF Dashboard
<1>2. ASSUME NEW s \in Seed, Fails(s)
      PROVE  UserMove
  BY <1>2, SeedTenant DEF Fails, In, Aligned
<1>3. ASSUME NEW s \in Seed, RunSeed(s)
      PROVE  UserMove
  <2>1. CASE StartSeed(s) \/ FindRegistry(s) \/ InspectKey(s) \/ ListKeys(s) \/ EndSeed(s)
    BY <2>1 DEF StartSeed, FindRegistry, Find, InspectKey, ListKeys, EndSeed
  <2>2. CASE CreateSeedUser(s)
    BY <2>2, TenancyAssumption DEF CreateSeedUser
  <2>3. CASE AddSeedRegistry(s)
    BY <2>3 DEF AddSeedRegistry, Consistent, SeedKnows
  <2>4. CASE FindRegistryAgain(s) \/ FindKey(s) \/ ReplaceKey(s) \/ ClearKey(s) \/ AddSeedKey(s)
    BY <1>2, <2>4
    DEF FindRegistryAgain, Find, FindKey, ReplaceKey, ClearKey, RemoveKeyOf, AddSeedKey
  <2>5. CASE AlignUser(s)
    <3>1. seeds[s].registry.tenant \in tenants
      BY <2>5, SeedTenant DEF AlignUser
    <3> QED
      BY <2>5, <3>1, TenancyAssumption DEF AlignUser, Consistent, UserTypes
  <2>6. CASE OnboardSeedUser(s)
    <3>1. seeds[s].registry.tenant \in owned /\ tenantOf[Seeder] # NoTenant
      BY <2>6, SeedTenant DEF OnboardSeedUser, Aligned, In
    <3> QED
      BY <2>6, <3>1, TenancyAssumption DEF OnboardSeedUser
  <2> QED
    BY <1>3, <2>1, <2>2, <2>3, <2>4, <2>5, <2>6 DEF RunSeed
<1>4. ASSUME NEW s \in Seed, RestartSeed(s) \/ FailSeed(s)
      PROVE  UserMove
  BY <1>2, <1>4 DEF RestartSeed, FailSeed
<1>5. CASE UNCHANGED tenancyVars
  BY <1>5 DEF tenancyVars, userVars
<1> QED
  BY <1>1, <1>3, <1>4, <1>5 DEF TenancyNext

\* So does the registry.
LEMMA RegistryMoves == Consistent /\ [TenancyNext]_tenancyVars => RegistryMove
<1> SUFFICES ASSUME Consistent, [TenancyNext]_tenancyVars
             PROVE  RegistryMove
  OBVIOUS
<1> USE DEF RegistryMove
<1>1. ASSUME NEW q \in Request, AddRegistry(q)
      PROVE  RegistryMove
  <2>1. requests[q].tenant \in tenants
    BY <1>1 DEF AddRegistry, Doing, Consistent, RequestKnows
  <2> QED
    BY <1>1, <2>1 DEF AddRegistry
<1>2. ASSUME NEW q \in Request, RemoveRegistry(q)
      PROVE  RegistryMove
  BY <1>2 DEF RemoveRegistry, registryVars
<1>3. CASE Dashboard /\ UNCHANGED registryVars
  BY <1>3
<1>4. CASE Dashboard
  BY <1>1, <1>2, <1>3, <1>4
  DEF Dashboard, GetCurrentUser, Arrive, OnboardUser, AddAPIKey, RemoveAPIKey, FailRequest
<1>5. ASSUME NEW s \in Seed, AddSeedRegistry(s)
      PROVE  RegistryMove
  BY <1>5 DEF AddSeedRegistry, Consistent, SeedKnows
<1>6. ASSUME NEW s \in Seed, RunSeed(s)
      PROVE  RegistryMove
  BY <1>5, <1>6
  DEF RunSeed, StartSeed, FindRegistry, FindRegistryAgain, Find, CreateSeedUser, AlignUser,
      OnboardSeedUser, FindKey, InspectKey, ReplaceKey, ListKeys, ClearKey, RemoveKeyOf,
      AddSeedKey, EndSeed
<1>7. ASSUME NEW s \in Seed, RestartSeed(s) \/ FailSeed(s)
      PROVE  RegistryMove
  BY <1>7 DEF RestartSeed, FailSeed
<1>8. CASE UNCHANGED tenancyVars
  BY <1>8 DEF tenancyVars, registryVars
<1> QED
  BY <1>4, <1>6, <1>7, <1>8 DEF TenancyNext

\* And so do keys.
LEMMA KeyMoves == Consistent /\ [TenancyNext]_tenancyVars => KeyMove
<1> SUFFICES ASSUME Consistent, [TenancyNext]_tenancyVars
             PROVE  KeyMove
  OBVIOUS
<1> USE DEF KeyMove, keyVars
<1>1. ASSUME NEW q \in Request, AddAPIKey(q)
      PROVE  KeyMove
  <2>1. requests[q].user \in User /\ tenantOf[requests[q].user] # NoTenant
    BY <1>1 DEF AddAPIKey, Doing, Consistent, RequestKnows, RequestRow
  <2>2. registry.id \in Nat
    BY DEF Consistent, RegistryTypes, RegistryRow
  <2> QED
    BY <1>1, <2>1, <2>2 DEF AddAPIKey, Label
<1>2. ASSUME NEW q \in Request, RemoveRegistry(q) \/ RemoveAPIKey(q)
      PROVE  KeyMove
  BY <1>2 DEF RemoveRegistry, RemoveAPIKey
<1>3. CASE Dashboard
  BY <1>1, <1>2, <1>3 DEF Dashboard, GetCurrentUser, Arrive, AddRegistry, OnboardUser, FailRequest
<1>4. ASSUME NEW s \in Seed, ReplaceKey(s) \/ ClearKey(s)
      PROVE  KeyMove
  BY <1>4 DEF ReplaceKey, ClearKey, RemoveKeyOf
<1>5. ASSUME NEW s \in Seed, AddSeedKey(s)
      PROVE  KeyMove
  <2>1. tenantOf[Seeder] # NoTenant /\ seeds[s].registry.id \in Nat
    BY <1>5, SeedTenant DEF AddSeedKey, Aligned, In
  <2> QED
    BY <1>5, <2>1, TenancyAssumption DEF AddSeedKey, Label
<1>6. ASSUME NEW s \in Seed, RunSeed(s)
      PROVE  KeyMove
  BY <1>4, <1>5, <1>6
  DEF RunSeed, StartSeed, FindRegistry, FindRegistryAgain, Find, CreateSeedUser,
      AddSeedRegistry, AlignUser, OnboardSeedUser, FindKey, InspectKey, ListKeys, EndSeed
<1>7. ASSUME NEW s \in Seed, RestartSeed(s) \/ FailSeed(s)
      PROVE  KeyMove
  BY <1>7 DEF RestartSeed, FailSeed
<1>8. CASE UNCHANGED tenancyVars
  BY <1>8 DEF tenancyVars
<1> QED
  BY <1>3, <1>6, <1>7, <1>8 DEF TenancyNext

-----------------------------------------------------------------------------
(* What no step undoes *)

\* Tenants stay, and users, ids, and what was done for a tenant; a key keeps all but
\* its scope.
Stays ==
    /\ tenants \subseteq tenants' /\ onboarded \subseteq onboarded' /\ owned \subseteq owned'
    /\ \A u \in User : tenantOf[u] # NoTenant => tenantOf'[u] # NoTenant
    /\ lastId' \in Nat /\ lastId <= lastId'
    /\ lastKey' \in Nat /\ lastKey <= lastKey'
    /\ \A k \in apiKeys' :
          \/ k.id > lastKey
          \/ \E j \in apiKeys : /\ j.id = k.id /\ j.user = k.user /\ j.name = k.name
                                /\ j.prefix = k.prefix /\ j.secret = k.secret
                                /\ k.scope \in {j.scope, 0}

\* The types of users and tenants.
LEMMA UserStep ==
    ASSUME UserTypes, UserMove
    PROVE  /\ UserTypes'
           /\ tenants \subseteq tenants' /\ onboarded \subseteq onboarded' /\ owned \subseteq owned'
           /\ \A u \in User : tenantOf[u] # NoTenant => tenantOf'[u] # NoTenant
<1>1. CASE UNCHANGED userVars
  BY <1>1 DEF UserTypes, userVars
<1>2. ASSUME NEW u \in User, NEW t \in Tenant, PutUser(u, t)
      PROVE  /\ UserTypes'
             /\ tenants \subseteq tenants' /\ onboarded \subseteq onboarded' /\ owned \subseteq owned'
             /\ \A v \in User : tenantOf[v] # NoTenant => tenantOf'[v] # NoTenant
  BY <1>2, TenancyAssumption DEF UserTypes, PutUser
<1>3. ASSUME NEW u \in User, NEW t \in owned, tenantOf[u] # NoTenant, SetUserOnboarded(u, t)
      PROVE  /\ UserTypes'
             /\ tenants \subseteq tenants' /\ onboarded \subseteq onboarded' /\ owned \subseteq owned'
             /\ \A v \in User : tenantOf[v] # NoTenant => tenantOf'[v] # NoTenant
  BY <1>3 DEF UserTypes, SetUserOnboarded
<1>4. ASSUME NEW t \in owned, Unmarked(t)
      PROVE  /\ UserTypes'
             /\ tenants \subseteq tenants' /\ onboarded \subseteq onboarded' /\ owned \subseteq owned'
             /\ \A v \in User : tenantOf[v] # NoTenant => tenantOf'[v] # NoTenant
  BY <1>4 DEF UserTypes, Unmarked
<1>5. ASSUME NEW t \in tenants, InsertRegistry(t)
      PROVE  /\ UserTypes'
             /\ tenants \subseteq tenants' /\ onboarded \subseteq onboarded' /\ owned \subseteq owned'
             /\ \A v \in User : tenantOf[v] # NoTenant => tenantOf'[v] # NoTenant
  BY <1>5 DEF UserTypes, InsertRegistry
<1> QED
  BY <1>1, <1>2, <1>3, <1>4, <1>5 DEF UserMove

\* The types of the registry.
LEMMA RegistryStep ==
    ASSUME UserTypes, RegistryTypes, RegistryMove, owned \subseteq owned'
    PROVE  RegistryTypes' /\ lastId <= lastId'
<1>1. CASE UNCHANGED registryVars
  BY <1>1 DEF RegistryTypes, registryVars
<1>2. ASSUME NEW t \in tenants, InsertRegistry(t)
      PROVE  RegistryTypes' /\ lastId <= lastId'
  BY <1>2 DEF InsertRegistry, RegistryTypes, RegistryRow, UserTypes
<1>3. CASE registry' = NoRegistry /\ lastId' = lastId
  BY <1>3 DEF RegistryTypes, RegistryRow, NoRegistry
<1> QED
  BY <1>1, <1>2, <1>3 DEF RegistryMove

\* The types of the keys, and what they keep.
LEMMA KeyStep ==
    ASSUME KeyTypes, KeyMove, UserTypes,
           \A u \in User : tenantOf[u] # NoTenant => tenantOf'[u] # NoTenant
    PROVE  /\ KeyTypes'
           /\ lastKey <= lastKey'
           /\ \A k \in apiKeys' :
                 \/ k.id > lastKey
                 \/ \E j \in apiKeys : /\ j.id = k.id /\ j.user = k.user /\ j.name = k.name
                                       /\ j.prefix = k.prefix /\ j.secret = k.secret
                                       /\ k.scope \in {j.scope, 0}
<1> DEFINE From(k, j) == /\ j.id = k.id /\ j.user = k.user /\ j.name = k.name
                         /\ j.prefix = k.prefix /\ j.secret = k.secret
                         /\ k.scope \in {j.scope, 0}
           Goal == /\ KeyTypes' /\ lastKey <= lastKey'
                   /\ \A k \in apiKeys' : k.id > lastKey \/ \E j \in apiKeys : From(k, j)
<1>1. CASE apiKeys' \subseteq apiKeys /\ lastKey' = lastKey
  BY <1>1 DEF KeyTypes, KeyRow
<1>2. CASE apiKeys' = {[k EXCEPT !.scope = 0] : k \in apiKeys} /\ lastKey' = lastKey
  <2>1. ASSUME NEW k \in apiKeys'
        PROVE  /\ k \in KeyRow
               /\ \E j \in apiKeys : k = [j EXCEPT !.scope = 0] /\ From(k, j)
    <3>1. PICK j \in apiKeys : k = [j EXCEPT !.scope = 0]
      BY <1>2
    <3>2. j \in KeyRow
      BY DEF KeyTypes
    <3>3. k \in KeyRow /\ From(k, j)
      BY <3>1, <3>2 DEF KeyRow
    <3> QED
      BY <3>1, <3>3
  <2>2. \A k \in apiKeys' : tenantOf'[k.user] # NoTenant /\ k.id <= lastKey'
    BY <1>2, <2>1 DEF KeyTypes, KeyRow
  <2>3. \A j, k \in apiKeys' : j.id = k.id => j = k
    BY <2>1 DEF KeyTypes
  <2> QED
    BY <1>2, <2>1, <2>2, <2>3 DEF KeyTypes
<1>3. ASSUME NEW u \in User, NEW p \in Label, NEW id \in Nat,
             tenantOf[u] # NoTenant, InsertKey(u, p, id)
      PROVE  Goal
  <2> DEFINE new == [id |-> lastKey', user |-> u, name |-> "configured", prefix |-> p,
                     secret |-> p, scope |-> id]
  <2>1. lastKey' = lastKey + 1 /\ lastKey \in Nat /\ apiKeys' = apiKeys \cup {new}
    BY <1>3 DEF InsertKey, KeyTypes
  <2>2. new \in KeyRow /\ new.id = lastKey' /\ new.user = u
    BY <2>1 DEF KeyRow, Label
  <2> HIDE DEF new
  <2>3. ASSUME NEW k \in apiKeys
        PROVE  k \in KeyRow /\ k.id \in Nat /\ k.id <= lastKey /\ From(k, k)
                 /\ tenantOf'[k.user] # NoTenant
    BY DEF KeyTypes, KeyRow
  <2>4. \A j, k \in apiKeys' : j.id = k.id => j = k
    BY <2>1, <2>2, <2>3 DEF KeyTypes
  <2>5. KeyTypes'
    BY <1>3, <2>1, <2>2, <2>3, <2>4 DEF KeyTypes
  <2> QED
    BY <2>1, <2>2, <2>3, <2>5
<1>4. CASE UNCHANGED <<apiKeys, lastKey>>
  BY <1>1, <1>4
<1> QED
  BY <1>1, <1>2, <1>3, <1>4 DEF KeyMove

\* Together.
LEMMA StepStays ==
    ASSUME Consistent, [TenancyNext]_tenancyVars
    PROVE  UserTypes' /\ RegistryTypes' /\ KeyTypes' /\ Stays
<1>1. UserMove /\ RegistryMove /\ KeyMove
  BY UserMoves, RegistryMoves, KeyMoves
<1>2. UserTypes /\ RegistryTypes /\ KeyTypes
  BY DEF Consistent
<1>3. /\ UserTypes'
      /\ tenants \subseteq tenants' /\ onboarded \subseteq onboarded' /\ owned \subseteq owned'
      /\ \A u \in User : tenantOf[u] # NoTenant => tenantOf'[u] # NoTenant
  BY <1>1, <1>2, UserStep
<1>4. RegistryTypes' /\ lastId <= lastId'
  BY <1>1, <1>2, <1>3, RegistryStep
<1> QED
  BY <1>1, <1>2, <1>3, <1>4, KeyStep DEF Stays, RegistryTypes, KeyTypes

-----------------------------------------------------------------------------
(* Requests and runs *)

RequestsKnow == requests \in [Request -> RequestRow] /\ \A q \in Request : RequestKnows(q)

\* What is known of a request that does not move stays known.
LEMMA RequestKept ==
    ASSUME Consistent, Stays, NEW p \in Request, requests'[p] = requests[p]
    PROVE  requests'[p] \in RequestRow' /\ RequestKnows(p)'
<1>1. requests[p] \in RequestRow /\ RequestKnows(p)
  BY DEF Consistent
<1>2. tenants \subseteq tenants'
  BY DEF Stays
<1>3. requests'[p] \in RequestRow'
  BY <1>1, <1>2 DEF RequestRow
<1> QED
  BY <1>1, <1>3 DEF RequestKnows, Doing, Stays, RequestRow

\* One request moves, to a row of which enough is known.
LEMMA RequestMove ==
    ASSUME Consistent, Stays, NEW q \in Request, NEW w \in RequestRow',
           requests' = [requests EXCEPT ![q] = w],
           w.step # "idle" =>
              /\ tenantOf'[w.user] # NoTenant /\ w.tenant \in tenants'
              /\ w.onboarded => w.tenant \in onboarded'
              /\ w.step = "onboard" => w.tenant \in owned'
    PROVE  RequestsKnow'
<1>1. requests \in [Request -> RequestRow]
  BY DEF Consistent
<1>2. requests'[q] = w /\ \A p \in Request : p # q => requests'[p] = requests[p]
  BY <1>1, RequestAfter
<1>3. \A p \in Request : requests'[p] \in RequestRow' /\ RequestKnows(p)'
  <2> TAKE p \in Request
  <2>1. CASE p = q
    BY <1>2, <2>1 DEF RequestKnows, Doing
  <2>2. CASE p # q
    BY <1>2, <2>2, RequestKept
  <2> QED
    BY <2>1, <2>2
<1>4. requests' \in [Request -> RequestRow']
  BY <1>1, <1>3
<1> QED
  BY <1>3, <1>4 DEF RequestsKnow

\* The answer.
LEMMA ReplyMove ==
    ASSUME Consistent, Stays, NEW q \in Request, Reply(q)
    PROVE  RequestsKnow'
<1>1. IdleRequest \in RequestRow' /\ IdleRequest.step = "idle"
  BY TenancyAssumption DEF IdleRequest, RequestRow
<1> QED
  BY <1>1, RequestMove DEF Reply

\* What is known of requests stays known.
LEMMA RequestStep == Consistent /\ Stays /\ [TenancyNext]_tenancyVars => RequestsKnow'
<1> SUFFICES ASSUME Consistent, Stays, [TenancyNext]_tenancyVars
             PROVE  RequestsKnow'
  OBVIOUS
<1>1. ASSUME UNCHANGED requests
      PROVE  RequestsKnow'
  BY <1>1, RequestKept DEF RequestsKnow, Consistent
<1>2. ASSUME NEW u \in User, NEW t \in Tokens[u], NEW q \in Request,
             NEW step \in RequestSteps \ {"onboard"}, Arrive(q, u, t, step)
      PROVE  RequestsKnow'
  <2> DEFINE w == [step |-> step, user |-> u, tenant |-> t, onboarded |-> t \in onboarded,
                   id |-> registry.id]
  <2>1. requests' = [requests EXCEPT ![q] = w]
    BY <1>2 DEF Arrive
  <2>2. t \in Tenant /\ t \in tenants' /\ tenantOf'[u] = t /\ onboarded' = onboarded
    BY <1>2, TenancyAssumption DEF Arrive, PutUser, Consistent, UserTypes
  <2>3. registry.id \in Nat
    BY DEF Consistent, RegistryTypes, RegistryRow
  <2>4. w \in RequestRow'
    BY <2>2, <2>3 DEF RequestRow, RequestSteps
  <2>5. /\ tenantOf'[w.user] # NoTenant /\ w.tenant \in tenants'
        /\ w.onboarded => w.tenant \in onboarded'
        /\ w.step # "onboard"
    BY <2>2, TenancyAssumption
  <2> HIDE DEF w
  <2> QED
    BY <2>1, <2>4, <2>5, RequestMove
<1>3. ASSUME NEW q \in Request, AddRegistry(q)
      PROVE  RequestsKnow'
  <2>1. CASE Reply(q)
    BY <2>1, ReplyMove
  <2>2. CASE /\ InsertRegistry(requests[q].tenant)
             /\ requests' = [requests EXCEPT ![q].step = "onboard"]
    <3> DEFINE w == [requests[q] EXCEPT !.step = "onboard"]
    <3>1. requests' = [requests EXCEPT ![q] = w]
      BY <2>2
    <3>2. requests[q] \in RequestRow /\ RequestKnows(q) /\ ~Doing(q, "idle")
      BY <1>3 DEF Consistent, AddRegistry, Doing
    <3>3. /\ w \in RequestRow' /\ w.step = "onboard" /\ w.user = requests[q].user
          /\ w.tenant = requests[q].tenant /\ w.onboarded = requests[q].onboarded
      BY <3>2 DEF RequestRow, RequestSteps, Stays
    <3>4. /\ tenantOf'[w.user] # NoTenant /\ w.tenant \in tenants'
          /\ w.onboarded => w.tenant \in onboarded'
          /\ w.tenant \in owned'
      BY <2>2, <3>2, <3>3 DEF RequestKnows, Stays, RequestRow, InsertRegistry
    <3> HIDE DEF w
    <3> QED
      BY <3>1, <3>3, <3>4, RequestMove
  <2> QED
    BY <1>3, <2>1, <2>2 DEF AddRegistry
<1>4. ASSUME NEW q \in Request,
             OnboardUser(q) \/ RemoveRegistry(q) \/ AddAPIKey(q) \/ RemoveAPIKey(q) \/ FailRequest(q)
      PROVE  RequestsKnow'
  BY <1>4, ReplyMove DEF OnboardUser, RemoveRegistry, AddAPIKey, RemoveAPIKey, FailRequest
<1>5. CASE Dashboard
  BY <1>1, <1>2, <1>3, <1>4, <1>5 DEF Dashboard, GetCurrentUser
<1>6. ASSUME NEW s \in Seed, RunSeed(s) \/ RestartSeed(s) \/ FailSeed(s)
      PROVE  RequestsKnow'
  <2>1. UNCHANGED requests
    BY <1>6
    DEF RunSeed, StartSeed, FindRegistry, FindRegistryAgain, Find, CreateSeedUser,
        AddSeedRegistry, AlignUser, OnboardSeedUser, FindKey, InspectKey, ReplaceKey, ListKeys,
        ClearKey, RemoveKeyOf, AddSeedKey, EndSeed, RestartSeed, FailSeed
  <2> QED
    BY <1>1, <2>1
<1> QED
  BY <1>1, <1>5, <1>6 DEF TenancyNext, tenancyVars

SeedsKnow == seeds \in [Seed -> SeedRow] /\ \A s \in Seed : SeedKnows(s)

\* What is known of a run that does not move stays known: ids are not used again, and a
\* key that comes to be has a new one.
LEMMA SeedKept ==
    ASSUME Consistent, Stays, KeyTypes', NEW p \in Seed, seeds'[p] = seeds[p]
    PROVE  SeedKnows(p)'
<1>1. seeds[p] \in SeedRow /\ SeedKnows(p) /\ lastKey \in Nat /\ lastId \in Nat
  BY DEF Consistent, KeyTypes, RegistryTypes
<1>2. seeds[p].key \in Nat /\ seeds[p].registry.id \in Nat /\ seeds[p].todo \in SUBSET Nat
  BY <1>1 DEF SeedRow, RegistryRow
<1>3. \A k \in apiKeys' : k.id \in Nat
  BY DEF KeyTypes, KeyRow
<1>4. Searching(p) => seeds'[p].registry = NoRegistry
  BY <1>1 DEF SeedKnows
<1>5. In(p, "add") => Personal[Seeder] \in tenants'
  BY <1>1 DEF SeedKnows, Stays
<1>6. In(p, "align") \/ Aligned(p) =>
        seeds'[p].registry.id \in 1..lastId' /\ seeds'[p].registry.tenant \in owned'
  BY <1>1 DEF SeedKnows, Stays
<1>7. Aligned(p) => tenantOf'[Seeder] # NoTenant
  BY <1>1, TenancyAssumption DEF SeedKnows, Stays
<1>8. In(p, "scopes") \/ In(p, "replace") =>
        /\ seeds'[p].key <= lastKey'
        /\ \A k \in apiKeys' : k.id = seeds'[p].key =>
              k.user = Seeder /\ k.prefix = "configured" /\ k.secret = "configured"
  BY <1>1, <1>2, <1>3 DEF SeedKnows, Stays
<1>9. In(p, "replace") => \A k \in apiKeys' : k.id = seeds'[p].key =>
          k.name # "configured" \/ k.scope # seeds'[p].registry.id
  <2> SUFFICES ASSUME In(p, "replace"), NEW k \in apiKeys', k.id = seeds[p].key
               PROVE  k.name # "configured" \/ k.scope # seeds[p].registry.id
    OBVIOUS
  <2>1. seeds[p].key <= lastKey /\ seeds[p].registry.id # 0
    BY <1>1 DEF SeedKnows, In, Aligned
  <2>2. PICK j \in apiKeys : j.id = k.id /\ j.name = k.name /\ k.scope \in {j.scope, 0}
    BY <1>1, <1>2, <2>1 DEF Stays
  <2> QED
    BY <1>1, <2>1, <2>2 DEF SeedKnows
<1>10. In(p, "clear") =>
        /\ \A i \in seeds'[p].todo : i <= lastKey'
        /\ \A k \in apiKeys' : k.id \in seeds'[p].todo => k.prefix # "configured"
  BY <1>1, <1>2, <1>3 DEF SeedKnows, Stays
<1> QED
  BY <1>4, <1>5, <1>6, <1>7, <1>8, <1>9, <1>10 DEF SeedKnows, Searching, Aligned, In

\* One run moves, to a row of which enough is known.
LEMMA SeedMove ==
    ASSUME Consistent, Stays, KeyTypes', NEW s \in Seed,
           seeds' \in [Seed -> SeedRow], \A p \in Seed : p # s => seeds'[p] = seeds[p],
           SeedKnows(s)'
    PROVE  SeedsKnow'
<1>1. \A p \in Seed : SeedKnows(p)'
  BY SeedKept
<1>2. SeedRow' = SeedRow
  BY DEF SeedRow
<1> QED
  BY <1>1, <1>2 DEF SeedsKnow

\* The rows of runs keep their types.
LEMMA SeedRows ==
    ASSUME seeds \in [Seed -> SeedRow], NEW s \in Seed,
           NEW step \in SeedSteps \cup {"failed", "succeeded"},
           NEW r \in RegistryRow, NEW key \in Nat, NEW K \in SUBSET Nat,
           \/ seeds' = [seeds EXCEPT ![s].step = step]
           \/ seeds' = [seeds EXCEPT ![s].step = step, ![s].registry = r]
           \/ seeds' = [seeds EXCEPT ![s].step = step, ![s].key = key]
           \/ seeds' = [seeds EXCEPT ![s].step = step, ![s].todo = K]
    PROVE  seeds' \in [Seed -> SeedRow]
<1>1. seeds[s] \in SeedRow
  OBVIOUS
<1>2. /\ [seeds[s] EXCEPT !.step = step] \in SeedRow
      /\ [seeds[s] EXCEPT !.step = step, !.registry = r] \in SeedRow
      /\ [seeds[s] EXCEPT !.step = step, !.key = key] \in SeedRow
      /\ [seeds[s] EXCEPT !.step = step, !.todo = K] \in SeedRow
  BY <1>1 DEF SeedRow
<1> HIDE DEF SeedRow
<1> QED
  BY <1>2

\* A run that starts or fails.
LEMMA SeedStarts ==
    ASSUME Consistent, Stays, KeyTypes', NEW s \in Seed, NEW step \in {"find", "failed"},
           seeds' = [seeds EXCEPT ![s] = SeedAt(step)]
    PROVE  SeedsKnow'
<1>1. seeds'[s] = SeedAt(step)
  BY SeedAfter DEF Consistent
<1>2. SeedAt(step) \in SeedRow
  BY DEF SeedAt, SeedRow, SeedSteps, NoRegistry, RegistryRow
<1>3. SeedKnows(s)'
  BY <1>1 DEF SeedKnows, SeedAt, In, Aligned, Searching
<1>4. seeds' \in [Seed -> SeedRow] /\ \A p \in Seed : p # s => seeds'[p] = seeds[p]
  BY <1>2 DEF Consistent
<1> QED
  BY <1>3, <1>4, SeedMove

\* A run only goes on to another step, of which it knows enough.
LEMMA SeedGoes ==
    ASSUME Consistent, Stays, KeyTypes', NEW s \in Seed,
           NEW step \in SeedSteps \cup {"failed", "succeeded"}, Goto(s, step),
           SeedKnows(s)'
    PROVE  SeedsKnow'
<1>1. seeds' \in [Seed -> SeedRow]
  <2>1. NoRegistry \in RegistryRow
    BY DEF NoRegistry, RegistryRow
  <2>2. seeds \in [Seed -> SeedRow] /\ seeds' = [seeds EXCEPT ![s].step = step]
    BY DEF Consistent, Goto
  <2> QED
    BY <2>1, <2>2, 0 \in Nat, {} \in SUBSET Nat, SeedRows
<1>2. \A p \in Seed : p # s => seeds'[p] = seeds[p]
  BY GotoAfter DEF Consistent
<1> QED
  BY <1>1, <1>2, SeedMove

\* A run that finds the registry.
LEMMA FindStep ==
    ASSUME Consistent, Stays, KeyTypes', RegistryTypes', NEW s \in Seed,
           registry' # NoRegistry,
           seeds' = [seeds EXCEPT ![s].step = "align", ![s].registry = registry']
    PROVE  SeedsKnow'
<1>1. registry' \in RegistryRow /\ registry'.id \in 1..lastId' /\ registry'.tenant \in owned'
  BY DEF RegistryTypes, RegistryRow
<1>2. /\ seeds \in [Seed -> SeedRow] /\ {} \in SUBSET Nat /\ 0 \in Nat
      /\ "align" \in SeedSteps \cup {"failed", "succeeded"}
  BY DEF Consistent, SeedSteps
<1>3. seeds' \in [Seed -> SeedRow]
  BY <1>1, <1>2, SeedRows
<1>4. /\ seeds'[s].step = "align" /\ seeds'[s].registry = registry'
      /\ \A p \in Seed : p # s => seeds'[p] = seeds[p]
  <2>1. NotesRegistry(s, "align", registry')
    BY DEF NotesRegistry
  <2> QED
    BY <1>2, <2>1, NoteRegistryAfter
<1>5. SeedKnows(s)'
  BY <1>1, <1>4 DEF SeedKnows, Searching, Aligned, In
<1> QED
  BY <1>3, <1>4, <1>5, SeedMove

\* A run that removes a key.
LEMMA RemoveStep ==
    ASSUME Consistent, Stays, KeyTypes', NEW s \in Seed, NEW id, NEW step \in {"list", "clear"},
           RemoveKeyOf(s, id, step), Aligned(s), step = "clear" => In(s, "clear")
    PROVE  SeedsKnow'
<1>1. CASE Fails(s)
  BY <1>1, SeedStarts DEF Fails
<1>2. CASE /\ apiKeys' = apiKeys \ KeyById(id)
           /\ seeds' = [seeds EXCEPT ![s].step = step, ![s].todo = @ \ {id}]
  <2> DEFINE K == seeds[s].todo \ {id}
  <2>1. seeds \in [Seed -> SeedRow] /\ seeds[s] \in SeedRow /\ SeedKnows(s)
    BY DEF Consistent
  <2>2. K \in SUBSET Nat /\ NoRegistry \in RegistryRow /\ 0 \in Nat
        /\ step \in SeedSteps \cup {"failed", "succeeded"}
    BY <2>1 DEF SeedRow, SeedSteps, NoRegistry, RegistryRow
  <2>3. seeds' = [seeds EXCEPT ![s].step = step, ![s].todo = K]
    BY <1>2, <2>1
  <2>4. K \subseteq seeds[s].todo
    OBVIOUS
  <2> HIDE DEF K
  <2>5. seeds' \in [Seed -> SeedRow]
    BY <2>1, <2>2, <2>3, SeedRows
  <2>6. /\ seeds'[s].step = step /\ seeds'[s].registry = seeds[s].registry
        /\ seeds'[s].key = seeds[s].key /\ seeds'[s].todo = K
        /\ \A p \in Seed : p # s => seeds'[p] = seeds[p]
    <3>1. NotesTodo(s, step, K)
      BY <2>3 DEF NotesTodo
    <3> QED
      BY <2>1, <3>1, NoteTodoAfter
  <2>7. seeds[s].registry.id \in 1..lastId' /\ seeds[s].registry.tenant \in owned'
        /\ tenantOf'[Seeder] # NoTenant
    BY <2>1, TenancyAssumption DEF SeedKnows, Stays, Consistent, RegistryTypes
  <2>8. In(s, "clear") => /\ \A i \in K : i <= lastKey'
                          /\ \A k \in apiKeys' : k.id \in K => k.prefix # "configured"
    BY <1>2, <2>1, <2>2, <2>4 DEF SeedKnows, Stays, Consistent, KeyTypes
  <2>9. SeedKnows(s)'
    BY <2>6, <2>7, <2>8 DEF SeedKnows, Searching, Aligned, In
  <2> QED
    BY <2>5, <2>6, <2>9, SeedMove
<1> QED
  BY <1>1, <1>2 DEF RemoveKeyOf

\* What is known of runs stays known.
LEMMA SeedStep ==
    ASSUME Consistent, Stays, KeyTypes', RegistryTypes', [TenancyNext]_tenancyVars
    PROVE  SeedsKnow'
<1> USE DEF Searching, Aligned, In
<1>0. /\ seeds \in [Seed -> SeedRow] /\ lastKey \in Nat
      /\ \A s \in Seed : SeedKnows(s) /\ seeds[s] \in SeedRow
  BY DEF Consistent, KeyTypes
<1>1. ASSUME UNCHANGED seeds
      PROVE  SeedsKnow'
  <2>1. \A s \in Seed : SeedKnows(s)'
    BY <1>1, SeedKept
  <2> QED
    BY <1>0, <1>1, <2>1 DEF SeedsKnow, SeedRow
<1>2. ASSUME NEW s \in Seed, StartSeed(s) \/ RestartSeed(s)
      PROVE  SeedsKnow'
  BY <1>2, SeedStarts DEF StartSeed, RestartSeed
<1>3. ASSUME NEW s \in Seed, Fails(s)
      PROVE  SeedsKnow'
  BY <1>3, SeedStarts DEF Fails
<1>4. ASSUME NEW s \in Seed, NEW step \in SeedSteps \cup {"succeeded"}, Goto(s, step)
      PROVE  /\ SeedKnows(s)' => SeedsKnow'
             /\ seeds'[s].step = step /\ seeds'[s].registry = seeds[s].registry
             /\ seeds'[s].key = seeds[s].key /\ seeds'[s].todo = seeds[s].todo
  BY <1>0, <1>4, SeedGoes, GotoAfter
<1>5. ASSUME NEW s \in Seed, FindRegistry(s) \/ FindRegistryAgain(s)
      PROVE  SeedsKnow'
  <2>1. CASE Goto(s, "create") /\ In(s, "find")
    <3>1. SeedKnows(s)'
      BY <1>0, <1>4, <2>1 DEF SeedKnows, SeedSteps
    <3> QED
      BY <1>4, <2>1, <3>1 DEF SeedSteps
  <2>2. CASE registry' # NoRegistry /\
             seeds' = [seeds EXCEPT ![s].step = "align", ![s].registry = registry']
    BY <2>2, FindStep
  <2> QED
    BY <1>3, <1>5, <2>1, <2>2 DEF FindRegistry, FindRegistryAgain, Find, registryVars
<1>6. ASSUME NEW s \in Seed, CreateSeedUser(s)
      PROVE  SeedsKnow'
  <2>1. /\ Goto(s, "add") /\ seeds[s].registry = NoRegistry /\ Personal[Seeder] \in tenants'
    BY <1>0, <1>6 DEF CreateSeedUser, SeedKnows, PutUser
  <2>2. SeedKnows(s)'
    BY <1>4, <2>1 DEF SeedKnows, SeedSteps
  <2> QED
    BY <1>4, <2>1, <2>2 DEF SeedSteps
<1>7. ASSUME NEW s \in Seed, AddSeedRegistry(s)
      PROVE  SeedsKnow'
  <2>1. CASE InsertRegistry(Personal[Seeder]) /\
             seeds' = [seeds EXCEPT ![s].step = "align", ![s].registry = registry']
    <3>1. registry' # NoRegistry
      BY <2>1 DEF InsertRegistry, NoRegistry, Consistent, RegistryTypes
    <3> QED
      BY <2>1, <3>1, FindStep
  <2>2. CASE Goto(s, "again")
    <3>1. SeedKnows(s)'
      BY <1>0, <1>4, <1>7, <2>2 DEF SeedKnows, SeedSteps, AddSeedRegistry
    <3> QED
      BY <1>4, <2>2, <3>1 DEF SeedSteps
  <2> QED
    BY <1>7, <2>1, <2>2 DEF AddSeedRegistry
<1>8. ASSUME NEW s \in Seed, In(s, "align") \/ Aligned(s)
      PROVE  seeds[s].registry.id \in 1..lastId' /\ seeds[s].registry.tenant \in owned'
             /\ (Aligned(s) => tenantOf'[Seeder] # NoTenant)
  BY <1>0, <1>8, TenancyAssumption DEF SeedKnows, Stays, Consistent, RegistryTypes
<1>9. ASSUME NEW s \in Seed, AlignUser(s)
      PROVE  SeedsKnow'
  <2> DEFINE step == IF seeds[s].registry.tenant \in onboarded THEN "prefix" ELSE "onboard"
  <2>1. Goto(s, step) /\ step \in {"prefix", "onboard"}
    BY <1>9 DEF AlignUser, Goto
  <2>2. tenantOf'[Seeder] # NoTenant
    <3>1. seeds[s].registry.tenant \in Tenant
      BY <1>9, SeedTenant, SMTT(30) DEF AlignUser, Consistent, UserTypes
    <3> QED
      BY <1>9, <3>1, TenancyAssumption DEF AlignUser, PutUser, Consistent, UserTypes
  <2> HIDE DEF step
  <2>3. SeedKnows(s)'
    BY <1>4, <1>8, <1>9, <2>1, <2>2 DEF SeedKnows, SeedSteps, AlignUser
  <2> QED
    BY <1>4, <2>1, <2>3 DEF SeedSteps
<1>10. ASSUME NEW s \in Seed, OnboardSeedUser(s)
      PROVE  SeedsKnow'
  <2>1. SeedKnows(s)'
    BY <1>4, <1>8, <1>10 DEF SeedKnows, SeedSteps, OnboardSeedUser
  <2> QED
    BY <1>4, <1>10, <2>1 DEF SeedSteps, OnboardSeedUser
<1>11. ASSUME NEW s \in Seed, FindKey(s)
      PROVE  SeedsKnow'
  <2>1. CASE Goto(s, "list")
    <3>1. SeedKnows(s)'
      BY <1>4, <1>8, <1>11, <2>1 DEF SeedKnows, SeedSteps, FindKey
    <3> QED
      BY <1>4, <2>1, <3>1 DEF SeedSteps
  <2>2. ASSUME NEW k \in apiKeys, k.prefix = "configured", k.secret = "configured", k.user = Seeder,
               seeds' = [seeds EXCEPT ![s].step = "scopes", ![s].key = k.id]
        PROVE  SeedsKnow'
    <3>1. k.id \in Nat /\ k.id <= lastKey /\ \A j \in apiKeys : j.id = k.id => j = k
      BY DEF Consistent, KeyTypes, KeyRow
    <3>2. /\ {} \in SUBSET Nat /\ NoRegistry \in RegistryRow
          /\ "scopes" \in SeedSteps \cup {"failed", "succeeded"}
      BY DEF NoRegistry, RegistryRow, SeedSteps
    <3>3. seeds' \in [Seed -> SeedRow]
      BY <1>0, <2>2, <3>1, <3>2, SeedRows
    <3>4. /\ seeds'[s].step = "scopes" /\ seeds'[s].registry = seeds[s].registry
          /\ seeds'[s].key = k.id
          /\ \A p \in Seed : p # s => seeds'[p] = seeds[p]
      <4>1. NotesKey(s, "scopes", k.id)
        BY <2>2 DEF NotesKey
      <4> QED
        BY <1>0, <4>1, NoteKeyAfter
    <3>5. UNCHANGED <<apiKeys, lastKey>>
      BY <1>11 DEF FindKey, keyVars
    <3>6. SeedKnows(s)'
      BY <1>8, <1>11, <2>2, <3>1, <3>4, <3>5 DEF SeedKnows, FindKey
    <3> QED
      BY <3>3, <3>4, <3>6, SeedMove
  <2> QED
    BY <1>3, <1>11, <2>1, <2>2 DEF FindKey
<1>12. ASSUME NEW s \in Seed, InspectKey(s)
      PROVE  SeedsKnow'
  <2>1. CASE Goto(s, "succeeded")
    <3>1. SeedKnows(s)'
      BY <1>4, <2>1 DEF SeedKnows
    <3> QED
      BY <1>4, <2>1, <3>1
  <2>2. CASE Goto(s, "replace") /\ \A k \in apiKeys : k.id = seeds[s].key =>
                                     k.name # "configured" \/ k.scope # seeds[s].registry.id
    <3>1. UNCHANGED <<apiKeys, lastKey>>
      BY <1>12, SMTT(30) DEF InspectKey
    <3>2. SeedKnows(s)'
      BY <1>0, <1>4, <1>8, <1>12, <2>2, <3>1 DEF SeedKnows, SeedSteps, InspectKey
    <3> QED
      BY <1>4, <2>2, <3>2 DEF SeedSteps
  <2> QED
    BY <1>12, <2>1, <2>2 DEF InspectKey
<1>13. ASSUME NEW s \in Seed, ReplaceKey(s) \/ ClearKey(s)
      PROVE  SeedsKnow'
  BY <1>13, RemoveStep DEF ReplaceKey, ClearKey
<1>14. ASSUME NEW s \in Seed, ListKeys(s)
      PROVE  SeedsKnow'
  <2> DEFINE K == {k.id : k \in InTheWay}
  <2>1. /\ K \in SUBSET Nat /\ NoRegistry \in RegistryRow /\ 0 \in Nat
        /\ "clear" \in SeedSteps \cup {"failed", "succeeded"}
    BY DEF InTheWay, Consistent, KeyTypes, KeyRow, NoRegistry, RegistryRow, SeedSteps
  <2>2. /\ \A i \in K : i <= lastKey
        /\ \A k \in apiKeys : k.id \in K => k.prefix # "configured"
    BY DEF InTheWay, Consistent, KeyTypes
  <2>3. seeds' = [seeds EXCEPT ![s].step = "clear", ![s].todo = K]
    BY <1>14 DEF ListKeys
  <2> HIDE DEF K
  <2>4. seeds' \in [Seed -> SeedRow]
    BY <1>0, <2>1, <2>3, SeedRows
  <2>5. /\ seeds'[s].step = "clear" /\ seeds'[s].registry = seeds[s].registry
        /\ seeds'[s].todo = K
        /\ \A p \in Seed : p # s => seeds'[p] = seeds[p]
    <3>1. NotesTodo(s, "clear", K)
      BY <2>3 DEF NotesTodo
    <3> QED
      BY <1>0, <3>1, NoteTodoAfter
  <2>6. SeedKnows(s)'
    BY <1>8, <1>14, <2>2, <2>5 DEF SeedKnows, ListKeys, keyVars
  <2> QED
    BY <2>4, <2>5, <2>6, SeedMove
<1>15. ASSUME NEW s \in Seed, AddSeedKey(s)
      PROVE  SeedsKnow'
  <2>1. CASE Goto(s, "tell")
    <3>1. SeedKnows(s)'
      BY <1>4, <1>8, <1>15, <2>1 DEF SeedKnows, SeedSteps, AddSeedKey
    <3> QED
      BY <1>4, <2>1, <3>1 DEF SeedSteps
  <2> QED
    BY <1>3, <1>15, <2>1 DEF AddSeedKey
<1>16. ASSUME NEW s \in Seed, EndSeed(s)
      PROVE  SeedsKnow'
  <2>1. SeedKnows(s)'
    BY <1>4, <1>16 DEF SeedKnows, EndSeed
  <2> QED
    BY <1>4, <1>16, <2>1 DEF EndSeed
<1>17. CASE Dashboard
  BY <1>1, <1>17
  DEF Dashboard, GetCurrentUser, Arrive, AddRegistry, OnboardUser, RemoveRegistry, AddAPIKey,
      RemoveAPIKey, FailRequest
<1>18. ASSUME NEW s \in Seed, RunSeed(s)
      PROVE  SeedsKnow'
  BY <1>2, <1>5, <1>6, <1>7, <1>9, <1>10, <1>11, <1>12, <1>13, <1>14, <1>15, <1>16, <1>18
  DEF RunSeed
<1> QED
  BY <1>1, <1>2, <1>3, <1>17, <1>18 DEF TenancyNext, FailSeed, tenancyVars

\* Every step keeps all of it.
LEMMA ConsistentStep == Consistent /\ [TenancyNext]_tenancyVars => Consistent'
<1> SUFFICES ASSUME Consistent, [TenancyNext]_tenancyVars
             PROVE  Consistent'
  OBVIOUS
<1>1. UserTypes' /\ RegistryTypes' /\ KeyTypes' /\ Stays
  BY StepStays
<1>2. RequestsKnow' /\ SeedsKnow'
  BY <1>1, RequestStep, SeedStep
<1> QED
  BY <1>1, <1>2 DEF Consistent, RequestsKnow, SeedsKnow

\* It holds at the start.
LEMMA ConsistentInit == TenancyInit => Consistent
<1> SUFFICES ASSUME TenancyInit
             PROVE  Consistent
  OBVIOUS
<1> USE TenancyAssumption
<1>1. owned \in SUBSET Tenant /\ registry \in RegistryRow /\ registry.tenant \in owned \cup {NoTenant}
  BY DEF TenancyInit, NoRegistry, RegistryRow
<1>2. UserTypes
  BY <1>1 DEF TenancyInit, UserTypes
<1>3. RegistryTypes
  BY <1>1 DEF TenancyInit, RegistryTypes, NoRegistry, RegistryRow
<1>4. KeyTypes
  <2>1. apiKeys \in SUBSET KeyRow /\ \A k \in apiKeys : k.id = 1
    BY DEF TenancyInit, KeyRow
  <2>2. \A j, k \in apiKeys : j = k
    BY DEF TenancyInit
  <2>3. \A k \in apiKeys : k.user \in User /\ tenantOf[k.user] = Personal[k.user]
    BY <2>1 DEF TenancyInit, KeyRow
  <2> QED
    BY <2>1, <2>2, <2>3 DEF KeyTypes, TenancyInit
<1>5. RequestsKnow
  <2>1. IdleRequest \in RequestRow
    BY DEF IdleRequest, RequestRow
  <2> QED
    BY <2>1 DEF RequestsKnow, TenancyInit, RequestKnows, Doing, IdleRequest
<1>6. SeedsKnow
  <2>1. SeedAt("failed") \in SeedRow /\ SeedAt("succeeded") \in SeedRow
    BY DEF SeedAt, SeedRow, NoRegistry, RegistryRow
  <2>2. seeds \in [Seed -> SeedRow]
    BY <2>1 DEF TenancyInit
  <2>3. \A s \in Seed : SeedKnows(s)
    BY DEF TenancyInit, SeedKnows, SeedAt, In, Searching, Aligned
  <2> QED
    BY <2>2, <2>3 DEF SeedsKnow
<1> QED
  BY <1>2, <1>3, <1>4, <1>5, <1>6 DEF Consistent, RequestsKnow, SeedsKnow

\* So it always holds.
LEMMA AlwaysConsistent == TenancySpec => []Consistent
  BY ConsistentInit, ConsistentStep, PTL DEF TenancySpec

\* Rows and their references are of the tables' types: a user's tenant, the registry's,
\* and that of every request being handled has its row, and every key has a user with
\* one.
THEOREM TypeCorrect == TenancySpec => []TenancyTypeOK
<1>1. Consistent => TenancyTypeOK
  BY DEF Consistent, UserTypes, RegistryTypes, KeyTypes, TenancyTypeOK, RequestRow, SeedRow
<1> QED
  BY <1>1, AlwaysConsistent, PTL

-----------------------------------------------------------------------------
(* The promise of a run that succeeded *)

\* Every run that is not over works for the registry that is there.
OneRegistry == \A s \in Seed : seeds[s].registry \in {registry, NoRegistry} \/ In(s, "succeeded")

Promise == promised => SeedKeepsItsPromise /\ OneRegistry

\* The configured key, as promised.
Good(k) ==
    /\ k.user = Seeder /\ k.name = "configured"
    /\ k.prefix = "configured" /\ k.secret = "configured"
    /\ registry # NoRegistry /\ k.scope = registry.id

\* Steps that leave the registry and that key alone, and bring no run another registry.
LEMMA PromiseKept ==
    ASSUME Promise, promised' => promised, registry' = registry,
           \A k \in apiKeys : Good(k) => k \in apiKeys',
           \A s \in Seed : \/ seeds'[s].registry \in {registry, NoRegistry}
                           \/ seeds'[s] = seeds[s]
                           \/ In(s, "succeeded")'
                           \/ ~In(s, "succeeded") /\ seeds'[s].registry = seeds[s].registry
    PROVE  Promise'
<1> SUFFICES ASSUME promised'
             PROVE  SeedKeepsItsPromise' /\ OneRegistry'
  BY DEF Promise
<1>1. SeedKeepsItsPromise /\ OneRegistry
  BY DEF Promise
<1>2. OneRegistry'
  BY <1>1 DEF OneRegistry, In
<1>3. SeedKeepsItsPromise'
  BY <1>1 DEF SeedKeepsItsPromise, Good
<1> QED
  BY <1>2, <1>3

\* No step breaks it: not the end of another run, nor a key that one replaces or clears.
LEMMA PromiseStep == Consistent /\ Promise /\ [TenancyNext]_tenancyVars => Promise'
<1> SUFFICES ASSUME Consistent, Promise, [TenancyNext]_tenancyVars
             PROVE  Promise'
  OBVIOUS
<1> USE DEF In
<1>0. /\ seeds \in [Seed -> SeedRow]
      /\ \A s \in Seed : SeedKnows(s) /\ seeds[s] \in SeedRow
      /\ promised => registry # NoRegistry /\ \E k \in apiKeys : Good(k)
  BY DEF Consistent, Promise, SeedKeepsItsPromise, Good
<1>1. CASE UNCHANGED <<registry, apiKeys, promised, seeds>>
  BY <1>1, PromiseKept
<1>2. ASSUME NEW q \in Request, AddRegistry(q)
      PROVE  Promise'
  <2>1. CASE InsertRegistry(requests[q].tenant)
    BY <1>0, <1>2, <2>1 DEF InsertRegistry, AddRegistry, keyVars, Promise
  <2> QED
    BY <1>1, <1>2, <2>1 DEF AddRegistry, registryVars, keyVars
<1>3. ASSUME NEW q \in Request, RemoveRegistry(q)
      PROVE  Promise'
  <2>1. CASE promised' = FALSE
    BY <2>1 DEF Promise
  <2> QED
    BY <1>1, <1>3, <2>1 DEF RemoveRegistry
<1>4. ASSUME NEW q \in Request, AddAPIKey(q)
      PROVE  Promise'
  <2>1. apiKeys \subseteq apiKeys' /\ UNCHANGED <<registry, promised, seeds>>
    BY <1>4 DEF AddAPIKey, InsertKey, registryVars
  <2> QED
    BY <2>1, PromiseKept
<1>5. ASSUME NEW q \in Request, RemoveAPIKey(q)
      PROVE  Promise'
  <2>1. ASSUME NEW k \in apiKeys, apiKeys' = apiKeys \ {k}, k.prefix = "configured",
               promised' = (promised /\ k.prefix # "configured")
        PROVE  Promise'
    BY <2>1 DEF Promise
  <2>2. ASSUME NEW k \in apiKeys, apiKeys' = apiKeys \ {k}, k.prefix # "configured",
               promised' = (promised /\ k.prefix # "configured")
        PROVE  Promise'
    <3>1. UNCHANGED <<registry, seeds>> /\ \A j \in apiKeys : Good(j) => j \in apiKeys'
      BY <1>5, <2>2 DEF RemoveAPIKey, registryVars, Good
    <3> QED
      BY <2>2, <3>1, PromiseKept
  <2> QED
    BY <1>1, <1>5, <2>1, <2>2 DEF RemoveAPIKey, registryVars
<1>6. CASE Dashboard
  BY <1>1, <1>2, <1>3, <1>4, <1>5, <1>6
  DEF Dashboard, GetCurrentUser, Arrive, OnboardUser, FailRequest, registryVars, keyVars
<1>7. ASSUME NEW s \in Seed, NEW step \in {"find", "failed"},
             seeds' = [seeds EXCEPT ![s] = SeedAt(step)], UNCHANGED <<registry, promised>>,
             \A k \in apiKeys : Good(k) => k \in apiKeys'
      PROVE  Promise'
  <2>1. seeds'[s].registry = NoRegistry /\ \A p \in Seed : p # s => seeds'[p] = seeds[p]
    BY <1>0, <1>7, SeedAfter DEF SeedAt
  <2> QED
    BY <1>7, <2>1, PromiseKept
<1>8. ASSUME NEW s \in Seed, NEW step, Goto(s, step), ~In(s, "succeeded"),
             UNCHANGED <<registry, promised>>, \A k \in apiKeys : Good(k) => k \in apiKeys'
      PROVE  Promise'
  <2>1. /\ seeds'[s].registry = seeds[s].registry
        /\ \A p \in Seed : p # s => seeds'[p] = seeds[p]
    BY <1>0, <1>8, GotoAfter
  <2> QED
    BY <1>8, <2>1, PromiseKept
<1>9. ASSUME NEW s \in Seed, FindRegistry(s) \/ FindRegistryAgain(s)
      PROVE  Promise'
  <2>0. UNCHANGED <<registry, apiKeys, promised>> /\ ~In(s, "succeeded")
    BY <1>9 DEF FindRegistry, FindRegistryAgain, Find, registryVars, keyVars
  <2>1. CASE seeds' = [seeds EXCEPT ![s].step = "align", ![s].registry = registry]
    <3>1. NotesRegistry(s, "align", registry)
      BY <2>1 DEF NotesRegistry
    <3>2. seeds'[s].registry = registry /\ \A p \in Seed : p # s => seeds'[p] = seeds[p]
      BY <1>0, <3>1, NoteRegistryAfter
    <3> QED
      BY <2>0, <3>2, PromiseKept
  <2> QED
    BY <1>7, <1>8, <1>9, <2>0, <2>1 DEF FindRegistry, FindRegistryAgain, Find, Fails
<1>10. ASSUME NEW s \in Seed, AddSeedRegistry(s)
      PROVE  Promise'
  <2>1. CASE InsertRegistry(Personal[Seeder])
    BY <1>0, <1>10, <2>1 DEF InsertRegistry, AddSeedRegistry, keyVars, Promise
  <2> QED
    BY <1>8, <1>10, <2>1 DEF AddSeedRegistry, registryVars, keyVars
<1>11. ASSUME NEW s \in Seed, Aligned(s), promised
      PROVE  seeds[s].registry = registry /\ registry.id # 0
  BY <1>0, <1>11 DEF Promise, OneRegistry, SeedKnows, Aligned, NoRegistry
<1>12. ASSUME NEW s \in Seed, FindKey(s)
      PROVE  Promise'
  <2>0. UNCHANGED <<registry, apiKeys, promised>> /\ ~In(s, "succeeded")
    BY <1>12 DEF FindKey, registryVars, keyVars
  <2>1. ASSUME NEW id, seeds' = [seeds EXCEPT ![s].step = "scopes", ![s].key = id]
        PROVE  Promise'
    <3>1. NotesKey(s, "scopes", id)
      BY <2>1 DEF NotesKey
    <3>2. seeds'[s].registry = seeds[s].registry /\ \A p \in Seed : p # s => seeds'[p] = seeds[p]
      BY <1>0, <3>1, NoteKeyAfter
    <3> QED
      BY <2>0, <3>2, PromiseKept
  <2> QED
    BY <1>7, <1>8, <1>12, <2>0, <2>1 DEF FindKey, Fails
<1>13. ASSUME NEW s \in Seed, InspectKey(s)
      PROVE  Promise'
  <2>0. UNCHANGED <<registry, apiKeys>> /\ In(s, "scopes")
    BY <1>13 DEF InspectKey, registryVars
  <2>1. CASE promised' = promised
    BY <1>8, <1>13, <2>0, <2>1 DEF InspectKey
  <2>2. CASE ~promised /\ promised'
    <3>1. PICK k \in apiKeys : k.id = seeds[s].key /\ k.name = "configured"
                               /\ k.scope = seeds[s].registry.id
      BY <1>13, <2>2 DEF InspectKey
    <3>2. OnlyFor(registry, s) /\ Goto(s, "succeeded")
      BY <1>13, <2>2 DEF InspectKey
    <3>3. seeds[s].registry = registry
      BY <3>2 DEF OnlyFor
    <3>4. Good(k)
      BY <1>0, <2>0, <3>1, <3>3 DEF Good, SeedKnows, Aligned, NoRegistry
    <3>5. seeds'[s].step = "succeeded" /\ \A p \in Seed : p # s => seeds'[p] = seeds[p]
      BY <1>0, <3>2, GotoAfter
    <3>6. OneRegistry'
      BY <2>0, <3>2, <3>5 DEF OneRegistry, OnlyFor
    <3>7. SeedKeepsItsPromise'
      BY <2>0, <3>4 DEF SeedKeepsItsPromise, Good
    <3> QED
      BY <3>6, <3>7 DEF Promise
  <2>3. promised' = (promised \/ promised')
    BY <1>13 DEF InspectKey
  <2> QED
    BY <1>13, <2>1, <2>2, <2>3 DEF Promise, InspectKey
<1>14. ASSUME NEW s \in Seed, NEW id, NEW step, RemoveKeyOf(s, id, step), Aligned(s),
             promised => \A k \in apiKeys : Good(k) => k.id # id
      PROVE  Promise'
  <2>0. UNCHANGED <<registry, promised>>
    BY <1>14 DEF RemoveKeyOf, registryVars
  <2>1. CASE Fails(s) /\ apiKeys' = apiKeys
    BY <1>7, <2>0, <2>1 DEF Fails
  <2>2. CASE /\ apiKeys' = apiKeys \ KeyById(id)
             /\ seeds' = [seeds EXCEPT ![s].step = step, ![s].todo = @ \ {id}]
    <3> DEFINE K == seeds[s].todo \ {id}
    <3>1. NotesTodo(s, step, K)
      BY <1>0, <2>2 DEF NotesTodo
    <3> HIDE DEF K
    <3>2. seeds'[s].registry = seeds[s].registry /\ \A p \in Seed : p # s => seeds'[p] = seeds[p]
      BY <1>0, <3>1, NoteTodoAfter
    <3>3. promised => \A k \in apiKeys : Good(k) => k \in apiKeys'
      BY <1>14, <2>2 DEF KeyById
    <3>4. ~In(s, "succeeded")
      BY <1>14 DEF Aligned
    <3>5. CASE promised
      BY <2>0, <3>2, <3>3, <3>4, <3>5, PromiseKept
    <3> QED
      BY <2>0, <3>5 DEF Promise
  <2> QED
    BY <1>14, <2>1, <2>2 DEF RemoveKeyOf
<1>15. ASSUME NEW s \in Seed, ReplaceKey(s)
      PROVE  Promise'
  <2>1. Aligned(s)
    BY <1>15 DEF ReplaceKey, Aligned
  <2>2. promised => \A k \in apiKeys : Good(k) => k.id # seeds[s].key
    BY <1>0, <1>11, <1>15, <2>1 DEF ReplaceKey, SeedKnows, Good
  <2> QED
    BY <1>14, <1>15, <2>1, <2>2 DEF ReplaceKey
<1>16. ASSUME NEW s \in Seed, ClearKey(s)
      PROVE  Promise'
  <2>1. Aligned(s)
    BY <1>16 DEF ClearKey, Aligned
  <2>2. PICK id \in seeds[s].todo : RemoveKeyOf(s, id, "clear")
    BY <1>16 DEF ClearKey
  <2>3. \A k \in apiKeys : Good(k) => k.id # id
    BY <1>0, <1>16 DEF ClearKey, SeedKnows, Good
  <2> QED
    BY <1>14, <2>1, <2>2, <2>3
<1>17. ASSUME NEW s \in Seed, ListKeys(s)
      PROVE  Promise'
  <2> DEFINE K == {k.id : k \in InTheWay}
  <2>1. NotesTodo(s, "clear", K)
    BY <1>17 DEF ListKeys, NotesTodo
  <2> HIDE DEF K
  <2>2. seeds'[s].registry = seeds[s].registry /\ \A p \in Seed : p # s => seeds'[p] = seeds[p]
    BY <1>0, <2>1, NoteTodoAfter
  <2>3. UNCHANGED <<registry, apiKeys, promised>> /\ ~In(s, "succeeded")
    BY <1>17 DEF ListKeys, registryVars, keyVars
  <2> QED
    BY <2>2, <2>3, PromiseKept
<1>18. ASSUME NEW s \in Seed, AddSeedKey(s)
      PROVE  Promise'
  <2>0. UNCHANGED registry
    BY <1>18 DEF AddSeedKey, registryVars
  <2>1. CASE Fails(s) /\ UNCHANGED keyVars
    BY <1>7, <2>0, <2>1 DEF Fails, keyVars
  <2>2. CASE /\ ~Taken(Seeder, "configured", "configured") /\ registry.id = seeds[s].registry.id
             /\ InsertKey(Seeder, "configured", seeds[s].registry.id) /\ Goto(s, "tell")
             /\ promised' = OnlyFor(registry, s)
    <3>1. seeds[s].registry.id # 0
      BY <1>0, <1>18 DEF AddSeedKey, SeedKnows, Aligned
    <3> DEFINE k == [id |-> lastKey', user |-> Seeder, name |-> "configured",
                     prefix |-> "configured", secret |-> "configured",
                     scope |-> seeds[s].registry.id]
    <3>2. k \in apiKeys' /\ Good(k)
      BY <2>2, <3>1 DEF InsertKey, Good, NoRegistry
    <3> HIDE DEF k
    <3>3. /\ seeds'[s].registry = seeds[s].registry
          /\ \A p \in Seed : p # s => seeds'[p] = seeds[p]
      BY <1>0, <2>2, GotoAfter
    <3>4. promised' => OneRegistry'
      BY <2>0, <2>2, <3>3 DEF OneRegistry, OnlyFor
    <3>5. SeedKeepsItsPromise'
      BY <2>0, <3>2 DEF SeedKeepsItsPromise, Good
    <3> QED
      BY <3>4, <3>5 DEF Promise
  <2> QED
    BY <1>18, <2>1, <2>2 DEF AddSeedKey
<1>19. ASSUME NEW s \in Seed,
             CreateSeedUser(s) \/ AlignUser(s) \/ OnboardSeedUser(s) \/ EndSeed(s)
      PROVE  Promise'
  <2>1. /\ UNCHANGED <<registry, apiKeys, promised>> /\ ~In(s, "succeeded")
        /\ \E step : Goto(s, step)
    BY <1>19
    DEF CreateSeedUser, AlignUser, OnboardSeedUser, EndSeed, Goto, registryVars, keyVars
  <2> QED
    BY <1>8, <2>1
<1>20. ASSUME NEW s \in Seed, StartSeed(s) \/ RestartSeed(s) \/ FailSeed(s)
      PROVE  Promise'
  BY <1>7, <1>20 DEF StartSeed, RestartSeed, FailSeed, Fails, registryVars, keyVars
<1>21. ASSUME NEW s \in Seed, RunSeed(s)
      PROVE  Promise'
  BY <1>9, <1>10, <1>12, <1>13, <1>15, <1>16, <1>17, <1>18, <1>19, <1>20, <1>21 DEF RunSeed
<1> QED
  BY <1>1, <1>6, <1>20, <1>21 DEF TenancyNext, tenancyVars

\* Once a run of the seed has succeeded, the configured key opens the configured
\* registry until a user removes one of the two, whatever other runs do.
THEOREM PromiseHolds == TenancySpec => []SeedKeepsItsPromise
<1>1. TenancyInit => Promise
  BY DEF TenancyInit, Promise
<1>2. Consistent /\ Promise /\ [TenancyNext]_tenancyVars => Promise'
  BY PromiseStep
<1>3. Promise => SeedKeepsItsPromise
  BY DEF Promise, SeedKeepsItsPromise
<1> QED
  BY <1>1, <1>2, <1>3, AlwaysConsistent, PTL DEF TenancySpec

-----------------------------------------------------------------------------
(* Onboarding *)

RequestMarks(q, t) == Doing(q, "onboard") /\ requests[q].tenant = t
SeedMarks(s, t) == seeds[s].step \in {"align", "onboard"} /\ seeds[s].registry.tenant = t

\* Every tenant that still was to be marked is to be, or it is, or it is known to have
\* been missed.
StillMarking ==
    /\ \A q \in Request, t \in Tenant : RequestMarks(q, t) =>
          RequestMarks(q, t)' \/ t \in onboarded' \/ t \in strayed'
    /\ \A s \in Seed, t \in Tenant : SeedMarks(s, t) =>
          SeedMarks(s, t)' \/ t \in onboarded' \/ t \in strayed'

\* Steps that mark only tenants that a registry was made for, and make no registry.
LEMMA OnboardedKept ==
    ASSUME OnboardedWithRegistry, StillMarking, owned' = owned, onboarded \subseteq onboarded',
           \A t \in Tenant \ strayed' : /\ t \in strayed => t \in onboarded' /\ t \in owned
                                        /\ t \in onboarded' => t \in onboarded \/ t \in owned
    PROVE  OnboardedWithRegistry'
<1> SUFFICES ASSUME NEW t \in Tenant, t \notin strayed'
             PROVE  /\ t \in onboarded' => t \in owned'
                    /\ t \in owned' => t \in onboarded' \/ Marking(t)'
  BY DEF OnboardedWithRegistry
<1>1. CASE t \in strayed
  BY <1>1
<1>2. CASE t \notin strayed
  <2>1. /\ t \in onboarded => t \in owned
        /\ t \in owned => t \in onboarded \/ Marking(t)
    BY <1>2 DEF OnboardedWithRegistry
  <2>2. Marking(t) => Marking(t)' \/ t \in onboarded'
    BY DEF Marking, StillMarking, RequestMarks, SeedMarks
  <2> QED
    BY <2>1, <2>2
<1> QED
  BY <1>1, <1>2

\* A step that makes a registry, whose tenant is marked or to be marked.
LEMMA OnboardedMade ==
    ASSUME OnboardedWithRegistry, StillMarking, NEW t \in Tenant, InsertRegistry(t),
           t \in onboarded \/ Marking(t)'
    PROVE  OnboardedWithRegistry'
<1>1. owned' = owned \cup {t} /\ UNCHANGED <<onboarded, strayed>>
  BY DEF InsertRegistry
<1> SUFFICES ASSUME NEW u \in Tenant, u \notin strayed
             PROVE  /\ u \in onboarded' => u \in owned'
                    /\ u \in owned' => u \in onboarded' \/ Marking(u)'
  BY <1>1 DEF OnboardedWithRegistry
<1>2. /\ u \in onboarded => u \in owned
      /\ u \in owned => u \in onboarded \/ Marking(u)
  BY DEF OnboardedWithRegistry
<1>3. Marking(u) => Marking(u)' \/ u \in onboarded'
  BY <1>1 DEF Marking, StillMarking, RequestMarks, SeedMarks
<1> QED
  BY <1>1, <1>2, <1>3

\* One request moves, or one run does: the others still mark what they were to.
LEMMA OthersMark ==
    ASSUME Consistent
    PROVE  /\ \A q \in Request : \A w :
                 /\ requests' = [requests EXCEPT ![q] = w] /\ UNCHANGED seeds
                 /\ \A t \in Tenant : RequestMarks(q, t) => t \in onboarded' \/ t \in strayed'
                 => StillMarking
           /\ \A s \in Seed :
                 /\ \A p \in Seed : p # s => seeds'[p] = seeds[p]
                 /\ UNCHANGED requests
                 /\ \A t \in Tenant : SeedMarks(s, t) =>
                       SeedMarks(s, t)' \/ t \in onboarded' \/ t \in strayed'
                 => StillMarking
<1>1. ASSUME NEW q \in Request, NEW w, requests' = [requests EXCEPT ![q] = w], UNCHANGED seeds,
             \A t \in Tenant : RequestMarks(q, t) => t \in onboarded' \/ t \in strayed'
      PROVE  StillMarking
  <2>1. \A p \in Request : p # q => requests'[p] = requests[p]
    BY <1>1, RequestAfter DEF Consistent
  <2> QED
    BY <1>1, <2>1 DEF StillMarking, RequestMarks, SeedMarks, Doing
<1>2. ASSUME NEW s \in Seed, \A p \in Seed : p # s => seeds'[p] = seeds[p], UNCHANGED requests,
             \A t \in Tenant : SeedMarks(s, t) =>
                SeedMarks(s, t)' \/ t \in onboarded' \/ t \in strayed'
      PROVE  StillMarking
  BY <1>2 DEF StillMarking, RequestMarks, SeedMarks, Doing
<1> QED
  BY <1>1, <1>2

\* Marking, and an end before it.
LEMMA MarkStep ==
    ASSUME OnboardedWithRegistry, StillMarking, NEW t \in owned,
           Unmarked(t) \/ \E u \in User : SetUserOnboarded(u, t)
    PROVE  OnboardedWithRegistry'
<1>1. CASE Unmarked(t)
  BY <1>1, OnboardedKept DEF Unmarked
<1>2. ASSUME NEW u \in User, SetUserOnboarded(u, t)
      PROVE  OnboardedWithRegistry'
  <2>1. CASE tenantOf[u] = t
    BY <1>2, <2>1, OnboardedKept DEF SetUserOnboarded
  <2>2. CASE tenantOf[u] # t
    BY <1>2, <2>2, OnboardedKept DEF SetUserOnboarded
  <2> QED
    BY <2>1, <2>2
<1> QED
  BY <1>1, <1>2

\* Nothing is made or marked, and nobody gives up.
LEMMA QuietStep ==
    ASSUME OnboardedWithRegistry, StillMarking, UNCHANGED <<onboarded, owned, strayed>>
    PROVE  OnboardedWithRegistry'
  BY OnboardedKept

\* The tenant of a step that ends the marking of t is marked by then, or known to be missed.
LEMMA EndsMarking ==
    ASSUME NEW t, Unmarked(t) \/ \E u \in User : SetUserOnboarded(u, t)
    PROVE  t \in onboarded' \/ t \in strayed'
  BY DEF Unmarked, SetUserOnboarded

\* No request or run leaves a tenant with a registry unmarked that nobody is to mark.
LEMMA OnboardedStep ==
    Consistent /\ OnboardedWithRegistry /\ [TenancyNext]_tenancyVars => OnboardedWithRegistry'
<1> SUFFICES ASSUME Consistent, OnboardedWithRegistry, [TenancyNext]_tenancyVars
             PROVE  OnboardedWithRegistry'
  OBVIOUS
<1>0. /\ seeds \in [Seed -> SeedRow] /\ \A s \in Seed : SeedKnows(s)
      /\ requests \in [Request -> RequestRow] /\ \A q \in Request : RequestKnows(q)
      /\ tenants \subseteq Tenant
  BY DEF Consistent, UserTypes
<1>1. CASE UNCHANGED <<onboarded, owned, strayed, requests, seeds>>
  <2>1. StillMarking
    BY <1>1 DEF StillMarking, RequestMarks, SeedMarks, Doing
  <2> QED
    BY <1>1, <2>1, QuietStep
<1>2. ASSUME NEW q \in Request, NEW w, requests' = [requests EXCEPT ![q] = w], ~Doing(q, "onboard"),
             UNCHANGED <<onboarded, owned, strayed, seeds>>
      PROVE  OnboardedWithRegistry'
  <2>1. StillMarking
    BY <1>2, OthersMark DEF RequestMarks
  <2> QED
    BY <1>2, <2>1, QuietStep
<1>3. ASSUME NEW u \in User, NEW t \in Tokens[u], NEW q \in Request, NEW step,
             Arrive(q, u, t, step)
      PROVE  OnboardedWithRegistry'
  BY <1>2, <1>3 DEF Arrive, PutUser, Doing
<1>4. ASSUME NEW q \in Request, AddRegistry(q)
      PROVE  OnboardedWithRegistry'
  <2>1. CASE InsertRegistry(requests[q].tenant) /\ requests[q].onboarded /\ Reply(q)
    <3>1. requests[q].tenant \in Tenant /\ requests[q].tenant \in onboarded
      BY <1>0, <1>4, <2>1 DEF AddRegistry, Doing, RequestKnows
    <3>2. StillMarking
      BY <1>4, <2>1, OthersMark DEF Reply, RequestMarks, AddRegistry, Doing
    <3> QED
      BY <2>1, <3>1, <3>2, OnboardedMade
  <2>2. CASE InsertRegistry(requests[q].tenant) /\
             requests' = [requests EXCEPT ![q].step = "onboard"]
    <3> DEFINE w == [requests[q] EXCEPT !.step = "onboard"]
    <3>1. requests' = [requests EXCEPT ![q] = w]
      BY <2>2
    <3>2. w.step = "onboard" /\ w.tenant = requests[q].tenant
      BY <1>0 DEF RequestRow
    <3> HIDE DEF w
    <3>3. requests'[q] = w
      BY <1>0, <3>1, RequestAfter
    <3>4. requests[q].tenant \in Tenant
      BY <1>0, <1>4 DEF AddRegistry, Doing, RequestKnows
    <3>5. StillMarking
      BY <1>4, <3>1, OthersMark DEF RequestMarks, AddRegistry, Doing
    <3>6. \A t : t = requests[q].tenant => Marking(t)'
      BY <3>2, <3>3 DEF Marking, Doing
    <3> QED
      BY <2>2, <3>4, <3>5, <3>6, OnboardedMade
  <2>3. CASE Reply(q) /\ UNCHANGED userVars
    BY <1>2, <1>4, <2>3 DEF Reply, AddRegistry, Doing, userVars
  <2> QED
    BY <1>4, <2>1, <2>2, <2>3 DEF AddRegistry
<1>5. ASSUME NEW q \in Request, OnboardUser(q) \/ (FailRequest(q) /\ Doing(q, "onboard"))
      PROVE  OnboardedWithRegistry'
  <2>1. /\ requests[q].tenant \in owned /\ requests[q].user \in User
        /\ Reply(q) /\ UNCHANGED seeds
    BY <1>0, <1>5 DEF OnboardUser, FailRequest, Doing, RequestKnows, RequestRow
  <2>2. \/ Unmarked(requests[q].tenant)
        \/ \E u \in User : SetUserOnboarded(u, requests[q].tenant)
    BY <1>5, <2>1 DEF OnboardUser, FailRequest
  <2>3. requests[q].tenant \in onboarded' \/ requests[q].tenant \in strayed'
    BY <2>2, EndsMarking
  <2>4. StillMarking
    BY <2>1, <2>3, OthersMark DEF Reply, RequestMarks
  <2> QED
    BY <2>1, <2>2, <2>4, MarkStep
<1>6. ASSUME NEW q \in Request, RemoveRegistry(q) \/ AddAPIKey(q) \/ RemoveAPIKey(q)
                                \/ (FailRequest(q) /\ ~Doing(q, "onboard"))
      PROVE  OnboardedWithRegistry'
  BY <1>2, <1>6
  DEF RemoveRegistry, AddAPIKey, RemoveAPIKey, FailRequest, Reply, Doing, userVars
<1>7. CASE Dashboard
  BY <1>1, <1>3, <1>4, <1>5, <1>6, <1>7 DEF Dashboard, GetCurrentUser, PutUser
<1>8. ASSUME NEW s \in Seed, \A p \in Seed : p # s => seeds'[p] = seeds[p], UNCHANGED requests,
             \A t \in Tenant : ~SeedMarks(s, t),
             UNCHANGED <<onboarded, owned, strayed>>
      PROVE  OnboardedWithRegistry'
  <2>1. StillMarking
    BY <1>8, OthersMark
  <2> QED
    BY <1>8, <2>1, QuietStep
<1>9. ASSUME NEW s \in Seed, Fails(s), UNCHANGED requests
      PROVE  OnboardedWithRegistry'
  <2>1. \A p \in Seed : p # s => seeds'[p] = seeds[p]
    BY <1>0, <1>9, SeedAfter DEF Fails
  <2>2. CASE In(s, "align") \/ In(s, "onboard")
    <3>1. seeds[s].registry.tenant \in owned
      BY <2>2, SeedTenant DEF In, Aligned
    <3>2. Unmarked(seeds[s].registry.tenant)
      BY <1>9, <2>2 DEF Fails
    <3>3. seeds[s].registry.tenant \in onboarded' \/ seeds[s].registry.tenant \in strayed'
      BY <3>2 DEF Unmarked
    <3>4. StillMarking
      BY <1>9, <2>1, <3>3, OthersMark DEF SeedMarks
    <3> QED
      BY <3>1, <3>2, <3>4, MarkStep
  <2>3. CASE ~(In(s, "align") \/ In(s, "onboard"))
    BY <1>8, <1>9, <2>1, <2>3 DEF Fails, userVars, SeedMarks, In
  <2> QED
    BY <2>2, <2>3
<1>10. ASSUME NEW s \in Seed, NEW step, Goto(s, step), UNCHANGED requests,
              ~In(s, "align"), ~In(s, "onboard"), UNCHANGED <<onboarded, owned, strayed>>
      PROVE  OnboardedWithRegistry'
  <2>1. \A p \in Seed : p # s => seeds'[p] = seeds[p]
    BY <1>0, <1>10, GotoAfter
  <2> QED
    BY <1>8, <1>10, <2>1 DEF SeedMarks, In
<1>11. ASSUME NEW s \in Seed, FindRegistry(s) \/ FindRegistryAgain(s)
      PROVE  OnboardedWithRegistry'
  <2>0. UNCHANGED requests /\ ~In(s, "align") /\ ~In(s, "onboard")
    BY <1>11 DEF FindRegistry, FindRegistryAgain, Find, In
  <2>1. CASE NotesRegistry(s, "align", registry) /\ UNCHANGED userVars
    <3>1. \A p \in Seed : p # s => seeds'[p] = seeds[p]
      BY <1>0, <2>1, NoteRegistryAfter
    <3> QED
      BY <1>8, <2>0, <2>1, <3>1 DEF SeedMarks, In, userVars
  <2> QED
    BY <1>9, <1>10, <1>11, <2>0, <2>1
    DEF FindRegistry, FindRegistryAgain, Find, NotesRegistry, userVars
<1>12. ASSUME NEW s \in Seed, CreateSeedUser(s)
      PROVE  OnboardedWithRegistry'
  BY <1>10, <1>12 DEF CreateSeedUser, PutUser, In
<1>13. ASSUME NEW s \in Seed, AddSeedRegistry(s)
      PROVE  OnboardedWithRegistry'
  <2>0. UNCHANGED requests /\ ~In(s, "align") /\ ~In(s, "onboard")
    BY <1>13 DEF AddSeedRegistry, In
  <2>1. CASE InsertRegistry(Personal[Seeder]) /\ NotesRegistry(s, "align", registry')
    <3>1. /\ seeds'[s].step = "align" /\ seeds'[s].registry = registry'
          /\ \A p \in Seed : p # s => seeds'[p] = seeds[p]
      BY <1>0, <2>1, NoteRegistryAfter
    <3>2. registry'.tenant = Personal[Seeder]
      BY <2>1 DEF InsertRegistry
    <3>3. \A t : t = Personal[Seeder] => Marking(t)'
      BY <3>1, <3>2 DEF Marking
    <3>4. StillMarking
      BY <2>0, <3>1, OthersMark DEF SeedMarks, In
    <3> QED
      BY <2>1, <3>3, <3>4, OnboardedMade, TenancyAssumption
  <2> QED
    BY <1>10, <1>13, <2>0, <2>1 DEF AddSeedRegistry, NotesRegistry, userVars
<1>14. ASSUME NEW s \in Seed, AlignUser(s)
      PROVE  OnboardedWithRegistry'
  <2> DEFINE step == IF seeds[s].registry.tenant \in onboarded THEN "prefix" ELSE "onboard"
  <2>1. Goto(s, step) /\ UNCHANGED <<onboarded, owned, strayed, requests>>
    BY <1>14 DEF AlignUser, Goto, PutUser
  <2>2. step = "prefix" => seeds[s].registry.tenant \in onboarded
    OBVIOUS
  <2>3. step \in {"prefix", "onboard"}
    OBVIOUS
  <2> HIDE DEF step
  <2>4. /\ seeds'[s].step = step /\ seeds'[s].registry = seeds[s].registry
        /\ \A p \in Seed : p # s => seeds'[p] = seeds[p]
    BY <1>0, <2>1, GotoAfter
  <2>5. StillMarking
    BY <2>1, <2>2, <2>3, <2>4, OthersMark DEF SeedMarks
  <2> QED
    BY <2>1, <2>5, QuietStep
<1>15. ASSUME NEW s \in Seed, OnboardSeedUser(s)
      PROVE  OnboardedWithRegistry'
  <2>1. /\ seeds[s].registry.tenant \in owned /\ UNCHANGED requests
        /\ \A p \in Seed : p # s => seeds'[p] = seeds[p]
    BY <1>0, <1>15, SeedTenant, GotoAfter DEF OnboardSeedUser, In, Aligned
  <2>2. \E u \in User : SetUserOnboarded(u, seeds[s].registry.tenant)
    BY <1>15, TenancyAssumption DEF OnboardSeedUser
  <2>3. seeds[s].registry.tenant \in onboarded' \/ seeds[s].registry.tenant \in strayed'
    BY <2>2, EndsMarking
  <2>4. StillMarking
    BY <2>1, <2>3, OthersMark DEF SeedMarks
  <2> QED
    BY <2>1, <2>2, <2>4, MarkStep
<1>16. ASSUME NEW s \in Seed, FindKey(s)
      PROVE  OnboardedWithRegistry'
  <2>0. UNCHANGED requests /\ UNCHANGED userVars /\ ~In(s, "align") /\ ~In(s, "onboard")
    BY <1>16 DEF FindKey, In
  <2>1. ASSUME NEW id, NotesKey(s, "scopes", id)
        PROVE  OnboardedWithRegistry'
    <3>1. \A p \in Seed : p # s => seeds'[p] = seeds[p]
      BY <1>0, <2>1, NoteKeyAfter
    <3> QED
      BY <1>8, <2>0, <3>1 DEF SeedMarks, In, userVars
  <2> QED
    BY <1>9, <1>10, <1>16, <2>0, <2>1 DEF FindKey, NotesKey, userVars
<1>17. ASSUME NEW s \in Seed, InspectKey(s) \/ EndSeed(s)
      PROVE  OnboardedWithRegistry'
  BY <1>10, <1>17 DEF InspectKey, EndSeed, In, userVars
<1>18. ASSUME NEW s \in Seed, NEW id, NEW step, RemoveKeyOf(s, id, step),
              ~In(s, "align"), ~In(s, "onboard")
      PROVE  OnboardedWithRegistry'
  <2>1. CASE Fails(s)
    BY <1>9, <1>18, <2>1 DEF RemoveKeyOf
  <2>2. CASE NotesTodo(s, step, seeds[s].todo \ {id}) /\ UNCHANGED userVars
    <3>1. \A p \in Seed : p # s => seeds'[p] = seeds[p]
      BY <1>0, <2>2, NoteTodoAfter
    <3> QED
      BY <1>8, <1>18, <2>2, <3>1 DEF SeedMarks, In, userVars, RemoveKeyOf
  <2> QED
    BY <1>0, <1>18, <2>1, <2>2 DEF RemoveKeyOf, NotesTodo
<1>19. ASSUME NEW s \in Seed, ReplaceKey(s) \/ ClearKey(s)
      PROVE  OnboardedWithRegistry'
  BY <1>18, <1>19 DEF ReplaceKey, ClearKey, In
<1>20. ASSUME NEW s \in Seed, ListKeys(s)
      PROVE  OnboardedWithRegistry'
  <2>1. NotesTodo(s, "clear", {k.id : k \in InTheWay})
    BY <1>20 DEF ListKeys, NotesTodo
  <2>2. \A p \in Seed : p # s => seeds'[p] = seeds[p]
    BY <1>0, <2>1, NoteTodoAfter
  <2> QED
    BY <1>8, <1>20, <2>2 DEF SeedMarks, In, userVars, ListKeys
<1>21. ASSUME NEW s \in Seed, AddSeedKey(s)
      PROVE  OnboardedWithRegistry'
  BY <1>9, <1>10, <1>21 DEF AddSeedKey, In, userVars
<1>22. ASSUME NEW s \in Seed, StartSeed(s) \/ RestartSeed(s)
      PROVE  OnboardedWithRegistry'
  <2>1. \A p \in Seed : p # s => seeds'[p] = seeds[p]
    BY <1>0, <1>22, SeedAfter DEF StartSeed, RestartSeed
  <2> QED
    BY <1>8, <1>22, <2>1 DEF SeedMarks, In, userVars, StartSeed, RestartSeed
<1>23. ASSUME NEW s \in Seed, RunSeed(s)
      PROVE  OnboardedWithRegistry'
  BY <1>11, <1>12, <1>13, <1>14, <1>15, <1>16, <1>17, <1>19, <1>20, <1>21, <1>22, <1>23
  DEF RunSeed
<1> QED
  BY <1>1, <1>7, <1>9, <1>22, <1>23 DEF TenancyNext, FailSeed, tenancyVars

\* A tenant is onboarded if and only if a registry was made for it, except when its user
\* signed in to another tenant, or an error came, before it was marked.
THEOREM OnboardedHolds == TenancySpec => []OnboardedWithRegistry
<1>1. TenancyInit => OnboardedWithRegistry
  BY DEF TenancyInit, OnboardedWithRegistry
<1>2. Consistent /\ OnboardedWithRegistry /\ [TenancyNext]_tenancyVars => OnboardedWithRegistry'
  BY OnboardedStep
<1> QED
  BY <1>1, <1>2, AlwaysConsistent, PTL DEF TenancySpec

=============================================================================
