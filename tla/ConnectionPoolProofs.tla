------------------------ MODULE ConnectionPoolProofs ------------------------
(***************************************************************************)
(* What ConnectionPool promises of connections and sizes, for any number   *)
(* of handlers, connections, keys and pushes and for any age.              *)
(***************************************************************************)
EXTENDS ConnectionPool, FiniteSetTheorems, TLAPS

-----------------------------------------------------------------------------
(* The strengthened invariant *)

\* Size v was that of the registry at time t or later.
SizeSince(v, t) ==
    /\ v <= pushes
    /\ v = pushes \/ replacedAt[v] >= t

Computing(h) == handlers[h].step \in {"compute", "write"}

Holds(h) == handlers[h].step \in {"lock", "compute", "write", "rows", "scopes", "commit"}

\* A list that asks for scopes has keys left.
KeysLeft == \A h \in Handler : On(h, "scopes") => handlers[h].todo > 0

\* Nothing is of a time to come.
NothingAhead == cachedAt <= now /\ \A h \in Handler : handlers[h].begun <= now

\* ConnectionsAccounted, handler by handler.
Accounted ==
    \A h \in Handler : /\ <<h, 1>> \in taken <=> Holds(h)
                       /\ <<h, 2>> \in taken <=> On(h, "scopes")

\* FOR UPDATE keeps the others out.
OneComputes == \A h, p \in Handler : Computing(h) /\ Computing(p) => h = p

\* What was computed is as recent as the time that it is stored with, and what is
\* to be stored is at least as recent as what it replaces.
SizesSince ==
    /\ cached <= pushes
    /\ cachedAt # Unknown => SizeSince(cached, cachedAt)
    /\ \A h \in Handler : On(h, "write") => /\ SizeSince(handlers[h].size, handlers[h].begun)
                                            /\ cached <= handlers[h].size
    /\ \A h \in Handler : On(h, "sized") =>
          SizeSince(handlers[h].size, handlers[h].begun - MaxAge + 1)

-----------------------------------------------------------------------------
(* Types *)

\* What a handler may come to do: a new row of its own.
LEMMA NewWork ==
    ASSUME PoolTypeOK, NEW h \in Handler, NEW w \in Work,
           handlers' = [handlers EXCEPT ![h] = w]
    PROVE  handlers' \in [Handler -> Work]
  BY DEF PoolTypeOK

\* The rest of the columns are the handlers' own: a step changes the row of h alone.
LEMMA NewStep ==
    ASSUME PoolTypeOK, NEW h \in Handler, NEW s \in Steps, Becomes(h, s)
    PROVE  handlers' \in [Handler -> Work]
<1>1. [handlers[h] EXCEPT !.step = s] \in Work
  BY DEF PoolTypeOK, Work
<1> QED
  BY <1>1, NewWork DEF Becomes

\* At rest.
LEMMA NewRest ==
    ASSUME PoolTypeOK, NEW h \in Handler, Rests(h)
    PROVE  handlers' \in [Handler -> Work]
<1>1. Resting \in Work
  BY PoolAssumption DEF Resting, Work, Steps
<1> QED
  BY <1>1, NewWork DEF Rests

\* The row of h after a step, and the rows of the others.
LEMMA WorkAfter ==
    ASSUME PoolTypeOK, NEW h \in Handler, NEW w, handlers' = [handlers EXCEPT ![h] = w]
    PROVE  handlers'[h] = w /\ \A p \in Handler : p # h => handlers'[p] = handlers[p]
  BY DEF PoolTypeOK

\* The same when only the step is new.
LEMMA StepAfter ==
    ASSUME PoolTypeOK, NEW h \in Handler, NEW s, Becomes(h, s)
    PROVE  /\ handlers'[h].step = s
           /\ handlers'[h].begun = handlers[h].begun
           /\ handlers'[h].size = handlers[h].size
           /\ handlers'[h].todo = handlers[h].todo
           /\ \A p \in Handler : p # h => handlers'[p] = handlers[p]
<1> DEFINE w == [handlers[h] EXCEPT !.step = s]
<1>1. handlers' = [handlers EXCEPT ![h] = w]
  BY DEF Becomes
<1>2. handlers[h] \in Work
  BY DEF PoolTypeOK
<1>3. /\ w.step = s /\ w.begun = handlers[h].begun /\ w.size = handlers[h].size
      /\ w.todo = handlers[h].todo
  BY <1>2 DEF Work
<1> HIDE DEF w
<1> QED
  BY <1>1, <1>3, WorkAfter

\* The same when h is at rest.
LEMMA RestAfter ==
    ASSUME PoolTypeOK, NEW h \in Handler, Rests(h)
    PROVE  handlers'[h] = Resting /\ \A p \in Handler : p # h => handlers'[p] = handlers[p]
  BY WorkAfter DEF Rests

\* The same for the three steps that note something else besides.
LEMMA NoteAfter ==
    ASSUME PoolTypeOK, NEW h \in Handler
    PROVE  /\ BeginSize(h) => /\ handlers'[h].step = "lock" /\ handlers'[h].begun = now
                              /\ \A p \in Handler : p # h => handlers'[p] = handlers[p]
           /\ ComputeSize(h) => /\ handlers'[h].step = "write" /\ handlers'[h].size = pushes
                                /\ handlers'[h].begun = handlers[h].begun
                                /\ \A p \in Handler : p # h => handlers'[p] = handlers[p]
           /\ ListAPIKeysByUser(h) => /\ handlers'[h].step = "rows"
                                      /\ handlers'[h].begun = handlers[h].begun
                                      /\ \A p \in Handler : p # h => handlers'[p] = handlers[p]
           /\ ListAPIKeyScopes(h) => /\ handlers'[h].step = "rows"
                                     /\ handlers'[h].begun = handlers[h].begun
                                     /\ \A p \in Handler : p # h => handlers'[p] = handlers[p]
<1> DEFINE begin == [handlers[h] EXCEPT !.step = "lock", !.begun = now]
           write == [handlers[h] EXCEPT !.step = "write", !.size = pushes]
           rows  == [handlers[h] EXCEPT !.step = "rows", !.todo = keys]
           next  == [handlers[h] EXCEPT !.step = "rows", !.todo = @ - 1]
<1>1. handlers[h] \in Work
  BY DEF PoolTypeOK
<1>2. /\ begin.step = "lock" /\ begin.begun = now
      /\ write.step = "write" /\ write.size = pushes /\ write.begun = handlers[h].begun
      /\ rows.step = "rows" /\ rows.begun = handlers[h].begun
      /\ next.step = "rows" /\ next.begun = handlers[h].begun
  BY <1>1 DEF Work
<1>3. /\ BeginSize(h) => handlers' = [handlers EXCEPT ![h] = begin]
      /\ ComputeSize(h) => handlers' = [handlers EXCEPT ![h] = write]
      /\ ListAPIKeysByUser(h) => handlers' = [handlers EXCEPT ![h] = rows]
      /\ ListAPIKeyScopes(h) => handlers' = [handlers EXCEPT ![h] = next]
  BY DEF BeginSize, ComputeSize, ListAPIKeysByUser, ListAPIKeyScopes
<1> HIDE DEF begin, write, rows, next
<1> QED
  BY <1>2, <1>3, WorkAfter

\* A size is answered from the cache only if it is fresh.
LEMMA LockAfter ==
    ASSUME PoolTypeOK, NEW h \in Handler, LockRow(h)
    PROVE  /\ \A p \in Handler : p # h => handlers'[p] = handlers[p]
           /\ \/ handlers'[h] = Resting /\ Rollback(h)
              \/ /\ handlers'[h].step = "sized" /\ Give(h, 1) /\ Fresh
                 /\ handlers'[h].begun = handlers[h].begun /\ handlers'[h].size = cached
              \/ /\ handlers'[h].step = "compute" /\ UNCHANGED taken
                 /\ handlers'[h].begun = handlers[h].begun
<1>1. handlers[h] \in Work
  BY DEF PoolTypeOK
<1>2. CASE Rests(h) /\ Rollback(h)
  BY <1>2, RestAfter
<1>3. CASE /\ Give(h, 1) /\ Fresh
           /\ handlers' = [handlers EXCEPT ![h].step = "sized", ![h].size = cached]
  <2> DEFINE w == [handlers[h] EXCEPT !.step = "sized", !.size = cached]
  <2>1. handlers' = [handlers EXCEPT ![h] = w]
    BY <1>3
  <2>2. w.step = "sized" /\ w.size = cached /\ w.begun = handlers[h].begun
    BY <1>1 DEF Work
  <2> HIDE DEF w
  <2> QED
    BY <1>3, <2>1, <2>2, WorkAfter
<1>4. CASE Becomes(h, "compute") /\ UNCHANGED taken
  BY <1>4, StepAfter
<1> QED
  BY <1>2, <1>3, <1>4 DEF LockRow

\* Every step keeps types, whatever the handler does.
LEMMA TypeStep == PoolTypeOK /\ KeysLeft /\ [PoolNext]_poolVars => PoolTypeOK'
<1> SUFFICES ASSUME PoolTypeOK, KeysLeft, [PoolNext]_poolVars
             PROVE  PoolTypeOK'
  OBVIOUS
<1> USE DEF Query, Take, Give, rowVars, worldVars
<1>1. ASSUME NEW h \in Handler, Ask(h)
      PROVE  PoolTypeOK'
  <2>1. handlers' \in [Handler -> Work]
    BY <1>1, NewStep DEF Ask, GetRegistry, ListAPIKeys, CreateAPIKey, Steps
  <2> QED
    BY <1>1, <2>1 DEF Ask, GetRegistry, ListAPIKeys, CreateAPIKey, PoolTypeOK
<1>2. ASSUME NEW h \in Handler, Proceed(h)
      PROVE  PoolTypeOK'
  <2>0. handlers[h] \in Work
    BY DEF PoolTypeOK
  <2>1. CASE BeginSize(h)
    <3>1. [handlers[h] EXCEPT !.step = "lock", !.begun = now] \in Work
      BY <2>0 DEF PoolTypeOK, Work, Steps
    <3>2. handlers' \in [Handler -> Work]
      BY <2>1, <3>1, NewWork, ZenonT(60) DEF BeginSize
    <3> QED
      BY <2>1, <3>2 DEF BeginSize, PoolTypeOK
  <2>2. CASE LockRow(h)
    <3>1. [handlers[h] EXCEPT !.step = "sized", !.size = cached] \in Work
      BY <2>0 DEF PoolTypeOK, Work, Steps
    <3>2. handlers' \in [Handler -> Work]
      <4>1. CASE Rests(h)
        BY <4>1, NewRest
      <4>2. CASE handlers' = [handlers EXCEPT ![h].step = "sized", ![h].size = cached]
        BY <3>1, <4>2, NewWork, ZenonT(60)
      <4>3. CASE Becomes(h, "compute")
        BY <4>3, NewStep DEF Steps
      <4> QED
        BY <2>2, <4>1, <4>2, <4>3 DEF LockRow
    <3>3. taken' \in SUBSET (Handler \X {1, 2})
      BY <2>2 DEF LockRow, Rollback, PoolTypeOK
    <3> QED
      BY <2>2, <3>2, <3>3 DEF LockRow, PoolTypeOK
  <2>3. CASE ComputeSize(h)
    <3>1. [handlers[h] EXCEPT !.step = "write", !.size = pushes] \in Work
      BY <2>0 DEF PoolTypeOK, Work, Steps
    <3>2. handlers' \in [Handler -> Work]
      BY <2>3, <3>1, NewWork, ZenonT(60) DEF ComputeSize
    <3> QED
      BY <2>3, <3>2 DEF ComputeSize, PoolTypeOK
  <2>4. CASE WriteSize(h)
    <3>1. handlers' \in [Handler -> Work]
      BY <2>4, NewStep DEF WriteSize, Steps
    <3>2. cached' \in 0..MaxPushes /\ cachedAt' \in 0..MaxTime \cup {Unknown}
      BY <2>0, <2>4 DEF WriteSize, Stamp, Work
    <3> QED
      BY <2>4, <3>1, <3>2 DEF WriteSize, PoolTypeOK
  <2>5. CASE AnswerSize(h) \/ EndOfRows(h) \/ TellKey(h)
    <3>1. handlers' \in [Handler -> Work]
      BY <2>5, NewRest DEF AnswerSize, EndOfRows, TellKey
    <3> QED
      BY <2>5, <3>1 DEF AnswerSize, EndOfRows, TellKey, PoolTypeOK
  <2>6. CASE ListAPIKeysByUser(h)
    <3>1. [handlers[h] EXCEPT !.step = "rows", !.todo = keys] \in Work
      BY <2>0 DEF PoolTypeOK, Work, Steps
    <3>2. handlers' \in [Handler -> Work]
      BY <2>6, <3>1, NewWork, ZenonT(60) DEF ListAPIKeysByUser
    <3> QED
      BY <2>6, <3>2 DEF ListAPIKeysByUser, PoolTypeOK
  <2>7. CASE NextKey(h)
    <3>1. handlers' \in [Handler -> Work]
      BY <2>7, NewStep DEF NextKey, Steps
    <3> QED
      BY <2>7, <3>1 DEF NextKey, PoolTypeOK
  <2>8. CASE ListAPIKeyScopes(h)
    <3>1. handlers[h].todo - 1 \in 0..MaxKeys
      BY <2>0, <2>8, PoolAssumption DEF ListAPIKeyScopes, KeysLeft, Work
    <3>2. [handlers[h] EXCEPT !.step = "rows", !.todo = @ - 1] \in Work
      BY <2>0, <3>1 DEF Work, Steps
    <3>3. handlers' \in [Handler -> Work]
      BY <2>8, <3>2, NewWork DEF ListAPIKeyScopes
    <3> QED
      BY <2>8, <3>3 DEF ListAPIKeyScopes, PoolTypeOK
  <2>9. CASE BeginKey(h)
    <3>1. handlers' \in [Handler -> Work]
      BY <2>9, NewStep DEF BeginKey, Steps
    <3> QED
      BY <2>9, <3>1 DEF BeginKey, PoolTypeOK
  <2>10. CASE CommitKey(h)
    <3>1. handlers' \in [Handler -> Work]
      BY <2>10, NewStep, NewRest DEF CommitKey, Steps
    <3>2. keys' \in 0..MaxKeys
      BY <2>10, PoolAssumption DEF CommitKey, PoolTypeOK
    <3> QED
      BY <2>10, <3>1, <3>2 DEF CommitKey, PoolTypeOK
  <2> QED
    BY <1>2, <2>1, <2>2, <2>3, <2>4, <2>5, <2>6, <2>7, <2>8, <2>9, <2>10 DEF Proceed
<1>3. ASSUME NEW h \in Handler, GiveUp(h)
      PROVE  PoolTypeOK'
  <2>1. handlers' \in [Handler -> Work]
    BY <1>3, NewRest DEF GiveUp
  <2> QED
    BY <1>3, <2>1 DEF GiveUp, PoolTypeOK
<1>4. CASE KeyRemoved
  BY <1>4, PoolAssumption DEF KeyRemoved, PoolTypeOK
<1>5. CASE RegistryRemoved
  BY <1>5 DEF RegistryRemoved, PoolTypeOK
<1>6. CASE Push
  BY <1>6, PoolAssumption DEF Push, PoolTypeOK
<1>7. CASE Tick
  BY <1>7, PoolAssumption DEF Tick, PoolTypeOK
<1>8. CASE UNCHANGED poolVars
  BY <1>8 DEF poolVars, PoolTypeOK
<1> QED
  BY <1>1, <1>2, <1>3, <1>4, <1>5, <1>6, <1>7, <1>8 DEF PoolNext


\* A list goes on to the scopes of a key only if there is one.
LEMMA KeysLeftStep == PoolTypeOK /\ KeysLeft /\ [PoolNext]_poolVars => KeysLeft'
<1> SUFFICES ASSUME PoolTypeOK, KeysLeft, [PoolNext]_poolVars, NEW p \in Handler, On(p, "scopes")'
             PROVE  handlers'[p].todo > 0
  BY DEF KeysLeft
<1> USE DEF On, KeysLeft, Resting
<1>1. ASSUME NEW h \in Handler, Ask(h)
      PROVE  handlers'[p].todo > 0
  BY <1>1, StepAfter DEF Ask, GetRegistry, ListAPIKeys, CreateAPIKey
<1>2. ASSUME NEW h \in Handler, Proceed(h)
      PROVE  handlers'[p].todo > 0
  <2>1. CASE NextKey(h)
    BY <2>1, StepAfter DEF NextKey
  <2>2. CASE LockRow(h)
    BY <2>2, LockAfter
  <2>3. CASE WriteSize(h) \/ BeginKey(h) \/ CommitKey(h)
    BY <2>3, StepAfter, RestAfter DEF WriteSize, BeginKey, CommitKey
  <2>4. CASE AnswerSize(h) \/ EndOfRows(h) \/ TellKey(h)
    BY <2>4, RestAfter DEF AnswerSize, EndOfRows, TellKey
  <2>5. CASE BeginSize(h) \/ ComputeSize(h) \/ ListAPIKeysByUser(h) \/ ListAPIKeyScopes(h)
    BY <2>5, NoteAfter
  <2> QED
    BY <1>2, <2>1, <2>2, <2>3, <2>4, <2>5 DEF Proceed
<1>3. ASSUME NEW h \in Handler, GiveUp(h)
      PROVE  handlers'[p].todo > 0
  BY <1>3, RestAfter DEF GiveUp
<1>4. CASE UNCHANGED handlers
  BY <1>4
<1> QED
  BY <1>1, <1>2, <1>3, <1>4
  DEF PoolNext, KeyRemoved, RegistryRemoved, Push, Tick, poolVars

\* The type invariant holds.
THEOREM TypeCorrect == PoolSpec => [](PoolTypeOK /\ KeysLeft)
<1>1. PoolInit => PoolTypeOK /\ KeysLeft
  BY PoolAssumption DEF PoolInit, PoolTypeOK, KeysLeft, Resting, Work, Steps, Unknown, On
<1> QED
  BY <1>1, TypeStep, KeysLeftStep, PTL DEF PoolSpec

-----------------------------------------------------------------------------
(* Connections *)

\* The connections of h after a step of h, and those of the others.
LEMMA TakenAfter ==
    ASSUME PoolTypeOK, Accounted, NEW h \in Handler,
           \A p \in Handler : p # h => handlers'[p] = handlers[p],
           \A p \in Handler, i \in {1, 2} : p # h => (<<p, i>> \in taken' <=> <<p, i>> \in taken),
           <<h, 1>> \in taken' <=> Holds(h)',
           <<h, 2>> \in taken' <=> On(h, "scopes")'
    PROVE  Accounted'
  BY DEF Accounted, Holds, On

\* Taking and giving change what was named, and no more.
LEMMA TakeGive ==
    ASSUME NEW h \in Handler, NEW i \in {1, 2}
    PROVE  /\ Take(h, i) =>
                 \A x : x \in taken' <=> x \in taken \/ x = <<h, i>>
           /\ Give(h, i) => \A x : x \in taken' <=> x \in taken /\ x # <<h, i>>
  BY DEF Take, Give

\* Each step gives back what the handler no longer needs, and takes what it needs.
LEMMA AccountedStep == PoolTypeOK /\ Accounted /\ [PoolNext]_poolVars => Accounted'
<1> SUFFICES ASSUME PoolTypeOK, Accounted, [PoolNext]_poolVars
             PROVE  Accounted'
  OBVIOUS
<1>1. ASSUME NEW h \in Handler, Ask(h)
      PROVE  Accounted'
  <2>1. taken' = taken /\ On(h, "rest")
    BY <1>1 DEF Ask, GetRegistry, ListAPIKeys, CreateAPIKey, Query
  <2>2. /\ handlers'[h].step \in {"begin", "list", "insert"}
        /\ \A p \in Handler : p # h => handlers'[p] = handlers[p]
    BY <1>1, StepAfter DEF Ask, GetRegistry, ListAPIKeys, CreateAPIKey
  <2> QED
    BY <2>1, <2>2, TakenAfter DEF Accounted, Holds, On
<1>2. ASSUME NEW h \in Handler, Proceed(h)
      PROVE  Accounted'
  <2>0. /\ <<h, 1>> \in taken <=> Holds(h)
        /\ <<h, 2>> \in taken <=> On(h, "scopes")
    BY DEF Accounted
  <2>1. CASE LockRow(h)
    <3>1. On(h, "lock")
      BY <2>1 DEF LockRow
    <3>2. CASE handlers'[h].step = "compute" /\ UNCHANGED taken
      BY <2>0, <2>1, <3>1, <3>2, LockAfter, TakenAfter DEF Holds, On
    <3>3. CASE handlers'[h].step \in {"rest", "sized"} /\ Give(h, 1)
      BY <2>0, <2>1, <3>1, <3>3, LockAfter, TakenAfter, TakeGive DEF Holds, On
    <3> QED
      BY <2>1, <3>2, <3>3, LockAfter DEF Rollback, Resting
  <2>2. CASE NextKey(h)
    <3>1. On(h, "rows") /\ Take(h, 2) /\ Becomes(h, "scopes")
      BY <2>2 DEF NextKey
    <3> QED
      BY <2>0, <3>1, StepAfter, TakenAfter, TakeGive DEF Holds, On
  <2>3. CASE BeginKey(h)
    <3>1. On(h, "insert") /\ Take(h, 1) /\ Becomes(h, "commit")
      BY <2>3 DEF BeginKey
    <3> QED
      BY <2>0, <3>1, StepAfter, TakenAfter, TakeGive DEF Holds, On
  <2>4. CASE WriteSize(h)
    <3>1. On(h, "write") /\ Give(h, 1) /\ Becomes(h, "sized")
      BY <2>4 DEF WriteSize
    <3> QED
      BY <2>0, <3>1, StepAfter, TakenAfter, TakeGive DEF Holds, On
  <2>5. CASE CommitKey(h)
    <3>1. On(h, "commit") /\ Give(h, 1) /\ (Becomes(h, "tell") \/ Rests(h))
      BY <2>5 DEF CommitKey
    <3> QED
      BY <2>0, <3>1, StepAfter, RestAfter, TakenAfter, TakeGive DEF Holds, On, Resting
  <2>6. CASE EndOfRows(h)
    <3>1. On(h, "rows") /\ Give(h, 1) /\ Rests(h)
      BY <2>6 DEF EndOfRows
    <3> QED
      BY <2>0, <3>1, RestAfter, TakenAfter, TakeGive DEF Holds, On, Resting
  <2>7. CASE AnswerSize(h) \/ TellKey(h)
    <3>1. handlers[h].step \in {"sized", "tell"} /\ taken' = taken /\ Rests(h)
      BY <2>7 DEF AnswerSize, TellKey, Query, On
    <3> QED
      BY <2>0, <3>1, RestAfter, TakenAfter DEF Holds, On, Resting
  <2>8. CASE BeginSize(h) \/ ListAPIKeysByUser(h)
    <3>1. handlers[h].step \in {"begin", "list"} /\ Take(h, 1)
      BY <2>8 DEF BeginSize, ListAPIKeysByUser, On
    <3>2. /\ handlers'[h].step \in {"lock", "rows"}
          /\ \A p \in Handler : p # h => handlers'[p] = handlers[p]
      BY <2>8, NoteAfter
    <3> QED
      BY <2>0, <3>1, <3>2, TakenAfter, TakeGive DEF Holds, On
  <2>9. CASE ComputeSize(h)
    <3>1. On(h, "compute") /\ taken' = taken
      BY <2>9 DEF ComputeSize
    <3> QED
      BY <2>0, <2>9, <3>1, NoteAfter, TakenAfter DEF Holds, On
  <2>10. CASE ListAPIKeyScopes(h)
    <3>1. On(h, "scopes") /\ Give(h, 2)
      BY <2>10 DEF ListAPIKeyScopes
    <3> QED
      BY <2>0, <2>10, <3>1, NoteAfter, TakenAfter, TakeGive DEF Holds, On
  <2> QED
    BY <1>2, <2>1, <2>2, <2>3, <2>4, <2>5, <2>6, <2>7, <2>8, <2>9, <2>10 DEF Proceed
<1>3. ASSUME NEW h \in Handler, GiveUp(h)
      PROVE  Accounted'
  <2>1. taken' = taken \ {<<h, 1>>, <<h, 2>>} /\ Rests(h)
    BY <1>3 DEF GiveUp
  <2>2. \A p \in Handler : /\ p # h => handlers'[p] = handlers[p]
                           /\ handlers'[h].step = "rest"
    BY <2>1, RestAfter DEF Resting
  <2>3. /\ \A p \in Handler, i \in {1, 2} : p # h => (<<p, i>> \in taken' <=> <<p, i>> \in taken)
        /\ <<h, 1>> \notin taken' /\ <<h, 2>> \notin taken'
    BY <2>1
  <2> QED
    BY <2>2, <2>3, TakenAfter DEF Holds, On
<1>4. CASE UNCHANGED <<taken, handlers>>
  BY <1>4 DEF Accounted, Holds, On
<1> QED
  BY <1>1, <1>2, <1>3, <1>4
  DEF PoolNext, KeyRemoved, RegistryRemoved, Push, Tick, poolVars, Query

\* Connections and handlers agree, always.
LEMMA AlwaysAccounted == PoolSpec => []Accounted
<1>1. PoolInit => Accounted
  BY DEF PoolInit, Accounted, Holds, On, Resting
<1> QED
  BY <1>1, AccountedStep, TypeCorrect, PTL DEF PoolSpec

\* No connection leaks, whichever way a handler ends.
THEOREM ConnectionsAreAccounted == PoolSpec => []ConnectionsAccounted
<1>1. PoolTypeOK /\ Accounted => ConnectionsAccounted
  <2> DEFINE First == {<<h, 1>> : h \in {p \in Handler : handlers[p].step \in
                        {"lock", "compute", "write", "rows", "scopes", "commit"}}}
             Second == {<<h, 2>> : h \in {p \in Handler : On(p, "scopes")}}
  <2> SUFFICES ASSUME PoolTypeOK, Accounted
               PROVE  taken = First \cup Second
    BY DEF ConnectionsAccounted
  <2>1. \A h \in Handler : <<h, 1>> \in taken <=> <<h, 1>> \in First
    BY DEF Accounted, Holds
  <2>2. \A h \in Handler : <<h, 2>> \in taken <=> <<h, 2>> \in Second
    BY DEF Accounted
  <2>3. /\ \A x \in First : \E h \in Handler : x = <<h, 1>>
        /\ \A x \in Second : \E h \in Handler : x = <<h, 2>>
        /\ \A h \in Handler : <<h, 1>> \in Handler \X {1, 2} /\ <<h, 2>> \in Handler \X {1, 2}
    OBVIOUS
  <2>4. \A h \in Handler : <<h, 2>> \notin First /\ <<h, 1>> \notin Second
    OBVIOUS
  <2>5. taken \in SUBSET (Handler \X {1, 2})
    BY DEF PoolTypeOK
  <2> HIDE DEF First, Second
  <2>6. ASSUME NEW x \in Handler \X {1, 2}
        PROVE  x \in taken <=> x \in First \cup Second
    <3>1. PICK h \in Handler, i \in {1, 2} : x = <<h, i>>
      OBVIOUS
    <3> QED
      BY <2>1, <2>2, <2>4, <3>1
  <2> QED
    BY <2>3, <2>5, <2>6
<1> QED
  BY <1>1, AlwaysAccounted, TypeCorrect, PTL

-----------------------------------------------------------------------------
(* Sizes *)

\* Time does not go back, and what is noted is noted at its own time.
LEMMA NothingAheadStep == PoolTypeOK /\ NothingAhead /\ [PoolNext]_poolVars => NothingAhead'
<1> SUFFICES ASSUME PoolTypeOK, NothingAhead, [PoolNext]_poolVars
             PROVE  NothingAhead'
  OBVIOUS
<1>0. /\ now \in Nat /\ cachedAt \in Int
      /\ \A p \in Handler : handlers[p] \in Work /\ handlers[p].begun \in Nat
  BY PoolAssumption DEF PoolTypeOK, Work, Unknown
<1>1. ASSUME NEW h \in Handler, Ask(h)
      PROVE  NothingAhead'
  <2>1. UNCHANGED <<cachedAt, now>>
    BY <1>1 DEF Ask, GetRegistry, ListAPIKeys, CreateAPIKey, rowVars, worldVars
  <2>2. \A p \in Handler : handlers'[p].begun = handlers[p].begun
    BY <1>1, StepAfter DEF Ask, GetRegistry, ListAPIKeys, CreateAPIKey
  <2> QED
    BY <2>1, <2>2 DEF NothingAhead
<1>2. ASSUME NEW h \in Handler, Proceed(h)
      PROVE  NothingAhead'
  <2>1. now' = now
    BY <1>2 DEF Proceed, BeginSize, LockRow, ComputeSize, WriteSize, AnswerSize,
                ListAPIKeysByUser, NextKey, ListAPIKeyScopes, EndOfRows, BeginKey,
                CommitKey, TellKey, worldVars
  <2>2. cachedAt' = cachedAt \/ cachedAt' = handlers[h].begun
    BY <1>2 DEF Proceed, BeginSize, LockRow, ComputeSize, WriteSize, AnswerSize,
                ListAPIKeysByUser, NextKey, ListAPIKeyScopes, EndOfRows, BeginKey,
                CommitKey, TellKey, rowVars, Stamp
  <2>3. \A p \in Handler : handlers'[p].begun \in {handlers[p].begun, now, 0}
    <3>1. CASE BeginSize(h) \/ ComputeSize(h) \/ ListAPIKeysByUser(h) \/ ListAPIKeyScopes(h)
      BY <3>1, NoteAfter
    <3>2. CASE LockRow(h)
      BY <3>2, LockAfter DEF Resting
    <3>3. CASE WriteSize(h) \/ NextKey(h) \/ BeginKey(h) \/ CommitKey(h)
      BY <3>3, StepAfter, RestAfter DEF WriteSize, NextKey, BeginKey, CommitKey, Resting
    <3>4. CASE AnswerSize(h) \/ EndOfRows(h) \/ TellKey(h)
      BY <3>4, RestAfter DEF AnswerSize, EndOfRows, TellKey, Resting
    <3> QED
      BY <1>2, <3>1, <3>2, <3>3, <3>4 DEF Proceed
  <2> QED
    BY <1>0, <2>1, <2>2, <2>3 DEF NothingAhead
<1>3. ASSUME NEW h \in Handler, GiveUp(h)
      PROVE  NothingAhead'
  <2>1. \A p \in Handler : handlers'[p].begun \in {handlers[p].begun, 0}
    BY <1>3, RestAfter DEF GiveUp, Resting
  <2> QED
    BY <1>0, <1>3, <2>1 DEF GiveUp, rowVars, worldVars, NothingAhead
<1>4. CASE UNCHANGED <<handlers, cachedAt>> /\ now' \in {now, now + 1}
  BY <1>0, <1>4 DEF NothingAhead
<1> QED
  BY <1>1, <1>2, <1>3, <1>4
  DEF PoolNext, KeyRemoved, RegistryRemoved, Push, Tick, poolVars, rowVars, worldVars

\* Whoever computes got past the row when nobody else did.
LEMMA OneComputesStep == PoolTypeOK /\ OneComputes /\ [PoolNext]_poolVars => OneComputes'
<1> SUFFICES ASSUME PoolTypeOK, OneComputes, [PoolNext]_poolVars
             PROVE  OneComputes'
  OBVIOUS
<1>0. ASSUME NEW h \in Handler,
             \A p \in Handler : p # h => handlers'[p] = handlers[p],
             Computing(h)' => Computing(h) \/ RowFree
      PROVE  OneComputes'
  BY <1>0 DEF OneComputes, Computing, RowFree, On
<1>1. ASSUME NEW h \in Handler, Ask(h)
      PROVE  OneComputes'
  BY <1>0, <1>1, StepAfter DEF Ask, GetRegistry, ListAPIKeys, CreateAPIKey, Computing
<1>2. ASSUME NEW h \in Handler, Proceed(h)
      PROVE  OneComputes'
  <2>1. CASE BeginSize(h) \/ ListAPIKeysByUser(h) \/ ListAPIKeyScopes(h)
    BY <1>0, <2>1, NoteAfter DEF Computing
  <2>2. CASE ComputeSize(h)
    BY <1>0, <2>2, NoteAfter DEF ComputeSize, Computing, On
  <2>3. CASE LockRow(h)
    BY <1>0, <2>3, LockAfter DEF LockRow
  <2>4. CASE WriteSize(h) \/ NextKey(h) \/ BeginKey(h)
    BY <1>0, <2>4, StepAfter DEF WriteSize, NextKey, BeginKey, Computing
  <2>5. CASE CommitKey(h)
    BY <1>0, <2>5, StepAfter, RestAfter DEF CommitKey, Computing, Resting
  <2>6. CASE AnswerSize(h) \/ EndOfRows(h) \/ TellKey(h)
    BY <1>0, <2>6, RestAfter DEF AnswerSize, EndOfRows, TellKey, Computing, Resting
  <2> QED
    BY <1>2, <2>1, <2>2, <2>3, <2>4, <2>5, <2>6 DEF Proceed
<1>3. ASSUME NEW h \in Handler, GiveUp(h)
      PROVE  OneComputes'
  BY <1>0, <1>3, RestAfter DEF GiveUp, Computing, Resting
<1>4. CASE UNCHANGED handlers
  BY <1>4 DEF OneComputes, Computing
<1> QED
  BY <1>1, <1>2, <1>3, <1>4
  DEF PoolNext, KeyRemoved, RegistryRemoved, Push, Tick, poolVars

\* What a size that was true since t comes to when something is pushed, or nothing is.
LEMMA SinceAfter ==
    ASSUME PoolTypeOK, NEW v \in 0..MaxPushes, NEW t \in Int, t <= now, SizeSince(v, t),
           Push \/ UNCHANGED <<pushes, replacedAt>>
    PROVE  SizeSince(v, t)'
<1>1. CASE UNCHANGED <<pushes, replacedAt>>
  BY <1>1 DEF SizeSince
<1>2. CASE Push
  <2>1. pushes \in 0..MaxPushes /\ now \in Int
    BY PoolAssumption DEF PoolTypeOK
  <2>2. pushes' = pushes + 1
    BY <1>2 DEF Push
  <2>3. \A i \in 0..MaxPushes : replacedAt'[i] = IF i = pushes THEN now ELSE replacedAt[i]
    BY <1>2 DEF Push, PoolTypeOK
  <2> QED
    BY <2>1, <2>2, <2>3 DEF SizeSince
<1> QED
  BY <1>1, <1>2

\* A size that was true at one time was true at an earlier one or later.
LEMMA SinceEarlier ==
    ASSUME PoolTypeOK, NEW v \in 0..MaxPushes, NEW t \in Int, NEW u \in Int, u <= t,
           SizeSince(v, t)
    PROVE  SizeSince(v, u)
<1>1. replacedAt[v] \in Int
  BY PoolAssumption DEF PoolTypeOK
<1> QED
  BY <1>1 DEF SizeSince

\* The parts that a step leaves as they are, it leaves true.
LEMMA SizesKept ==
    ASSUME PoolTypeOK, NothingAhead, SizesSince, NEW h \in Handler,
           UNCHANGED <<cached, cachedAt, pushes, replacedAt>>,
           \A p \in Handler : p # h => handlers'[p] = handlers[p],
           On(h, "write")' => /\ SizeSince(handlers'[h].size, handlers'[h].begun)
                              /\ cached <= handlers'[h].size,
           On(h, "sized")' => SizeSince(handlers'[h].size, handlers'[h].begun - MaxAge + 1)
    PROVE  SizesSince'
  BY DEF SizesSince, SizeSince, On

\* A size is stored with the time it was true at, in place of an older one.
LEMMA SizesStep ==
    /\ PoolTypeOK /\ NothingAhead /\ OneComputes /\ SizesSince /\ [PoolNext]_poolVars
    => SizesSince'
<1> SUFFICES ASSUME PoolTypeOK, NothingAhead, OneComputes, SizesSince, [PoolNext]_poolVars
             PROVE  SizesSince'
  OBVIOUS
<1>0. /\ now \in Nat /\ cachedAt \in Int /\ cached \in 0..MaxPushes /\ pushes \in 0..MaxPushes
      /\ MaxAge \in Nat \ {0} /\ MaxPushes \in Nat
      /\ \A p \in Handler : /\ handlers[p] \in Work /\ handlers[p].begun \in Nat
                            /\ handlers[p].size \in 0..MaxPushes /\ handlers[p].begun <= now
  BY PoolAssumption DEF PoolTypeOK, Work, Unknown, NothingAhead
<1>1. ASSUME NEW h \in Handler, Ask(h)
      PROVE  SizesSince'
  <2>1. UNCHANGED <<cached, cachedAt, pushes, replacedAt>>
    BY <1>1 DEF Ask, GetRegistry, ListAPIKeys, CreateAPIKey, rowVars, worldVars
  <2>2. /\ handlers'[h].step \in {"begin", "list", "insert"}
        /\ \A p \in Handler : p # h => handlers'[p] = handlers[p]
    BY <1>1, StepAfter DEF Ask, GetRegistry, ListAPIKeys, CreateAPIKey
  <2> QED
    BY <2>1, <2>2, SizesKept DEF On
<1>2. ASSUME NEW h \in Handler, Proceed(h)
      PROVE  SizesSince'
  <2>1. CASE ComputeSize(h)
    <3>1. UNCHANGED <<cached, cachedAt, pushes, replacedAt>>
      BY <2>1 DEF ComputeSize, rowVars, worldVars
    <3>2. SizeSince(pushes, handlers[h].begun) /\ cached <= pushes
      BY <1>0 DEF SizeSince, SizesSince
    <3> QED
      BY <2>1, <3>1, <3>2, NoteAfter, SizesKept DEF On
  <2>2. CASE LockRow(h)
    <3>1. UNCHANGED <<cached, cachedAt, pushes, replacedAt>>
      BY <2>2 DEF LockRow, rowVars, worldVars
    <3>2. Fresh => SizeSince(cached, handlers[h].begun - MaxAge + 1)
      <4> SUFFICES ASSUME Fresh PROVE SizeSince(cached, handlers[h].begun - MaxAge + 1)
        OBVIOUS
      <4>1. SizeSince(cached, cachedAt)
        BY DEF Fresh, SizesSince
      <4>2. handlers[h].begun - MaxAge + 1 <= cachedAt /\ handlers[h].begun - MaxAge + 1 \in Int
        BY <1>0 DEF Fresh
      <4> QED
        BY <1>0, <4>1, <4>2, SinceEarlier
    <3> QED
      BY <2>2, <3>1, <3>2, LockAfter, SizesKept DEF On, Resting
  <2>3. CASE WriteSize(h)
    <3>1. /\ On(h, "write") /\ cached' = handlers[h].size /\ cachedAt' = handlers[h].begun
          /\ UNCHANGED <<pushes, replacedAt>>
      BY <2>3 DEF WriteSize, Stamp, worldVars
    <3>2. /\ handlers'[h].step = "sized"
          /\ handlers'[h].begun = handlers[h].begun /\ handlers'[h].size = handlers[h].size
          /\ \A p \in Handler : p # h => handlers'[p] = handlers[p]
      BY <2>3, StepAfter DEF WriteSize
    <3>3. SizeSince(handlers[h].size, handlers[h].begun) /\ handlers[h].size <= pushes
      BY <3>1 DEF SizesSince, SizeSince
    <3>4. SizeSince(handlers[h].size, handlers[h].begun - MaxAge + 1)
      BY <1>0, <3>3, SinceEarlier
    <3>5. \A p \in Handler : p # h => ~On(p, "write")
      BY <3>1 DEF OneComputes, Computing, On
    <3> QED
      BY <3>1, <3>2, <3>3, <3>4, <3>5 DEF SizesSince, SizeSince, On
  <2>4. CASE \/ BeginSize(h) \/ AnswerSize(h) \/ ListAPIKeysByUser(h) \/ NextKey(h)
             \/ ListAPIKeyScopes(h) \/ EndOfRows(h) \/ BeginKey(h) \/ CommitKey(h) \/ TellKey(h)
    <3>1. UNCHANGED <<cached, cachedAt, pushes, replacedAt>>
      BY <2>4 DEF BeginSize, AnswerSize, ListAPIKeysByUser, NextKey, ListAPIKeyScopes,
                  EndOfRows, BeginKey, CommitKey, TellKey, rowVars, worldVars
    <3>2. /\ handlers'[h].step \notin {"write", "sized"}
          /\ \A p \in Handler : p # h => handlers'[p] = handlers[p]
      BY <2>4, StepAfter, RestAfter, NoteAfter
      DEF AnswerSize, NextKey, EndOfRows, BeginKey, CommitKey, TellKey, Resting
    <3> QED
      BY <3>1, <3>2, SizesKept DEF On
  <2> QED
    BY <1>2, <2>1, <2>2, <2>3, <2>4 DEF Proceed
<1>3. ASSUME NEW h \in Handler, GiveUp(h)
      PROVE  SizesSince'
  BY <1>3, RestAfter, SizesKept DEF GiveUp, On, Resting, rowVars, worldVars
<1>4. CASE UNCHANGED <<handlers, cached, cachedAt>> /\ (Push \/ UNCHANGED <<pushes, replacedAt>>)
  <2>1. cached' <= pushes'
    BY <1>0, <1>4 DEF SizesSince, Push
  <2>2. cachedAt # Unknown => SizeSince(cached, cachedAt)'
    BY <1>0, <1>4, SinceAfter DEF SizesSince, NothingAhead, SizeSince
  <2>3. ASSUME NEW p \in Handler, On(p, "write")
        PROVE  SizeSince(handlers[p].size, handlers[p].begun)'
    BY <1>0, <1>4, <2>3, SinceAfter DEF SizesSince, SizeSince
  <2>4. ASSUME NEW p \in Handler, On(p, "sized")
        PROVE  SizeSince(handlers[p].size, handlers[p].begun - MaxAge + 1)'
    <3>1. SizeSince(handlers[p].size, handlers[p].begun - MaxAge + 1)
      BY <2>4 DEF SizesSince
    <3>2. handlers[p].begun - MaxAge + 1 \in Int /\ handlers[p].begun - MaxAge + 1 <= now
      BY <1>0
    <3> QED
      BY <1>0, <1>4, <3>1, <3>2, SinceAfter DEF SizeSince
  <2> QED
    BY <1>4, <2>1, <2>2, <2>3, <2>4 DEF SizesSince, SizeSince, On
<1> QED
  BY <1>1, <1>2, <1>3, <1>4
  DEF PoolNext, KeyRemoved, RegistryRemoved, Push, Tick, poolVars, rowVars, worldVars

\* The sizes are in order from the beginning and stay so.
LEMMA SizesInOrder == PoolSpec => [](PoolTypeOK /\ NothingAhead /\ OneComputes /\ SizesSince)
<1>1. PoolInit => NothingAhead /\ OneComputes /\ SizesSince
  BY PoolAssumption
  DEF PoolInit, NothingAhead, OneComputes, SizesSince, Computing, On, Resting, Unknown
<1> QED
  BY <1>1, TypeCorrect, NothingAheadStep, OneComputesStep, SizesStep, PTL DEF PoolSpec

\* An answered size is at most MaxAge old.
THEOREM SizeRecent == PoolSpec => []SizeIsRecent
<1>1. PoolTypeOK /\ SizesSince => SizeIsRecent
  <2> SUFFICES ASSUME PoolTypeOK, SizesSince, NEW h \in Handler, On(h, "sized")
               PROVE  \/ handlers[h].size = pushes
                      \/ replacedAt[handlers[h].size] > handlers[h].begun - MaxAge
    BY DEF SizeIsRecent
  <2>1. SizeSince(handlers[h].size, handlers[h].begun - MaxAge + 1)
    BY DEF SizesSince
  <2>2. handlers[h] \in Work
    BY DEF PoolTypeOK
  <2>3. handlers[h].begun \in Int /\ replacedAt[handlers[h].size] \in Int /\ MaxAge \in Int
    BY <2>2, PoolAssumption DEF PoolTypeOK, Work
  <2> QED
    BY <2>1, <2>3 DEF SizeSince
<1> QED
  BY <1>1, SizesInOrder, PTL

\* The cached size never goes back to an earlier one.
THEOREM SizesNeverBack == PoolSpec => SizesNeverGoBack
<1>1. PoolTypeOK /\ SizesSince /\ [PoolNext]_poolVars => [cached' >= cached]_cached
  <2> SUFFICES ASSUME PoolTypeOK, SizesSince, [PoolNext]_poolVars, cached' # cached
               PROVE  cached' >= cached
    OBVIOUS
  <2>1. PICK h \in Handler : WriteSize(h)
    BY DEF PoolNext, Ask, Proceed, GetRegistry, ListAPIKeys, CreateAPIKey, BeginSize, LockRow,
           ComputeSize, AnswerSize, ListAPIKeysByUser, NextKey, ListAPIKeyScopes, EndOfRows,
           BeginKey, CommitKey, TellKey, GiveUp, KeyRemoved, RegistryRemoved, Push, Tick,
           poolVars, rowVars
  <2>2. cached <= handlers[h].size /\ cached' = handlers[h].size
    BY <2>1 DEF WriteSize, SizesSince
  <2>3. handlers[h] \in Work /\ cached \in Int
    BY PoolAssumption DEF PoolTypeOK
  <2> QED
    BY <2>2, <2>3, PoolAssumption DEF Work
<1> QED
  BY <1>1, SizesInOrder, PTL DEF PoolSpec, SizesNeverGoBack

-----------------------------------------------------------------------------
(* Nobody stands still but lists that have taken every connection *)

\* What h does next waits for no connection and no row.
CanProceed(h) ==
    \/ handlers[h].step \in {"compute", "write", "sized", "scopes", "commit"}
    \/ handlers[h].step \in {"begin", "list", "insert", "tell"} /\ Free
    \/ On(h, "lock") /\ RowFree
    \/ On(h, "rows") /\ (handlers[h].todo = 0 \/ Free)

\* A request that is under way, and nobody who can go on with his: the lists have it all.
SomeoneProceeds ==
    (\E h \in Handler : ~On(h, "rest")) =>
        \/ Jammed
        \/ \E h \in Handler : CanProceed(h)

\* No more connections are taken than there are.
Bounded == IsFiniteSet(taken) /\ Cardinality(taken) <= MaxConns

\* Who takes one more found one free.
LEMMA BoundedStep == Bounded /\ [PoolNext]_poolVars => Bounded'
<1> SUFFICES ASSUME Bounded, [PoolNext]_poolVars PROVE Bounded'
  OBVIOUS
<1>1. ASSUME NEW S \in SUBSET taken, taken' = S PROVE Bounded'
  <2>1. IsFiniteSet(S) /\ Cardinality(S) <= Cardinality(taken) /\ Cardinality(S) \in Nat /\ Cardinality(taken) \in Nat
    BY FS_Subset, FS_CardinalityType DEF Bounded
  <2> QED
    BY <1>1, <2>1, PoolAssumption DEF Bounded
<1>2. ASSUME NEW h, NEW i, Take(h, i) PROVE Bounded'
  <2>1. taken' = taken \cup {<<h, i>>} /\ Cardinality(taken) < MaxConns
    BY <1>2 DEF Take, Free
  <2>2. IsFiniteSet(taken)
    BY DEF Bounded
  <2>3. PICK x : x = <<h, i>>
    OBVIOUS
  <2>4. /\ IsFiniteSet(taken \cup {x})
        /\ Cardinality(taken \cup {x}) = Cardinality(taken)
              \/ Cardinality(taken \cup {x}) = Cardinality(taken) + 1
    BY <2>2, FS_AddElement
  <2>5. Cardinality(taken) \in Nat
    BY <2>2, FS_CardinalityType
  <2> QED
    BY <2>1, <2>3, <2>4, <2>5, PoolAssumption DEF Bounded
<1>3. \/ \E S \in SUBSET taken : taken' = S
      \/ \E h, i : Take(h, i)
  BY DEF PoolNext, Ask, Proceed, GetRegistry, BeginSize, LockRow, ComputeSize, WriteSize, AnswerSize,
     ListAPIKeys, ListAPIKeysByUser, NextKey, ListAPIKeyScopes, EndOfRows, CreateAPIKey, BeginKey,
     CommitKey, TellKey, GiveUp, KeyRemoved, RegistryRemoved, Push, Tick, Give, Query, Rollback, poolVars
<1> QED
  BY <1>1, <1>2, <1>3

\* So there are always at most as many as there are.
LEMMA PoolBounded == PoolSpec => []Bounded
<1>1. PoolInit => Bounded
  BY FS_EmptySet, PoolAssumption DEF PoolInit, Bounded
<1> QED
  BY <1>1, BoundedStep, PTL DEF PoolSpec

\* Waiting for the row is waiting for somebody who computes and needs nothing; so if
\* nobody can go on every connection is a list's.
LEMMA AllStuck ==
    ASSUME PoolTypeOK, Accounted, Bounded, NEW x \in Handler, ~On(x, "rest"),
           \A h \in Handler : ~CanProceed(h)
    PROVE  Jammed
<1> DEFINE L == {h \in Handler : On(h, "rows") /\ handlers[h].todo > 0}
<1>1. RowFree
  BY DEF RowFree, CanProceed, On
<1>2. \A h \in Handler : handlers[h].step \in Steps /\ handlers[h].todo \in 0..MaxKeys
  BY DEF PoolTypeOK, Work
<1>3. ~Free
  <2>1. SUFFICES ASSUME Free PROVE FALSE
    OBVIOUS
  <2> QED
    BY <1>1, <1>2, <2>1 DEF CanProceed, On, Steps
<1>4. Cardinality(taken) = MaxConns
  <2>1. Cardinality(taken) \in Nat
    BY FS_CardinalityType DEF Bounded
  <2> QED
    BY <1>3, <2>1, PoolAssumption DEF Bounded, Free
<1>5. \A h \in Handler : (<<h, 1>> \in taken <=> h \in L) /\ <<h, 2>> \notin taken
  <2> TAKE h \in Handler
  <2>1. ~On(h, "scopes") /\ ~On(h, "lock") /\ ~Computing(h) /\ ~On(h, "commit")
        /\ (On(h, "rows") => handlers[h].todo # 0)
    BY <1>1 DEF CanProceed, On, Computing
  <2> QED
    BY <1>2, <2>1, PoolAssumption DEF Accounted, Holds, On, Computing
<1>6. taken = {<<h, 1>> : h \in L}
  <2>1. taken \subseteq Handler \X {1, 2}
    BY DEF PoolTypeOK
  <2>2. ASSUME NEW c \in taken PROVE c \in {<<h, 1>> : h \in L}
    <3>1. PICK h \in Handler, i \in {1, 2} : c = <<h, i>>
      BY <2>1
    <3>2. i = 1 /\ h \in L
      BY <1>5, <3>1
    <3> QED
      BY <3>1, <3>2
  <2>3. ASSUME NEW h \in L PROVE <<h, 1>> \in taken
    BY <1>5
  <2> QED
    BY <2>2, <2>3
<1>7. Cardinality(L) = Cardinality(taken)
  <2> DEFINE f == [c \in taken |-> c[1]]
  <2>1. f \in Bijection(taken, L)
    <3>1. \A h \in L : <<h, 1>> \in taken /\ f[<<h, 1>>] = h
      BY <1>6
    <3>2. \A c \in taken : f[c] \in L /\ c = <<f[c], 1>>
      <4> TAKE c \in taken
      <4>1. PICK h \in L : c = <<h, 1>>
        BY <1>6
      <4> QED
        BY <4>1
    <3>3. f \in [taken -> L]
      BY <3>2
    <3>4. \A c, e \in taken : f[c] = f[e] => c = e
      BY <3>2
    <3> QED
      BY <3>1, <3>3, <3>4 DEF Bijection, Injection, Surjection, IsInjective
  <2>2. ExistsBijection(taken, L)
    <3> HIDE DEF f, L
    <3> QED
      BY <2>1 DEF ExistsBijection
  <2>3. IsFiniteSet(taken)
    BY DEF Bounded
  <2> HIDE DEF L
  <2> QED
    BY <2>2, <2>3, FS_Bijection
<1> QED
  BY <1>4, <1>7, PoolAssumption DEF Jammed

\* The safety half of EveryoneIsAnswered, for any pool and any number of handlers: the
\* row lock and the pool never wait for each other.
THEOREM NobodyStandsStill == PoolSpec => []SomeoneProceeds
<1>1. PoolTypeOK /\ Accounted /\ Bounded => SomeoneProceeds
  BY AllStuck DEF SomeoneProceeds
<1> QED
  BY <1>1, TypeCorrect, AlwaysAccounted, PoolBounded, PTL

=============================================================================
