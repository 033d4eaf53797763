--------------------------- MODULE ConnectionPool ---------------------------
(***************************************************************************)
(* The pool of database connections that all handlers share, and the       *)
(* dashboard handlers that keep a connection over more than one statement: *)
(* the size of a registry, cached in its row, the list of the API keys of  *)
(* a user, and the creation of a key.  The size of the objects of the      *)
(* registry is known by the number of pushes that made it.                 *)
(***************************************************************************)
EXTENDS Integers, FiniteSets

CONSTANTS
    Handler,    \* handlers that may run at a time
    MaxConns,   \* connections in the pool, max_conns of pgxpool
    MaxAge,     \* the time that a cached size may be used
    MaxTime,    \* bound: ticks of the clock
    MaxPushes,  \* bound: pushes to the registry
    MaxKeys     \* bound: API keys of the user

ASSUME PoolAssumption ==
    /\ MaxConns \in Nat
    /\ MaxAge \in Nat \ {0}
    /\ MaxTime \in Nat
    /\ MaxPushes \in Nat
    /\ MaxKeys \in Nat

VARIABLES
    taken,     \* connections: <<handler, i>> is the i-th that it has taken
    handlers,  \* what each handler is doing
    present,   \* the registry has its row
    cached,    \* its cached_size_bytes
    cachedAt,  \* its cached_size_updated_at, or Unknown
    keys,      \* how many keys the user has
    now,       \* the clock of the database and of the API
    pushes,    \* pushes so far
    replacedAt \* history: when the next push came

poolVars == <<taken, handlers, present, cached, cachedAt, keys, now, pushes, replacedAt>>

Unknown == -1

Resting == [step |-> "rest", begun |-> 0, size |-> 0, todo |-> 0]

Steps == {"rest", "begin", "lock", "compute", "write", "sized",
          "list", "rows", "scopes", "insert", "commit", "tell"}

Work == [step: Steps, begun: 0..MaxTime, size: 0..MaxPushes, todo: 0..MaxKeys]

\* The type invariant.
PoolTypeOK ==
    /\ taken \in SUBSET (Handler \X {1, 2})
    /\ handlers \in [Handler -> Work]
    /\ present \in BOOLEAN
    /\ cached \in 0..MaxPushes
    /\ cachedAt \in 0..MaxTime \cup {Unknown}
    /\ keys \in 0..MaxKeys
    /\ now \in 0..MaxTime
    /\ pushes \in 0..MaxPushes
    /\ replacedAt \in [0..MaxPushes -> 0..MaxTime]

PoolInit ==
    /\ taken = {}
    /\ handlers = [h \in Handler |-> Resting]
    /\ present = TRUE
    /\ cached = 0
    /\ cachedAt = Unknown
    /\ keys \in 0..MaxKeys
    /\ now = 0
    /\ pushes = 0
    /\ replacedAt = [p \in 0..MaxPushes |-> 0]

-----------------------------------------------------------------------------
(* The pool *)

On(h, step) == handlers[h].step = step
Becomes(h, step) == handlers' = [handlers EXCEPT ![h].step = step]
Rests(h) == handlers' = [handlers EXCEPT ![h] = Resting]

Free == Cardinality(taken) < MaxConns

\* Acquire, which waits for a connection; and what Commit, Rollback and the end of
\* rows do.
Take(h, i) == Free /\ taken' = taken \cup {<<h, i>>}
Give(h, i) == taken' = taken \ {<<h, i>>}

\* A statement outside a transaction takes a connection and gives it back.
Query == Free /\ UNCHANGED taken

rowVars == <<present, cached, cachedAt>>
worldVars == <<now, pushes, replacedAt>>

-----------------------------------------------------------------------------
(* The size of a registry *)

\* With the user and the registry found, by a query each.
GetRegistry(h) ==
    /\ On(h, "rest") /\ present
    /\ Query
    /\ Becomes(h, "begin")
    /\ UNCHANGED <<rowVars, keys, worldVars>>

\* NOW() of the transaction is this moment.
BeginSize(h) ==
    /\ On(h, "begin")
    /\ Take(h, 1)
    /\ handlers' = [handlers EXCEPT ![h].step = "lock", ![h].begun = now]
    /\ UNCHANGED <<rowVars, keys, worldVars>>

\* Mutant: SELECT without FOR UPDATE.
RowUnlocked == TRUE

\* FOR UPDATE: one transaction at a time goes past it.
RowFree == \A p \in Handler : ~On(p, "compute") /\ ~On(p, "write")

Fresh == cachedAt # Unknown /\ now - cachedAt < MaxAge

\* Mutant: no Rollback on the way out.
RollbackForgotten(h) == UNCHANGED taken

Rollback(h) == Give(h, 1)

\* No row: 404.  A fresh size is the answer.
LockRow(h) ==
    /\ On(h, "lock")
    /\ RowFree
    /\ CASE ~present -> Rollback(h) /\ Rests(h)
         [] present /\ Fresh ->
               /\ Give(h, 1)
               /\ handlers' = [handlers EXCEPT ![h].step = "sized", ![h].size = cached]
         [] OTHER -> Becomes(h, "compute") /\ UNCHANGED taken
    /\ UNCHANGED <<rowVars, keys, worldVars>>

ComputeSize(h) ==
    /\ On(h, "compute")
    /\ handlers' = [handlers EXCEPT ![h].step = "write", ![h].size = pushes]
    /\ UNCHANGED <<taken, rowVars, keys, worldVars>>

\* Mutant: the time at which the size is written.
StampOfWrite(h) == now

Stamp(h) == handlers[h].begun

WriteSize(h) ==
    /\ On(h, "write")
    /\ cached' = handlers[h].size
    /\ cachedAt' = Stamp(h)
    /\ Give(h, 1)
    /\ Becomes(h, "sized")
    /\ UNCHANGED <<present, keys, worldVars>>

AnswerSize(h) ==
    /\ On(h, "sized")
    /\ Rests(h)
    /\ UNCHANGED <<taken, rowVars, keys, worldVars>>

-----------------------------------------------------------------------------
(* The keys of a user *)

ListAPIKeys(h) ==
    /\ On(h, "rest")
    /\ Query
    /\ Becomes(h, "list")
    /\ UNCHANGED <<rowVars, keys, worldVars>>

\* The rows hold their connection until they are read to the end.
ListAPIKeysByUser(h) ==
    /\ On(h, "list")
    /\ Take(h, 1)
    /\ handlers' = [handlers EXCEPT ![h].step = "rows", ![h].todo = keys]
    /\ UNCHANGED <<rowVars, keys, worldVars>>

\* Mutant: one key too many.
NextKeyPastEnd(h) ==
    /\ On(h, "rows") /\ handlers[h].todo >= 0
    /\ Take(h, 2)
    /\ Becomes(h, "scopes")
    /\ UNCHANGED <<rowVars, keys, worldVars>>

\* The scopes of each key are asked for on a connection of their own.
NextKey(h) ==
    /\ On(h, "rows") /\ handlers[h].todo > 0
    /\ Take(h, 2)
    /\ Becomes(h, "scopes")
    /\ UNCHANGED <<rowVars, keys, worldVars>>

ListAPIKeyScopes(h) ==
    /\ On(h, "scopes")
    /\ Give(h, 2)
    /\ handlers' = [handlers EXCEPT ![h].step = "rows", ![h].todo = @ - 1]
    /\ UNCHANGED <<rowVars, keys, worldVars>>

EndOfRows(h) ==
    /\ On(h, "rows") /\ handlers[h].todo = 0
    /\ Give(h, 1)
    /\ Rests(h)
    /\ UNCHANGED <<rowVars, keys, worldVars>>

CreateAPIKey(h) ==
    /\ On(h, "rest")
    /\ Query
    /\ Becomes(h, "insert")
    /\ UNCHANGED <<rowVars, keys, worldVars>>

BeginKey(h) ==
    /\ On(h, "insert")
    /\ Take(h, 1)
    /\ Becomes(h, "commit")
    /\ UNCHANGED <<rowVars, keys, worldVars>>

\* Mutant: the scopes are read back before the transaction gives its connection up.
CommitAfterTelling(h) ==
    /\ On(h, "commit")
    /\ Free
    /\ keys' \in {keys, keys + 1} /\ keys' <= MaxKeys
    /\ Give(h, 1)
    /\ Rests(h)
    /\ UNCHANGED <<rowVars, worldVars>>

\* Its scopes are read back; or the name is taken, 409.
CommitKey(h) ==
    /\ On(h, "commit")
    /\ \/ keys < MaxKeys /\ keys' = keys + 1 /\ Becomes(h, "tell")
       \/ UNCHANGED keys /\ Rests(h)
    /\ Give(h, 1)
    /\ UNCHANGED <<rowVars, worldVars>>

TellKey(h) ==
    /\ On(h, "tell")
    /\ Query
    /\ Rests(h)
    /\ UNCHANGED <<rowVars, keys, worldVars>>

-----------------------------------------------------------------------------
(* What surrounds them *)

\* The client goes away, and with it the context of everything the handler waits for.
GiveUp(h) ==
    /\ ~On(h, "rest")
    /\ taken' = taken \ {<<h, 1>>, <<h, 2>>}
    /\ Rests(h)
    /\ UNCHANGED <<rowVars, keys, worldVars>>

KeyRemoved ==
    /\ keys > 0 /\ keys' = keys - 1
    /\ Query
    /\ UNCHANGED <<handlers, rowVars, worldVars>>

\* A delete of the registry waits for whoever has locked its row.
RegistryRemoved ==
    /\ present /\ RowFree
    /\ Query
    /\ present' = FALSE
    /\ UNCHANGED <<handlers, cached, cachedAt, keys, worldVars>>

Push ==
    /\ pushes < MaxPushes /\ pushes' = pushes + 1
    /\ replacedAt' = [replacedAt EXCEPT ![pushes] = now]
    /\ UNCHANGED <<taken, handlers, rowVars, keys, now>>

Tick ==
    /\ now < MaxTime /\ now' = now + 1
    /\ UNCHANGED <<taken, handlers, rowVars, keys, pushes, replacedAt>>

-----------------------------------------------------------------------------

Ask(h) == GetRegistry(h) \/ ListAPIKeys(h) \/ CreateAPIKey(h)

Proceed(h) ==
    \/ BeginSize(h) \/ LockRow(h) \/ ComputeSize(h) \/ WriteSize(h) \/ AnswerSize(h)
    \/ ListAPIKeysByUser(h) \/ NextKey(h) \/ ListAPIKeyScopes(h) \/ EndOfRows(h)
    \/ BeginKey(h) \/ CommitKey(h) \/ TellKey(h)

PoolNext ==
    \/ \E h \in Handler : Ask(h) \/ Proceed(h) \/ GiveUp(h)
    \/ KeyRemoved \/ RegistryRemoved \/ Push \/ Tick

\* Those who wait for a connection or for the row are served in the order in which
\* they came, so whoever may go on again and again does.
PoolFairness == \A h \in Handler : SF_poolVars(Proceed(h))

PoolSpec == PoolInit /\ [][PoolNext]_poolVars /\ PoolFairness

-----------------------------------------------------------------------------
(* Properties *)

\* The connections that are out are those that the handlers still need: whatever a
\* handler ends with, it gives back what it took.
ConnectionsAccounted ==
    taken = {<<h, 1>> : h \in {p \in Handler : handlers[p].step \in
                {"lock", "compute", "write", "rows", "scopes", "commit"}}}
              \cup {<<h, 2>> : h \in {p \in Handler : On(p, "scopes")}}

\* A size that is answered was the size of the registry when the request came or less
\* than MaxAge before, however long it was computed and whoever else asked.
SizeIsRecent ==
    \A h \in Handler : On(h, "sized") =>
        \/ handlers[h].size = pushes
        \/ replacedAt[handlers[h].size] > handlers[h].begun - MaxAge

\* A size computed earlier never takes the place of one computed later.
SizesNeverGoBack == [][cached' >= cached]_cached

\* Every connection is held by a list that waits for one more.
Jammed ==
    Cardinality({h \in Handler : On(h, "rows") /\ handlers[h].todo > 0}) >= MaxConns

\* Every request comes to an end, unless lists of keys take all the connections
\* between them, again and again or for good: nothing else that handlers wait for goes
\* round in a circle.
EveryoneIsAnswered == \A h \in Handler : []<>(On(h, "rest") \/ Jammed)

=============================================================================
