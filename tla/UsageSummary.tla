---------------------------- MODULE UsageSummary ----------------------------
(***************************************************************************)
(* The bill: usage events of one tenant, inserted while the monthly        *)
(* summary is computed from four queries that share no transaction.  Time  *)
(* is one clock that the API and PostgreSQL agree on; a row's created_at   *)
(* is the start of the inserting transaction, its visibility the commit.   *)
(***************************************************************************)
EXTENDS Integers, Sequences, FiniteSets, SequencesExt, FiniteSetsExt

CONSTANTS
    Event,       \* ids of usage events
    Usage,       \* <<metric, value>> pairs that may be inserted
    MonthLength, \* months are equal here
    MaxNow,      \* bound: when the clock stops
    NoEvent

ASSUME UsageAssumption ==
    /\ Usage \subseteq {"storage-bytes", "push-op-count"} \X Int
    /\ MonthLength \in Nat \ {0}
    /\ MaxNow \in Nat

VARIABLES
    now,
    ledger,  \* usage_events by id, or NoEvent; a row counts once it is committed
    request, \* the summary being computed
    reports  \* history: summaries of months that were over and settled when asked for

vars == <<now, ledger, request, reports>>

Months == {m \in 0..MaxNow : m % MonthLength = 0}

Idle == [step |-> "idle"]

Init ==
    /\ now = 0
    /\ ledger = [e \in Event |-> NoEvent]
    /\ request = Idle
    /\ reports = {}

-----------------------------------------------------------------------------
(* The ledger *)

Committed == {e \in Event : ledger[e] # NoEvent /\ ledger[e].committed}

Open == {e \in Event : ledger[e] # NoEvent /\ ~ledger[e].committed}

Tick ==
    /\ now < MaxNow
    /\ now' = now + 1
    /\ UNCHANGED <<ledger, request, reports>>

\* ON CONFLICT (id) DO NOTHING: an id delivered again changes nothing.
InsertUsageEvents(e, usage) ==
    /\ ledger[e] = NoEvent
    /\ ledger' = [ledger EXCEPT ![e] =
                    [at |-> now, metric |-> usage[1], value |-> usage[2],
                     committed |-> FALSE]]
    /\ UNCHANGED <<now, request, reports>>

\* late: a row older than the as-of of a running summary becomes visible.
CommitInsert(e) ==
    /\ e \in Open
    /\ ledger' = [ledger EXCEPT ![e].committed = TRUE]
    /\ request' = IF request # Idle /\ ledger[e].at < request.asOf
                  THEN [request EXCEPT !.late = TRUE] ELSE request
    /\ UNCHANGED <<now, reports>>

RollbackInsert(e) ==
    /\ e \in Open
    /\ ledger' = [ledger EXCEPT ![e] = NoEvent]
    /\ UNCHANGED <<now, request, reports>>

-----------------------------------------------------------------------------
(* The queries *)

RowsBetween(metric, from, to) ==
    {e \in Committed : ledger[e].metric = metric /\ ledger[e].at \in from..(to - 1)}

Total(rows) == SumFunction([e \in rows |-> ledger[e].value])

\* Mutant: rows after the period count too.
SumUsageMetricFrom(metric, from, to) == Total(RowsBetween(metric, from, MaxNow + 1))

SumUsageMetricBetween(metric, from, to) == Total(RowsBetween(metric, from, to))

\* Mutant: rows of the first instant count as opening balance too.
SumUsageMetricUpTo(metric, before) == Total(RowsBetween(metric, 0, before + 1))

SumUsageMetricBefore(metric, before) == Total(RowsBetween(metric, 0, before))

\* Mutant: no GROUP BY, the rows of an instant come in any order.
ListUsageMetricRows(metric, from, to) ==
    LET rows == SetToSortSeq(RowsBetween(metric, from, to),
                             LAMBDA d, e : \/ ledger[d].at < ledger[e].at
                                           \/ /\ ledger[d].at = ledger[e].at
                                              /\ ledger[d].value < ledger[e].value)
    IN  [i \in DOMAIN rows |-> [at |-> ledger[rows[i]].at, value |-> ledger[rows[i]].value]]

InOrder(instants) ==
    CHOOSE s \in [1..Cardinality(instants) -> instants] :
        \A i, j \in DOMAIN s : i < j => s[i] < s[j]

\* GROUP BY created_at ORDER BY created_at.
ListUsageMetricDeltas(metric, from, to) ==
    LET rows     == RowsBetween(metric, from, to)
        instants == InOrder({ledger[e].at : e \in rows})
    IN  [i \in DOMAIN instants |->
           [at |-> instants[i], value |-> Total({e \in rows : ledger[e].at = instants[i]})]]

-----------------------------------------------------------------------------
(* The summary *)

\* Mutant: the clock is not held to the period.
UsageSummaryAsOfNow(from, to) == IF now < from THEN from ELSE now

UsageSummaryAsOf(from, to) ==
    IF now < from THEN from ELSE IF now < to THEN now ELSE to

\* What is refused before the loop: a period that is none, or an as-of out of it.
PeriodValid(from, to, asOf) == to > from /\ asOf \in from..to

\* Where the loop is, with what balance and what area so far, and if it goes on.
Opened(from, opening) ==
    [cursor |-> from, running |-> opening, area |-> 0, ok |-> opening >= 0]

Accumulated(before, delta, asOf) ==
    LET held == before.running + delta.value
    IN  [cursor  |-> delta.at,
         running |-> held,
         area    |-> before.area + before.running * (delta.at - before.cursor),
         ok      |-> before.ok /\ delta.at \in before.cursor..(asOf - 1) /\ held >= 0]

Accrual(from, asOf, opening, deltas) ==
    LET after[i \in 0..Len(deltas)] ==
          IF i = 0 THEN Opened(from, opening) ELSE Accumulated(after[i - 1], deltas[i], asOf)
    IN  after[Len(deltas)]

\* Mutant: nothing accrues after the last delta.
StorageByteTimeToLastDelta(end, asOf) == end.area

\* The last balance holds until the as-of.
StorageByteTime(end, asOf) == end.area + end.running * (asOf - end.cursor)

NewRequest(from) ==
    [step |-> "push", from |-> from, asOf |-> UsageSummaryAsOf(from, from + MonthLength),
     push |-> 0, opening |-> 0, closing |-> 0, area |-> 0, late |-> FALSE,
     settled |-> /\ from + MonthLength =< now
                 /\ \A e \in Open : ledger[e].at >= from + MonthLength]

AskSummary(from) ==
    /\ request = Idle
    /\ request' = NewRequest(from)
    /\ UNCHANGED <<now, ledger, reports>>

\* The push and the pull counts are two queries alike; one stands for both.
ReadOpCount ==
    /\ request.step = "push"
    /\ request' = [request EXCEPT
          !.step = "opening",
          !.push = SumUsageMetricBetween("push-op-count", request.from, request.asOf)]
    /\ UNCHANGED <<now, ledger, reports>>

ReadOpening ==
    /\ request.step = "opening"
    /\ request' = [request EXCEPT
          !.step = "deltas",
          !.opening = SumUsageMetricBefore("storage-bytes", request.from)]
    /\ UNCHANGED <<now, ledger, reports>>

\* A failed calculation is a 500, whatever went wrong.
ReadDeltasAndCalculate ==
    /\ request.step = "deltas"
    /\ LET end == Accrual(request.from, request.asOf, request.opening,
                     ListUsageMetricDeltas("storage-bytes", request.from, request.asOf))
           valid == PeriodValid(request.from, request.from + MonthLength, request.asOf)
       IN  request' = IF valid /\ end.ok
                      THEN [request EXCEPT !.step = "ok", !.closing = end.running,
                                           !.area = StorageByteTime(end, request.asOf)]
                      ELSE [request EXCEPT !.step = "failed"]
    /\ UNCHANGED <<now, ledger, reports>>

Respond ==
    /\ request.step \in {"ok", "failed"}
    /\ request' = Idle
    /\ reports' = IF request.step = "ok" /\ request.settled
                  THEN reports \cup {[from |-> request.from, push |-> request.push,
                                      opening |-> request.opening,
                                      closing |-> request.closing, area |-> request.area]}
                  ELSE reports
    /\ UNCHANGED <<now, ledger>>

Next ==
    \/ Tick
    \/ \E e \in Event : \/ \E usage \in Usage : InsertUsageEvents(e, usage)
                        \/ CommitInsert(e) \/ RollbackInsert(e)
    \/ \E m \in Months : AskSummary(m)
    \/ ReadOpCount \/ ReadOpening \/ ReadDeltasAndCalculate \/ Respond

Spec == Init /\ [][Next]_vars

-----------------------------------------------------------------------------
(* Properties *)

\* The type invariant.
TypeOK ==
    /\ now \in 0..MaxNow
    /\ \A e \in Event : ledger[e] # NoEvent =>
          /\ ledger[e].at \in 0..now
          /\ <<ledger[e].metric, ledger[e].value>> \in Usage
    /\ request # Idle =>
          /\ request.step \in {"push", "opening", "deltas", "ok", "failed"}
          /\ request.from \in Months /\ request.asOf \in Nat
          /\ {request.push, request.opening, request.closing, request.area} \subseteq Int
          /\ request.settled => ~request.late

\* Bytes held through the instant t, by the rows visible now.
BytesAt(t) == Total({e \in Committed : ledger[e].metric = "storage-bytes" /\ ledger[e].at =< t})

\* What is billed for is the sum of what was held at each instant of the period:
\* the four queries and the walk over the deltas come to that, unless a row older
\* than the as-of became visible in between.
SummaryIsIntegral ==
    request # Idle /\ request.step = "ok" /\ ~request.late =>
        /\ request.area = SumFunction([t \in request.from..(request.asOf - 1) |-> BytesAt(t)])
        /\ request.closing = BytesAt(request.asOf - 1)

\* A summary is refused exactly when the tenant's balance was negative at some
\* instant: rows of one instant may come in any order.
RefusedOnlyIfNegative ==
    request # Idle /\ request.step \in {"ok", "failed"} /\ ~request.late =>
        (request.step = "failed"
            <=> \E t \in (request.from - 1)..(request.asOf - 1) : BytesAt(t) < 0)

\* Once a month is over and every insert begun in it has ended, its summary is the
\* same whenever it is asked for.
ReportsAreFinal ==
    \A a, b \in reports : a.from = b.from => a = b

\* Storage held at the end of a month is neither dropped from the next one's bill
\* nor counted twice.
BalanceCarriesOver ==
    \A a, b \in reports : a.from + MonthLength = b.from => a.closing = b.opening

=============================================================================
