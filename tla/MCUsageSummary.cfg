SPECIFICATION Spec
CONSTANTS
    NoEvent = NoEvent
    Event = {e1, e2, e3}
    MonthLength = 2
    MaxNow = 4
    Usage <- MCUsage
SYMMETRY Interchangeable
INVARIANTS
    TypeOK
    SummaryIsIntegral
    RefusedOnlyIfNegative
    ReportsAreFinal
    BalanceCarriesOver
