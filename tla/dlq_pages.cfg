CONSTANTS
    Ops = {o1, o2}
    MaxId = 2
    Count = 1
    Budgets <- OneThingAtATime
SPECIFICATION Spec
INVARIANTS TypeOK NewestToOldest ListFresh SelectionVisible ResentOnce NothingDropped
PROPERTY LoadingEnds
