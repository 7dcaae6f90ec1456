CONSTANTS
    Threads = {t1, t2, t3}
    Values = {v1, v2, v3}
    NoValue = NoValue
    Size = 3
SPECIFICATION FairSpec
INVARIANTS SlotExclusive WaiterHasPartner QuietShape Conserved
PROPERTIES RefinesStack EveryCallReturns
