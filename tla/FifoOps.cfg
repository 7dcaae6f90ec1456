CONSTANTS
    p1 = p1
    p2 = p2
    c1 = c1
    c2 = c2
    Producers = {p1, p2}
    Consumers = {c1, c2}
    MaxPush <- OneConsumerOrTwo
    Values = {v1, v2}
    NoValue = NoValue
    Capacity = 2
SPECIFICATION FairSpec
INVARIANTS NoSlotRace UsedAgrees
PROPERTIES RefusesRightly RefinesQueue EveryCallReturns
