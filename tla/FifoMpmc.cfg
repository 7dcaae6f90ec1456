CONSTANTS
    p1 = p1
    p2 = p2
    c1 = c1
    c2 = c2
    Producers = {p1, p2}
    Consumers = {c1, c2}
    MaxPush <- TwoConsumers
    Values = {v1}
    NoValue = NoValue
    Capacity = 2
SPECIFICATION Spec
PROPERTY TakesOnlyPublished
