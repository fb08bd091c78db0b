SPECIFICATION Spec
CONSTANTS
    Producers = {p1, p2}
    Consumers = {w1, w2, w3}
    Items = {i1, i2}
    Bound = 2
    Nothing = Nothing
INVARIANT SleepersAreSignalled
PROPERTY ImplementsChannel
