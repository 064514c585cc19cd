SPECIFICATION Spec
CONSTANTS
    Capacity <- MCCapacity
    p1 = p1
    p2 = p2
    c1 = c1
    c2 = c2
    e1 = e1
    e2 = e2
    Events = {e1, e2}
    NoEvent = NoEvent
    Producers = {p1, p2}
    Consumers = {c1, c2}
    MaxPushes = 3
SYMMETRY Symmetry
INVARIANTS QueueInv AnswersTrue
PROPERTIES ImplementsFifo
CHECK_DEADLOCK FALSE
