CONSTANTS
    Never = Never  Default = Default  None = None
    Processes = {p1, p2}
    Sessions = {s1}
    Requests = {r1}
    Settings <- SomeSettings
    Lifetimes <- SomeLifetimes
    Second = 2
    MaxTime = 5
SPECIFICATION Spec
INVARIANTS TypeOK HonestExpiry AcceptedInTime
