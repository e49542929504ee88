CONSTANTS
    None = None
    first = first  second = second
    old = old  own = own  oauth = oauth  other = other
    f1 = f1  t1 = t1  t2 = t2
    Containers = {first, second}
    Offering = {first, second}
    Callables = {f1}
    Resolves <- Markers
    Providers = {old, own, oauth, other}
    NameOf <- Names
    Routed = {old, own, oauth, other}
    Listed <- Lists
    Added = {other}
    Main = main
    Threads = {t1, t2}
    MaxStarts = 2
SPECIFICATION Spec
SYMMETRY Alike
CHECK_DEADLOCK FALSE
INVARIANTS TypeOK InjectionAgrees OneCache AnsweredAsBuilt
PROPERTIES NothingForgotten
