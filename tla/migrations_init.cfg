CONSTANTS
    r1 = r1  r2 = r2  users = users  orders = orders
    Runners = {r1, r2}
    Head = 3
    TableOf <- TablesOfChanges
SPECIFICATION FairSpec
INVARIANTS TypeOK
PROPERTIES OnlyInitMisstates InitSucceeds
