CONSTANTS
    r1 = r1  r2 = r2  users = users  orders = orders
    Runners = {r1}
    Head = 3
    TableOf <- TablesOfChanges
SPECIFICATION FairSpec
PROPERTIES InitAligns
