CONSTANTS
    t1 = t1  t2 = t2  w1 = w1  w2 = w2  w3 = w3
    Tasks = {t1, t2}
    Writes = {w1, w2, w3}
    Author <- AuthorOfEach
    MaxDepth = 3
    Tidy = {t1}
SPECIFICATION Spec
INVARIANTS TidyInv CommitsKept RolledBack
PROPERTIES Isolation ImplementsTransactions
