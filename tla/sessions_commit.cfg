CONSTANTS
    t1 = t1  t2 = t2  w1 = w1  w2 = w2  w3 = w3
    Tasks = {t1}
    Writes = {w1, w2}
    Author <- AuthorOfEach
    MaxDepth = 2
    Tidy = {}
SPECIFICATION Spec
INVARIANTS EveryCommitKept
