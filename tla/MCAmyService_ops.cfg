SPECIFICATION FairSpec
CONSTANTS
    c1 = c1
    Conns = {c1}
    MaxOps = 3
INVARIANTS OwnSession PairsWithItsQuery NoneLeftBehind
PROPERTIES EveryOpAnswered
