SPECIFICATION Spec
CONSTANTS
    Writers = {w1, w2}
    Readers = {r1, r2}
    Keys = {k1, k2}
    MaxWrites = 2
    MaxEdits = 1
SYMMETRY Symmetry
INVARIANTS TypeOK AnswersAreFresh EntriesMatchTheirTag QuiescentCacheIsExact
PROPERTY ImplementsFreshReads
