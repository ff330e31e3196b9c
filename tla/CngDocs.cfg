SPECIFICATION Spec
CONSTANTS
    r1 = r1
    r2 = r2
    r3 = r3
    r4 = r4
    t1 = t1
    NoRow = NoRow
    NoType = NoType
    Request = {r1, r2, r3, r4}
    DocType = {t1}
SYMMETRY RequestSymmetry
INVARIANTS NoDanglingRow AnsweredUploadsKept UnavailableMeansReplaced FilesLeftBehind
CHECK_DEADLOCK FALSE
