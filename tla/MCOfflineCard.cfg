SPECIFICATION Spec
CONSTANTS
    t1 = t1
    t2 = t2
    q1 = q1
    q2 = q2
    i1 = i1
    i2 = i2
    None = None
    Tab = {t1, t2}
    Request = {q1, q2}
    Instance = {i1, i2}
SYMMETRY Symmetry
INVARIANTS NothingIsStranded ReportsAreTrue NoneIsOverlooked CardInvariant
CHECK_DEADLOCK FALSE
