SPECIFICATION Spec
CONSTANTS
    a1 = a1
    a2 = a2
    a3 = a3
    b1 = b1
    i1 = i1
    i2 = i2
    None = None
    Attempt = {a1}
    Foreign = {b1}
    Instance = {i1}
    Flusher = {f1, f2}
    Submitter = {u1}
    Recoverer = {m1}
    InstanceOf <- MCInstanceOf
    RequestHash <- MCHash
INVARIANTS TypeOK AcceptedIsAuthoritative BeatenIsFinal SentIsDurable ReportedIsDurable
PROPERTIES OnlyRecoveryUnblocks
SYMMETRY PageSymmetry
