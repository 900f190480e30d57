SPECIFICATION Spec
CONSTANTS
    a1 = a1
    a2 = a2
    a3 = a3
    b1 = b1
    i1 = i1
    i2 = i2
    None = None
    Attempt = {a1, a2}
    Foreign = {}
    Instance = {i1, i2}
    Flusher = {f1, f2}
    Submitter = {u1}
    Recoverer = {}
    InstanceOf <- MCInstanceOf
    RequestHash <- MCHash
INVARIANT FlushReachesEveryRow
