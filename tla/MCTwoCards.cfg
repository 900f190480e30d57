SPECIFICATION Spec
CONSTANTS
    a1 = a1
    a2 = a2
    a3 = a3
    b1 = b1
    i1 = i1
    i2 = i2
    None = None
    Attempt = {a1, a3}
    Foreign = {b1}
    Instance = {i1}
    Flusher = {f1}
    Submitter = {u1, u2}
    Recoverer = {}
    InstanceOf <- MCInstanceOf
    RequestHash <- MCHash
INVARIANTS OneRowPerInstance
PROPERTIES ImplementsAnswerLedger ServerIsRegister TerminalNeverRewound
SYMMETRY CardSymmetry
