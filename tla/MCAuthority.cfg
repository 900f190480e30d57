SPECIFICATION Spec
CONSTANTS
    s1 = s1
    s2 = s2
    h1 = h1
    i1 = i1
    i2 = i2
    a1 = a1
    a2 = a2
    a3 = a3
    a4 = a4
    q1 = q1
    q2 = q2
    o1 = o1
    None = None
    Session = {s1, s2}
    Objective = {o1}
    Instance = {h1, i1, i2}
    Historical = {h1}
    ObjectiveOf <- MCObjectiveOf
    Attempt = {a1, a2, a3, a4}
    InstanceOf <- MCInstanceOf
    Intent = {"scheduled"}
    Request = {q1}
    RequestFor <- MCRequestFor
    Grade = {"again"}
    Lease = 2
    Again = 1
    Day = 2
    MaxTime = 2
INVARIANTS OneActiveOpportunity ActiveIsUnanswered AppliedChain
PROPERTIES AppliedInWindow MappingsHold ImplementsReceiptRegister
SYMMETRY MCSessions
