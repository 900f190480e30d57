SPECIFICATION MCSpec
CONSTANTS
    c1 = c1
    c2 = c2
    a1 = a1
    a2 = a2
    None = None
    Call = {c1, c2}
    x = x
    y = y
    Body = {x, y}
    legacy = legacy
    historical = historical
    draft = draft
    pinned = pinned
    later = later
    unit = unit
    Instance <- MCInstance
    Attempt <- MCAttempt
    InstanceOf <- MCInstanceOf
    KindOf <- MCKindOf
    ProjectOf <- MCProjectOf
    StatusOf <- MCStatusOf
    Rubric = {}
    Release <- MCRelease
SYMMETRY Symmetry
INVARIANTS OneReceipt AcceptedIsAnswered
PROPERTY AppliedWasEligible
