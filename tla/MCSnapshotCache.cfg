SPECIFICATION Spec
CONSTANTS
    l1 = l1
    l2 = l2
    t1 = t1
    Load = {l1, l2}
    Tab = {t1}
    TabOf <- OneTab
    Content = {"a", "new"}
    Foreign = {"new"}
    MaxPublished = 3
SYMMETRY Symmetry
INVARIANTS OneContentPerGeneration
PROPERTIES ShowsTheNewest
CHECK_DEADLOCK FALSE
