SPECIFICATION Spec
CONSTANTS
    t1 = t1
    t2 = t2
    None = None
    Tab <- MCTab
    Word = {"a"}
    Cards = 2
    MaxRuns = 2
PROPERTY UnfinishedIsKept
