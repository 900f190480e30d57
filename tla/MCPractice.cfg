SPECIFICATION PartsSpec
CONSTANTS
    t1 = t1
    t2 = t2
    e1 = e1
    e2 = e2
    None = None
    Tab <- MCTab
    Word = {"a", "b"}
    Cards = 2
    MaxRuns = 1
    Numbered <- TwoExercises
    Asset <- OneAsset
    Phrase <- Texts
    MaxVersion = 2
    MaxEdits = 3
    Request <- Served
    Deployment <- Deployments
    RunsOn <- ServedBy
    Ships <- Curricula
    Exercise <- Exercises
    ObjectiveOf <- OneObjective
    Content <- Texts
    Workers = 2
    MaxFailures = 1
    MaxInstances = 4
    Epoch <- Epochs
    Grading <- Texts
    MaxRevision = 2
    MaxPast = 3
SYMMETRY Symmetry
INVARIANTS TextIsOfTheCard ResultIsStored NoCardIsSkipped ReleasesAreExact CardsAreExact
PROPERTY MirrorsAdvance
CHECK_DEADLOCK FALSE
