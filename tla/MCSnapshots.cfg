SPECIFICATION PartsSpec
CONSTANTS
    p1 = p1
    b1 = b1
    b2 = b2
    None = None
    Request = {r1, r2}
    Source = {x, y}
    Lease = 1
    Validity = 2
    Cooldown = 1
    MaxEdits = 1
    MaxTime = 3
    Page <- OnePage
    Button <- TwoButtons
    Throttle = 2
    TabTime = 2
    MaxPromises = 4
    Project <- TwoProjects
    Subject <- OneSubject
    Window = 1
    MaxRows <- RowsOf
    RowTime <- TimeOf
    Workspace <- Workspaces
    NoCursor = None
    Off = Off
INVARIANTS GenerationsAreUnique RefreshesAreJoined PagesShowWhatIsPublished PublishedIsExact
PROPERTIES SnapshotsAdvance RunsEndByThemselves UnsupportedIsKept
SYMMETRY Symmetry
CHECK_DEADLOCK FALSE
