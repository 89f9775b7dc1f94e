SPECIFICATION ConsoleSpec
CONSTANTS
    NoData = NoData
    \* ConfigEditor
    Name = {"n"}
    Site = {"s1", "s2"}
    Machine = {"m1"}
    Host = {"", "h1"}
    NoHost = ""
    Out = Out
    None = None
    SiteOf <- MCSiteOf
    HostOf <- MCHostOf
    MaxConfigWrites = 3
    \* DashboardEditor
    Slot = {"s"}
    Content = {"new", "set"}
    NewContent = "new"
    Vacant = Vacant
    Gone = Gone
    MaxBoardWrites = 2
    \* RegisterEditor
    RegisterName = {"a"}
    Unnamed = ""
    Scale = {0, 1}
    MaxRows = 1
    File <- MCFile
    Connection = {"c"}
    NoMachine = NoMachine
    MaxMachineWrites = 2
    \* AlertRulesEditor
    Rule = {"r1"}
    NewRule = "new"
    Device = {"d1", "d2"}
    Metric = {"coil", "level"}
    MetricsOf <- MCMetricsOf
    RuleRequest = {"q1", "q2"}
    Blank = Blank
    MaxRuleWrites = 2
    \* Session
    Call = {"me", "c"}
    Me = "me"
    AccessLife = 1
    RefreshLife = 2
    MaxTicks = 2
    \* SiteAdmin
    Plant = {"p1", "p2"}
    Part = {"l"}
    PlantOf <- MCPlantOf
    Within <- MCWithin
    NoPlant = NoPlant
    NoPart = NoPart
    FirstTrees <- MCFirstTrees
    MaxTreeWrites = 1
    \* AlertEvents
    Event = {1, 2}
    Info = {1}
    PageSize = 1
    Reporter = {"u"}
    Open = "open"
    Resolved = "resolved"
    Absent = "absent"
    Filter = {"all", "open"}
    MaxEventWrites = 1
    \* WidgetForm
    ShopLine = {"l1", "l2"}
    FirstLine = "l1"
    Unit = {"u1", "u2"}
    LineOf <- MCLineOf
    Measure = {"q1", "q2"}
    MeasuresOf <- MCMeasuresOf
    Unset = Unset
    MaxSources = 2
    MaxItems = 2
    \* ChartWidget
    Source = {"x", "y"}
    Sensor = {"a", "b"}
    Quantity = {"q"}
    Unplotted = Unplotted
    MaxApplies = 2
    \* WorkerConsole
    FleetWorker = {"w1", "w2"}
    Order = {"stop"}
    NoFleetWorker = NoFleetWorker
    MaxFleetWrites = 1
    \* ApiKeys
    ApiKey = {1, 2, 3}
    NoKey = NoKey
    MaxKeyWrites = 3
INVARIANTS
    ConsoleTypeOK
    AckedSaveIsShown
    ViewShowsOwnSave
    SavedRowsAreStored
    RuleWatchesItsMachine
    CallRunsOnce
    LiveSessionIsRenewed
    DeletedSiteNotReselected
    DeletionShownInBoth
    RowsMatchView
    AckIsShown
    SourceMatchesItsMachine
    RefetchedChartIsRight
    OrderIsListed
    KeyIsShownOnce
PROPERTIES
    ConfigCopyNeverGoesBack
    BoardCopyNeverGoesBack
    ConcludedIsShown
    NewPartIsShown
CHECK_DEADLOCK FALSE
