SPECIFICATION MCSpec
CONSTANTS
    main = main
    plugin = plugin
    other = other
    Apps = {main, plugin, other}
    Events <- AllEvents
    Configs <- AllConfigs
    Names = {"Item", "Part", "ErrorInfo"}
    Versions = {1, 2}
    DefaultAuth = {"bearer", "unsecured"}
    NoDoc = NoDoc
    FromFile = FromFile
    Orders <- AllOrders
    Releases <- OldReleases
    MaxWrites = 2
    Launchers = {"web", "job"}
    CreateKeys = FALSE
    MaxFaults = 1
    NoApp = NoApp
    NoEvent = NoEvent
    EnabledGroups <- AllGroups
    A = A
    B = B
    Types = {A, B}
    None = None
    DataObject = DataObject
    Shuffle = Shuffle
    Programs <- AllPrograms
    ReadQueues <- AllQueues
    Writers <- AllWriters
INVARIANTS ReadyIsComplete JobStopsAll FreshFileServes ServedIsCurrent
    SplitIsTransparent NothingIsLeftBehind
PROPERTIES SetupBeforeWork
CHECK_DEADLOCK FALSE
