SPECIFICATION UpkeepSpec
CONSTANTS
    main = main
    dev = dev
    d = d
    g = g
    x = x
    Order <- Names
    Branch = {main, dev}
    Main = main
    Unborn = Unborn
    Contents <- FileContents
    Clones <- ClonedTrees
    Paths <- FilePaths
    MaxDepth = 3
    MaxCommits = 3
    MaxObjects = 6
    feature = feature
    featuretmp = featuretmp
    trunk = trunk
    trunktmp = trunktmp
    topic = topic
    NameOrder <- RefNames
    TempOf <- Temps
    Flat = {trunk, topic}
    Folder = feature
    Tip = {a, b}
    Absent = Absent
    Torn = Torn
    Invalid = Invalid
    Subdir = Subdir
    Writer = {p}
    Maker = {q}
    Second = 2
    Hour = 2
    MaxAge = 0
    MaxTime = 3
    MaxSnapshots = 1
INVARIANTS UpkeepTypeOK CheckoutComplete AbortExplained BranchesCaptured RestoreLands
PROPERTY StagesWhatItRead
