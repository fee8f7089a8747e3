SPECIFICATION StorageSpec
CONSTANTS
    short = short
    long = long
    Writer = {w}
    Reader = {r, s}
    Data = {short, long}
    Size <- Sizes
    Buffer = 0
    Inode = {i1, i2, i3, i4}
    NoInode = NoInode
    Nothing = Nothing
    Temp = "tmp"
    DiskFull = TRUE
    Id = {"a", "b", "c"}
    Sha256 = {"a", "b"}
    Lists <- PackLists
    Pack = {1, 2}
    Instance = {"one", "two"}
    Key = {1, 2, 3, 4}
    Val = {"v", "w"}
    Capacity = 3
    Process = {"wal"}
    Op = {"x", "y"}
    MaxTxn = 3
    MaxLog = 2
    Proc = {p, q}
    User = {"", "ann"}
    Unset = ""
    Remote = {"origin", "origin.url", "a=b"}
    Url = {"u", "v"}
    ReadAs <- NamesRead
    Later <- OrderRead
    Algorithm = {"sha1", "sha256"}
    Garbled <- GarbledFiles
    None = None
    NoConfig = NoConfig
INVARIANTS StorageTypeOK NothingLost LogExact KeepsMostRecent OpensWhole
PROPERTIES ImplementsRegister OneAtATime
SYMMETRY Interchangeable
CHECK_DEADLOCK FALSE
