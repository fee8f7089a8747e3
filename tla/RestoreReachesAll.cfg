SPECIFICATION SnapshotSpec
CONSTANTS
    feature = feature
    featuretmp = featuretmp
    trunk = trunk
    trunktmp = trunktmp
    topic = topic
    NameOrder <- RefNames
    TempOf <- Temps
    Flat = {trunk, topic}
    Folder = feature
    Tip = {a, b}
    Absent = Absent
    Torn = Torn
    Invalid = Invalid
    Subdir = Subdir
    Writer = {p}
    Maker = {q}
    Second = 2
    Hour = 2
    MaxAge = 0
    MaxTime = 3
    MaxSnapshots = 1
PROPERTY RestoreReachesAll
