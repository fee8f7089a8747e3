SPECIFICATION SerialSpec
CONSTANTS
    Detached = Detached
    Main = main
    Branch = {main, dev}
    Proc = {p}
    Name = {f, g}
    Data = {x, y}
    Stamp = {t}
    Starts = {"clone"}
    DiskFaults = FALSE
    Crashes = TRUE
    MaxCommits = 4
    CrashContents = 1
INVARIANT ChunksStored
PROPERTIES CommitsAdvance ImplementsSnapshots
SYMMETRY Symmetries
