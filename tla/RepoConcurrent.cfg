SPECIFICATION Spec
CONSTANTS
    Detached = Detached
    Main = main
    Branch = {main, dev}
    Proc = {p, q}
    Name = {f}
    Data = {x}
    Stamp = {t}
    Starts = {"init", "clone", "clone_detached"}
    DiskFaults = TRUE
    Crashes = TRUE
    MaxCommits = 2
INVARIANTS TypeOK HistoryInHandStored HeadsResolve
SYMMETRY Symmetries
