SPECIFICATION Spec
CONSTANTS
    Detached = Detached
    Main = main
    Branch = {main, dev}
    Proc = {p, q}
    Name = {f, g}
    Data = {x, y}
    Stamp = {t}
    Starts = {"init"}
    DiskFaults = FALSE
    Crashes = FALSE
    MaxCommits = 3
INVARIANT CommitExtendsParent
