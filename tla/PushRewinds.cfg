SPECIFICATION Spec
CONSTANTS
    Client = {a, b}
    Name = {f}
    Data = {x, y}
    Stamp = {t}
    Lossy = FALSE
    MaxCommits = 3
PROPERTY RemoteAdvances
