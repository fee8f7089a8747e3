SPECIFICATION RemoteSpec
CONSTANTS
    Client = {a, b}
    Name = {f}
    Data = {x, y}
    Stamp = {t}
    Lossy = TRUE
    MaxCommits = 4
    MaxPlain = 3
    Ref = {"HEAD", "main", "dev"}
    Part = {"c1", "c2", "c3"}
    HasNak = {"c3"}
    MaxSent = 7
    Shell = {p, q}
    Token = {"t1", "t2"}
    Expires <- ToldExpiry
    Days = 1
    Until = {0}
    MaxClock = 1
    NoToken = NoToken
INVARIANTS RemoteTypeOK HistoryWhole SuccessIsTrue AnswersAsSent SuccessIsReal ExpiryIsTokens
PROPERTIES ReplacesDiscovered ComesBackExplained
SYMMETRY Interchangeable
CHECK_DEADLOCK FALSE
