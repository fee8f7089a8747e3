SPECIFICATION Spec
CONSTANTS
    short = short
    long = long
    Writer = {w, v}
    Reader = {r, s}
    Data = {short, long}
    Size <- Sizes
    Buffer = 1
    Inode = {i1, i2, i3, i4}
    NoInode = NoInode
    Nothing = Nothing
    Temp = "tmp"
    DiskFull = FALSE
INVARIANT ReadsWhole
SYMMETRY Symmetries
