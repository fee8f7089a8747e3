SPECIFICATION AlgorithmsSpec
CONSTANTS
    N = 5
    CommitId <- Numbers
    Histories <- AllHistories
    NoCommit = 0
    f = f
    d = d
    x = x
    NullId = NullId
    y = y
    Trees <- FluxTrees
    Directories <- Subtrees
    MaxDepth = 1
    Depth <- TreeDepth
    Formats = {"flux", "git"}
    px = px
    py = py
    pd = pd
    PackSize = 3
    Content <- Contents
    Packs <- AllPacks
    Stores <- SomeStores
    WriteFails = TRUE
    c1 = c1
    c2 = c2
    c3 = c3
    t = t
    b = b
    r1 = r1
    r2 = r2
    Id = {c1, c2, c3, t, b}
    Ref = {r1, r2}
    NoRef = NoRef
    Objects <- AllObjects
    Places <- SomePlaces
    RefContents <- TwoRefs
INVARIANTS BaseIsCommon QueuedOnce ReturnsMergeBase MergeKeepsChanges MergeIsSymmetric FailuresExplained
INVARIANTS ObjectsDescribed GivesUpWhenStuck ResolvesDescribed CyclesFound ReachableExact RepairSettles
PROPERTY AlgorithmsEnd
CHECK_DEADLOCK FALSE
