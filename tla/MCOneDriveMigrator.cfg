SPECIFICATION Spec
CONSTANTS
    outer = outer  inner = inner  deep = deep  top = top
    Files = {deep, top}
    Folders = {outer, inner}
    Root = Root
    Parent <- Tree
    Depth <- Depths
    MaxVersion = 2
    Start <- OuterAndTop
    Writes <- Few
    Large = {1}
    Void = {2}
    FlushSize = 2
    MaxPasses = 2
    MaxFaults = 1
INVARIANTS TypeOK HierarchyKept
PROPERTIES CompletedPass LedgerSpec ExcusesHaveCause
CHECK_DEADLOCK FALSE
