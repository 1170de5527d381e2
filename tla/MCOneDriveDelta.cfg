SPECIFICATION Spec
CONSTANTS
    outer = outer  inner = inner  deep = deep  top = top
    Files = {deep, top}
    Folders = {outer, inner}
    Root = Root
    Parent <- Tree
    Depth <- Depths
    MaxVersion = 2
    Start <- OuterAndTop
    Writes <- Few
    Large = {}
    Void = {}
    FlushSize = 2
    MaxPasses = 2
    MaxFaults = 0
PROPERTY DeltaMovesChanges
CHECK_DEADLOCK FALSE
