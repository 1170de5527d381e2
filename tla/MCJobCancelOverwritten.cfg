SPECIFICATION Spec
CONSTANTS
    Jobs = {j1}
    Requests = {}
    NoMsg = NoMsg
    BatchSize = 1
    MaxSeq = 1
    MaxFaults = 0
PROPERTY CancelIsNotOverwritten
CHECK_DEADLOCK FALSE
