SPECIFICATION Spec
CONSTANTS
    Jobs = {j1}
    Requests = {}
    NoMsg = NoMsg
    BatchSize = 1
    MaxSeq = 2
    MaxFaults = 0
PROPERTY OnlyStaleIsDiscarded
CHECK_DEADLOCK FALSE
