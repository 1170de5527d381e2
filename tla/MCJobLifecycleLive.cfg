SPECIFICATION FairSpec
CONSTANTS
    Jobs = {j1}
    Requests = {r1}
    NoMsg = NoMsg
    BatchSize = 1
    MaxSeq = 1
    MaxFaults = 2
PROPERTY OpenJobSettles
CHECK_DEADLOCK FALSE
