SPECIFICATION Spec
CONSTANTS
    Jobs = {j1}
    Requests = {r1}
    NoMsg = NoMsg
    BatchSize = 2
    MaxSeq = 2
    MaxFaults = 2
INVARIANTS TypeOK NoJobStranded
PROPERTIES ReopenedOnlyByRequestOrRun PromiseSpec
CHECK_DEADLOCK FALSE
