SPECIFICATION Spec
CONSTANTS
    primary = primary  archive = archive  f1 = f1  f2 = f2  i1 = i1  i2 = i2
    Mailboxes = {primary, archive}
    Targets = {primary, archive}
    Folders = {f1, f2}
    Items = {i1, i2}
    Box <- TwoBoxes
    Home <- OneEach
    None = None
    BatchSize = 1
    FlushSize = 2
    MaxPasses = 1
    MaxFaults = 1

PROPERTY StoppedPassResumes
CHECK_DEADLOCK FALSE
