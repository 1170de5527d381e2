SPECIFICATION Spec
CONSTANTS
    Counters <- MCCounters
    Limit <- MCLimit
    PerRequest <- MCPerRequest
    Writes <- MCWrites
    Fractions = {50, 99}
    Tunables = {tunable}
    Bad = Bad
    Absent = Absent
    Requests = {r1, r2}
    Tasks = {k1, k2}
    LastDay = 2
    MaxRequests = 3
SYMMETRY Symmetry
CHECK_DEADLOCK FALSE
INVARIANT ConfigChangesAudited
