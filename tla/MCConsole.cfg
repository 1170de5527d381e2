SPECIFICATION Spec
CONSTANTS
    u1 = u1
    e1 = e1
    e2 = e2
    e3 = e3
    all = all
    some = some
    Users = {u1}
    Entries = {e1, e2, e3}
    Queries = {all, some}
    All = all
    Listing <- MCListing
    Rank <- MCRank
    PageSize = 1
    Slots = {s1, s2}
    Pollers = {l1, l2}
    MaxLeft = 1
    MaxRev = 2
    None = None
INVARIANTS TypeOK ListAnswersQuery ShowsOwnChanges PollsAreOne SpinnerMeansWork RefusedOnlyWhenMoved
SYMMETRY Symmetry
