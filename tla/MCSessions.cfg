SPECIFICATION Spec
CONSTANTS
    Tabs = {t1, t2}
    Sids = {s1, s2}
    Flows = {f1, f2}
    Callbacks = {c1, c2}
    None = None
INVARIANTS TypeOK CookieIsAudited RefusedOnlyWhenMoved ConsumedStateMintsNothing
PROPERTY LoggedOutIsOut
SYMMETRY Symmetry
CHECK_DEADLOCK FALSE
