SPECIFICATION Spec
CONSTANTS
    a1 = a1
    a2 = a2
    x1 = x1
    x2 = x2
    Roles = {source}
    Apps = {a1, a2}
    Secrets = {x1, x2}
    Ids = {i1, i2}
    Tabs = {t1, t2}
    None = None
    AppOf <- MCAppOf
INVARIANTS TypeOK ConnectedWasTested AuditNamesTheRow
SYMMETRY Symmetry
