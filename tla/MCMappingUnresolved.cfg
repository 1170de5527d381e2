SPECIFICATION Spec
CONSTANTS
    Users = {u1}
    Upns = {a, b}
    Passwords = {p1, p2}
    Requests = {r1, r2}
    Bodies <- MCBodies
    Foreign = Foreign
    None = None
PROPERTY MappedIsResolved
SYMMETRY Symmetry
CHECK_DEADLOCK FALSE
