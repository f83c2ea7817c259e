SPECIFICATION Spec
CONSTANTS
    Admins = {a1, a2, a3}
    Requested = {0, 1, 2, 3}
INVARIANTS
    TypeOK
PROPERTIES
    WindowsOrdered
