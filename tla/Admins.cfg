SPECIFICATION Spec
CONSTANTS
    Accounts = {a1, a2}
    Emails = {e1, e2, e3}
    Passwords = {p1, p2}
    Clients = {c1, c2}
SYMMETRY Symmetry
INVARIANTS
    WritesWhatItChecked
PROPERTIES
    LastSuperAdmin
