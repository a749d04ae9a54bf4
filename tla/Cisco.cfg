SPECIFICATION Spec
CONSTANTS
    NULL = NULL
    Id = {i1, i2}
    Cisco = {c1}
    Juniper = {}
    Aruba = {}
    Box = {c1}
    Profile = {p1}
    Addr = {}
    Handler = {h1, h2}
    Tab = {t1}
    Operator = {"remove", "edit", "profiles"}
    Dhcp = {}
    Reserved = {}
SYMMETRY Symmetry
INVARIANTS
    TypeOK
    ProvisionedHasTime
    ProvisionedIsConfigured
PROPERTIES
    NoResurrection
    ImplementsZeroTouch
