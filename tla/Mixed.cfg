SPECIFICATION Spec
CONSTANTS
    NULL = NULL
    Id = {i1, i2}
    Cisco = {c1}
    Juniper = {}
    Aruba = {a1}
    Box = {c1, a1}
    Profile = {p1}
    Addr = {}
    Handler = {h1, h2}
    Tab = {}
    Operator = {"register"}
    Dhcp = {a1}
    Reserved = {a1}
SYMMETRY Symmetry
INVARIANTS
    RegistrationSucceeds
    RunsOnlyAssigned
