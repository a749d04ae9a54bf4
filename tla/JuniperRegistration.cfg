SPECIFICATION Spec
CONSTANTS
    NULL = NULL
    Id = {i1, i2}
    Cisco = {}
    Juniper = {j1}
    Aruba = {}
    Box = {j1}
    Profile = {p1}
    Addr = {}
    Handler = {h1}
    Tab = {}
    Operator = {}
    Dhcp = {j1}
    Reserved = {}
SYMMETRY Symmetry
INVARIANTS
    RegistrationSucceeds
