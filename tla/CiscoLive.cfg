SPECIFICATION FairSpec
CONSTANTS
    NULL = NULL
    Id = {i1}
    Cisco = {c1}
    Juniper = {}
    Aruba = {}
    Box = {c1}
    Profile = {p1}
    Addr = {}
    Handler = {h1, h2}
    Tab = {t1}
    Operator = {"edit"}
    Dhcp = {}
    Reserved = {}
PROPERTY Convergence
