SPECIFICATION FairSpec
CONSTANTS
    NULL = NULL
    Id = {i1, i2}
    Cisco = {}
    Juniper = {j1}
    Aruba = {}
    Box = {j1}
    Profile = {p1}
    Addr = {}
    Handler = {h1, h2}
    Tab = {}
    Operator = {"register"}
    Dhcp = {j1}
    Reserved = {}
PROPERTIES
    EventuallyConfigured
