SPECIFICATION SsoSpec
CONSTANTS
    NULL = NULL
    Tab = {t1}
    Cred = {c1, c2}
    Nonce = {n1}
    MaxCalls = 1
    InFront = {t1}
PROPERTIES
    SsoReachesDashboard
CHECK_DEADLOCK FALSE
