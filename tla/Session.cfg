SPECIFICATION BrowserFairSpec
CONSTANTS
    NULL = NULL
    Tab = {t1, t2}
    Cred = {c1, c2}
    Nonce = {n1}
    MaxCalls = 2
    InFront = {t1}
    Bridge = {b1, b2}
    MaxInput = 2
    MaxOutput = 2
INVARIANTS
    SessionTypeOK
    StateUsedOnce
    TerminalTypeOK
    ClosedIsTheEnd
PROPERTIES
    SignedOutTabsLeave
    SignInHolds
    LeftTerminalsClose
