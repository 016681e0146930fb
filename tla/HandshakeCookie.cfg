SPECIFICATION Spec
CONSTANTS
    Configs <- MCCookie
    MaxEarly = 0
    MaxData = 0
    MaxSkip = 0
CHECK_DEADLOCK FALSE
INVARIANTS
    CookieHonoured
