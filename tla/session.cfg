SPECIFICATION Spec
CONSTANTS
    a = a
    Tabs = {a, b}
    JsonCalls = {j1}
    SseCalls = {s1}
    TabOf <- MCTabOf
    MaxLogins = 1
    MaxLapsed = 1
    MaxBreaks = 1
CHECK_DEADLOCK FALSE
INVARIANTS TypeOK SingleFlight CookieIsCurrent NoRaceIsReplay LogoutEndsFamily
