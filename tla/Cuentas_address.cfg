\* One browser, two addresses and two requests that write.
SPECIFICATION Spec
CONSTANTS
    Browsers = {b1}
    Emails = {"ana", "demo"}
    Names = {"coro", "demo"}
    DemoName = "demo"
    DemoEmail = "demo"
    Requests = {p1, p2}
    MaxOrgs = 2
    MaxTime = 2
    MaxMoves = 1
    Lifetime = 0
SYMMETRY Symmetry
INVARIANTS DemoCanBeEntered
CHECK_DEADLOCK FALSE
