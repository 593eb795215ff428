\* One browser, two addresses, one name and two requests that write.
SPECIFICATION Spec
CONSTANTS
    Browsers = {b1}
    Emails = {"ana", "demo"}
    Names = {"demo"}
    DemoName = "demo"
    DemoEmail = "demo"
    Requests = {p1, p2}
    MaxOrgs = 2
    MaxTime = 2
    MaxMoves = 1
    Lifetime = 0
SYMMETRY Symmetry
INVARIANTS OrganizationsWhole PasswordReachesSomeone DemoStaysOpen
PROPERTIES RealAccountsKept
CHECK_DEADLOCK FALSE
