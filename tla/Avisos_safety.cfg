\* One request over three writes of the books.
SPECIFICATION MailSpec
CONSTANTS
    Seasons = {"this"}
    ActiveSeason = "this"
    Users = {"ana", "eli"}
    Functions = {"f1"}
    SeasonOf <- MCSeasonOf
    Sales = {1, 2, 3}
    FunctionOf <- MCFunctionOf
    SellerOf <- MCSellerOf
    Comps = {}
    Addressed = {1, 3}
    Tickets = {"t1", "t2", "t3", "t4"}
    SaleOf <- MCSaleOf
    FirstTeam <- MCTeam
    FirstQuota <- MCQuota
    FirstStart <- MCStart
    FirstCapacity <- MCCapacity
    FirstPrice <- MCPrice
    Edits <- MCEdits
    FirstHour = 0
    FirstSales = {1, 2}
    FirstCharges <- MCCharges
    Grace = 0
    MaxTime = 1
    MaxCents = 1
    MaxWrites = 3
    MaxRows = 1
    Requests = {"p"}
INVARIANTS MailMatchesTickets ToldAsSent ReminderIsTrue
CHECK_DEADLOCK FALSE
