\* Three users, three functions of two seasons, four sales, three of them made; pages of two rows.
SPECIFICATION Spec
CONSTANTS
    Seasons = {"this", "past"}
    ActiveSeason = "this"
    Users = {"ana", "beto", "eli"}
    Functions = {"f1", "f2", "f3"}
    SeasonOf <- MCSeasonOf
    Sales = {1, 2, 3, 4}
    FunctionOf <- MCFunctionOf
    SellerOf <- MCSellerOf
    Comps = {4}
    Addressed = {1, 3}
    Tickets = {"t1", "t2", "t3", "t4", "t5"}
    SaleOf <- MCSaleOf
    FirstTeam <- MCTeam
    FirstQuota <- MCQuota
    FirstStart <- MCStart
    FirstCapacity <- MCCapacity
    FirstPrice <- MCPrice
    Edits <- MCEdits
    FirstHour = 1
    FirstSales = {1, 2, 3}
    FirstCharges <- MCCharges
    Grace = 1
    MaxTime = 3
    MaxCents = 1
    MaxWrites = 3
    PageSize = 2
    MaxPages = 2
    NoFilter = NoFilter
    Asked <- MCAsked
    HomeToDoMax = 1
    Low = 60
    Gap = 15
INVARIANTS OneBalance MoneyAddsUp SeatsAddUp PendingAgrees ListIsWhole OneCurrentFunction
PROPERTIES DebtOutlivesMembership ExportKeepsUp
CHECK_DEADLOCK FALSE
