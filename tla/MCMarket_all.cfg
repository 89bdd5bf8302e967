SPECIFICATION Spec
CONSTANTS
    s1 = s1  s2 = s2  u1 = u1  u2 = u2  p1 = p1  p2 = p2
    Stores = {s1, s2}
    Users = {u1, u2}
    StoreOf <- MCStoreOf
    Years = {1}
    Points = {p1, p2}
    Batches <- MCBatches
    YearOf <- MCYearOf
    NoFile = NoFile
    MaxEvents = 1
    Configs <- MCConfigs
    Sessions = {0, 2}
    FirstDay = 0
    LastDay = 3
    TicksPerDay = 2
    MaxRequests = 2
    NoLimit = NoLimit
    CalendarYears = {2022, 2023, 2024, 2025}
    Today <- MCToday
    None = None
    Entries <- MCEntries
    Notes <- MCNotes
    SpendingConfigs <- MCSpendingConfigs
    SpendingAccounts = {"a", "b", "c"}
    AccountTags <- MCAccountTags
    Requests <- MCRequests
    MaxTransactions = 2
    TradingDays <- MCTradingDays
    Holders = {"a", "b"}
    ConnectionOf <- MCConnectionOf
    Holdings <- MCHoldings
    SnapshotTimes <- MCSnapshotTimes
    Quotes <- MCQuotes
    FxRates <- MCFxRates
    PortfolioConfigs <- MCPortfolioConfigs
    MaxStored = 3
    Targets = {0, 20, 40, 100}
    Fills <- MCFills
    TrayEntries <- MCTrayEntries
CHECK_DEADLOCK FALSE
INVARIANT TypeOK
INVARIANT NothingStoredLost
INVARIANT WellChosen
INVARIANT SpendingAddsUp
INVARIANT ReportsAgree
INVARIANT NoMissedChange
INVARIANT FilledWherePriced
