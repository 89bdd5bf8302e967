SPECIFICATION Spec
CONSTANTS
    a1 = a1  a2 = a2  a3 = a3  a4 = a4
    Activities = {a1, a2, a3, a4}
    FirstListed <- MCFirstListed
    IdentifiersOf <- MCIdentifiersOf
    TimeOf <- MCTimeOf
    OldLog <- MCOldLog
    PageSize = 1
    MaxTransactions = 3
    MaxPages = 3
    Threshold = 2
    MaxTrouble = 1
    b1 = b1  b2 = b2  bank = bank  r1 = r1  r2 = r2  k1 = k1  k2 = k2  k3 = k3  k4 = k4
    Brokerage = {b1, b2}
    Bank = {bank}
    Rows = {r1, r2, k1, k2, k3, k4}
    AccountOf <- MCAccountOf
    TextOf <- MCTextOf
    FirstRows <- MCFirstRows
    Answers <- MCAnswers
    Positions <- MCPositions
    CashOf <- MCCashOf
    BalanceOf <- MCBalanceOf
    BankPage = 2
    SchwabPages = 2
    MaxUpsets = 1
    MaxSyncs = 2
    Currencies = {"BTC", "ETH"}
    Portfolios <- MCPortfolios
    FirstWallets <- MCFirstWallets
    MaxChanges = 2
    MaxCoinSyncs = 2
    Processes = {"daemon", "user"}
    Prompting = {"user"}
    Connections = {"chase", "schwab"}
    ChaseOnes = {"chase"}
    MaxSessions = 3
    MaxMishaps = 1
CHECK_DEADLOCK FALSE
INVARIANT TypeOK
 
INVARIANT RowsAndMoneyOnce
INVARIANT FollowsWallets
PROPERTY LogSettles
 
