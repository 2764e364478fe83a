SPECIFICATION RunSpec
CONSTANTS
    Tokens <- MCTokens
    Requests <- MCRequests
    Snapshots <- MCSnapshots
    Gaps <- MCGaps
    Latencies <- MCLatencies
    IntentLists <- MCIntentLists
    ExitPrices <- MCExitPrices
    Resolution <- MCResolution
    MaxPrice = 3
    MinNotional = 1
    TradePercent = 100
    FillModel = FALSE
    MaxOrders = 4
    MaxTime = 4
    InitialCash = 20
    GrossCap = 18
    MarketCap = 15
    PositionCap = 2
    Gas = 1
    TakerFee = 1
    WinnerPercent = 50
INVARIANTS
    RunTypeOK
    BooksBalance
    PositionsAreNetFills
    AdmittedOnTime
    ResolvedIsSettled
CHECK_DEADLOCK FALSE
