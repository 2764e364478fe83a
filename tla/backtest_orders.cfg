SPECIFICATION Spec
CONSTANTS
    Tokens <- MCTokens
    Requests <- MCRequests
    Snapshots <- MCSnapshots
    Gaps <- MCGaps
    Latencies <- MCLatencies
    MaxPrice = 3
    MinNotional = 2
    TradePercent = 65
    FillModel = TRUE
    MaxOrders = 2
    MaxTime = 4
INVARIANTS
    TypeOK
    ActiveCountExact
    WorkingListExact
    OutcomeMatchesFills
    TakersShareLiquidity
    LimitRespected
PROPERTIES
    FillsInsideLifetime
    EndedStaysEnded
CHECK_DEADLOCK FALSE
