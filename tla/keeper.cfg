SPECIFICATION FairSpec
CONSTANTS
    Cost <- MCCost
    Orders = {"a", "b"}
    Market = {"b"}
    PostOnly = {"a"}
    Managed = {"b"}
    Deposit = 2
    MinBalance = 0
    ThinHeadroom = 1
    DailyCap = 2
    TransportRetries = 1
    MaxCancels = 1
    Faults = {"wire", "reject", "timeout", "chain", "day"}
    MaxFaults = 1
INVARIANTS
    TypeOK
    NoPhantomVolume
    TakerBoughtOnce
PROPERTY KeeperConverges
