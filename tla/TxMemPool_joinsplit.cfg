\* The same transactions, for the claim about joinsplits.
CONSTANTS
    Tx <- MCTx
    Coinbases = {"k1", "k2"}
    Replaceable = {"a", "b"}
    Shielded = {"s"}
    Vin <- MCVin
    TxSize <- MCSize
    TxFee <- MCFee
    LockHeight <- MCLock
    Base <- MCBase
    Blocks <- MCBlocks
    Files <- NoFile
    Maturity = 2
    Unit = 1
    minRelayTxFee = 1
    incrementalRelayFee = 1
    LimitAncestors = 2
    LimitAncestorSize = 4
    LimitDescendants = 2
    LimitDescendantSize = 4
    MaxToVisit = 100
    SizeLimit = 3
    MaxDisconnected = 3
    FeeDeltas <- MCDeltas
    MaxHeight = 2
    MaxDelta = 2
SPECIFICATION Spec
INVARIANT JoinSplitsAdmitted
