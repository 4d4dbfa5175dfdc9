CONSTANTS
    B0 = B0  B1 = B1  B2 = B2  B3 = B3  R2 = R2
    o1 = o1  o2 = o2  o3 = o3  o4 = o4  v1 = v1  v2 = v2  v3 = v3  v4 = v4
    n1 = n1  n2 = n2  k1 = k1  k2 = k2  k3 = k3
    Blocks <- MCBlocks
    Parent <- MCParent
    nHeight <- MCnHeight
    Outpoints = {o1, o2, o3, o4}
    CoinValues = {v1, v2, v3, v4}
    Unspendable = {v4}
    Spent = Spent
    NoEntry = NoEntry
    Null = Null
    Txs <- MCTxs
    Nullifiers = {n1, n2}
    Anchors <- MCAnchors
    EmptyRoot <- MCEmptyRoot
    MaxCrashes = 2
SPECIFICATION Spec
INVARIANTS ShieldedMatchesChain
