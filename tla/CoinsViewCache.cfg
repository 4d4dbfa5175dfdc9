CONSTANTS
    o1 = o1  o2 = o2  c1 = c1  c2 = c2  c3 = c3  n1 = n1  n2 = n2
    r0 = r0  r1 = r1  r2 = r2  b0 = b0  b1 = b1  b2 = b2
    Outpoints = {o1}
    CoinValues = {c1, c2, c3}
    Unspendable = {c3}
    Nullifiers = {n1}
    Anchors = {r0, r1, r2}
    EmptyRoot = r0
    Blocks = {b0, b1}
    Spent = Spent
    NoEntry = NoEntry
    Null = Null
SPECIFICATION Spec
SYMMETRY Symmetry
INVARIANTS IInv NeverThrows AnchorsAreChainRoots
PROPERTIES RefinesCoinsView
