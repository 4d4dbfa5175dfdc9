CONSTANTS
    G = G  a1 = a1  a2 = a2  a3 = a3  b1 = b1  b2 = b2
    Blocks <- MCBlocks
    Genesis = G
    Nil = Nil
    Path <- MCPath
    Proof <- MCProof
    Addr <- MCAddr
    BadContext = {}
    BadConnect = {}
    MinWork = 0
    Keep = 1
    Operable = {a1}
    MaxIds = 5
    Announced = {b1, b2}
    Received = {a1, a2, b1, b2}
    MaxEvents = 2
    Prunable = {b1}
    MaxManual = 1
    MaxCrashes = 0
    Permits = {"invalidate-activating"}
SPECIFICATION Spec
INVARIANT ActiveChainValid
CHECK_DEADLOCK FALSE
