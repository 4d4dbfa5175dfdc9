\* Two workers, two masters, blocks of up to four checks, batches of up to two.
CONSTANTS
    w1 = w1
    w2 = w2
    m1 = m1
    m2 = m2
    None = None
    Workers = {w1, w2}
    Masters = {m1, m2}
    nBatchSize = 2
    MaxChecks = 4
SPECIFICATION Spec
INVARIANTS Accounted VerdictRight CleanBetween
PROPERTIES WaitReturns
