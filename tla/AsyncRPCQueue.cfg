\* Two operations, one of them watched, and two workers.
CONSTANTS
    op1 = op1  op2 = op2  w1 = w1  w2 = w2
    Ops = {op1, op2}
    Watched = {op1}
    Workers = {w1, w2}
    None = None
SPECIFICATION Spec
INVARIANTS Inv NoneForgotten StatusAgreesWhileOpen
PROPERTIES Served ShutsDown
