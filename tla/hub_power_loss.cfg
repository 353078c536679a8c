SPECIFICATION PowerSpec
CONSTANTS
    Tensors = {t1, t2}
    NoTensor = NoTensor
    Models = {m1}
    NoModel = NoModel
    Params = {p1, p2}
    w1 = w1
    Writers = {w1}
    Runs <- OneWriter
    MaxHops = 1
    LateFailures = FALSE
SYMMETRY Symmetry
INVARIANT
    EdgeDurableBeforeDelta
