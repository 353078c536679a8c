SPECIFICATION Spec
CONSTANTS
    Tensors = {t1, t2}
    NoTensor = NoTensor
    Models = {m1, m2}
    NoModel = NoModel
    Params = {p1}
    w1 = w1
    w2 = w2
    Writers = {w1}
    Runs <- OneWriter
    MaxHops = 1
    LateFailures = TRUE
SYMMETRY Symmetry
PROPERTIES
    RetractedEdgeLeavesRaw
