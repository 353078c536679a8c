SPECIFICATION PullSpec
CONSTANTS
    t1 = t1
    m1 = m1
    m2 = m2
    p1 = p1
    w1 = w1
    Tensors = {t1, t2, t3}
    NoTensor = NoTensor
    Models = {m1, m2}
    NoModel = NoModel
    Params = {p1}
    Writers = {w1}
    Runs <- GcAndCompress
    MaxHops = 1
    LateFailures = FALSE
    Offers <- OneOffer
    MaxEdges = 1
SYMMETRY Symmetry
INVARIANTS
    PullIsWhole
    EdgesTellDamage
