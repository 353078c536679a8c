SPECIFICATION Spec
CONSTANTS
    Tensors = {t1, t2, t3}
    NoTensor = NoTensor
    Models = {m1, m2}
    NoModel = NoModel
    Params = {p1}
    w1 = w1
    w2 = w2
    Writers = {w1, w2}
    Runs <- IngestBesideCompress
    MaxHops = 0
    LateFailures = FALSE
SYMMETRY Symmetry
INVARIANTS
    HeadersHaveEdges
    ChecksStillHold
PROPERTIES
    OnlyUnneededBlobsVanish
    KeepsPromise
