---------------------------- MODULE MCRemotePull ----------------------------
EXTENDS RemotePull, TLC

CONSTANTS t1, m1, m2, p1, w1

\* The remote hub offers model m2, whose only tensor is t1.
OneOffer == m2 :> (p1 :> t1)
GcAndCompress == w1 :> {"gc", "compress"}
Symmetry == Permutations(Tensors \ {t1})
=============================================================================
