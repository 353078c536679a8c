---------------------------- MODULE MCServingCache ----------------------------
EXTENDS ServingCache

CONSTANTS r1, r2

\* Two families, a base and its delta each: 1 and 2 are big, 3 and 4 small.
TwoPairs == [t \in Tids |-> IF t \in {2, 4} THEN t - 1 ELSE 0]
\* Blobs of small tensors save little: alone, tensor 4 is worth more per byte
\* than tensor 1 with its dependent.
PairSizes == [t \in Tids |-> IF t \in {1, 2} THEN 4 ELSE 1]
PairBlobs == <<4, 3, 1, 2>>
\* They meet at the lock of tensor 4, at the lock of the big ones and at the
\* slot of the small.
SharedWants == [r \in Requests |-> IF r = r1 THEN {2, 4} ELSE {1, 3, 4}]
\* r2 may also be a warm job, which meets r1 at no lock but in the cache.
PairModels == [r \in Requests |-> IF r = r1 THEN {} ELSE {{2}}]
=============================================================================
