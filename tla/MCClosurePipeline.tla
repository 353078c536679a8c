-------------------------- MODULE MCClosurePipeline --------------------------
EXTENDS ClosurePipeline

\* One blob alone exceeds the budget of 2, two others together do.
StoredBytes == [t \in Tids |-> IF t = 2 THEN 3 ELSE 1]
LogicalBytes == [t \in Tids |-> 1]
=============================================================================
