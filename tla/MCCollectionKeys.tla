-------------------------- MODULE MCCollectionKeys --------------------------
\* Two threads, two key objects that may stand for one collection or for two,
\* and just enough identifiers for draws to collide.
EXTENDS CollectionKeys

CONSTANTS t1, t2, k1, k2
=============================================================================
