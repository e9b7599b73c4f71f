---------------------------- MODULE MCPublication ----------------------------
\* An import and a batch race for one destination, with two staging names
\* to draw, so that names collide and a crashed process may hold one.
EXTENDS Publication

CONSTANTS i1, b1, d, n1, n2, fits, small
=============================================================================
