------------------------------- MODULE MCSync -------------------------------
\* Model checking NodeSync: names for its nodes.
EXTENDS NodeSync

CONSTANTS n1, n2
=============================================================================
