---------------------------- MODULE MCWhiteboardSync ----------------------------
\* Model-checking instance of WhiteboardSync: requests are interchangeable.
EXTENDS WhiteboardSync, TLC

Symmetry == Permutations(Requests)
===============================================================================
