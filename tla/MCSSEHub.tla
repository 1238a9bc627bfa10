------------------------------- MODULE MCSSEHub -------------------------------
\* Model-checking instance of SSEHub: streams and producers are interchangeable.
EXTENDS SSEHub, TLC

Symmetry == Permutations(Streams) \union Permutations(Producers)
                \union Permutations(Clients)
===============================================================================
