--------------------------- MODULE MCWhiteboardPeers ---------------------------
\* Model-checking instance of WhiteboardPeers: all clients on one board.
EXTENDS WhiteboardPeers, TLC

OneBoard == [c \in Clients |-> CHOOSE d \in Docs : TRUE]

Symmetry == Permutations(Streams) \union Permutations(Clients)
===============================================================================
