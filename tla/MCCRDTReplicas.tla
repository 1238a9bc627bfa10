---------------------------- MODULE MCCRDTReplicas ----------------------------
\* The document of a server that restarts draws the smallest peer ID.
EXTENDS CRDTReplicas, TLC
CONSTANTS a, b
MCServers == {a, b}
MCFirstPeers == (a :> 1) @@ (b :> 2)
===============================================================================
