------------------------------- MODULE Registry -------------------------------
(***************************************************************************)
(* What the SSE hub promises about registrations, without channels, replay *)
(* buffers or locks: every client ID has one slot, a new stream (one HTTP  *)
(* request with the Go channel it made) takes the slot over from whichever *)
(* stream held it, and only the holder itself can empty the slot, when its *)
(* handler returns.  SSEHub implements this specification and              *)
(* WhiteboardPeers uses its actions as the hub.                            *)
(***************************************************************************)
CONSTANTS
    Clients,    \* client IDs, one per browser tab
    Streams,    \* SSE requests, each with a channel of its own
    None        \* no stream

ASSUME RegistryAssumption == None \notin Streams

VARIABLES
    clients,    \* the stream that holds each client's slot (SSEHub.clients)
    phase       \* where each stream's handler is

Phases == {"new", "open", "closing", "closed"}

\* The slot of a client that has no registration is None.
RegistryTypeOK ==
    /\ clients \in [Clients -> Streams \union {None}]
    /\ phase \in [Streams -> Phases]

RegistryInit ==
    /\ clients = [c \in Clients |-> None]
    /\ phase = [s \in Streams |-> "new"]

\* Stream s of client c takes the slot, whoever held it.
Take(s, c) ==
    /\ phase[s] = "new"
    /\ clients' = [clients EXCEPT ![c] = s]
    /\ phase' = [phase EXCEPT ![s] = "open"]

\* The browser goes away: s's request context is cancelled.
Drop(s) ==
    /\ phase[s] = "open"
    /\ phase' = [phase EXCEPT ![s] = "closing"]
    /\ UNCHANGED clients

\* s's handler returns and empties the slot s holds, if it still holds one.
Leave(s) ==
    /\ phase[s] = "closing"
    /\ clients' = [c \in Clients |-> IF clients[c] = s THEN None ELSE clients[c]]
    /\ phase' = [phase EXCEPT ![s] = "closed"]

RegistryNext ==
    \E s \in Streams :
        \/ \E c \in Clients : Take(s, c)
        \/ Drop(s)
        \/ Leave(s)

RegistrySpec == RegistryInit /\ [][RegistryNext]_<<clients, phase>>
===============================================================================
