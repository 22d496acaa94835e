---------------------------- MODULE MCTransport -----------------------------
(* Instances of Transport for TLC. *)
EXTENDS Transport, TLC

\* Every request and every connection belongs to the one browser.
OneBrowserTarget == [r \in Requests |-> CHOOSE b \in Browsers : TRUE]
OneBrowserOf == [c \in Connections |-> CHOOSE b \in Browsers : TRUE]

OneCommand == [r \in Requests |-> CHOOSE k \in Commands : TRUE]

AllCaps == {Commands}

\* The first connection or request; for the constraints below.
First(S) == CHOOSE x \in S : TRUE

\* The handlers that only an input of the browser can start.
Prompted == {"denying", "ponging", "revoked", "revokeFailed", "limited"}

\* Either one connection is used, with every input and both requests, or both connections,
\* with one request and nothing else: the union of two instances.
ConnectionsOrInputs ==
    \/ \A c \in Connections \ {First(Connections)} : handler[c] = "idle"
    \/ /\ \A r \in Requests \ {First(Requests)} : pc[r] = "idle"
       /\ \A c \in Connections : /\ handler[c] \notin Prompted
                                 /\ \A k \in {"pong", "revoke", "auth_error"} :
                                       result[ControlMsg(k, c)] = "none"

\* Either one connection is used, with the request and the shutdown, or one replaces the other.
ConnectionsOrShutdown ==
    \/ \A c \in Connections \ {First(Connections)} : handler[c] = "idle"
    \/ /\ app = "running"
       /\ \A r \in Requests : pc[r] = "idle"
       /\ \A c \in Connections : handler[c] \notin Prompted
=============================================================================
