------------------------------ MODULE Protocol ------------------------------
(***************************************************************************)
(* internal/protocol: the identities and the envelopes the server sends.   *)
(* An envelope is abstracted to its type and the identity it carries: a    *)
(* requestId for request and cancel, the connection for the others.  Each  *)
(* is sent at most once in the model; a response travels the other way and *)
(* is an input of the handler that reads it.                               *)
(***************************************************************************)
EXTENDS Naturals, FiniteSets

CONSTANTS
    Browsers,      \* browserId values
    Connections,   \* connectionId values, one per accepted WebSocket
    Requests,      \* requestId values (UUIDv7, never reused)
    Commands,      \* command names, which are also the capability names
    None           \* the nil connection

ASSUME NoneAssumption == None \notin Connections

\* Envelopes router.go creates for a request, and the ones the transport
\* sends on a connection of its own.
RequestMsg(r) == <<"request", r>>
CancelMsg(r)  == <<"cancel", r>>
ControlMsg(kind, c) == <<kind, c>>

ControlKinds == {"auth_error", "welcome", "pong", "revoke", "event"}

Messages == ({"request", "cancel"} \X Requests)
            \cup (ControlKinds \X Connections)
=============================================================================
