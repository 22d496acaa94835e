------------------------------- MODULE Router -------------------------------
(***************************************************************************)
(* internal/router: one Router.Send call per request, and the callbacks    *)
(* that complete it from other goroutines.                                 *)
(*                                                                         *)
(* Router.Send is cut where another goroutine can run: the first test of   *)
(* `closed`, Route, the insertion into `pending` under the mutex, the      *)
(* three selects of connection.Send, the final select, removePending and   *)
(* sendCancel.  The expiry of the request's context is a choice at every   *)
(* select: withDefaultTimeout gives every context a deadline and the       *)
(* caller may cancel it before; both are the outcome "TIMEOUT" here (the   *)
(* code returns CANCELLED for the second).                                 *)
(*                                                                         *)
(* HandleResponse, FailConnection and Close delete under the mutex and     *)
(* push into the one-slot channel afterwards; they are one step, since     *)
(* only the sender's final select reads that channel.                      *)
(***************************************************************************)
EXTENDS Registry, Connection

CONSTANTS
    TargetOf,      \* the browserId argument of each request
    CommandOf      \* the command argument of each request

ASSUME TargetAssumption == /\ TargetOf \in [Requests -> Browsers]
                           /\ CommandOf \in [Requests -> Commands]

VARIABLES
    pending,       \* Router.pending: the requests with an entry in the map
    closed,        \* Router.closed
    pc,            \* control point of each Send call
    route,         \* pendingRequest.connectionID, the connection routed to
    mailbox,       \* pendingRequest.result: the delivered result, "" if empty
    outcome        \* the code Send returns

routerVars == <<pending, closed, pc, route, mailbox, outcome>>

SendStates == {"idle", "routing", "routed", "inserted", "offering", "queued",
               "waiting", "failed", "expired", "cancelling",
               "cancelOffering", "cancelQueued", "returned"}

ResponseCodes == {"OK", "COMMAND_ERROR"}
Codes == ResponseCodes \cup
         {"", "BROWSER_NOT_FOUND", "BROWSER_DISCONNECTED",
          "CAPABILITY_UNAVAILABLE", "INVALID_MESSAGE", "BACKPRESSURE",
          "TIMEOUT", "CANCELLED"}

RouterInit == /\ pending = {}
              /\ closed = FALSE
              /\ pc = [r \in Requests |-> "idle"]
              /\ route = [r \in Requests |-> None]
              /\ mailbox = [r \in Requests |-> ""]
              /\ outcome = [r \in Requests |-> ""]

Goto(r, state) == pc' = [pc EXCEPT ![r] = state]

Return(r, code) == /\ pc' = [pc EXCEPT ![r] = "returned"]
                   /\ outcome' = [outcome EXCEPT ![r] = code]

removePending(r) == pending' = pending \ {r}

-----------------------------------------------------------------------------
(* Router.Send up to the insertion into the pending map.                   *)

SendStart(r) ==
    /\ pc[r] = "idle"
    /\ \/ closed /\ Return(r, "CANCELLED")
       \/ ~closed /\ Goto(r, "routing") /\ UNCHANGED outcome
    /\ UNCHANGED <<pending, closed, route, mailbox>>
    /\ UNCHANGED <<registryVars, connectionVars>>

SendRoute(r) ==
    /\ pc[r] = "routing"
    /\ LET answer == Route(TargetOf[r], CommandOf[r])
       IN  IF answer = "ROUTED"
           THEN /\ Goto(r, "routed")
                /\ route' = [route EXCEPT ![r] = browsers[TargetOf[r]].connection]
                /\ UNCHANGED outcome
           ELSE /\ Return(r, answer)
                /\ UNCHANGED route
    /\ UNCHANGED <<pending, closed, mailbox>>
    /\ UNCHANGED <<registryVars, connectionVars>>

\* NewRequest refuses the target, the params or the timeout.
SendRefused(r) ==
    /\ pc[r] = "routed"
    /\ Return(r, "INVALID_MESSAGE")
    /\ UNCHANGED <<pending, closed, route, mailbox>>
    /\ UNCHANGED <<registryVars, connectionVars>>

SendInsert(r) ==
    /\ pc[r] = "routed"
    /\ \/ closed /\ Return(r, "CANCELLED") /\ UNCHANGED pending
       \/ /\ ~closed
          /\ pending' = pending \cup {r}
          /\ Goto(r, "inserted")
          /\ UNCHANGED outcome
    /\ UNCHANGED <<closed, route, mailbox>>
    /\ UNCHANGED <<registryVars, connectionVars>>

-----------------------------------------------------------------------------
(* connection.Send of the request.                                         *)

\* An error of connection.Send; the entry is removed in the next step.
SendError(r, code) == /\ pc' = [pc EXCEPT ![r] = "failed"]
                      /\ outcome' = [outcome EXCEPT ![r] = code]

SendOffer(r) ==
    /\ pc[r] = "inserted"
    /\ \/ Accepts(route[r]) /\ Goto(r, "offering") /\ UNCHANGED outcome
       \/ ~Accepts(route[r]) /\ SendError(r, "BROWSER_DISCONNECTED")
       \/ SendError(r, "TIMEOUT")
    /\ UNCHANGED <<pending, closed, route, mailbox>>
    /\ UNCHANGED <<registryVars, connectionVars>>

SendEnqueue(r) ==
    /\ pc[r] = "offering"
    /\ \/ /\ Enqueue(route[r], RequestMsg(r))
          /\ Goto(r, "queued")
          /\ UNCHANGED outcome
       \/ /\ Full(route[r])
          /\ SendError(r, "BACKPRESSURE")
          /\ UNCHANGED connectionVars
    /\ UNCHANGED <<pending, closed, route, mailbox, registryVars>>

SendWritten(r) ==
    /\ pc[r] = "queued"
    /\ Written(RequestMsg(r))
    /\ Goto(r, "waiting")
    /\ UNCHANGED <<pending, closed, route, mailbox, outcome>>
    /\ UNCHANGED <<registryVars, connectionVars>>

\* The write failed, the connection closed, or the context ended first; in
\* the last two cases the request may still be written later.
SendFails(r) ==
    /\ pc[r] = "queued"
    /\ \/ /\ WriteFailed(RequestMsg(r)) \/ ~Accepts(route[r])
          /\ SendError(r, "BROWSER_DISCONNECTED")
       \/ SendError(r, "TIMEOUT")
    /\ UNCHANGED <<pending, closed, route, mailbox>>
    /\ UNCHANGED <<registryVars, connectionVars>>

\* Fault: the error path forgets the entry.
SendCleanupForgets(r) ==
    /\ pc[r] = "failed"
    /\ Goto(r, "returned")
    /\ UNCHANGED <<pending, closed, route, mailbox, outcome>>
    /\ UNCHANGED <<registryVars, connectionVars>>

SendCleanup(r) ==
    /\ pc[r] = "failed"
    /\ removePending(r)
    /\ Goto(r, "returned")
    /\ UNCHANGED <<closed, route, mailbox, outcome>>
    /\ UNCHANGED <<registryVars, connectionVars>>

-----------------------------------------------------------------------------
(* The final select, and the cancellation of an expired request.           *)

SendReceive(r) ==
    /\ pc[r] = "waiting"
    /\ mailbox[r] # ""
    /\ Return(r, mailbox[r])
    /\ UNCHANGED <<pending, closed, route, mailbox>>
    /\ UNCHANGED <<registryVars, connectionVars>>

\* Fault: the context has no deadline and is never cancelled.
SendNeverExpires(r) == pc[r] = "waiting" /\ FALSE /\ UNCHANGED routerVars

SendExpire(r) ==
    /\ pc[r] = "waiting"
    /\ pc' = [pc EXCEPT ![r] = "expired"]
    /\ outcome' = [outcome EXCEPT ![r] = "TIMEOUT"]
    /\ UNCHANGED <<pending, closed, route, mailbox>>
    /\ UNCHANGED <<registryVars, connectionVars>>

SendForget(r) ==
    /\ pc[r] = "expired"
    /\ removePending(r)
    /\ Goto(r, "cancelling")
    /\ UNCHANGED <<closed, route, mailbox, outcome>>
    /\ UNCHANGED <<registryVars, connectionVars>>

\* sendCancel: its error is only logged.
CancelOffer(r) ==
    /\ pc[r] = "cancelling"
    /\ Goto(r, IF Accepts(route[r]) THEN "cancelOffering" ELSE "returned")
    /\ UNCHANGED <<pending, closed, route, mailbox, outcome>>
    /\ UNCHANGED <<registryVars, connectionVars>>

CancelEnqueue(r) ==
    /\ pc[r] = "cancelOffering"
    /\ \/ /\ Enqueue(route[r], CancelMsg(r))
          /\ Goto(r, "cancelQueued")
       \/ /\ Full(route[r])
          /\ Goto(r, "returned")
          /\ UNCHANGED connectionVars
    /\ UNCHANGED <<pending, closed, route, mailbox, outcome, registryVars>>

\* Written, refused, closed, or one second passed.
CancelDone(r) ==
    /\ pc[r] = "cancelQueued"
    /\ Goto(r, "returned")
    /\ UNCHANGED <<pending, closed, route, mailbox, outcome>>
    /\ UNCHANGED <<registryVars, connectionVars>>

Send(r) == \/ SendStart(r)   \/ SendRoute(r)   \/ SendRefused(r)
           \/ SendInsert(r)  \/ SendOffer(r)   \/ SendEnqueue(r)
           \/ SendWritten(r) \/ SendFails(r)   \/ SendCleanup(r)
           \/ SendReceive(r) \/ SendExpire(r)  \/ SendForget(r)
           \/ CancelOffer(r) \/ CancelEnqueue(r) \/ CancelDone(r)

-----------------------------------------------------------------------------
(* Completion from other goroutines.                                       *)

Deliver(rs, code) == /\ pending' = pending \ rs
                     /\ mailbox' = [r \in Requests |->
                                       IF r \in rs THEN code ELSE mailbox[r]]

\* Fault: the connection is not compared.
HandleResponseAnyConnection(b, c, r, code) ==
    /\ Deliver({x \in pending \cap {r} : TargetOf[x] = b}, code)
    /\ UNCHANGED <<closed, pc, route, outcome>>

\* Fault: the entry stays in the map.
HandleResponseKeepsEntry(b, c, r, code) ==
    /\ IF r \in pending /\ TargetOf[r] = b /\ route[r] = c
       THEN mailbox' = [mailbox EXCEPT ![r] = code]
       ELSE UNCHANGED mailbox
    /\ UNCHANGED <<pending, closed, pc, route, outcome>>

\* A response read on connection c of browser b is delivered only when the
\* pending request was sent to that browser on that connection.
HandleResponse(b, c, r, code) ==
    /\ Deliver({x \in pending \cap {r} : TargetOf[x] = b /\ route[x] = c}, code)
    /\ UNCHANGED <<closed, pc, route, outcome>>

\* Fault: every request of the browser fails.
FailBrowser(b, c) ==
    /\ Deliver({r \in pending : TargetOf[r] = b}, "BROWSER_DISCONNECTED")
    /\ UNCHANGED <<closed, pc, route, outcome>>

FailConnection(b, c) ==
    /\ Deliver({r \in pending : TargetOf[r] = b /\ route[r] = c},
               "BROWSER_DISCONNECTED")
    /\ UNCHANGED <<closed, pc, route, outcome>>

Close == /\ ~closed
         /\ closed' = TRUE
         /\ Deliver(pending, "CANCELLED")
         /\ UNCHANGED <<pc, route, outcome>>

-----------------------------------------------------------------------------

\* The router's fields and the locals of every Send call have their types.
RouterTypeOK ==
    /\ pending \subseteq Requests
    /\ closed \in BOOLEAN
    /\ pc \in [Requests -> SendStates]
    /\ route \in [Requests -> Connections \cup {None}]
    /\ mailbox \in [Requests -> Codes]
    /\ outcome \in [Requests -> Codes]
=============================================================================
