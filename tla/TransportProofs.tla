-------------------------- MODULE TransportProofs ---------------------------
(***************************************************************************)
(* The safety invariants of Transport, for every set of browsers,          *)
(* connections, requests and commands and every queue size.                *)
(***************************************************************************)
EXTENDS Transport, TLAPS

-----------------------------------------------------------------------------
(* Type correctness, component by component.                               *)

\* Register keeps the registry well typed.
LEMMA RegisterType ==
    ASSUME RegistryTypeOK, NEW b \in Browsers, NEW c \in Connections,
           NEW caps \in SUBSET Commands, NEW name \in Names \cup {Blank},
           NEW now \in 0..MaxTime, Register(b, c, caps, name, now),
           UNCHANGED <<clock, stamp>>
    PROVE  RegistryTypeOK'
<1>1. NewEntry(b, c, caps, name, now) \in Entry
  BY NamesAssumption DEF RegistryTypeOK, NewEntry, Entry
<1> QED
  BY <1>1 DEF RegistryTypeOK, Register, Put

\* So do the updates of a live entry.
LEMMA UpdateType ==
    ASSUME RegistryTypeOK, NEW b \in Browsers, NEW c \in Connections,
           \/ Disconnect(b, c)
           \/ Touch(b, c)
           \/ \E caps \in SUBSET Commands : UpdateCapabilities(b, c, caps),
           UNCHANGED <<clock, stamp>>
    PROVE  RegistryTypeOK'
<1>1. CASE ~Owns(b, c)
  <2>1. UNCHANGED browsers
    BY <1>1 DEF Disconnect, Touch, UpdateCapabilities
  <2> QED BY <2>1 DEF RegistryTypeOK
<1>2. CASE Owns(b, c)
  <2>1. b \in DOMAIN browsers /\ browsers[b] \in Entry /\ clock \in 0..MaxTime
    BY <1>2 DEF Owns, RegistryTypeOK
  <2>2. CASE Disconnect(b, c)
    BY <1>2, <2>1, <2>2 DEF Disconnect, RegistryTypeOK, Entry
  <2>3. CASE Touch(b, c)
    BY <1>2, <2>1, <2>3 DEF Touch, RegistryTypeOK, Entry
  <2>4. ASSUME NEW caps \in SUBSET Commands, UpdateCapabilities(b, c, caps)
        PROVE  RegistryTypeOK'
    BY <1>2, <2>1, <2>4 DEF UpdateCapabilities, RegistryTypeOK, Entry
  <2> QED BY <2>2, <2>3, <2>4
<1> QED BY <1>1, <1>2

\* The messages the modules build are messages.
LEMMA MessageTypes ==
    /\ \A r \in Requests : RequestMsg(r) \in Messages /\ CancelMsg(r) \in Messages
    /\ \A k \in ControlKinds, c \in Connections : ControlMsg(k, c) \in Messages
BY DEF RequestMsg, CancelMsg, ControlMsg, Messages

\* While the pump writes, the message it took is the head of the queue.
WritingHasHead == \A c \in Connections : pump[c] = "writing" => queue[c] # <<>>

ConnectionInv == ConnectionTypeOK /\ WritingHasHead

LEMMA EnqueueType ==
    ASSUME ConnectionInv, NEW c \in Connections, NEW m \in Messages, Enqueue(c, m)
    PROVE  ConnectionInv'
BY QueueAssumption
DEF ConnectionInv, ConnectionTypeOK, WritingHasHead, Enqueue, Full, Backlog

LEMMA SignalDoneType ==
    ASSUME ConnectionInv, NEW c, SignalDone(c)
    PROVE  ConnectionInv'
BY DEF ConnectionInv, ConnectionTypeOK, WritingHasHead, Backlog, SignalDone

\* The pump keeps the type: it takes a message before it writes one.
LEMMA PumpType ==
    ASSUME ConnectionInv, NEW c \in Connections,
           Pump(c) \/ PumpPingFails(c) \/ Start(c)
    PROVE  ConnectionInv'
<1> USE QueueAssumption DEF ConnectionInv, ConnectionTypeOK, WritingHasHead, Backlog, PumpStates
<1>1. CASE PumpCheckDone(c)
  BY <1>1 DEF PumpCheckDone
<1>2. CASE PumpTake(c)
  BY <1>2 DEF PumpTake
<1>3. ASSUME pump[c] = "writing"
      PROVE  Head(queue[c]) \in Messages /\ Tail(queue[c]) \in Seq(Messages)
  BY <1>3
<1>4. CASE PumpWrite(c)
  BY <1>3, <1>4 DEF PumpWrite
<1>5. CASE PumpWriteFails(c)
  BY <1>3, <1>5 DEF PumpWriteFails
<1>6. CASE PumpSeesDone(c) \/ PumpPingFails(c)
  BY <1>6 DEF PumpSeesDone, PumpPingFails
<1>7. CASE PumpExit(c)
  BY <1>7 DEF PumpExit
<1>8. CASE Start(c)
  BY <1>8 DEF Start
<1> QED
  BY <1>1, <1>2, <1>4, <1>5, <1>6, <1>7, <1>8 DEF Pump

\* A call that was routed and has not returned knows its connection.
Routed == SendStates \ {"idle", "routing", "returned"}
RouteKnown == \A r \in Requests : pc[r] \in Routed => route[r] \in Connections

SendInv == RouterTypeOK /\ RouteKnown /\ ConnectionInv /\ RegistryTypeOK

\* Every step of Router.Send keeps the router, the queues and the registry
\* well typed.
LEMMA SendType ==
    ASSUME SendInv, NEW r \in Requests, Send(r)
    PROVE  SendInv'
<1> USE DEF SendInv, RouterTypeOK, RouteKnown, Routed, SendStates, Codes, ResponseCodes
<1>a. TargetOf[r] \in Browsers /\ RequestMsg(r) \in Messages /\ CancelMsg(r) \in Messages
  BY TargetAssumption, MessageTypes
<1>b. ASSUME UNCHANGED connectionVars PROVE ConnectionInv'
  BY <1>b DEF connectionVars, ConnectionInv, ConnectionTypeOK, WritingHasHead, Backlog
<1>c. ASSUME UNCHANGED registryVars PROVE RegistryTypeOK'
  BY <1>c DEF registryVars, RegistryTypeOK
<1>1. CASE SendStart(r)
  BY <1>1, <1>b, <1>c DEF SendStart, Return, Goto
<1>2. CASE SendRoute(r)
  <2>1. Route(TargetOf[r], CommandOf[r]) = "ROUTED" =>
          browsers[TargetOf[r]].connection \in Connections
    BY <1>a DEF Route, RegistryTypeOK, Entry
  <2>2. Route(TargetOf[r], CommandOf[r]) # "ROUTED" =>
          Route(TargetOf[r], CommandOf[r]) \in Codes
    BY DEF Route
  <2> QED BY <1>2, <1>b, <1>c, <2>1, <2>2 DEF SendRoute, Return, Goto
<1>3. CASE SendRefused(r)
  BY <1>3, <1>b, <1>c DEF SendRefused, Return
<1>4. CASE SendInsert(r)
  BY <1>4, <1>b, <1>c DEF SendInsert, Return, Goto
<1>5. CASE SendOffer(r)
  BY <1>5, <1>b, <1>c DEF SendOffer, SendError, Goto
<1>6. CASE SendEnqueue(r)
  <2>1. route[r] \in Connections
    BY <1>6 DEF SendEnqueue
  <2>2. ConnectionInv'
    BY <1>6, <1>a, <1>b, <2>1, EnqueueType DEF SendEnqueue
  <2> QED BY <1>6, <1>c, <2>1, <2>2 DEF SendEnqueue, SendError, Goto
<1>7. CASE SendWritten(r)
  BY <1>7, <1>b, <1>c DEF SendWritten, Goto
<1>8. CASE SendFails(r)
  BY <1>8, <1>b, <1>c DEF SendFails, SendError
<1>9. CASE SendCleanup(r)
  BY <1>9, <1>b, <1>c DEF SendCleanup, Goto, removePending
<1>10. CASE SendReceive(r)
  BY <1>10, <1>b, <1>c DEF SendReceive, Return
<1>11. CASE SendExpire(r)
  BY <1>11, <1>b, <1>c DEF SendExpire
<1>12. CASE SendForget(r)
  BY <1>12, <1>b, <1>c DEF SendForget, Goto, removePending
<1>13. CASE CancelOffer(r)
  BY <1>13, <1>b, <1>c DEF CancelOffer, Goto
<1>14. CASE CancelEnqueue(r)
  <2>1. route[r] \in Connections
    BY <1>14 DEF CancelEnqueue
  <2>2. ConnectionInv'
    BY <1>14, <1>a, <1>b, <2>1, EnqueueType DEF CancelEnqueue
  <2> QED BY <1>14, <1>c, <2>1, <2>2 DEF CancelEnqueue, Goto
<1>15. CASE CancelDone(r)
  BY <1>15, <1>b, <1>c DEF CancelDone, Goto
<1> QED
  BY <1>1, <1>2, <1>3, <1>4, <1>5, <1>6, <1>7, <1>8, <1>9, <1>10, <1>11, <1>12,
     <1>13, <1>14, <1>15 DEF Send

\* The types of the variables Transport adds.
HandlersTypeOK == /\ handler \in [Connections -> HandlerStates]
                  /\ replaced \in [Connections -> Connections \cup {None}]
                  /\ tracked \subseteq Connections
                  /\ closer \in [Connections -> CloserStates]
                  /\ app \in AppStates
                  /\ answered \subseteq Requests

TypeInv == SendInv /\ HandlersTypeOK

\* Completing requests keeps the router well typed.
LEMMA DeliverType ==
    ASSUME RouterTypeOK, RouteKnown, NEW rs \in SUBSET Requests, NEW code \in Codes,
           Deliver(rs, code), closed' \in BOOLEAN, UNCHANGED <<pc, route, outcome>>
    PROVE  RouterTypeOK' /\ RouteKnown'
BY DEF RouterTypeOK, RouteKnown, Deliver

LEMMA TypeStep ==
    ASSUME TypeInv, [Next]_vars
    PROVE  TypeInv'
<1> USE DEF TypeInv, SendInv
<1>r. ASSUME UNCHANGED registryVars PROVE RegistryTypeOK'
  BY <1>r DEF registryVars, RegistryTypeOK
<1>c. ASSUME UNCHANGED connectionVars PROVE ConnectionInv'
  BY <1>c DEF connectionVars, ConnectionInv, ConnectionTypeOK, WritingHasHead, Backlog
<1>s. ASSUME UNCHANGED routerVars PROVE RouterTypeOK' /\ RouteKnown'
  BY <1>s DEF routerVars, RouterTypeOK, RouteKnown
<1>t. ASSUME UNCHANGED transportVars PROVE HandlersTypeOK'
  BY <1>t DEF transportVars, HandlersTypeOK
<1>e. ASSUME NEW c \in Connections, NEW s \in HandlerStates, Enter(c, s),
             UNCHANGED <<replaced, closer, app, answered>>,
             tracked' \subseteq Connections
      PROVE  HandlersTypeOK'
  BY <1>e DEF HandlersTypeOK, Enter
<1>p. ASSUME NEW c \in Connections, NEW s \in CloserStates, Step(c, s),
             UNCHANGED <<handler, replaced, tracked, app, answered>>
      PROVE  HandlersTypeOK'
  BY <1>p DEF HandlersTypeOK, Step
<1>k. \A c \in Connections : BrowserOf[c] \in Browsers
  BY BrowserAssumption
<1>m. \A c \in Connections : Sending(c) => OwnMsg(c) \in Messages
  BY MessageTypes DEF Sending, OwnMsg, ControlKind, ControlKinds
<1>1. ASSUME NEW r \in Requests, RouterSend(r) PROVE TypeInv'
  BY <1>1, <1>t, SendType DEF RouterSend
<1>2. ASSUME NEW c \in Connections,
             Accept(c) \/ WritePump(c) \/ PingFails(c)
      PROVE  TypeInv'
  <2>1. ConnectionInv'
    BY <1>2, PumpType DEF Accept, WritePump, PingFails
  <2> QED BY <1>2, <1>r, <1>s, <1>t, <1>e, <2>1
          DEF Accept, WritePump, PingFails, HandlerStates, HandlersTypeOK
<1>3. ASSUME NEW c \in Connections,
             \/ Hello(c) \/ ReplacedClosed(c) \/ trackConnection(c)
             \/ ReadFails(c) \/ LimitedClosed(c) \/ untrackConnection(c)
             \/ HandlerFinish(c)
      PROVE  TypeInv'
  BY <1>3, <1>r, <1>c, <1>s, <1>e
     DEF Hello, HelloFails, HelloDenied, HelloAuthorized, ReplacedClosed, trackConnection,
         ReadFails, LimitedClosed, untrackConnection, HandlerFinish, HandlerStates,
         HandlersTypeOK
<1>4. ASSUME NEW c \in Connections, HandlerRegister(c) PROVE TypeInv'
  <2>1. PICK caps \in HelloCaps : Register(BrowserOf[c], c, caps, Blank, clock)
    BY <1>4 DEF HandlerRegister
  <2>2. RegistryTypeOK'
    BY <1>4, <1>k, <2>1, RegisterType, BrowserAssumption
       DEF HandlerRegister, RegistryTypeOK
  <2>3. Replaced(BrowserOf[c]) \in Connections \cup {None}
    BY DEF Replaced, RegistryTypeOK, Entry
  <2>4. HandlersTypeOK'
    BY <1>4, <2>3 DEF HandlerRegister, HandlersTypeOK, Enter, HandlerStates
  <2> QED BY <1>4, <1>c, <1>s, <2>2, <2>4 DEF HandlerRegister
<1>5. ASSUME NEW c \in Connections,
             CloseReplaced(c) \/ RateLimitExceeded(c) \/ HandlerClose(c)
      PROVE  TypeInv'
  BY <1>5, <1>r, <1>s, <1>e, SignalDoneType
     DEF CloseReplaced, RateLimitExceeded, HandlerClose, HandlerStates, HandlersTypeOK
<1>6. ASSUME NEW c \in Connections,
             RejectTracking(c) \/ HandlerDisconnect(c) \/ ReadPing(c) \/ ReadRevoke(c)
      PROVE  TypeInv'
  <2>1. RegistryTypeOK'
    BY <1>6, <1>k, UpdateType DEF RejectTracking, HandlerDisconnect, ReadPing, ReadRevoke
  <2> QED BY <1>6, <1>c, <1>s, <1>e, <2>1
          DEF RejectTracking, HandlerDisconnect, ReadPing, ReadRevoke, HandlerStates,
              HandlersTypeOK
<1>7. ASSUME NEW c \in Connections, HandlerPost(c) PROVE TypeInv'
  <2>1. ConnectionInv'
    BY <1>7, <1>c, <1>m, EnqueueType DEF HandlerPost
  <2> QED BY <1>7, <1>r, <1>s, <1>e, <2>1
          DEF HandlerPost, AfterSendError, HandlerStates, HandlersTypeOK
<1>8. ASSUME NEW c \in Connections, HandlerPosted(c) PROVE TypeInv'
  <2>1. AfterSend(handler[c]) \in HandlerStates
    BY <1>8 DEF HandlerPosted, Sending, ControlKind, AfterSend, HandlerStates
  <2> QED BY <1>8, <1>r, <1>c, <1>s, <1>e, <2>1
          DEF HandlerPosted, AfterSendError, HandlerStates, HandlersTypeOK
<1>9. ASSUME NEW c \in Connections, NEW r \in Requests, NEW code \in ResponseCodes,
             ReadResponse(c, r, code)
      PROVE  TypeInv'
  <2>1. RegistryTypeOK'
    BY <1>9, <1>k, UpdateType DEF ReadResponse
  <2>2. RouterTypeOK' /\ RouteKnown'
    BY <1>9, DeliverType DEF ReadResponse, HandleResponse, RouterTypeOK, Codes
  <2> QED BY <1>9, <1>c, <2>1, <2>2 DEF ReadResponse, HandlersTypeOK
<1>10. ASSUME NEW c \in Connections, ReadCapabilitiesChanged(c) PROVE TypeInv'
  <2>1. RegistryTypeOK'
    BY <1>10, <1>k, UpdateType, BrowserAssumption DEF ReadCapabilitiesChanged
  <2> QED BY <1>10, <1>c, <1>s, <1>t, <2>1 DEF ReadCapabilitiesChanged
<1>11. ASSUME NEW c \in Connections, HandlerFailConnection(c) PROVE TypeInv'
  <2>1. RouterTypeOK' /\ RouteKnown'
    BY <1>11, DeliverType DEF HandlerFailConnection, FailConnection, RouterTypeOK, Codes
  <2> QED BY <1>11, <1>r, <1>c, <1>e, <2>1
          DEF HandlerFailConnection, HandlerStates, HandlersTypeOK
<1>12. CASE AppCloseRouter
  <2>1. RouterTypeOK' /\ RouteKnown'
    BY <1>12, DeliverType DEF AppCloseRouter, Close, RouterTypeOK, Codes
  <2> QED BY <1>12, <1>r, <1>c, <2>1 DEF AppCloseRouter, HandlersTypeOK, AppStates
<1>13. CASE Shutdown \/ ShutdownDone
  BY <1>13, <1>r, <1>c, <1>s DEF Shutdown, ShutdownDone, HandlersTypeOK, AppStates, CloserStates
<1>14. CASE ShutdownDeadline
  <2>1. ConnectionInv'
    BY <1>14 DEF ShutdownDeadline, ConnectionInv, ConnectionTypeOK, WritingHasHead, Backlog
  <2> QED BY <1>14, <1>r, <1>s, <2>1 DEF ShutdownDeadline, HandlersTypeOK, AppStates
<1>15. ASSUME NEW c \in Connections, CloserPost(c) PROVE TypeInv'
  <2>1. ControlMsg("event", c) \in Messages
    BY MessageTypes DEF ControlKinds
  <2>2. ConnectionInv'
    BY <1>15, <1>c, <2>1, EnqueueType DEF CloserPost
  <2> QED BY <1>15, <1>r, <1>s, <1>p, <2>2 DEF CloserPost, CloserStates, HandlersTypeOK
<1>16. ASSUME NEW c \in Connections, CloserPosted(c) \/ CloserClose(c) \/ CloserDone(c)
       PROVE  TypeInv'
  BY <1>16, <1>r, <1>c, <1>s, <1>p, SignalDoneType
     DEF CloserPosted, CloserClose, CloserDone, CloserStates
<1>17. CASE UNCHANGED vars
  BY <1>17, <1>r, <1>c, <1>s, <1>t DEF vars
<1> QED
  BY <1>1, <1>2, <1>3, <1>4, <1>5, <1>6, <1>7, <1>8, <1>9, <1>10, <1>11, <1>12,
     <1>13, <1>14, <1>15, <1>16, <1>17 DEF Next, Handler, Closer

LEMMA TypeInit == Init => TypeInv
<1> SUFFICES ASSUME Init PROVE TypeInv
  OBVIOUS
<1>1. RegistryTypeOK
  BY TimeAssumption DEF Init, RegistryInit, RegistryTypeOK
<1>2. ConnectionInv
  BY QueueAssumption
  DEF Init, ConnectionInit, ConnectionInv, ConnectionTypeOK, WritingHasHead, Backlog, PumpStates
<1>3. RouterTypeOK /\ RouteKnown
  BY DEF Init, RouterInit, RouterTypeOK, RouteKnown, Routed, SendStates, Codes
<1>4. HandlersTypeOK
  BY DEF Init, HandlersTypeOK, HandlerStates, CloserStates, AppStates
<1> QED BY <1>1, <1>2, <1>3, <1>4 DEF TypeInv, SendInv

\* Type correctness of the whole server: registry, queues, router, handlers
\* and shutdown.
THEOREM TypeCorrect == Spec => []TypeOK
<1>1. Spec => []TypeInv
  BY TypeInit, TypeStep, PTL DEF Spec
<1>2. TypeInv => TypeOK
  BY DEF TypeInv, SendInv, HandlersTypeOK, TypeOK, ConnectionInv
<1> QED BY <1>1, <1>2, PTL

LEMMA TypeAlways == Spec => []TypeInv
BY TypeInit, TypeStep, PTL DEF Spec

-----------------------------------------------------------------------------
(* The pending map.                                                        *)

\* A call that has not reached its insertion has no result.
FreshMailbox == \A r \in Requests :
                   pc[r] \in {"idle", "routing", "routed"} => mailbox[r] = ""

PendingInv == NoLeakedPending /\ NoBlockedDelivery /\ ClosedRouterIsEmpty /\ FreshMailbox

\* A completion takes what it completes out of the map.
LEMMA DeliverPending ==
    ASSUME TypeInv, PendingInv, NEW rs \in SUBSET pending, NEW code,
           Deliver(rs, code), UNCHANGED pc, closed' => closed \/ rs = pending
    PROVE  PendingInv'
BY DEF TypeInv, SendInv, RouterTypeOK, PendingInv, NoLeakedPending, NoBlockedDelivery,
       ClosedRouterIsEmpty, FreshMailbox, InFlight, Deliver

LEMMA SendPending ==
    ASSUME TypeInv, PendingInv, NEW r \in Requests, Send(r)
    PROVE  PendingInv'
<1> USE DEF PendingInv, NoLeakedPending, NoBlockedDelivery, ClosedRouterIsEmpty,
            FreshMailbox, InFlight
<1>a. pending \subseteq Requests /\ pc \in [Requests -> SendStates]
  BY DEF TypeInv, SendInv, RouterTypeOK
<1>1. CASE SendStart(r)
  BY <1>1, <1>a DEF SendStart, Return, Goto
<1>2. CASE SendRoute(r)
  BY <1>2, <1>a DEF SendRoute, Return, Goto
<1>3. CASE SendRefused(r)
  BY <1>3, <1>a DEF SendRefused, Return
<1>4. CASE SendInsert(r)
  BY <1>4, <1>a DEF SendInsert, Return, Goto
<1>5. CASE SendOffer(r)
  BY <1>5, <1>a DEF SendOffer, SendError, Goto
<1>6. CASE SendEnqueue(r)
  BY <1>6, <1>a DEF SendEnqueue, SendError, Goto
<1>7. CASE SendWritten(r)
  BY <1>7, <1>a DEF SendWritten, Goto
<1>8. CASE SendFails(r)
  BY <1>8, <1>a DEF SendFails, SendError
<1>9. CASE SendCleanup(r)
  BY <1>9, <1>a DEF SendCleanup, Goto, removePending
<1>10. CASE SendReceive(r)
  \* A result was delivered, so the request is no longer in the map.
  BY <1>10, <1>a DEF SendReceive, Return
<1>11. CASE SendExpire(r)
  BY <1>11, <1>a DEF SendExpire
<1>12. CASE SendForget(r)
  BY <1>12, <1>a DEF SendForget, Goto, removePending
<1>13. CASE CancelOffer(r)
  BY <1>13, <1>a DEF CancelOffer, Goto
<1>14. CASE CancelEnqueue(r)
  BY <1>14, <1>a DEF CancelEnqueue, Goto
<1>15. CASE CancelDone(r)
  BY <1>15, <1>a DEF CancelDone, Goto
<1> QED
  BY <1>1, <1>2, <1>3, <1>4, <1>5, <1>6, <1>7, <1>8,
     <1>9, <1>10, <1>11, <1>12, <1>13, <1>14, <1>15 DEF Send

\* Only five kinds of steps touch the router.
LEMMA RouterSteps ==
    ASSUME [Next]_vars
    PROVE  \/ \E r \in Requests : RouterSend(r)
           \/ \E c \in Connections, r \in Requests, code \in ResponseCodes :
                 ReadResponse(c, r, code)
           \/ \E c \in Connections : HandlerFailConnection(c)
           \/ AppCloseRouter
           \/ UNCHANGED routerVars
<1>1. ASSUME NEW c \in Connections,
             \/ Accept(c) \/ Hello(c) \/ HandlerRegister(c) \/ CloseReplaced(c)
             \/ ReplacedClosed(c) \/ trackConnection(c) \/ RejectTracking(c)
             \/ HandlerPost(c) \/ HandlerPosted(c) \/ LimitedClosed(c)
             \/ untrackConnection(c) \/ HandlerDisconnect(c) \/ HandlerClose(c)
             \/ HandlerFinish(c)
      PROVE  UNCHANGED routerVars
  BY <1>1 DEF Accept, Hello, HelloFails, HelloDenied, HelloAuthorized, HandlerRegister,
      CloseReplaced, ReplacedClosed, trackConnection, RejectTracking, HandlerPost,
      HandlerPosted, LimitedClosed, untrackConnection, HandlerDisconnect, HandlerClose,
      HandlerFinish
<1>2. ASSUME NEW c \in Connections,
             \/ ReadFails(c) \/ RateLimitExceeded(c) \/ ReadPing(c)
             \/ ReadCapabilitiesChanged(c) \/ ReadRevoke(c) \/ WritePump(c)
             \/ PingFails(c) \/ Closer(c)
      PROVE  UNCHANGED routerVars
  BY <1>2 DEF ReadFails, RateLimitExceeded, ReadPing, ReadCapabilitiesChanged, ReadRevoke,
      WritePump, PingFails, Closer, CloserPost, CloserPosted, CloserClose, CloserDone
<1>3. ASSUME Shutdown \/ ShutdownDone \/ ShutdownDeadline \/ UNCHANGED vars
      PROVE  UNCHANGED routerVars
  BY <1>3 DEF Shutdown, ShutdownDone, ShutdownDeadline, vars
<1> QED BY <1>1, <1>2, <1>3 DEF Next, Handler

LEMMA PendingStep ==
    ASSUME TypeInv, PendingInv, [Next]_vars
    PROVE  PendingInv'
<1>1. ASSUME NEW r \in Requests, RouterSend(r) PROVE PendingInv'
  BY <1>1, SendPending DEF RouterSend
<1>2. ASSUME NEW c \in Connections, NEW r \in Requests, NEW code \in ResponseCodes,
             ReadResponse(c, r, code)
      PROVE  PendingInv'
  BY <1>2, DeliverPending DEF ReadResponse, HandleResponse
<1>3. ASSUME NEW c \in Connections, HandlerFailConnection(c) PROVE PendingInv'
  BY <1>3, DeliverPending DEF HandlerFailConnection, FailConnection
<1>4. CASE AppCloseRouter
  BY <1>4, DeliverPending DEF AppCloseRouter, Close
<1>5. CASE UNCHANGED routerVars
  BY <1>5 DEF routerVars, PendingInv, NoLeakedPending, NoBlockedDelivery,
     ClosedRouterIsEmpty, FreshMailbox
<1> QED BY <1>1, <1>2, <1>3, <1>4, <1>5, RouterSteps

LEMMA PendingAlways == Spec => []PendingInv
<1>1. Init => PendingInv
  BY DEF Init, RouterInit, PendingInv, NoLeakedPending, NoBlockedDelivery,
     ClosedRouterIsEmpty, FreshMailbox
<1> QED BY <1>1, TypeAlways, PendingStep, PTL DEF Spec

\* A Send call never leaves an entry behind in the pending map.
THEOREM PendingNeverLeaks == Spec => []NoLeakedPending
BY PendingAlways, PTL DEF PendingInv

\* Nobody ever pushes a second result into a one-slot result channel.
THEOREM DeliveryNeverBlocks == Spec => []NoBlockedDelivery
BY PendingAlways, PTL DEF PendingInv

\* A closed router has nothing pending, whatever the calls in progress do.
THEOREM CloseDrainsRouter == Spec => []ClosedRouterIsEmpty
BY PendingAlways, PTL DEF PendingInv

-----------------------------------------------------------------------------
(* Shutdown.                                                               *)

\* A closed connection stays closed.
LEMMA DoneForGood ==
    ASSUME TypeInv, [Next]_vars, NEW c \in Connections, done[c]
    PROVE  done'[c]
<1>a. done \in [Connections -> BOOLEAN]
  BY DEF TypeInv, SendInv, ConnectionInv, ConnectionTypeOK
<1>1. ASSUME NEW r \in Requests, RouterSend(r) PROVE done'[c]
  BY <1>1, <1>a DEF RouterSend, Send, SendStart, SendRoute, SendRefused, SendInsert,
     SendOffer, SendEnqueue, SendWritten, SendFails, SendCleanup, SendReceive, SendExpire,
     SendForget, CancelOffer, CancelEnqueue, CancelDone, Enqueue, connectionVars
<1>2. ASSUME NEW d \in Connections, WritePump(d) \/ PingFails(d) \/ Accept(d)
      PROVE  done'[c]
  BY <1>2, <1>a DEF WritePump, PingFails, Accept, Start, Pump, PumpCheckDone, PumpTake,
     PumpWrite, PumpWriteFails, PumpSeesDone, PumpPingFails, PumpExit
<1>3. ASSUME NEW d \in Connections, Hello(d) \/ Handler(d) \/ Closer(d)
      PROVE  done'[c]
  BY <1>3, <1>a DEF Hello, HelloFails, HelloDenied, HelloAuthorized, Handler, HandlerRegister,
     CloseReplaced, ReplacedClosed, trackConnection, RejectTracking, HandlerPost,
     HandlerPosted, LimitedClosed, untrackConnection, HandlerDisconnect,
     HandlerFailConnection, HandlerClose, HandlerFinish, Closer, CloserPost, CloserPosted,
     CloserClose, CloserDone, Enqueue, SignalDone, connectionVars
<1>4. ASSUME NEW d \in Connections,
             \/ ReadFails(d) \/ RateLimitExceeded(d) \/ ReadPing(d)
             \/ ReadCapabilitiesChanged(d) \/ ReadRevoke(d)
             \/ \E r \in Requests, code \in ResponseCodes : ReadResponse(d, r, code)
      PROVE  done'[c]
  BY <1>4, <1>a DEF ReadFails, RateLimitExceeded, ReadPing, ReadCapabilitiesChanged,
     ReadRevoke, ReadResponse, SignalDone, connectionVars
<1>5. CASE AppCloseRouter \/ Shutdown \/ ShutdownDone \/ ShutdownDeadline \/ UNCHANGED vars
  BY <1>5, <1>a DEF AppCloseRouter, Shutdown, ShutdownDone, ShutdownDeadline, vars,
     connectionVars
<1> QED BY <1>1, <1>2, <1>3, <1>4, <1>5 DEF Next

\* The router is closed before the transport shuts down; only then can a
\* handler be rejected; and Shutdown's copy has every tracked connection.
ShutdownInv ==
    /\ app # "running" => closed
    /\ \A c \in Connections : handler[c] = "rejecting" => isShuttingDown
    /\ app = "closing" => \A c \in tracked : closer[c] # "none"
    /\ NothingServedAfterShutdown

LEMMA ShutdownStep ==
    ASSUME TypeInv, ShutdownInv, [Next]_vars
    PROVE  ShutdownInv'
<1> USE DEF ShutdownInv, NothingServedAfterShutdown, isShuttingDown
<1>a. HandlersTypeOK /\ HandlersTypeOK'
  BY TypeStep DEF TypeInv
<1>b. \A c \in Connections : done[c] => done'[c]
  BY DoneForGood
<1>1. ASSUME UNCHANGED <<tracked, closer, app>>, closed => closed',
             \A c \in Connections : handler'[c] = "rejecting" =>
                                       handler[c] = "rejecting" \/ isShuttingDown
      PROVE  ShutdownInv'
  BY <1>1, <1>a, <1>b DEF HandlersTypeOK
<1>2. ASSUME NEW r \in Requests, RouterSend(r) PROVE ShutdownInv'
  <2>1. UNCHANGED closed
    BY <1>2 DEF RouterSend, Send, SendStart, SendRoute, SendRefused, SendInsert,
       SendOffer, SendEnqueue, SendWritten, SendFails, SendCleanup, SendReceive, SendExpire,
       SendForget, CancelOffer, CancelEnqueue, CancelDone
  <2> QED BY <1>1, <1>2, <2>1 DEF RouterSend, transportVars
<1>3. ASSUME NEW c \in Connections,
             \/ Accept(c) \/ Hello(c) \/ HandlerRegister(c) \/ CloseReplaced(c)
             \/ ReplacedClosed(c) \/ RejectTracking(c) \/ LimitedClosed(c)
             \/ HandlerDisconnect(c) \/ HandlerFailConnection(c)
             \/ HandlerClose(c) \/ HandlerFinish(c)
      PROVE  ShutdownInv'
  BY <1>3, <1>1, <1>a DEF Accept, Hello, HelloFails, HelloDenied, HelloAuthorized,
     HandlerRegister, CloseReplaced, ReplacedClosed, RejectTracking, LimitedClosed,
     HandlerDisconnect, HandlerFailConnection, FailConnection, HandlerClose, HandlerFinish,
     Enter, HandlersTypeOK, routerVars
<1>4. ASSUME NEW c \in Connections, HandlerPost(c) \/ HandlerPosted(c) PROVE ShutdownInv'
  <2>1. \A s : Sending(c) /\ s \in {AfterSend(handler[c]), AfterSendError(handler[c])} =>
                  s # "rejecting"
    BY DEF Sending, ControlKind, AfterSend, AfterSendError
  <2> QED BY <1>4, <1>1, <1>a, <2>1 DEF HandlerPost, HandlerPosted, Enter, HandlersTypeOK,
             routerVars
<1>5. ASSUME NEW c \in Connections, trackConnection(c) PROVE ShutdownInv'
  BY <1>5, <1>a, <1>b DEF trackConnection, Enter, HandlersTypeOK, routerVars
<1>6. ASSUME NEW c \in Connections, untrackConnection(c) PROVE ShutdownInv'
  BY <1>6, <1>a, <1>b DEF untrackConnection, Enter, HandlersTypeOK, routerVars
<1>7. ASSUME NEW c \in Connections,
             \/ ReadFails(c) \/ RateLimitExceeded(c) \/ ReadPing(c)
             \/ ReadCapabilitiesChanged(c) \/ ReadRevoke(c)
             \/ \E r \in Requests, code \in ResponseCodes : ReadResponse(c, r, code)
             \/ WritePump(c) \/ PingFails(c)
      PROVE  ShutdownInv'
  BY <1>7, <1>1, <1>a DEF ReadFails, RateLimitExceeded, ReadPing, ReadCapabilitiesChanged,
     ReadRevoke, ReadResponse, HandleResponse, WritePump, PingFails, Enter, HandlersTypeOK,
     routerVars, transportVars
<1>8. ASSUME NEW c \in Connections, Closer(c) PROVE ShutdownInv'
  BY <1>8, <1>a, <1>b DEF Closer, CloserPost, CloserPosted, CloserClose, CloserDone, Step,
     HandlersTypeOK, routerVars
<1>9. CASE AppCloseRouter
  BY <1>9, <1>a DEF AppCloseRouter, Close, HandlersTypeOK
<1>10. CASE Shutdown
  BY <1>10, <1>a DEF Shutdown, HandlersTypeOK, routerVars
<1>11. CASE ShutdownDone
  BY <1>11, <1>a DEF ShutdownDone, HandlersTypeOK, routerVars
<1>12. CASE ShutdownDeadline
  BY <1>12, <1>a DEF ShutdownDeadline, HandlersTypeOK, routerVars
<1>13. CASE UNCHANGED vars
  BY <1>13, <1>1 DEF vars, transportVars, routerVars
<1> QED
  BY <1>2, <1>3, <1>4, <1>5, <1>6, <1>7, <1>8, <1>9, <1>10, <1>11, <1>12, <1>13
  DEF Next, Handler

LEMMA ShutdownAlways == Spec => []ShutdownInv
<1>1. Init => ShutdownInv
  BY DEF Init, ShutdownInv, NothingServedAfterShutdown
<1> QED BY <1>1, TypeAlways, ShutdownStep, PTL DEF Spec

\* When the transport shutdown has returned, every connection still tracked
\* has been told to close.
THEOREM ShutdownClosesAll == Spec => []NothingServedAfterShutdown
BY ShutdownAlways, PTL DEF ShutdownInv

\* A handler rejected by the shutdown has no pending request to fail.
THEOREM RejectedIsIdle == Spec => []RejectedHasNoPending
<1>1. TypeInv /\ PendingInv /\ ShutdownInv => RejectedHasNoPending
  <2> SUFFICES ASSUME TypeInv, PendingInv, ShutdownInv, NEW r \in pending,
                      handler[route[r]] = "rejecting"
               PROVE  FALSE
    BY DEF RejectedHasNoPending
  <2>1. r \in Requests /\ pc[r] \in InFlight
    BY DEF TypeInv, SendInv, RouterTypeOK, PendingInv, NoLeakedPending
  <2>2. route[r] \in Connections
    BY <2>1 DEF TypeInv, SendInv, RouteKnown, Routed, SendStates, InFlight
  <2>3. closed
    BY <2>2 DEF ShutdownInv, isShuttingDown
  <2> QED BY <2>3 DEF PendingInv, ClosedRouterIsEmpty
<1> QED BY <1>1, TypeAlways, PendingAlways, ShutdownAlways, PTL

-----------------------------------------------------------------------------
(* The registry and the handlers.                                          *)

\* LiveBrowserIsListed for every handler between its Register and its
\* Disconnect, which is what is inductive.
ListedOrReplaced ==
    \A c \in Connections :
        (handler[c] \in Registered /\ ~done[c]) =>
            \/ Owns(BrowserOf[c], c)
            \/ \E d \in Connections : handler[d] = "replacing" /\ replaced[d] = c

ListingInv == NoGhostBrowser /\ ListedOrReplaced

\* A step that neither touches an owner nor moves a handler into or out of
\* the registered part, nor away from replacing, keeps the listing.
LEMMA ListingKept ==
    ASSUME TypeInv, TypeInv', ListingInv,
           \A c \in Connections : done[c] => done'[c],
           DOMAIN browsers' = DOMAIN browsers,
           \A b \in DOMAIN browsers :
               /\ browsers'[b].connected = browsers[b].connected
               /\ browsers'[b].connection = browsers[b].connection
               /\ browsers'[b].connectionId = browsers[b].connectionId,
           UNCHANGED replaced,
           \A c \in Connections :
               /\ (handler'[c] \in Registered) = (handler[c] \in Registered)
               /\ (handler[c] = "replacing" /\ replaced[c] \in Connections) =>
                     handler'[c] = "replacing" \/ done'[replaced[c]]
    PROVE  ListingInv'
<1> USE DEF ListingInv
<1>1. NoGhostBrowser'
  BY DEF NoGhostBrowser, TypeInv, SendInv, RegistryTypeOK, Entry
<1>2. ListedOrReplaced'
  <2> SUFFICES ASSUME NEW c \in Connections, handler'[c] \in Registered, ~done'[c]
               PROVE  \/ Owns(BrowserOf[c], c)'
                      \/ \E d \in Connections : handler'[d] = "replacing" /\ replaced'[d] = c
    BY DEF ListedOrReplaced
  <2>1. handler[c] \in Registered /\ ~done[c]
    OBVIOUS
  <2>2. CASE Owns(BrowserOf[c], c)
    BY <2>2 DEF Owns
  <2>3. CASE \E d \in Connections : handler[d] = "replacing" /\ replaced[d] = c
    BY <2>3
  <2> QED BY <2>1, <2>2, <2>3 DEF ListedOrReplaced
<1> QED BY <1>1, <1>2

LEMMA ListingStep ==
    ASSUME TypeInv, ListingInv, [Next]_vars
    PROVE  ListingInv'
<1>a. TypeInv'
  BY TypeStep
<1>b. \A c \in Connections : done[c] => done'[c]
  BY DoneForGood
<1>h. /\ handler \in [Connections -> HandlerStates]
      /\ replaced \in [Connections -> Connections \cup {None}]
      /\ done \in [Connections -> BOOLEAN]
  BY DEF TypeInv, HandlersTypeOK, SendInv, ConnectionInv, ConnectionTypeOK
<1>k. ASSUME UNCHANGED <<browsers, replaced>>,
             \A c \in Connections :
               /\ (handler'[c] \in Registered) = (handler[c] \in Registered)
               /\ (handler[c] = "replacing" /\ replaced[c] \in Connections) =>
                     handler'[c] = "replacing" \/ done'[replaced[c]]
      PROVE  ListingInv'
  BY <1>k, <1>a, <1>b, ListingKept
<1>1. ASSUME UNCHANGED <<browsers, replaced, handler>> PROVE ListingInv'
  BY <1>1, <1>k
<1>2. ASSUME NEW r \in Requests, RouterSend(r) PROVE ListingInv'
  <2>1. UNCHANGED browsers
    BY <1>2 DEF RouterSend, Send, SendStart, SendRoute, SendRefused, SendInsert,
       SendOffer, SendEnqueue, SendWritten, SendFails, SendCleanup, SendReceive, SendExpire,
       SendForget, CancelOffer, CancelEnqueue, CancelDone, registryVars
  <2> QED BY <1>1, <1>2, <2>1 DEF RouterSend, transportVars
<1>3. ASSUME NEW c \in Connections,
             \/ Accept(c) \/ Hello(c) \/ ReplacedClosed(c) \/ LimitedClosed(c)
             \/ untrackConnection(c) \/ HandlerFailConnection(c) \/ HandlerClose(c)
             \/ HandlerFinish(c) \/ trackConnection(c)
      PROVE  ListingInv'
  BY <1>3, <1>k, <1>h DEF Accept, Hello, HelloFails, HelloDenied, HelloAuthorized,
     ReplacedClosed, LimitedClosed, untrackConnection, HandlerFailConnection, HandlerClose,
     HandlerFinish, trackConnection, Enter, Registered, registryVars
<1>4. ASSUME NEW c \in Connections, HandlerPost(c) \/ HandlerPosted(c) PROVE ListingInv'
  <2>1. CASE UNCHANGED handler
    BY <1>1, <1>4, <2>1 DEF HandlerPost, HandlerPosted, registryVars
  <2>2. CASE \E s \in {AfterSend(handler[c]), AfterSendError(handler[c])} : Enter(c, s)
    BY <1>4, <1>k, <1>h, <2>2 DEF HandlerPost, HandlerPosted, Sending, ControlKind,
       AfterSend, AfterSendError, Enter, Registered, registryVars
  <2> QED BY <1>4, <2>1, <2>2 DEF HandlerPost, HandlerPosted
<1>5. ASSUME NEW c \in Connections, CloseReplaced(c) PROVE ListingInv'
  <2>1. replaced[c] \in Connections => done'[replaced[c]]
    BY <1>5, <1>h DEF CloseReplaced, SignalDone
  <2> QED BY <1>5, <1>k, <1>h, <2>1 DEF CloseReplaced, Enter, Registered, registryVars
<1>6. ASSUME NEW c \in Connections, HandlerRegister(c) PROVE ListingInv'
  <2> DEFINE b == BrowserOf[c]
  <2>1. PICK caps \in HelloCaps : Register(b, c, caps, Blank, clock)
    BY <1>6 DEF HandlerRegister
  <2>2. /\ b \in DOMAIN browsers'
        /\ browsers'[b].connected
        /\ browsers'[b].connection = c
        /\ browsers'[b].connectionId = c
        /\ DOMAIN browsers' = DOMAIN browsers \cup {b}
        /\ \A x \in DOMAIN browsers \ {b} : browsers'[x] = browsers[x]
    BY <2>1 DEF Register, Put, NewEntry
  <2>3. /\ handler[c] = "authorized"
        /\ handler'[c] \in {"tracking", "replacing"}
        /\ Replaced(b) # None => handler'[c] = "replacing"
        /\ replaced'[c] = Replaced(b)
        /\ \A d \in Connections \ {c} : handler'[d] = handler[d] /\ replaced'[d] = replaced[d]
        /\ UNCHANGED done
    BY <1>6, <1>h DEF HandlerRegister, Enter, connectionVars
  <2>4. NoGhostBrowser'
    <3>1. \A x \in DOMAIN browsers \ {b} : browsers[x].connected =>
             browsers[x].connectionId \in Connections \ {c}
      BY <2>3 DEF ListingInv, NoGhostBrowser, Registered, TypeInv, SendInv, RegistryTypeOK, Entry
    <3>2. \A x \in DOMAIN browsers \ {b} : browsers'[x].connected =>
             /\ browsers'[x].connection = browsers'[x].connectionId
             /\ handler'[browsers'[x].connectionId] \in Registered
             /\ BrowserOf[browsers'[x].connectionId] = x
      BY <2>2, <2>3, <3>1 DEF ListingInv, NoGhostBrowser
    <3>3. handler'[c] \in Registered
      BY <2>3 DEF Registered
    <3> QED BY <2>2, <3>2, <3>3 DEF NoGhostBrowser
  <2>5. ASSUME NEW d \in Connections, handler'[d] \in Registered, ~done'[d]
        PROVE  \/ Owns(BrowserOf[d], d)'
               \/ \E e \in Connections : handler'[e] = "replacing" /\ replaced'[e] = d
    <3>1. CASE d = c
      BY <3>1, <2>2 DEF Owns
    <3>2. CASE d # c /\ Owns(BrowserOf[d], d) /\ BrowserOf[d] # b
      BY <3>2, <2>2 DEF Owns
    <3>3. CASE d # c /\ Owns(BrowserOf[d], d) /\ BrowserOf[d] = b
      <4>1. Replaced(b) = d
        BY <3>3 DEF Owns, Replaced, ListingInv, NoGhostBrowser
      <4> QED BY <2>3, <4>1, NoneAssumption
    <3>4. CASE d # c /\ \E e \in Connections : handler[e] = "replacing" /\ replaced[e] = d
      BY <3>4, <2>3
    <3> QED BY <2>3, <2>5, <3>1, <3>2, <3>3, <3>4 DEF ListingInv, ListedOrReplaced
  <2> QED BY <2>4, <2>5 DEF ListingInv, ListedOrReplaced
<1>7. ASSUME NEW c \in Connections, RejectTracking(c) \/ HandlerDisconnect(c)
      PROVE  ListingInv'
  <2> DEFINE b == BrowserOf[c]
  <2>1. /\ Disconnect(b, c)
        /\ handler'[c] \notin Registered
        /\ handler[c] # "replacing"
        /\ \A d \in Connections \ {c} : handler'[d] = handler[d]
        /\ UNCHANGED <<replaced, done>>
    BY <1>7, <1>h DEF RejectTracking, HandlerDisconnect, Enter, Registered, connectionVars
  <2>2. /\ DOMAIN browsers' = DOMAIN browsers
        /\ ~Owns(b, c)'
        /\ Owns(b, c) => ~browsers'[b].connected
        /\ \A x \in DOMAIN browsers : ~(x = b /\ Owns(b, c)) => browsers'[x] = browsers[x]
        /\ \A x \in DOMAIN browsers : browsers'[x].connected => browsers[x].connected
    BY <2>1, BrowserAssumption DEF Disconnect, Owns, TypeInv, SendInv, RegistryTypeOK, Entry
  <2>3. NoGhostBrowser'
    <3> SUFFICES ASSUME NEW x \in DOMAIN browsers, browsers'[x].connected
                 PROVE  /\ browsers'[x].connection = browsers'[x].connectionId
                        /\ handler'[browsers'[x].connectionId] \in Registered
                        /\ BrowserOf[browsers'[x].connectionId] = x
      BY <2>2 DEF NoGhostBrowser
    <3>1. browsers'[x] = browsers[x]
      BY <2>2 DEF Owns
    <3>2. /\ browsers[x].connection = browsers[x].connectionId
          /\ handler[browsers[x].connectionId] \in Registered
          /\ BrowserOf[browsers[x].connectionId] = x
      BY <3>1 DEF ListingInv, NoGhostBrowser
    <3>3. browsers[x].connectionId \in Connections
      BY DEF TypeInv, SendInv, RegistryTypeOK, Entry
    <3>4. browsers[x].connectionId # c
      BY <2>2, <3>1, <3>2 DEF Owns
    <3> QED BY <2>1, <3>1, <3>2, <3>3, <3>4
  <2>4. ASSUME NEW d \in Connections, handler'[d] \in Registered, ~done'[d]
        PROVE  \/ Owns(BrowserOf[d], d)'
               \/ \E e \in Connections : handler'[e] = "replacing" /\ replaced'[e] = d
    <3>1. d # c
      BY <2>1, <2>4
    <3>2. CASE Owns(BrowserOf[d], d)
      <4>1. browsers'[BrowserOf[d]] = browsers[BrowserOf[d]]
        BY <2>2, <3>1, <3>2 DEF Owns
      <4> QED BY <2>2, <3>2, <4>1 DEF Owns
    <3>3. CASE \E e \in Connections : handler[e] = "replacing" /\ replaced[e] = d
      BY <2>1, <3>3
    <3> QED BY <2>1, <2>4, <3>1, <3>2, <3>3 DEF ListingInv, ListedOrReplaced
  <2> QED BY <2>3, <2>4 DEF ListingInv, ListedOrReplaced
<1>8. ASSUME NEW c \in Connections,
             \/ ReadFails(c) \/ RateLimitExceeded(c) \/ WritePump(c) \/ PingFails(c)
             \/ Closer(c)
      PROVE  ListingInv'
  BY <1>8, <1>k, <1>h DEF ReadFails, RateLimitExceeded, Readable, WritePump, PingFails, Closer,
     CloserPost, CloserPosted, CloserClose, CloserDone, Enter, Registered, registryVars,
     transportVars
<1>9. ASSUME NEW c \in Connections,
             \/ ReadPing(c) \/ ReadRevoke(c) \/ ReadCapabilitiesChanged(c)
             \/ \E r \in Requests, code \in ResponseCodes : ReadResponse(c, r, code)
      PROVE  ListingInv'
  <2>1. \/ Touch(BrowserOf[c], c)
        \/ \E caps \in HelloCaps : UpdateCapabilities(BrowserOf[c], c, caps)
    BY <1>9 DEF ReadPing, ReadRevoke, ReadCapabilitiesChanged, ReadResponse
  <2>2. /\ DOMAIN browsers' = DOMAIN browsers
        /\ \A x \in DOMAIN browsers :
               /\ browsers'[x].connected = browsers[x].connected
               /\ browsers'[x].connection = browsers[x].connection
               /\ browsers'[x].connectionId = browsers[x].connectionId
    <3>1. \A x \in DOMAIN browsers : browsers[x] \in Entry
      BY DEF TypeInv, SendInv, RegistryTypeOK
    <3>2. CASE ~Owns(BrowserOf[c], c)
      BY <2>1, <3>2 DEF Touch, UpdateCapabilities
    <3>3. CASE Owns(BrowserOf[c], c) /\ Touch(BrowserOf[c], c)
      BY <3>1, <3>3 DEF Touch, Owns, Entry
    <3>4. ASSUME Owns(BrowserOf[c], c), NEW caps \in HelloCaps,
                 UpdateCapabilities(BrowserOf[c], c, caps)
          PROVE  /\ DOMAIN browsers' = DOMAIN browsers
                 /\ \A x \in DOMAIN browsers :
                      /\ browsers'[x].connected = browsers[x].connected
                      /\ browsers'[x].connection = browsers[x].connection
                      /\ browsers'[x].connectionId = browsers[x].connectionId
      BY <3>1, <3>4 DEF UpdateCapabilities, Owns, Entry
    <3> QED BY <2>1, <3>2, <3>3, <3>4
  <2>3. /\ UNCHANGED replaced
        /\ \A d \in Connections :
             /\ (handler'[d] \in Registered) = (handler[d] \in Registered)
             /\ handler[d] = "replacing" => handler'[d] = "replacing"
    BY <1>9, <1>h DEF ReadPing, ReadRevoke, ReadCapabilitiesChanged, ReadResponse, Readable,
       Enter, Registered, transportVars
  <2> QED BY <1>a, <1>b, <2>2, <2>3, ListingKept
<1>10. CASE AppCloseRouter \/ Shutdown \/ ShutdownDone \/ ShutdownDeadline \/ UNCHANGED vars
  BY <1>10, <1>1 DEF AppCloseRouter, Shutdown, ShutdownDone, ShutdownDeadline, vars,
     registryVars, transportVars
<1> QED
  BY <1>2, <1>3, <1>4, <1>5, <1>6, <1>7, <1>8, <1>9, <1>10 DEF Next, Handler

LEMMA ListingAlways == Spec => []ListingInv
<1>1. Init => ListingInv
  BY DEF Init, RegistryInit, ListingInv, NoGhostBrowser, ListedOrReplaced, Registered
<1> QED BY <1>1, TypeAlways, ListingStep, PTL DEF Spec

\* The registry never offers a connection whose handler has gone.
THEOREM NoGhosts == Spec => []NoGhostBrowser
BY ListingAlways, PTL DEF ListingInv

\* A browser served over an open connection can be routed to, or is being
\* replaced by its own newer connection.
THEOREM LiveBrowsersListed == Spec => []LiveBrowserIsListed
<1>1. ListingInv => LiveBrowserIsListed
  BY DEF ListingInv, ListedOrReplaced, LiveBrowserIsListed, Registered
<1> QED BY <1>1, ListingAlways, PTL

-----------------------------------------------------------------------------
(* Who may complete a request.                                             *)

\* A result appears in a mailbox by a response read on the request's own
\* connection, by the cleanup of that connection, or by Close.
LEMMA CompletionStep ==
    ASSUME TypeInv, [Next]_vars, NEW r \in Requests, mailbox[r] # mailbox'[r]
    PROVE  /\ mailbox'[r] \in ResponseCodes => handler[route[r]] = "serving"
           /\ mailbox'[r] = "BROWSER_DISCONNECTED" => handler[route[r]] = "failing"
<1>a. pending \subseteq Requests /\ mailbox \in [Requests -> Codes]
  BY DEF TypeInv, SendInv, RouterTypeOK
<1>1. ASSUME NEW q \in Requests, RouterSend(q) PROVE FALSE
  BY <1>1 DEF RouterSend, Send, SendStart, SendRoute, SendRefused, SendInsert,
     SendOffer, SendEnqueue, SendWritten, SendFails, SendCleanup, SendReceive, SendExpire,
     SendForget, CancelOffer, CancelEnqueue, CancelDone
<1>2. ASSUME NEW c \in Connections, NEW q \in Requests, NEW code \in ResponseCodes,
             ReadResponse(c, q, code)
      PROVE  mailbox'[r] \in ResponseCodes /\ handler[route[r]] = "serving"
  BY <1>2, <1>a DEF ReadResponse, HandleResponse, Deliver, Readable
<1>3. ASSUME NEW c \in Connections, HandlerFailConnection(c)
      PROVE  mailbox'[r] = "BROWSER_DISCONNECTED" /\ handler[route[r]] = "failing"
  BY <1>3, <1>a DEF HandlerFailConnection, FailConnection, Deliver
<1>4. ASSUME AppCloseRouter PROVE mailbox'[r] = "CANCELLED"
  BY <1>4, <1>a DEF AppCloseRouter, Close, Deliver
<1>5. CASE UNCHANGED routerVars
  BY <1>5 DEF routerVars
<1> QED BY <1>1, <1>2, <1>3, <1>4, <1>5, RouterSteps DEF ResponseCodes

\* A response read on another connection of the browser never completes a
\* request.
THEOREM AnswersAreCorrelated == Spec => AnsweredOnOwnConnection
<1>1. TypeInv /\ [Next]_vars =>
        [\A r \in Requests :
          (mailbox[r] # mailbox'[r] /\ mailbox'[r] \in ResponseCodes) =>
              handler[route[r]] = "serving"]_vars
  BY CompletionStep
<1> QED BY <1>1, TypeAlways, PTL DEF Spec, AnsweredOnOwnConnection

\* The cleanup of one connection never fails the requests of another.
THEOREM FailuresAreTargeted == Spec => FailedByOwnHandler
<1>1. TypeInv /\ [Next]_vars =>
        [\A r \in Requests :
          (mailbox[r] # mailbox'[r] /\ mailbox'[r] = "BROWSER_DISCONNECTED") =>
              handler[route[r]] = "failing"]_vars
  BY CompletionStep
<1> QED BY <1>1, TypeAlways, PTL DEF Spec, FailedByOwnHandler

-----------------------------------------------------------------------------
(* The registry on its own, called by connections that may be stale.       *)

RegistryInv == RegistryTypeOK /\ SnapshotConsistent

LEMMA RegistryInvStep == ASSUME RegistryInv, [RegistryNext]_registryVars PROVE RegistryInv'
<1> USE DEF RegistryInv
<1>1. CASE Tick \/ (\E c \in Connections : RegisterBegin(c)) \/ UNCHANGED registryVars
  BY <1>1, TimeAssumption
  DEF Tick, RegisterBegin, registryVars, RegistryTypeOK, SnapshotConsistent
<1>2. ASSUME NEW b \in Browsers, NEW c \in Connections, NEW caps \in SUBSET Commands,
             NEW name \in Names \cup {Blank}, RegisterCommit(b, c, caps, name)
      PROVE  RegistryInv'
  <2> DEFINE e == NewEntry(b, c, caps, name, stamp[c])
  <2>1. /\ stamp[c] \in 0..MaxTime /\ stamp' = [stamp EXCEPT ![c] = Never] /\ clock' = clock
        /\ browsers' = Put(b, e)
    BY <1>2 DEF RegisterCommit, Register, RegistryTypeOK
  <2>2. e \in Entry
    BY <2>1, NamesAssumption DEF RegistryTypeOK, NewEntry, Entry
  <2>3. e.connected /\ e.connection = c /\ e.connectionId = c /\ e.disconnectedAt = Never
    BY DEF NewEntry
  <2> HIDE DEF e
  <2>4. /\ DOMAIN browsers' = DOMAIN browsers \cup {b} /\ browsers'[b] = e
        /\ \A x \in DOMAIN browsers : x # b => browsers'[x] = browsers[x]
    BY <2>1 DEF Put
  <2>5. RegistryTypeOK'
    BY <2>1, <2>2, <2>4 DEF RegistryTypeOK
  <2>6. SnapshotConsistent'
    BY <2>2, <2>3, <2>4, NoneAssumption DEF SnapshotConsistent, Entry
  <2> QED
    BY <2>5, <2>6
<1>3. ASSUME NEW b \in Browsers, NEW c \in Connections, UNCHANGED <<clock, stamp>>,
             \/ Disconnect(b, c)
             \/ Touch(b, c)
             \/ \E caps \in SUBSET Commands : UpdateCapabilities(b, c, caps)
      PROVE  RegistryInv'
  <2>1. RegistryTypeOK'
    BY <1>3, UpdateType
  <2>2. CASE ~Owns(b, c)
    <3>1. UNCHANGED browsers
      BY <1>3, <2>2 DEF Disconnect, Touch, UpdateCapabilities
    <3> QED
      BY <2>1, <3>1 DEF SnapshotConsistent
  <2>3. CASE Owns(b, c)
    <3>1. b \in DOMAIN browsers /\ browsers[b] \in Entry /\ clock \in Nat
      BY <2>3, TimeAssumption DEF Owns, RegistryTypeOK
    <3>2. /\ DOMAIN browsers' = DOMAIN browsers
          /\ \A x \in DOMAIN browsers : x # b => browsers'[x] = browsers[x]
      BY <1>3, <2>3 DEF Disconnect, Touch, UpdateCapabilities
    <3>3. CASE Disconnect(b, c)
      <4>1. /\ browsers'[b].connected = FALSE /\ browsers'[b].connection = None
            /\ browsers'[b].disconnectedAt = clock
        BY <2>3, <3>1, <3>3 DEF Disconnect, Entry
      <4> QED
        BY <2>1, <3>1, <3>2, <4>1, TimeAssumption DEF SnapshotConsistent
    <3>4. CASE Touch(b, c) \/ \E caps \in SUBSET Commands : UpdateCapabilities(b, c, caps)
      <4>1. /\ browsers'[b].connected = browsers[b].connected
            /\ browsers'[b].connection = browsers[b].connection
            /\ browsers'[b].connectionId = browsers[b].connectionId
            /\ browsers'[b].disconnectedAt = browsers[b].disconnectedAt
        BY <2>3, <3>1, <3>4 DEF Touch, UpdateCapabilities, Entry
      <4> QED
        BY <2>1, <3>2, <4>1 DEF SnapshotConsistent
    <3> QED
      BY <1>3, <3>3, <3>4
  <2> QED
    BY <2>2, <2>3
<1>4. ASSUME NEW b \in Browsers, NEW name \in Names, Rename(b, name), UNCHANGED <<clock, stamp>>
      PROVE  RegistryInv'
  <2>1. b \in DOMAIN browsers /\ browsers[b] \in Entry
    BY <1>4 DEF Rename, RegistryTypeOK
  <2>2. RegistryTypeOK'
    BY <1>4, <2>1 DEF Rename, RegistryTypeOK, Entry
  <2>3. SnapshotConsistent'
    BY <1>4, <2>1 DEF Rename, SnapshotConsistent, Entry
  <2> QED
    BY <2>2, <2>3
<1>5. ASSUME NEW cutoff, PruneDisconnected(cutoff), UNCHANGED <<clock, stamp>>
      PROVE  RegistryInv'
  BY <1>5 DEF PruneDisconnected, RegistryTypeOK, SnapshotConsistent
<1> QED
  BY <1>1, <1>2, <1>3, <1>4, <1>5 DEF RegistryNext

\* SnapshotConsistent, about Register, Disconnect and PruneDisconnected: connected, the
\* connection and DisconnectedAt never disagree about a browser, however many stale
\* connections call and in whatever order concurrent registrations commit.
THEOREM SnapshotsAgree == RegistrySpec => []SnapshotConsistent
<1>1. RegistryInit => RegistryInv
  BY TimeAssumption DEF RegistryInit, RegistryInv, RegistryTypeOK, SnapshotConsistent
<1> QED
  BY <1>1, RegistryInvStep, PTL DEF RegistrySpec, RegistryInv
=============================================================================
