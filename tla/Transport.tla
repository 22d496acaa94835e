----------------------------- MODULE Transport ------------------------------
(***************************************************************************)
(* internal/transport/websocket composed with the registry, the router     *)
(* and the application's shutdown (internal/app): one ServeHTTP handler    *)
(* goroutine per accepted connection, Server.Shutdown with its per-        *)
(* connection closers, and the browser extension at the other end of each  *)
(* socket.                                                                 *)
(*                                                                         *)
(* The extension is external here: it answers a request that was written   *)
(* to it at most once, after any delay or never, over any connection of    *)
(* its own that is still being read -- the service worker answers on its   *)
(* current socket, which need not be the one that carried the request.     *)
(* Pairing decides Authorize and Revoke; both outcomes are possible here.  *)
(*                                                                         *)
(* A handler or closer that sends a control message tests done and         *)
(* enqueues in one step: done raised between the two ends like done raised *)
(* just after, with an error.  Requests rejected before the upgrade (path, *)
(* host, origin) create no state and are left out.                         *)
(***************************************************************************)
EXTENDS Router

CONSTANTS
    BrowserOf,     \* the browserId in the hello of each connection
    HelloCaps,     \* the capability sets a browser may advertise
    Inputs,        \* what browsers send besides hello and responses
    MayShutDown    \* whether the server is asked to stop

ASSUME BrowserAssumption == /\ BrowserOf \in [Connections -> Browsers]
                            /\ HelloCaps \subseteq SUBSET Commands
                            /\ HelloCaps # {}
ASSUME InputsAssumption == /\ Inputs \subseteq {"denied", "ping", "capabilities",
                                               "revoke", "flood"}
                           /\ MayShutDown \in BOOLEAN

VARIABLES
    handler,       \* control point of each connection's ServeHTTP
    replaced,      \* the connection Register told this handler to close
    tracked,       \* Server.connections, and the count of Server.handlers
    closer,        \* control point of Shutdown's goroutine for a connection
    app,           \* control point of app.run's shutdown sequence
    answered       \* requests the extensions have answered

transportVars == <<handler, replaced, tracked, closer, app, answered>>
vars == <<registryVars, connectionVars, routerVars, transportVars>>

HandlerStates == {"idle", "hello", "denying", "authorized", "replacing",
                  "awaitReplaced", "tracking", "rejecting", "welcoming",
                  "serving", "ponging", "revoked", "revokeFailed",
                  "limited", "untracking", "disconnecting", "failing",
                  "closing", "awaitPump", "finished"}
CloserStates == {"none", "notifying", "closing", "waiting", "closed"}
AppStates == {"running", "draining", "closing", "stopped"}

Init == /\ RegistryInit
        /\ ConnectionInit
        /\ RouterInit
        /\ handler = [c \in Connections |-> "idle"]
        /\ replaced = [c \in Connections |-> None]
        /\ tracked = {}
        /\ closer = [c \in Connections |-> "none"]
        /\ app = "running"
        /\ answered = {}

\* Server.shuttingDown, set by the first step of Server.Shutdown.
isShuttingDown == app \in {"closing", "stopped"}

\* CloseWithCode returns, and reads of the socket fail, once the pump is gone.
PumpDone(c) == pump[c] = "stopped"

Enter(c, state) == handler' = [handler EXCEPT ![c] = state]

-----------------------------------------------------------------------------
(* The handshake.                                                          *)

Accept(c) ==
    /\ handler[c] = "idle"
    /\ ~isShuttingDown
    /\ Start(c)
    /\ Enter(c, "hello")
    /\ UNCHANGED <<registryVars, routerVars>>
    /\ UNCHANGED <<replaced, tracked, closer, app, answered>>

\* The hello is late, unreadable or invalid: the handler just returns.
HelloFails(c) ==
    /\ handler[c] = "hello"
    /\ Enter(c, "closing")
    /\ UNCHANGED <<registryVars, connectionVars, routerVars>>
    /\ UNCHANGED <<replaced, tracked, closer, app, answered>>

\* An incognito context is refused, or Authorize fails.
HelloDenied(c) ==
    /\ "denied" \in Inputs
    /\ handler[c] = "hello"
    /\ ~PumpDone(c)
    /\ Enter(c, "denying")
    /\ UNCHANGED <<registryVars, connectionVars, routerVars>>
    /\ UNCHANGED <<replaced, tracked, closer, app, answered>>

HelloAuthorized(c) ==
    /\ handler[c] = "hello"
    /\ ~PumpDone(c)
    /\ Enter(c, "authorized")
    /\ UNCHANGED <<registryVars, connectionVars, routerVars>>
    /\ UNCHANGED <<replaced, tracked, closer, app, answered>>

\* From here on the router may choose c, before any welcome is sent.
HandlerRegister(c) ==
    /\ handler[c] = "authorized"
    /\ \E caps \in HelloCaps : Register(BrowserOf[c], c, caps, Blank, clock)
    /\ replaced' = [replaced EXCEPT ![c] = Replaced(BrowserOf[c])]
    /\ Enter(c, IF Replaced(BrowserOf[c]) = None THEN "tracking" ELSE "replacing")
    /\ UNCHANGED <<clock, stamp, connectionVars, routerVars>>
    /\ UNCHANGED <<tracked, closer, app, answered>>

\* Fault: the replaced connection is waited for and not closed.
CloseReplacedWaits(c) ==
    /\ handler[c] = "replacing"
    /\ Enter(c, "awaitReplaced")
    /\ UNCHANGED <<registryVars, connectionVars, routerVars>>
    /\ UNCHANGED <<replaced, tracked, closer, app, answered>>

CloseReplaced(c) ==
    /\ handler[c] = "replacing"
    /\ SignalDone(replaced[c])
    /\ Enter(c, "awaitReplaced")
    /\ UNCHANGED <<registryVars, routerVars>>
    /\ UNCHANGED <<replaced, tracked, closer, app, answered>>

ReplacedClosed(c) ==
    /\ handler[c] = "awaitReplaced"
    /\ PumpDone(replaced[c])
    /\ Enter(c, "tracking")
    /\ UNCHANGED <<registryVars, connectionVars, routerVars>>
    /\ UNCHANGED <<replaced, tracked, closer, app, answered>>

\* Fault: shuttingDown is not tested under the lock.
trackAlways(c) ==
    /\ handler[c] = "tracking"
    /\ Enter(c, "welcoming")
    /\ tracked' = tracked \cup {c}
    /\ UNCHANGED <<registryVars, connectionVars, routerVars>>
    /\ UNCHANGED <<replaced, closer, app, answered>>

trackConnection(c) ==
    /\ handler[c] = "tracking"
    /\ \/ /\ isShuttingDown
          /\ Enter(c, "rejecting")
          /\ UNCHANGED tracked
       \/ /\ ~isShuttingDown
          /\ Enter(c, "welcoming")
          /\ tracked' = tracked \cup {c}
    /\ UNCHANGED <<registryVars, connectionVars, routerVars>>
    /\ UNCHANGED <<replaced, closer, app, answered>>

\* The early return taken when the server is shutting down: the registry
\* learns of it, the router does not.
RejectTracking(c) ==
    /\ handler[c] = "rejecting"
    /\ Disconnect(BrowserOf[c], c)
    /\ Enter(c, "closing")
    /\ UNCHANGED <<clock, stamp, connectionVars, routerVars>>
    /\ UNCHANGED <<replaced, tracked, closer, app, answered>>

-----------------------------------------------------------------------------
(* Control messages of the handler.                                        *)

ControlKind == [s \in {"denying", "welcoming", "ponging", "revoked", "revokeFailed"} |->
                  CASE s = "denying"   -> "auth_error"
                    [] s = "welcoming" -> "welcome"
                    [] s = "ponging"   -> "pong"
                    [] OTHER           -> "revoke"]

Sending(c) == handler[c] \in DOMAIN ControlKind

OwnMsg(c) == ControlMsg(ControlKind[handler[c]], c)

Posted(c, m) == result[m] # "none" \/ \E i \in 1..Len(queue[c]) : queue[c][i] = m

\* Where the handler goes on once the message is written, and when it is not.
AfterSend(s) == CASE s \in {"welcoming", "ponging", "revokeFailed"} -> "serving"
                  [] s = "revoked" -> "untracking"
                  [] s = "denying" -> "closing"
AfterSendError(s) == IF s = "denying" THEN "closing" ELSE "untracking"

HandlerPost(c) ==
    /\ Sending(c)
    /\ ~Posted(c, OwnMsg(c))
    /\ \/ /\ Accepts(c)
          /\ Enqueue(c, OwnMsg(c))
          /\ UNCHANGED handler
       \/ /\ ~Accepts(c) \/ Full(c)
          /\ Enter(c, AfterSendError(handler[c]))
          /\ UNCHANGED connectionVars
    /\ UNCHANGED <<registryVars, routerVars>>
    /\ UNCHANGED <<replaced, tracked, closer, app, answered>>

HandlerPosted(c) ==
    /\ Sending(c)
    /\ Posted(c, OwnMsg(c))
    /\ \/ Written(OwnMsg(c)) /\ Enter(c, AfterSend(handler[c]))
       \/ /\ WriteFailed(OwnMsg(c)) \/ ~Accepts(c)
          /\ Enter(c, AfterSendError(handler[c]))
    /\ UNCHANGED <<registryVars, connectionVars, routerVars>>
    /\ UNCHANGED <<replaced, tracked, closer, app, answered>>

-----------------------------------------------------------------------------
(* The read loop.                                                          *)

\* A message can be read while the handler is at the read and the socket open.
Readable(c) == handler[c] = "serving" /\ ~PumpDone(c)

\* A read error: the browser left, the read deadline passed, the frame is too
\* large, or this side closed the socket.
ReadFails(c) ==
    /\ handler[c] = "serving"
    /\ Enter(c, "untracking")
    /\ UNCHANGED <<registryVars, connectionVars, routerVars>>
    /\ UNCHANGED <<replaced, tracked, closer, app, answered>>

RateLimitExceeded(c) ==
    /\ "flood" \in Inputs
    /\ Readable(c)
    /\ SignalDone(c)
    /\ Enter(c, "limited")
    /\ UNCHANGED <<registryVars, routerVars>>
    /\ UNCHANGED <<replaced, tracked, closer, app, answered>>

LimitedClosed(c) ==
    /\ handler[c] = "limited"
    /\ PumpDone(c)
    /\ Enter(c, "untracking")
    /\ UNCHANGED <<registryVars, connectionVars, routerVars>>
    /\ UNCHANGED <<replaced, tracked, closer, app, answered>>

ReadResponse(c, r, code) ==
    /\ Readable(c)
    /\ Written(RequestMsg(r)) /\ r \notin answered
    /\ TargetOf[r] = BrowserOf[c]
    /\ Touch(BrowserOf[c], c)
    /\ HandleResponse(BrowserOf[c], c, r, code)
    /\ answered' = answered \cup {r}
    /\ UNCHANGED <<clock, stamp, connectionVars>>
    /\ UNCHANGED <<handler, replaced, tracked, closer, app>>

\* One ping and one revoke are answered per connection (bound).
ReadPing(c) ==
    /\ "ping" \in Inputs
    /\ Readable(c)
    /\ result[ControlMsg("pong", c)] = "none"
    /\ Touch(BrowserOf[c], c)
    /\ Enter(c, "ponging")
    /\ UNCHANGED <<clock, stamp, connectionVars, routerVars>>
    /\ UNCHANGED <<replaced, tracked, closer, app, answered>>

ReadCapabilitiesChanged(c) ==
    /\ "capabilities" \in Inputs
    /\ Readable(c)
    /\ \E caps \in HelloCaps : UpdateCapabilities(BrowserOf[c], c, caps)
    /\ UNCHANGED <<clock, stamp, connectionVars, routerVars, transportVars>>

ReadRevoke(c) ==
    /\ "revoke" \in Inputs
    /\ Readable(c)
    /\ result[ControlMsg("revoke", c)] = "none"
    /\ Touch(BrowserOf[c], c)
    /\ \E s \in {"revoked", "revokeFailed"} : Enter(c, s)
    /\ UNCHANGED <<clock, stamp, connectionVars, routerVars>>
    /\ UNCHANGED <<replaced, tracked, closer, app, answered>>

-----------------------------------------------------------------------------
(* The deferred cleanup, in the order the defers run.                      *)

\* Fault: handlers.Done is not called.
untrackLeaks(c) ==
    /\ handler[c] = "untracking"
    /\ Enter(c, "disconnecting")
    /\ UNCHANGED <<registryVars, connectionVars, routerVars>>
    /\ UNCHANGED <<replaced, tracked, closer, app, answered>>

untrackConnection(c) ==
    /\ handler[c] = "untracking"
    /\ tracked' = tracked \ {c}
    /\ Enter(c, "disconnecting")
    /\ UNCHANGED <<registryVars, connectionVars, routerVars>>
    /\ UNCHANGED <<replaced, closer, app, answered>>

\* Fault: the cleanup does not tell the registry.
HandlerSkipsDisconnect(c) ==
    /\ handler[c] = "disconnecting"
    /\ Enter(c, "failing")
    /\ UNCHANGED <<registryVars, connectionVars, routerVars>>
    /\ UNCHANGED <<replaced, tracked, closer, app, answered>>

HandlerDisconnect(c) ==
    /\ handler[c] = "disconnecting"
    /\ Disconnect(BrowserOf[c], c)
    /\ Enter(c, "failing")
    /\ UNCHANGED <<clock, stamp, connectionVars, routerVars>>
    /\ UNCHANGED <<replaced, tracked, closer, app, answered>>

HandlerFailConnection(c) ==
    /\ handler[c] = "failing"
    /\ FailConnection(BrowserOf[c], c)
    /\ Enter(c, "closing")
    /\ UNCHANGED <<registryVars, connectionVars>>
    /\ UNCHANGED <<replaced, tracked, closer, app, answered>>

HandlerClose(c) ==
    /\ handler[c] = "closing"
    /\ SignalDone(c)
    /\ Enter(c, "awaitPump")
    /\ UNCHANGED <<registryVars, routerVars>>
    /\ UNCHANGED <<replaced, tracked, closer, app, answered>>

HandlerFinish(c) ==
    /\ handler[c] = "awaitPump"
    /\ PumpDone(c)
    /\ Enter(c, "finished")
    /\ UNCHANGED <<registryVars, connectionVars, routerVars>>
    /\ UNCHANGED <<replaced, tracked, closer, app, answered>>

-----------------------------------------------------------------------------
(* Shutdown: app.run closes the router first, then the transport.          *)

AppCloseRouter ==
    /\ MayShutDown
    /\ app = "running"
    /\ Close
    /\ app' = "draining"
    /\ UNCHANGED <<registryVars, connectionVars>>
    /\ UNCHANGED <<handler, replaced, tracked, closer, answered>>

\* Server.Shutdown sets shuttingDown and copies the tracked connections.
Shutdown ==
    /\ app = "draining"
    /\ app' = "closing"
    /\ closer' = [c \in Connections |->
                     IF c \in tracked THEN "notifying" ELSE "none"]
    /\ UNCHANGED <<registryVars, connectionVars, routerVars>>
    /\ UNCHANGED <<handler, replaced, tracked, answered>>

Step(c, state) == closer' = [closer EXCEPT ![c] = state]

CloserPost(c) ==
    /\ closer[c] = "notifying"
    /\ ~Posted(c, ControlMsg("event", c))
    /\ \/ Accepts(c) /\ Enqueue(c, ControlMsg("event", c)) /\ UNCHANGED closer
       \/ /\ ~Accepts(c) \/ Full(c)
          /\ Step(c, "closing")
          /\ UNCHANGED connectionVars
    /\ UNCHANGED <<registryVars, routerVars>>
    /\ UNCHANGED <<handler, replaced, tracked, app, answered>>

CloserPosted(c) ==
    /\ closer[c] = "notifying"
    /\ Posted(c, ControlMsg("event", c))
    /\ result[ControlMsg("event", c)] # "none" \/ ~Accepts(c)
    /\ Step(c, "closing")
    /\ UNCHANGED <<registryVars, connectionVars, routerVars>>
    /\ UNCHANGED <<handler, replaced, tracked, app, answered>>

CloserClose(c) ==
    /\ closer[c] = "closing"
    /\ SignalDone(c)
    /\ Step(c, "waiting")
    /\ UNCHANGED <<registryVars, routerVars>>
    /\ UNCHANGED <<handler, replaced, tracked, app, answered>>

CloserDone(c) ==
    /\ closer[c] = "waiting"
    /\ PumpDone(c)
    /\ Step(c, "closed")
    /\ UNCHANGED <<registryVars, connectionVars, routerVars>>
    /\ UNCHANGED <<handler, replaced, tracked, app, answered>>

\* Every closer and every tracked handler is done.
ShutdownDone ==
    /\ app = "closing"
    /\ \A c \in Connections : closer[c] \in {"none", "closed"}
    /\ tracked = {}
    /\ app' = "stopped"
    /\ UNCHANGED <<registryVars, connectionVars, routerVars>>
    /\ UNCHANGED <<handler, replaced, tracked, closer, answered>>

\* The shutdown deadline passes first: abort every copied connection.
ShutdownDeadline ==
    /\ app = "closing"
    /\ app' = "stopped"
    /\ done' = [c \in Connections |-> done[c] \/ closer[c] # "none"]
    /\ UNCHANGED <<pump, queue, result>>
    /\ UNCHANGED <<registryVars, routerVars>>
    /\ UNCHANGED <<handler, replaced, tracked, closer, answered>>

-----------------------------------------------------------------------------
RouterSend(r) == Send(r) /\ UNCHANGED transportVars
WritePump(c) == Pump(c) /\ UNCHANGED <<registryVars, routerVars, transportVars>>
PingFails(c) == PumpPingFails(c) /\ UNCHANGED <<registryVars, routerVars, transportVars>>

\* What a handler does without waiting for its browser.
Handler(c) ==
    \/ HandlerRegister(c)   \/ CloseReplaced(c)      \/ ReplacedClosed(c)
    \/ trackConnection(c)   \/ RejectTracking(c)     \/ HandlerPost(c)
    \/ HandlerPosted(c)     \/ LimitedClosed(c)      \/ untrackConnection(c)
    \/ HandlerDisconnect(c) \/ HandlerFailConnection(c)
    \/ HandlerClose(c)      \/ HandlerFinish(c)

Hello(c) == HelloFails(c) \/ HelloDenied(c) \/ HelloAuthorized(c)

Closer(c) == CloserPost(c) \/ CloserPosted(c) \/ CloserClose(c) \/ CloserDone(c)

Next ==
    \/ \E r \in Requests : RouterSend(r)
    \/ \E c \in Connections :
          \/ Accept(c)
          \/ Hello(c)
          \/ Handler(c)
          \/ ReadFails(c)
          \/ RateLimitExceeded(c)
          \/ \E r \in Requests, code \in ResponseCodes : ReadResponse(c, r, code)
          \/ ReadPing(c)
          \/ ReadCapabilitiesChanged(c)
          \/ ReadRevoke(c)
          \/ WritePump(c)
          \/ PingFails(c)
          \/ Closer(c)
    \/ AppCloseRouter
    \/ Shutdown
    \/ ShutdownDone
    \/ ShutdownDeadline

Spec == Init /\ [][Next]_vars

\* Goroutines that can run do run, and waits with a deadline end: a Send call
\* has a context deadline, a hello a read deadline, a write a write deadline,
\* and a read of a closed socket fails.  Nothing is assumed of the browser,
\* of the caller, or of the shutdown deadline.
Fairness ==
    /\ \A r \in Requests : WF_vars(pc[r] # "idle" /\ RouterSend(r))
    /\ \A c \in Connections : /\ WF_vars(Hello(c))
                              /\ WF_vars(Handler(c))
                              /\ WF_vars(WritePump(c))
                              /\ WF_vars(ReadFails(c) /\ PumpDone(c))
                              /\ WF_vars(Closer(c))
    /\ WF_vars(Shutdown)
    /\ WF_vars(ShutdownDone)

FairSpec == Spec /\ Fairness

-----------------------------------------------------------------------------

\* Every field and every control point has its type.
TypeOK == /\ RegistryTypeOK
          /\ ConnectionTypeOK
          /\ RouterTypeOK
          /\ handler \in [Connections -> HandlerStates]
          /\ replaced \in [Connections -> Connections \cup {None}]
          /\ tracked \subseteq Connections
          /\ closer \in [Connections -> CloserStates]
          /\ app \in AppStates
          /\ answered \subseteq Requests

\* Send is between the insertion into the pending map and its removal.
InFlight == {"inserted", "offering", "queued", "waiting", "failed", "expired"}

\* router.go:161-204: no request stays in the pending map once its Send call
\* has returned or moved on to cancelling, whichever of the sender, the
\* response, the disconnect and the shutdown came first.
NoLeakedPending == \A r \in pending : pc[r] \in InFlight

\* router.go:222-225, 253, 285: the result channel has one slot and the push
\* is a blocking send, so a pending request must never have a result already:
\* the read loop or the shutdown would hang on the second push.
NoBlockedDelivery == \A r \in pending : mailbox[r] = ""

\* router.go:125-161 and 259-288: after Close no Send call is in the pending
\* map, also when it passed the first test of closed before Close ran.
ClosedRouterIsEmpty == closed => pending = {}

\* server.go:349-353 and registry.go:135-150: while the registry offers
\* connection c for a browser, the handler of c is alive and has its own
\* Disconnect still ahead, so the entry cannot stay behind after it is gone.
Registered == {"replacing", "awaitReplaced", "tracking", "rejecting", "welcoming",
               "serving", "ponging", "revoked", "revokeFailed", "limited",
               "untracking", "disconnecting"}
NoGhostBrowser ==
    \A b \in DOMAIN browsers :
        browsers[b].connected =>
            /\ browsers[b].connection = browsers[b].connectionId
            /\ handler[browsers[b].connectionId] \in Registered
            /\ BrowserOf[browsers[b].connectionId] = b

\* server.go:309-338: a browser being served over an open connection is the
\* one the registry routes to, unless a newer connection of the same browser
\* has taken its place and is about to close it.  The cleanup of an old
\* connection must not unlist the new one.
LiveBrowserIsListed ==
    \A c \in Connections :
        (handler[c] \in {"welcoming", "serving"} /\ ~done[c]) =>
            \/ Owns(BrowserOf[c], c)
            \/ \E d \in Connections : handler[d] = "replacing" /\ replaced[d] = c

\* server.go:549-558 and 500-541: when Server.Shutdown has returned, nobody
\* goes on serving an open connection: a handler is either in the copy that
\* Shutdown closes or finds shuttingDown set when it wants to be tracked.
NothingServedAfterShutdown ==
    app = "stopped" => \A c \in tracked : done[c]

\* server.go:339-342 and app.go:273: the early return of a handler rejected by
\* the shutdown does not fail the requests routed to its connection; none can
\* exist, because app.run closes the router before it shuts the transport down.
RejectedHasNoPending ==
    \A r \in pending : handler[route[r]] # "rejecting"

\* router.go:208-227: a response completes a request only while the handler of
\* the very connection that carried the request is serving it; a late answer
\* read on a newer connection of the same browser never does.
AnsweredOnOwnConnection ==
    [][\A r \in Requests :
          (mailbox[r] # mailbox'[r] /\ mailbox'[r] \in ResponseCodes) =>
              handler[route[r]] = "serving"]_vars

\* router.go:230-255: a request fails with BROWSER_DISCONNECTED through the
\* pending map only by the cleanup of the connection it was sent on; the
\* cleanup of an older connection leaves the requests of the newer one alone.
FailedByOwnHandler ==
    [][\A r \in Requests :
          (mailbox[r] # mailbox'[r] /\ mailbox'[r] = "BROWSER_DISCONNECTED") =>
              handler[route[r]] = "failing"]_vars

\* router.go:136, 164-203: every Send call returns: the context has a deadline
\* even when the browser never answers, the queue is stuck or nobody fails the
\* connection, and sendCancel has a deadline of its own.
SendReturns == \A r \in Requests : (pc[r] = "routing") ~> (pc[r] = "returned")

\* server.go:326-338: a handler that waits for the pump of the connection it
\* replaced gets on; the two handlers never wait for each other.
ReplacementCompletes ==
    \A c \in Connections :
        (handler[c] = "replacing") ~> (handler[c] \notin {"replacing", "awaitReplaced"})

\* server.go:496-541: the transport shutdown ends by itself, without the
\* shutdown deadline and whatever the browsers do.
ShutdownCompletes == (app = "draining") ~> (app = "stopped")

-----------------------------------------------------------------------------
(* What documents say of the code, and the code does not do.               *)

=============================================================================
