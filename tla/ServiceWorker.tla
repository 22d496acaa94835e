---- MODULE ServiceWorker ----
(***************************************************************************)
(* The extension's service worker: its side of the connection to the       *)
(* server and the commands of its popup and options page                   *)
(* (src/chrome-extension/src/service-worker.js).                           *)
(*                                                                         *)
(* JavaScript runs one function at a time up to its next await, so a call  *)
(* is a task: the list of the segments it has still to run.  Segments of   *)
(* different tasks interleave freely; storage and alarm calls take effect  *)
(* when they are issued.  Left out as data: names, latencies, back-off     *)
(* delays, and the status that is only displayed.                          *)
(***************************************************************************)
EXTENDS Naturals, Sequences, FiniteSets

CONSTANTS
    Sockets,    \* identities of WebSocket objects, reused once collected
    Callers,    \* UI pages that may have a command in flight
    ConnectCallers, \* calls of connect() by timer, alarm and startup in flight
    Workloads,  \* bounds: what may happen, a choice of (see Workload)
    MaxInbox    \* bound: server messages waiting in one socket's chain

None == "none"

VARIABLES
    running,    \* the worker is loaded
    socket,       \* the current WebSocket
    connectionId, \* connectionId is not empty: the server has given one
    ready,      \* readyState of each WebSocket
    timer,      \* reconnectTimer is set
    timers,     \* reconnection timers armed and neither fired nor cleared
    keepalive,  \* keepaliveTimer is set
    code,       \* pendingPairingCode is not empty
    blocked,    \* authenticationBlocked
    revocation, \* pendingRevocation: the task it belongs to, or none
    timeouts,   \* tasks whose revocation timeout is armed
    auto,       \* stored settings.autoConnect
    cred,       \* a credential is stored
    alarm,      \* the reconnection alarm is set
    run,        \* what each task has still to do
    inbox,      \* messages of a socket that its chain has not begun
    server,     \* the server's side of each connection
    revoke,     \* connections over which a revocation was asked for
    valid,      \* the server accepts a credential of this browser
    offer,      \* the server accepts the code typed last: each is good for once
    load        \* what the workload has left

net == <<ready, inbox, server, revoke>>
trust == <<valid, offer>>
store == <<auto, cred, alarm>>
link == <<socket, connectionId, keepalive>>
retry == <<timer, timers>>
revoking == <<revocation, timeouts>>
vars == <<running, link, retry, code, blocked, revoking, store, run, net,
          trust, load>>

\* The sockets and the calls of connect() that are used, the UI commands that two
\* pages at most may issue and of which kinds, and how often the worker is stopped
\* while it is not idle.
Workload(sockets, calls, kinds, commands, kills) ==
    [sockets |-> sockets, calls |-> calls, kinds |-> kinds, commands |-> commands, kills |-> kills]

----------------------------------------------------------------------------
(* Tasks and segments.                                                     *)

UITask(c) == <<"ui", c>>
HelloTask(s) == <<"hello", s>>
ChainTask(s) == <<"chain", s>>
CloseTask(s) == <<"close", s>>
ConnectTask(w) == <<"connect", w>>

Tasks == {UITask(c) : c \in Callers}
         \cup UNION {{HelloTask(s), ChainTask(s), CloseTask(s)} : s \in Sockets}
         \cup {ConnectTask(w) : w \in ConnectCallers}

Seg(name) == [do |-> name]

\* The segments of connect() and of disconnect(); awaits between which a call
\* only reads are one.  The caller that blocks authentication does so in the
\* segment that calls disconnect().
Connect == <<Seg("connect"), Seg("connectDecide"), Seg("connectOpen")>>
DropThen(blocks) == <<[do |-> "drop", blocks |-> blocks], Seg("clearAlarm")>>
Disconnect == DropThen(FALSE)

\* The segments of the UI commands of handleRuntimeMessage.
UIKinds == {"SAVE_SETTINGS", "CONNECT", "DISCONNECT", "PAIR", "REVOKE_PAIRING", "RESET_IDENTITY"}
Program(kind, on) ==
    CASE kind = "SAVE_SETTINGS" ->
            <<[do |-> "setAuto", on |-> on]>> \o Disconnect
            \o (IF on THEN Connect ELSE <<>>)
      [] kind = "CONNECT" -> <<[do |-> "setAuto", on |-> TRUE]>> \o Connect
      [] kind = "DISCONNECT" -> <<[do |-> "setAuto", on |-> FALSE]>> \o Disconnect
      [] kind = "PAIR" -> <<[do |-> "setAuto", on |-> TRUE]>> \o Disconnect \o Connect
      [] kind = "REVOKE_PAIRING" ->
            <<Seg("revokeCheck"), Seg("revokeSend"), Seg("revokeWait")>> \o DropThen(TRUE)
      [] kind = "RESET_IDENTITY" -> Disconnect \o <<Seg("block"), Seg("forget")>>

Idle(t) == run[t] = <<>>
At(t, name) == run[t] # <<>> /\ Head(run[t]).do = name
Rest(t) == [run EXCEPT ![t] = Tail(@)]
Go(t, segs) == [run EXCEPT ![t] = segs \o Tail(@)]
Stop(t) == [run EXCEPT ![t] = <<>>]

Live(s) == s # None /\ ready[s] \in {"connecting", "open"}
Open(s) == s # None /\ ready[s] = "open"

\* A WebSocket nothing refers to any more.
Collected(s) == /\ ready[s] = "closed"
                /\ socket # s /\ inbox[s] = <<>>
                /\ Idle(HelloTask(s)) /\ Idle(ChainTask(s)) /\ Idle(CloseTask(s))

----------------------------------------------------------------------------
(* Sending.  The server drops a connection whose first message is not a    *)
(* hello; a hello says whether it carries a credential, a code or neither. *)

Sent(s, kind, proof) ==
    /\ server' = [server EXCEPT ![s] = IF @ # "new" THEN @
                                       ELSE IF kind = "hello" THEN proof ELSE "refused"]
    /\ revoke' = IF kind = "revoke" /\ server[s] = "live" THEN revoke \cup {s} ELSE revoke
    /\ UNCHANGED <<ready, inbox>>

\* sendMessage: over the current socket, whichever that is by now.
SendMessage(kind) == IF Open(socket) THEN Sent(socket, kind, "none") ELSE UNCHANGED net

----------------------------------------------------------------------------
(* connect() and what opens the socket and says hello.                     *)

ConnectCheck(t) ==
    /\ At(t, "connect")
    /\ run' = IF Live(socket) THEN Stop(t) ELSE Rest(t)
    /\ UNCHANGED <<running, link, retry, code, blocked, revoking, store, net, trust, load>>

\* The settings were awaited; the socket is not looked at again.
ConnectDecide(t) ==
    /\ At(t, "connectDecide")
    /\ IF auto /\ ~blocked
       THEN /\ run' = Rest(t)
            /\ timer' = FALSE
            /\ timers' = IF timer THEN timers - 1 ELSE timers
       ELSE run' = Stop(t) /\ UNCHANGED retry
    /\ UNCHANGED <<running, link, code, blocked, revoking, store, net, trust, load>>

\* new WebSocket: the status update was awaited and nothing is checked again.
ConnectOpen(t) ==
    /\ At(t, "connectOpen")
    /\ \E x \in load.sockets : Collected(x)
    /\ LET s == CHOOSE x \in load.sockets : Collected(x) IN
          /\ socket' = s
          /\ ready' = [ready EXCEPT ![s] = "connecting"]
          /\ server' = [server EXCEPT ![s] = "new"]
    /\ run' = Rest(t)
    /\ UNCHANGED <<running, connectionId, keepalive, retry, code, blocked, revoking,
                   store, inbox, revoke, trust, load>>

\* The "open" event calls sendHello, which first awaits identity and settings.
SocketOpens(s) ==
    /\ ready[s] = "connecting"
    /\ ready' = [ready EXCEPT ![s] = "open"]
    /\ run' = [run EXCEPT ![HelloTask(s)] = <<Seg("hello")>>]
    /\ UNCHANGED <<running, link, retry, code, blocked, revoking, store, inbox,
                   server, revoke, trust, load>>

\* The hello carries the credential, or else the pending pairing code; send()
\* discards it when the socket is closing or closed.
HelloSend(s) ==
    /\ At(HelloTask(s), "hello")
    /\ IF Open(s) THEN Sent(s, "hello", IF cred THEN "credential" ELSE IF code THEN "code" ELSE "bare")
       ELSE UNCHANGED net
    /\ run' = Rest(HelloTask(s))
    /\ UNCHANGED <<running, link, retry, code, blocked, revoking, store, trust, load>>

----------------------------------------------------------------------------
(* disconnect(), the "close" event and reconnection.                       *)

Closing(s) == IF Live(s) THEN [ready EXCEPT ![s] = "closing"] ELSE ready

\* disconnect(), after what its caller sets: the timers, the variables, the socket.
Drop(t) ==
    /\ At(t, "drop")
    /\ timer' = FALSE
    /\ timers' = IF timer THEN timers - 1 ELSE timers
    /\ keepalive' = FALSE
    /\ socket' = None
    /\ connectionId' = FALSE
    /\ ready' = Closing(socket)
    /\ blocked' = (blocked \/ Head(run[t]).blocks)
    /\ code' = (code /\ ~Head(run[t]).blocks)
    /\ run' = Rest(t)
    /\ UNCHANGED <<running, revoking, store, inbox, server, revoke, trust, load>>

\* The rest of disconnect(), after detachAll.
ClearAlarm(t) ==
    /\ At(t, "clearAlarm")
    /\ alarm' = FALSE
    /\ run' = Rest(t)
    /\ UNCHANGED <<running, link, retry, code, blocked, revoking, auto, cred, net, trust, load>>

\* The connection ends: an attempt fails, either side's close completes, or
\* the network drops it.
SocketCloses(s) ==
    /\ ready[s] \in {"connecting", "open", "closing"}
    /\ ready' = [ready EXCEPT ![s] = "closed"]
    /\ server' = [server EXCEPT ![s] = "gone"]
    /\ revoke' = revoke \ {s}
    /\ run' = [run EXCEPT ![CloseTask(s)] = <<Seg("closed")>>]
    /\ UNCHANGED <<running, link, retry, code, blocked, revoking, store, inbox,
                   trust, load>>

\* handleSocketClose, once the socket's messages have been handled.
Closed(s) ==
    /\ At(CloseTask(s), "closed")
    /\ Idle(ChainTask(s)) /\ inbox[s] = <<>>
    /\ IF socket # s
       THEN /\ run' = Stop(CloseTask(s))
            /\ UNCHANGED link
       ELSE /\ run' = Go(CloseTask(s), <<Seg("rejectRevocation")>>)
            /\ socket' = None /\ connectionId' = FALSE /\ keepalive' = FALSE
    /\ UNCHANGED <<running, retry, code, blocked, revoking, store, net, trust, load>>

\* Fault: the timeout of the rejected revocation is left armed.
RejectKeepsTimeout(s) ==
    /\ At(CloseTask(s), "rejectRevocation")
    /\ revocation' = None
    /\ run' = [t \in Tasks |-> IF t = CloseTask(s)
                              THEN IF blocked THEN <<>> ELSE <<Seg("schedule")>>
                              ELSE IF t = UITask(revocation) THEN <<>> ELSE run[t]]
    /\ UNCHANGED <<running, link, retry, code, blocked, timeouts, store, net, trust, load>>

\* The rest of handleSocketClose, after detachAll: the pending revocation is
\* rejected and its timeout cleared.
RejectRevocation(s) ==
    /\ At(CloseTask(s), "rejectRevocation")
    /\ revocation' = None
    /\ timeouts' = timeouts \ {revocation}
    /\ run' = [t \in Tasks |-> IF t = CloseTask(s)
                              THEN IF blocked THEN <<>> ELSE <<Seg("schedule")>>
                              ELSE IF t = UITask(revocation) THEN <<>> ELSE run[t]]
    /\ UNCHANGED <<running, link, retry, code, blocked, store, net, trust, load>>

\* Fault: reconnectTimer is not tested.
ScheduleTwice(s) == ~auto \/ blocked

\* scheduleReconnect: the timer for this worker, the alarm for the next one.
ScheduleSkips(s) == ~auto \/ timer \/ blocked

\* Fault: the alarm is not created.
ScheduleTimerOnly(s) ==
    /\ At(CloseTask(s), "schedule")
    /\ IF ScheduleSkips(s) THEN UNCHANGED retry
       ELSE timer' = TRUE /\ timers' = timers + 1
    /\ run' = Rest(CloseTask(s))
    /\ UNCHANGED <<running, link, code, blocked, revoking, store, net, trust, load>>

Schedule(s) ==
    /\ At(CloseTask(s), "schedule")
    /\ IF ScheduleSkips(s) THEN UNCHANGED <<retry, alarm>>
       ELSE timer' = TRUE /\ timers' = timers + 1 /\ alarm' = TRUE
    /\ run' = Rest(CloseTask(s))
    /\ UNCHANGED <<running, link, code, blocked, revoking, auto, cred, net, trust, load>>

FreeCalls == {w \in load.calls : Idle(ConnectTask(w))}
Calling == LET w == CHOOSE w \in FreeCalls : TRUE IN [run EXCEPT ![ConnectTask(w)] = Connect]

\* A worker just loaded: its top level calls connect(), a listener may too.
Loads == {{CHOOSE w \in load.calls : TRUE}, load.calls}
Loaded(calls) == [t \in Tasks |-> IF t[1] = "connect" /\ t[2] \in calls THEN Connect ELSE <<>>]

TimerFires ==
    /\ timers > 0 /\ FreeCalls # {}
    /\ timers' = timers - 1
    /\ timer' = FALSE
    /\ run' = Calling
    /\ UNCHANGED <<running, link, code, blocked, revoking, store, net, trust, load>>

----------------------------------------------------------------------------
(* Messages from the server.                                               *)

\* The chain takes the next message and drops it unless the socket is the
\* current one; the check is before getIdentity is awaited.
TakeMessage(s) ==
    /\ running /\ inbox[s] # <<>> /\ Idle(ChainTask(s))
    /\ inbox' = [inbox EXCEPT ![s] = Tail(@)]
    /\ run' = [run EXCEPT ![ChainTask(s)] =
                   IF socket = s THEN <<[do |-> "receive", msg |-> Head(inbox[s])]>> ELSE <<>>]
    /\ UNCHANGED <<running, link, retry, code, blocked, revoking, store, ready,
                   server, revoke, trust, load>>

Receiving(s, type) == /\ At(ChainTask(s), "receive")
                      /\ Head(run[ChainTask(s)]).msg.type = type
Received(s) == Head(run[ChainTask(s)]).msg

Welcome(s) ==
    /\ Receiving(s, "welcome")
    /\ connectionId' = TRUE
    /\ cred' = (cred \/ Received(s).issued)
    /\ run' = Go(ChainTask(s), <<Seg("welcomed")>>)
    /\ UNCHANGED <<running, socket, keepalive, retry, code, blocked, revoking, auto, alarm,
                   net, trust, load>>

\* After the storage writes, whatever has become of the socket.
Welcomed(s) ==
    /\ At(ChainTask(s), "welcomed")
    /\ code' = FALSE /\ blocked' = FALSE /\ alarm' = FALSE
    /\ keepalive' = TRUE
    /\ run' = Rest(ChainTask(s))
    /\ UNCHANGED <<running, socket, connectionId, retry, revoking, auto, cred, net, trust, load>>

\* AUTH_ERROR: only PAIRING_REQUIRED blocks and drops the credential.
AuthError(s) ==
    /\ Receiving(s, "auth_error")
    /\ blocked' = Received(s).pairing
    /\ code' = FALSE
    /\ cred' = (cred /\ ~Received(s).pairing)
    /\ run' = Go(ChainTask(s), <<Seg("refuse")>>)
    /\ UNCHANGED <<running, link, retry, revoking, auto, alarm, net, trust, load>>

\* After the status update the socket is closed, current or not.
CloseRefused(s) ==
    /\ At(ChainTask(s), "refuse")
    /\ ready' = Closing(s)
    /\ run' = Rest(ChainTask(s))
    /\ UNCHANGED <<running, link, retry, code, blocked, revoking, store, inbox, server,
                   revoke, trust, load>>

\* Fault: a failure is not told from a success.
Unread(ok, rest) == Tail(rest)

\* What is left of a caller whose revocation is resolved or rejected.
AfterAnswer(ok, rest) == IF ok THEN Tail(rest) ELSE <<>>

\* REVOKE answers whichever revocation is pending by now.  The caller goes on
\* before any other task and removes the credential.
RevokeAnswer(s) ==
    /\ Receiving(s, "revoke")
    /\ LET ok == Received(s).ok IN
       IF revocation = None
       THEN run' = Rest(ChainTask(s)) /\ UNCHANGED <<revoking, blocked, cred>>
       ELSE /\ revocation' = None
            /\ timeouts' = timeouts \ {revocation}
            /\ blocked' = (blocked \/ ok)
            /\ cred' = (cred /\ ~ok)
            /\ run' = [Rest(ChainTask(s)) EXCEPT ![UITask(revocation)] = AfterAnswer(ok, @)]
    /\ UNCHANGED <<running, link, retry, code, auto, alarm, net, trust, load>>

----------------------------------------------------------------------------
(* The popup, the options page and the browser's events.                   *)

\* Pages do not differ, so the command comes from one that is free.  PAIR removes
\* the stored credential; its code is new.
UI(c, kind, on) ==
    /\ running /\ load.commands > 0 /\ kind \in load.kinds
    /\ Idle(UITask(c)) /\ c = CHOOSE x \in Callers : Idle(UITask(x))
    /\ load' = [load EXCEPT !.commands = @ - 1]
    /\ run' = [run EXCEPT ![UITask(c)] = Program(kind, on)]
    /\ blocked' = (blocked /\ kind \notin {"CONNECT", "PAIR"})
    /\ code' = (code \/ kind = "PAIR") /\ offer' = (offer \/ kind = "PAIR")
    /\ cred' = (cred /\ kind # "PAIR")
    /\ UNCHANGED <<running, link, retry, revoking, auto, alarm, net, valid>>

SetAuto(c) ==
    /\ At(UITask(c), "setAuto")
    /\ auto' = Head(run[UITask(c)]).on
    /\ run' = Rest(UITask(c))
    /\ UNCHANGED <<running, link, retry, code, blocked, revoking, cred, alarm, net, trust, load>>

\* resetStoredIdentity: the credential is removed.
Forget(c) ==
    /\ At(UITask(c), "forget")
    /\ cred' = FALSE
    /\ run' = Rest(UITask(c))
    /\ UNCHANGED <<running, link, retry, code, blocked, revoking, auto, alarm, net, trust, load>>

Block(c) ==
    /\ At(UITask(c), "block")
    /\ code' = FALSE /\ blocked' = TRUE
    /\ run' = Rest(UITask(c))
    /\ UNCHANGED <<running, link, retry, revoking, store, net, trust, load>>

\* requestPairingRevocation: the checks, then an await.
RevokeCheck(c) ==
    /\ At(UITask(c), "revokeCheck")
    /\ IF Open(socket) /\ connectionId /\ revocation = None
       THEN run' = Rest(UITask(c))
       ELSE run' = Stop(UITask(c))
    /\ UNCHANGED <<running, link, retry, code, blocked, revoking, store, net, trust, load>>

\* The timeout is armed and the revocation pending, in place of any other; both
\* are undone if the message cannot be sent.
RevokeSend(c) ==
    /\ At(UITask(c), "revokeSend")
    /\ SendMessage("revoke")
    /\ IF Open(socket)
       THEN revocation' = c /\ timeouts' = timeouts \cup {c} /\ run' = Rest(UITask(c))
       ELSE revocation' = None /\ UNCHANGED timeouts /\ run' = Stop(UITask(c))
    /\ UNCHANGED <<running, link, retry, code, blocked, store, trust, load>>

\* The timeout of a revocation clears whichever is pending and rejects its own.
RevokeTimeout(c) ==
    /\ c \in timeouts
    /\ timeouts' = timeouts \ {c}
    /\ revocation' = None
    /\ run' = Stop(UITask(c))
    /\ UNCHANGED <<running, link, retry, code, blocked, store, net, trust, load>>

\* permissions.onAdded and onRemoved: sendCapabilitiesChanged reads nothing it
\* uses after its awaits, so the send is one step.
SendCapabilities ==
    /\ running /\ Open(socket)
    /\ SendMessage("capabilities_changed")
    /\ UNCHANGED <<running, link, retry, code, blocked, revoking, store, run, trust, load>>

\* The keepalive interval; the same holds of sendKeepalive.
SendKeepalive ==
    /\ running /\ keepalive /\ Open(socket)
    /\ SendMessage("ping")
    /\ UNCHANGED <<running, link, retry, code, blocked, revoking, store, run, trust, load>>

\* The alarm, a minute after the timer was set for at most 36 seconds, calls
\* connect(); in a worker that has to be loaded so does its top level.
AlarmFires ==
    /\ alarm /\ ~timer /\ FreeCalls # {}
    /\ alarm' = FALSE
    /\ running' = TRUE
    /\ run' = IF running THEN Calling ELSE Loaded(load.calls)
    /\ UNCHANGED <<link, retry, code, blocked, revoking, auto, cred, net, trust, load>>

\* The popup, a navigation or the start of the browser loads the worker; the
\* last has a listener that calls connect() as well.
Wake ==
    /\ ~running
    /\ running' = TRUE
    /\ \E calls \in Loads : run' = Loaded(calls)
    /\ UNCHANGED <<link, retry, code, blocked, revoking, store, net, trust, load>>

\* Everything but storage and alarms is lost.
Unload ==
    /\ running' = FALSE
    /\ socket' = None /\ connectionId' = FALSE /\ keepalive' = FALSE
    /\ timer' = FALSE /\ timers' = 0 /\ code' = FALSE /\ blocked' = FALSE
    /\ revocation' = None /\ timeouts' = {}
    /\ run' = Loaded({}) /\ inbox' = [s \in Sockets |-> <<>>]
    /\ ready' = [s \in Sockets |-> "closed"]
    /\ server' = [s \in Sockets |-> "gone"] /\ revoke' = {}
    /\ UNCHANGED <<store, trust>>

\* The browser unloads an idle worker.
Terminate ==
    /\ running /\ socket = None /\ ~keepalive
    /\ \A t \in Tasks : Idle(t)
    /\ Unload
    /\ UNCHANGED load

\* The browser stops the worker whatever it is doing, or the worker crashes.
Kill ==
    /\ running /\ load.kills > 0 /\ load' = [load EXCEPT !.kills = @ - 1]
    /\ Unload

----------------------------------------------------------------------------
(* The server, as far as the worker can tell (internal/transport).         *)

Deliver(s, m) ==
    inbox' = [inbox EXCEPT ![s] = IF ready[s] = "open" THEN Append(@, m) ELSE @]

\* A hello is welcomed, with a new credential for a code, which is then spent;
\* the connection of a welcomed browser replaces its older one.
ServerWelcomes(s) ==
    /\ \/ server[s] = "credential" /\ valid
       \/ server[s] = "code" /\ offer
    /\ Len(inbox[s]) < MaxInbox
    /\ Deliver(s, [type |-> "welcome", issued |-> server[s] = "code"])
    /\ valid' = TRUE /\ offer' = (offer /\ server[s] # "code")
    /\ server' = [x \in Sockets |-> IF x = s THEN "live"
                                    ELSE IF server[x] = "live" THEN "replaced" ELSE server[x]]
    /\ UNCHANGED <<running, link, retry, code, blocked, revoking, store, run, ready,
                   revoke, load>>

\* A hello is refused: its proof is none or not good, which needs pairing, or a
\* new credential could not be saved.
ServerRefuses(s) ==
    /\ server[s] \in {"credential", "code", "bare"} /\ Len(inbox[s]) < MaxInbox
    /\ \E pairing \in {TRUE, server[s] # "code"} :
          Deliver(s, [type |-> "auth_error", pairing |-> pairing])
    /\ server' = [server EXCEPT ![s] = "refused"]
    /\ UNCHANGED <<running, link, retry, code, blocked, revoking, store, run, ready,
                   revoke, trust, load>>

ServerRevokes(s) ==
    /\ s \in revoke /\ Len(inbox[s]) < MaxInbox
    /\ \E ok \in BOOLEAN :
          /\ Deliver(s, [type |-> "revoke", ok |-> ok])
          /\ server' = [server EXCEPT ![s] = IF ok THEN "refused" ELSE @]
          /\ valid' = (valid /\ ~ok)
    /\ revoke' = revoke \ {s}
    /\ UNCHANGED <<running, link, retry, code, blocked, revoking, store, run, ready,
                   offer, load>>

----------------------------------------------------------------------------
Init ==
    /\ running = TRUE
    /\ socket = None /\ connectionId = FALSE /\ keepalive = FALSE
    /\ ready = [s \in Sockets |-> "closed"]
    /\ timer = FALSE /\ timers = 0 /\ code = FALSE /\ blocked = FALSE
    /\ revocation = None /\ timeouts = {}
    /\ auto = TRUE /\ cred \in BOOLEAN /\ alarm = FALSE
    /\ revoke = {} /\ valid = cred /\ offer = FALSE
    /\ load \in Workloads
    /\ \E calls \in Loads : run = Loaded(calls)
    /\ inbox = [s \in Sockets |-> <<>>]
    /\ server = [s \in Sockets |-> "gone"]

ConnectSteps(t) == ConnectCheck(t) \/ ConnectDecide(t) \/ ConnectOpen(t)
UISteps(c) == \/ ConnectSteps(UITask(c)) \/ Drop(UITask(c)) \/ ClearAlarm(UITask(c))
              \/ SetAuto(c) \/ Forget(c) \/ Block(c)
              \/ RevokeCheck(c) \/ RevokeSend(c)
ChainSteps(s) == \/ TakeMessage(s) \/ Welcome(s) \/ Welcomed(s)
                 \/ AuthError(s) \/ CloseRefused(s) \/ RevokeAnswer(s)
CloseSteps(s) == Closed(s) \/ RejectRevocation(s) \/ Schedule(s)
ServerSteps(s) == ServerWelcomes(s) \/ ServerRefuses(s) \/ ServerRevokes(s)

Next ==
    \/ \E w \in ConnectCallers : ConnectSteps(ConnectTask(w))
    \/ \E c \in Callers : \/ UISteps(c) \/ RevokeTimeout(c)
                          \/ \E kind \in UIKinds, on \in BOOLEAN :
                                (on \/ kind = "SAVE_SETTINGS") /\ UI(c, kind, on)
    \/ \E s \in Sockets : \/ SocketOpens(s) \/ HelloSend(s) \/ ChainSteps(s)
                          \/ SocketCloses(s) \/ CloseSteps(s)
                          \/ ServerSteps(s)
    \/ TimerFires \/ AlarmFires \/ Wake \/ Terminate \/ Kill
    \/ SendCapabilities \/ SendKeepalive

Spec == Init /\ [][Next]_vars

\* Connections the server has done with are closed; so are those the worker
\* closes; an attempt ends one way or the other.
Ends(s) == /\ ready[s] = "closing" \/ server[s] \in {"refused", "replaced"}
           /\ SocketCloses(s)

Fairness ==
    /\ \A w \in ConnectCallers : WF_vars(ConnectSteps(ConnectTask(w)))
    /\ \A c \in Callers : WF_vars(UISteps(c)) /\ WF_vars(RevokeTimeout(c))
    /\ \A s \in Sockets :
          /\ WF_vars(SocketOpens(s)) /\ WF_vars(HelloSend(s)) /\ WF_vars(ChainSteps(s))
          /\ WF_vars(Ends(s)) /\ WF_vars(CloseSteps(s)) /\ WF_vars(ServerSteps(s))
    /\ WF_vars(TimerFires) /\ WF_vars(AlarmFires)

FairSpec == Spec /\ Fairness

----------------------------------------------------------------------------
(* Properties.                                                             *)

\* Every reconnection timer that is armed is the one reconnectTimer refers to,
\* so that clearReconnectTimer leaves none behind; and every revocation timeout
\* that is armed has a caller waiting for it, whatever settled the others.
NoLeakedTimer == /\ timers = IF timer THEN 1 ELSE 0
                 /\ timeouts = {c \in Callers : At(UITask(c), "revokeWait")}

\* A call under way may yet undo what would open another socket: a disconnect()
\* that is about to drop the connection or has to clear the alarm still, or the
\* handler of a message that is past the check of the socket.
MayUndo == \/ \E c \in Callers : At(UITask(c), "drop") \/ At(UITask(c), "clearAlarm")
           \/ \E s \in Sockets : ~Idle(ChainTask(s))

\* The current socket has closed and its messages have been handled.  Set aside
\* are the cases in which only the timer, or nothing, is left to open another: a
\* call under way may yet undo it, one has cleared the alarm of a timer still
\* running (scheduleReconnect then returns at once), or the worker is stopped
\* later while it is not idle.
Lost == /\ socket # None /\ ready[socket] = "closed" /\ inbox[socket] = <<>>
        /\ auto /\ ~blocked
        /\ (timer => alarm)
        /\ ~MayUndo
        /\ load.kills = 0

\* A worker that lost its connection opens another, unless it is told not to
\* connect or has to be paired: the timer, the alarm or a call under way does it,
\* even if the worker is unloaded in between.
KeepsTrying == Lost ~> (Live(socket) \/ ~auto \/ blocked)

\* "The extension deletes its local credential only after the server confirms
\* revocation": a caller that stops waiting and goes on does so when the server
\* does not accept the credential any more.  Set aside is the answer of a socket
\* that was abandoned after the check of the socket: it settles the revocation
\* that is pending by then, of another connection.
RevocationIsConfirmed ==
    [][\A c \in Callers :
         At(UITask(c), "revokeWait") /\ At(UITask(c), "drop")'
           => ~valid \/ \E s \in Sockets : (Receiving(s, "revoke") /\ socket # s)]_vars
====
