----------------------------- MODULE Connection -----------------------------
(***************************************************************************)
(* The `connection` type of internal/transport/websocket/server.go: a      *)
(* bounded outbound queue, one writePump goroutine that owns the socket,   *)
(* and a done signal anyone may raise once.                                *)
(*                                                                         *)
(* A sender of message m passes the done test (Accepts), enqueues without  *)
(* blocking or meets a full queue (Full), then waits for the first of the  *)
(* pump's verdict result[m], done, or its own context; those control       *)
(* points are in the modules of the callers.  A sender that stops waiting  *)
(* leaves its message in the queue, where the pump still finds it.         *)
(*                                                                         *)
(* The close code and reason are left out: the first signalDone decides    *)
(* them and nothing in the server reads them back.                         *)
(***************************************************************************)
EXTENDS Protocol, Sequences

CONSTANTS
    QueueSize      \* sendQueueSize, the capacity of the outbound channel

ASSUME QueueAssumption == QueueSize \in Nat \ {0}

VARIABLES
    done,          \* c.done is closed
    pump,          \* control state of writePump
    queue,         \* c.outbound; its head is being written while the pump writes
    result         \* the one-slot result channel of every message

connectionVars == <<done, pump, queue, result>>

PumpStates == {"off", "top", "select", "writing", "exiting", "stopped"}

ConnectionInit ==
    /\ done = [c \in Connections |-> FALSE]
    /\ pump = [c \in Connections |-> "off"]
    /\ queue = [c \in Connections |-> <<>>]
    /\ result = [m \in Messages |-> "none"]

-----------------------------------------------------------------------------
(* Send: what a sender sees of the connection, and its enqueue step.       *)

Accepts(c) == ~done[c]

\* The message the pump took is no longer in the channel.
Backlog(c) == Len(queue[c]) - (IF pump[c] = "writing" THEN 1 ELSE 0)

Full(c) == Backlog(c) >= QueueSize

Enqueue(c, m) ==
    /\ ~Full(c)
    /\ queue' = [queue EXCEPT ![c] = Append(@, m)]
    /\ UNCHANGED <<done, pump, result>>

\* A sender's last select returns nil, the write error, or that c is closed.
Written(m) == result[m] = "nil"
WriteFailed(m) == result[m] = "error"

-----------------------------------------------------------------------------
(* signalDone: only the first call has an effect.                          *)

SignalDone(c) ==
    /\ done' = [done EXCEPT ![c] = TRUE]
    /\ UNCHANGED <<pump, queue, result>>

-----------------------------------------------------------------------------
(* writePump.                                                              *)

Start(c) ==
    /\ pump[c] = "off"
    /\ pump' = [pump EXCEPT ![c] = "top"]
    /\ UNCHANGED <<done, queue, result>>

\* The select with a default at the top of the loop gives done priority.
PumpCheckDone(c) ==
    /\ pump[c] = "top"
    /\ pump' = [pump EXCEPT ![c] = IF done[c] THEN "exiting" ELSE "select"]
    /\ UNCHANGED <<done, queue, result>>

PumpTake(c) ==
    /\ pump[c] = "select"
    /\ queue[c] # <<>>
    /\ pump' = [pump EXCEPT ![c] = "writing"]
    /\ UNCHANGED <<done, queue, result>>

PumpWrite(c) ==
    /\ pump[c] = "writing"
    /\ pump' = [pump EXCEPT ![c] = "top"]
    /\ queue' = [queue EXCEPT ![c] = Tail(@)]
    /\ result' = [result EXCEPT ![Head(queue[c])] = "nil"]
    /\ UNCHANGED done

\* A write error or timeout; abort's socket.Close makes writes fail too.
PumpWriteFails(c) ==
    /\ pump[c] = "writing"
    /\ pump' = [pump EXCEPT ![c] = "exiting"]
    /\ queue' = [queue EXCEPT ![c] = Tail(@)]
    /\ result' = [result EXCEPT ![Head(queue[c])] = "error"]
    /\ UNCHANGED done

\* The blocking select sees done; a close frame is written.
PumpSeesDone(c) ==
    /\ pump[c] = "select"
    /\ done[c]
    /\ pump' = [pump EXCEPT ![c] = "exiting"]
    /\ UNCHANGED <<done, queue, result>>

\* The keepalive ping cannot be written.
PumpPingFails(c) ==
    /\ pump[c] = "select"
    /\ pump' = [pump EXCEPT ![c] = "exiting"]
    /\ UNCHANGED <<done, queue, result>>

\* The deferred exit: close the socket, signal done, close pumpDone.  What is
\* still in the outbound channel is never written.
PumpExit(c) ==
    /\ pump[c] = "exiting"
    /\ pump' = [pump EXCEPT ![c] = "stopped"]
    /\ done' = [done EXCEPT ![c] = TRUE]
    /\ UNCHANGED <<queue, result>>

\* The steps writePump takes by itself; a failing ping is not among them.
Pump(c) == \/ PumpCheckDone(c)
           \/ PumpTake(c)
           \/ PumpWrite(c)
           \/ PumpWriteFails(c)
           \/ PumpSeesDone(c)
           \/ PumpExit(c)

-----------------------------------------------------------------------------

\* The queue, the pump and the result slots have the types of their Go fields,
\* and the queue never holds more than the channel's capacity besides the
\* message being written.
ConnectionTypeOK ==
    /\ done \in [Connections -> BOOLEAN]
    /\ pump \in [Connections -> PumpStates]
    /\ queue \in [Connections -> Seq(Messages)]
    /\ \A c \in Connections : Backlog(c) <= QueueSize
    /\ result \in [Messages -> {"none", "nil", "error"}]
=============================================================================
