--------------------------- MODULE MCServiceWorker ---------------------------
(* The instance of ServiceWorker for TLC: what may happen, in six workloads. *)
EXTENDS ServiceWorker

\* No page; two calls of connect(), of which one is abandoned with its socket.
Unattended == Workload({"s1", "s2"}, {"k1", "k2"}, {}, 0, 0)

\* A command crosses the events of two sockets, the timer and the alarm.
Attended == Workload({"s1", "s2"}, {"k1"}, {"DISCONNECT"}, 1, 0)

\* Commands of two pages cross over one connection.
Crossed == Workload({"s1"}, {"k1"}, {"CONNECT", "DISCONNECT"}, 2, 0)
Revoked == Workload({"s1"}, {"k1"}, {"REVOKE_PAIRING"}, 3, 0)

\* Each of the other commands, also with a stop at any moment.
Others == {"SAVE_SETTINGS", "PAIR", "REVOKE_PAIRING", "RESET_IDENTITY"}
Alone == Workload({"s1"}, {"k1"}, Others, 1, 0)
Stopped == Workload({"s1"}, {"k1"}, Others, 1, 1)

AllWorkloads == {Unattended, Attended, Crossed, Revoked, Alone, Stopped}
=============================================================================
