----------------------------- MODULE MCNetwork -----------------------------
EXTENDS NetworkCapture

One(op) == Command(op, "t1")
Two(op) == Command(op, "t2")
Chains(first, second) == [r \in Requests |-> IF r = "r1" THEN first ELSE second]

\* Commands that compete for a tab and for the slots, without traffic.
Competing ==
    {Workload(<<One("start"), One("start"), One("stop")>>, Nothing, 2, 1, 1),
     Workload(<<One("start"), Two("start"), One("start")>>, Nothing, 2, 1, 0),
     Workload(<<One("start"), Two("start"), One("stop")>>, Nothing, 2, 0, 1),
     Workload(<<One("start"), One("stop"), One("clear")>>, Nothing, 3, 1, 0)}

\* A command that is never sent.
Idle == [One("stop") EXCEPT !.mode = "failed"]

\* Redirected requests, some hops without ExtraInfo events, and what a client reads of them.
Logging ==
    {Workload(<<One("start"), One("read"), One("read")>>, Chains(<<FALSE, FALSE>>, <<FALSE>>), 1, 0, 0),
     Workload(<<One("start"), One("clear"), One("read")>>, Chains(<<FALSE>>, <<FALSE>>), 1, 0, 0),
     Workload(<<One("start"), One("body"), Idle>>, Chains(<<FALSE, FALSE>>, <<>>), 2, 1, 0),
     Workload(<<One("start"), One("har"), Idle>>, Chains(<<FALSE, FALSE>>, <<FALSE>>), 1, 0, 0),
     Workload(<<One("start"), One("stop"), Idle>>, Chains(<<TRUE, FALSE>>, <<>>), 1, 1, 0),
     Workload(<<One("start"), One("clear"), Idle>>, Chains(<<TRUE, TRUE>>, <<>>), 1, 0, 0),
     Workload(<<One("start"), Idle, Idle>>, Chains(<<FALSE, TRUE>>, <<TRUE>>), 1, 0, 0),
     Workload(<<One("start"), One("start"), One("body")>>, Chains(<<FALSE>>, <<>>), 1, 1, 0)}

AllWorkloads == Competing \cup Logging
=============================================================================
