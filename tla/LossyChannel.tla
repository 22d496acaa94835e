---------------------------- MODULE LossyChannel ----------------------------
(***************************************************************************)
(* What the CDP session manager promises to a consumer of events: a        *)
(* channel that may lose messages, the oldest first or one that is too     *)
(* large, but neither reorders nor repeats them, and that tells the        *)
(* receiver with every message how many were lost before it.               *)
(***************************************************************************)
EXTENDS Naturals, Sequences

VARIABLES
    open,      \* the receiver takes messages
    next,      \* how many messages were sent; each is its number
    waiting,   \* the messages that were sent and not received
    got,       \* the messages received
    lost,      \* how many messages were lost while the channel was open
    told       \* how many of them the receiver knows of

vars == <<open, next, waiting, got, lost, told>>

Init ==
    /\ open = TRUE /\ next = 0 /\ lost = 0 /\ told = 0
    /\ waiting = <<>> /\ got = <<>>

\* The message is sent, and k of the messages that wait are lost.
Send(k) ==
    /\ open
    /\ next' = next + 1
    /\ waiting' = Append(SubSeq(waiting, k + 1, Len(waiting)), next + 1)
    /\ lost' = lost + k
    /\ UNCHANGED <<open, got, told>>

\* The message itself is lost.
Lose ==
    /\ open
    /\ next' = next + 1 /\ lost' = lost + 1
    /\ UNCHANGED <<open, waiting, got, told>>

Receive ==
    /\ waiting # <<>>
    /\ waiting' = Tail(waiting) /\ got' = Append(got, Head(waiting))
    /\ told' = lost
    /\ UNCHANGED <<open, next, lost>>

\* A message that finds the receiver idle is received as it is sent.
Pass ==
    /\ open /\ waiting = <<>>
    /\ next' = next + 1 /\ got' = Append(got, next + 1)
    /\ told' = lost
    /\ UNCHANGED <<open, waiting, lost>>

\* The messages that wait are discarded with the channel.
Shut ==
    /\ open /\ open' = FALSE
    /\ waiting' = <<>>
    /\ UNCHANGED <<next, got, lost, told>>

Next == (\E k \in 0..Len(waiting) : Send(k)) \/ Lose \/ Receive \/ Pass \/ Shut

Spec == Init /\ [][Next]_vars

\* A message that waits does not wait for ever.
FairSpec == Spec /\ WF_vars(Receive)
=============================================================================
