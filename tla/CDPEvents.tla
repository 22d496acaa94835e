----------------------------- MODULE CDPEvents ------------------------------
(***************************************************************************)
(* The event queue of one CDP consumer, cdp-session-manager.js             *)
(* enqueueEvent and drainConsumer: a FIFO bounded in events and bytes that *)
(* sheds its oldest entries, drained by one loop that awaits the           *)
(* consumer's callback.  Consumers share nothing here, so one is modelled. *)
(*                                                                         *)
(* An event is its arrival number seq and its size.  received, delivered   *)
(* and reported are history variables.                                     *)
(***************************************************************************)
EXTENDS Naturals, Sequences, FiniteSets, Functions

CONSTANTS
    MaxEvents,          \* limits.maxEventsPerConsumer
    MaxEventBytes,      \* limits.maxEventBytes
    MaxQueuedBytes,     \* limits.maxQueuedEventBytes
    Sizes,              \* the sizes events come in
    MaxReceived         \* bound: events in a behaviour

\* normalizeLimits
ASSUME LimitsAssumption ==
    /\ MaxEvents \in Nat \ {0} /\ MaxEventBytes \in Nat \ {0}
    /\ MaxQueuedBytes \in Nat /\ MaxQueuedBytes >= MaxEventBytes
    /\ Sizes \subseteq Nat \ {0}

VARIABLES
    active,             \* consumer.active
    queue,              \* consumer.queue
    queueBytes,         \* consumer.queueBytes
    droppedEvents,      \* drops the consumer has not been told of
    totalDroppedEvents,
    draining,           \* drainConsumer awaits the callback
    received,           \* events offered to enqueueEvent
    delivered,          \* the arrival numbers the callback was given
    reported            \* the sum of the droppedBefore it was given

vars == <<active, queue, queueBytes, droppedEvents, totalDroppedEvents, draining,
          received, delivered, reported>>

Init ==
    /\ active = TRUE /\ draining = FALSE
    /\ queue = <<>> /\ queueBytes = 0
    /\ droppedEvents = 0 /\ totalDroppedEvents = 0
    /\ received = 0 /\ delivered = <<>> /\ reported = 0

Bytes(q) == SumFunction([i \in DOMAIN q |-> q[i].size])

Before(q, k) == SubSeq(q, 1, k)
After(q, k) == SubSeq(q, k + 1, Len(q))

\* Fault: the new event is not counted.
FitsWithout(k, size) ==
    /\ Len(queue) - k < MaxEvents
    /\ queueBytes - Bytes(Before(queue, k)) <= MaxQueuedBytes

\* The shedding loop of enqueueEvent stops after k events if there is room.
Fits(k, size) ==
    /\ Len(queue) - k < MaxEvents
    /\ queueBytes - Bytes(Before(queue, k)) + size <= MaxQueuedBytes

\* The events that the loop sheds: one for every k up to which there is no room.
Shed(size) ==
    Cardinality({j \in 0..(Len(queue) - 1) : \A k \in 0..j : ~Fits(k, size)})

\* Fault: the count of drops is reset but not handed over.
GiveSilently(q, bytes, drops) ==
    /\ draining' = TRUE
    /\ queue' = Tail(q) /\ queueBytes' = bytes - Head(q).size
    /\ delivered' = Append(delivered, Head(q).seq)
    /\ droppedEvents' = 0 /\ UNCHANGED reported

\* One turn of drainConsumer: the head of the queue goes to the callback,
\* with the number of events dropped since the last one.
Give(q, bytes, drops) ==
    /\ draining' = TRUE
    /\ queue' = Tail(q) /\ queueBytes' = bytes - Head(q).size
    /\ delivered' = Append(delivered, Head(q).seq)
    /\ reported' = reported + drops /\ droppedEvents' = 0

Receive(size) ==
    /\ active /\ received < MaxReceived
    /\ received' = received + 1
    /\ UNCHANGED active

\* enqueueEvent, too large to queue.
DropOversized(size) ==
    /\ Receive(size)
    /\ size > MaxEventBytes
    /\ droppedEvents' = droppedEvents + 1
    /\ totalDroppedEvents' = totalDroppedEvents + 1
    /\ UNCHANGED <<queue, queueBytes, draining, delivered, reported>>

\* enqueueEvent; with no loop running, the first turn of drainConsumer.
EnqueueEvent(size) ==
    LET k == Shed(size)
        q == Append(After(queue, k), [seq |-> received + 1, size |-> size])
        bytes == queueBytes - Bytes(Before(queue, k)) + size
    IN
    /\ Receive(size)
    /\ size <= MaxEventBytes
    /\ totalDroppedEvents' = totalDroppedEvents + k
    /\ \/ ~draining /\ Give(q, bytes, droppedEvents + k)
       \/ /\ draining
          /\ queue' = q
          /\ queueBytes' = bytes
          /\ droppedEvents' = droppedEvents + k
          /\ UNCHANGED <<draining, delivered, reported>>

\* The callback settles, or throws, and the loop takes the next event.
CallbackReturns ==
    /\ draining
    /\ UNCHANGED <<active, totalDroppedEvents, received>>
    /\ \/ active /\ queue # <<>> /\ Give(queue, queueBytes, droppedEvents)
       \/ /\ ~active \/ queue = <<>>
          /\ draining' = FALSE
          /\ UNCHANGED <<queue, queueBytes, droppedEvents, delivered, reported>>

\* releaseConsumer or deactivateConsumers; the callback may still be running.
Deactivate ==
    /\ active /\ active' = FALSE
    /\ queue' = <<>> /\ queueBytes' = 0
    /\ UNCHANGED <<droppedEvents, totalDroppedEvents, draining, received, delivered, reported>>

Next ==
    \/ \E size \in Sizes : DropOversized(size) \/ EnqueueEvent(size)
    \/ CallbackReturns
    \/ Deactivate

Spec == Init /\ [][Next]_vars

\* Consumers' callbacks settle.
FairSpec == Spec /\ WF_vars(CallbackReturns)

-----------------------------------------------------------------------------
(* Properties.                                                             *)

\* A slow consumer costs bounded memory: both limits hold and queueBytes,
\* kept by hand, is the size of what is queued.
QueueWithinLimits ==
    /\ Len(queue) <= MaxEvents
    /\ queueBytes = Bytes(queue)
    /\ queueBytes <= MaxQueuedBytes

\* The queue is the channel that a consumer may rely on: whatever is shed, discarded with the
\* consumer or refused, events are delivered once and in the order they came, every one that was
\* not delivered is queued or counted, the count reaches the consumer with the next event, and
\* no queued event waits for another one to restart the loop.
Numbers(q) == [i \in 1..Len(q) |-> q[i].seq]
Channel == INSTANCE LossyChannel WITH
    open <- active,
    next <- received,
    waiting <- Numbers(queue),
    got <- delivered,
    lost <- totalDroppedEvents,
    told <- reported

ImplementsChannel == Channel!FairSpec
=============================================================================
