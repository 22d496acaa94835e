-------------------------- MODULE CDPEventsProofs ---------------------------
(***************************************************************************)
(* The event queue implements LossyChannel, for every choice of limits and *)
(* sizes.  The inductive invariant says that drops are accounted for and   *)
(* that a queue nobody drains is empty: without it the event that starts   *)
(* the drain loop could overtake a queued one.                             *)
(***************************************************************************)
EXTENDS CDPEvents, SequenceTheorems, Sums

Event == [seq : Nat, size : Nat]

EventsInv ==
    /\ active \in BOOLEAN /\ draining \in BOOLEAN
    /\ queue \in Seq(Event)
    /\ delivered \in Seq(Nat)
    /\ received \in Nat /\ reported \in Nat
    /\ droppedEvents \in Nat /\ totalDroppedEvents \in Nat
    /\ reported + droppedEvents = totalDroppedEvents
    /\ ~active \/ ~draining => queue = <<>>

\* The shedding loop drops at most the events that are queued.
LEMMA ShedBounded == ASSUME NEW size, queue \in Seq(Event)
                     PROVE  Shed(size) \in 0..Len(queue)
<1> DEFINE S == {j \in 0..(Len(queue) - 1) : \A k \in 0..j : ~Fits(k, size)}
           n == Len(queue)
<1>1. n \in Nat
  OBVIOUS
<1>2. /\ IsFiniteSet(0..(n - 1))
      /\ Cardinality(0..(n - 1)) = n
  <2>1. CASE n = 0
    <3>1. 0..(n - 1) = {}
      BY <2>1
    <3> QED
      BY <3>1, <2>1, FS_EmptySet
  <2>2. CASE n # 0
    BY <1>1, <2>2, FS_Interval
  <2> QED
    BY <2>1, <2>2
<1>3. S \subseteq 0..(n - 1)
  OBVIOUS
<1>4. /\ IsFiniteSet(S)
      /\ Cardinality(S) <= n
  BY <1>2, <1>3, FS_Subset
<1>5. Cardinality(S) \in Nat
  BY <1>4, FS_CardinalityType
<1> QED
  BY <1>1, <1>4, <1>5 DEF Shed

\* What is left of a queue after k events, and a queue with one event more.
LEMMA QueueTypes == ASSUME NEW q \in Seq(Event), NEW k \in 0..Len(q), NEW e \in Event
                    PROVE  /\ After(q, k) \in Seq(Event)
                           /\ Len(After(q, k)) = Len(q) - k
                           /\ \A i \in 1..(Len(q) - k) : After(q, k)[i] = q[i + k]
                           /\ Append(After(q, k), e) \in Seq(Event)
                           /\ Append(After(q, k), e) # <<>>
<1>1. /\ Len(q) \in Nat /\ \A i \in 1..Len(q) : q[i] \in Event
  BY LenProperties, ElementOfSeq
<1>2. /\ After(q, k) \in Seq(Event)
      /\ Len(After(q, k)) = IF k + 1 <= Len(q) THEN Len(q) - (k + 1) + 1 ELSE 0
      /\ \A i \in 1..(Len(q) - (k + 1) + 1) : After(q, k)[i] = q[k + 1 + i - 1]
  BY <1>1, SubSeqProperties DEF After
<1> QED
  BY <1>1, <1>2, AppendProperties

LEMMA NumbersType == ASSUME NEW q \in Seq(Event)
                     PROVE  /\ Numbers(q) \in Seq(Nat) /\ Len(Numbers(q)) = Len(q)
                            /\ \A i \in 1..Len(q) : Numbers(q)[i] = q[i].seq
<1>1. Len(q) \in Nat /\ \A i \in 1..Len(q) : q[i].seq \in Nat
  <2>1. Len(q) \in Nat /\ \A i \in 1..Len(q) : q[i] \in Event
    BY LenProperties, ElementOfSeq
  <2> QED
    BY <2>1 DEF Event
<1>2. Numbers(q) \in [1..Len(q) -> Nat]
  BY <1>1 DEF Numbers
<1>3. Numbers(q) \in Seq(Nat)
  BY <1>1, <1>2, SeqDef
<1>4. Len(Numbers(q)) \in Nat /\ 1..Len(Numbers(q)) = 1..Len(q)
  BY <1>2, <1>3, LenProperties
<1>5. Len(Numbers(q)) = Len(q)
  BY <1>1, <1>4
<1> QED
  BY <1>3, <1>5 DEF Numbers

\* The numbers of the queue are the channel's messages: shedding, appending and taking the
\* head are the same on both sides.
LEMMA NumbersShed == ASSUME NEW q \in Seq(Event), NEW k \in 0..Len(q), NEW e \in Event
                     PROVE  Numbers(Append(After(q, k), e)) =
                              Append(SubSeq(Numbers(q), k + 1, Len(Numbers(q))), e.seq)
<1> DEFINE n == Len(q) - k
           l == Numbers(Append(After(q, k), e))
           s == SubSeq(Numbers(q), k + 1, Len(Numbers(q)))
           r == Append(s, e.seq)
<1>1. Len(q) \in Nat /\ n \in Nat /\ e.seq \in Nat
  BY LenProperties DEF Event
<1>2. /\ s \in Seq(Nat) /\ Len(s) = n
      /\ \A i \in 1..n : s[i] = q[i + k].seq
  <2>1. /\ Numbers(q) \in Seq(Nat) /\ Len(Numbers(q)) = Len(q)
        /\ \A i \in 1..Len(q) : Numbers(q)[i] = q[i].seq
    BY NumbersType
  <2>2. \A i \in (k + 1)..Len(q) : Numbers(q)[i] \in Nat
    BY <2>1, <1>1, ElementOfSeq
  <2>3. /\ s \in Seq(Nat)
        /\ Len(s) = IF k + 1 <= Len(q) THEN Len(q) - (k + 1) + 1 ELSE 0
        /\ \A i \in 1..(Len(q) - (k + 1) + 1) : s[i] = Numbers(q)[k + 1 + i - 1]
    BY <2>1, <2>2, <1>1, SubSeqProperties
  <2> QED
    BY <2>1, <2>3, <1>1
<1>3. /\ r \in Seq(Nat) /\ Len(r) = n + 1
      /\ \A i \in 1..n : r[i] = q[i + k].seq
      /\ r[n + 1] = e.seq
  <2> HIDE DEF s
  <2> QED
    BY <1>1, <1>2, AppendProperties
<1>4. /\ l \in Seq(Nat) /\ Len(l) = n + 1
      /\ \A i \in 1..n : l[i] = q[i + k].seq
      /\ l[n + 1] = e.seq
  <2> DEFINE a == After(q, k)
  <2>1. /\ a \in Seq(Event) /\ Len(a) = n
        /\ \A i \in 1..n : a[i] = q[i + k]
    BY QueueTypes
  <2> HIDE DEF a
  <2>2. /\ Append(a, e) \in Seq(Event) /\ Len(Append(a, e)) = n + 1
        /\ \A i \in 1..n : Append(a, e)[i] = q[i + k]
        /\ Append(a, e)[n + 1] = e
    BY <2>1, <1>1, AppendProperties
  <2>3. /\ l \in Seq(Nat) /\ Len(l) = Len(Append(a, e))
        /\ \A i \in 1..Len(Append(a, e)) : l[i] = Append(a, e)[i].seq
    BY <2>2, NumbersType DEF a
  <2>4. Len(l) = n + 1
    BY <2>2, <2>3
  <2> DEFINE b == Append(a, e)
  <2> HIDE DEF b, l, n
  <2>5. ASSUME NEW i \in 1..n
        PROVE  l[i] = q[i + k].seq
    <3>1. i \in 1..Len(b)
      BY <2>2, <1>1 DEF b
    <3>2. l[i] = b[i].seq
      BY <3>1, <2>3 DEF b
    <3>3. b[i] = q[i + k]
      BY <2>2 DEF b
    <3> QED
      BY <3>2, <3>3
  <2>6. l[n + 1] = e.seq
    <3>1. n + 1 \in 1..Len(b)
      BY <2>2, <1>1 DEF b
    <3>2. l[n + 1] = b[n + 1].seq
      BY <3>1, <2>3 DEF b
    <3>3. b[n + 1] = e
      BY <2>2 DEF b
    <3> QED
      BY <3>2, <3>3
  <2> QED
    BY <2>3, <2>4, <2>5, <2>6
<1> HIDE DEF l, r, n
<1>5. \A i \in 1..(n + 1) : l[i] = r[i]
  <2> TAKE i \in 1..(n + 1)
  <2>1. i = n + 1 \/ i \in 1..n
    BY <1>1
  <2> QED
    BY <2>1, <1>3, <1>4
<1>6. l = r
  BY <1>3, <1>4, <1>5, SeqEqual
<1> QED
  BY <1>6 DEF l, r

LEMMA NumbersTake == ASSUME NEW q \in Seq(Event), q # <<>>
                     PROVE  /\ Numbers(q) # <<>>
                            /\ Numbers(Tail(q)) = Tail(Numbers(q))
                            /\ Head(Numbers(q)) = Head(q).seq
<1>1. /\ Numbers(q) \in Seq(Nat) /\ Len(Numbers(q)) = Len(q) /\ Len(q) \in Nat \ {0}
      /\ \A i \in 1..Len(q) : Numbers(q)[i] = q[i].seq
  BY NumbersType, EmptySeq
<1>2. Numbers(q) # <<>>
  BY <1>1, EmptySeq
<1>3. /\ Tail(q) \in Seq(Event) /\ Len(Tail(q)) = Len(q) - 1
      /\ \A i \in 1..(Len(q) - 1) : Tail(q)[i] = q[i + 1]
  BY HeadTailProperties
<1> DEFINE l == Numbers(Tail(q))
           r == Tail(Numbers(q))
<1>4. /\ l \in Seq(Nat) /\ Len(l) = Len(q) - 1
      /\ \A i \in 1..(Len(q) - 1) : l[i] = q[i + 1].seq
  BY <1>3, NumbersType
<1>5. /\ r \in Seq(Nat) /\ Len(r) = Len(q) - 1
      /\ \A i \in 1..(Len(q) - 1) : r[i] = q[i + 1].seq
  BY <1>1, <1>2, HeadTailProperties
<1> HIDE DEF l, r
<1>6. l = r
  BY <1>4, <1>5, SeqEqual
<1>7. Head(Numbers(q)) = Head(q).seq
  <2>1. Head(q) = q[1] /\ Head(Numbers(q)) = Numbers(q)[1]
    BY <1>1, <1>2
  <2> QED
    BY <2>1, <1>1
<1> QED
  BY <1>2, <1>6, <1>7 DEF l, r

LEMMA NumbersEmpty == Numbers(<<>>) = <<>>
BY DEF Numbers

LEMMA QueueHead == ASSUME NEW q \in Seq(Event), q # <<>>
                   PROVE  Tail(q) \in Seq(Event) /\ Head(q).seq \in Nat
<1>1. Tail(q) \in Seq(Event) /\ Head(q) \in Event
  BY HeadTailProperties
<1> QED
  BY <1>1 DEF Event

-----------------------------------------------------------------------------
LEMMA EventsInvInit == Init => EventsInv
<1>1. <<>> \in Seq(Event) /\ <<>> \in Seq(Nat)
  BY EmptySeq
<1>2. 0 \in Nat /\ 0 + 0 = 0
  OBVIOUS
<1> QED
  BY <1>1, <1>2, Zenon DEF Init, EventsInv

LEMMA EventsInvNext == ASSUME LimitsAssumption, EventsInv, [Next]_vars
                       PROVE  EventsInv'
<1> USE DEF EventsInv
<1>1. CASE \E size \in Sizes : DropOversized(size)
  BY <1>1 DEF DropOversized, Receive
<1>2. CASE \E size \in Sizes : EnqueueEvent(size)
  <2> PICK size \in Sizes : EnqueueEvent(size)
    BY <1>2
  <2> DEFINE k == Shed(size)
             e == [seq |-> received + 1, size |-> size]
             q == Append(After(queue, k), e)
  <2>1. size \in Nat
    BY DEF LimitsAssumption
  <2>2. k \in 0..Len(queue) /\ e \in Event
    BY <2>1, ShedBounded DEF Event
  <2> HIDE DEF k
  <2>3. q \in Seq(Event) /\ q # <<>>
    BY <2>2, QueueTypes
  <2> HIDE DEF q
  <2>4. Tail(q) \in Seq(Event) /\ Head(q).seq \in Nat
    BY <2>3, QueueHead
  <2>5. active /\ active' = active /\ received' = received + 1
        /\ totalDroppedEvents' = totalDroppedEvents + k
    BY DEF EnqueueEvent, Receive, k
  <2>6. CASE ~draining /\ draining' = TRUE /\ queue' = Tail(q)
             /\ delivered' = Append(delivered, Head(q).seq)
             /\ reported' = reported + (droppedEvents + k) /\ droppedEvents' = 0
    BY <2>2, <2>4, <2>5, <2>6
  <2>7. CASE draining /\ draining' = draining /\ queue' = q /\ delivered' = delivered
             /\ reported' = reported /\ droppedEvents' = droppedEvents + k
    BY <2>2, <2>3, <2>5, <2>7
  <2> QED
    BY <2>6, <2>7 DEF EnqueueEvent, Give, q, k
<1>3. CASE CallbackReturns
  <2>1. CASE active /\ queue # <<>> /\ Give(queue, queueBytes, droppedEvents)
    <3>1. Tail(queue) \in Seq(Event) /\ Head(queue).seq \in Nat
      BY <2>1, QueueHead
    <3>2. Append(delivered, Head(queue).seq) \in Seq(Nat)
      BY <3>1, AppendProperties
    <3> QED
      BY <1>3, <2>1, <3>1, <3>2 DEF CallbackReturns, Give
  <2>2. CASE /\ ~active \/ queue = <<>>
             /\ draining' = FALSE
             /\ UNCHANGED <<queue, queueBytes, droppedEvents, delivered, reported>>
    BY <1>3, <2>2 DEF CallbackReturns
  <2> QED
    BY <1>3, <2>1, <2>2 DEF CallbackReturns
<1>4. CASE Deactivate
  <2>1. <<>> \in Seq(Event)
    BY EmptySeq
  <2> QED
    BY <1>4, <2>1 DEF Deactivate
<1>5. CASE UNCHANGED vars
  BY <1>5 DEF vars
<1> QED
  BY <1>1, <1>2, <1>3, <1>4, <1>5 DEF Next

-----------------------------------------------------------------------------
LEMMA ChannelInit == Init => Channel!Init
BY NumbersEmpty DEF Init, Channel!Init

\* Every step of the queue is a step of the channel, or leaves it alone.
LEMMA ChannelNext == ASSUME LimitsAssumption, EventsInv, [Next]_vars
                     PROVE  [Channel!Next]_(Channel!vars)
<1> USE DEF EventsInv
<1>0. Numbers(queue) \in Seq(Nat) /\ Len(Numbers(queue)) = Len(queue)
  BY NumbersType
<1>1. CASE \E size \in Sizes : DropOversized(size)
  <2>1. Channel!Lose
    BY <1>1 DEF DropOversized, Receive, Channel!Lose
  <2> QED
    BY <2>1 DEF Channel!Next
<1>2. CASE \E size \in Sizes : EnqueueEvent(size)
  <2> PICK size \in Sizes : EnqueueEvent(size)
    BY <1>2
  <2> DEFINE k == Shed(size)
             e == [seq |-> received + 1, size |-> size]
             q == Append(After(queue, k), e)
  <2>1. size \in Nat
    BY DEF LimitsAssumption
  <2>2. k \in 0..Len(queue) /\ e \in Event /\ e.seq = received + 1
    BY <2>1, ShedBounded DEF Event
  <2>5. active /\ active' = active /\ received' = received + 1
        /\ totalDroppedEvents' = totalDroppedEvents + k
    BY DEF EnqueueEvent, Receive
  <2> HIDE DEF k
  <2>3. /\ Numbers(q) = Append(SubSeq(Numbers(queue), k + 1, Len(Numbers(queue))), received + 1)
        /\ q \in Seq(Event) /\ q # <<>>
    <3>1. q \in Seq(Event) /\ q # <<>>
      BY <2>2, QueueTypes, Zenon DEF q
    <3>2. Numbers(q) = Append(SubSeq(Numbers(queue), k + 1, Len(Numbers(queue))), e.seq)
      BY <2>2, NumbersShed, Zenon DEF q
    <3> QED
      BY <3>1, <3>2, <2>2, Zenon
  <2> HIDE DEF q, e
  <2>6. CASE ~draining /\ queue' = Tail(q)
             /\ delivered' = Append(delivered, Head(q).seq)
             /\ reported' = reported + (droppedEvents + k)
    <3>1. queue = <<>> /\ k = 0 /\ Numbers(queue) = <<>>
      BY <2>6, <2>2, NumbersEmpty
    <3>2. Numbers(q) = Append(<<>>, received + 1)
      <4>1. SubSeq(Numbers(queue), k + 1, Len(Numbers(queue))) = <<>>
        BY <3>1, EmptySeq, SubSeqEmpty
      <4> QED
        BY <4>1, <2>3
    <3>3. Head(q).seq = received + 1 /\ Numbers(Tail(q)) = <<>>
      <4>1. /\ Numbers(q) \in Seq(Nat) /\ Numbers(q) # <<>>
            /\ Len(Numbers(q)) = 1 /\ Numbers(q)[1] = received + 1
        <5>1. <<>> \in Seq(Nat) /\ Len(<<>>) = 0
          BY EmptySeq
        <5> QED
          BY <3>2, <5>1, AppendProperties
      <4>2. Tail(Numbers(q)) \in Seq(Nat) /\ Len(Tail(Numbers(q))) = 0
        BY <4>1, HeadTailProperties
      <4>3. Tail(Numbers(q)) = <<>>
        BY <4>2, EmptySeq
      <4>4. Head(Numbers(q)) = received + 1
        BY <4>1
      <4> QED
        BY <4>3, <4>4, <2>3, NumbersTake
    <3>4. totalDroppedEvents' = totalDroppedEvents /\ reported' = totalDroppedEvents
      BY <3>1, <2>5, <2>6
    <3>5. Numbers(queue)' = <<>>
      BY <3>3, <2>6
    <3>6. Channel!Pass
      BY <3>1, <3>3, <3>4, <3>5, <2>5, <2>6 DEF Channel!Pass
    <3> QED
      BY <3>6 DEF Channel!Next
  <2>7. CASE queue' = q /\ delivered' = delivered /\ reported' = reported
    <3>1. Numbers(queue)' = Numbers(q)
      BY <2>7
    <3>2. Channel!Send(k)
      BY <3>1, <2>3, <2>5, <2>7 DEF Channel!Send
    <3>3. k \in 0..Len(Numbers(queue))
      BY <2>2, <1>0
    <3> QED
      BY <3>2, <3>3 DEF Channel!Next
  <2> QED
    BY <2>6, <2>7 DEF EnqueueEvent, Give, q, k, e
<1>3. CASE CallbackReturns
  <2>1. CASE active /\ queue # <<>> /\ Give(queue, queueBytes, droppedEvents)
    <3>1. /\ Numbers(queue) # <<>> /\ Numbers(Tail(queue)) = Tail(Numbers(queue))
          /\ Head(Numbers(queue)) = Head(queue).seq
      BY <2>1, NumbersTake
    <3>2. Numbers(queue)' = Tail(Numbers(queue))
      BY <3>1, <2>1 DEF Give
    <3>3. Channel!Receive
      BY <3>1, <3>2, <2>1, <1>3 DEF CallbackReturns, Give, Channel!Receive
    <3> QED
      BY <3>3 DEF Channel!Next
  <2>2. CASE UNCHANGED <<queue, delivered, reported>>
    BY <2>2, <1>3 DEF CallbackReturns, Channel!vars
  <2> QED
    BY <1>3, <2>1, <2>2 DEF CallbackReturns
<1>4. CASE Deactivate
  <2>1. Numbers(queue)' = <<>>
    BY <1>4, NumbersEmpty DEF Deactivate
  <2>2. Channel!Shut
    BY <2>1, <1>4 DEF Deactivate, Channel!Shut
  <2> QED
    BY <2>2 DEF Channel!Next
<1>5. CASE UNCHANGED vars
  BY <1>5 DEF vars, Channel!vars
<1> QED
  BY <1>1, <1>2, <1>3, <1>4, <1>5 DEF Next

\* enqueueEvent and drainConsumer implement the channel that consumers rely on, whatever the
\* limits of the queue and the sizes of the events: nothing is reordered, repeated or lost
\* without being counted, and the consumer is told of every loss.
THEOREM QueueImplementsChannel == Spec => Channel!Spec
<1>1. Init => EventsInv /\ Channel!Init
  BY EventsInvInit, ChannelInit
<1>2. EventsInv /\ [Next]_vars => EventsInv'
  BY LimitsAssumption, EventsInvNext
<1>3. EventsInv /\ [Next]_vars => [Channel!Next]_(Channel!vars)
  BY LimitsAssumption, ChannelNext
<1> QED
  BY <1>1, <1>2, <1>3, PTL DEF Spec, Channel!Spec

-----------------------------------------------------------------------------
(* The limits of the queue.                                                *)

EventSizes(q) == [i \in DOMAIN q |-> q[i].size]

LEMMA SizesType == ASSUME NEW q \in Seq(Event)
                   PROVE  /\ Len(q) \in Nat /\ DOMAIN q = 1..Len(q) /\ IsFiniteSet(1..Len(q))
                          /\ \A i \in 1..Len(q) : /\ EventSizes(q)[i] = q[i].size
                                                  /\ EventSizes(q)[i] \in Nat
                          /\ Bytes(q) = SumFunctionOnSet(EventSizes(q), 1..Len(q))
                          /\ Bytes(q) \in Nat
<1>1. Len(q) \in Nat /\ DOMAIN q = 1..Len(q) /\ \A i \in 1..Len(q) : q[i] \in Event
  BY LenProperties, ElementOfSeq
<1>2. \A i \in 1..Len(q) : EventSizes(q)[i] = q[i].size /\ EventSizes(q)[i] \in Nat
  BY <1>1 DEF EventSizes, Event
<1>3. IsFiniteSet(1..Len(q))
  BY <1>1, FS_Interval
<1>4. DOMAIN EventSizes(q) = 1..Len(q)
  BY <1>1 DEF EventSizes
<1>5. Bytes(q) = SumFunctionOnSet(EventSizes(q), 1..Len(q))
  BY <1>1, <1>4 DEF Bytes, SumFunction, EventSizes
<1> QED
  BY <1>1, <1>2, <1>3, <1>5, SumType

\* The bytes of a run of a queue's events, summed in the queue.
LEMMA BytesOfPart ==
    ASSUME NEW q \in Seq(Event), NEW r \in Seq(Event), NEW c \in Nat, c + Len(r) <= Len(q),
           \A i \in 1..Len(r) : r[i] = q[c + i]
    PROVE  Bytes(r) = SumFunctionOnSet(EventSizes(q), (c + 1)..(c + Len(r)))
<1> DEFINE n == Len(r)
           b == [i \in 1..n |-> c + i]
<1>1. n \in Nat /\ Len(q) \in Nat
  BY SizesType
<1>2. b \in Bijection(1..n, (c + 1)..(c + n))
  <2>1. b \in [1..n -> (c + 1)..(c + n)]
    BY <1>1
  <2>2. \A i, j \in 1..n : b[i] = b[j] => i = j
    BY <1>1
  <2>3. \A t \in (c + 1)..(c + n) : t - c \in 1..n /\ b[t - c] = t
    BY <1>1
  <2> HIDE DEF b
  <2> QED
    BY <2>1, <2>2, <2>3 DEF Bijection, Injection, Surjection, IsInjective
<1>3. \A i \in 1..n : /\ EventSizes(r)[i] \in Nat
                      /\ EventSizes(q)[b[i]] = EventSizes(r)[i]
  <2> TAKE i \in 1..n
  <2>1. b[i] = c + i /\ c + i \in 1..Len(q)
    BY <1>1
  <2>2. EventSizes(q)[c + i] = q[c + i].size
    BY <2>1, SizesType
  <2>3. EventSizes(r)[i] = r[i].size /\ EventSizes(r)[i] \in Nat
    BY SizesType
  <2> QED
    BY <2>1, <2>2, <2>3
<1>4. IsFiniteSet(1..n) /\ Bytes(r) = SumFunctionOnSet(EventSizes(r), 1..n)
  BY SizesType
<1> HIDE DEF b, n
<1> QED
  BY <1>2, <1>3, <1>4, SumRenamed DEF n

\* A queue is its first events and the others.
LEMMA BytesSplit ==
    ASSUME NEW q \in Seq(Event), NEW k \in 0..Len(q),
           NEW r \in Seq(Event), NEW s \in Seq(Event), Len(r) = k, Len(s) = Len(q) - k,
           \A i \in 1..k : r[i] = q[i],
           \A i \in 1..(Len(q) - k) : s[i] = q[k + i]
    PROVE  Bytes(q) = Bytes(r) + Bytes(s)
<1> DEFINE n == Len(q)
           f == EventSizes(q)
<1>1. n \in Nat /\ k \in Nat /\ k <= n /\ 0 \in Nat
  BY SizesType
<1>2. Bytes(r) = SumFunctionOnSet(f, 1..k)
  <2>1. \A i \in 1..Len(r) : r[i] = q[0 + i]
    BY <1>1
  <2>2. 0 + Len(r) <= Len(q)
    BY <1>1
  <2>3. Bytes(r) = SumFunctionOnSet(EventSizes(q), (0 + 1)..(0 + Len(r)))
    BY <2>1, <2>2, <1>1, BytesOfPart, Zenon
  <2>4. (0 + 1)..(0 + Len(r)) = 1..k
    BY <1>1
  <2> QED
    BY <2>3, <2>4
<1>3. Bytes(s) = SumFunctionOnSet(f, (k + 1)..n)
  <2>1. \A i \in 1..Len(s) : s[i] = q[k + i]
    BY <1>1
  <2>2. k + Len(s) <= Len(q)
    BY <1>1
  <2>3. Bytes(s) = SumFunctionOnSet(EventSizes(q), (k + 1)..(k + Len(s)))
    BY <2>1, <2>2, <1>1, BytesOfPart, Zenon
  <2>4. (k + 1)..(k + Len(s)) = (k + 1)..n
    BY <1>1
  <2> QED
    BY <2>3, <2>4
<1> DEFINE S == 1..k
           T == (k + 1)..n
<1>4. S \cup T = 1..n /\ S \cap T = {}
  <2> HIDE DEF n
  <2> QED
    BY <1>1
<1>5. IsFiniteSet(S) /\ IsFiniteSet(T)
  <2>1. 1 \in Int /\ k \in Int /\ k + 1 \in Int /\ n \in Int
    BY <1>1
  <2> HIDE DEF n
  <2> QED
    BY <2>1, FS_Interval
<1>6. /\ \A i \in 1..n : f[i] \in Nat
      /\ Bytes(q) = SumFunctionOnSet(f, 1..n)
  BY SizesType
<1>7. Bytes(r) = SumFunctionOnSet(f, S) /\ Bytes(s) = SumFunctionOnSet(f, T)
  BY <1>2, <1>3
<1> HIDE DEF f, n, S, T
<1>8. SumFunctionOnSet(f, S \cup T) = SumFunctionOnSet(f, S) + SumFunctionOnSet(f, T)
  BY <1>4, <1>5, <1>6, SumSplit
<1> QED
  BY <1>4, <1>6, <1>7, <1>8

LEMMA BytesEmpty == Bytes(<<>>) = 0
<1>1. <<>> \in Seq(Event) /\ 1..Len(<<>>) = {}
  BY EmptySeq
<1> QED
  BY <1>1, SizesType, SumEmpty

LEMMA BytesOne == ASSUME NEW q \in Seq(Event), Len(q) = 1 PROVE Bytes(q) = q[1].size
<1> DEFINE f == EventSizes(q)
<1>1. f[1] = q[1].size /\ f[1] \in Nat /\ Bytes(q) = SumFunctionOnSet(f, 1..Len(q))
  <2>1. 1 \in 1..Len(q)
    OBVIOUS
  <2> QED
    BY <2>1, SizesType, Zenon
<1> HIDE DEF f
<1>2. 1..Len(q) = {} \cup {1}
  OBVIOUS
<1>3. IsFiniteSet({}) /\ SumFunctionOnSet(f, {}) = 0
  BY FS_EmptySet, SumEmpty
<1>4. 1 \notin {} /\ \A i \in {} \cup {1} : f[i] \in Nat
  BY <1>1
<1>5. SumFunctionOnSet(f, {} \cup {1}) = SumFunctionOnSet(f, {}) + f[1]
  BY <1>3, <1>4, SumAdd
<1> QED
  BY <1>1, <1>2, <1>3, <1>5

LEMMA BytesAppend == ASSUME NEW q \in Seq(Event), NEW e \in Event
                     PROVE  Bytes(Append(q, e)) = Bytes(q) + e.size
<1> DEFINE a == Append(q, e)
           s == <<e>>
<1>1. Len(q) \in Nat
  BY SizesType
<1>2. /\ a \in Seq(Event) /\ Len(a) = Len(q) + 1 /\ \A i \in 1..Len(q) : q[i] = a[i]
      /\ a[Len(q) + 1] = e
  BY <1>1, AppendProperties
<1>3. s \in Seq(Event) /\ Len(s) = 1 /\ s[1] = e
  OBVIOUS
<1> HIDE DEF a, s
<1>4. Bytes(a) = Bytes(q) + Bytes(s)
  <2>1. Len(q) \in 0..Len(a) /\ Len(s) = Len(a) - Len(q)
    BY <1>1, <1>2, <1>3
  <2>2. \A i \in 1..(Len(a) - Len(q)) : s[i] = a[Len(q) + i]
    BY <1>1, <1>2, <1>3
  <2> QED
    BY <1>2, <1>3, <2>1, <2>2, BytesSplit, Zenon
<1> QED
  BY <1>3, <1>4, BytesOne DEF a

LEMMA BytesTail == ASSUME NEW q \in Seq(Event), q # <<>>
                   PROVE  Bytes(Tail(q)) = Bytes(q) - Head(q).size /\ Head(q).size \in Nat
<1> DEFINE t == Tail(q)
           s == <<Head(q)>>
<1>1. Len(q) \in Nat \ {0}
  BY SizesType, EmptySeq
<1>2. /\ t \in Seq(Event) /\ Len(t) = Len(q) - 1 /\ \A i \in 1..(Len(q) - 1) : t[i] = q[1 + i]
      /\ Head(q) \in Event /\ Head(q) = q[1]
  BY <1>1, HeadTailProperties
<1>3. s \in Seq(Event) /\ Len(s) = 1 /\ s[1] = q[1]
  BY <1>2
<1> HIDE DEF t, s
<1>4. Bytes(q) = Bytes(s) + Bytes(t)
  <2>1. 1 \in 0..Len(q) /\ \A i \in 1..1 : s[i] = q[i]
    BY <1>1, <1>3
  <2> QED
    BY <1>2, <1>3, <2>1, BytesSplit, Zenon
<1>5. Bytes(s) \in Nat /\ Bytes(t) \in Nat
  BY <1>2, <1>3, SizesType
<1>6. Head(q).size \in Nat
  BY <1>2 DEF Event
<1> QED
  BY <1>2, <1>3, <1>4, <1>5, <1>6, BytesOne DEF t

LEMMA BytesAfter == ASSUME NEW q \in Seq(Event), NEW k \in 0..Len(q)
                    PROVE  /\ After(q, k) \in Seq(Event) /\ Len(After(q, k)) = Len(q) - k
                           /\ Bytes(After(q, k)) = Bytes(q) - Bytes(Before(q, k))
                           /\ k = Len(q) => Bytes(After(q, k)) = 0
<1> DEFINE r == Before(q, k)
           s == After(q, k)
<1>1. Len(q) \in Nat /\ k \in Nat /\ k <= Len(q) /\ \A i \in 1..Len(q) : q[i] \in Event
  BY LenProperties, ElementOfSeq
<1>2. /\ r \in Seq(Event) /\ Len(r) = k /\ \A i \in 1..k : r[i] = q[i]
  BY <1>1, SubSeqProperties DEF Before
<1>3. /\ s \in Seq(Event) /\ Len(s) = Len(q) - k /\ \A i \in 1..(Len(q) - k) : s[i] = q[k + i]
  BY <1>1, SubSeqProperties DEF After
<1> HIDE DEF r, s
<1>4. Bytes(q) = Bytes(r) + Bytes(s)
  BY <1>2, <1>3, BytesSplit
<1>5. Bytes(r) \in Nat /\ Bytes(s) \in Nat
  BY <1>2, <1>3, SizesType
<1>6. k = Len(q) => s = <<>>
  BY <1>1, <1>3, EmptySeq
<1> QED
  BY <1>3, <1>4, <1>5, <1>6, BytesEmpty DEF r, s

\* The shedding loop stops where there is room, or when nothing is left.
LEMMA ShedStops == ASSUME NEW size, queue \in Seq(Event)
                   PROVE  Shed(size) = Len(queue) \/ Fits(Shed(size), size)
<1> DEFINE n == Len(queue)
           S == {j \in 0..(n - 1) : \A k \in 0..j : ~Fits(k, size)}
           Rest == {j \in 0..(n - 1) : j \notin S}
<1>0. n \in Nat
  BY SizesType
<1>1. CASE Rest = {}
  <2>1. S = 0..(n - 1)
    BY <1>1
  <2>2. Cardinality(0..(n - 1)) = n
    <3>1. CASE n = 0
      <4>1. 0..(n - 1) = {}
        BY <3>1
      <4> QED
        BY <4>1, <3>1, FS_EmptySet
    <3>2. CASE n # 0
      BY <1>0, <3>2, FS_Interval
    <3> QED
      BY <3>1, <3>2
  <2> QED
    BY <2>1, <2>2 DEF Shed
<1>2. CASE Rest # {}
  <2>1. PICK m \in Rest : \A j \in Rest : m <= j
    <3>1. Rest \in SUBSET Nat
      BY <1>0
    <3> HIDE DEF Rest
    <3> QED
      BY <3>1, <1>2, LeastNumber
  <2>2. m \in 0..(n - 1) /\ m \notin S
    OBVIOUS
  <2>3. \A j \in 0..(m - 1) : j \in S
    <3> SUFFICES ASSUME NEW j \in 0..(m - 1), j \notin S PROVE FALSE
      OBVIOUS
    <3>1. j \in Rest /\ ~(m <= j)
      BY <1>0, <2>2
    <3> QED
      BY <2>1, <3>1
  <2>4. Fits(m, size)
    BY <1>0, <2>2, <2>3
  <2>5. S = 0..(m - 1)
    BY <1>0, <2>2, <2>3, <2>4
  <2>6. Cardinality(0..(m - 1)) = m
    <3>1. CASE m = 0
      <4>1. 0..(m - 1) = {}
        BY <3>1
      <4> QED
        BY <4>1, <3>1, FS_EmptySet
    <3>2. CASE m # 0
      BY <1>0, <2>2, <3>2, FS_Interval
    <3> QED
      BY <3>1, <3>2
  <2>7. Shed(size) = m
    BY <2>5, <2>6 DEF Shed
  <2> QED
    BY <2>4, <2>7
<1> QED
  BY <1>1, <1>2

LEMMA LimitsInit == Init => QueueWithinLimits
<1>1. Len(<<>>) = 0 /\ 0 <= MaxEvents /\ 0 <= MaxQueuedBytes
  BY LimitsAssumption
<1> QED
  BY <1>1, BytesEmpty, Zenon DEF Init, QueueWithinLimits

\* A turn of drainConsumer takes from the queue what it takes off the account.
LEMMA GiveKeepsLimits ==
    ASSUME NEW q \in Seq(Event), q # <<>>, NEW bytes, NEW drops, Give(q, bytes, drops),
           Len(q) <= MaxEvents, bytes = Bytes(q), bytes <= MaxQueuedBytes
    PROVE  QueueWithinLimits'
<1>1. queue' = Tail(q) /\ queueBytes' = bytes - Head(q).size
  BY DEF Give
<1>2. /\ Bytes(Tail(q)) = bytes - Head(q).size /\ Head(q).size \in Nat /\ bytes \in Nat
  BY BytesTail, SizesType
<1>3. Len(Tail(q)) <= MaxEvents
  <2>1. Len(Tail(q)) = Len(q) - 1 /\ Len(q) \in Nat
    BY HeadTailProperties, SizesType
  <2> QED
    BY <2>1, LimitsAssumption
<1>4. bytes - Head(q).size <= MaxQueuedBytes
  BY <1>2, LimitsAssumption
<1> QED
  BY <1>1, <1>2, <1>3, <1>4 DEF QueueWithinLimits

LEMMA LimitsNext == ASSUME EventsInv, QueueWithinLimits, [Next]_vars PROVE QueueWithinLimits'
<1>0. queue \in Seq(Event) /\ received \in Nat
  BY DEF EventsInv
<1>1. ASSUME NEW size \in Sizes, EnqueueEvent(size) PROVE QueueWithinLimits'
  <2> DEFINE k == Shed(size)
             rest == After(queue, k)
             e == [seq |-> received + 1, size |-> size]
             q == Append(rest, e)
             bytes == queueBytes - Bytes(Before(queue, k)) + size
  <2>1. size \in Nat /\ e \in Event /\ e.size = size /\ size <= MaxEventBytes
    BY <1>0, <1>1, LimitsAssumption DEF Event, EnqueueEvent
  <2>2. k \in 0..Len(queue) /\ (k = Len(queue) \/ Fits(k, size))
    BY <1>0, ShedBounded, ShedStops
  <2> HIDE DEF k
  <2>3. /\ rest \in Seq(Event) /\ Len(rest) = Len(queue) - k
        /\ Bytes(rest) = queueBytes - Bytes(Before(queue, k))
        /\ k = Len(queue) => Bytes(rest) = 0
    BY <1>0, <2>2, BytesAfter DEF QueueWithinLimits
  <2> HIDE DEF rest
  <2>4. /\ q \in Seq(Event) /\ q # <<>> /\ Len(q) = Len(rest) + 1 /\ bytes = Bytes(q)
    <3>1. q \in Seq(Event) /\ Len(q) = Len(rest) + 1 /\ Len(rest) \in Nat
      BY <2>1, <2>3, AppendProperties, SizesType
    <3>2. Bytes(q) = Bytes(rest) + size
      BY <2>1, <2>3, BytesAppend
    <3> QED
      BY <3>1, <3>2, <2>3, EmptySeq
  <2>5. Len(q) <= MaxEvents /\ bytes <= MaxQueuedBytes
    <3>1. CASE k = Len(queue)
      BY <3>1, <2>1, <2>3, <2>4, LimitsAssumption
    <3>2. CASE Fits(k, size)
      <4>1. Len(queue) - k < MaxEvents /\ bytes <= MaxQueuedBytes
        BY <3>2 DEF Fits
      <4>2. Len(queue) \in Nat /\ k \in Nat
        BY <1>0, <2>2, SizesType
      <4> QED
        BY <4>1, <4>2, <2>3, <2>4, LimitsAssumption
    <3> QED
      BY <2>2, <3>1, <3>2
  <2> HIDE DEF q, bytes
  <2>6. CASE Give(q, bytes, droppedEvents + k)
    BY <2>4, <2>5, <2>6, GiveKeepsLimits
  <2>7. CASE queue' = q /\ queueBytes' = bytes
    BY <2>4, <2>5, <2>7 DEF QueueWithinLimits
  <2> QED
    BY <1>1, <2>6, <2>7 DEF EnqueueEvent, q, bytes, rest, k, e
<1>2. CASE CallbackReturns
  <2>1. CASE queue # <<>> /\ Give(queue, queueBytes, droppedEvents)
    BY <1>0, <2>1, GiveKeepsLimits DEF QueueWithinLimits
  <2>2. CASE UNCHANGED <<queue, queueBytes>>
    BY <2>2 DEF QueueWithinLimits
  <2> QED
    BY <1>2, <2>1, <2>2 DEF CallbackReturns
<1>3. CASE Deactivate
  <2>1. Len(<<>>) = 0 /\ 0 <= MaxEvents /\ 0 <= MaxQueuedBytes
    BY LimitsAssumption
  <2> QED
    BY <1>3, <2>1, BytesEmpty, Zenon DEF Deactivate, QueueWithinLimits
<1>4. CASE UNCHANGED <<queue, queueBytes>>
  BY <1>4 DEF QueueWithinLimits
<1> QED
  BY <1>1, <1>2, <1>3, <1>4 DEF Next, DropOversized, vars

\* QueueWithinLimits, about the shedding loop of enqueueEvent: whatever the limits and however
\* slowly the callback drains, the queue never exceeds maxEventsPerConsumer events or
\* maxQueuedEventBytes, and queueBytes is the size of what is queued.
THEOREM QueueStaysWithinLimits == Spec => []QueueWithinLimits
<1>1. Init => EventsInv /\ QueueWithinLimits
  BY EventsInvInit, LimitsInit
<1>2. EventsInv /\ QueueWithinLimits /\ [Next]_vars => (EventsInv /\ QueueWithinLimits)'
  BY LimitsAssumption, EventsInvNext, LimitsNext
<1> QED
  BY <1>1, <1>2, PTL DEF Spec
=============================================================================
