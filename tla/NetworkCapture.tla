--------------------------- MODULE NetworkCapture ---------------------------
(***************************************************************************)
(* The network captures of the extension (handlers/network.js).            *)
(*                                                                         *)
(* A start creates a capture object, makes it the tab's capture, and then  *)
(* awaits the release of the capture it replaced, a lease of the tab's CDP *)
(* session, Network.enable and the tab's document.  While it waits, other  *)
(* requests of the same tab, a navigation, the debugger's detachment, or   *)
(* the eviction of retained captures can take the tab from it.             *)
(*                                                                         *)
(* An active capture turns Chrome's Network events into a log.  A request  *)
(* makes one entry for each of its redirect hops, all under one CDP        *)
(* request id.  Chrome sends the headers of a hop's network traffic (the   *)
(* ExtraInfo events) in an order of their own: before or after the hop's   *)
(* other events.                                                           *)
(***************************************************************************)
EXTENDS Integers, Sequences, FiniteSets, SequencesExt

CONSTANTS
    Tabs, Requests,    \* Requests: the CDP request ids of the first tab
    FirstTab,          \* the tab whose traffic is modelled
    Jobs,              \* the commands network.*, 1..n
    Workloads,         \* what the commands are, Chrome's traffic, and the bounds of both
    MAX_CAPTURES, MAX_ENTRIES, MAX_BUFFER_BYTES, MAX_ENTRY_BYTES,
    MAX_PENDING_EXTRA_EVENTS,
    ReadLimit,         \* the limit of a read
    RETAINED_TTL

ASSUME NetworkAssumption ==
    /\ FirstTab \in Tabs /\ IsFiniteSet(Jobs) /\ 0 \notin Jobs /\ IsFiniteSet(Requests)
    /\ {MAX_CAPTURES, MAX_ENTRIES, MAX_BUFFER_BYTES, MAX_ENTRY_BYTES, ReadLimit} \subseteq Nat \ {0}
    /\ MAX_ENTRY_BYTES <= MAX_BUFFER_BYTES /\ MAX_PENDING_EXTRA_EVENTS \in Nat

VARIABLES
    captures,   \* the tab's capture, named by the command that created it, or None
    cap,        \* the capture objects
    lease,      \* the lease of a capture, as the session manager sees it
    doc,        \* the root document of every tab
    now,
    detaches,
    job,        \* the commands
    load,       \* the workload
    sent,       \* how many of a request's events Chrome has sent, and which ExtraInfo events
    partial     \* history: the requests of which a capture has not all events and entries

vars == <<captures, cap, lease, doc, now, detaches, job, load, sent, partial>>
world == <<doc, now, detaches, load, sent>>

None == 0
Never == 1000
Kinds == {"request", "response"}
Nothing == [r \in Requests |-> <<>>]
NoRecords == [r \in Requests |-> {}]
Unsent == [main |-> 0, extra |-> {}]

----------------------------------------------------------------------------
(* The log of a capture.  An entry is named by its sequence number.        *)

CreateCapture(tab, document) ==
    [tab |-> tab, document |-> document, expiresAt |-> Never, active |-> TRUE, lease |-> FALSE,
     records |-> <<>>, entries |-> <<>>, byEntryId |-> {},
     currentByRequest |-> [r \in Requests |-> None], recordsByRequest |-> NoRecords,
     pendingExtra |-> [k \in Kinds |-> Nothing], pendingExtraEvents |-> 0,
     bufferedBytes |-> 0, evicted |-> 0, droppedEvents |-> 0]

DisableBodyAccess(c) ==
    [c EXCEPT !.byEntryId = {}, !.currentByRequest = [r \in Requests |-> None],
              !.recordsByRequest = NoRecords, !.pendingExtra = [k \in Kinds |-> Nothing],
              !.pendingExtraEvents = 0]

ClearCapture(c) ==
    [DisableBodyAccess(c) EXCEPT !.entries = <<>>, !.bufferedBytes = 0, !.evicted = 0,
                                 !.droppedEvents = 0]

Sum(c, held) == SumFunctionOnSet([n \in DOMAIN c.records |-> c.records[n].bytes], held)
Oldest(c, k) == {c.entries[i] : i \in 1..k}

\* Fault: an evicted entry stays the current one of its request.
EvictKeepsCurrent(c, k) ==
    LET gone == Oldest(c, k)
    IN  [c EXCEPT
           !.entries = SubSeq(@, k + 1, Len(@)),
           !.bufferedBytes = @ - Sum(c, gone),
           !.byEntryId = @ \ gone,
           !.recordsByRequest = [r \in Requests |-> @[r] \ gone],
           !.evicted = @ + k]

\* The k oldest entries leave the log.
Evict(c, k) ==
    LET gone == Oldest(c, k)
    IN  [c EXCEPT
           !.entries = SubSeq(@, k + 1, Len(@)),
           !.bufferedBytes = @ - Sum(c, gone),
           !.byEntryId = @ \ gone,
           !.currentByRequest = [r \in Requests |-> IF @[r] \in gone THEN None ELSE @[r]],
           !.recordsByRequest = [r \in Requests |-> @[r] \ gone],
           !.evicted = @ + k]

EvictCapture(c) ==
    LET fits(k) == /\ Len(c.entries) - k <= MAX_ENTRIES
                   /\ c.bufferedBytes - Sum(c, Oldest(c, k)) <= MAX_BUFFER_BYTES
        enough == {k \in 0..Len(c.entries) : fits(k) \/ k = Len(c.entries)}
    IN  Evict(c, CHOOSE k \in enough : \A other \in enough : k <= other)

\* byteLength of the public entry, after boundPublicEntry: it grows with what is known.
Bytes(record) ==
    LET bytes == 1 + (IF record.headers = "none" THEN 0 ELSE 1) + (IF record.completed THEN 1 ELSE 0)
    IN  IF bytes > MAX_ENTRY_BYTES THEN MAX_ENTRY_BYTES ELSE bytes

UpdateRecord(c, n) ==
    LET bytes == Bytes(c.records[n])
    IN  EvictCapture([c EXCEPT !.bufferedBytes = @ - c.records[n].bytes + bytes,
                               !.records[n].bytes = bytes])

\* updateCurrent: an event of a request that is not in the log is ignored.
UpdateCurrent(c, r, Mutate(_)) ==
    LET n == c.currentByRequest[r]
    IN  IF n = None THEN c ELSE UpdateRecord([c EXCEPT !.records[n] = Mutate(@)], n)

ApplyResponse(record, hasExtraInfo) ==
    [record EXCEPT !.headers = "response",
                   !.applied = IF hasExtraInfo THEN @ ELSE @ \cup {"response"}]
FinishRecord(record, redirect) == [record EXCEPT !.completed = TRUE, !.redirect = redirect]
FailRecord(record) == [record EXCEPT !.completed = TRUE, !.failed = TRUE]

Extended(record, kind, hop) ==
    [record EXCEPT !.applied = @ \cup {kind}, !.extra[kind] = hop,
                   !.headers = IF kind = "response" THEN "extra" ELSE @]
ApplyNormalizedExtra(c, n, kind, hop) ==
    UpdateRecord([c EXCEPT !.records[n] = Extended(@, kind, hop)], n)

\* Fault: the extra headers always go to the newest hop.
NewestExtraRecord(c, r, kind) == {n \in {c.currentByRequest[r]} \ {None} : kind \notin c.records[n].applied}

\* The oldest hop of the request that still misses its extra headers: at most one entry.
NextExtraRecord(c, r, kind) ==
    LET missing == {n \in c.recordsByRequest[r] : kind \notin c.records[n].applied}
    IN  {n \in missing : \A other \in missing : n <= other}

\* The limit on their bytes, left out, drops events in the same way.
QueuePendingExtra(c, r, kind, hop) ==
    IF c.pendingExtraEvents >= MAX_PENDING_EXTRA_EVENTS
    THEN [c EXCEPT !.droppedEvents = @ + 1]
    ELSE [c EXCEPT !.pendingExtra[kind][r] = Append(@, hop), !.pendingExtraEvents = @ + 1]

ApplyExtraInfo(c, r, kind, hop) ==
    LET next == NextExtraRecord(c, r, kind)
    IN  IF next = {} THEN QueuePendingExtra(c, r, kind, hop)
        ELSE ApplyNormalizedExtra(c, CHOOSE n \in next : TRUE, kind, hop)

\* The loop ends after one round: only the entry just added can miss what is pending.
DrainPendingExtra(c, r, kind) ==
    LET next == NextExtraRecord(c, r, kind)
        extras == c.pendingExtra[kind][r]
    IN  IF next = {} \/ extras = <<>> THEN c
        ELSE ApplyNormalizedExtra([c EXCEPT !.pendingExtra[kind][r] = Tail(@),
                                            !.pendingExtraEvents = @ - 1],
                                  CHOOSE n \in next : TRUE, kind, Head(extras))

\* The request, or its redirection: the entry before is completed and linked to the new one.
HandleRequest(c, r, hop) ==
    LET previous == c.currentByRequest[r]
        redirected == previous # None /\ hop > 1
        n == Len(c.records) + 1
        linked == IF ~redirected THEN c ELSE
            UpdateRecord([c EXCEPT !.records[previous] =
                            [FinishRecord(ApplyResponse(@, load.chain[r][hop - 1]), TRUE)
                               EXCEPT !.redirectTo = n]], previous)
        record == [request |-> r, hop |-> hop, headers |-> "none", completed |-> FALSE,
                   failed |-> FALSE, redirect |-> FALSE, redirectTo |-> None, applied |-> {},
                   extra |-> [k \in Kinds |-> None], bytes |-> 0]
        added == [linked EXCEPT !.records = Append(@, record), !.entries = Append(@, n),
                                !.byEntryId = @ \cup {n}, !.currentByRequest[r] = n,
                                !.recordsByRequest[r] = @ \cup {n}]
    IN  UpdateRecord(DrainPendingExtra(DrainPendingExtra(added, r, "request"), r, "response"), n)

----------------------------------------------------------------------------
(* Chrome's events.                                                        *)

Hops(r) == Len(load.chain[r])

\* The ExtraInfo events of a request, in their order: for every hop that has them, first the request's.
ExtraEvents(r) == {e \in [kind : Kinds, hop : 1..Hops(r)] : load.chain[r][e.hop]}
Before(e, f) == e.hop < f.hop \/ (e.hop = f.hop /\ e.kind = "request" /\ f.kind = "response")

\* The lease's onEvent, while the capture is active.
Hears(j) == cap[j].active /\ lease[j] = "held" /\ cap[j].tab = FirstTab

\* What every capture makes of an event of r.
Heard(r, Handle(_)) ==
    /\ cap' = [j \in Jobs |-> IF Hears(j) THEN Handle(cap[j]) ELSE cap[j]]
    /\ partial' = partial \cup {<<j, r>> : j \in {i \in Jobs :
                                   ~Hears(i) \/ cap'[i].droppedEvents # cap[i].droppedEvents}}
                          \cup UNION {{<<j, cap[j].records[n].request>> :
                                   n \in Range(cap[j].entries) \ Range(cap'[j].entries)} : j \in Jobs}
    /\ UNCHANGED <<captures, lease, doc, now, detaches, job, load>>

RequestWillBeSent(r) ==
    /\ sent[r].main < Hops(r)
    /\ sent' = [sent EXCEPT ![r].main = @ + 1]
    /\ Heard(r, LAMBDA c : HandleRequest(c, r, sent[r].main + 1))

ResponseReceived(r) ==
    /\ Hops(r) > 0 /\ sent[r].main = Hops(r)
    /\ sent' = [sent EXCEPT ![r].main = @ + 1]
    /\ Heard(r, LAMBDA c : UpdateCurrent(c, r, LAMBDA record :
                    ApplyResponse(record, load.chain[r][Hops(r)])))

\* loadingFinished, or loadingFailed with or without a response.
LoadingEnds(r) ==
    /\ Hops(r) > 0 /\ sent[r].main \in {Hops(r), Hops(r) + 1}
    /\ sent' = [sent EXCEPT ![r].main = Hops(r) + 2]
    /\ \/ /\ sent[r].main = Hops(r) + 1
          /\ Heard(r, LAMBDA c : UpdateCurrent(c, r, LAMBDA record : FinishRecord(record, FALSE)))
       \/ Heard(r, LAMBDA c : UpdateCurrent(c, r, LAMBDA record : FailRecord(record)))

\* The traffic of a hop can be reported before the hop is, not before the hop before it.
ExtraInfo(r) ==
    /\ \E e \in ExtraEvents(r) \ sent[r].extra :
          /\ \A other \in ExtraEvents(r) : Before(other, e) => other \in sent[r].extra
          /\ e.hop <= sent[r].main + 1
          /\ sent' = [sent EXCEPT ![r].extra = @ \cup {e}]
          /\ Heard(r, LAMBDA c : ApplyExtraInfo(c, r, e.kind, e.hop))

----------------------------------------------------------------------------
(* The captures of the tabs.                                               *)

Current(j) == captures[cap[j].tab] = j
CurrentAndActive(j) == cap[j].active /\ Current(j)
Retained == {j \in Jobs : captures[cap[j].tab] = j}

\* releaseCapture up to its await: whether it awaits the lease's release, and the capture after it.
Awaits(j) == cap[j].active /\ cap[j].lease
Released(c) == [DisableBodyAccess(c) EXCEPT !.active = FALSE, !.lease = FALSE,
                                            !.expiresAt = now + RETAINED_TTL]
Releasing(c) == [c EXCEPT !.active = FALSE, !.lease = FALSE]

ReleaseCapture(j) ==
    IF Awaits(j)
    THEN /\ cap' = [cap EXCEPT ![j] = Releasing(@)]
         /\ lease' = [lease EXCEPT ![j] = "releasing"]
    ELSE /\ cap' = [cap EXCEPT ![j] = Released(@)]
         /\ UNCHANGED lease

\* The lease is released, and releaseCapture, or the catch of start, goes on.
ReleaseEnds(j) ==
    /\ lease[j] = "releasing"
    /\ lease' = [lease EXCEPT ![j] = "gone"]
    /\ IF job[j].mode = "undo"
       THEN /\ job' = [job EXCEPT ![j].mode = "failed"]
            /\ UNCHANGED cap
       ELSE /\ cap' = [cap EXCEPT ![j] = Released(@)]
            /\ UNCHANGED job
    /\ UNCHANGED <<captures, world, partial>>

\* Fault: the navigation stops the capture and leaves it to the tab.
NavigateRetains(tab) ==
    /\ doc[tab] < load.documents
    /\ doc' = [doc EXCEPT ![tab] = @ + 1]
    /\ IF captures[tab] = None THEN UNCHANGED <<cap, lease>> ELSE ReleaseCapture(captures[tab])
    /\ UNCHANGED <<captures, now, detaches, job, load, sent, partial>>

\* onCommitted of the root frame.
Navigate(tab) ==
    /\ doc[tab] < load.documents
    /\ doc' = [doc EXCEPT ![tab] = @ + 1]
    /\ captures' = [captures EXCEPT ![tab] = None]
    /\ IF captures[tab] = None THEN UNCHANGED <<cap, lease>> ELSE ReleaseCapture(captures[tab])
    /\ UNCHANGED <<now, detaches, job, load, sent, partial>>

\* onDetach of a lease.
Detach(j) ==
    /\ lease[j] = "held" /\ detaches < load.detaches
    /\ detaches' = detaches + 1
    /\ lease' = [lease EXCEPT ![j] = "gone"]
    /\ cap' = [cap EXCEPT ![j] = Released(@)]
    /\ UNCHANGED <<captures, doc, now, job, load, sent, partial>>

Tick ==
    /\ now < load.time
    /\ now' = now + 1
    /\ UNCHANGED <<captures, cap, lease, doc, detaches, job, load, sent, partial>>

----------------------------------------------------------------------------
(* The commands.                                                           *)

Fails(j) == job' = [job EXCEPT ![j].mode = "failed"]
Goes(j, mode) == job' = [job EXCEPT ![j].mode = mode]

CleanupExpired ==
    [t \in Tabs |-> IF captures[t] # None /\ ~cap[captures[t]].active
                       /\ cap[captures[t]].expiresAt <= now
                    THEN None ELSE captures[t]]

\* The cursors that a client can have: none, or the last one of an earlier read.
Cursors == {[cursor |-> None, from |-> None]}
           \cup {[cursor |-> job[i].result.next, from |-> i] :
                   i \in {i \in Jobs : job[i].mode = "done" /\ job[i].op = "read"
                                       /\ job[i].result.next # None}}

Begin(j) ==
    /\ job[j].mode = "new"
    /\ captures' = CleanupExpired
    /\ IF job[j].op = "read"
       THEN \E c \in Cursors : job' = [job EXCEPT ![j].mode = "prepare", ![j].params = c]
       ELSE Goes(j, "prepare")
    /\ UNCHANGED <<cap, lease, world, partial>>

\* Whatever the command awaits can fail: Chrome's answer, or a cancellation or timeout.
Refused(j) ==
    /\ job[j].mode \in {"prepare", "recheck", "body", "bodySent"}
    /\ job[j].op # "start" \/ job[j].mode = "prepare"
    /\ Fails(j)
    /\ UNCHANGED <<captures, cap, lease, world, partial>>

\* The captures that reserveCaptureSlot may evict for one of the tab: the first to expire.
Evictable(tab) ==
    {j \in Retained : /\ cap[j].tab # tab /\ ~cap[j].active
                      /\ \A i \in Retained : ~cap[i].active /\ cap[i].tab # tab =>
                             cap[j].expiresAt <= cap[i].expiresAt}

\* The capture of start j replaces its tab's, whose release begins; the evicted leave the map.
Installed(j, evicted) ==
    LET tab == job[j].tab
        previous == captures[tab]
    IN  /\ captures' = [t \in Tabs |-> IF t = tab THEN j
                                       ELSE IF captures[t] \in evicted THEN None
                                       ELSE captures[t]]
        /\ cap' = [i \in Jobs |->
              IF i = j THEN CreateCapture(tab, doc[tab])
              ELSE IF i = previous THEN IF Awaits(i) THEN Releasing(cap[i]) ELSE Released(cap[i])
              ELSE IF i \in evicted THEN DisableBodyAccess(cap[i])
              ELSE cap[i]]
        /\ lease' = [i \in Jobs |-> IF i = previous /\ Awaits(i) THEN "releasing" ELSE lease[i]]
        /\ job' = [job EXCEPT ![j].mode = "replaced",
                              ![j].waits = IF previous # None /\ Awaits(previous)
                                           THEN previous ELSE None]

\* prepareTarget has answered: the capture takes a slot, a retained one's when all are taken.
StartCapture(j) ==
    /\ job[j].mode = "prepare" /\ job[j].op = "start"
    /\ LET tab == job[j].tab
           full == Cardinality({i \in Retained : cap[i].tab # tab}) >= MAX_CAPTURES
       IN  \/ ~full /\ Installed(j, {})
           \/ full /\ \E i \in Evictable(tab) : Installed(j, {i})
           \/ full /\ Evictable(tab) = {} /\ Fails(j) /\ UNCHANGED <<captures, cap, lease>>
    /\ UNCHANGED <<world, partial>>

\* Fault: start does not release the lease it got when the capture was superseded.
CatchWithoutRelease(j, holds) ==
    /\ captures' = [captures EXCEPT ![job[j].tab] = IF @ = j THEN None ELSE @]
    /\ cap' = [cap EXCEPT ![j].active = FALSE]
    /\ Fails(j)
    /\ lease' = IF holds THEN [lease EXCEPT ![j] = "held"] ELSE lease

\* The catch of start; holds: capture.lease is the lease that start acquired.
Catch(j, holds) ==
    /\ captures' = [captures EXCEPT ![job[j].tab] = IF @ = j THEN None ELSE @]
    /\ cap' = [cap EXCEPT ![j].active = FALSE, ![j].lease = FALSE]
    /\ IF holds
       THEN lease' = [lease EXCEPT ![j] = "releasing"] /\ Goes(j, "undo")
       ELSE lease' = lease /\ Fails(j)

PreviousReleased(j) ==
    /\ job[j].mode = "replaced"
    /\ job[j].waits # None => lease[job[j].waits] = "gone"
    /\ IF CurrentAndActive(j)
       THEN Goes(j, "acquire") /\ UNCHANGED <<captures, cap, lease>>
       ELSE Catch(j, FALSE)
    /\ UNCHANGED <<world, partial>>

Acquired(j) ==
    /\ job[j].mode = "acquire"
    /\ \/ /\ CurrentAndActive(j)
          /\ cap' = [cap EXCEPT ![j].lease = TRUE]
          /\ lease' = [lease EXCEPT ![j] = "held"]
          /\ Goes(j, "enable") /\ UNCHANGED captures
       \/ ~CurrentAndActive(j) /\ Catch(j, TRUE)
       \/ Catch(j, FALSE)
    /\ UNCHANGED <<world, partial>>

\* Network.enable is answered, or refused because the lease is no longer held, or for another reason.
Enabled(j) ==
    /\ job[j].mode = "enable"
    /\ \/ lease[j] = "held" /\ CurrentAndActive(j) /\ Goes(j, "recheck")
          /\ UNCHANGED <<captures, cap, lease>>
       \/ Catch(j, cap[j].lease)
    /\ UNCHANGED <<world, partial>>

Started(j) ==
    /\ job[j].mode = "recheck" /\ job[j].op = "start"
    /\ \/ /\ doc[cap[j].tab] = cap[j].document /\ CurrentAndActive(j)
          /\ Goes(j, "done") /\ UNCHANGED <<captures, cap, lease>>
       \/ Catch(j, cap[j].lease)
    /\ UNCHANGED <<world, partial>>

----------------------------------------------------------------------------
(* The commands on a capture: withCaptureCommand.                          *)

\* prepareTarget has answered, and the tab's capture is the document's.
Finds(j, op) ==
    /\ job[j].mode = "prepare" /\ job[j].op = op
    /\ captures[job[j].tab] # None
    /\ cap[captures[job[j].tab]].document = doc[job[j].tab]

Missing(j) ==
    /\ job[j].mode = "prepare" /\ job[j].op # "start"
    /\ captures[job[j].tab] # None => cap[captures[job[j].tab]].document # doc[job[j].tab]
    /\ Fails(j)
    /\ UNCHANGED <<captures, cap, lease, world, partial>>

Stop(j) ==
    /\ Finds(j, "stop")
    /\ LET c == captures[job[j].tab]
       IN  /\ ReleaseCapture(c)
           /\ job' = [job EXCEPT ![j].of = c, ![j].mode = IF Awaits(c) THEN "stopping" ELSE "recheck"]
    /\ UNCHANGED <<captures, world, partial>>

Stopped(j) ==
    /\ job[j].mode = "stopping" /\ lease[job[j].of] = "gone"
    /\ Goes(j, "recheck")
    /\ UNCHANGED <<captures, cap, lease, world, partial>>

Clear(j) ==
    /\ Finds(j, "clear")
    /\ LET c == captures[job[j].tab]
       IN  /\ cap' = [cap EXCEPT ![c] = ClearCapture(@)]
           /\ job' = [job EXCEPT ![j].of = c, ![j].mode = "recheck"]
           /\ partial' = partial \cup {<<c, r>> : r \in {s \in Requests : sent[s] # Unsent}}
    /\ UNCHANGED <<captures, lease, world>>

FirstSequence(c) == IF c.entries = <<>> THEN Len(c.records) + 1 ELSE c.entries[1]

\* Fault: a cursor one entry behind the log counts as valid.
ExpiredLate(c, cursor) == cursor > 0 /\ cursor < FirstSequence(c) - 2

Expired(c, cursor) == cursor > 0 /\ cursor < FirstSequence(c) - 1

\* The page of the log after the cursor, and the cursor of the next one.
ReadCapture(c, cursor) ==
    LET matching == {n \in Range(c.entries) : n > cursor}
        page == {n \in matching : Cardinality({m \in matching : m <= n}) <= ReadLimit}
        more == page # matching
    IN  [entries |-> page, next |-> IF more THEN Max(page) ELSE None,
         expired |-> Expired(c, cursor), upTo |-> IF more THEN Max(page) ELSE Len(c.records)]

Read(j) ==
    /\ Finds(j, "read")
    /\ LET c == captures[job[j].tab]
       IN  job' = [job EXCEPT ![j].of = c, ![j].mode = "recheck",
                              ![j].result = ReadCapture(cap[c], job[j].params.cursor)]
    /\ UNCHANGED <<captures, cap, lease, world, partial>>

\* encodeHAR: the newest entries that fit; a HAR of half the buffer.
ExportHAR(j) ==
    /\ Finds(j, "har")
    /\ LET c == captures[job[j].tab]
           entries == cap[c].entries
           fits == {k \in 0..Len(entries) :
                      Sum(cap[c], Range(SubSeq(entries, k + 1, Len(entries)))) <= MAX_BUFFER_BYTES \div 2}
           first == CHOOSE k \in fits : \A other \in fits : k <= other
       IN  job' = [job EXCEPT ![j].of = c, ![j].mode = "recheck",
                      ![j].result.entries = Range(SubSeq(entries, first + 1, Len(entries)))]
    /\ UNCHANGED <<captures, cap, lease, world, partial>>

\* Fault: the body of a response that is not completed counts as available.
AvailableEarly(record, direction) ==
    ~record.redirect /\ (direction = "response" => ~record.failed)

\* updateBodyAvailability, of a textual body of the document's origin.
BodyAvailable(record, direction) ==
    ~record.redirect /\ (direction = "response" => record.completed /\ ~record.failed)

GetBody(j) ==
    /\ \E direction \in Kinds :
         /\ Finds(j, "body")
         /\ LET c == captures[job[j].tab]
                available == {n \in cap[c].byEntryId : BodyAvailable(cap[c].records[n], direction)}
            IN  IF ~cap[c].active \/ ~cap[c].lease \/ available = {}
                THEN Fails(j)
                ELSE \E n \in available :
                        job' = [job EXCEPT ![j].of = c, ![j].entry = n, ![j].mode = "body",
                                           ![j].params.direction = direction]
    /\ UNCHANGED <<captures, cap, lease, world, partial>>

\* recheckTarget has answered: the command goes to the lease, if the capture still has one.
SendBodyCommand(j) ==
    /\ job[j].mode = "body"
    /\ IF doc[job[j].tab] = cap[job[j].of].document /\ cap[job[j].of].lease
       THEN Goes(j, "bodySent") ELSE Fails(j)
    /\ UNCHANGED <<captures, cap, lease, world, partial>>

\* Chrome answers with the body of the hop that the request has reached.
ReachedHop(r) == IF sent[r].main > Hops(r) THEN Hops(r) ELSE sent[r].main
BodyAnswered(j) ==
    /\ job[j].mode = "bodySent" /\ lease[job[j].of] = "held"
    /\ job' = [job EXCEPT ![j].mode = "recheck",
                  ![j].body = ReachedHop(cap[job[j].of].records[job[j].entry].request)]
    /\ UNCHANGED <<captures, cap, lease, world, partial>>

Answer(j) ==
    /\ job[j].mode = "recheck" /\ job[j].op # "start"
    /\ doc[job[j].tab] = cap[job[j].of].document
    /\ Goes(j, "done")
    /\ UNCHANGED <<captures, cap, lease, world, partial>>

----------------------------------------------------------------------------
\* A workload: the commands, whether the hops of every request have ExtraInfo events, and the
\* bounds: the documents of a tab, the detachments, the time.
Workload(commands, chain, documents, detachments, time) ==
    [commands |-> commands, chain |-> chain, documents |-> documents,
     detaches |-> detachments, time |-> time]
Command(op, tab) ==
    [op |-> op, tab |-> tab, mode |-> "new", of |-> None, waits |-> None, entry |-> None,
     body |-> None, params |-> [cursor |-> None, from |-> None, direction |-> "response"],
     result |-> [entries |-> {}, next |-> None, expired |-> FALSE, upTo |-> None]]

\* A client sends commands of the six kinds to tabs, and may send fewer than there are Jobs.
Ops == {"start", "stop", "clear", "read", "har", "body"}
Commands == {[Command(op, tab) EXCEPT !.mode = mode] :
               op \in Ops, tab \in Tabs, mode \in {"new", "failed"}}

ASSUME WorkloadAssumption ==
    \A w \in Workloads : w.commands \in [Jobs -> Commands] /\ w.chain \in [Requests -> Seq(BOOLEAN)]

Init ==
    /\ captures = [t \in Tabs |-> None]
    /\ lease = [j \in Jobs |-> "none"]
    /\ doc = [t \in Tabs |-> 1]
    /\ now = 0 /\ detaches = 0 /\ partial = {}
    /\ sent = [r \in Requests |-> Unsent]
    /\ \E w \in Workloads :
         /\ job = w.commands /\ load = w
         /\ cap = [j \in Jobs |-> [CreateCapture(w.commands[j].tab, 1) EXCEPT !.active = FALSE]]

Step(j) ==
    \/ Begin(j) \/ Refused(j) \/ StartCapture(j) \/ PreviousReleased(j) \/ Acquired(j)
    \/ Enabled(j) \/ Started(j) \/ Missing(j) \/ Stop(j) \/ Stopped(j) \/ Clear(j) \/ Read(j)
    \/ ExportHAR(j) \/ GetBody(j) \/ SendBodyCommand(j) \/ BodyAnswered(j) \/ Answer(j)
    \/ ReleaseEnds(j)

Event(r) == RequestWillBeSent(r) \/ ResponseReceived(r) \/ LoadingEnds(r) \/ ExtraInfo(r)

Next ==
    \/ \E j \in Jobs : Step(j) \/ Detach(j)
    \/ \E r \in Requests : Event(r)
    \/ \E t \in Tabs : Navigate(t)
    \/ Tick

Spec == Init /\ [][Next]_vars

----------------------------------------------------------------------------
(* Properties.                                                             *)

\* A lease of the CDP session that is not being released belongs to the active capture of a
\* tab, and an active capture whose start has answered has its lease: whatever superseded a
\* start while it waited (another start, stop, a navigation, a detachment, the eviction of
\* retained captures), no debugger attachment outlives the capture it was acquired for.
LeaseHasCapture ==
    \A j \in Jobs :
       /\ lease[j] = "held" => CurrentAndActive(j) /\ cap[j].lease
       /\ CurrentAndActive(j) /\ job[j].mode = "done" => lease[j] = "held"

\* The capture that a tab has once its start has answered, retained ones too, is of the
\* document that the tab shows: a navigation during start, before or after the capture is in
\* the map, never leaves the log of an earlier document behind.
CaptureOfDocument ==
    \A t \in Tabs :
       captures[t] # None /\ job[captures[t]].mode = "done" =>
           cap[captures[t]].document = doc[t]

\* The counters of a log agree with what it holds, and its indexes name only entries that are
\* still in it: late events of evicted entries change nothing, and the limits hold.
LogConsistent ==
    \A j \in Jobs :
       LET c == cap[j]
           held == Range(c.entries)
       IN  /\ c.bufferedBytes = Sum(c, held)
           /\ c.bufferedBytes <= MAX_BUFFER_BYTES /\ Len(c.entries) <= MAX_ENTRIES
           /\ c.byEntryId \subseteq held
           /\ \A r \in Requests :
                 /\ c.currentByRequest[r] \in held \cup {None}
                 /\ c.recordsByRequest[r] \subseteq held
           /\ c.pendingExtraEvents = SumFunction([kr \in Kinds \X Requests |->
                                                    Len(c.pendingExtra[kr[1]][kr[2]])])

\* No hop without ExtraInfo events comes before one with them.
Regular(r) == \A h \in 1..Hops(r) : load.chain[r][h] => \A i \in 1..h : load.chain[r][i]

\* The extra headers of an entry are those of its own redirect hop, in whatever order Chrome
\* reports them: for a request of which the capture has seen every event and kept every entry,
\* and whose hops have extra headers up to some hop (they go to the oldest entry that misses
\* them, so a hop that has none would get those of a later one).
ExtrasPaired ==
    \A j \in Jobs : \A n \in 1..Len(cap[j].records) :
       LET record == cap[j].records[n]
       IN  <<j, record.request>> \notin partial /\ Regular(record.request) =>
              \A k \in Kinds : record.extra[k] \in {None, record.hop}

\* The response body that getBody returns is the one of the entry it was asked for, although
\* the request's hops share one CDP request id and the entry is checked before two awaits.
ResponseBodyIsOfEntry ==
    \A j \in Jobs :
       job[j].mode = "done" /\ job[j].op = "body" /\ job[j].params.direction = "response" =>
           job[j].body = cap[job[j].of].records[job[j].entry].hop

\* A client that follows the cursor of a read misses no entry without being told: the next
\* read returns every entry after the cursor, or warns that the cursor expired, also when
\* entries were evicted or cleared in between.
ReadsHaveNoHole ==
    \A j \in Jobs :
       LET from == job[j].params.from
           result == job[j].result
       IN  job[j].mode = "done" /\ job[j].op = "read" /\ from # None /\ job[from].of = job[j].of
             => result.expired \/ result.entries = (job[j].params.cursor + 1)..result.upTo
====
