------------------------ MODULE NetworkCaptureProofs ------------------------
(***************************************************************************)
(* The captures of the tabs, their leases, their documents and their logs, *)
(* for every set of tabs, finite sets of requests and of commands, every   *)
(* workload and every limit.                                               *)
(*                                                                         *)
(* CaptureInv is about who has a lease.  LogInv is about the logs: an      *)
(* operation on the log is shown to write one record, to add one or to     *)
(* evict the oldest; a capture that hears an event of Chrome follows what  *)
(* Chrome has sent; every other step is quiet, it keeps the log or forgets *)
(* what it holds; and the commands carry what they found in it.            *)
(***************************************************************************)
EXTENDS NetworkCapture, Sums, SequenceTheorems, TLAPS

-----------------------------------------------------------------------------
(* The log does not touch what a capture is of.                            *)

CaptureFields ==
    {"tab", "document", "expiresAt", "active", "lease", "records", "entries", "byEntryId",
     "currentByRequest", "recordsByRequest", "pendingExtra", "pendingExtraEvents",
     "bufferedBytes", "evicted", "droppedEvents"}

\* A capture object has its fields, whatever they hold.
IsCapture(c) == c = [f \in CaptureFields |-> c[f]]

\* d is c with another log.
SameHead(c, d) ==
    /\ IsCapture(d)
    /\ d.tab = c.tab /\ d.document = c.document /\ d.active = c.active /\ d.lease = c.lease

\* Eviction of entries leaves the head alone.
LEMMA EvictHead == ASSUME NEW c, IsCapture(c), NEW k PROVE SameHead(c, Evict(c, k))
BY DEF IsCapture, SameHead, Evict, CaptureFields

\* So does updateRecord, which measures an entry and evicts.
LEMMA UpdateHead == ASSUME NEW c, IsCapture(c), NEW n PROVE SameHead(c, UpdateRecord(c, n))
<1> DEFINE bytes == Bytes(c.records[n])
           d == [c EXCEPT !.bufferedBytes = @ - c.records[n].bytes + bytes,
                          !.records[n].bytes = bytes]
<1>1. SameHead(c, d)
  BY DEF IsCapture, SameHead, CaptureFields
<1>2. UpdateRecord(c, n) = EvictCapture(d)
  BY DEF UpdateRecord
<1> HIDE DEF d
<1>3. PICK k : EvictCapture(d) = Evict(d, k)
  BY DEF EvictCapture
<1>4. SameHead(d, Evict(d, k))
  BY <1>1, EvictHead DEF SameHead
<1> QED
  BY <1>1, <1>2, <1>3, <1>4 DEF SameHead

\* The value v that an event gives to record n, in an entry that is then measured again.
LEMMA MutateHead ==
    ASSUME NEW c, IsCapture(c), NEW n, NEW v
    PROVE  SameHead(c, UpdateRecord([c EXCEPT !.records[n] = v], n))
<1> DEFINE d == [c EXCEPT !.records[n] = v]
<1>1. SameHead(c, d)
  BY DEF IsCapture, SameHead, CaptureFields
<1> HIDE DEF d
<1>2. SameHead(d, UpdateRecord(d, n))
  BY <1>1, UpdateHead DEF SameHead
<1>3. SameHead(c, UpdateRecord(d, n))
  BY <1>1, <1>2 DEF SameHead
<1> QED
  BY <1>3 DEF d

\* The extra headers of a hop, applied to its entry.
LEMMA NormalizedHead ==
    ASSUME NEW c, IsCapture(c), NEW n, NEW kind, NEW hop
    PROVE  SameHead(c, ApplyNormalizedExtra(c, n, kind, hop))
BY MutateHead DEF ApplyNormalizedExtra

\* applyExtraInfo, which applies or queues them.
LEMMA ExtraHead ==
    ASSUME NEW c, IsCapture(c), NEW r, NEW kind, NEW hop
    PROVE  SameHead(c, ApplyExtraInfo(c, r, kind, hop))
<1>1. SameHead(c, QueuePendingExtra(c, r, kind, hop))
  BY DEF QueuePendingExtra, IsCapture, SameHead, CaptureFields
<1>2. \A n : SameHead(c, ApplyNormalizedExtra(c, n, kind, hop))
  BY NormalizedHead
<1> QED
  BY <1>1, <1>2 DEF ApplyExtraInfo

\* drainPendingExtra, which applies a queued one.
LEMMA DrainHead ==
    ASSUME NEW c, IsCapture(c), NEW r, NEW kind
    PROVE  SameHead(c, DrainPendingExtra(c, r, kind))
<1> DEFINE d == [c EXCEPT !.pendingExtra[kind][r] = Tail(@), !.pendingExtraEvents = @ - 1]
<1>1. SameHead(c, d)
  BY DEF IsCapture, SameHead, CaptureFields
<1>2. SameHead(c, c)
  BY DEF SameHead
<1>3. \/ DrainPendingExtra(c, r, kind) = c
      \/ \E n, hop : DrainPendingExtra(c, r, kind) = ApplyNormalizedExtra(d, n, kind, hop)
  BY DEF DrainPendingExtra
<1> HIDE DEF d
<1>4. \A n, hop : SameHead(d, ApplyNormalizedExtra(d, n, kind, hop))
  BY <1>1, NormalizedHead DEF SameHead
<1> QED
  BY <1>1, <1>2, <1>3, <1>4 DEF SameHead

\* handleRequest: the redirected entry is completed and a new one added.
LEMMA RequestHead ==
    ASSUME NEW c, IsCapture(c), NEW r, NEW hop
    PROVE  SameHead(c, HandleRequest(c, r, hop))
<1> DEFINE n == Len(c.records) + 1
           p == c.currentByRequest[r]
           v == [FinishRecord(ApplyResponse(c.records[p], load.chain[r][hop - 1]), TRUE)
                   EXCEPT !.redirectTo = n]
           linked == IF ~(p # None /\ hop > 1) THEN c
                     ELSE UpdateRecord([c EXCEPT !.records[p] = v], p)
           record == [request |-> r, hop |-> hop, headers |-> "none", completed |-> FALSE,
                      failed |-> FALSE, redirect |-> FALSE, redirectTo |-> None, applied |-> {},
                      extra |-> [k \in Kinds |-> None], bytes |-> 0]
           added == [linked EXCEPT !.records = Append(@, record), !.entries = Append(@, n),
                                   !.byEntryId = @ \cup {n}, !.currentByRequest[r] = n,
                                   !.recordsByRequest[r] = @ \cup {n}]
           first == DrainPendingExtra(added, r, "request")
           second == DrainPendingExtra(first, r, "response")
<1>0. HandleRequest(c, r, hop) = UpdateRecord(second, n)
  BY DEF HandleRequest
<1> HIDE DEF v, record
<1>1. SameHead(c, linked)
  BY MutateHead DEF SameHead
<1> HIDE DEF linked
<1>2. SameHead(c, added)
  BY <1>1 DEF IsCapture, SameHead, CaptureFields
<1> HIDE DEF added
<1>3. SameHead(added, first)
  BY <1>2, DrainHead DEF SameHead
<1> HIDE DEF first
<1>4. SameHead(first, second)
  BY <1>3, DrainHead DEF SameHead
<1> HIDE DEF second
<1>5. SameHead(second, UpdateRecord(second, n))
  BY <1>4, UpdateHead DEF SameHead
<1> QED
  BY <1>0, <1>2, <1>3, <1>4, <1>5 DEF SameHead

-----------------------------------------------------------------------------
(* What makes the properties inductive.                                    *)

JobFields == {"op", "tab", "mode", "of", "waits", "entry", "body", "params", "result"}
IsJob(x) == x = [f \in JobFields |-> x[f]]
SameJob(x, y) == IsJob(y) /\ y.op = x.op /\ y.tab = x.tab

LeaseStates == {"none", "held", "releasing", "gone"}

\* A start that has put its capture in the map: before it has a lease, and since.
Early == {"replaced", "acquire"}
Leased == {"enable", "recheck", "done"}
Running == Early \cup Leased
Starts(j) == job[j].op = "start" /\ job[j].mode \in Running

CaptureTypes ==
    /\ captures \in [Tabs -> Jobs \cup {None}]
    /\ lease \in [Jobs -> LeaseStates] /\ doc \in [Tabs -> Nat]
    /\ cap = [j \in Jobs |-> cap[j]] /\ job = [j \in Jobs |-> job[j]]

JobTypes(j) ==
    /\ IsCapture(cap[j]) /\ IsJob(job[j])
    /\ job[j].tab \in Tabs /\ cap[j].tab = job[j].tab
    /\ cap[j].active \in BOOLEAN /\ cap[j].lease \in BOOLEAN

\* A lease is held exactly by the capture that remembers it, which is active and its tab's.
LeaseFits(j) ==
    /\ cap[j].active => Starts(j)
    /\ cap[j].lease <=> lease[j] = "held"
    /\ lease[j] = "held" => /\ CurrentAndActive(j) /\ job[j].mode \in Leased
    /\ cap[j].active /\ job[j].mode \in Leased => lease[j] = "held"

\* A tab's capture is one of its document, by a start that has not failed.
TabFits(t) ==
    LET j == captures[t] IN
    j # None => cap[j].tab = t /\ Starts(j) /\ cap[j].document = doc[t]

CaptureInv ==
    /\ CaptureTypes /\ \A j \in Jobs : JobTypes(j) /\ LeaseFits(j)
    /\ \A t \in Tabs : TabFits(t)

\* A command goes on: among the modes with or among those without a lease.
GoesOn(j) ==
    job[j].op = "start" =>
        \/ job[j].mode \notin Running
        \/ \E modes \in {Early, Leased} : job[j].mode \in modes /\ job'[j].mode \in modes

\* d is what is left of capture c once it is no longer active.
Ended(c, d) ==
    /\ IsCapture(d)
    /\ d.tab = c.tab /\ d.document = c.document /\ d.active = FALSE /\ d.lease = FALSE

\* Every step but the start of a capture and the acquisition of its lease: the captures in E
\* end, the others only log; tabs lose captures that end or had ended.
Settles(E) ==
    /\ CaptureTypes'
    /\ \A t \in Tabs :
         /\ captures'[t] \in {captures[t], None}
         /\ captures[t] # None /\ captures'[t] = None =>
               captures[t] \in E \/ ~cap[captures[t]].active
         /\ doc'[t] = doc[t] \/ captures'[t] = None
    /\ \A i \in Jobs \ E : SameHead(cap[i], cap'[i]) /\ lease'[i] = lease[i]
    /\ \A i \in E : Ended(cap[i], cap'[i]) /\ lease'[i] # "held"
    /\ \A i \in Jobs :
         /\ SameJob(job[i], job'[i])
         /\ GoesOn(i) \/ (i \in E /\ \A t \in Tabs : captures'[t] # i)

\* One argument for all of them: what a settling step leaves satisfies the invariant.
LEMMA SettlesKeeps ==
    ASSUME CaptureInv, NEW E \in SUBSET Jobs, Settles(E)
    PROVE  CaptureInv'
<1>0. None \notin Jobs
  BY NetworkAssumption DEF None
<1>1. CaptureTypes'
  BY DEF Settles
<1>2. ASSUME NEW j \in Jobs PROVE JobTypes(j)' /\ LeaseFits(j)'
  <2>1. JobTypes(j) /\ LeaseFits(j)
    BY DEF CaptureInv
  <2>2. SameJob(job[j], job'[j]) /\ (GoesOn(j) \/ (j \in E /\ \A t \in Tabs : captures'[t] # j))
    BY DEF Settles
  <2>3. CASE j \in E
    <3>1. Ended(cap[j], cap'[j]) /\ lease'[j] # "held"
      BY <2>3 DEF Settles
    <3>2. JobTypes(j)'
      BY <2>1, <2>2, <3>1 DEF JobTypes, SameJob, Ended
    <3>3. LeaseFits(j)'
      BY <3>1 DEF LeaseFits, Ended
    <3> QED
      BY <3>2, <3>3
  <2>4. CASE j \notin E
    <3>1. SameHead(cap[j], cap'[j]) /\ lease'[j] = lease[j]
      BY <2>4 DEF Settles
    <3>2. JobTypes(j)'
      BY <2>1, <2>2, <3>1 DEF JobTypes, SameJob, SameHead
    <3>3. /\ job'[j].op = job[j].op
          /\ job[j].op = "start" => \/ job[j].mode \notin Running
                                    \/ job[j].mode \in Early /\ job'[j].mode \in Early
                                    \/ job[j].mode \in Leased /\ job'[j].mode \in Leased
      BY <2>2, <2>4 DEF SameJob, GoesOn
    <3>4. /\ cap'[j].active = cap[j].active /\ cap'[j].lease = cap[j].lease
          /\ cap'[j].tab = cap[j].tab
      BY <3>1 DEF SameHead
    <3>5. cap[j].active => job[j].op = "start" /\ job[j].mode \in Running
      BY <2>1 DEF LeaseFits, Starts
    <3>6. cap'[j].active => Starts(j)'
      BY <3>3, <3>4, <3>5 DEF Starts, Running
    <3>7. cap'[j].lease <=> lease'[j] = "held"
      BY <2>1, <3>1, <3>4 DEF LeaseFits
    <3>8. lease'[j] = "held" => CurrentAndActive(j)' /\ job'[j].mode \in Leased
      <4> SUFFICES ASSUME lease'[j] = "held" PROVE CurrentAndActive(j)' /\ job'[j].mode \in Leased
        OBVIOUS
      <4>1. cap[j].active /\ captures[cap[j].tab] = j /\ job[j].mode \in Leased
        BY <2>1, <3>1 DEF LeaseFits, CurrentAndActive, Current
      <4>2. captures'[cap[j].tab] = j
        BY <1>0, <2>1, <2>4, <4>1 DEF Settles, JobTypes
      <4>3. job'[j].mode \in Leased
        BY <3>3, <3>5, <4>1 DEF Running, Early, Leased
      <4> QED
        BY <3>4, <4>1, <4>2, <4>3 DEF CurrentAndActive, Current
    <3>9. cap'[j].active /\ job'[j].mode \in Leased => lease'[j] = "held"
      BY <2>1, <3>1, <3>3, <3>4, <3>5 DEF LeaseFits, Running, Early, Leased
    <3> QED
      BY <3>2, <3>6, <3>7, <3>8, <3>9 DEF LeaseFits
  <2> QED
    BY <2>3, <2>4
<1>3. ASSUME NEW t \in Tabs PROVE TabFits(t)'
  <2> SUFFICES ASSUME captures'[t] # None
               PROVE  /\ cap'[captures'[t]].tab = t
                      /\ job'[captures'[t]].op = "start" /\ job'[captures'[t]].mode \in Running
                      /\ cap'[captures'[t]].document = doc'[t]
    BY DEF TabFits, Starts
  <2> DEFINE j == captures[t]
  <2>1. captures'[t] = j /\ doc'[t] = doc[t]
    BY DEF Settles
  <2>2. j \in Jobs
    BY <2>1 DEF CaptureInv, CaptureTypes
  <2>3. cap[j].tab = t /\ job[j].op = "start" /\ job[j].mode \in Running /\ cap[j].document = doc[t]
    BY <2>1 DEF CaptureInv, TabFits, Starts
  <2>4. cap'[j].tab = cap[j].tab /\ cap'[j].document = cap[j].document
    BY <2>2 DEF Settles, SameHead, Ended
  <2>5. job'[j].op = "start" /\ job'[j].mode \in Running
    <3> HIDE DEF j
    <3> QED
      BY <2>1, <2>2, <2>3 DEF Settles, SameJob, GoesOn, Running
  <2> QED
    BY <2>1, <2>3, <2>4, <2>5
<1> QED
  BY <1>1, <1>2, <1>3 DEF CaptureInv

-----------------------------------------------------------------------------
(* Chrome's events: the captures log, and nothing else changes.            *)

\* What stays the same has the same head.
LEMMA Unmoved ==
    ASSUME CaptureInv
    PROVE  \A i \in Jobs : SameHead(cap[i], cap[i]) /\ SameJob(job[i], job[i])
BY DEF CaptureInv, JobTypes, SameHead, SameJob

\* A step that only logs.
LEMMA LogStep ==
    ASSUME CaptureInv, cap' = [i \in Jobs |-> cap'[i]],
           \A i \in Jobs : SameHead(cap[i], cap'[i]), UNCHANGED <<captures, lease, doc, job>>
    PROVE  CaptureInv'
<1>1. CaptureTypes'
  BY DEF CaptureInv, CaptureTypes
<1>2. \A i \in Jobs : GoesOn(i)
  BY DEF GoesOn, Running
<1>3. Settles({})
  BY <1>1, <1>2, Unmoved DEF Settles
<1> QED
  BY <1>3, SettlesKeeps

\* The handlers of Chrome's Network events.
LEMMA EventStep == ASSUME CaptureInv, NEW r \in Requests, Event(r) PROVE CaptureInv'
<1>0. \A i \in Jobs : IsCapture(cap[i]) /\ SameHead(cap[i], cap[i])
  BY Unmoved DEF SameHead
<1>1. CASE RequestWillBeSent(r)
  <2>1. /\ cap' = [j \in Jobs |-> IF Hears(j) THEN HandleRequest(cap[j], r, sent[r].main + 1)
                                  ELSE cap[j]]
        /\ UNCHANGED <<captures, lease, doc, job>>
    BY <1>1 DEF RequestWillBeSent, Heard
  <2>2. \A i \in Jobs : SameHead(cap[i], HandleRequest(cap[i], r, sent[r].main + 1))
    BY <1>0, RequestHead
  <2> QED
    BY <1>0, <2>1, <2>2, LogStep
<1>2. CASE ResponseReceived(r)
  <2> DEFINE extra == load.chain[r][Hops(r)]
             n(i) == cap[i].currentByRequest[r]
             new(i) == IF n(i) = None THEN cap[i]
                       ELSE UpdateRecord([cap[i] EXCEPT !.records[n(i)] = ApplyResponse(@, extra)], n(i))
  <2>1. /\ cap' = [j \in Jobs |-> IF Hears(j) THEN new(j) ELSE cap[j]]
        /\ UNCHANGED <<captures, lease, doc, job>>
    BY <1>2 DEF ResponseReceived, Heard, UpdateCurrent
  <2>2. \A i \in Jobs : SameHead(cap[i], new(i))
    BY <1>0, MutateHead
  <2> HIDE DEF new
  <2> QED
    BY <1>0, <2>1, <2>2, LogStep
<1>3. CASE LoadingEnds(r)
  <2> DEFINE n(i) == cap[i].currentByRequest[r]
             new(i) == IF n(i) = None THEN cap[i]
                       ELSE UpdateRecord([cap[i] EXCEPT !.records[n(i)] = FinishRecord(@, FALSE)], n(i))
             failed(i) == IF n(i) = None THEN cap[i]
                          ELSE UpdateRecord([cap[i] EXCEPT !.records[n(i)] = FailRecord(@)], n(i))
  <2>1. /\ \/ cap' = [j \in Jobs |-> IF Hears(j) THEN new(j) ELSE cap[j]]
           \/ cap' = [j \in Jobs |-> IF Hears(j) THEN failed(j) ELSE cap[j]]
        /\ UNCHANGED <<captures, lease, doc, job>>
    BY <1>3 DEF LoadingEnds, Heard, UpdateCurrent
  <2>2. \A i \in Jobs : SameHead(cap[i], new(i)) /\ SameHead(cap[i], failed(i))
    BY <1>0, MutateHead
  <2> HIDE DEF new, failed
  <2> QED
    BY <1>0, <2>1, <2>2, LogStep
<1>4. CASE ExtraInfo(r)
  <2>1. PICK e \in ExtraEvents(r) : Heard(r, LAMBDA c : ApplyExtraInfo(c, r, e.kind, e.hop))
    BY <1>4 DEF ExtraInfo
  <2>2. /\ cap' = [j \in Jobs |-> IF Hears(j) THEN ApplyExtraInfo(cap[j], r, e.kind, e.hop)
                                  ELSE cap[j]]
        /\ UNCHANGED <<captures, lease, doc, job>>
    BY <2>1 DEF Heard
  <2>3. \A i \in Jobs : SameHead(cap[i], ApplyExtraInfo(cap[i], r, e.kind, e.hop))
    BY <1>0, ExtraHead
  <2> QED
    BY <1>0, <2>2, <2>3, LogStep
<1> QED
  BY <1>1, <1>2, <1>3, <1>4 DEF Event

-----------------------------------------------------------------------------
(* The commands.                                                           *)

\* Only command j changes.
Changes(j) ==
    /\ job' = [i \in Jobs |-> job'[i]] /\ SameJob(job[j], job'[j])
    /\ \A i \in Jobs \ {j} : job'[i] = job[i]

\* All commands but the one that changes go on.
LEMMA OthersGoOn ==
    ASSUME CaptureInv, NEW j \in Jobs, Changes(j)
    PROVE  \A i \in Jobs : SameJob(job[i], job'[i]) /\ (i # j => GoesOn(i))
BY Unmoved DEF Changes, GoesOn, Running

\* The mode of a command.
LEMMA ModeChanges ==
    ASSUME CaptureInv, NEW j \in Jobs, NEW mode, job' = [job EXCEPT ![j].mode = mode]
    PROVE  Changes(j) /\ job'[j].mode = mode
<1>1. job = [i \in Jobs |-> job[i]] /\ IsJob(job[j])
  BY DEF CaptureInv, CaptureTypes, JobTypes
<1> QED
  BY <1>1 DEF Changes, SameJob, IsJob, JobFields

\* A command that changes only itself.
LEMMA CommandGoesOn ==
    ASSUME CaptureInv, NEW j \in Jobs, Changes(j), GoesOn(j), UNCHANGED <<captures, cap, lease, doc>>
    PROVE  CaptureInv'
<1>1. CaptureTypes'
  BY DEF CaptureInv, CaptureTypes, Changes
<1>2. Settles({})
  BY <1>1, Unmoved, OthersGoOn DEF Settles
<1> QED
  BY <1>2, SettlesKeeps

\* What the commands on a capture do to themselves.
LEMMA FailsKeeps ==
    ASSUME CaptureInv, NEW j \in Jobs, Fails(j), job[j].op = "start" => job[j].mode \notin Running,
           UNCHANGED <<captures, cap, lease, doc>>
    PROVE  CaptureInv'
BY ModeChanges, CommandGoesOn DEF Fails, GoesOn

\* The commands that change neither captures nor leases.
LEMMA CommandsKeep ==
    ASSUME CaptureInv, NEW j \in Jobs,
           \/ Refused(j) \/ Missing(j) \/ Stopped(j) \/ Read(j) \/ ExportHAR(j) \/ GetBody(j)
           \/ SendBodyCommand(j) \/ BodyAnswered(j) \/ Answer(j)
    PROVE  CaptureInv'
<1>0. job = [i \in Jobs |-> job[i]] /\ IsJob(job[j])
  BY DEF CaptureInv, CaptureTypes, JobTypes
<1> USE DEF world
<1>1. CASE Refused(j)
  BY <1>1, FailsKeeps DEF Refused, Running, Early, Leased
<1>2. CASE Missing(j)
  BY <1>2, FailsKeeps DEF Missing
<1>3. CASE Stopped(j)
  BY <1>3, ModeChanges, CommandGoesOn DEF Stopped, Goes, GoesOn, Running, Early, Leased
<1>4. CASE Read(j)
  <2>1. Changes(j)
    BY <1>0, <1>4 DEF Read, Changes, SameJob, IsJob, JobFields
  <2>2. GoesOn(j) /\ UNCHANGED <<captures, cap, lease, doc>>
    BY <1>4 DEF Read, Finds, GoesOn
  <2> QED
    BY <2>1, <2>2, CommandGoesOn
<1>5. CASE ExportHAR(j)
  <2>1. Changes(j)
    <3>1. PICK c, e : job' = [job EXCEPT ![j].of = c, ![j].mode = "recheck", ![j].result.entries = e]
      BY <1>5 DEF ExportHAR
    <3> DEFINE x == [job EXCEPT ![j].of = c, ![j].mode = "recheck"]
    <3>2. /\ x = [i \in Jobs |-> x[i]] /\ SameJob(job[j], x[j])
          /\ \A i \in Jobs \ {j} : x[i] = job[i]
      BY <1>0 DEF SameJob, IsJob, JobFields
    <3>3. job' = [x EXCEPT ![j].result.entries = e]
      BY <3>1
    <3> HIDE DEF x
    <3> QED
      BY <3>2, <3>3 DEF Changes, SameJob, IsJob, JobFields
  <2>2. GoesOn(j) /\ UNCHANGED <<captures, cap, lease, doc>>
    BY <1>5 DEF ExportHAR, Finds, GoesOn
  <2> QED
    BY <2>1, <2>2, CommandGoesOn
<1>6. CASE GetBody(j)
  <2>1. Changes(j)
    <3>1. CASE Fails(j)
      BY <3>1, ModeChanges DEF Fails
    <3>2. CASE ~Fails(j)
      <4>0. PICK direction \in Kinds, n \in cap[captures[job[j].tab]].byEntryId :
                job' = [job EXCEPT ![j].of = captures[job[j].tab], ![j].entry = n,
                                   ![j].mode = "body", ![j].params.direction = direction]
        BY <1>6, <3>2 DEF GetBody
      <4> DEFINE x == [job EXCEPT ![j].of = captures[job[j].tab], ![j].entry = n, ![j].mode = "body"]
      <4>1. /\ x = [i \in Jobs |-> x[i]] /\ SameJob(job[j], x[j])
            /\ \A i \in Jobs \ {j} : x[i] = job[i]
        BY <1>0 DEF SameJob, IsJob, JobFields
      <4>2. job' = [x EXCEPT ![j].params.direction = direction]
        BY <4>0
      <4> HIDE DEF x
      <4> QED
        BY <4>1, <4>2 DEF Changes, SameJob, IsJob, JobFields
    <3> QED
      BY <3>1, <3>2
  <2>2. GoesOn(j) /\ UNCHANGED <<captures, cap, lease, doc>>
    BY <1>6 DEF GetBody, Finds, GoesOn
  <2> QED
    BY <2>1, <2>2, CommandGoesOn
<1>7. CASE SendBodyCommand(j)
  BY <1>7, ModeChanges, CommandGoesOn
     DEF SendBodyCommand, Goes, Fails, GoesOn, Running, Early, Leased
<1>8. CASE BodyAnswered(j)
  <2>1. Changes(j)
    <3> DEFINE hop == ReachedHop(cap[job[j].of].records[job[j].entry].request)
    <3>1. job' = [job EXCEPT ![j].mode = "recheck", ![j].body = hop]
      BY <1>8 DEF BodyAnswered
    <3> DEFINE x == [job EXCEPT ![j].mode = "recheck"]
    <3>2. /\ x = [i \in Jobs |-> x[i]] /\ SameJob(job[j], x[j])
          /\ \A i \in Jobs \ {j} : x[i] = job[i]
      BY <1>0 DEF SameJob, IsJob, JobFields
    <3>3. job' = [x EXCEPT ![j].body = hop]
      BY <3>1
    <3> HIDE DEF hop, x
    <3> QED
      BY <3>2, <3>3 DEF Changes, SameJob, IsJob, JobFields
  <2>2. GoesOn(j) /\ UNCHANGED <<captures, cap, lease, doc>>
    BY <1>8 DEF BodyAnswered, GoesOn, Running, Early, Leased
  <2> QED
    BY <2>1, <2>2, CommandGoesOn
<1>9. CASE Answer(j)
  BY <1>9, ModeChanges, CommandGoesOn DEF Answer, Goes, GoesOn
<1> QED
  BY <1>1, <1>2, <1>3, <1>4, <1>5, <1>6, <1>7, <1>8, <1>9

\* cleanupExpired drops only captures that have ended.
LEMMA BeginKeeps == ASSUME CaptureInv, NEW j \in Jobs, Begin(j) PROVE CaptureInv'
<1>0. job = [i \in Jobs |-> job[i]] /\ IsJob(job[j])
  BY DEF CaptureInv, CaptureTypes, JobTypes
<1>1. Changes(j)
  <2>1. CASE Goes(j, "prepare")
    BY <2>1, ModeChanges DEF Goes
  <2>2. ASSUME NEW c, job' = [job EXCEPT ![j].mode = "prepare", ![j].params = c]
        PROVE  Changes(j)
    BY <1>0, <2>2 DEF Changes, SameJob, IsJob, JobFields
  <2> QED
    BY <2>1, <2>2 DEF Begin
<1>2. GoesOn(j)
  BY DEF Begin, GoesOn, Running, Early, Leased
<1>3. /\ captures' \in [Tabs -> Jobs \cup {None}]
      /\ \A t \in Tabs :
           /\ captures'[t] \in {captures[t], None}
           /\ captures[t] # None /\ captures'[t] = None => ~cap[captures[t]].active
  BY DEF CaptureInv, CaptureTypes, Begin, CleanupExpired
<1>4. UNCHANGED <<cap, lease, doc>>
  BY DEF Begin, world
<1>5. CaptureTypes'
  BY <1>1, <1>3, <1>4 DEF CaptureInv, CaptureTypes, Changes
<1>6. Settles({})
  BY <1>1, <1>2, <1>3, <1>4, <1>5, Unmoved, OthersGoOn DEF Settles
<1> QED
  BY <1>6, SettlesKeeps

\* clear empties the log of a capture that stays active.
LEMMA ClearKeeps == ASSUME CaptureInv, NEW j \in Jobs, Clear(j) PROVE CaptureInv'
<1> DEFINE c == captures[job[j].tab]
<1>0. /\ job = [i \in Jobs |-> job[i]] /\ IsJob(job[j]) /\ cap = [i \in Jobs |-> cap[i]]
      /\ c \in Jobs /\ IsCapture(cap[c])
  BY DEF CaptureInv, CaptureTypes, JobTypes, Clear, Finds
<1>1. /\ cap' = [cap EXCEPT ![c] = ClearCapture(@)]
      /\ job' = [job EXCEPT ![j].of = c, ![j].mode = "recheck"]
      /\ UNCHANGED <<captures, lease, doc>>
  BY DEF Clear, world
<1>2. GoesOn(j)
  BY DEF Clear, Finds, GoesOn
<1> HIDE DEF c
<1>3. Changes(j)
  BY <1>0, <1>1 DEF Changes, SameJob, IsJob, JobFields
<1>4. SameHead(cap[c], ClearCapture(cap[c]))
  BY <1>0 DEF ClearCapture, DisableBodyAccess, SameHead, IsCapture, CaptureFields
<1>5. cap' = [i \in Jobs |-> cap'[i]] /\ \A i \in Jobs : SameHead(cap[i], cap'[i])
  BY <1>0, <1>1, <1>4, Unmoved
<1>6. CaptureTypes'
  BY <1>1, <1>3, <1>5 DEF CaptureInv, CaptureTypes, Changes
<1>7. Settles({})
  BY <1>1, <1>2, <1>3, <1>5, <1>6, OthersGoOn DEF Settles
<1> QED
  BY <1>7, SettlesKeeps

-----------------------------------------------------------------------------
(* The ends of captures.                                                   *)

\* releaseCapture, before and after its await, ends the capture.
LEMMA ReleasedEnds ==
    ASSUME NEW c, IsCapture(c)
    PROVE  Ended(c, Released(c)) /\ Ended(c, Releasing(c)) /\ SameHead(c, DisableBodyAccess(c))
<1>1. SameHead(c, DisableBodyAccess(c))
  BY DEF DisableBodyAccess, SameHead, IsCapture, CaptureFields
<1>2. Ended(c, Releasing(c))
  BY DEF Releasing, Ended, IsCapture, CaptureFields
<1> DEFINE d == DisableBodyAccess(c)
<1> HIDE DEF d
<1>3. Ended(d, [d EXCEPT !.active = FALSE, !.lease = FALSE, !.expiresAt = now + RETAINED_TTL])
  BY <1>1 DEF d, SameHead, Ended, IsCapture, CaptureFields
<1>4. Ended(c, Released(c))
  BY <1>1, <1>3 DEF d, SameHead, Ended, Released
<1> QED
  BY <1>1, <1>2, <1>4

\* The captures and leases of E end, nothing else happens to captures and leases.
Ends(E) ==
    /\ cap' = [i \in Jobs |-> cap'[i]] /\ lease' \in [Jobs -> LeaseStates]
    /\ \A i \in Jobs \ E : SameHead(cap[i], cap'[i]) /\ lease'[i] = lease[i]
    /\ \A i \in E : Ended(cap[i], cap'[i]) /\ lease'[i] # "held"

\* A lease that is held is one that releaseCapture gives back.
LEMMA HeldAwaits ==
    ASSUME CaptureInv, NEW i \in Jobs, ~Awaits(i)
    PROVE  lease[i] # "held"
BY DEF CaptureInv, LeaseFits, CurrentAndActive, Awaits

\* releaseCapture ends one capture and gives up its lease.
LEMMA ReleaseCaptureEnds == ASSUME CaptureInv, NEW c \in Jobs, ReleaseCapture(c) PROVE Ends({c})
<1>1. /\ cap = [i \in Jobs |-> cap[i]] /\ lease \in [Jobs -> LeaseStates]
      /\ IsCapture(cap[c])
  BY DEF CaptureInv, CaptureTypes, JobTypes
<1>2. Ended(cap[c], Released(cap[c])) /\ Ended(cap[c], Releasing(cap[c]))
  BY <1>1, ReleasedEnds
<1>3. CASE Awaits(c)
  <2>1. cap' = [cap EXCEPT ![c] = Releasing(cap[c])] /\ lease' = [lease EXCEPT ![c] = "releasing"]
    BY <1>3 DEF ReleaseCapture
  <2> QED
    BY <1>1, <1>2, <2>1, Unmoved DEF Ends, LeaseStates
<1>4. CASE ~Awaits(c)
  <2>1. cap' = [cap EXCEPT ![c] = Released(cap[c])] /\ lease' = lease
    BY <1>4 DEF ReleaseCapture
  <2> QED
    BY <1>1, <1>2, <1>4, <2>1, HeldAwaits, Unmoved DEF Ends
<1> QED
  BY <1>3, <1>4

\* stop ends the capture and leaves it to its tab.
LEMMA StopKeeps == ASSUME CaptureInv, NEW j \in Jobs, Stop(j) PROVE CaptureInv'
<1> DEFINE c == captures[job[j].tab]
<1>0. /\ job = [i \in Jobs |-> job[i]] /\ IsJob(job[j]) /\ c \in Jobs
  BY DEF CaptureInv, CaptureTypes, JobTypes, Stop, Finds
<1>1. Ends({c})
  BY <1>0, ReleaseCaptureEnds DEF Stop
<1>2. Changes(j)
  <2> DEFINE mode == IF Awaits(c) THEN "stopping" ELSE "recheck"
  <2>1. job' = [job EXCEPT ![j].of = c, ![j].mode = mode]
    BY DEF Stop
  <2> HIDE DEF c, mode
  <2> QED
    BY <1>0, <2>1 DEF Changes, SameJob, IsJob, JobFields
<1>3. GoesOn(j) /\ UNCHANGED <<captures, doc>>
  BY DEF Stop, Finds, GoesOn, world
<1> HIDE DEF c
<1>4. CaptureTypes'
  BY <1>1, <1>2, <1>3 DEF CaptureInv, CaptureTypes, Changes, Ends
<1>5. Settles({c})
  BY <1>0, <1>1, <1>2, <1>3, <1>4, OthersGoOn DEF Settles, Ends
<1> QED
  BY <1>0, <1>5, SettlesKeeps

\* A navigation ends the capture of its tab and takes it from the tab.
LEMMA NavigateKeeps == ASSUME CaptureInv, NEW t \in Tabs, Navigate(t) PROVE CaptureInv'
<1> DEFINE E == IF captures[t] = None THEN {} ELSE {captures[t]}
<1>0. E \in SUBSET Jobs
  BY DEF CaptureInv, CaptureTypes
<1>1. Ends(E)
  <2>1. CASE captures[t] = None
    BY <2>1, Unmoved DEF Navigate, Ends, CaptureInv, CaptureTypes
  <2>2. CASE captures[t] # None
    <3>1. captures[t] \in Jobs /\ ReleaseCapture(captures[t])
      BY <2>2 DEF Navigate, CaptureInv, CaptureTypes
    <3>2. Ends({captures[t]})
      BY <3>1, ReleaseCaptureEnds
    <3> QED
      BY <2>2, <3>2
  <2> QED
    BY <2>1, <2>2
<1>2. /\ captures' = [captures EXCEPT ![t] = None] /\ doc' = [doc EXCEPT ![t] = @ + 1]
      /\ job' = job
  BY DEF Navigate
<1>3. CaptureTypes'
  BY <1>1, <1>2 DEF CaptureInv, CaptureTypes, Ends
<1>4. \A i \in Jobs : SameJob(job[i], job'[i]) /\ GoesOn(i)
  BY <1>2, Unmoved DEF GoesOn, Running
<1>5. \A u \in Tabs :
         /\ captures'[u] \in {captures[u], None}
         /\ captures[u] # None /\ captures'[u] = None => captures[u] \in E
         /\ doc'[u] = doc[u] \/ captures'[u] = None
  BY <1>2 DEF CaptureInv, CaptureTypes
<1> HIDE DEF E
<1>6. Settles(E)
  BY <1>1, <1>3, <1>4, <1>5 DEF Settles, Ends
<1> QED
  BY <1>0, <1>6, SettlesKeeps

\* onDetach ends the capture whose lease is gone.
LEMMA DetachKeeps == ASSUME CaptureInv, NEW j \in Jobs, Detach(j) PROVE CaptureInv'
<1>1. /\ cap = [i \in Jobs |-> cap[i]] /\ lease \in [Jobs -> LeaseStates]
      /\ Ended(cap[j], Released(cap[j]))
  BY ReleasedEnds DEF CaptureInv, CaptureTypes, JobTypes
<1>2. /\ cap' = [cap EXCEPT ![j] = Released(cap[j])] /\ lease' = [lease EXCEPT ![j] = "gone"]
      /\ UNCHANGED <<captures, doc, job>>
  BY DEF Detach
<1>3. Ends({j})
  BY <1>1, <1>2, Unmoved DEF Ends, LeaseStates
<1>4. CaptureTypes'
  BY <1>2, <1>3 DEF CaptureInv, CaptureTypes, Ends
<1>5. \A i \in Jobs : SameJob(job[i], job'[i]) /\ GoesOn(i)
  BY <1>2, Unmoved DEF GoesOn, Running
<1>6. Settles({j})
  BY <1>2, <1>3, <1>4, <1>5 DEF Settles, Ends
<1> QED
  BY <1>6, SettlesKeeps

\* The release of a lease ends: no capture remembers it.
LEMMA ReleaseEndsKeeps == ASSUME CaptureInv, NEW j \in Jobs, ReleaseEnds(j) PROVE CaptureInv'
<1>1. /\ cap = [i \in Jobs |-> cap[i]] /\ lease \in [Jobs -> LeaseStates]
      /\ IsCapture(cap[j]) /\ Ended(cap[j], Released(cap[j]))
  BY ReleasedEnds DEF CaptureInv, CaptureTypes, JobTypes
<1>2. lease' = [lease EXCEPT ![j] = "gone"] /\ UNCHANGED <<captures, doc>>
  BY DEF ReleaseEnds, world
<1>3. /\ Ends({j}) /\ job' = [i \in Jobs |-> job'[i]]
      /\ \A i \in Jobs : SameJob(job[i], job'[i]) /\ GoesOn(i)
  <2>1. CASE job[j].mode = "undo"
    <3>1. cap' = cap /\ job' = [job EXCEPT ![j].mode = "failed"]
      BY <2>1 DEF ReleaseEnds
    <3>2. Ended(cap[j], cap[j])
      BY <1>1, <2>1
         DEF ReleaseEnds, Ended, CaptureInv, LeaseFits, JobTypes, Starts, Running, Early, Leased
    <3>3. Ends({j})
      BY <1>1, <1>2, <3>1, <3>2, Unmoved DEF Ends, LeaseStates
    <3>4. Changes(j)
      BY <3>1, ModeChanges
    <3>5. GoesOn(j)
      BY <2>1 DEF GoesOn, Running, Early, Leased
    <3> QED
      BY <3>3, <3>4, <3>5, OthersGoOn DEF Changes
  <2>2. CASE job[j].mode # "undo"
    <3>1. cap' = [cap EXCEPT ![j] = Released(cap[j])] /\ job' = job
      BY <2>2 DEF ReleaseEnds
    <3>2. Ends({j})
      BY <1>1, <1>2, <3>1, Unmoved DEF Ends, LeaseStates
    <3> QED
      BY <3>1, <3>2, Unmoved DEF GoesOn, Running, CaptureInv, CaptureTypes
  <2> QED
    BY <2>1, <2>2
<1>4. CaptureTypes'
  BY <1>2, <1>3 DEF CaptureInv, CaptureTypes, Ends
<1>5. Settles({j})
  BY <1>2, <1>3, <1>4 DEF Settles, Ends
<1> QED
  BY <1>5, SettlesKeeps

\* The catch of start takes the capture from the tab, and gives back the lease it got.
LEMMA CatchKeeps ==
    ASSUME CaptureInv, NEW j \in Jobs, NEW holds \in BOOLEAN, Catch(j, holds),
           holds \/ lease[j] # "held", doc' = doc
    PROVE  CaptureInv'
<1>0. None \notin Jobs
  BY NetworkAssumption DEF None
<1>1. /\ cap = [i \in Jobs |-> cap[i]] /\ lease \in [Jobs -> LeaseStates] /\ IsCapture(cap[j])
      /\ captures \in [Tabs -> Jobs \cup {None}] /\ cap[j].tab = job[j].tab /\ job[j].tab \in Tabs
  BY DEF CaptureInv, CaptureTypes, JobTypes
<1>2. /\ captures' = [captures EXCEPT ![job[j].tab] = IF @ = j THEN None ELSE @]
      /\ cap' = [cap EXCEPT ![j].active = FALSE, ![j].lease = FALSE]
  BY DEF Catch
<1>3. lease' = (IF holds THEN [lease EXCEPT ![j] = "releasing"] ELSE lease)
  BY DEF Catch
<1>4. Changes(j)
  BY ModeChanges DEF Catch, Goes, Fails
<1>5. cap' = [i \in Jobs |-> cap'[i]] /\ Ended(cap[j], cap'[j]) /\ \A i \in Jobs \ {j} : cap'[i] = cap[i]
  BY <1>1, <1>2 DEF Ended, IsCapture, CaptureFields
<1>6. Ends({j})
  BY <1>1, <1>3, <1>5, Unmoved DEF Ends, LeaseStates
<1>7. /\ captures' \in [Tabs -> Jobs \cup {None}]
      /\ \A t \in Tabs :
           /\ captures'[t] \in {captures[t], None}
           /\ captures[t] # None /\ captures'[t] = None => captures[t] = j
  BY <1>1, <1>2
<1>8. \A t \in Tabs : captures'[t] # j
  <2> SUFFICES ASSUME NEW t \in Tabs, captures'[t] = j PROVE FALSE
    OBVIOUS
  <2>1. captures[t] = j
    BY <1>0, <1>7
  <2>2. t = job[j].tab
    BY <1>0, <1>1, <2>1 DEF CaptureInv, TabFits
  <2> QED
    BY <1>0, <1>1, <1>2, <2>1, <2>2
<1>9. CaptureTypes'
  BY <1>4, <1>6, <1>7 DEF CaptureInv, CaptureTypes, Changes, Ends
<1>10. Settles({j})
  BY <1>4, <1>6, <1>7, <1>8, <1>9, OthersGoOn DEF Settles, Ends
<1> QED
  BY <1>10, SettlesKeeps

\* The awaits of start, but for the lease.
LEMMA StartsKeep ==
    ASSUME CaptureInv, NEW j \in Jobs, PreviousReleased(j) \/ Enabled(j) \/ Started(j)
    PROVE  CaptureInv'
<1> USE DEF world
<1>0. LeaseFits(j) /\ cap[j].lease \in BOOLEAN /\ FALSE \in BOOLEAN
  BY DEF CaptureInv, JobTypes
<1>1. CASE PreviousReleased(j)
  <2>1. CASE CurrentAndActive(j)
    BY <1>1, <2>1, ModeChanges, CommandGoesOn
       DEF PreviousReleased, Goes, GoesOn, Running, Early, Leased
  <2>2. CASE ~CurrentAndActive(j)
    <3>1. lease[j] # "held" /\ Catch(j, FALSE) /\ doc' = doc
      BY <1>0, <1>1, <2>2 DEF PreviousReleased, LeaseFits
    <3> QED
      BY <1>0, <3>1, CatchKeeps
  <2> QED
    BY <2>1, <2>2
<1>2. CASE Enabled(j)
  <2>1. CASE Goes(j, "recheck") /\ UNCHANGED <<captures, cap, lease>>
    BY <1>2, <2>1, ModeChanges, CommandGoesOn DEF Enabled, Goes, GoesOn, Running, Early, Leased
  <2>2. CASE Catch(j, cap[j].lease)
    BY <1>0, <1>2, <2>2, CatchKeeps DEF Enabled, LeaseFits
  <2> QED
    BY <1>2, <2>1, <2>2 DEF Enabled
<1>3. CASE Started(j)
  <2>1. CASE Goes(j, "done") /\ UNCHANGED <<captures, cap, lease>>
    BY <1>3, <2>1, ModeChanges, CommandGoesOn DEF Started, Goes, GoesOn, Running, Early, Leased
  <2>2. CASE Catch(j, cap[j].lease)
    BY <1>0, <1>3, <2>2, CatchKeeps DEF Started, LeaseFits
  <2> QED
    BY <1>3, <2>1, <2>2 DEF Started
<1> QED
  BY <1>1, <1>2, <1>3

-----------------------------------------------------------------------------
(* The start of a capture and its lease.                                   *)

\* The lease arrives at a capture that may have been superseded.
LEMMA AcquiredKeeps == ASSUME CaptureInv, NEW j \in Jobs, Acquired(j) PROVE CaptureInv'
<1>0. /\ cap = [i \in Jobs |-> cap[i]] /\ lease \in [Jobs -> LeaseStates]
      /\ JobTypes(j) /\ LeaseFits(j) /\ TRUE \in BOOLEAN /\ FALSE \in BOOLEAN /\ doc' = doc
  BY DEF CaptureInv, CaptureTypes, Acquired, world
<1>1. CASE Catch(j, TRUE)
  BY <1>0, <1>1, CatchKeeps
<1>2. CASE Catch(j, FALSE)
  <2>1. lease[j] # "held"
    BY <1>0 DEF Acquired, LeaseFits, Leased
  <2> QED
    BY <1>0, <1>2, <2>1, CatchKeeps
<1>3. CASE /\ CurrentAndActive(j)
           /\ cap' = [cap EXCEPT ![j].lease = TRUE]
           /\ lease' = [lease EXCEPT ![j] = "held"]
           /\ Goes(j, "enable") /\ UNCHANGED captures
  <2>1. Changes(j) /\ job'[j].mode = "enable"
    BY <1>3, ModeChanges DEF Goes
  <2>2. /\ cap' = [i \in Jobs |-> cap'[i]] /\ \A i \in Jobs \ {j} : cap'[i] = cap[i]
        /\ IsCapture(cap'[j]) /\ cap'[j].tab = cap[j].tab /\ cap'[j].document = cap[j].document
        /\ cap'[j].active = cap[j].active /\ cap'[j].lease = TRUE
    BY <1>0, <1>3 DEF JobTypes, IsCapture, CaptureFields
  <2>3. CaptureTypes'
    BY <1>0, <1>3, <2>1, <2>2 DEF CaptureInv, CaptureTypes, Changes, LeaseStates
  <2>4. job'[j].op = "start" /\ cap[j].active
    BY <1>0, <1>3, <2>1 DEF LeaseFits, Starts, CurrentAndActive, Changes, SameJob
  <2>5. ASSUME NEW i \in Jobs PROVE JobTypes(i)' /\ LeaseFits(i)'
    <3>1. JobTypes(i) /\ LeaseFits(i)
      BY DEF CaptureInv
    <3>2. CASE i = j
      <4>1. JobTypes(j)'
        BY <1>0, <2>1, <2>2 DEF JobTypes, Changes, SameJob
      <4>2. lease'[j] = "held" /\ CurrentAndActive(j)' /\ Starts(j)'
        BY <1>0, <1>3, <2>1, <2>2, <2>4
           DEF CurrentAndActive, Current, Starts, Running, Leased, JobTypes
      <4> QED
        BY <2>1, <2>2, <3>2, <4>1, <4>2 DEF LeaseFits, Leased
    <3>3. CASE i # j
      <4>1. cap'[i] = cap[i] /\ lease'[i] = lease[i] /\ job'[i] = job[i] /\ captures' = captures
        BY <1>0, <1>3, <2>1, <2>2, <3>3 DEF Changes
      <4> QED
        BY <3>1, <4>1 DEF JobTypes, LeaseFits, CurrentAndActive, Current, Starts
    <3> QED
      BY <3>2, <3>3
  <2>6. ASSUME NEW t \in Tabs PROVE TabFits(t)'
    <3>1. TabFits(t) /\ captures'[t] = captures[t] /\ captures[t] \in Jobs \cup {None}
      BY <1>3 DEF CaptureInv, CaptureTypes
    <3>2. \A i \in Jobs : cap'[i].tab = cap[i].tab /\ cap'[i].document = cap[i].document
      BY <2>2
    <3>3. \A i \in Jobs : Starts(i) => job'[i].op = "start" /\ job'[i].mode \in Running
      BY <2>1, <2>4 DEF Changes, Starts, Running, Leased
    <3> QED
      BY <1>0, <3>1, <3>2, <3>3 DEF TabFits, Starts
  <2> QED
    BY <2>3, <2>5, <2>6 DEF CaptureInv
<1> QED
  BY <1>1, <1>2, <1>3 DEF Acquired

\* c is a new capture of the tab and its document.
Created(c, tab, document) ==
    /\ IsCapture(c) /\ c.tab = tab /\ c.document = document
    /\ c.active = TRUE /\ c.lease = FALSE

\* createCapture makes one.
LEMMA CreatedHead ==
    ASSUME NEW tab, NEW document PROVE Created(CreateCapture(tab, document), tab, document)
BY DEF Created, CreateCapture, IsCapture, CaptureFields

\* A new capture in the map: the tab's old one and the evicted one hold no lease that is not being released.
LEMMA InstalledKeeps ==
    ASSUME CaptureInv, NEW j \in Jobs, job[j].mode = "prepare", job[j].op = "start",
           NEW evicted \in SUBSET Jobs, \A i \in evicted : ~cap[i].active,
           Installed(j, evicted), doc' = doc
    PROVE  CaptureInv'
<1> DEFINE tab == job[j].tab
           previous == captures[tab]
           waits == IF previous # None /\ Awaits(previous) THEN previous ELSE None
<1>a. /\ captures' = [t \in Tabs |-> IF t = tab THEN j
                                     ELSE IF captures[t] \in evicted THEN None
                                     ELSE captures[t]]
      /\ lease' = [i \in Jobs |-> IF i = previous /\ Awaits(i) THEN "releasing" ELSE lease[i]]
      /\ job' = [job EXCEPT ![j].mode = "replaced", ![j].waits = waits]
  BY DEF Installed
<1>b. cap' = [i \in Jobs |->
              IF i = j THEN CreateCapture(tab, doc[tab])
              ELSE IF i = previous THEN IF Awaits(i) THEN Releasing(cap[i]) ELSE Released(cap[i])
              ELSE IF i \in evicted THEN DisableBodyAccess(cap[i])
              ELSE cap[i]]
  BY DEF Installed
<1>c. tab = job[j].tab /\ previous = captures[tab]
  OBVIOUS
<1>d. Changes(j) /\ job'[j].mode = "replaced"
  <2> HIDE DEF waits
  <2>1. job = [i \in Jobs |-> job[i]] /\ IsJob(job[j])
    BY DEF CaptureInv, CaptureTypes, JobTypes
  <2> QED
    BY <1>a, <2>1 DEF Changes, SameJob, IsJob, JobFields
<1> HIDE DEF tab, previous, waits
<1>0. /\ None \notin Jobs /\ tab \in Tabs /\ doc[tab] \in Nat
      /\ captures \in [Tabs -> Jobs \cup {None}] /\ lease \in [Jobs -> LeaseStates]
      /\ LeaseFits(j) /\ \A i \in Jobs : IsCapture(cap[i])
  BY <1>c, NetworkAssumption DEF CaptureInv, CaptureTypes, JobTypes, None
<1>1. \A t \in Tabs : captures[t] # j
  BY <1>0 DEF CaptureInv, TabFits, Starts, Running, Early, Leased
<1>2. ~cap[j].active /\ lease[j] # "held"
  BY <1>0 DEF LeaseFits, Starts, Running, Early, Leased, CurrentAndActive
<1>3. CaptureTypes'
  <2>1. captures' \in [Tabs -> Jobs \cup {None}]
    BY <1>0, <1>a
  <2>2. lease' \in [Jobs -> LeaseStates]
    BY <1>0, <1>a DEF LeaseStates
  <2>3. cap' = [i \in Jobs |-> cap'[i]]
    BY <1>b
  <2> QED
    BY <1>d, <2>1, <2>2, <2>3 DEF CaptureInv, CaptureTypes, Changes
<1>4. cap'[j] = CreateCapture(tab, doc[tab]) /\ lease'[j] = lease[j]
  BY <1>0, <1>1, <1>a, <1>b, <1>c
<1>5. ASSUME NEW i \in Jobs, i = previous
      PROVE  i # j /\ Ended(cap[i], cap'[i]) /\ lease'[i] # "held"
  <2>1. i # j
    BY <1>0, <1>1, <1>5, <1>c
  <2>2. cap'[i] = IF Awaits(i) THEN Releasing(cap[i]) ELSE Released(cap[i])
    BY <1>5, <1>b, <2>1
  <2>3. Ended(cap[i], Released(cap[i])) /\ Ended(cap[i], Releasing(cap[i]))
    BY <1>0, ReleasedEnds
  <2>4. lease'[i] = IF Awaits(i) THEN "releasing" ELSE lease[i]
    BY <1>5, <1>a
  <2> QED
    BY <2>1, <2>2, <2>3, <2>4, HeldAwaits
<1>6. ASSUME NEW i \in Jobs, i # previous, i # j
      PROVE  SameHead(cap[i], cap'[i]) /\ lease'[i] = lease[i]
  <2>1. cap'[i] = IF i \in evicted THEN DisableBodyAccess(cap[i]) ELSE cap[i]
    BY <1>6, <1>b
  <2>2. SameHead(cap[i], DisableBodyAccess(cap[i])) /\ SameHead(cap[i], cap[i])
    BY <1>0, ReleasedEnds, Unmoved
  <2> QED
    BY <1>6, <1>a, <2>1, <2>2
<1>7. IsCapture(cap'[j]) /\ cap'[j].tab = tab /\ cap'[j].document = doc[tab]
      /\ cap'[j].active = TRUE /\ cap'[j].lease = FALSE
  <2>1. Created(CreateCapture(tab, doc[tab]), tab, doc[tab])
    BY CreatedHead
  <2> QED
    BY <1>4, <2>1 DEF Created
<1>8. ASSUME NEW i \in Jobs PROVE JobTypes(i)' /\ LeaseFits(i)'
  <2>1. JobTypes(i) /\ LeaseFits(i)
    BY DEF CaptureInv
  <2>2. CASE i = j
    <3>1. JobTypes(j)'
      BY <1>0, <1>7, <1>c, <1>d, <2>1, <2>2 DEF JobTypes, Changes, SameJob
    <3>2. LeaseFits(j)'
      BY <1>2, <1>4, <1>7, <1>d DEF LeaseFits, Starts, Running, Early, Leased, Changes, SameJob
    <3> QED
      BY <2>2, <3>1, <3>2
  <2>3. CASE i # j /\ i = previous
    BY <1>5, <1>d, <2>1, <2>3 DEF JobTypes, LeaseFits, Ended, Changes
  <2>4. CASE i # j /\ i # previous
    <3>1. SameHead(cap[i], cap'[i]) /\ lease'[i] = lease[i] /\ job'[i] = job[i]
      BY <1>6, <1>d, <2>4 DEF Changes
    <3>2. JobTypes(i)'
      BY <2>1, <3>1 DEF JobTypes, SameHead
    <3>3. lease[i] = "held" => captures'[cap[i].tab] = i
      <4> SUFFICES ASSUME lease[i] = "held" PROVE captures'[cap[i].tab] = i
        OBVIOUS
      <4>1. cap[i].active /\ captures[cap[i].tab] = i /\ cap[i].tab \in Tabs
        BY <2>1 DEF LeaseFits, CurrentAndActive, Current, JobTypes
      <4>2. cap[i].tab # tab /\ i \notin evicted
        BY <1>c, <2>4, <4>1
      <4> QED
        BY <1>a, <4>1, <4>2
    <3> QED
      BY <2>1, <3>1, <3>2, <3>3 DEF LeaseFits, CurrentAndActive, Current, Starts, SameHead
  <2> QED
    BY <2>2, <2>3, <2>4
<1>9. ASSUME NEW t \in Tabs PROVE TabFits(t)'
  <2>1. CASE t = tab
    <3>1. captures'[t] = j
      BY <1>a, <2>1
    <3> QED
      BY <1>7, <1>d, <2>1, <3>1 DEF TabFits, Starts, Running, Early, Changes, SameJob
  <2>2. CASE t # tab /\ captures'[t] # None
    <3> DEFINE i == captures[t]
    <3>1. captures'[t] = i /\ i \in Jobs /\ i # j
      BY <1>0, <1>1, <1>a, <2>2
    <3>2. cap[i].tab = t /\ Starts(i) /\ cap[i].document = doc[t]
      BY <1>0, <3>1 DEF CaptureInv, TabFits
    <3>3. i # previous
      BY <1>0, <1>c, <2>2, <3>1, <3>2 DEF CaptureInv, TabFits
    <3> HIDE DEF i
    <3>4. SameHead(cap[i], cap'[i]) /\ job'[i] = job[i]
      BY <1>6, <1>d, <3>1, <3>3 DEF Changes
    <3> QED
      BY <3>1, <3>2, <3>4 DEF TabFits, Starts, SameHead
  <2>3. CASE captures'[t] = None
    BY <2>3 DEF TabFits
  <2> QED
    BY <2>1, <2>2, <2>3
<1> QED
  BY <1>3, <1>8, <1>9 DEF CaptureInv

\* start, with or without a slot.
LEMMA StartCaptureKeeps == ASSUME CaptureInv, NEW j \in Jobs, StartCapture(j) PROVE CaptureInv'
<1>0. job[j].mode = "prepare" /\ job[j].op = "start" /\ doc' = doc
  BY DEF StartCapture, world
<1>1. \/ Installed(j, {}) \/ \E i \in Evictable(job[j].tab) : Installed(j, {i})
      \/ Fails(j) /\ UNCHANGED <<captures, cap, lease>>
  BY DEF StartCapture
<1>3. CASE Installed(j, {})
  BY <1>0, <1>3, InstalledKeeps
<1>4. ASSUME NEW i \in Evictable(job[j].tab), Installed(j, {i}) PROVE CaptureInv'
  <2>1. {i} \in SUBSET Jobs /\ \A k \in {i} : ~cap[k].active
    BY DEF Evictable, Retained
  <2> QED
    BY <1>0, <1>4, <2>1, InstalledKeeps
<1>5. CASE Fails(j) /\ UNCHANGED <<captures, cap, lease>>
  BY <1>0, <1>5, FailsKeeps DEF Running, Early, Leased
<1> QED
  BY <1>1, <1>3, <1>4, <1>5

-----------------------------------------------------------------------------
(* The invariant, and the properties it gives.                             *)

\* No capture is active before the first start.
LEMMA InitKeeps == Init => CaptureInv
<1> SUFFICES ASSUME Init PROVE CaptureInv
  OBVIOUS
<1>1. PICK w \in Workloads :
        /\ job = w.commands
        /\ cap = [j \in Jobs |-> [CreateCapture(w.commands[j].tab, 1) EXCEPT !.active = FALSE]]
  BY DEF Init
<1>2. /\ captures = [t \in Tabs |-> None] /\ lease = [j \in Jobs |-> "none"]
      /\ doc = [t \in Tabs |-> 1] /\ job \in [Jobs -> Commands]
  BY <1>1, WorkloadAssumption DEF Init
<1>3. ASSUME NEW j \in Jobs PROVE JobTypes(j) /\ LeaseFits(j)
  <2>1. PICK op \in Ops, tab \in Tabs, mode \in {"new", "failed"} :
          job[j] = [Command(op, tab) EXCEPT !.mode = mode]
    BY <1>2 DEF Commands
  <2>2. IsJob(job[j]) /\ job[j].tab \in Tabs
    BY <2>1 DEF IsJob, JobFields, Command
  <2> DEFINE new == CreateCapture(job[j].tab, 1)
  <2>3. cap[j] = [new EXCEPT !.active = FALSE]
    BY <1>1
  <2>4. IsCapture(new) /\ new.tab = job[j].tab /\ new.lease = FALSE
    <3>1. Created(CreateCapture(job[j].tab, 1), job[j].tab, 1)
      BY CreatedHead
    <3> QED
      BY <3>1 DEF Created
  <2> HIDE DEF new
  <2>5. IsCapture(cap[j]) /\ cap[j].tab = job[j].tab /\ cap[j].lease = FALSE /\ cap[j].active = FALSE
    BY <2>3, <2>4 DEF IsCapture, CaptureFields
  <2> QED
    BY <1>2, <2>2, <2>4, <2>5 DEF JobTypes, LeaseFits
<1>4. CaptureTypes
  BY <1>1, <1>2 DEF CaptureTypes, LeaseStates
<1>5. \A t \in Tabs : TabFits(t)
  BY <1>2 DEF TabFits
<1> QED
  BY <1>3, <1>4, <1>5 DEF CaptureInv

\* Every step keeps the invariant.
LEMMA NextKeeps == CaptureInv /\ [Next]_vars => CaptureInv'
<1> SUFFICES ASSUME CaptureInv, [Next]_vars PROVE CaptureInv'
  OBVIOUS
<1>1. ASSUME NEW j \in Jobs, Step(j) PROVE CaptureInv'
  BY <1>1, BeginKeeps, StartCaptureKeeps, StartsKeep, AcquiredKeeps, CommandsKeep, StopKeeps,
     ClearKeeps, ReleaseEndsKeeps DEF Step
<1>2. ASSUME NEW j \in Jobs, Detach(j) PROVE CaptureInv'
  BY <1>2, DetachKeeps
<1>3. ASSUME NEW r \in Requests, Event(r) PROVE CaptureInv'
  BY <1>3, EventStep
<1>4. ASSUME NEW t \in Tabs, Navigate(t) PROVE CaptureInv'
  BY <1>4, NavigateKeeps
<1>5. CASE Tick \/ UNCHANGED vars
  <2>1. UNCHANGED <<captures, cap, lease, doc, job>>
    BY <1>5 DEF Tick, vars
  <2>2. cap' = [i \in Jobs |-> cap'[i]] /\ \A i \in Jobs : SameHead(cap[i], cap'[i])
    BY <2>1, Unmoved DEF CaptureInv, CaptureTypes
  <2> QED
    BY <2>1, <2>2, LogStep
<1> QED
  BY <1>1, <1>2, <1>3, <1>4, <1>5 DEF Next

\* The invariant of the captures, for every workload.
THEOREM CaptureInvariant == Spec => []CaptureInv
BY InitKeeps, NextKeeps, PTL DEF Spec

\* No debugger attachment outlives the capture that start acquired it for, and no capture whose
\* start answered lacks one: whatever takes the tab while start waits for the release of the
\* capture before, for attach or for Network.enable.
THEOREM LeasesHaveCaptures == Spec => []LeaseHasCapture
<1>1. CaptureInv => LeaseHasCapture
  BY DEF CaptureInv, LeaseFits, LeaseHasCapture, CurrentAndActive, Leased
<1> QED
  BY <1>1, CaptureInvariant, PTL

\* A tab's capture, once start has answered, is of the document that the tab shows.
THEOREM CapturesAreOfDocument == Spec => []CaptureOfDocument
<1>1. CaptureInv => CaptureOfDocument
  BY DEF CaptureInv, TabFits, CaptureOfDocument
<1> QED
  BY <1>1, CaptureInvariant, PTL

-----------------------------------------------------------------------------
(* The log of a capture.                                                   *)

IsSeq(s) == s \in Seq(Range(s))

RecordFields == {"request", "hop", "headers", "completed", "failed", "redirect", "redirectTo",
                 "applied", "extra", "bytes"}

\* A record has its fields, and those that the log computes with have their types.
IsRecord(x) ==
    /\ x = [f \in RecordFields |-> x[f]]
    /\ x.request \in Requests /\ x.hop \in Nat \ {0}
    /\ x.bytes \in Nat /\ x.bytes <= MAX_ENTRY_BYTES
    /\ x.extra = [k \in Kinds |-> x.extra[k]]

Records(c) == IsSeq(c.records) /\ \A n \in 1..Len(c.records) : IsRecord(c.records[n])

\* The log holds the newest records, without a gap.
First(c) == Len(c.records) - Len(c.entries) + 1
Held(c) == First(c)..Len(c.records)
Entries(c) ==
    /\ c.entries \in Seq(Nat) /\ Len(c.entries) <= Len(c.records)
    /\ \A i \in 1..Len(c.entries) : c.entries[i] = First(c) + i - 1

\* The indexes name entries in the log, each under its request.
Indexes(c) ==
    /\ c.byEntryId \subseteq Held(c)
    /\ c.currentByRequest = [r \in Requests |-> c.currentByRequest[r]]
    /\ c.recordsByRequest = [r \in Requests |-> c.recordsByRequest[r]]
    /\ \A r \in Requests :
         /\ c.currentByRequest[r] # None =>
               c.currentByRequest[r] \in Held(c) /\ c.records[c.currentByRequest[r]].request = r
         /\ \A n \in c.recordsByRequest[r] : n \in Held(c) /\ c.records[n].request = r

Queues(c) == [kr \in Kinds \X Requests |-> Len(c.pendingExtra[kr[1]][kr[2]])]
Pending(c) ==
    /\ c.pendingExtra = [k \in Kinds |-> c.pendingExtra[k]]
    /\ \A k \in Kinds :
         /\ c.pendingExtra[k] = [r \in Requests |-> c.pendingExtra[k][r]]
         /\ \A r \in Requests : c.pendingExtra[k][r] \in Seq(Nat)
    /\ c.pendingExtraEvents = SumFunctionOnSet(Queues(c), Kinds \X Requests)
    /\ c.droppedEvents \in Nat

Shape(c) ==
    /\ IsCapture(c) /\ Records(c) /\ Entries(c) /\ Indexes(c) /\ Pending(c)
    /\ c.bufferedBytes = Sum(c, Held(c))
Limits(c) == c.bufferedBytes <= MAX_BUFFER_BYTES /\ Len(c.entries) <= MAX_ENTRIES

\* A record as the properties see it: all but its bytes and how it is shown.
Alike(x, y) ==
    /\ y.request = x.request /\ y.hop = x.hop /\ y.applied = x.applied /\ y.extra = x.extra
    /\ y.completed = x.completed /\ y.failed = x.failed /\ y.redirect = x.redirect

\* d is c after an eviction: the newest entry, at least, is left.
Trimmed(c, d) ==
    /\ Len(d.records) = Len(c.records)
    /\ \A n \in 1..Len(c.records) : Alike(c.records[n], d.records[n])
    /\ Held(d) \subseteq Held(c) /\ (c.entries # <<>> => Len(c.records) \in Held(d))
    /\ \A r \in Requests :
         /\ d.currentByRequest[r] = IF c.currentByRequest[r] \in Held(d)
                                    THEN c.currentByRequest[r] ELSE None
         /\ d.recordsByRequest[r] = c.recordsByRequest[r] \cap Held(d)
    /\ d.pendingExtra = c.pendingExtra /\ d.droppedEvents = c.droppedEvents

\* d is c but for its records and its bytes.
OnlyRecords(c, d) ==
    /\ SameHead(c, d)
    /\ d.entries = c.entries /\ d.byEntryId = c.byEntryId
    /\ d.currentByRequest = c.currentByRequest /\ d.recordsByRequest = c.recordsByRequest
    /\ d.pendingExtra = c.pendingExtra /\ d.pendingExtraEvents = c.pendingExtraEvents
    /\ d.droppedEvents = c.droppedEvents

\* Record n of c has got the value v, and what no longer fits in the log has been evicted.
Writes(c, n, v, d) ==
    /\ SameHead(c, d) /\ Shape(d) /\ Limits(d) /\ Len(d.records) = Len(c.records)
    /\ \A i \in 1..Len(c.records) : Alike(IF i = n THEN v ELSE c.records[i], d.records[i])
    /\ Held(d) \subseteq Held(c) /\ Len(c.records) \in Held(d)
    /\ \A r \in Requests :
         /\ d.currentByRequest[r] = IF c.currentByRequest[r] \in Held(d)
                                    THEN c.currentByRequest[r] ELSE None
         /\ d.recordsByRequest[r] = c.recordsByRequest[r] \cap Held(d)
    /\ d.pendingExtra = c.pendingExtra /\ d.droppedEvents = c.droppedEvents

\* Of the k events pending for r, s are left.
Requeues(c, k, r, s, d) ==
    /\ SameHead(c, d) /\ Shape(d) /\ d.records = c.records /\ d.entries = c.entries
    /\ d.bufferedBytes = c.bufferedBytes /\ Held(d) = Held(c)
    /\ d.currentByRequest = c.currentByRequest /\ d.recordsByRequest = c.recordsByRequest
    /\ \A l \in Kinds, q \in Requests :
          d.pendingExtra[l][q] = IF l = k /\ q = r THEN s ELSE c.pendingExtra[l][q]
    /\ d.droppedEvents = c.droppedEvents
Requeued(c, k, r, s, e) == [c EXCEPT !.pendingExtra[k][r] = s, !.pendingExtraEvents = e]

\* The n-th record is x, of request r.
Adds(c, x, r, n, d) ==
    /\ SameHead(c, d) /\ Shape(d) /\ Len(d.records) = n /\ n \in Nat
    /\ Held(d) = Held(c) \cup {n} /\ d.records[n] = x
    /\ \A i \in 1..Len(c.records) : d.records[i] = c.records[i]
    /\ \A q \in Requests :
         /\ d.currentByRequest[q] = IF q = r THEN n ELSE c.currentByRequest[q]
         /\ d.recordsByRequest[q] = c.recordsByRequest[q] \cup (IF q = r THEN {n} ELSE {})
    /\ d.pendingExtra = c.pendingExtra /\ d.droppedEvents = c.droppedEvents

\* The same hop of the same request, and as far loaded.
Named(x, y) == y.request = x.request /\ y.hop = x.hop
AsLoaded(c, d) ==
    \A i \in 1..Len(c.records) :
       /\ d.records[i].completed = c.records[i].completed
       /\ d.records[i].failed = c.records[i].failed /\ d.records[i].redirect = c.records[i].redirect

\* d is c but for what is known of the hops, and for entries that were evicted.
Shrinks(c, d) ==
    /\ SameHead(c, d) /\ Shape(d) /\ Len(d.records) = Len(c.records)
    /\ \A i \in 1..Len(c.records) : Named(c.records[i], d.records[i])
    /\ Held(d) \subseteq Held(c) /\ (Len(c.records) \in Held(c) => Len(c.records) \in Held(d))
    /\ \A r \in Requests :
         /\ d.currentByRequest[r] = IF c.currentByRequest[r] \in Held(d)
                                    THEN c.currentByRequest[r] ELSE None
         /\ d.recordsByRequest[r] = c.recordsByRequest[r] \cap Held(d)
    /\ d.droppedEvents = c.droppedEvents

\* The extra headers of request q, and those pending for it, are the same in both.
Apart(c, d, q) ==
    /\ \A k \in Kinds : d.pendingExtra[k][q] = c.pendingExtra[k][q]
    /\ \A i \in 1..Len(c.records) : c.records[i].request = q =>
          d.records[i].applied = c.records[i].applied /\ d.records[i].extra = c.records[i].extra

\* The log has a record of each of the m hops of r, in their order, and those of X have been given
\* to theirs: a record lacks extra headers that are not in X, unless there will be none.
ExtraOf(k, h) == [kind |-> k, hop |-> h]
Given(x, r, X) ==
    \A k \in Kinds : /\ ExtraOf(k, x.hop) \in X => k \in x.applied
                     /\ k \in x.applied => ExtraOf(k, x.hop) \in X \/ ~load.chain[r][x.hop]
                     /\ x.extra[k] \in {None, x.hop}
Paired(c, r, m, X) ==
    LET R == c.recordsByRequest[r] IN
    /\ \A n \in 1..Len(c.records) : c.records[n].request = r => n \in R
    /\ \A h \in 1..m : \E n \in R : c.records[n].hop = h
    /\ \A n \in R : c.records[n].hop <= m /\ Given(c.records[n], r, X)
    /\ \A n1, n2 \in R : n1 < n2 => c.records[n1].hop < c.records[n2].hop

\* The events of W for hop h of r are the ones pending.
Awaiting(c, r, h, W) ==
    \A k \in Kinds : c.pendingExtra[k][r] = IF ExtraOf(k, h) \in W THEN <<h>> ELSE <<>>

\* The hop that request r has reached when s is what Chrome has sent.
Reached(r, s) == IF s[r].main > Hops(r) THEN Hops(r) ELSE s[r].main

\* A record is of a hop that Chrome has sent; one that has loaded is of the last.
RecordFits(x, s) ==
    /\ x.hop <= Reached(x.request, s)
    /\ x.completed /\ ~x.redirect /\ ~x.failed =>
          s[x.request].main = Hops(x.request) + 2 /\ x.hop = Hops(x.request)
Fits(c, s) == \A n \in 1..Len(c.records) : RecordFits(c.records[n], s)

\* The current record of a request is of the hop that it has reached.
Follows(c, s) ==
    \A r \in Requests : c.currentByRequest[r] # None =>
       c.records[c.currentByRequest[r]].hop = Reached(r, s)

\* The capture has everything of request q.
Full(c, q, s) ==
    Paired(c, q, Reached(q, s), s[q].extra) /\ Awaiting(c, q, Reached(q, s) + 1, s[q].extra)

\* A capture that hears what Chrome sends, and what an event of r makes of it.
Ready(c, s) == Shape(c) /\ Limits(c) /\ Fits(c, s) /\ Follows(c, s)
Grows(c, d) ==
    /\ Len(c.records) <= Len(d.records)
    /\ \A n \in 1..Len(c.records) : Named(c.records[n], d.records[n])
Logs(c, d, r, s, t) ==
    /\ SameHead(c, d) /\ Ready(d, t) /\ Grows(c, d)
    /\ \A q \in Requests :
          /\ Regular(q) /\ Full(c, q, s) /\ c.recordsByRequest[q] \subseteq Held(d)
          /\ q = r => d.droppedEvents = c.droppedEvents
          => Full(d, q, t)

\* What Chrome has sent of a request: ExtraInfo events in their order, at most a hop ahead.
SentFits(r, s) ==
    /\ s[r].main \in Nat /\ s[r].extra \subseteq ExtraEvents(r)
    /\ \A e \in s[r].extra :
         /\ e.hop <= s[r].main + 1
         /\ \A f \in ExtraEvents(r) : Before(f, e) => f \in s[r].extra

\* Chrome goes from s to t with an event of r.
Moves(r, s, t) ==
    \A q \in Requests :
       /\ Hops(q) \in Nat /\ s[q].main \in Nat /\ t[q].main \in Nat
       /\ Reached(q, s) <= Reached(q, t)
       /\ s[q].main = Hops(q) + 2 => t[q].main = Hops(q) + 2
       /\ q # r => t[q] = s[q]

\* v is x with its response's or its end's part, for a hop that has no ExtraInfo events maybe.
Touched(x, v, r) ==
    /\ IsRecord(v) /\ Named(x, v) /\ v.bytes = x.bytes /\ v.extra = x.extra
    /\ v.applied = x.applied \/ (v.applied = x.applied \cup {"response"} /\ ~load.chain[r][x.hop])

\* handleRequest, step by step.
NewRecord(r, hop) ==
    [request |-> r, hop |-> hop, headers |-> "none", completed |-> FALSE,
     failed |-> FALSE, redirect |-> FALSE, redirectTo |-> None, applied |-> {},
     extra |-> [k \in Kinds |-> None], bytes |-> 0]
IsNew(x, r, hop) ==
    /\ IsRecord(x) /\ x.request = r /\ x.hop = hop /\ x.bytes = 0 /\ x.completed = FALSE
    /\ x.applied = {} /\ \A k \in Kinds : x.extra[k] = None
Redirected(x, r, hop, n) ==
    [FinishRecord(ApplyResponse(x, load.chain[r][hop - 1]), TRUE) EXCEPT !.redirectTo = n]
Linked(c, r, hop) ==
    LET p == c.currentByRequest[r] IN
    IF ~(p # None /\ hop > 1) THEN c
    ELSE UpdateRecord([c EXCEPT !.records[p] = Redirected(@, r, hop, Len(c.records) + 1)], p)
Added(c, r, hop, n) ==
    [c EXCEPT !.records = Append(@, NewRecord(r, hop)), !.entries = Append(@, n),
              !.byEntryId = @ \cup {n}, !.currentByRequest[r] = n,
              !.recordsByRequest[r] = @ \cup {n}]
Drained(c, r) == DrainPendingExtra(DrainPendingExtra(c, r, "request"), r, "response")

\* d is c with a record of the hop after the m-th.
AddsHop(c, r, m, n, s, t, d) ==
    /\ SameHead(c, d) /\ Shape(d) /\ Len(d.records) = n /\ n \in Nat
    /\ Held(d) = Held(c) \cup {n} /\ Fits(d, t) /\ Follows(d, t)
    /\ \A i \in 1..Len(c.records) : d.records[i] = c.records[i]
    /\ \A q \in Requests : d.recordsByRequest[q] =
         c.recordsByRequest[q] \cup (IF q = r THEN {n} ELSE {})
    /\ d.pendingExtra = c.pendingExtra /\ d.droppedEvents = c.droppedEvents
    /\ \A q \in Requests : q # r => /\ t[q] = s[q]
                                    /\ Full(c, q, s) => Full(d, q, t)
    /\ \A X : Paired(c, r, m, X) /\ (\A k \in Kinds : ExtraOf(k, m + 1) \notin X)
                 => Paired(d, r, m + 1, X)

-----------------------------------------------------------------------------
(* What makes the properties of the log inductive.                         *)

\* The log of a capture that has heard nothing.
Fresh(c) ==
    /\ c.records = <<>> /\ c.entries = <<>> /\ c.byEntryId = {} /\ c.bufferedBytes = 0
    /\ c.currentByRequest = [r \in Requests |-> None] /\ c.recordsByRequest = NoRecords
    /\ c.pendingExtra = [k \in Kinds |-> Nothing] /\ c.pendingExtraEvents = 0
    /\ c.droppedEvents = 0

\* Chrome sends what the workload says.
IsSent(x) == x = [main |-> x.main, extra |-> x.extra]
SentInv ==
    /\ load \in Workloads /\ sent = [r \in Requests |-> sent[r]]
    /\ \A r \in Requests : IsSent(sent[r]) /\ SentFits(r, sent)

\* The log is consistent, and the one of a capture that hears follows what Chrome sends.
LogFits(j) ==
    /\ Shape(cap[j]) /\ Limits(cap[j]) /\ Fits(cap[j], sent)
    /\ Hears(j) => Follows(cap[j], sent)
    /\ lease[j] = "none" => Fresh(cap[j])

\* A regular request of which capture j has everything: from the acquisition of its lease on.
Extras(c, r) ==
    \A n \in 1..Len(c.records) : c.records[n].request = r =>
       \A k \in Kinds : c.records[n].extra[k] \in {None, c.records[n].hop}
Pairs(j, r) ==
    <<j, r>> \notin partial /\ Regular(r) =>
       /\ lease[j] = "none" => sent[r] = Unsent
       /\ Hears(j) => Full(cap[j], r, sent)
       /\ Extras(cap[j], r)

\* A start acquires its lease once; the other commands have the modes of their kind.
ModeFits(j) ==
    /\ job[j].mode \in {"replaced", "acquire", "enable", "undo"} => job[j].op = "start"
    /\ job[j].mode = "stopping" => job[j].op = "stop"
    /\ job[j].mode \in {"body", "bodySent"} => job[j].op = "body"
    /\ lease[j] # "none" => job[j].op = "start" /\ job[j].mode \notin {"new", "prepare"} \cup Early

\* The response body was asked for of a record that had loaded: the last hop of its request.
Loaded(x, s) == s[x.request].main = Hops(x.request) + 2 /\ x.hop = Hops(x.request)
BodyFits(j) ==
    job[j].op = "body" =>
       /\ "direction" \in DOMAIN job[j].params
       /\ job[j].mode \in {"body", "bodySent", "recheck", "done"} =>
            /\ job[j].of \in Jobs /\ lease[job[j].of] # "none"
            /\ job[j].entry \in 1..Len(cap[job[j].of].records)
            /\ job[j].params.direction = "response" =>
                 /\ Loaded(cap[job[j].of].records[job[j].entry], sent)
                 /\ job[j].mode \in {"recheck", "done"} =>
                      job[j].body = cap[job[j].of].records[job[j].entry].hop

\* What a read has answered, from whatever cursor.
ReadFits(j) ==
    job[j].op = "read" =>
       /\ job[j].params.cursor \in Nat /\ (job[j].params.from # None => job[j].params.cursor # None)
       /\ job[j].result.next \in Nat
       /\ job[j].mode \in {"recheck", "done"} /\ job[j].params.from # None =>
            \/ job[j].result.expired
            \/ job[j].result.entries = (job[j].params.cursor + 1)..job[j].result.upTo

LogsInv ==
    /\ SentInv
    /\ \A j \in Jobs : LogFits(j)
    /\ \A j \in Jobs, r \in Requests : Pairs(j, r)
CommandsInv == \A j \in Jobs : ModeFits(j) /\ BodyFits(j) /\ ReadFits(j)
LogInv == LogsInv /\ CommandsInv

\* What is in some Seq(S) is a sequence.
LEMMA SeqIs == ASSUME NEW S, NEW s \in Seq(S) PROVE IsSeq(s)
<1>1. Len(s) \in Nat /\ s \in [1..Len(s) -> S] /\ DOMAIN s = 1..Len(s)
  BY LenProperties
<1>2. s \in [1..Len(s) -> Range(s)]
  BY <1>1 DEF Range
<1> DEFINE R == Range(s)
<1> HIDE DEF R
<1>3. s \in Seq(R)
  BY <1>1, <1>2 DEF R
<1> QED
  BY <1>3 DEF R, IsSeq

\* A sequence is a function on its indices.
LEMMA SeqLen == ASSUME NEW s, IsSeq(s)
                PROVE  Len(s) \in Nat /\ DOMAIN s = 1..Len(s) /\ s = [i \in 1..Len(s) |-> s[i]]
<1> DEFINE R == Range(s)
<1>1. s \in Seq(R)
  BY DEF IsSeq
<1> HIDE DEF R
<1> QED
  BY <1>1, LenProperties

\* Appending keeps the elements before.
LEMMA SeqAppend == ASSUME NEW s, IsSeq(s), NEW e
                   PROVE  /\ IsSeq(Append(s, e)) /\ Len(Append(s, e)) = Len(s) + 1
                          /\ \A i \in 1..Len(s) : Append(s, e)[i] = s[i]
                          /\ Append(s, e)[Len(s) + 1] = e
<1> DEFINE R == Range(s) \cup {e}
<1>1. s \in [1..Len(s) -> Range(s)] /\ Len(s) \in Nat
  BY LenProperties DEF IsSeq
<1>2. s \in [1..Len(s) -> R] /\ e \in R
  BY <1>1
<1> HIDE DEF R
<1>3. s \in Seq(R)
  BY <1>1, <1>2
<1>4. /\ Append(s, e) \in Seq(R) /\ Len(Append(s, e)) = Len(s) + 1
      /\ \A i \in 1..Len(s) : Append(s, e)[i] = s[i]
      /\ Append(s, e)[Len(s) + 1] = e
  BY <1>2, <1>3, AppendProperties
<1> DEFINE t == Append(s, e)
<1> HIDE DEF t
<1>5. IsSeq(t)
  BY <1>4, SeqIs DEF t
<1> QED
  BY <1>4, <1>5 DEF t

\* Replacing an element keeps the others.
LEMMA SeqExcept == ASSUME NEW s, IsSeq(s), NEW n \in 1..Len(s), NEW e
                   PROVE  /\ IsSeq([s EXCEPT ![n] = e]) /\ Len([s EXCEPT ![n] = e]) = Len(s)
                          /\ \A i \in 1..Len(s) : [s EXCEPT ![n] = e][i] = IF i = n THEN e ELSE s[i]
<1> DEFINE R == Range(s) \cup {e}
<1>1. s \in [1..Len(s) -> Range(s)] /\ Len(s) \in Nat
  BY LenProperties DEF IsSeq
<1>2. s \in [1..Len(s) -> R] /\ e \in R
  BY <1>1
<1> HIDE DEF R
<1>3. s \in Seq(R)
  BY <1>1, <1>2
<1> DEFINE t == [s EXCEPT ![n] = e]
<1>4. t \in Seq(R) /\ Len(t) = Len(s) /\ \A i \in 1..Len(s) : t[i] = IF i = n THEN e ELSE s[i]
  BY <1>2, <1>3, ExceptSeq
<1> HIDE DEF t
<1>5. IsSeq(t)
  BY <1>4, SeqIs
<1> QED
  BY <1>4, <1>5 DEF t

-----------------------------------------------------------------------------
(* Eviction.                                                               *)

\* The entries of a log are an interval, and its oldest ones are the front of it.
LEMMA HeldIs ==
    ASSUME NEW c, Records(c), Entries(c)
    PROVE  /\ Range(c.entries) = Held(c)
           /\ \A k \in 0..Len(c.entries) : Oldest(c, k) = First(c)..(First(c) + k - 1)
<1>a. Len(c.records) \in Nat /\ Len(c.entries) \in Nat /\ DOMAIN c.entries = 1..Len(c.entries)
  BY SeqLen, LenProperties DEF Records, Entries
<1>b. /\ Len(c.entries) <= Len(c.records)
      /\ \A i \in 1..Len(c.entries) : c.entries[i] = First(c) + i - 1
  BY DEF Entries
<1>1. /\ First(c) \in Nat /\ First(c) + Len(c.entries) - 1 = Len(c.records)
  BY <1>a, <1>b DEF First
<1> DEFINE f == First(c)
<1> HIDE DEF f
<1>2. ASSUME NEW k \in 0..Len(c.entries)
      PROVE  {c.entries[i] : i \in 1..k} = f..(f + k - 1)
  <2>1. ASSUME NEW n \in f..(f + k - 1) PROVE \E i \in 1..k : n = c.entries[i]
    <3>1. n - f + 1 \in 1..k /\ n - f + 1 \in 1..Len(c.entries) /\ f + (n - f + 1) - 1 = n
      BY <1>a, <1>1 DEF f
    <3> QED
      BY <1>b, <3>1 DEF f
  <2>2. ASSUME NEW i \in 1..k PROVE c.entries[i] \in f..(f + k - 1)
    <3>1. i \in 1..Len(c.entries)
      BY <1>a
    <3> QED
      BY <1>1, <1>b, <3>1 DEF f
  <2> QED
    BY <2>1, <2>2
<1>3. Range(c.entries) = {c.entries[i] : i \in 1..Len(c.entries)}
  BY <1>a DEF Range
<1>4. Range(c.entries) = f..(f + Len(c.entries) - 1)
  <2>1. Len(c.entries) \in 0..Len(c.entries)
    BY <1>a
  <2> QED
    BY <1>2, <1>3, <2>1
<1> QED
  BY <1>1, <1>2, <1>4 DEF Oldest, Held, f

\* The bytes of a part of the log, and of its two parts.
LEMMA SumOfLog ==
    ASSUME NEW c, Records(c), NEW a \in Nat \ {0}, NEW b \in Int, b <= Len(c.records)
    PROVE  /\ Sum(c, a..b) \in Nat /\ IsFiniteSet(a..b)
           /\ \A i \in a..b : i \in DOMAIN c.records /\ c.records[i].bytes \in Nat
<1> DEFINE f == [n \in DOMAIN c.records |-> c.records[n].bytes]
<1>1. \A i \in a..b : i \in DOMAIN c.records /\ c.records[i].bytes \in Nat
  <2>1. Len(c.records) \in Nat /\ DOMAIN c.records = 1..Len(c.records)
    BY SeqLen DEF Records
  <2>2. \A i \in a..b : i \in 1..Len(c.records)
    BY <2>1
  <2> QED
    BY <2>1, <2>2 DEF Records, IsRecord
<1>2. \A i \in a..b : f[i] \in Nat
  BY <1>1
<1>3. IsFiniteSet(a..b)
  BY FS_Interval
<1> DEFINE S == a..b
<1> HIDE DEF f, S
<1>4. SumFunctionOnSet(f, S) \in Nat
  BY <1>2, <1>3, SumType DEF S
<1> QED
  BY <1>1, <1>3, <1>4 DEF Sum, f, S

\* The sum over an interval is the sum over its parts.
LEMMA SumCut ==
    ASSUME NEW c, Records(c), NEW a \in Nat \ {0}, NEW b \in Int, b <= Len(c.records),
           NEW m \in a..(b + 1)
    PROVE  Sum(c, a..b) = Sum(c, a..(m - 1)) + Sum(c, m..b)
<1> DEFINE f == [n \in DOMAIN c.records |-> c.records[n].bytes]
           S == a..(m - 1)
           T == m..b
<1>1. S \cap T = {} /\ S \cup T = a..b
  OBVIOUS
<1>2. IsFiniteSet(S) /\ IsFiniteSet(T)
  BY FS_Interval
<1>3. \A i \in S \cup T : f[i] \in Nat
  BY <1>1, SumOfLog
<1> HIDE DEF S, T, f
<1>4. SumFunctionOnSet(f, S \cup T) = SumFunctionOnSet(f, S) + SumFunctionOnSet(f, T)
  BY <1>1, <1>2, <1>3, SumSplit
<1> QED
  BY <1>1, <1>4 DEF S, T, f, Sum

\* The numbers of a log.
LEMMA LogBounds ==
    ASSUME NEW c, Records(c), Entries(c)
    PROVE  /\ Len(c.records) \in Nat /\ DOMAIN c.records = 1..Len(c.records)
           /\ Len(c.entries) \in Nat /\ Len(c.entries) <= Len(c.records)
           /\ First(c) \in Nat \ {0} /\ First(c) = Len(c.records) - Len(c.entries) + 1
           /\ First(c) <= Len(c.records) + 1
           /\ Held(c) = First(c)..Len(c.records)
           /\ Held(c) \subseteq 1..Len(c.records) /\ IsFiniteSet(Held(c)) /\ None \notin Held(c)
           /\ Held(c) # {} => c.entries # <<>>
<1>1. /\ Len(c.records) \in Nat /\ DOMAIN c.records = 1..Len(c.records)
      /\ Len(c.entries) \in Nat /\ Len(c.entries) <= Len(c.records)
  BY SeqLen, LenProperties DEF Records, Entries
<1>2. /\ First(c) \in Nat \ {0} /\ First(c) = Len(c.records) - Len(c.entries) + 1
      /\ First(c) <= Len(c.records) + 1
  <2> DEFINE N == Len(c.records)
             l == Len(c.entries)
  <2>1. N \in Nat /\ l \in Nat /\ l <= N
    BY <1>1
  <2>2. First(c) = N - l + 1
    BY DEF First
  <2> HIDE DEF N, l
  <2>3. First(c) \in Nat \ {0} /\ First(c) <= N + 1
    BY ONLY <2>1, <2>2
  <2> QED
    BY <2>2, <2>3 DEF N, l
<1>3. Held(c) = First(c)..Len(c.records)
  BY DEF Held
<1> DEFINE f == First(c)
           N == Len(c.records)
           H == f..N
<1>4. H \subseteq 1..N /\ 0 \notin H /\ (H # {} => Len(c.entries) # 0)
  <2>1. N \in Nat /\ f \in Nat \ {0} /\ f = N - Len(c.entries) + 1 /\ Len(c.entries) \in Nat
    BY <1>1, <1>2
  <2> HIDE DEF N, f
  <2>2. \A i \in H : i \in 1..N /\ i # 0
    BY <2>1
  <2>3. Len(c.entries) = 0 => H = {}
    BY <2>1
  <2> QED
    BY <2>2, <2>3
<1>5. IsFiniteSet(H)
  <2>1. N \in Int /\ f \in Int
    BY <1>1, <1>2
  <2> HIDE DEF N, f
  <2> QED
    BY <2>1, FS_Interval
<1>6. Len(c.entries) # 0 => c.entries # <<>>
  OBVIOUS
<1> HIDE DEF f
<1> QED
  BY <1>1, <1>2, <1>3, <1>4, <1>5, <1>6 DEF None, f

\* The bytes of the entries are a number.
LEMMA LogSum == ASSUME NEW c, Shape(c) PROVE Sum(c, Held(c)) \in Nat
<1> DEFINE f == First(c)
           N == Len(c.records)
<1>1. Records(c) /\ Entries(c)
  BY DEF Shape
<1>2. f \in Nat \ {0} /\ N \in Nat /\ Held(c) = f..N
  BY <1>1, LogBounds
<1>3. N \in Int /\ N <= Len(c.records)
  BY <1>2
<1> HIDE DEF f, N
<1>4. Sum(c, f..N) \in Nat
  BY ONLY <1>1, <1>2, <1>3, SumOfLog
<1> QED
  BY <1>2, <1>4

\* An interval with the next number.
LEMMA IntervalGrows ==
    ASSUME NEW f \in Nat \ {0}, NEW N \in Nat, f <= N + 1
    PROVE  /\ f..(N + 1) = (f..N) \cup {N + 1} /\ N + 1 \notin f..N
           /\ \A i \in f..N : i \in 1..N /\ i \in 1..(N + 1)
OBVIOUS

\* The entries that are left, and their indexes.
LEMMA EvictShape ==
    ASSUME NEW c, Shape(c), NEW k \in 0..Len(c.entries), k < Len(c.entries) \/ c.entries = <<>>
    PROVE  /\ Shape(Evict(c, k)) /\ Trimmed(c, Evict(c, k))
           /\ Evict(c, k).bufferedBytes = c.bufferedBytes - Sum(c, Oldest(c, k))
           /\ Len(Evict(c, k).entries) = Len(c.entries) - k
<1> DEFINE d == Evict(c, k)
           f == First(c)
<1>1. /\ IsCapture(d) /\ d.records = c.records /\ d.entries = SubSeq(c.entries, k + 1, Len(c.entries))
      /\ d.bufferedBytes = c.bufferedBytes - Sum(c, Oldest(c, k))
      /\ d.byEntryId = c.byEntryId \ Oldest(c, k)
      /\ d.currentByRequest = [r \in Requests |-> IF c.currentByRequest[r] \in Oldest(c, k)
                                                  THEN None ELSE c.currentByRequest[r]]
      /\ d.recordsByRequest = [r \in Requests |-> c.recordsByRequest[r] \ Oldest(c, k)]
      /\ d.pendingExtra = c.pendingExtra /\ d.pendingExtraEvents = c.pendingExtraEvents
      /\ d.droppedEvents = c.droppedEvents
  BY DEF Evict, Shape, IsCapture, CaptureFields
<1> HIDE DEF d
<1>2. /\ Len(c.records) \in Nat /\ Len(c.entries) \in Nat /\ Len(c.entries) <= Len(c.records)
      /\ c.entries \in Seq(Nat) /\ Records(c) /\ Entries(c)
      /\ \A i \in 1..Len(c.entries) : c.entries[i] = f + i - 1
  BY SeqLen DEF Shape, Records, Entries
<1>3. f \in Nat \ {0} /\ f + Len(c.entries) - 1 = Len(c.records) /\ Held(c) = f..Len(c.records)
  BY <1>2 DEF First, Held
<1>4. /\ Oldest(c, k) = f..(f + k - 1)
  BY <1>2, HeldIs
<1>5. /\ d.entries \in Seq(Nat) /\ Len(d.entries) = Len(c.entries) - k
      /\ \A i \in 1..(Len(c.entries) - k) : d.entries[i] = c.entries[i + k]
  BY <1>1, <1>2
<1>6. First(d) = f + k /\ Held(d) = (f + k)..Len(c.records)
  <2>1. Len(d.records) = Len(c.records) /\ f = Len(c.records) - Len(c.entries) + 1
    BY <1>1 DEF First
  <2>2. First(d) = f + k
    BY <1>2, <1>5, <2>1 DEF First
  <2> QED
    BY <2>1, <2>2 DEF Held
<1>7. \A n \in Held(c) : n \in Oldest(c, k) <=> n \notin Held(d)
  BY <1>2, <1>3, <1>4, <1>6
<1> HIDE DEF f
<1>8. Records(d)
  BY <1>1, <1>2 DEF Records
<1>9. Entries(d)
  <2>1. ASSUME NEW i \in 1..Len(d.entries) PROVE d.entries[i] = First(d) + i - 1
    <3>1. i \in 1..(Len(c.entries) - k) /\ i + k \in 1..Len(c.entries)
      BY <1>2, <1>5
    <3>2. d.entries[i] = f + (i + k) - 1
      BY <1>2, <1>5, <3>1
    <3> QED
      BY <1>3, <1>6, <3>2
  <2>2. Len(d.entries) <= Len(d.records)
    BY <1>1, <1>2, <1>5
  <2> QED
    BY <1>5, <2>1, <2>2 DEF Entries
<1>10. Held(d) \subseteq Held(c)
  BY <1>2, <1>3, <1>6
<1>11. Indexes(d)
  <2>1. Indexes(c)
    BY DEF Shape
  <2>2. ASSUME NEW r \in Requests
        PROVE  /\ d.currentByRequest[r] # None =>
                    d.currentByRequest[r] \in Held(d) /\ d.records[d.currentByRequest[r]].request = r
               /\ \A n \in d.recordsByRequest[r] : n \in Held(d) /\ d.records[n].request = r
    BY <1>1, <1>7, <2>1 DEF Indexes
  <2> QED
    BY <1>1, <1>7, <2>1, <2>2 DEF Indexes
<1>12. Pending(d)
  BY <1>1 DEF Shape, Pending, Queues
<1>13. d.bufferedBytes = Sum(d, Held(d))
  <2> DEFINE b == Len(c.records)
             m == f + k
  <2>1. m \in f..(b + 1) /\ b \in Int /\ b <= Len(c.records) /\ m \in Nat \ {0}
        /\ m - 1 \in Int /\ m - 1 <= Len(c.records) /\ m - 1 = f + k - 1
    BY <1>2, <1>3
  <2> HIDE DEF b, m
  <2>2. Sum(c, f..b) = Sum(c, f..(m - 1)) + Sum(c, m..b)
    BY <1>2, <1>3, <2>1, SumCut
  <2>3. Sum(c, f..(m - 1)) \in Nat /\ Sum(c, m..b) \in Nat
    BY <1>2, <1>3, <2>1, SumOfLog
  <2>4. c.bufferedBytes = Sum(c, f..Len(c.records))
    BY <1>3 DEF Shape
  <2>5. Sum(d, Held(d)) = Sum(c, Held(d))
    BY <1>1 DEF Sum
  <2>6. Sum(d, Held(d)) = Sum(c, m..b)
    BY <1>6, <2>5 DEF m, b
  <2>7. d.bufferedBytes = Sum(c, f..b) - Sum(c, f..(m - 1))
    BY <1>1, <1>4, <2>1, <2>4 DEF b
  <2> QED
    BY <2>2, <2>3, <2>6, <2>7
<1>14. Trimmed(c, d)
  <2>1. c.entries # <<>> => Len(c.records) \in Held(d)
    <3>1. c.entries # <<>> => k < Len(c.entries)
      OBVIOUS
    <3> QED
      BY <1>2, <1>3, <1>6, <3>1
  <2>2. \A n \in 1..Len(c.records) : Alike(c.records[n], d.records[n])
    BY <1>1 DEF Alike
  <2>3. ASSUME NEW r \in Requests
        PROVE  /\ d.currentByRequest[r] = IF c.currentByRequest[r] \in Held(d)
                                          THEN c.currentByRequest[r] ELSE None
               /\ d.recordsByRequest[r] = c.recordsByRequest[r] \cap Held(d)
    <3>1. /\ c.currentByRequest[r] # None => c.currentByRequest[r] \in Held(c)
          /\ \A n \in c.recordsByRequest[r] : n \in Held(c)
      BY DEF Shape, Indexes
    <3>2. None \notin Held(d)
      BY <1>3, <1>6, <1>10 DEF None
    <3> QED
      BY <1>1, <1>7, <3>1, <3>2
  <2> QED
    BY <1>1, <1>10, <2>1, <2>2, <2>3 DEF Trimmed
<1> QED
  BY <1>1, <1>5, <1>8, <1>9, <1>11, <1>12, <1>13, <1>14 DEF Shape, d

\* One record of the log gets another value.
LEMMA ReplaceShape ==
    ASSUME NEW c, Shape(c), NEW n \in Held(c), NEW v, IsRecord(v),
           v.request = c.records[n].request,
           NEW d, OnlyRecords(c, d), d.records = [c.records EXCEPT ![n] = v],
           d.bufferedBytes = c.bufferedBytes - c.records[n].bytes + v.bytes
    PROVE  /\ Shape(d) /\ Held(d) = Held(c) /\ Len(d.records) = Len(c.records)
           /\ \A i \in 1..Len(c.records) : d.records[i] = IF i = n THEN v ELSE c.records[i]
<1>1. /\ Len(c.records) \in Nat /\ DOMAIN c.records = 1..Len(c.records)
      /\ Len(c.entries) \in Nat /\ Len(c.entries) <= Len(c.records) /\ Records(c)
      /\ Held(c) \subseteq 1..Len(c.records) /\ IsFiniteSet(Held(c))
  BY LogBounds DEF Shape
<1>2. n \in 1..Len(c.records)
  BY <1>1
<1>3. /\ IsSeq(d.records) /\ Len(d.records) = Len(c.records)
      /\ \A i \in 1..Len(c.records) : d.records[i] = IF i = n THEN v ELSE c.records[i]
  BY <1>2, SeqExcept DEF Shape, Records
<1>4. Held(d) = Held(c) /\ First(d) = First(c)
  BY <1>3 DEF OnlyRecords, Held, First
<1>5. Records(d)
  BY <1>3 DEF Shape, Records
<1>6. Entries(d)
  BY <1>3, <1>4 DEF Shape, Entries, OnlyRecords
<1>7. Indexes(d)
  <2>1. \A i \in Held(c) : d.records[i].request = c.records[i].request
    BY <1>2, <1>3
  <2> QED
    BY <1>4, <2>1 DEF Shape, Indexes, OnlyRecords
<1>8. Pending(d)
  BY DEF Shape, Pending, OnlyRecords, Queues
<1>9. d.bufferedBytes = Sum(d, Held(d))
  <2> DEFINE f == [i \in DOMAIN c.records |-> c.records[i].bytes]
             g == [i \in DOMAIN d.records |-> d.records[i].bytes]
             S == Held(c)
  <2>1. DOMAIN d.records = 1..Len(c.records)
    BY <1>3, SeqLen
  <2>2. \A i \in S : f[i] \in Nat /\ g[i] \in Nat
    BY <1>1, <1>2, <1>3, <1>5, <2>1 DEF Records, IsRecord
  <2>3. \A i \in S : i # n => g[i] = f[i]
    BY <1>1, <1>2, <1>3, <2>1
  <2>4. f[n] = c.records[n].bytes /\ g[n] = v.bytes
    BY <1>1, <1>2, <1>3, <2>1
  <2>5. IsFiniteSet(S)
    BY <1>1
  <2> HIDE DEF f, g, S
  <2>6. SumFunctionOnSet(g, S) = SumFunctionOnSet(f, S) - f[n] + g[n]
    BY <2>2, <2>3, <2>5, SumChange DEF S
  <2>7. c.bufferedBytes = SumFunctionOnSet(f, S)
    BY DEF Shape, Sum, f, S
  <2>8. Sum(d, Held(d)) = SumFunctionOnSet(g, S)
    BY <1>4 DEF Sum, g, S
  <2> QED
    BY <2>4, <2>6, <2>7, <2>8
<1> QED
  BY <1>3, <1>4, <1>5, <1>6, <1>7, <1>8, <1>9 DEF Shape, OnlyRecords, SameHead

\* boundPublicEntry: an entry is at most as large as one may be.
LEMMA BytesBounded == ASSUME NEW x PROVE Bytes(x) \in Nat /\ Bytes(x) <= MAX_ENTRY_BYTES
BY NetworkAssumption DEF Bytes

\* evictCapture ends within the limits, and never evicts the newest entry.
LEMMA EvictsToFit ==
    ASSUME NEW c, Shape(c), c.entries # <<>>
    PROVE  LET d == EvictCapture(c) IN SameHead(c, d) /\ Shape(d) /\ Limits(d) /\ Trimmed(c, d)
<1> DEFINE fits(k) == /\ Len(c.entries) - k <= MAX_ENTRIES
                      /\ c.bufferedBytes - Sum(c, Oldest(c, k)) <= MAX_BUFFER_BYTES
           enough == {k \in 0..Len(c.entries) : fits(k) \/ k = Len(c.entries)}
           l == Len(c.entries) - 1
           f == First(c)
           N == Len(c.records)
<1>0. /\ {MAX_ENTRIES, MAX_BUFFER_BYTES, MAX_ENTRY_BYTES} \subseteq Nat \ {0}
      /\ MAX_ENTRY_BYTES <= MAX_BUFFER_BYTES
  BY NetworkAssumption
<1>1. /\ N \in Nat /\ Len(c.entries) \in Nat /\ Len(c.entries) <= N
      /\ l \in Nat /\ Records(c) /\ Entries(c)
  <2>1. Len(c.records) \in Nat /\ c.entries \in Seq(Nat) /\ Len(c.entries) <= N
        /\ Records(c) /\ Entries(c)
    BY SeqLen DEF Shape, Records, Entries
  <2> QED
    BY <2>1
<1>2. f \in Nat \ {0} /\ f + l = N /\ Held(c) = f..N
  BY <1>1 DEF First, Held
<1>3. l \in enough
  <2>1. Oldest(c, l) = f..(N - 1)
    <3>1. l \in 0..Len(c.entries)
      BY <1>1
    <3>2. Oldest(c, l) = f..(f + l - 1)
      BY <1>1, <3>1, HeldIs
    <3> QED
      BY <1>2, <3>2
  <2>2. Sum(c, f..N) = Sum(c, f..(N - 1)) + Sum(c, N..N)
    <3>1. N \in f..(N + 1) /\ N \in Int /\ N <= Len(c.records)
      BY <1>1, <1>2
    <3>2. Records(c) /\ f \in Nat \ {0}
      BY <1>1, <1>2
    <3> HIDE DEF N, f, l
    <3> QED
      BY ONLY <3>1, <3>2, SumCut
  <2>3. Sum(c, f..(N - 1)) \in Nat
    <3>1. N - 1 \in Int /\ N - 1 <= Len(c.records)
      BY <1>1
    <3> QED
      BY <1>1, <1>2, <3>1, SumOfLog
  <2>4. Sum(c, N..N) \in Nat /\ Sum(c, N..N) <= MAX_BUFFER_BYTES
    <3> DEFINE g == [i \in DOMAIN c.records |-> c.records[i].bytes]
    <3>1. N \in 1..N /\ DOMAIN c.records = 1..N /\ N..N = {} \cup {N}
      BY <1>1, <1>2, SeqLen DEF Records
    <3>2. g[N] \in Nat /\ g[N] <= MAX_ENTRY_BYTES
      BY <1>1, <3>1 DEF Records, IsRecord
    <3> HIDE DEF g, N
    <3>3. SumFunctionOnSet(g, {} \cup {N}) = SumFunctionOnSet(g, {}) + g[N]
      BY <3>2, SumAdd, FS_EmptySet
    <3>4. SumFunctionOnSet(g, {}) = 0
      BY SumEmpty
    <3> QED
      BY <1>0, <3>1, <3>2, <3>3, <3>4 DEF Sum, g
  <2>5. c.bufferedBytes = Sum(c, f..N)
    BY <1>2 DEF Shape
  <2>6. c.bufferedBytes - Sum(c, Oldest(c, l)) <= MAX_BUFFER_BYTES
    BY <1>0, <2>1, <2>2, <2>3, <2>4, <2>5
  <2>7. l \in 0..Len(c.entries) /\ Len(c.entries) - l <= MAX_ENTRIES
    BY <1>0, <1>1
  <2> QED
    BY <2>6, <2>7
<1> DEFINE k == CHOOSE k \in enough : \A other \in enough : k <= other
<1>4. k \in enough /\ k <= l
  <2>1. enough \in SUBSET Nat /\ enough # {}
    BY <1>1, <1>3
  <2>2. \E i \in enough : \A other \in enough : i <= other
    BY <2>1, LeastNumber
  <2> HIDE DEF enough
  <2>3. k \in enough /\ \A other \in enough : k <= other
    BY <2>2
  <2> QED
    BY <1>3, <2>3
<1>5. EvictCapture(c) = Evict(c, k)
  BY DEF EvictCapture
<1>6. k \in 0..Len(c.entries) /\ k < Len(c.entries) /\ fits(k)
  <2> HIDE DEF k
  <2>1. k \in 0..Len(c.entries) /\ (fits(k) \/ k = Len(c.entries))
    BY <1>4
  <2>2. k < Len(c.entries) /\ k # Len(c.entries)
    BY <1>1, <1>4, <2>1
  <2> QED
    BY <2>1, <2>2
<1> HIDE DEF k
<1>7. /\ Shape(Evict(c, k)) /\ Trimmed(c, Evict(c, k))
      /\ Evict(c, k).bufferedBytes = c.bufferedBytes - Sum(c, Oldest(c, k))
      /\ Len(Evict(c, k).entries) = Len(c.entries) - k
  BY <1>6, EvictShape
<1>8. SameHead(c, Evict(c, k))
  BY EvictHead DEF Shape
<1> QED
  BY <1>5, <1>6, <1>7, <1>8 DEF Limits

\* updateRecord measures an entry, and evicts.
LEMMA UpdateTrims ==
    ASSUME NEW c, Shape(c), NEW n \in Held(c)
    PROVE  LET d == UpdateRecord(c, n) IN SameHead(c, d) /\ Shape(d) /\ Limits(d) /\ Trimmed(c, d)
<1> DEFINE b == Bytes(c.records[n])
           v == [c.records[n] EXCEPT !.bytes = b]
           m == [c EXCEPT !.bufferedBytes = @ - c.records[n].bytes + b, !.records[n].bytes = b]
           r == [c.records EXCEPT ![n] = v]
<1>1. UpdateRecord(c, n) = EvictCapture(m)
  BY DEF UpdateRecord
<1>2. b \in Nat /\ b <= MAX_ENTRY_BYTES
  BY BytesBounded
<1> HIDE DEF b
<1>3. /\ Len(c.records) \in Nat /\ DOMAIN c.records = 1..Len(c.records)
      /\ Held(c) \subseteq 1..Len(c.records) /\ Records(c) /\ IsCapture(c)
      /\ Held(c) # {} => c.entries # <<>>
  BY LogBounds DEF Shape
<1>4. n \in 1..Len(c.records)
  BY <1>3
<1>5. c.entries # <<>>
  BY <1>3
<1>6. IsRecord(c.records[n])
  BY <1>3, <1>4 DEF Records
<1>7. IsRecord(v) /\ v.bytes = b /\ Alike(c.records[n], v)
  BY <1>2, <1>6 DEF IsRecord, RecordFields, Alike
<1>8. /\ OnlyRecords(c, m) /\ m.records = r
      /\ m.bufferedBytes = c.bufferedBytes - c.records[n].bytes + b
  <2> HIDE DEF v
  <2>1. m = [c EXCEPT !.bufferedBytes = @ - c.records[n].bytes + b, !.records = r]
    BY <1>3, <1>4 DEF v
  <2> HIDE DEF m, r
  <2> QED
    BY <1>3, <2>1 DEF OnlyRecords, SameHead, IsCapture, CaptureFields
<1> HIDE DEF m, v
<1>9. /\ Shape(m) /\ Held(m) = Held(c) /\ Len(m.records) = Len(c.records)
      /\ \A i \in 1..Len(c.records) : m.records[i] = IF i = n THEN v ELSE c.records[i]
  BY <1>7, <1>8, ReplaceShape DEF Alike
<1> DEFINE d == EvictCapture(m)
<1>10. SameHead(m, d) /\ Shape(d) /\ Limits(d) /\ Trimmed(m, d)
  BY <1>5, <1>8, <1>9, EvictsToFit DEF OnlyRecords
<1> HIDE DEF d
<1>11. SameHead(c, d)
  BY <1>8, <1>10 DEF OnlyRecords, SameHead
<1>12. Trimmed(c, d)
  <2>1. \A i \in 1..Len(c.records) : Alike(c.records[i], m.records[i])
    BY <1>7, <1>9 DEF Alike
  <2>2. \A i \in 1..Len(c.records) : Alike(c.records[i], d.records[i])
    BY <1>9, <1>10, <2>1 DEF Trimmed, Alike
  <2> QED
    BY <1>8, <1>9, <1>10, <2>2 DEF Trimmed, OnlyRecords
<1> QED
  BY <1>1, <1>10, <1>11, <1>12 DEF d

-----------------------------------------------------------------------------
(* The writes of the event handlers.                                       *)

\* updateRecord alone writes what was there.
LEMMA UpdateWrites ==
    ASSUME NEW c, Shape(c), NEW n \in Held(c)
    PROVE  Writes(c, n, c.records[n], UpdateRecord(c, n))
<1> DEFINE d == UpdateRecord(c, n)
<1>1. SameHead(c, d) /\ Shape(d) /\ Limits(d) /\ Trimmed(c, d)
  BY UpdateTrims
<1>2. c.entries # <<>>
  BY LogBounds DEF Shape
<1> HIDE DEF d
<1>3. Writes(c, n, c.records[n], d)
  BY <1>1, <1>2 DEF Trimmed, Writes
<1> QED
  BY <1>3 DEF d

\* A record that gets a value, and is then measured.
LEMMA MutateWrites ==
    ASSUME NEW c, Shape(c), NEW n \in Held(c), NEW v, IsRecord(v),
           v.request = c.records[n].request, v.bytes = c.records[n].bytes
    PROVE  Writes(c, n, v, UpdateRecord([c EXCEPT !.records[n] = v], n))
<1> DEFINE r == [c.records EXCEPT ![n] = v]
           m == [c EXCEPT !.records[n] = v]
           d == UpdateRecord(m, n)
<1>0. /\ n \in 1..Len(c.records) /\ IsCapture(c) /\ IsRecord(c.records[n])
      /\ Len(c.records) \in Nat
  BY LogBounds DEF Shape, Records
<1>1. m = [c EXCEPT !.records = r]
  BY <1>0
<1>2. OnlyRecords(c, m) /\ m.records = r /\ m.bufferedBytes = c.bufferedBytes
  <2> HIDE DEF m, r
  <2> QED
    BY <1>0, <1>1 DEF OnlyRecords, SameHead, IsCapture, CaptureFields
<1>3. c.bufferedBytes \in Nat /\ c.records[n].bytes \in Nat
  <2>1. Sum(c, Held(c)) \in Nat
    BY LogSum
  <2> QED
    BY <1>0, <2>1 DEF Shape, IsRecord
<1>4. m.bufferedBytes = c.bufferedBytes - c.records[n].bytes + v.bytes
  BY <1>2, <1>3
<1> HIDE DEF m
<1>5. /\ Shape(m) /\ Held(m) = Held(c) /\ Len(m.records) = Len(c.records)
      /\ \A i \in 1..Len(c.records) : m.records[i] = IF i = n THEN v ELSE c.records[i]
  BY <1>2, <1>4, ReplaceShape
<1>6. Writes(m, n, m.records[n], d)
  BY <1>5, UpdateWrites
<1> HIDE DEF d
<1>7. \A i \in 1..Len(c.records) : Alike(IF i = n THEN v ELSE c.records[i], d.records[i])
  <2>1. \A i \in 1..Len(c.records) : Alike(m.records[i], d.records[i])
    BY <1>5, <1>6 DEF Writes
  <2> QED
    BY <1>5, <2>1
<1>8. SameHead(c, d)
  BY <1>2, <1>6 DEF Writes, OnlyRecords, SameHead
<1>9. Writes(c, n, v, d)
  BY <1>2, <1>5, <1>6, <1>7, <1>8 DEF Writes, OnlyRecords
<1> QED
  BY <1>9 DEF d, m

\* applyNormalizedExtra.
LEMMA NormalizedWrites ==
    ASSUME NEW c, Shape(c), NEW n \in Held(c), NEW kind \in Kinds, NEW hop
    PROVE  Writes(c, n, Extended(c.records[n], kind, hop), ApplyNormalizedExtra(c, n, kind, hop))
<1> DEFINE x == c.records[n]
           v == Extended(x, kind, hop)
<1>0. /\ n \in 1..Len(c.records) /\ IsCapture(c) /\ Len(c.records) \in Nat
      /\ DOMAIN c.records = 1..Len(c.records)
  BY LogBounds DEF Shape
<1>1. IsRecord(x)
  BY <1>0 DEF Shape, Records
<1> DEFINE v1 == [x EXCEPT !.applied = @ \cup {kind}]
           v2 == [v1 EXCEPT !.extra = [x.extra EXCEPT ![kind] = hop]]
           v3 == [v2 EXCEPT !.headers = IF kind = "response" THEN "extra" ELSE @]
<1>2. v = v3
  <2> HIDE DEF x
  <2> QED
    BY <1>1 DEF Extended, IsRecord, RecordFields
<1>3. IsRecord(v3) /\ v3.request = x.request /\ v3.bytes = x.bytes
  <2> HIDE DEF x
  <2>1. IsRecord(v1) /\ v1.request = x.request /\ v1.bytes = x.bytes
    BY <1>1 DEF IsRecord, RecordFields
  <2> HIDE DEF v1
  <2>2. IsRecord(v2) /\ v2.request = x.request /\ v2.bytes = x.bytes
    <3>1. [x.extra EXCEPT ![kind] = hop] = [k \in Kinds |-> [x.extra EXCEPT ![kind] = hop][k]]
      BY <1>1 DEF IsRecord
    <3> QED
      BY <2>1, <3>1 DEF IsRecord, RecordFields
  <2> HIDE DEF v2
  <2> QED
    BY <2>2 DEF IsRecord, RecordFields
<1>4. ApplyNormalizedExtra(c, n, kind, hop) = UpdateRecord([c EXCEPT !.records[n] = v], n)
  BY DEF ApplyNormalizedExtra
<1> HIDE DEF v
<1>5. Writes(c, n, v, UpdateRecord([c EXCEPT !.records[n] = v], n))
  BY <1>2, <1>3, MutateWrites
<1> QED
  BY <1>4, <1>5 DEF v

\* The requests of the two kinds are finitely many.
LEMMA QueuesFinite == IsFiniteSet(Kinds \X Requests)
<1>1. IsFiniteSet(Kinds)
  <2>1. IsFiniteSet({"request"})
    BY FS_Singleton
  <2>2. IsFiniteSet({"request"} \cup {"response"})
    BY <2>1, FS_AddElement
  <2>3. Kinds = {"request"} \cup {"response"}
    BY DEF Kinds
  <2> QED
    BY <2>2, <2>3
<1> QED
  BY <1>1, FS_Product, NetworkAssumption

\* A queue of pending extra headers gets another value.
LEMMA RequeueShape ==
    ASSUME NEW c, Shape(c), NEW k \in Kinds, NEW r \in Requests, NEW s \in Seq(Nat), NEW e,
           e = c.pendingExtraEvents - Len(c.pendingExtra[k][r]) + Len(s)
    PROVE  Requeues(c, k, r, s, Requeued(c, k, r, s, e))
<1> DEFINE p == [c.pendingExtra EXCEPT ![k] = [c.pendingExtra[k] EXCEPT ![r] = s]]
           d == Requeued(c, k, r, s, e)
<1>1. IsCapture(c) /\ Pending(c)
  BY DEF Shape
<1>2. d = [c EXCEPT !.pendingExtra = p, !.pendingExtraEvents = e]
  BY <1>1 DEF Pending, Requeued
<1>3. /\ p = [l \in Kinds |-> p[l]]
      /\ \A l \in Kinds : p[l] = [q \in Requests |-> p[l][q]]
      /\ \A l \in Kinds, q \in Requests : p[l][q] = IF l = k /\ q = r THEN s ELSE c.pendingExtra[l][q]
  BY <1>1 DEF Pending
<1> HIDE DEF d, p
<1>4. /\ SameHead(c, d) /\ d.records = c.records /\ d.entries = c.entries
      /\ d.bufferedBytes = c.bufferedBytes /\ d.byEntryId = c.byEntryId
      /\ d.currentByRequest = c.currentByRequest /\ d.recordsByRequest = c.recordsByRequest
      /\ d.pendingExtra = p /\ d.pendingExtraEvents = e /\ d.droppedEvents = c.droppedEvents
  BY <1>1, <1>2 DEF SameHead, IsCapture, CaptureFields
<1>5. Held(d) = Held(c) /\ First(d) = First(c)
  BY <1>4 DEF Held, First
<1>6. Records(d) /\ Entries(d) /\ Indexes(d) /\ d.bufferedBytes = Sum(d, Held(d))
  BY <1>4, <1>5 DEF Shape, Records, Entries, Indexes, Sum
<1>7. Pending(d)
  <2> DEFINE f == Queues(c)
             g == Queues(d)
             S == Kinds \X Requests
             x == <<k, r>>
  <2>1. \A y \in S : f[y] \in Nat /\ g[y] \in Nat
    <3>1. ASSUME NEW y \in S PROVE f[y] \in Nat /\ g[y] \in Nat
      <4>1. y[1] \in Kinds /\ y[2] \in Requests
        OBVIOUS
      <4>2. c.pendingExtra[y[1]][y[2]] \in Seq(Nat) /\ p[y[1]][y[2]] \in Seq(Nat)
        BY <1>1, <1>3, <4>1 DEF Pending
      <4>3. f[y] = Len(c.pendingExtra[y[1]][y[2]]) /\ g[y] = Len(p[y[1]][y[2]])
        BY <1>4 DEF Queues
      <4> QED
        BY <4>2, <4>3, LenProperties
    <3> QED
      BY <3>1
  <2>2. \A y \in S : y # x => g[y] = f[y]
    <3>1. ASSUME NEW y \in S, y # x PROVE g[y] = f[y]
      <4>1. y[1] \in Kinds /\ y[2] \in Requests /\ ~(y[1] = k /\ y[2] = r)
        BY <3>1
      <4>2. p[y[1]][y[2]] = c.pendingExtra[y[1]][y[2]]
        BY <1>3, <4>1
      <4> QED
        BY <1>4, <4>2 DEF Queues
    <3> QED
      BY <3>1
  <2>3. x \in S /\ f[x] = Len(c.pendingExtra[k][r]) /\ g[x] = Len(s) /\ IsFiniteSet(S)
    BY <1>3, <1>4, QueuesFinite DEF Queues
  <2> HIDE DEF f, g, S, x
  <2>4. SumFunctionOnSet(g, S) = SumFunctionOnSet(f, S) - f[x] + g[x]
    <3>1. x \in S
      BY <2>3
    <3>2. IsFiniteSet(S)
      BY <2>3
    <3>3. ASSUME NEW F, NEW G, NEW T, NEW y \in T, IsFiniteSet(T),
                 \A i \in T : F[i] \in Nat /\ G[i] \in Nat, \A i \in T : i # y => G[i] = F[i]
          PROVE  SumFunctionOnSet(G, T) = SumFunctionOnSet(F, T) - F[y] + G[y]
      BY ONLY <3>3, SumChange
    <3> QED
      BY ONLY <2>1, <2>2, <3>1, <3>2, <3>3
  <2>5. d.pendingExtraEvents = SumFunctionOnSet(Queues(d), Kinds \X Requests)
    BY <1>1, <1>4, <2>3, <2>4 DEF f, g, S, Pending
  <2>6. \A l \in Kinds, q \in Requests : p[l][q] \in Seq(Nat)
    BY <1>1, <1>3 DEF Pending
  <2> QED
    BY <1>1, <1>3, <1>4, <2>5, <2>6 DEF Pending
<1>8. Requeues(c, k, r, s, d)
  BY <1>3, <1>4, <1>5, <1>6, <1>7 DEF Requeues, Shape, SameHead
<1> QED
  BY <1>8 DEF d

\* A request's new record, not measured yet, is the newest entry and the request's current one.
LEMMA AddShape ==
    ASSUME NEW c, Shape(c), NEW r \in Requests, NEW x, IsRecord(x), x.request = r, x.bytes = 0,
           NEW n, n = Len(c.records) + 1,
           NEW d, SameHead(c, d), d.records = Append(c.records, x), d.entries = Append(c.entries, n),
           d.byEntryId = c.byEntryId \cup {n},
           d.currentByRequest = [c.currentByRequest EXCEPT ![r] = n],
           d.recordsByRequest = [c.recordsByRequest EXCEPT ![r] = c.recordsByRequest[r] \cup {n}],
           d.pendingExtra = c.pendingExtra, d.pendingExtraEvents = c.pendingExtraEvents,
           d.droppedEvents = c.droppedEvents, d.bufferedBytes = c.bufferedBytes
    PROVE  Adds(c, x, r, n, d)
<1>0. /\ IsCapture(c) /\ Records(c) /\ Entries(c) /\ Indexes(c) /\ Pending(c)
      /\ c.bufferedBytes = Sum(c, Held(c))
  BY DEF Shape
<1>1. /\ Len(c.records) \in Nat /\ DOMAIN c.records = 1..Len(c.records)
      /\ Len(c.entries) \in Nat /\ Len(c.entries) <= Len(c.records)
      /\ First(c) \in Nat \ {0} /\ First(c) = Len(c.records) - Len(c.entries) + 1
      /\ Held(c) = First(c)..Len(c.records)
      /\ Held(c) \subseteq 1..Len(c.records) /\ IsFiniteSet(Held(c))
  BY <1>0, LogBounds
<1> DEFINE cur == [c.currentByRequest EXCEPT ![r] = n]
           recs == [c.recordsByRequest EXCEPT ![r] = c.recordsByRequest[r] \cup {n}]
<1>2. /\ SameHead(c, d) /\ d.records = Append(c.records, x) /\ d.entries = Append(c.entries, n)
      /\ d.byEntryId = c.byEntryId \cup {n} /\ d.currentByRequest = cur /\ d.recordsByRequest = recs
      /\ d.pendingExtra = c.pendingExtra /\ d.pendingExtraEvents = c.pendingExtraEvents
      /\ d.droppedEvents = c.droppedEvents /\ d.bufferedBytes = c.bufferedBytes
  OBVIOUS
<1>3. /\ cur = [q \in Requests |-> cur[q]] /\ recs = [q \in Requests |-> recs[q]]
      /\ \A q \in Requests :
           /\ cur[q] = IF q = r THEN n ELSE c.currentByRequest[q]
           /\ recs[q] = c.recordsByRequest[q] \cup (IF q = r THEN {n} ELSE {})
  BY <1>0 DEF Indexes
<1> HIDE DEF cur, recs
<1>4. /\ IsSeq(d.records) /\ Len(d.records) = n /\ n \in Nat /\ d.records[n] = x
      /\ \A i \in 1..Len(c.records) : d.records[i] = c.records[i]
  BY <1>0, <1>1, <1>2, SeqAppend DEF Records
<1>5. /\ d.entries \in Seq(Nat) /\ Len(d.entries) = Len(c.entries) + 1
      /\ d.entries[Len(c.entries) + 1] = n
      /\ \A i \in 1..Len(c.entries) : d.entries[i] = c.entries[i]
  BY <1>0, <1>2, <1>4, AppendProperties DEF Entries
<1>6. First(d) = First(c)
  BY ONLY <1>1, <1>4, <1>5, n = Len(c.records) + 1 DEF First
<1>7. /\ Held(d) = Held(c) \cup {n} /\ n \notin Held(c)
      /\ \A i \in Held(c) : i \in 1..Len(c.records) /\ i \in 1..n
  <2>1. First(c) \in Nat \ {0} /\ Len(c.records) \in Nat /\ First(c) <= Len(c.records) + 1
    BY <1>0, LogBounds
  <2>2. Held(d) = First(c)..(Len(c.records) + 1) /\ Held(c) = First(c)..Len(c.records)
    BY <1>4, <1>6 DEF Held
  <2> QED
    BY ONLY <2>1, <2>2, n = Len(c.records) + 1, IntervalGrows
<1>8. Records(d)
  <2>1. \A i \in 1..n : i \in 1..Len(c.records) \/ i = n
    BY <1>1
  <2> QED
    BY <1>0, <1>4, <2>1 DEF Records
<1>9. Entries(d)
  <2>1. ASSUME NEW i \in 1..Len(d.entries) PROVE d.entries[i] = First(d) + i - 1
    <3>1. CASE i \in 1..Len(c.entries)
      BY <1>0, <1>5, <1>6, <3>1 DEF Entries
    <3>2. CASE i = Len(c.entries) + 1
      <4>1. n = First(c) + i - 1
        BY <1>1, <3>2
      <4> QED
        BY <1>5, <1>6, <3>2, <4>1
    <3> QED
      BY <1>1, <1>5, <3>1, <3>2
  <2>2. Len(d.entries) <= Len(d.records)
    BY <1>1, <1>4, <1>5
  <2> QED
    BY <1>5, <2>1, <2>2 DEF Entries
<1>11. Indexes(d)
  <2>1. \A i \in Held(c) : d.records[i].request = c.records[i].request
    BY <1>4, <1>7
  <2>2. ASSUME NEW q \in Requests
        PROVE  /\ d.currentByRequest[q] # None =>
                    d.currentByRequest[q] \in Held(d) /\ d.records[d.currentByRequest[q]].request = q
               /\ \A i \in d.recordsByRequest[q] : i \in Held(d) /\ d.records[i].request = q
    <3>1. /\ c.currentByRequest[q] # None =>
               c.currentByRequest[q] \in Held(c) /\ c.records[c.currentByRequest[q]].request = q
          /\ \A i \in c.recordsByRequest[q] : i \in Held(c) /\ c.records[i].request = q
      BY <1>0 DEF Indexes
    <3>2. /\ d.currentByRequest[q] = IF q = r THEN n ELSE c.currentByRequest[q]
          /\ d.recordsByRequest[q] = c.recordsByRequest[q] \cup (IF q = r THEN {n} ELSE {})
      BY <1>2, <1>3
    <3>3. n \in Held(d) /\ d.records[n].request = r /\ Held(c) \subseteq Held(d)
      BY <1>4, <1>7
    <3> QED
      BY ONLY <2>1, <3>1, <3>2, <3>3
  <2>3. d.byEntryId \subseteq Held(d)
    BY <1>0, <1>2, <1>7 DEF Indexes
  <2> QED
    BY <1>2, <1>3, <2>2, <2>3 DEF Indexes
<1>12. Pending(d)
  BY <1>0, <1>2 DEF Pending, Queues
<1>13. d.bufferedBytes = Sum(d, Held(d))
  <2> DEFINE f == [i \in DOMAIN c.records |-> c.records[i].bytes]
             g == [i \in DOMAIN d.records |-> d.records[i].bytes]
             S == Held(c)
  <2>1. DOMAIN d.records = 1..n
    BY <1>4, SeqLen
  <2>2. \A i \in S : i \in 1..Len(c.records) /\ i \in 1..n
    BY <1>7
  <2>3. \A i \in S : f[i] \in Nat /\ g[i] = f[i]
    BY <1>0, <1>1, <1>4, <2>1, <2>2 DEF Records, IsRecord
  <2>4. n \in 1..n /\ g[n] = 0
    BY <1>1, <1>4, <2>1
  <2>10. IsFiniteSet(S) /\ n \notin S
    BY <1>1, <1>7
  <2> HIDE DEF f, g, S
  <2>5. \A i \in S \cup {n} : g[i] \in Nat
    BY <2>3, <2>4
  <2>6. SumFunctionOnSet(g, S \cup {n}) = SumFunctionOnSet(g, S) + g[n]
    BY ONLY <2>5, <2>10, SumAdd
  <2>7. SumFunctionOnSet(f, S) = SumFunctionOnSet(g, S)
    BY ONLY <2>3, <2>10, SumSame
  <2>8. c.bufferedBytes = SumFunctionOnSet(f, S) /\ c.bufferedBytes \in Nat
    BY <1>0, LogSum DEF Sum, f, S
  <2>9. Sum(d, Held(d)) = SumFunctionOnSet(g, S \cup {n})
    BY <1>7 DEF Sum, g, S
  <2> QED
    BY <1>2, <2>4, <2>6, <2>7, <2>8, <2>9
<1> QED
  BY <1>2, <1>3, <1>4, <1>7, <1>8, <1>9, <1>11, <1>12, <1>13 DEF Shape, SameHead, Adds

-----------------------------------------------------------------------------
(* The extra headers of the hops.                                          *)

\* What an entry's indexes say.
LEMMA IndexedIn ==
    ASSUME NEW c, Shape(c), NEW q \in Requests
    PROVE  /\ c.recordsByRequest[q] \subseteq Held(c)
           /\ c.currentByRequest[q] \in Held(c) \cup {None}
           /\ \A n \in Held(c) : n \in 1..Len(c.records) /\ n \in Nat /\ n # None
           /\ \A n \in c.recordsByRequest[q] : c.records[n].request = q
           /\ c.currentByRequest[q] # None => c.records[c.currentByRequest[q]].request = q
<1>1. Held(c) \subseteq 1..Len(c.records) /\ Len(c.records) \in Nat /\ None \notin Held(c)
  BY LogBounds DEF Shape
<1>2. Indexes(c)
  BY DEF Shape
<1>3. \A n \in Held(c) : n \in 1..Len(c.records) /\ n \in Nat /\ n # None
  BY <1>1
<1> QED
  BY <1>2, <1>3 DEF Indexes

\* Writing to a record of the log is such a step.
LEMMA WritesShrinks ==
    ASSUME NEW c, Shape(c), NEW n \in Held(c), NEW v, Named(c.records[n], v),
           NEW d, Writes(c, n, v, d)
    PROVE  Shrinks(c, d)
<1>1. \A i \in 1..Len(c.records) : Named(c.records[i], d.records[i])
  BY DEF Writes, Alike, Named
<1> QED
  BY <1>1 DEF Writes, Shrinks

\* So is queueing a pending event or taking one from its queue.
LEMMA RequeuesShrinks ==
    ASSUME NEW c, Shape(c), NEW k, NEW r, NEW s, NEW d, Requeues(c, k, r, s, d)
    PROVE  Shrinks(c, d)
<1>1. \A q \in Requests :
         /\ d.currentByRequest[q] = IF c.currentByRequest[q] \in Held(d)
                                    THEN c.currentByRequest[q] ELSE None
         /\ d.recordsByRequest[q] = c.recordsByRequest[q] \cap Held(d)
  BY IndexedIn DEF Requeues
<1>2. \A i \in 1..Len(c.records) : Named(c.records[i], d.records[i])
  BY DEF Requeues, Named
<1> QED
  BY <1>1, <1>2 DEF Requeues, Shrinks

\* So is doing nothing.
LEMMA ShrinksNot == ASSUME NEW c, Shape(c) PROVE Shrinks(c, c)
<1>1. \A q \in Requests :
         /\ c.currentByRequest[q] = IF c.currentByRequest[q] \in Held(c)
                                    THEN c.currentByRequest[q] ELSE None
         /\ c.recordsByRequest[q] = c.recordsByRequest[q] \cap Held(c)
  BY IndexedIn
<1> QED
  BY <1>1 DEF Shrinks, Shape, SameHead, Named

\* So are two such steps in a row.
LEMMA ShrinksTwice ==
    ASSUME NEW c, NEW d, NEW e, Shape(c), Shrinks(c, d), Shrinks(d, e) PROVE Shrinks(c, e)
<1>1. SameHead(c, e) /\ Shape(e) /\ Len(e.records) = Len(c.records)
  BY DEF Shrinks, SameHead
<1>2. \A i \in 1..Len(c.records) : Named(c.records[i], e.records[i])
  BY DEF Shrinks, Named
<1>3. ASSUME NEW q \in Requests
      PROVE  /\ e.currentByRequest[q] = IF c.currentByRequest[q] \in Held(e)
                                        THEN c.currentByRequest[q] ELSE None
             /\ e.recordsByRequest[q] = c.recordsByRequest[q] \cap Held(e)
  <2>1. None \notin Held(e)
    BY LogBounds DEF Shrinks, Shape
  <2> QED
    BY <2>1 DEF Shrinks
<1>4. /\ Held(e) \subseteq Held(c) /\ e.droppedEvents = c.droppedEvents
      /\ Len(c.records) \in Held(c) => Len(c.records) \in Held(e)
  BY DEF Shrinks
<1> QED
  BY <1>1, <1>2, <1>3, <1>4 DEF Shrinks

\* A request whose entries stay, and that nothing is given to, is paired as before.
LEMMA ApartPaired ==
    ASSUME NEW c, NEW d, NEW q \in Requests, NEW m, NEW X, Shape(c), Shrinks(c, d), Apart(c, d, q),
           c.recordsByRequest[q] \subseteq Held(d), Paired(c, q, m, X)
    PROVE  Paired(d, q, m, X) /\ d.recordsByRequest[q] = c.recordsByRequest[q]
<1>1. d.recordsByRequest[q] = c.recordsByRequest[q]
  BY DEF Shrinks
<1>2. \A n \in c.recordsByRequest[q] : n \in 1..Len(c.records) /\ c.records[n].request = q
  BY IndexedIn
<1>3. \A n \in c.recordsByRequest[q] :
        /\ d.records[n].hop = c.records[n].hop
        /\ d.records[n].applied = c.records[n].applied /\ d.records[n].extra = c.records[n].extra
  BY <1>2 DEF Shrinks, Named, Apart
<1>4. \A n \in c.recordsByRequest[q] : d.records[n].hop <= m /\ Given(d.records[n], q, X)
  BY <1>3 DEF Paired, Given
<1>5. \A n \in 1..Len(d.records) : d.records[n].request = q => n \in d.recordsByRequest[q]
  BY <1>1 DEF Shrinks, Named, Paired
<1> QED
  BY <1>1, <1>3, <1>4, <1>5 DEF Paired

\* The record of a hop gets its extra headers.
LEMMA GivePairs ==
    ASSUME NEW c, NEW d, NEW r \in Requests, NEW m, NEW X, Shape(c), Paired(c, r, m, X),
           NEW n \in c.recordsByRequest[r], NEW kind \in Kinds, NEW h, h = c.records[n].hop,
           Writes(c, n, Extended(c.records[n], kind, h), d), c.recordsByRequest[r] \subseteq Held(d)
    PROVE  /\ Paired(d, r, m, X \cup {ExtraOf(kind, h)})
           /\ d.recordsByRequest[r] = c.recordsByRequest[r]
<1> DEFINE v == Extended(c.records[n], kind, h)
           R == c.recordsByRequest[r]
           Y == X \cup {ExtraOf(kind, h)}
<1>0. \A i \in R : i \in Held(c) /\ i \in Nat /\ i \in 1..Len(c.records) /\ c.records[i].request = r
  BY IndexedIn
<1>1. IsRecord(c.records[n])
  BY <1>0 DEF Shape, Records
<1>2. /\ v.hop = h /\ v.request = r /\ v.applied = c.records[n].applied \cup {kind}
      /\ \A k \in Kinds : v.extra[k] = IF k = kind THEN h ELSE c.records[n].extra[k]
  BY <1>0, <1>1 DEF Extended, IsRecord, RecordFields
<1> HIDE DEF v
<1>3. Given(v, r, Y)
  <2>1. Given(c.records[n], r, X)
    BY DEF Paired
  <2>2. \A k \in Kinds : k # kind => ExtraOf(k, h) # ExtraOf(kind, h)
    BY DEF ExtraOf
  <2> QED
    BY <1>2, <2>1, <2>2 DEF Given
<1>4. ASSUME NEW i \in R, i # n PROVE Given(c.records[i], r, Y)
  <2>1. c.records[i].hop # h
    <3>1. /\ i < n => c.records[i].hop < c.records[n].hop
          /\ n < i => c.records[n].hop < c.records[i].hop
      BY DEF Paired
    <3>2. c.records[i].hop \in Nat /\ c.records[n].hop \in Nat /\ i \in Nat /\ n \in Nat
      BY <1>0 DEF Shape, Records, IsRecord
    <3> QED
      BY <1>4, <3>1, <3>2
  <2>2. \A k \in Kinds : ExtraOf(k, c.records[i].hop) # ExtraOf(kind, h)
    BY <2>1 DEF ExtraOf
  <2> QED
    BY <2>2 DEF Given, Paired
<1>5. /\ d.recordsByRequest[r] = R /\ Len(d.records) = Len(c.records)
      /\ \A i \in 1..Len(c.records) : Alike(IF i = n THEN v ELSE c.records[i], d.records[i])
  BY DEF Writes, v
<1>6. \A i \in 1..Len(c.records) : d.records[i].request = c.records[i].request
                                  /\ d.records[i].hop = c.records[i].hop
  BY <1>0, <1>2, <1>5 DEF Alike
<1>7. \A i \in R : Given(d.records[i], r, Y)
  <2>1. ASSUME NEW i \in R, NEW x, x = (IF i = n THEN v ELSE c.records[i]) PROVE Given(d.records[i], r, Y)
    <3>1. Given(x, r, Y) /\ Alike(x, d.records[i])
      BY <1>0, <1>3, <1>4, <1>5, <2>1
    <3> HIDE DEF Y
    <3> QED
      BY <3>1 DEF Given, Alike
  <2> QED
    BY <2>1
<1> HIDE DEF Y
<1>8. Paired(d, r, m, Y)
  BY <1>0, <1>5, <1>6, <1>7 DEF Paired
<1> QED
  BY <1>5, <1>8 DEF Y

\* nextExtraRecord of the events in their order is the record of the event's hop.
LEMMA NextIs ==
    ASSUME NEW c, NEW r \in Requests, NEW m, NEW X, Shape(c), Paired(c, r, m, X),
           NEW n \in c.recordsByRequest[r], NEW kind \in Kinds, NEW h, h = c.records[n].hop,
           load.chain[r][h], ExtraOf(kind, h) \notin X,
           \A i \in Nat \ {0} : i < h => ExtraOf(kind, i) \in X
    PROVE  NextExtraRecord(c, r, kind) = {n}
<1> DEFINE missing == {i \in c.recordsByRequest[r] : kind \notin c.records[i].applied}
<1>1. \A i \in c.recordsByRequest[r] : i \in Nat /\ c.records[i].hop \in Nat \ {0}
  BY IndexedIn DEF Shape, Records, IsRecord
<1>2. n \in missing
  BY DEF Paired, Given
<1>3. ASSUME NEW i \in missing PROVE n <= i
  <2>1. ~(c.records[i].hop < h)
    BY <1>1, <1>3 DEF Paired, Given
  <2>2. ~(i < n)
    BY <1>3, <2>1 DEF Paired
  <2> QED
    BY <1>1, <1>3, <2>2
<1>4. \A i \in missing : i \in Nat /\ n \in Nat
  BY <1>1
<1> HIDE DEF missing
<1>5. {i \in missing : \A other \in missing : i <= other} = {n}
  BY <1>2, <1>3, <1>4
<1> QED
  BY <1>5 DEF NextExtraRecord, missing

\* No record misses its extra headers once all hops that were reached have been given theirs.
LEMMA NextIsNone ==
    ASSUME NEW c, NEW r \in Requests, NEW m, NEW X, Shape(c), Paired(c, r, m, X),
           NEW kind \in Kinds, \A i \in Nat \ {0} : i <= m => ExtraOf(kind, i) \in X
    PROVE  NextExtraRecord(c, r, kind) = {}
<1>1. \A i \in c.recordsByRequest[r] : c.records[i].hop \in Nat \ {0}
  BY IndexedIn DEF Shape, Records, IsRecord
<1>2. \A i \in c.recordsByRequest[r] : kind \in c.records[i].applied
  BY <1>1 DEF Paired, Given
<1> QED
  BY <1>2 DEF NextExtraRecord

\* The number of pending events is a number.
LEMMA PendingNat == ASSUME NEW c, Shape(c) PROVE c.pendingExtraEvents \in Nat
<1> DEFINE f == Queues(c)
           S == Kinds \X Requests
<1>1. \A y \in S : f[y] \in Nat
  <2>1. ASSUME NEW y \in S PROVE f[y] \in Nat
    <3>1. c.pendingExtra[y[1]][y[2]] \in Seq(Nat)
      BY DEF Shape, Pending
    <3> QED
      BY <3>1, LenProperties DEF Queues
  <2> QED
    BY <2>1
<1>2. IsFiniteSet(S) /\ c.pendingExtraEvents = SumFunctionOnSet(f, S)
  BY QueuesFinite DEF Shape, Pending
<1> HIDE DEF f, S
<1> QED
  BY <1>1, <1>2, SumType

\* Extra headers change neither the hop of a record nor its state.
LEMMA ExtendedNamed ==
    ASSUME NEW x, IsRecord(x), NEW kind, NEW hop
    PROVE  LET v == Extended(x, kind, hop) IN
           /\ Named(x, v) /\ v.completed = x.completed /\ v.failed = x.failed
           /\ v.redirect = x.redirect
BY DEF Extended, IsRecord, RecordFields, Named

\* A record of the log, extended with extra headers.
LEMMA NormalizedShrinks ==
    ASSUME NEW c, Shape(c), NEW n \in Held(c), NEW kind \in Kinds, NEW hop
    PROVE  LET d == ApplyNormalizedExtra(c, n, kind, hop) IN
           /\ Writes(c, n, Extended(c.records[n], kind, hop), d) /\ Shrinks(c, d) /\ AsLoaded(c, d)
           /\ \A q \in Requests : q # c.records[n].request => Apart(c, d, q)
<1> DEFINE d == ApplyNormalizedExtra(c, n, kind, hop)
           x == c.records[n]
           v == Extended(x, kind, hop)
<1>1. Writes(c, n, v, d)
  BY NormalizedWrites
<1>2. IsRecord(x)
  BY LogBounds DEF Shape, Records
<1>3. Named(x, v) /\ v.completed = x.completed /\ v.failed = x.failed /\ v.redirect = x.redirect
  BY <1>2, ExtendedNamed
<1> HIDE DEF d, v
<1>4. Shrinks(c, d)
  BY <1>1, <1>3, WritesShrinks
<1>5. \A i \in 1..Len(c.records) : Alike(IF i = n THEN v ELSE c.records[i], d.records[i])
  BY <1>1 DEF Writes
<1>6. AsLoaded(c, d)
  BY <1>3, <1>5 DEF Alike, AsLoaded
<1>7. \A q \in Requests : q # x.request => Apart(c, d, q)
  BY <1>1, <1>5 DEF Apart, Alike, Writes
<1> QED
  BY <1>1, <1>4, <1>6, <1>7 DEF d, v

\* drainPendingExtra concerns one request, and one kind of its pending events.
LEMMA DrainShrinks ==
    ASSUME NEW c, Shape(c), NEW r \in Requests, NEW kind \in Kinds
    PROVE  LET d == DrainPendingExtra(c, r, kind) IN
           /\ Shrinks(c, d) /\ AsLoaded(c, d) /\ \A q \in Requests \ {r} : Apart(c, d, q)
<1> DEFINE d == DrainPendingExtra(c, r, kind)
           next == NextExtraRecord(c, r, kind)
           s == c.pendingExtra[kind][r]
           n == CHOOSE n \in next : TRUE
           e == Requeued(c, kind, r, Tail(s), c.pendingExtraEvents - 1)
<1>1. CASE next = {} \/ s = <<>>
  <2>1. d = c
    BY <1>1 DEF DrainPendingExtra
  <2> QED
    BY <2>1, ShrinksNot DEF AsLoaded, Apart
<1>2. CASE ~(next = {} \/ s = <<>>)
  <2>1. d = ApplyNormalizedExtra(e, n, kind, Head(s))
    BY <1>2 DEF DrainPendingExtra, Requeued
  <2>2. n \in c.recordsByRequest[r]
    BY <1>2 DEF NextExtraRecord
  <2>3. n \in Held(c) /\ c.records[n].request = r
    BY <2>2, IndexedIn
  <2>4. s \in Seq(Nat) /\ s # <<>>
    BY <1>2 DEF Shape, Pending
  <2> HIDE DEF s, n, next
  <2>5. Tail(s) \in Seq(Nat) /\ Len(Tail(s)) = Len(s) - 1 /\ Len(s) \in Nat
    BY <2>4
  <2>6. c.pendingExtraEvents - 1 = c.pendingExtraEvents - Len(s) + Len(Tail(s))
    BY <2>5, PendingNat
  <2>7. Requeues(c, kind, r, Tail(s), e)
    BY <2>5, <2>6, RequeueShape DEF s
  <2> HIDE DEF e
  <2>8. Shrinks(c, e) /\ Shape(e) /\ Held(e) = Held(c) /\ e.records = c.records
    <3>1. Shrinks(c, e)
      BY <2>7, RequeuesShrinks
    <3> QED
      BY <2>7, <3>1 DEF Requeues
  <2>9. /\ Shrinks(e, d) /\ AsLoaded(e, d)
        /\ \A q \in Requests : q # e.records[n].request => Apart(e, d, q)
    BY <2>1, <2>3, <2>8, NormalizedShrinks
  <2> HIDE DEF d
  <2>10. Shrinks(c, d) /\ AsLoaded(c, d)
    BY <2>8, <2>9, ShrinksTwice DEF AsLoaded
  <2>11. \A q \in Requests \ {r} : Apart(c, d, q)
    BY <2>3, <2>7, <2>8, <2>9 DEF Apart, Requeues
  <2> QED
    BY <2>10, <2>11 DEF d
<1> QED
  BY <1>1, <1>2

\* It gives the newest record what is pending for its hop.
LEMMA DrainPairs ==
    ASSUME NEW c, Shape(c), NEW r \in Requests, NEW kind \in Kinds, NEW h \in Nat, NEW X, NEW W,
           Paired(c, r, h, X), Awaiting(c, r, h, W), h # 0,
           ExtraOf(kind, h) \notin X,
           ExtraOf(kind, h) \in W => /\ load.chain[r][h]
                                     /\ \A i \in Nat \ {0} : i < h => ExtraOf(kind, i) \in X,
           c.recordsByRequest[r] \subseteq Held(DrainPendingExtra(c, r, kind))
    PROVE  LET d == DrainPendingExtra(c, r, kind)
               E == {ExtraOf(kind, h)}
           IN  /\ Paired(d, r, h, X \cup (W \cap E)) /\ Awaiting(d, r, h, W \ E)
               /\ d.recordsByRequest[r] = c.recordsByRequest[r]
<1> DEFINE d == DrainPendingExtra(c, r, kind)
           next == NextExtraRecord(c, r, kind)
           s == c.pendingExtra[kind][r]
           E == {ExtraOf(kind, h)}
<1>0. \A k \in Kinds : \A i : ExtraOf(k, i) = ExtraOf(kind, h) <=> k = kind /\ i = h
  BY DEF ExtraOf
<1>1. CASE ExtraOf(kind, h) \notin W
  <2>1. s = <<>>
    BY <1>1 DEF Awaiting
  <2>2. d = c
    BY <2>1 DEF DrainPendingExtra
  <2>3. W \cap E = {} /\ W \ E = W
    BY <1>1
  <2>4. X \cup (W \cap E) = X
    BY <2>3
  <2> HIDE DEF d
  <2> QED
    BY <2>2, <2>3, <2>4 DEF d
<1>2. CASE ExtraOf(kind, h) \in W
  <2>1. s = <<h>>
    BY <1>2 DEF Awaiting
  <2>2. PICK n \in c.recordsByRequest[r] : c.records[n].hop = h
    BY DEF Paired
  <2>3. next = {n}
    BY <1>2, <2>2, NextIs
  <2>4. (CHOOSE i \in next : TRUE) = n
    BY <2>3
  <2>5. Head(s) = h /\ Tail(s) = <<>> /\ s # <<>> /\ Len(s) = 1 /\ Len(Tail(s)) = 0
        /\ Tail(s) \in Seq(Nat)
    BY <2>1
  <2> DEFINE e == Requeued(c, kind, r, Tail(s), c.pendingExtraEvents - 1)
  <2>6. d = ApplyNormalizedExtra(e, n, kind, h)
    BY <2>3, <2>4, <2>5 DEF DrainPendingExtra, Requeued
  <2> HIDE DEF next, s
  <2>7. c.pendingExtraEvents - 1 = c.pendingExtraEvents - Len(s) + Len(Tail(s))
    <3>1. Len(s) = 1 /\ Len(Tail(s)) = 0 /\ c.pendingExtraEvents \in Nat
      BY <2>5, PendingNat
    <3> DEFINE p == c.pendingExtraEvents
               a == Len(s)
               b == Len(Tail(s))
    <3>2. p \in Nat /\ a = 1 /\ b = 0
      BY <3>1
    <3> HIDE DEF p, a, b
    <3>3. p - 1 = p - a + b
      BY <3>2
    <3> QED
      BY <3>3 DEF p, a, b
  <2>8. Requeues(c, kind, r, Tail(s), e)
    BY <2>5, <2>7, RequeueShape DEF s
  <2> HIDE DEF e
  <2>9. /\ Shape(e) /\ Held(e) = Held(c) /\ e.records = c.records
        /\ e.recordsByRequest = c.recordsByRequest
    BY <2>8 DEF Requeues
  <2>10. Paired(e, r, h, X)
    BY <2>9 DEF Paired
  <2>11. n \in Held(e)
    BY <2>2, <2>9, IndexedIn
  <2>12. Writes(e, n, Extended(e.records[n], kind, h), d)
    BY <2>6, <2>9, <2>11, NormalizedWrites
  <2> HIDE DEF d
  <2>13. c.recordsByRequest[r] \subseteq Held(d)
    BY DEF d
  <2>14. Paired(d, r, h, X \cup E) /\ d.recordsByRequest[r] = e.recordsByRequest[r]
    <3>1. n \in e.recordsByRequest[r] /\ h = e.records[n].hop /\ e.recordsByRequest[r] \subseteq Held(d)
      BY <2>2, <2>9, <2>13
    <3> QED
      BY <2>9, <2>10, <2>12, <3>1, GivePairs
  <2>15. W \cap E = E
    BY <1>2
  <2>16. Awaiting(d, r, h, W \ E)
    <3>1. ASSUME NEW k \in Kinds
          PROVE  d.pendingExtra[k][r] = IF ExtraOf(k, h) \in W \ E THEN <<h>> ELSE <<>>
      <4>1. d.pendingExtra[k][r] = IF k = kind THEN <<>> ELSE c.pendingExtra[k][r]
        <5>1. d.pendingExtra = e.pendingExtra
          BY <2>12 DEF Writes
        <5>2. e.pendingExtra[k][r] = IF k = kind THEN Tail(s) ELSE c.pendingExtra[k][r]
          BY <2>8 DEF Requeues
        <5> QED
          BY <2>5, <5>1, <5>2
      <4>2. ExtraOf(k, h) \in W \ E <=> ExtraOf(k, h) \in W /\ k # kind
        BY <1>0
      <4>3. c.pendingExtra[k][r] = IF ExtraOf(k, h) \in W THEN <<h>> ELSE <<>>
        BY DEF Awaiting
      <4> QED
        BY <4>1, <4>2, <4>3
    <3> QED
      BY <3>1 DEF Awaiting
  <2> HIDE DEF E
  <2> QED
    BY <2>9, <2>14, <2>15, <2>16 DEF d, E
<1> QED
  BY <1>1, <1>2

-----------------------------------------------------------------------------
(* The event handlers.                                                     *)

\* The records stay of hops that Chrome has sent.
LEMMA MovesFit ==
    ASSUME NEW c, Records(c), NEW r \in Requests, NEW s, NEW t, Moves(r, s, t), Fits(c, s)
    PROVE  Fits(c, t)
<1> SUFFICES ASSUME NEW n \in 1..Len(c.records) PROVE RecordFits(c.records[n], t)
  BY DEF Fits
<1> DEFINE x == c.records[n]
<1>1. x.request \in Requests /\ x.hop \in Nat
  BY DEF Records, IsRecord
<1>2. RecordFits(x, s)
  BY DEF Fits
<1> HIDE DEF x
<1>3. /\ Reached(x.request, s) \in Nat /\ Reached(x.request, t) \in Nat
      /\ Reached(x.request, s) <= Reached(x.request, t)
      /\ s[x.request].main = Hops(x.request) + 2 => t[x.request].main = Hops(x.request) + 2
  BY <1>1 DEF Moves, Reached
<1> QED
  BY <1>1, <1>2, <1>3 DEF RecordFits, x

\* What has the same hop and has loaded as far fits as well.
LEMMA ShrinksFit ==
    ASSUME NEW c, NEW d, NEW s, Shrinks(c, d), AsLoaded(c, d), Fits(c, s)
    PROVE  Fits(d, s)
BY DEF Shrinks, AsLoaded, Fits, RecordFits, Named

\* The current records stay those of the hops that were reached.
LEMMA ShrinksFollow ==
    ASSUME NEW c, NEW d, NEW s, Shape(c), Shrinks(c, d), Follows(c, s)
    PROVE  Follows(d, s)
<1>1. \A q \in Requests :
        c.currentByRequest[q] # None =>
           c.currentByRequest[q] \in 1..Len(c.records) /\ c.currentByRequest[q] \in Held(c)
  BY IndexedIn
<1>2. None \notin Held(d)
  BY LogBounds DEF Shrinks, Shape
<1> QED
  BY <1>1, <1>2 DEF Shrinks, Follows, Named

\* The other requests' entries and events are as they were.
LEMMA ApartFull ==
    ASSUME NEW c, NEW d, NEW q \in Requests, NEW s, NEW t, Shape(c), Shrinks(c, d), Apart(c, d, q),
           c.recordsByRequest[q] \subseteq Held(d), t[q] = s[q], Full(c, q, s)
    PROVE  Full(d, q, t)
<1>1. Reached(q, t) = Reached(q, s) /\ t[q].extra = s[q].extra
  BY DEF Reached
<1>2. Paired(d, q, Reached(q, s), s[q].extra)
  BY ApartPaired DEF Full
<1>3. Awaiting(d, q, Reached(q, s) + 1, s[q].extra)
  BY DEF Full, Apart, Awaiting
<1> QED
  BY <1>1, <1>2, <1>3 DEF Full

\* The record of a response, or of its end, is paired as before.
LEMMA TouchPairs ==
    ASSUME NEW c, NEW d, NEW r \in Requests, NEW m, NEW X, Shape(c), Paired(c, r, m, X),
           NEW n \in Held(c), c.records[n].request = r, NEW v, Touched(c.records[n], v, r),
           Writes(c, n, v, d), c.recordsByRequest[r] \subseteq Held(d)
    PROVE  Paired(d, r, m, X) /\ d.recordsByRequest[r] = c.recordsByRequest[r]
<1>1. d.recordsByRequest[r] = c.recordsByRequest[r]
  BY DEF Writes
<1>2. \A i \in c.recordsByRequest[r] : i \in 1..Len(c.records) /\ c.records[i].request = r
  BY IndexedIn
<1>3. ASSUME NEW i \in c.recordsByRequest[r]
      PROVE  d.records[i].hop = c.records[i].hop /\ Given(d.records[i], r, X)
  <2>1. Given(c.records[i], r, X)
    BY DEF Paired
  <2>2. Alike(IF i = n THEN v ELSE c.records[i], d.records[i])
    BY <1>2 DEF Writes
  <2>3. CASE i # n
    BY <2>1, <2>2, <2>3 DEF Alike, Given
  <2>4. CASE i = n
    <3>1. Given(v, r, X) /\ v.hop = c.records[n].hop
      BY <2>1, <2>4 DEF Given, Touched, Named
    <3> QED
      BY <2>2, <2>4, <3>1 DEF Alike, Given
  <2> QED
    BY <2>3, <2>4
<1>4. \A i \in 1..Len(c.records) : d.records[i].request = c.records[i].request
  BY DEF Writes, Alike, Touched, Named
<1>5. \A i \in 1..Len(d.records) : d.records[i].request = r => i \in d.recordsByRequest[r]
  BY <1>1, <1>4 DEF Writes, Paired
<1> QED
  BY <1>1, <1>3, <1>5 DEF Paired

\* updateCurrent with what an event makes of the current record.
LEMMA UpdateLogs ==
    ASSUME NEW c, NEW r \in Requests, NEW s, NEW t, Ready(c, s), Moves(r, s, t),
           Reached(r, t) = Reached(r, s), t[r].extra = s[r].extra,
           NEW n, n = c.currentByRequest[r], n # None,
           NEW v, Touched(c.records[n], v, r), RecordFits(v, t)
    PROVE  Logs(c, UpdateRecord([c EXCEPT !.records[n] = v], n), r, s, t)
<1> DEFINE d == UpdateRecord([c EXCEPT !.records[n] = v], n)
<1>0. Shape(c) /\ Limits(c) /\ Fits(c, s) /\ Follows(c, s)
  BY DEF Ready
<1>1. n \in Held(c) /\ c.records[n].request = r
  BY <1>0, IndexedIn
<1>2. IsRecord(v) /\ Named(c.records[n], v) /\ v.bytes = c.records[n].bytes
  BY DEF Touched
<1>3. Writes(c, n, v, d)
  BY <1>0, <1>1, <1>2, MutateWrites DEF Named
<1> HIDE DEF d
<1>4. Shrinks(c, d)
  BY <1>0, <1>1, <1>2, <1>3, WritesShrinks
<1>5. Fits(d, t)
  <2>1. Fits(c, t)
    BY <1>0, MovesFit DEF Shape
  <2>2. \A i \in 1..Len(c.records) : RecordFits(IF i = n THEN v ELSE c.records[i], t)
    BY <2>1 DEF Fits
  <2> QED
    BY <1>3, <2>2 DEF Writes, Alike, RecordFits, Fits
<1>6. Follows(d, t)
  <2>1. Follows(d, s)
    BY <1>0, <1>4, ShrinksFollow
  <2>2. \A q \in Requests : Reached(q, t) = Reached(q, s)
    BY DEF Moves, Reached
  <2> QED
    BY <2>1, <2>2 DEF Follows
<1>7. Grows(c, d)
  <2>1. Len(c.records) \in Nat
    BY <1>0, LogBounds DEF Shape
  <2> QED
    BY <1>4, <2>1 DEF Grows, Shrinks
<1>8. ASSUME NEW q \in Requests, Full(c, q, s), c.recordsByRequest[q] \subseteq Held(d)
      PROVE  Full(d, q, t)
  <2>1. CASE q # r
    <3>1. Apart(c, d, q)
      BY <1>1, <1>3, <2>1 DEF Writes, Alike, Apart
    <3> QED
      BY <1>0, <1>4, <1>8, <2>1, <3>1, ApartFull DEF Moves
  <2>2. CASE q = r
    <3>1. Paired(d, r, Reached(r, s), s[r].extra)
      BY <1>0, <1>1, <1>3, <1>8, <2>2, TouchPairs DEF Full
    <3>2. Awaiting(d, r, Reached(r, s) + 1, s[r].extra)
      BY <1>3, <1>8, <2>2 DEF Full, Awaiting, Writes
    <3> QED
      BY <2>2, <3>1, <3>2 DEF Full
  <2> QED
    BY <2>1, <2>2
<1>9. SameHead(c, d) /\ Ready(d, t)
  BY <1>3, <1>5, <1>6 DEF Writes, Ready
<1>10. Logs(c, d, r, s, t)
  BY <1>7, <1>8, <1>9 DEF Logs
<1> QED
  BY <1>10 DEF d

\* An event of a request that is not in the log.
LEMMA IgnoreLogs ==
    ASSUME NEW c, NEW r \in Requests, NEW s, NEW t, Ready(c, s), Moves(r, s, t),
           Reached(r, t) = Reached(r, s), t[r].extra = s[r].extra
    PROVE  Logs(c, c, r, s, t)
<1>1. Shape(c) /\ Limits(c) /\ Fits(c, s) /\ Follows(c, s) /\ SameHead(c, c)
  BY DEF Ready, Shape, SameHead
<1>2. Fits(c, t)
  BY <1>1, MovesFit DEF Shape
<1>3. \A q \in Requests : Reached(q, t) = Reached(q, s) /\ t[q].extra = s[q].extra
  BY DEF Moves, Reached
<1>4. Follows(c, t)
  BY <1>1, <1>3 DEF Follows
<1>5. Grows(c, c)
  BY <1>1, LogBounds DEF Grows, Named, Shape
<1>6. \A q \in Requests : Full(c, q, s) => Full(c, q, t)
  BY <1>3 DEF Full
<1> QED
  BY <1>1, <1>2, <1>4, <1>5, <1>6 DEF Logs, Ready

-----------------------------------------------------------------------------
(* The extra headers that Chrome reports.                                  *)

\* The hops of a request, and what is known of whether each has extra headers.
LEMMA HopsNat ==
    ASSUME load \in Workloads, NEW r \in Requests
    PROVE  Hops(r) \in Nat
BY WorkloadAssumption, LenProperties DEF Hops

\* An ExtraInfo event is one of a hop that has them.
LEMMA ExtraIs ==
    ASSUME load \in Workloads, NEW r \in Requests, NEW e \in ExtraEvents(r)
    PROVE  /\ e = ExtraOf(e.kind, e.hop) /\ e.kind \in Kinds /\ e.hop \in Nat \ {0}
           /\ e.hop <= Hops(r) /\ load.chain[r][e.hop]
<1>1. e \in [kind : Kinds, hop : 1..Hops(r)] /\ load.chain[r][e.hop]
  BY DEF ExtraEvents
<1>2. Hops(r) \in Nat
  BY HopsNat
<1> QED
  BY <1>1, <1>2 DEF ExtraOf

\* Those of a regular request come hop by hop.
LEMMA OrderedExtras ==
    ASSUME load \in Workloads, NEW r \in Requests, Regular(r), NEW e \in ExtraEvents(r), NEW X,
           \A f \in ExtraEvents(r) : Before(f, e) => f \in X
    PROVE  /\ \A i \in Nat \ {0} : i < e.hop => ExtraOf(e.kind, i) \in X
           /\ e.kind = "response" => ExtraOf("request", e.hop) \in X
<1>1. /\ e.kind \in Kinds /\ e.hop \in Nat \ {0} /\ e.hop <= Hops(r) /\ load.chain[r][e.hop]
      /\ Hops(r) \in Nat
  BY ExtraIs, HopsNat
<1>2. ASSUME NEW i \in Nat \ {0}, i <= e.hop, NEW k \in Kinds PROVE ExtraOf(k, i) \in ExtraEvents(r)
  <2>1. i \in 1..Hops(r) /\ i \in 1..e.hop /\ e.hop \in 1..Hops(r)
    BY <1>1, <1>2
  <2>2. load.chain[r][i]
    BY <1>1, <2>1 DEF Regular
  <2> QED
    BY <2>1, <2>2 DEF ExtraOf, ExtraEvents
<1>3. ASSUME NEW i \in Nat \ {0}, i < e.hop PROVE ExtraOf(e.kind, i) \in X
  <2>1. ExtraOf(e.kind, i) \in ExtraEvents(r)
    BY <1>1, <1>2, <1>3
  <2>2. Before(ExtraOf(e.kind, i), e)
    BY <1>3 DEF Before, ExtraOf
  <2> QED
    BY <2>1, <2>2
<1>4. e.kind = "response" => ExtraOf("request", e.hop) \in X
  <2>1. ExtraOf("request", e.hop) \in ExtraEvents(r)
    BY <1>1, <1>2 DEF Kinds
  <2>2. e.kind = "response" => Before(ExtraOf("request", e.hop), e)
    BY DEF Before, ExtraOf
  <2> QED
    BY <2>1, <2>2
<1> QED
  BY <1>3, <1>4

\* Events of later hops do not matter to the records of the first m.
LEMMA PairedMore ==
    ASSUME NEW c, NEW r \in Requests, NEW m, NEW X, NEW Y, Shape(c), Paired(c, r, m, X),
           \A k \in Kinds, h \in Nat : h <= m => (ExtraOf(k, h) \in X <=> ExtraOf(k, h) \in Y)
    PROVE  Paired(c, r, m, Y)
<1>1. ASSUME NEW n \in c.recordsByRequest[r] PROVE Given(c.records[n], r, Y)
  <2>1. c.records[n].hop \in Nat
    BY IndexedIn DEF Shape, Records, IsRecord
  <2>2. c.records[n].hop <= m /\ Given(c.records[n], r, X)
    BY DEF Paired
  <2>3. \A k \in Kinds : ExtraOf(k, c.records[n].hop) \in X <=> ExtraOf(k, c.records[n].hop) \in Y
    BY <2>1, <2>2
  <2> QED
    BY <2>2, <2>3 DEF Given
<1> QED
  BY <1>1 DEF Paired

\* The hop that the events of a request can be of.
LEMMA ExtraBound ==
    ASSUME load \in Workloads, NEW r \in Requests, NEW s, s[r].main \in Nat,
           NEW e \in ExtraEvents(r), e.hop <= s[r].main + 1
    PROVE  e.hop <= Reached(r, s) + 1 /\ Reached(r, s) \in Nat
<1>1. e.hop \in Nat /\ e.hop <= Hops(r) /\ Hops(r) \in Nat
  BY ExtraIs, HopsNat
<1> QED
  BY <1>1 DEF Reached

\* The headers that no entry misses are dropped, or wait for the next hop.
LEMMA QueueLogs ==
    ASSUME load \in Workloads, NEW c, NEW r \in Requests, NEW s, NEW t, Ready(c, s), Moves(r, s, t),
           NEW e \in ExtraEvents(r), e \notin s[r].extra,
           \A f \in ExtraEvents(r) : Before(f, e) => f \in s[r].extra,
           e.hop <= s[r].main + 1, t[r].main = s[r].main, t[r].extra = s[r].extra \cup {e},
           NextExtraRecord(c, r, e.kind) = {}
    PROVE  Logs(c, QueuePendingExtra(c, r, e.kind, e.hop), r, s, t)
<1> DEFINE d == QueuePendingExtra(c, r, e.kind, e.hop)
           X == s[r].extra
           m == Reached(r, s)
<1>0. Shape(c) /\ Limits(c) /\ Fits(c, s) /\ Follows(c, s)
  BY DEF Ready
<1>1. /\ e = ExtraOf(e.kind, e.hop) /\ e.kind \in Kinds /\ e.hop \in Nat \ {0}
      /\ e.hop <= Hops(r) /\ load.chain[r][e.hop]
  BY ExtraIs
<1>2. e.hop <= m + 1 /\ m \in Nat
  BY ExtraBound DEF Moves
<1>3. \A q \in Requests : Reached(q, t) = Reached(q, s)
  BY DEF Moves, Reached
<1>4. Fits(c, t)
  BY <1>0, MovesFit DEF Shape
<1>5. CASE c.pendingExtraEvents >= MAX_PENDING_EXTRA_EVENTS
  <2>1. d = [c EXCEPT !.droppedEvents = @ + 1]
    BY <1>5 DEF QueuePendingExtra
  <2>2. IsCapture(c) /\ c.droppedEvents \in Nat
    BY <1>0 DEF Shape, Pending
  <2> HIDE DEF d
  <2>3. /\ SameHead(c, d) /\ d.records = c.records /\ d.entries = c.entries
        /\ d.bufferedBytes = c.bufferedBytes /\ d.byEntryId = c.byEntryId
        /\ d.currentByRequest = c.currentByRequest /\ d.recordsByRequest = c.recordsByRequest
        /\ d.pendingExtra = c.pendingExtra /\ d.pendingExtraEvents = c.pendingExtraEvents
        /\ d.droppedEvents = c.droppedEvents + 1
    BY <2>1, <2>2 DEF SameHead, IsCapture, CaptureFields
  <2>4. Held(d) = Held(c) /\ First(d) = First(c)
    BY <2>3 DEF Held, First
  <2>5. Shape(d) /\ Limits(d)
    <3>1. Pending(d) /\ d.bufferedBytes = Sum(d, Held(d)) /\ Limits(d)
      BY <1>0, <2>2, <2>3, <2>4 DEF Shape, Pending, Queues, Limits, Sum
    <3>2. Records(d) /\ Entries(d) /\ Indexes(d) /\ IsCapture(d)
      BY <1>0, <2>3, <2>4 DEF Shape, Records, Entries, Indexes, SameHead
    <3> QED
      BY <3>1, <3>2 DEF Shape
  <2>6. Fits(d, t) /\ Follows(d, t)
    BY <1>0, <1>3, <1>4, <2>3 DEF Fits, Follows
  <2>7. Grows(c, d)
    BY <1>0, <2>3, LogBounds DEF Grows, Named, Shape
  <2>8. ASSUME NEW q \in Requests, Full(c, q, s), q = r => d.droppedEvents = c.droppedEvents
        PROVE  Full(d, q, t)
    <3>1. q # r
      BY <2>2, <2>3, <2>8
    <3>2. t[q] = s[q]
      BY <3>1 DEF Moves
    <3> QED
      BY <1>3, <2>3, <2>8, <3>2 DEF Full, Paired, Awaiting
  <2>9. Logs(c, d, r, s, t)
    BY <2>3, <2>5, <2>6, <2>7, <2>8 DEF Logs, Ready
  <2> QED
    BY <2>9 DEF d
<1>6. CASE ~(c.pendingExtraEvents >= MAX_PENDING_EXTRA_EVENTS)
  <2> DEFINE old == c.pendingExtra[e.kind][r]
             new == Append(old, e.hop)
  <2>1. d = [c EXCEPT !.pendingExtra[e.kind][r] = new, !.pendingExtraEvents = c.pendingExtraEvents + 1]
    BY <1>6 DEF QueuePendingExtra
  <2>2. old \in Seq(Nat) /\ c.pendingExtraEvents \in Nat
    BY <1>0, <1>1, PendingNat DEF Shape, Pending
  <2>3. new \in Seq(Nat) /\ Len(new) = Len(old) + 1 /\ Len(old) \in Nat
    BY <1>1, <2>2, AppendProperties
  <2> HIDE DEF new, d
  <2>4. c.pendingExtraEvents + 1 = c.pendingExtraEvents - Len(old) + Len(new)
    BY <2>2, <2>3
  <2>5. Requeues(c, e.kind, r, new, d)
    <3>1. d = Requeued(c, e.kind, r, new, c.pendingExtraEvents + 1)
      BY <2>1 DEF Requeued
    <3> QED
      BY <1>0, <1>1, <2>3, <2>4, <3>1, RequeueShape
  <2>6. Shrinks(c, d)
    BY <1>0, <2>5, RequeuesShrinks
  <2>7. Limits(d) /\ Shape(d) /\ SameHead(c, d) /\ d.records = c.records
    BY <1>0, <2>5 DEF Requeues, Limits
  <2>8. Fits(d, t) /\ Follows(d, t)
    BY <1>0, <1>3, <1>4, <2>5 DEF Requeues, Fits, Follows
  <2>9. Grows(c, d)
    BY <1>0, <2>7, LogBounds DEF Grows, Named, Shape
  <2>10. ASSUME NEW q \in Requests, Regular(q), Full(c, q, s), c.recordsByRequest[q] \subseteq Held(d)
         PROVE  Full(d, q, t)
    <3>1. CASE q # r
      <4>1. Apart(c, d, q) /\ t[q] = s[q]
        BY <2>5, <3>1 DEF Requeues, Apart, Moves
      <4> QED
        BY <1>0, <2>6, <2>10, <4>1, ApartFull
    <3>2. CASE q = r
      <4>0. Paired(c, r, m, X) /\ Awaiting(c, r, m + 1, X)
        BY <2>10, <3>2 DEF Full
      <4>1. \A i \in Nat \ {0} : i < e.hop => ExtraOf(e.kind, i) \in X
        BY <2>10, <3>2, OrderedExtras
      <4>2. e.hop = m + 1
        <5> SUFFICES ASSUME e.hop <= m PROVE FALSE
          BY <1>1, <1>2
        <5>1. PICK n \in c.recordsByRequest[r] : c.records[n].hop = e.hop
          BY <1>1, <1>2, <4>0 DEF Paired
        <5>2. NextExtraRecord(c, r, e.kind) = {n}
          BY <1>0, <1>1, <4>0, <4>1, <5>1, NextIs
        <5> QED
          BY <5>2
      <4>3. old = <<>>
        BY <1>1, <4>0, <4>2 DEF Awaiting
      <4>4. new = <<m + 1>>
        BY <4>2, <4>3 DEF new
      <4>5. Awaiting(d, r, m + 1, X \cup {e})
        <5>1. ASSUME NEW k \in Kinds
              PROVE  d.pendingExtra[k][r] = IF ExtraOf(k, m + 1) \in X \cup {e} THEN <<m + 1>> ELSE <<>>
          <6>1. d.pendingExtra[k][r] = IF k = e.kind THEN new ELSE c.pendingExtra[k][r]
            BY <2>5 DEF Requeues
          <6>2. c.pendingExtra[k][r] = IF ExtraOf(k, m + 1) \in X THEN <<m + 1>> ELSE <<>>
            BY <4>0 DEF Awaiting
          <6>3. ExtraOf(k, m + 1) = e <=> k = e.kind
            BY <1>1, <4>2 DEF ExtraOf
          <6> QED
            BY <4>4, <6>1, <6>2, <6>3
        <5> QED
          BY <5>1 DEF Awaiting
      <4>6. Paired(d, r, m, X)
        BY <2>5, <4>0 DEF Paired, Requeues
      <4>7. Paired(d, r, m, X \cup {e})
        <5>1. \A k \in Kinds, h \in Nat : h <= m => ExtraOf(k, h) # e
          BY <1>2, <4>2 DEF ExtraOf
        <5> HIDE DEF X, m
        <5> QED
          BY <2>7, <4>6, <5>1, PairedMore
      <4> QED
        BY <1>3, <3>2, <4>5, <4>7 DEF Full
    <3> QED
      BY <3>1, <3>2
  <2>11. Logs(c, d, r, s, t)
    BY <2>7, <2>8, <2>9, <2>10 DEF Logs, Ready
  <2> QED
    BY <2>11 DEF d
<1> QED
  BY <1>5, <1>6

\* The headers that an entry misses.
LEMMA GiveLogs ==
    ASSUME load \in Workloads, NEW c, NEW r \in Requests, NEW s, NEW t, Ready(c, s), Moves(r, s, t),
           NEW e \in ExtraEvents(r), e \notin s[r].extra,
           \A f \in ExtraEvents(r) : Before(f, e) => f \in s[r].extra,
           e.hop <= s[r].main + 1, t[r].main = s[r].main, t[r].extra = s[r].extra \cup {e},
           NEW n \in NextExtraRecord(c, r, e.kind)
    PROVE  Logs(c, ApplyNormalizedExtra(c, n, e.kind, e.hop), r, s, t)
<1> DEFINE d == ApplyNormalizedExtra(c, n, e.kind, e.hop)
           X == s[r].extra
           m == Reached(r, s)
<1>0. Shape(c) /\ Limits(c) /\ Fits(c, s) /\ Follows(c, s)
  BY DEF Ready
<1>1. /\ e = ExtraOf(e.kind, e.hop) /\ e.kind \in Kinds /\ e.hop \in Nat \ {0}
      /\ e.hop <= Hops(r) /\ load.chain[r][e.hop]
  BY ExtraIs
<1>2. e.hop <= m + 1 /\ m \in Nat
  BY ExtraBound DEF Moves
<1>3. \A q \in Requests : Reached(q, t) = Reached(q, s)
  BY DEF Moves, Reached
<1>4. n \in c.recordsByRequest[r] /\ n \in Held(c) /\ c.records[n].request = r
  BY <1>0, IndexedIn DEF NextExtraRecord
<1>5. /\ Writes(c, n, Extended(c.records[n], e.kind, e.hop), d) /\ Shrinks(c, d) /\ AsLoaded(c, d)
      /\ \A q \in Requests : q # c.records[n].request => Apart(c, d, q)
  BY <1>0, <1>1, <1>4, NormalizedShrinks
<1> HIDE DEF d
<1>6. Fits(d, t)
  <2>1. Fits(c, t)
    BY <1>0, MovesFit DEF Shape
  <2> QED
    BY <1>5, <2>1, ShrinksFit
<1>7. Follows(d, t)
  <2>1. Follows(d, s)
    BY <1>0, <1>5, ShrinksFollow
  <2> QED
    BY <1>3, <2>1 DEF Follows
<1>8. SameHead(c, d) /\ Ready(d, t)
  BY <1>5, <1>6, <1>7 DEF Writes, Ready
<1>9. Grows(c, d)
  <2>1. Len(c.records) \in Nat
    BY <1>0, LogBounds DEF Shape
  <2> QED
    BY <1>5, <2>1 DEF Grows, Shrinks
<1>10. ASSUME NEW q \in Requests, Regular(q), Full(c, q, s), c.recordsByRequest[q] \subseteq Held(d)
       PROVE  Full(d, q, t)
  <2>1. CASE q # r
    <3>1. Apart(c, d, q) /\ t[q] = s[q]
      BY <1>4, <1>5, <2>1 DEF Moves
    <3> QED
      BY <1>0, <1>5, <1>10, <3>1, ApartFull
  <2>2. CASE q = r
    <3>0. Paired(c, r, m, X) /\ Awaiting(c, r, m + 1, X) /\ c.recordsByRequest[r] \subseteq Held(d)
      BY <1>10, <2>2 DEF Full
    <3>1. \A i \in Nat \ {0} : i < e.hop => ExtraOf(e.kind, i) \in X
      BY <1>10, <2>2, OrderedExtras
    <3>2. e.hop <= m
      <4> SUFFICES ASSUME e.hop = m + 1 PROVE FALSE
        BY <1>1, <1>2
      <4>1. \A i \in Nat \ {0} : i <= m => ExtraOf(e.kind, i) \in X
        BY <1>2, <3>1
      <4>2. NextExtraRecord(c, r, e.kind) = {}
        BY <1>0, <1>1, <3>0, <4>1, NextIsNone
      <4> QED
        BY <4>2
    <3>3. PICK i \in c.recordsByRequest[r] : c.records[i].hop = e.hop
      BY <1>1, <1>2, <3>0, <3>2 DEF Paired
    <3>4. NextExtraRecord(c, r, e.kind) = {i}
      BY <1>0, <1>1, <3>0, <3>1, <3>3, NextIs
    <3>5. e.hop = c.records[n].hop
      BY <3>3, <3>4
    <3>6. Paired(d, r, m, X \cup {ExtraOf(e.kind, e.hop)})
      <4> HIDE DEF X, m
      <4>1. ASSUME NEW k \in Kinds, NEW h, h = c.records[n].hop,
                   Writes(c, n, Extended(c.records[n], k, h), d)
            PROVE  Paired(d, r, m, X \cup {ExtraOf(k, h)})
        BY <1>0, <1>4, <3>0, <4>1, GivePairs
      <4> QED
        BY <1>1, <1>5, <3>5, <4>1
    <3>7. Awaiting(d, r, m + 1, X \cup {e})
      <4>1. \A k \in Kinds : ExtraOf(k, m + 1) # e
        BY <1>1, <1>2, <3>2 DEF ExtraOf
      <4>2. d.pendingExtra = c.pendingExtra
        BY <1>5 DEF Writes
      <4> QED
        BY <3>0, <4>1, <4>2 DEF Awaiting
    <3> QED
      BY <1>1, <1>3, <2>2, <3>6, <3>7 DEF Full
  <2> QED
    BY <2>1, <2>2
<1>11. Logs(c, d, r, s, t)
  BY <1>8, <1>9, <1>10 DEF Logs
<1> QED
  BY <1>11 DEF d

\* applyExtraInfo, of the next event in Chrome's order.
LEMMA ExtraLogs ==
    ASSUME load \in Workloads, NEW c, NEW r \in Requests, NEW s, NEW t, Ready(c, s), Moves(r, s, t),
           NEW e \in ExtraEvents(r), e \notin s[r].extra,
           \A f \in ExtraEvents(r) : Before(f, e) => f \in s[r].extra,
           e.hop <= s[r].main + 1, t[r].main = s[r].main, t[r].extra = s[r].extra \cup {e}
    PROVE  Logs(c, ApplyExtraInfo(c, r, e.kind, e.hop), r, s, t)
<1> DEFINE next == NextExtraRecord(c, r, e.kind)
           n == CHOOSE n \in next : TRUE
<1>1. CASE next = {}
  <2>1. Logs(c, QueuePendingExtra(c, r, e.kind, e.hop), r, s, t)
    BY <1>1, QueueLogs
  <2> QED
    BY <1>1, <2>1 DEF ApplyExtraInfo
<1>2. CASE next # {}
  <2>1. n \in next
    BY <1>2
  <2>2. Logs(c, ApplyNormalizedExtra(c, n, e.kind, e.hop), r, s, t)
    BY <2>1, GiveLogs
  <2> QED
    BY <1>2, <2>2 DEF ApplyExtraInfo
<1> QED
  BY <1>1, <1>2

-----------------------------------------------------------------------------
(* The records of the hops.                                                *)

\* The parts of a record that its response and its end give it.
LEMMA ResponseTouches ==
    ASSUME NEW x, IsRecord(x), NEW r \in Requests, NEW b, b = load.chain[r][x.hop]
    PROVE  LET v == ApplyResponse(x, b) IN
           /\ Touched(x, v, r)
           /\ v.completed = x.completed /\ v.failed = x.failed /\ v.redirect = x.redirect
<1> DEFINE a == IF b THEN x.applied ELSE x.applied \cup {"response"}
           v == [x EXCEPT !.headers = "response", !.applied = a]
<1>1. v = ApplyResponse(x, b)
  BY DEF ApplyResponse
<1>2. a = x.applied \/ (a = x.applied \cup {"response"} /\ ~load.chain[r][x.hop])
  OBVIOUS
<1> HIDE DEF a
<1>3. /\ IsRecord(v) /\ Named(x, v) /\ v.bytes = x.bytes /\ v.extra = x.extra /\ v.applied = a
      /\ v.completed = x.completed /\ v.failed = x.failed /\ v.redirect = x.redirect
  BY DEF IsRecord, RecordFields, Named
<1> HIDE DEF v
<1> QED
  BY <1>1, <1>2, <1>3 DEF Touched

\* The end of a record, with a redirect or without.
LEMMA FinishTouches ==
    ASSUME NEW x, IsRecord(x), NEW r \in Requests, NEW b
    PROVE  LET v == FinishRecord(x, b) IN
           Touched(x, v, r) /\ v.applied = x.applied /\ v.failed = x.failed /\ v.redirect = b
BY DEF IsRecord, RecordFields, Named, Touched, FinishRecord

\* The failure of a record.
LEMMA FailTouches ==
    ASSUME NEW x, IsRecord(x), NEW r \in Requests
    PROVE  LET v == FailRecord(x) IN Touched(x, v, r) /\ v.failed = TRUE
BY DEF IsRecord, RecordFields, Named, Touched, FailRecord

\* The record of a hop that was redirected.
LEMMA RedirectTouches ==
    ASSUME NEW x, IsRecord(x), NEW r \in Requests, NEW hop, hop - 1 = x.hop, NEW n
    PROVE  LET v == Redirected(x, r, hop, n) IN Touched(x, v, r) /\ v.redirect = TRUE
<1> DEFINE y == ApplyResponse(x, load.chain[r][hop - 1])
           z == FinishRecord(y, TRUE)
           v == [z EXCEPT !.redirectTo = n]
<1>1. Touched(x, y, r)
  BY ResponseTouches
<1> HIDE DEF y
<1>2. IsRecord(y)
  BY <1>1 DEF Touched
<1>3. Touched(y, z, r) /\ z.applied = y.applied /\ z.redirect = TRUE
  BY <1>2, FinishTouches
<1> HIDE DEF z
<1>4. IsRecord(z)
  BY <1>3 DEF Touched
<1>5. /\ IsRecord(v) /\ Named(z, v) /\ v.bytes = z.bytes /\ v.extra = z.extra
      /\ v.applied = z.applied /\ v.redirect = TRUE
  BY <1>3, <1>4 DEF IsRecord, RecordFields, Named
<1>6. v = Redirected(x, r, hop, n)
  BY DEF Redirected, v, z, y
<1> HIDE DEF v
<1>7. Touched(x, v, r)
  BY <1>1, <1>3, <1>5 DEF Touched, Named
<1> QED
  BY <1>5, <1>6, <1>7

\* The new record of a hop.
LEMMA NewRecordIs ==
    ASSUME NEW r \in Requests, NEW hop \in Nat \ {0}
    PROVE  IsNew(NewRecord(r, hop), r, hop)
<1> DEFINE x == NewRecord(r, hop)
<1>1. /\ x = [f \in RecordFields |-> x[f]] /\ x.request = r /\ x.hop = hop /\ x.bytes = 0
      /\ x.completed = FALSE /\ x.applied = {} /\ x.extra = [k \in Kinds |-> None]
  BY DEF NewRecord, RecordFields
<1> HIDE DEF x
<1>2. IsRecord(x)
  <2>1. 0 \in Nat /\ 0 <= MAX_ENTRY_BYTES
    BY NetworkAssumption
  <2>2. x.extra = [k \in Kinds |-> x.extra[k]]
    BY <1>1
  <2> QED
    BY <1>1, <2>1, <2>2 DEF IsRecord
<1>3. \A k \in Kinds : x.extra[k] = None
  BY <1>1
<1> QED
  BY <1>1, <1>2, <1>3 DEF x, IsNew

\* The redirection completes the record of the hop before.
LEMMA LinkLogs ==
    ASSUME NEW c, NEW r \in Requests, NEW s, NEW t, Ready(c, s), Moves(r, s, t),
           NEW hop, hop = Reached(r, s) + 1
    PROVE  LET d == Linked(c, r, hop) IN
           /\ Shrinks(c, d) /\ Limits(d) /\ Fits(d, t) /\ Follows(d, s)
           /\ d.pendingExtra = c.pendingExtra
           /\ \A q \in Requests : q # r => Apart(c, d, q)
           /\ \A m, X : Paired(c, r, m, X) /\ c.recordsByRequest[r] \subseteq Held(d)
                          => Paired(d, r, m, X) /\ d.recordsByRequest[r] = c.recordsByRequest[r]
<1> DEFINE d == Linked(c, r, hop)
           p == c.currentByRequest[r]
           v == Redirected(c.records[p], r, hop, Len(c.records) + 1)
<1>0. Shape(c) /\ Limits(c) /\ Fits(c, s) /\ Follows(c, s) /\ Fits(c, t)
  BY MovesFit DEF Ready, Shape
<1>1. CASE ~(p # None /\ hop > 1)
  <2>1. d = c
    BY <1>1 DEF Linked
  <2>2. Shrinks(c, c) /\ \A q \in Requests : Apart(c, c, q)
    BY <1>0, ShrinksNot DEF Apart
  <2> QED
    BY <1>0, <2>1, <2>2
<1>2. CASE p # None /\ hop > 1
  <2>1. d = UpdateRecord([c EXCEPT !.records[p] = v], p)
    BY <1>2 DEF Linked
  <2>2. p \in Held(c) /\ c.records[p].request = r /\ p \in 1..Len(c.records)
    BY <1>0, <1>2, IndexedIn
  <2>3. IsRecord(c.records[p]) /\ hop - 1 = c.records[p].hop
    <3>1. Reached(r, s) \in Nat
      BY DEF Moves, Reached
    <3>2. c.records[p].hop = Reached(r, s)
      BY <1>0, <1>2 DEF Follows
    <3>3. hop - 1 = Reached(r, s)
      BY <3>1
    <3>4. IsRecord(c.records[p])
      BY <1>0, <2>2 DEF Shape, Records
    <3> QED
      BY <3>2, <3>3, <3>4
  <2>4. Touched(c.records[p], v, r) /\ v.redirect = TRUE
    BY <2>3, RedirectTouches
  <2> HIDE DEF v
  <2>5. IsRecord(v) /\ Named(c.records[p], v) /\ v.bytes = c.records[p].bytes
    BY <2>4 DEF Touched
  <2>6. Writes(c, p, v, UpdateRecord([c EXCEPT !.records[p] = v], p))
    BY <1>0, <2>2, <2>5, MutateWrites DEF Named
  <2> HIDE DEF d
  <2>7. Writes(c, p, v, d)
    BY <2>1, <2>6
  <2>8. Shrinks(c, d)
    BY <1>0, <2>2, <2>5, <2>7, WritesShrinks
  <2>9. Limits(d) /\ d.pendingExtra = c.pendingExtra
    BY <2>7 DEF Writes
  <2>10. Fits(d, t)
    <3>1. RecordFits(v, t)
      BY <1>0, <2>2, <2>4, <2>5 DEF Fits, RecordFits, Named
    <3>2. \A i \in 1..Len(c.records) : RecordFits(IF i = p THEN v ELSE c.records[i], t)
      BY <1>0, <3>1 DEF Fits
    <3> QED
      BY <2>7, <3>2 DEF Writes, Alike, RecordFits, Fits
  <2>11. Follows(d, s)
    BY <1>0, <2>8, ShrinksFollow
  <2>12. \A q \in Requests : q # r => Apart(c, d, q)
    BY <2>2, <2>7 DEF Writes, Alike, Apart
  <2>13. ASSUME NEW m, NEW X, Paired(c, r, m, X), c.recordsByRequest[r] \subseteq Held(d)
         PROVE  Paired(d, r, m, X) /\ d.recordsByRequest[r] = c.recordsByRequest[r]
    <3> HIDE DEF p
    <3> QED
      BY <1>0, <2>2, <2>4, <2>7, <2>13, TouchPairs
  <2> QED
    BY <2>8, <2>9, <2>10, <2>11, <2>12, <2>13 DEF d
<1> QED
  BY <1>1, <1>2

\* The record of the new hop is the newest entry.
LEMMA AddLogs ==
    ASSUME NEW c, NEW r \in Requests, NEW s, NEW t, Shape(c), Moves(r, s, t), Fits(c, t), Follows(c, s),
           NEW m \in Nat, m = Reached(r, s), Reached(r, t) = m + 1,
           NEW n, n = Len(c.records) + 1
    PROVE  AddsHop(c, r, m, n, s, t, Added(c, r, m + 1, n))
<1> DEFINE d == Added(c, r, m + 1, n)
           x == NewRecord(r, m + 1)
<1>1. /\ IsRecord(x) /\ x.request = r /\ x.hop = m + 1 /\ x.bytes = 0 /\ x.completed = FALSE
      /\ x.applied = {} /\ \A k \in Kinds : x.extra[k] = None
  <2>1. IsNew(x, r, m + 1)
    BY NewRecordIs
  <2> HIDE DEF x
  <2> QED
    BY <2>1 DEF IsNew
<1>2. IsCapture(c) /\ Indexes(c)
  BY DEF Shape
<1>3. /\ SameHead(c, d) /\ d.records = Append(c.records, x) /\ d.entries = Append(c.entries, n)
      /\ d.byEntryId = c.byEntryId \cup {n}
      /\ d.currentByRequest = [c.currentByRequest EXCEPT ![r] = n]
      /\ d.recordsByRequest = [c.recordsByRequest EXCEPT ![r] = c.recordsByRequest[r] \cup {n}]
      /\ d.pendingExtra = c.pendingExtra /\ d.pendingExtraEvents = c.pendingExtraEvents
      /\ d.droppedEvents = c.droppedEvents /\ d.bufferedBytes = c.bufferedBytes
  <2> HIDE DEF x
  <2> QED
    BY <1>2 DEF Added, SameHead, IsCapture, CaptureFields, x
<1> HIDE DEF d, x
<1>4. /\ SameHead(c, d) /\ Shape(d) /\ Len(d.records) = n /\ n \in Nat
      /\ Held(d) = Held(c) \cup {n} /\ d.records[n] = x
      /\ \A i \in 1..Len(c.records) : d.records[i] = c.records[i]
      /\ \A q \in Requests :
           /\ d.currentByRequest[q] = IF q = r THEN n ELSE c.currentByRequest[q]
           /\ d.recordsByRequest[q] = c.recordsByRequest[q] \cup (IF q = r THEN {n} ELSE {})
      /\ d.pendingExtra = c.pendingExtra /\ d.droppedEvents = c.droppedEvents
  <2>1. Adds(c, x, r, n, d)
    BY <1>1, <1>3, AddShape
  <2> QED
    BY <2>1 DEF Adds
<1>5. Len(c.records) \in Nat
  BY LogBounds DEF Shape
<1>6. \A i \in 1..n : i \in 1..Len(c.records) \/ i = n
  BY <1>5
<1>7. Fits(d, t)
  <2>1. RecordFits(x, t)
    BY <1>1 DEF RecordFits
  <2>2. \A i \in 1..n : RecordFits(d.records[i], t)
    BY <1>4, <1>6, <2>1 DEF Fits
  <2> QED
    BY <1>4, <2>2 DEF Fits
<1>8. \A q \in Requests : q # r => t[q] = s[q] /\ Reached(q, t) = Reached(q, s)
  BY DEF Moves, Reached
<1>9. Follows(d, t)
  <2>1. ASSUME NEW q \in Requests, d.currentByRequest[q] # None
        PROVE  d.records[d.currentByRequest[q]].hop = Reached(q, t)
    <3>1. CASE q = r
      BY <1>1, <1>4, <3>1
    <3>2. CASE q # r
      <4>1. d.currentByRequest[q] = c.currentByRequest[q]
        BY <1>4, <3>2
      <4>2. c.currentByRequest[q] \in 1..Len(c.records)
        BY <2>1, <4>1, IndexedIn
      <4> QED
        BY <1>4, <1>8, <2>1, <3>2, <4>1, <4>2 DEF Follows
    <3> QED
      BY <3>1, <3>2
  <2> QED
    BY <2>1 DEF Follows
<1>10. ASSUME NEW q \in Requests, q # r, Full(c, q, s) PROVE Full(d, q, t)
  <2>1. \A i \in c.recordsByRequest[q] : i \in 1..Len(c.records)
    BY IndexedIn
  <2>2. d.recordsByRequest[q] = c.recordsByRequest[q]
    BY <1>4, <1>10
  <2>3. \A i \in 1..Len(d.records) : d.records[i].request = q =>
          i \in 1..Len(c.records) /\ c.records[i].request = q
    BY <1>1, <1>4, <1>6, <1>10
  <2>4. Paired(c, q, Reached(q, s), s[q].extra) /\ Awaiting(c, q, Reached(q, s) + 1, s[q].extra)
    BY <1>10 DEF Full
  <2>5. Paired(d, q, Reached(q, s), s[q].extra)
    BY <1>4, <2>1, <2>2, <2>3, <2>4 DEF Paired
  <2>6. Awaiting(d, q, Reached(q, s) + 1, s[q].extra)
    BY <1>4, <2>4 DEF Awaiting
  <2> QED
    BY <1>8, <1>10, <2>5, <2>6 DEF Full
<1>11. ASSUME NEW X, Paired(c, r, m, X), \A k \in Kinds : ExtraOf(k, m + 1) \notin X
       PROVE  Paired(d, r, m + 1, X)
  <2> DEFINE R == c.recordsByRequest[r]
             S == d.recordsByRequest[r]
  <2>1. \A i \in R : i \in 1..Len(c.records) /\ i \in Nat /\ c.records[i].hop \in Nat
    BY IndexedIn DEF Shape, Records, IsRecord
  <2>2. S = R \cup {n}
    BY <1>4
  <2>3. \A i \in R : d.records[i] = c.records[i] /\ i < n /\ c.records[i].hop <= m
    BY <1>4, <1>5, <1>11, <2>1 DEF Paired
  <2>4. d.records[n].hop = m + 1 /\ Given(d.records[n], r, X)
    BY <1>1, <1>4, <1>11 DEF Given
  <2>5. \A i \in 1..Len(d.records) : d.records[i].request = r => i \in S
    BY <1>4, <1>6, <1>11, <2>2 DEF Paired
  <2>6. \A h \in 1..(m + 1) : \E i \in S : d.records[i].hop = h
    <3>1. ASSUME NEW h \in 1..(m + 1) PROVE \E i \in S : d.records[i].hop = h
      <4>1. CASE h \in 1..m
        BY <1>11, <2>2, <2>3, <4>1 DEF Paired
      <4>2. CASE h = m + 1
        BY <2>2, <2>4, <4>2
      <4> QED
        BY <4>1, <4>2
    <3> QED
      BY <3>1
  <2>7. \A i \in S : d.records[i].hop <= m + 1 /\ Given(d.records[i], r, X)
    <3>1. \A i \in R : d.records[i].hop <= m + 1 /\ Given(d.records[i], r, X)
      BY <1>11, <2>1, <2>3 DEF Paired
    <3> QED
      BY <2>2, <2>4, <3>1
  <2>8. ASSUME NEW i \in S, NEW k \in S, i < k PROVE d.records[i].hop < d.records[k].hop
    <3>1. i \in R
      <4>1. \A l \in S : l \in R \/ l = n
        BY <2>2
      <4>2. \A l \in R : ~(n < l) /\ n \in Nat
        BY <1>4, <2>1, <2>3
      <4>3. ~(n < n)
        BY <1>4
      <4> HIDE DEF R, S
      <4> QED
        BY <2>8, <4>1, <4>2, <4>3
    <3>2. CASE k \in R
      BY <1>11, <2>3, <2>8, <3>1, <3>2 DEF Paired
    <3>3. CASE k = n
      BY <2>1, <2>3, <2>4, <3>1, <3>3
    <3> QED
      BY <2>2, <3>2, <3>3
  <2> QED
    BY <2>5, <2>6, <2>7, <2>8 DEF Paired
<1>12. AddsHop(c, r, m, n, s, t, d)
  BY <1>4, <1>7, <1>8, <1>9, <1>10, <1>11 DEF AddsHop
<1> QED
  BY <1>12 DEF d

\* What the two drains leave.
LEMMA DrainsShrink ==
    ASSUME NEW c, Shape(c), NEW r \in Requests
    PROVE  LET d == Drained(c, r) IN
           /\ Shrinks(c, d) /\ AsLoaded(c, d) /\ \A q \in Requests \ {r} : Apart(c, d, q)
           /\ Held(d) \subseteq Held(DrainPendingExtra(c, r, "request"))
<1> DEFINE e == DrainPendingExtra(c, r, "request")
           d == DrainPendingExtra(e, r, "response")
<1>1. "request" \in Kinds /\ "response" \in Kinds
  BY DEF Kinds
<1>2. Shrinks(c, e) /\ AsLoaded(c, e) /\ \A q \in Requests \ {r} : Apart(c, e, q)
  BY <1>1, DrainShrinks
<1>3. Shape(e)
  BY <1>2 DEF Shrinks
<1> HIDE DEF e
<1>4. Shrinks(e, d) /\ AsLoaded(e, d) /\ \A q \in Requests \ {r} : Apart(e, d, q)
  BY <1>1, <1>3, DrainShrinks
<1> HIDE DEF d
<1>5. Shrinks(c, d)
  BY <1>2, <1>4, ShrinksTwice
<1>6. AsLoaded(c, d) /\ \A q \in Requests \ {r} : Apart(c, d, q)
  BY <1>2, <1>4 DEF AsLoaded, Apart, Shrinks, Named
<1>7. Held(d) \subseteq Held(e)
  BY <1>4 DEF Shrinks
<1> QED
  BY <1>5, <1>6, <1>7 DEF Drained, d, e

\* The new record gets what Chrome has already sent for its hop, and nothing is left pending.
LEMMA DrainsPair ==
    ASSUME load \in Workloads, NEW c, Shape(c), NEW r \in Requests, Regular(r), NEW s, SentFits(r, s),
           NEW h \in Nat \ {0}, h = s[r].main + 1, NEW X, X = s[r].extra,
           Paired(c, r, h, {x \in X : x.hop < h}), Awaiting(c, r, h, X),
           c.recordsByRequest[r] \subseteq Held(Drained(c, r))
    PROVE  LET d == Drained(c, r) IN
           /\ Paired(d, r, h, X) /\ Awaiting(d, r, h + 1, X)
           /\ d.recordsByRequest[r] = c.recordsByRequest[r]
<1> DEFINE e == DrainPendingExtra(c, r, "request")
           d == DrainPendingExtra(e, r, "response")
           X0 == {x \in X : x.hop < h}
           E1 == {ExtraOf("request", h)}
           E2 == {ExtraOf("response", h)}
           X1 == X0 \cup (X \cap E1)
           W1 == X \ E1
           X2 == X1 \cup (W1 \cap E2)
           W2 == W1 \ E2
<1>0. \A k1, k2, h1, h2 : /\ ExtraOf(k1, h1) = ExtraOf(k2, h2) <=> k1 = k2 /\ h1 = h2
                          /\ ExtraOf(k1, h1).hop = h1
  BY DEF ExtraOf
<1>1. "request" \in Kinds /\ "response" \in Kinds /\ \A k \in Kinds : k \in {"request", "response"}
  BY DEF Kinds
<1>2. \A k, i : ExtraOf(k, i) \in X0 <=> ExtraOf(k, i) \in X /\ i < h
  BY <1>0
<1>3. ASSUME NEW k \in Kinds, ExtraOf(k, h) \in X
      PROVE  load.chain[r][h] /\ \A i \in Nat \ {0} : i < h => ExtraOf(k, i) \in X0
  <2> DEFINE x == ExtraOf(k, h)
  <2>1. x \in ExtraEvents(r) /\ \A f \in ExtraEvents(r) : Before(f, x) => f \in X
    BY <1>3 DEF SentFits
  <2>2. x.kind = k /\ x.hop = h
    BY DEF ExtraOf
  <2> HIDE DEF x
  <2>3. load.chain[r][h]
    BY <2>1, <2>2, ExtraIs
  <2>4. \A i \in Nat \ {0} : i < x.hop => ExtraOf(x.kind, i) \in X
    BY <2>1, OrderedExtras
  <2> QED
    BY <1>2, <2>2, <2>3, <2>4
<1>4. ASSUME NEW k \in Kinds, NEW i, ExtraOf(k, i) \in X PROVE i <= h
  <2>1. ExtraOf(k, i).hop <= s[r].main + 1
    BY <1>4 DEF SentFits
  <2> QED
    BY <1>0, <2>1
<1>5. ~(h < h)
  OBVIOUS
<1>6. Paired(c, r, h, X0) /\ Awaiting(c, r, h, X) /\ h \in Nat /\ h # 0
  OBVIOUS
<1>7. c.recordsByRequest[r] \subseteq Held(e) /\ c.recordsByRequest[r] \subseteq Held(d)
  BY DrainsShrink DEF Drained
<1>8. Shape(e)
  BY <1>1, DrainShrinks DEF Shrinks
<1>9. Paired(e, r, h, X1) /\ Awaiting(e, r, h, W1) /\ e.recordsByRequest[r] = c.recordsByRequest[r]
  <2>1. /\ ExtraOf("request", h) \notin X0
        /\ ExtraOf("request", h) \in X => /\ load.chain[r][h]
                                          /\ \A i \in Nat \ {0} : i < h => ExtraOf("request", i) \in X0
    BY <1>1, <1>2, <1>3, <1>5
  <2> HIDE DEF X0
  <2>2. /\ Paired(e, r, h, X0 \cup (X \cap {ExtraOf("request", h)}))
        /\ Awaiting(e, r, h, X \ {ExtraOf("request", h)})
        /\ e.recordsByRequest[r] = c.recordsByRequest[r]
    BY <1>1, <1>6, <1>7, <2>1, DrainPairs
  <2> QED
    BY <2>2
<1> HIDE DEF e
<1>10. Paired(d, r, h, X2) /\ Awaiting(d, r, h, W2) /\ d.recordsByRequest[r] = e.recordsByRequest[r]
  <2>1. /\ ExtraOf("response", h) \notin X1
        /\ ExtraOf("response", h) \in W1 => /\ load.chain[r][h]
                                            /\ \A i \in Nat \ {0} : i < h => ExtraOf("response", i) \in X1
    BY <1>0, <1>1, <1>2, <1>3, <1>5
  <2>2. e.recordsByRequest[r] \subseteq Held(d)
    BY <1>7, <1>9
  <2> HIDE DEF X1, W1
  <2>3. /\ Paired(d, r, h, X1 \cup (W1 \cap {ExtraOf("response", h)}))
        /\ Awaiting(d, r, h, W1 \ {ExtraOf("response", h)})
        /\ d.recordsByRequest[r] = e.recordsByRequest[r]
    BY <1>1, <1>6, <1>8, <1>9, <2>1, <2>2, DrainPairs
  <2> QED
    BY <2>3
<1>11. Shape(d)
  BY <1>1, <1>8, DrainShrinks DEF Shrinks
<1> HIDE DEF d
<1>12. ASSUME NEW k \in Kinds, NEW i \in Nat, i <= h PROVE ExtraOf(k, i) \in X2 <=> ExtraOf(k, i) \in X
  <2>1. ExtraOf(k, i) \in X2 <=> \/ ExtraOf(k, i) \in X /\ i < h
                                 \/ ExtraOf(k, i) \in X /\ k = "request" /\ i = h
                                 \/ ExtraOf(k, i) \in X /\ k = "response" /\ i = h
    BY <1>0, <1>2
  <2>2. i < h \/ i = h
    BY <1>12
  <2> QED
    BY <1>1, <2>1, <2>2
<1>13. ASSUME NEW k \in Kinds PROVE d.pendingExtra[k][r] = <<>> /\ ExtraOf(k, h + 1) \notin X
  <2>1. ExtraOf(k, h) \notin W2
    BY <1>0, <1>1
  <2>2. ~(h + 1 <= h)
    OBVIOUS
  <2>3. ExtraOf(k, h + 1) \notin X
    BY <1>4, <2>2
  <2> HIDE DEF W2
  <2> QED
    BY <1>10, <2>1, <2>3 DEF Awaiting
<1> HIDE DEF X2, W2
<1>14. Paired(d, r, h, X)
  BY <1>10, <1>11, <1>12, PairedMore
<1>15. Awaiting(d, r, h + 1, X)
  BY <1>13 DEF Awaiting
<1> QED
  BY <1>9, <1>10, <1>14, <1>15 DEF Drained, d, e

\* handleRequest, of the next hop.
LEMMA RequestLogs ==
    ASSUME load \in Workloads, NEW c, NEW r \in Requests, NEW s, NEW t, Ready(c, s), Moves(r, s, t),
           SentFits(r, s), NEW m \in Nat, s[r].main = m, m < Hops(r), t[r].main = m + 1,
           t[r].extra = s[r].extra
    PROVE  Logs(c, HandleRequest(c, r, m + 1), r, s, t)
<1> DEFINE n == Len(c.records) + 1
           c1 == Linked(c, r, m + 1)
           c2 == Added(c1, r, m + 1, n)
           c4 == Drained(c2, r)
           d == UpdateRecord(c4, n)
           X == s[r].extra
<1>0. HandleRequest(c, r, m + 1) = d
  BY DEF HandleRequest, Linked, Redirected, Added, NewRecord, Drained
<1>1. Shape(c) /\ Limits(c) /\ Fits(c, s) /\ Follows(c, s) /\ Len(c.records) \in Nat
  BY LogBounds DEF Ready, Shape
<1>2. Reached(r, s) = m /\ Reached(r, t) = m + 1
  BY DEF Reached, Moves
<1>3. /\ Shrinks(c, c1) /\ Limits(c1) /\ Fits(c1, t) /\ Follows(c1, s)
      /\ c1.pendingExtra = c.pendingExtra
      /\ \A q \in Requests : q # r => Apart(c, c1, q)
      /\ \A k, Y : Paired(c, r, k, Y) /\ c.recordsByRequest[r] \subseteq Held(c1)
                     => Paired(c1, r, k, Y) /\ c1.recordsByRequest[r] = c.recordsByRequest[r]
  BY <1>2, LinkLogs
<1> HIDE DEF c1
<1>4. Shape(c1) /\ n = Len(c1.records) + 1
  BY <1>3 DEF Shrinks
<1> HIDE DEF n
<1>a. AddsHop(c1, r, m, n, s, t, c2)
  BY <1>1, <1>2, <1>3, <1>4, AddLogs
<1> HIDE DEF c2
<1>5. /\ SameHead(c1, c2) /\ Shape(c2) /\ Len(c2.records) = n /\ n \in Nat
      /\ Held(c2) = Held(c1) \cup {n} /\ Fits(c2, t) /\ Follows(c2, t)
      /\ \A i \in 1..Len(c1.records) : c2.records[i] = c1.records[i]
      /\ \A q \in Requests : c2.recordsByRequest[q] =
            c1.recordsByRequest[q] \cup (IF q = r THEN {n} ELSE {})
      /\ c2.pendingExtra = c1.pendingExtra /\ c2.droppedEvents = c1.droppedEvents
      /\ \A q \in Requests : q # r => /\ t[q] = s[q]
                                      /\ Full(c1, q, s) => Full(c2, q, t)
      /\ \A Y : Paired(c1, r, m, Y) /\ (\A k \in Kinds : ExtraOf(k, m + 1) \notin Y)
                   => Paired(c2, r, m + 1, Y)
  BY <1>a DEF AddsHop
<1>6. /\ Shrinks(c2, c4) /\ AsLoaded(c2, c4) /\ \A q \in Requests \ {r} : Apart(c2, c4, q)
  BY <1>5, DrainsShrink
<1> HIDE DEF c4
<1>7. Shape(c4) /\ n \in Held(c4) /\ Len(c4.records) = n
  BY <1>5, <1>6 DEF Shrinks
<1>8. Writes(c4, n, c4.records[n], d)
  BY <1>7, UpdateWrites
<1> HIDE DEF d
<1>9. /\ Shrinks(c4, d) /\ AsLoaded(c4, d) /\ Limits(d) /\ Shape(d)
      /\ \A q \in Requests : Apart(c4, d, q)
  <2>1. Shrinks(c4, d)
    BY <1>7, <1>8, WritesShrinks DEF Named
  <2> QED
    BY <1>8, <2>1 DEF Writes, Alike, AsLoaded, Apart
<1>10. /\ Shrinks(c2, d) /\ AsLoaded(c2, d) /\ \A q \in Requests \ {r} : Apart(c2, d, q)
  <2>1. Shrinks(c2, d)
    BY <1>5, <1>6, <1>9, ShrinksTwice
  <2>2. \A i \in 1..Len(c2.records) : i \in 1..Len(c4.records)
                                     /\ c4.records[i].request = c2.records[i].request
    BY <1>6 DEF Shrinks, Named
  <2>3. AsLoaded(c2, d)
    BY <1>6, <1>9, <2>2 DEF AsLoaded
  <2>4. \A q \in Requests \ {r} : Apart(c2, d, q)
    BY <1>6, <1>9, <2>2 DEF Apart
  <2> QED
    BY <2>1, <2>3, <2>4
<1>11. Fits(d, t) /\ Follows(d, t)
  BY <1>5, <1>10, ShrinksFit, ShrinksFollow
<1>12. SameHead(c, d)
  BY <1>3, <1>5, <1>10 DEF Shrinks, SameHead
<1>13. Grows(c, d)
  <2>1. Len(d.records) = n /\ Len(c1.records) = Len(c.records) /\ Len(c.records) <= n
        /\ \A i \in 1..Len(c.records) : i \in 1..n
    <3>1. Len(d.records) = Len(c2.records) /\ Len(c1.records) = Len(c.records)
      BY <1>3, <1>10 DEF Shrinks
    <3> QED
      BY <1>1, <1>4, <1>5, <3>1
  <2>2. \A i \in 1..Len(c.records) : Named(c.records[i], c1.records[i])
    BY <1>3 DEF Shrinks
  <2>3. \A i \in 1..n : Named(c2.records[i], d.records[i])
    BY <1>5, <1>10 DEF Shrinks
  <2>4. \A i \in 1..Len(c.records) : c2.records[i] = c1.records[i]
    BY <1>5, <2>1
  <2> QED
    BY <2>1, <2>2, <2>3, <2>4 DEF Grows, Named
<1>14. ASSUME NEW q \in Requests, Regular(q), Full(c, q, s), c.recordsByRequest[q] \subseteq Held(d)
       PROVE  Full(d, q, t)
  <2>1. c.recordsByRequest[q] \subseteq Held(c1)
    <3>1. \A i \in c.recordsByRequest[q] : i \in 1..Len(c.records) /\ i # n
      BY <1>1, IndexedIn DEF n
    <3>2. Held(d) \subseteq Held(c1) \cup {n}
      BY <1>5, <1>10 DEF Shrinks
    <3> QED
      BY <1>14, <3>1, <3>2
  <2>2. c1.recordsByRequest[q] = c.recordsByRequest[q]
    <3>1. c1.recordsByRequest[q] = c.recordsByRequest[q] \cap Held(c1)
      BY <1>3 DEF Shrinks
    <3> QED
      BY <2>1, <3>1
  <2>3. CASE q # r
    <3>1. Full(c1, q, s)
      BY <1>1, <1>3, <1>14, <2>1, <2>3, ApartFull
    <3>2. Full(c2, q, t) /\ c2.recordsByRequest[q] = c.recordsByRequest[q]
      BY <1>5, <2>2, <2>3, <3>1
    <3>3. c2.recordsByRequest[q] \subseteq Held(d) /\ Apart(c2, d, q)
      BY <1>10, <1>14, <2>3, <3>2
    <3> QED
      BY <1>5, <1>10, <3>2, <3>3, ApartFull
  <2>4. CASE q = r
    <3>0. X = s[r].extra
      OBVIOUS
    <3> HIDE DEF X
    <3>1. Paired(c, r, m, X) /\ Awaiting(c, r, m + 1, X)
      BY <1>2, <1>14, <2>4, <3>0 DEF Full
    <3>2. Paired(c1, r, m, X)
      BY <1>3, <2>1, <2>4, <3>1
    <3> DEFINE X0 == {x \in X : x.hop < m + 1}
    <3>3. \A k \in Kinds, h \in Nat : h <= m => (ExtraOf(k, h) \in X <=> ExtraOf(k, h) \in X0)
      BY DEF ExtraOf
    <3>4. \A k \in Kinds : ExtraOf(k, m + 1) \notin X0
      BY DEF ExtraOf
    <3> HIDE DEF X0
    <3>5. Paired(c1, r, m, X0)
      BY <1>4, <3>2, <3>3, PairedMore
    <3>6. Paired(c2, r, m + 1, X0)
      BY <1>5, <3>4, <3>5
    <3>7. Awaiting(c2, r, m + 1, X)
      BY <1>3, <1>5, <3>1 DEF Awaiting
    <3>8. c2.recordsByRequest[r] = c.recordsByRequest[r] \cup {n}
      BY <1>5, <2>2, <2>4
    <3>9. c2.recordsByRequest[r] \subseteq Held(d)
      <4>1. Len(d.records) = n /\ n \in Held(d)
        BY <1>5, <1>10 DEF Shrinks
      <4> QED
        BY <1>14, <2>4, <3>8, <4>1
    <3>10. c2.recordsByRequest[r] \subseteq Held(c4)
      BY <1>9, <3>9 DEF Shrinks
    <3>11. /\ Paired(c4, r, m + 1, X) /\ Awaiting(c4, r, m + 2, X)
           /\ c4.recordsByRequest[r] = c2.recordsByRequest[r]
      <4>1. ASSUME NEW h \in Nat \ {0}, h = m + 1
            PROVE  /\ Paired(c4, r, h, X) /\ Awaiting(c4, r, h + 1, X)
                   /\ c4.recordsByRequest[r] = c2.recordsByRequest[r]
        <5>1. Paired(c2, r, h, {x \in X : x.hop < h}) /\ Awaiting(c2, r, h, X)
          BY <3>6, <3>7, <4>1 DEF X0
        <5> QED
          BY <1>5, <1>14, <2>4, <3>0, <3>10, <4>1, <5>1, DrainsPair DEF c4
      <4>2. m + 1 \in Nat \ {0} /\ (m + 1) + 1 = m + 2
        OBVIOUS
      <4> QED
        BY <4>1, <4>2
    <3>12. Paired(d, r, m + 1, X)
      <4>1. c4.recordsByRequest[r] \subseteq Held(d) /\ Apart(c4, d, r)
        BY <1>9, <3>9, <3>11
      <4> QED
        BY <1>7, <1>9, <3>11, <4>1, ApartPaired
    <3>13. Awaiting(d, r, m + 2, X)
      BY <1>8, <3>11 DEF Awaiting, Writes
    <3>14. Reached(r, t) + 1 = m + 2 /\ t[r].extra = X
      BY <1>2, <3>0
    <3> QED
      BY <1>2, <2>4, <3>12, <3>13, <3>14 DEF Full
  <2> QED
    BY <2>3, <2>4
<1>15. Logs(c, d, r, s, t)
  BY <1>9, <1>11, <1>12, <1>13, <1>14 DEF Logs, Ready
<1> QED
  BY <1>0, <1>15

-----------------------------------------------------------------------------
(* Chrome's events.                                                        *)

\* What Chrome has sent of one request becomes main and extra.
Sends(r, main, extra) ==
    /\ sent' = [q \in Requests |-> sent'[q]] /\ load' = load
    /\ sent'[r] = [main |-> main, extra |-> extra]
    /\ \A q \in Requests \ {r} : sent'[q] = sent[q]

\* The order of the events is kept.
LEMMA SendsMoves ==
    ASSUME SentInv, NEW r \in Requests, NEW main \in Nat, NEW extra, Sends(r, main, extra),
           sent[r].main <= main, sent[r].main = Hops(r) + 2 => main = Hops(r) + 2,
           extra \subseteq ExtraEvents(r),
           \A e \in extra : /\ e.hop <= main + 1
                            /\ \A f \in ExtraEvents(r) : Before(f, e) => f \in extra
    PROVE  SentInv' /\ Moves(r, sent, sent')
<1>1. \A q \in Requests : Hops(q) \in Nat /\ sent[q].main \in Nat /\ sent'[q].main \in Nat
  BY HopsNat DEF SentInv, SentFits, Sends
<1>2. \A q \in Requests : Hops(q)' = Hops(q) /\ ExtraEvents(q)' = ExtraEvents(q)
  BY DEF Sends, Hops, ExtraEvents
<1>3. ASSUME NEW q \in Requests PROVE IsSent(sent[q])' /\ SentFits(q, sent)'
  <2>1. CASE q = r
    <3>1. IsSent(sent[r])'
      BY DEF Sends, IsSent
    <3>2. SentFits(r, sent)'
      BY <1>2 DEF Sends, SentFits
    <3> QED
      BY <2>1, <3>1, <3>2
  <2>2. CASE q # r
    BY <1>2, <2>2 DEF SentInv, SentFits, IsSent, Sends
  <2> QED
    BY <2>1, <2>2
<1>4. SentInv'
  BY <1>3 DEF SentInv, Sends
<1>5. Moves(r, sent, sent')
  <2>1. sent'[r].main = main /\ \A q \in Requests : q # r => sent'[q] = sent[q]
    BY DEF Sends
  <2>2. ASSUME NEW q \in Requests
        PROVE  /\ Reached(q, sent) <= Reached(q, sent')
               /\ sent[q].main = Hops(q) + 2 => sent'[q].main = Hops(q) + 2
    BY <1>1, <2>1 DEF Reached
  <2> QED
    BY <1>1, <2>1, <2>2 DEF Moves
<1> QED
  BY <1>4, <1>5

\* The events are those of SendsMoves.
LEMMA EventSends ==
    ASSUME SentInv, NEW r \in Requests, Event(r)
    PROVE  /\ SentInv' /\ Moves(r, sent, sent')
           /\ RequestWillBeSent(r) => Sends(r, sent[r].main + 1, sent[r].extra)
           /\ ResponseReceived(r) => Sends(r, sent[r].main + 1, sent[r].extra)
           /\ LoadingEnds(r) => Sends(r, Hops(r) + 2, sent[r].extra)
           /\ \A e : sent' = [sent EXCEPT ![r].extra = @ \cup {e}] =>
                       Sends(r, sent[r].main, sent[r].extra \cup {e})
<1> DEFINE main == sent[r].main
           extra == sent[r].extra
<1>0. /\ sent = [q \in Requests |-> sent[q]] /\ sent[r] = [main |-> main, extra |-> extra]
      /\ Hops(r) \in Nat /\ main \in Nat /\ extra \subseteq ExtraEvents(r) /\ load' = load
      /\ \A e \in extra : /\ e.hop <= main + 1
                          /\ \A f \in ExtraEvents(r) : Before(f, e) => f \in extra
      /\ \A e \in ExtraEvents(r) : e.hop \in Nat
  BY HopsNat, ExtraIs
     DEF SentInv, IsSent, SentFits, Event, RequestWillBeSent, ResponseReceived, LoadingEnds,
         ExtraInfo, Heard
<1> HIDE DEF main, extra
<1>1. ASSUME NEW m, sent' = [sent EXCEPT ![r].main = m] PROVE Sends(r, m, extra)
  BY <1>0, <1>1 DEF Sends
<1>2. ASSUME NEW e, sent' = [sent EXCEPT ![r].extra = @ \cup {e}] PROVE Sends(r, main, extra \cup {e})
  <2>1. sent[r].extra = extra
    BY DEF extra
  <2>2. sent' = [sent EXCEPT ![r].extra = extra \cup {e}]
    BY <1>2, <2>1
  <2> DEFINE X == extra \cup {e}
  <2>3. sent' = [sent EXCEPT ![r].extra = X]
    BY <2>2
  <2> HIDE DEF X
  <2>4. Sends(r, main, X)
    BY ONLY <1>0, <2>3, r \in Requests DEF Sends
  <2> QED
    BY <2>4 DEF X
<1>3. ASSUME NEW m \in Nat, main <= m, main = Hops(r) + 2 => m = Hops(r) + 2, Sends(r, m, extra)
      PROVE  SentInv' /\ Moves(r, sent, sent')
  <2>1. \A e \in extra : e.hop <= m + 1
    BY <1>0, <1>3
  <2> QED
    BY <1>0, <1>3, <2>1, SendsMoves DEF main
<1>4. ASSUME RequestWillBeSent(r) \/ ResponseReceived(r) PROVE SentInv' /\ Moves(r, sent, sent')
  <2>1. sent' = [sent EXCEPT ![r].main = main + 1] /\ main <= Hops(r)
    BY <1>0, <1>4 DEF RequestWillBeSent, ResponseReceived, main
  <2>2. Sends(r, main + 1, extra)
    BY <1>1, <2>1
  <2>3. SentInv' /\ Moves(r, sent, sent')
    BY <1>0, <1>3, <2>1, <2>2
  <2> QED
    BY <2>3
<1>5. ASSUME LoadingEnds(r) PROVE SentInv' /\ Moves(r, sent, sent')
  <2>1. sent' = [sent EXCEPT ![r].main = Hops(r) + 2] /\ main <= Hops(r) + 2
    BY <1>0, <1>5 DEF LoadingEnds, main
  <2>2. Sends(r, Hops(r) + 2, extra)
    BY <1>1, <2>1
  <2>3. SentInv' /\ Moves(r, sent, sent')
    BY <1>0, <1>3, <2>1, <2>2
  <2> QED
    BY <2>3
<1>6. ASSUME ExtraInfo(r) PROVE SentInv' /\ Moves(r, sent, sent')
  <2>1. PICK e \in ExtraEvents(r) \ extra :
          /\ \A f \in ExtraEvents(r) : Before(f, e) => f \in extra
          /\ e.hop <= main + 1
          /\ sent' = [sent EXCEPT ![r].extra = @ \cup {e}]
    BY <1>6 DEF ExtraInfo, main, extra
  <2>2. Sends(r, main, extra \cup {e})
    BY <1>2, <2>1
  <2>3. \A x \in extra \cup {e} : /\ x.hop <= main + 1
                                  /\ \A f \in ExtraEvents(r) : Before(f, x) => f \in extra \cup {e}
    BY <1>0, <2>1
  <2>4. extra \cup {e} \subseteq ExtraEvents(r) /\ sent[r].main <= main
    BY <1>0, <2>1 DEF main
  <2>5. SentInv' /\ Moves(r, sent, sent')
    BY <1>0, <2>2, <2>3, <2>4, SendsMoves DEF main
  <2> QED
    BY <2>5
<1>7. SentInv' /\ Moves(r, sent, sent')
  BY <1>4, <1>5, <1>6 DEF Event
<1>8. /\ RequestWillBeSent(r) => Sends(r, main + 1, extra)
      /\ ResponseReceived(r) => Sends(r, main + 1, extra)
      /\ LoadingEnds(r) => Sends(r, Hops(r) + 2, extra)
  BY <1>1 DEF RequestWillBeSent, ResponseReceived, LoadingEnds, main
<1> QED
  BY <1>2, <1>7, <1>8 DEF main, extra

\* updateCurrent, whether the request is in the log or not.
LEMMA CurrentLogs ==
    ASSUME NEW c, NEW r \in Requests, NEW s, NEW t, Ready(c, s), Moves(r, s, t),
           Reached(r, t) = Reached(r, s), t[r].extra = s[r].extra,
           NEW n, n = c.currentByRequest[r], NEW v,
           n # None => Touched(c.records[n], v, r) /\ RecordFits(v, t)
    PROVE  Logs(c, IF n = None THEN c ELSE UpdateRecord([c EXCEPT !.records[n] = v], n), r, s, t)
<1>1. CASE n = None
  <2>1. Logs(c, c, r, s, t)
    BY IgnoreLogs
  <2> QED
    BY <1>1, <2>1
<1>2. CASE n # None
  <2>1. Logs(c, UpdateRecord([c EXCEPT !.records[n] = v], n), r, s, t)
    BY <1>2, UpdateLogs
  <2> QED
    BY <1>2, <2>1
<1> QED
  BY <1>1, <1>2

\* The current record of a request that has reached its last hop.
LEMMA CurrentFits ==
    ASSUME NEW c, NEW r \in Requests, NEW s, NEW t, Ready(c, s), Moves(r, s, t),
           NEW n, n = c.currentByRequest[r], n # None
    PROVE  /\ IsRecord(c.records[n]) /\ c.records[n].request = r
           /\ c.records[n].hop = Reached(r, s) /\ RecordFits(c.records[n], t)
<1>1. Shape(c) /\ Fits(c, s) /\ Follows(c, s)
  BY DEF Ready
<1>2. n \in 1..Len(c.records) /\ c.records[n].request = r
  BY <1>1, IndexedIn
<1>3. Records(c) /\ Fits(c, t)
  BY <1>1, MovesFit DEF Shape
<1> QED
  BY <1>1, <1>2, <1>3 DEF Records, Fits, Follows

\* What an event does to the log of a capture that hears it.
LEMMA EventLogs ==
    ASSUME SentInv, NEW r \in Requests, Event(r), NEW j \in Jobs, Hears(j), Ready(cap[j], sent)
    PROVE  Logs(cap[j], cap'[j], r, sent, sent')
<1> DEFINE c == cap[j]
           n == c.currentByRequest[r]
           s == sent
           t == sent'
           x == c.records[n]
<1>0. load \in Workloads /\ Ready(c, s) /\ Moves(r, s, t) /\ SentFits(r, s) /\ Hops(r) \in Nat
      /\ s[r].main \in Nat
  BY EventSends, HopsNat DEF SentInv, SentFits
<1>1. n # None => /\ IsRecord(x) /\ x.request = r /\ x.hop = Reached(r, s) /\ RecordFits(x, t)
  BY <1>0, CurrentFits
<1>2. ASSUME RequestWillBeSent(r) PROVE Logs(c, cap'[j], r, s, t)
  <2>1. cap'[j] = HandleRequest(c, r, s[r].main + 1) /\ s[r].main < Hops(r)
    BY <1>2 DEF RequestWillBeSent, Heard
  <2>2. Sends(r, s[r].main + 1, s[r].extra)
    BY <1>2, EventSends
  <2>3. t[r].main = s[r].main + 1 /\ t[r].extra = s[r].extra
    BY <2>2 DEF Sends
  <2> HIDE DEF c, s, t
  <2>4. ASSUME NEW m \in Nat, m = s[r].main PROVE Logs(c, HandleRequest(c, r, m + 1), r, s, t)
    BY <1>0, <2>1, <2>3, <2>4, RequestLogs
  <2> QED
    BY <1>0, <2>1, <2>4
<1>3. ASSUME ResponseReceived(r) PROVE Logs(c, cap'[j], r, s, t)
  <2> DEFINE v == ApplyResponse(x, load.chain[r][Hops(r)])
  <2>1. /\ cap'[j] = IF n = None THEN c ELSE UpdateRecord([c EXCEPT !.records[n] = v], n)
        /\ s[r].main = Hops(r)
    BY <1>3 DEF ResponseReceived, Heard, UpdateCurrent
  <2>2. Sends(r, s[r].main + 1, s[r].extra)
    BY <1>3, EventSends
  <2>3. t[r].main = Hops(r) + 1 /\ t[r].extra = s[r].extra
    BY <2>1, <2>2 DEF Sends
  <2> HIDE DEF c, s, t
  <2>4. Reached(r, s) = Hops(r) /\ Reached(r, t) = Hops(r)
    BY <1>0, <2>1, <2>3 DEF Reached
  <2>5. n # None => Touched(x, v, r) /\ RecordFits(v, t)
    <3> SUFFICES ASSUME n # None PROVE Touched(x, v, r) /\ RecordFits(v, t)
      OBVIOUS
    <3> HIDE DEF n, x
    <3>1. /\ Touched(x, v, r) /\ v.completed = x.completed /\ v.failed = x.failed
          /\ v.redirect = x.redirect
      BY <1>1, <2>4, ResponseTouches
    <3> HIDE DEF v
    <3> QED
      BY <1>1, <3>1 DEF Touched, Named, RecordFits
  <2> HIDE DEF n, v
  <2>6. Logs(c, IF n = None THEN c ELSE UpdateRecord([c EXCEPT !.records[n] = v], n), r, s, t)
    <3>1. n = c.currentByRequest[r]
      BY DEF n
    <3> QED
      BY <1>0, <2>3, <2>4, <2>5, <3>1, CurrentLogs
  <2> QED
    BY <2>1, <2>6
<1>4. ASSUME LoadingEnds(r) PROVE Logs(c, cap'[j], r, s, t)
  <2> DEFINE v == FinishRecord(x, FALSE)
             w == FailRecord(x)
  <2>1. /\ \/ cap'[j] = IF n = None THEN c ELSE UpdateRecord([c EXCEPT !.records[n] = v], n)
           \/ cap'[j] = IF n = None THEN c ELSE UpdateRecord([c EXCEPT !.records[n] = w], n)
        /\ s[r].main \in {Hops(r), Hops(r) + 1}
    BY <1>4 DEF LoadingEnds, Heard, UpdateCurrent
  <2>2. Sends(r, Hops(r) + 2, s[r].extra)
    BY <1>4, EventSends
  <2>3. t[r].main = Hops(r) + 2 /\ t[r].extra = s[r].extra
    BY <2>2 DEF Sends
  <2> HIDE DEF c, s, t
  <2>4. Reached(r, s) = Hops(r) /\ Reached(r, t) = Hops(r)
    BY <1>0, <2>1, <2>3 DEF Reached
  <2>5. n # None => /\ Touched(x, v, r) /\ RecordFits(v, t)
                    /\ Touched(x, w, r) /\ RecordFits(w, t)
    <3> SUFFICES ASSUME n # None
                 PROVE  /\ Touched(x, v, r) /\ RecordFits(v, t)
                        /\ Touched(x, w, r) /\ RecordFits(w, t)
      OBVIOUS
    <3> HIDE DEF n, x
    <3>1. Touched(x, v, r) /\ Touched(x, w, r) /\ w.failed = TRUE
      BY <1>1, FinishTouches, FailTouches
    <3> HIDE DEF v, w
    <3>2. x.request = r /\ x.hop = Hops(r) /\ x.hop <= Reached(r, t)
      BY <1>0, <1>1, <2>4
    <3>3. /\ v.request = r /\ v.hop = Hops(r) /\ v.hop <= Reached(r, t)
          /\ w.request = r /\ w.hop = Hops(r) /\ w.hop <= Reached(r, t)
      BY <3>1, <3>2 DEF Touched, Named
    <3> QED
      BY <2>3, <3>1, <3>3 DEF RecordFits
  <2> HIDE DEF n, v, w
  <2>6. /\ Logs(c, IF n = None THEN c ELSE UpdateRecord([c EXCEPT !.records[n] = v], n), r, s, t)
        /\ Logs(c, IF n = None THEN c ELSE UpdateRecord([c EXCEPT !.records[n] = w], n), r, s, t)
    <3>1. n = c.currentByRequest[r]
      BY DEF n
    <3>2. ASSUME NEW y, n # None => Touched(x, y, r) /\ RecordFits(y, t)
          PROVE  Logs(c, IF n = None THEN c ELSE UpdateRecord([c EXCEPT !.records[n] = y], n), r, s, t)
      BY <1>0, <2>3, <2>4, <3>1, <3>2, CurrentLogs
    <3> QED
      BY <2>5, <3>2
  <2> QED
    BY <2>1, <2>6
<1>5. ASSUME ExtraInfo(r) PROVE Logs(c, cap'[j], r, s, t)
  <2>1. PICK e \in ExtraEvents(r) \ s[r].extra :
          /\ \A other \in ExtraEvents(r) : Before(other, e) => other \in s[r].extra
          /\ e.hop <= s[r].main + 1
          /\ sent' = [sent EXCEPT ![r].extra = @ \cup {e}]
          /\ cap'[j] = ApplyExtraInfo(c, r, e.kind, e.hop)
    BY <1>5 DEF ExtraInfo, Heard
  <2>2. Sends(r, s[r].main, s[r].extra \cup {e})
    BY <2>1, EventSends
  <2>3. t[r].main = s[r].main /\ t[r].extra = s[r].extra \cup {e}
    BY <2>2 DEF Sends
  <2> HIDE DEF c, s, t
  <2> QED
    BY <1>0, <2>1, <2>3, ExtraLogs
<1> QED
  BY <1>2, <1>3, <1>4, <1>5 DEF Event

\* What an event leaves alone, and what the history of a capture tells of it.
LEMMA EventHeard ==
    ASSUME NEW r \in Requests, Event(r)
    PROVE  /\ UNCHANGED <<captures, lease, doc, job, load>> /\ partial \subseteq partial'
           /\ \A j \in Jobs :
                /\ ~Hears(j) => cap'[j] = cap[j] /\ <<j, r>> \in partial'
                /\ cap'[j].droppedEvents # cap[j].droppedEvents => <<j, r>> \in partial'
                /\ \A n \in Range(cap[j].entries) \ Range(cap'[j].entries) :
                      <<j, cap[j].records[n].request>> \in partial'
<1>1. \A j \in Jobs : ~Hears(j) => cap'[j] = cap[j]
  <2>1. CASE RequestWillBeSent(r)
    BY <2>1 DEF RequestWillBeSent, Heard
  <2>2. CASE ResponseReceived(r)
    BY <2>2 DEF ResponseReceived, Heard
  <2>3. CASE LoadingEnds(r)
    BY <2>3 DEF LoadingEnds, Heard
  <2>4. CASE ExtraInfo(r)
    BY <2>4 DEF ExtraInfo, Heard
  <2> QED
    BY <2>1, <2>2, <2>3, <2>4 DEF Event
<1>2. UNCHANGED <<captures, lease, doc, job, load>>
  BY DEF Event, RequestWillBeSent, ResponseReceived, LoadingEnds, ExtraInfo, Heard
<1>3. partial' = partial \cup {<<j, r>> : j \in {i \in Jobs :
                                   ~Hears(i) \/ cap'[i].droppedEvents # cap[i].droppedEvents}}
                          \cup UNION {{<<j, cap[j].records[n].request>> :
                                   n \in Range(cap[j].entries) \ Range(cap'[j].entries)} : j \in Jobs}
  BY DEF Event, RequestWillBeSent, ResponseReceived, LoadingEnds, ExtraInfo, Heard
<1>4. \A j \in Jobs : ~Hears(j) \/ cap'[j].droppedEvents # cap[j].droppedEvents => <<j, r>> \in partial'
  BY <1>3
<1>5. ASSUME NEW j \in Jobs, NEW n \in Range(cap[j].entries) \ Range(cap'[j].entries)
      PROVE  <<j, cap[j].records[n].request>> \in partial'
  BY <1>3
<1>6. partial \subseteq partial'
  BY <1>3
<1> QED
  BY <1>1, <1>2, <1>4, <1>5, <1>6

\* A capture that does not hear an event has the log it had.
LEMMA DeafKeeps ==
    ASSUME CaptureInv, LogsInv, NEW r \in Requests, Event(r), NEW j \in Jobs, ~Hears(j)
    PROVE  LogFits(j)' /\ \A q \in Requests : Pairs(j, q)'
<1>1. /\ cap'[j] = cap[j] /\ lease'[j] = lease[j] /\ load' = load /\ partial \subseteq partial'
      /\ <<j, r>> \in partial'
  BY EventHeard
<1>2. LogFits(j) /\ \A q \in Requests : Pairs(j, q)
  BY DEF LogsInv
<1>3. Moves(r, sent, sent')
  BY EventSends DEF LogsInv
<1>4. ~Hears(j)'
  BY <1>1 DEF Hears
<1>5. LogFits(j)'
  <2>1. Fits(cap[j], sent')
    BY <1>2, <1>3, MovesFit DEF LogFits, Shape
  <2>2. Fits(cap[j], sent)'
    BY <1>1, <2>1 DEF Fits, RecordFits, Reached, Hops
  <2>3. Shape(cap[j])' /\ Limits(cap[j])' /\ (lease'[j] = "none" => Fresh(cap[j])')
    BY <1>1, <1>2 DEF LogFits
  <2> QED
    BY <1>4, <2>2, <2>3 DEF LogFits
<1>6. ASSUME NEW q \in Requests PROVE Pairs(j, q)'
  <2> SUFFICES ASSUME <<j, q>> \notin partial', Regular(q)'
               PROVE  (lease'[j] = "none" => sent'[q] = Unsent) /\ Extras(cap[j], q)'
    BY <1>4 DEF Pairs
  <2>1. q # r /\ <<j, q>> \notin partial /\ Regular(q)
    BY <1>1 DEF Regular, Hops
  <2>2. sent'[q] = sent[q]
    BY <1>3, <2>1 DEF Moves
  <2>3. (lease[j] = "none" => sent[q] = Unsent) /\ Extras(cap[j], q)
    BY <1>2, <2>1 DEF Pairs
  <2> QED
    BY <1>1, <2>2, <2>3 DEF Extras
<1> QED
  BY <1>5, <1>6

\* A capture that hears it logs it.
LEMMA HeardKeeps ==
    ASSUME CaptureInv, LogsInv, NEW r \in Requests, Event(r), NEW j \in Jobs, Hears(j)
    PROVE  /\ LogFits(j)' /\ \A q \in Requests : Pairs(j, q)'
           /\ Grows(cap[j], cap'[j]) /\ SameHead(cap[j], cap'[j])
<1> DEFINE c == cap[j]
           d == cap'[j]
<1>1. /\ lease'[j] = lease[j] /\ load' = load /\ partial \subseteq partial'
      /\ d.droppedEvents # c.droppedEvents => <<j, r>> \in partial'
      /\ \A n \in Range(c.entries) \ Range(d.entries) : <<j, c.records[n].request>> \in partial'
  BY EventHeard
<1>2. LogFits(j) /\ \A q \in Requests : Pairs(j, q)
  BY DEF LogsInv
<1>3. Moves(r, sent, sent') /\ SentInv
  BY EventSends DEF LogsInv
<1>4. Ready(c, sent) /\ Logs(c, d, r, sent, sent')
  BY <1>2, <1>3, EventLogs DEF LogFits, Ready
<1>5. lease[j] = "held" /\ lease'[j] # "none" /\ Hears(j)'
  <2>1. lease[j] = "held" /\ c.active /\ c.tab = FirstTab
    BY DEF Hears
  <2>2. SameHead(c, d)
    BY <1>4 DEF Logs
  <2> QED
    BY <1>1, <2>1, <2>2 DEF Hears, SameHead
<1>6. Ready(d, sent') /\ Shape(c)
  BY <1>4 DEF Logs, Ready
<1> HIDE DEF c
<1>7. LogFits(j)'
  <2>1. Shape(cap[j])' /\ Limits(cap[j])'
    BY <1>1, <1>6 DEF Ready
  <2>2. Fits(cap[j], sent)' /\ Follows(cap[j], sent)'
    BY <1>1, <1>6 DEF Ready, Fits, Follows, RecordFits, Reached, Hops
  <2> QED
    BY <1>5, <2>1, <2>2 DEF LogFits
<1>8. ASSUME NEW q \in Requests PROVE Pairs(j, q)'
  <2> SUFFICES ASSUME <<j, q>> \notin partial', Regular(q)'
               PROVE  Full(cap[j], q, sent)' /\ Extras(cap[j], q)'
    BY <1>5 DEF Pairs
  <2>1. <<j, q>> \notin partial /\ Regular(q)
    BY <1>1 DEF Regular, Hops
  <2>2. Full(c, q, sent)
    BY <1>2, <2>1 DEF Pairs, c
  <2>3. c.recordsByRequest[q] \subseteq Held(d)
    <3> SUFFICES ASSUME NEW n \in c.recordsByRequest[q], n \notin Held(d) PROVE FALSE
      OBVIOUS
    <3>1. n \in Held(c) /\ c.records[n].request = q
      BY <1>6, IndexedIn
    <3>2. Range(c.entries) = Held(c) /\ Range(d.entries) = Held(d)
      BY <1>6, HeldIs DEF Ready, Shape
    <3> HIDE DEF d
    <3> QED
      BY <1>1, <3>1, <3>2
  <2>4. q = r => d.droppedEvents = c.droppedEvents
    BY <1>1
  <2>5. Full(d, q, sent')
    BY <1>4, <2>1, <2>2, <2>3, <2>4 DEF Logs
  <2>6. Full(cap[j], q, sent)'
    BY <1>1, <2>5 DEF Full, Paired, Given, Awaiting, Reached, Hops
  <2>7. Extras(d, q)
    <3> SUFFICES ASSUME NEW n \in 1..Len(d.records), d.records[n].request = q, NEW k \in Kinds
                 PROVE  d.records[n].extra[k] \in {None, d.records[n].hop}
      BY DEF Extras
    <3> HIDE DEF d
    <3> QED
      BY <2>5 DEF Full, Paired, Given
  <2> QED
    BY <2>6, <2>7 DEF Extras
<1> QED
  BY <1>4, <1>7, <1>8 DEF Logs, c

-----------------------------------------------------------------------------
(* The other steps leave the log as it is, or forget what it holds.        *)

SameLog(c, d) ==
    /\ IsCapture(d) /\ d.records = c.records /\ d.entries = c.entries /\ d.byEntryId = c.byEntryId
    /\ d.currentByRequest = c.currentByRequest /\ d.recordsByRequest = c.recordsByRequest
    /\ d.pendingExtra = c.pendingExtra /\ d.pendingExtraEvents = c.pendingExtraEvents
    /\ d.bufferedBytes = c.bufferedBytes /\ d.droppedEvents = c.droppedEvents

\* A log that neither events nor bodies can find anything in.
NoIndexes(d) ==
    /\ d.byEntryId = {} /\ d.currentByRequest = [r \in Requests |-> None]
    /\ d.recordsByRequest = NoRecords /\ d.pendingExtra = [k \in Kinds |-> Nothing]
    /\ d.pendingExtraEvents = 0
Disabled(c, d) ==
    /\ IsCapture(d) /\ NoIndexes(d) /\ d.records = c.records /\ d.entries = c.entries
    /\ d.bufferedBytes = c.bufferedBytes /\ d.droppedEvents = c.droppedEvents
Cleared(c, d) ==
    /\ IsCapture(d) /\ NoIndexes(d) /\ d.records = c.records /\ d.entries = <<>>
    /\ d.bufferedBytes = 0 /\ d.droppedEvents = 0

\* What a step that is not an event of Chrome does to a capture: nothing but to its head; it is
\* created; it no longer hears; or it is cleared, and no longer has the requests there were.
Kept(i) == SameLog(cap[i], cap'[i]) /\ (Hears(i)' => Hears(i) \/ lease[i] = "none")
New(i) == IsCapture(cap'[i]) /\ Fresh(cap'[i]) /\ lease[i] = "none"
Deaf(i) == Disabled(cap[i], cap'[i]) /\ ~Hears(i)'
Forgets(i) ==
    /\ Cleared(cap[i], cap'[i]) /\ (Hears(i)' => Hears(i))
    /\ \A r \in Requests : sent[r] # Unsent => <<i, r>> \in partial'
Quiet(i) ==
    /\ lease'[i] = "none" => lease[i] = "none"
    /\ \/ Kept(i)
       \/ New(i) /\ lease'[i] = "none"
       \/ Deaf(i) \/ Forgets(i)

\* A log without indexes has its shape.
LEMMA NoIndexesShape ==
    ASSUME NEW d, IsCapture(d), NoIndexes(d), Records(d), Entries(d), d.droppedEvents \in Nat,
           d.bufferedBytes = Sum(d, Held(d))
    PROVE  Shape(d) /\ \A s : Follows(d, s)
<1>1. Indexes(d)
  BY DEF NoIndexes, Indexes, NoRecords, None
<1>2. Pending(d)
  <2> DEFINE S == Kinds \X Requests
  <2>1. IsFiniteSet(S) /\ \A kr \in S : kr[1] \in Kinds /\ kr[2] \in Requests
    BY QueuesFinite
  <2>2. \A k \in Kinds : d.pendingExtra[k] = [r \in Requests |-> <<>>]
    BY DEF NoIndexes, Nothing
  <2>3. \A k \in Kinds, r \in Requests : d.pendingExtra[k][r] = <<>>
    BY <2>2
  <2>4. d.pendingExtra = [k \in Kinds |-> d.pendingExtra[k]]
    BY DEF NoIndexes
  <2>5. \A kr \in S : Queues(d)[kr] = 0
    BY <2>1, <2>3, Len(<<>>) = 0 DEF Queues
  <2>6. SumFunctionOnSet(Queues(d), S) = 0
    BY <2>1, <2>5, SumZero
  <2>7. <<>> \in Seq(Nat)
    OBVIOUS
  <2> QED
    BY <2>2, <2>3, <2>4, <2>6, <2>7 DEF Pending, NoIndexes
<1>3. \A s : Follows(d, s)
  BY DEF NoIndexes, Follows, None
<1> QED
  BY <1>1, <1>2, <1>3 DEF Shape

\* A log without entries has no bytes.
LEMMA EmptyLog ==
    ASSUME NEW d, Records(d), d.entries = <<>>
    PROVE  Entries(d) /\ Held(d) = {} /\ Sum(d, Held(d)) = 0 /\ Len(d.entries) = 0
<1>1. Len(d.records) \in Nat /\ Len(d.entries) = 0 /\ d.entries \in Seq(Nat)
  BY SeqLen DEF Records
<1>2. Held(d) = {}
  BY <1>1 DEF Held, First
<1>3. Entries(d)
  BY <1>1 DEF Entries
<1> QED
  BY <1>1, <1>2, <1>3, SumEmpty DEF Sum

\* A fresh log is consistent.
LEMMA FreshFits ==
    ASSUME NEW d, IsCapture(d), Fresh(d)
    PROVE  Shape(d) /\ Limits(d) /\ \A s : Fits(d, s) /\ Follows(d, s)
<1>1. Records(d)
  BY LenProperties DEF Fresh, Records, IsSeq, Range
<1>2. NoIndexes(d) /\ d.entries = <<>> /\ d.bufferedBytes = 0 /\ d.droppedEvents = 0
  BY DEF Fresh, NoIndexes
<1>3. Entries(d) /\ Sum(d, Held(d)) = 0 /\ Len(d.entries) = 0
  BY <1>1, <1>2, EmptyLog
<1>4. Shape(d) /\ \A s : Follows(d, s)
  BY <1>1, <1>2, <1>3, NoIndexesShape
<1>5. Limits(d)
  BY <1>2, <1>3, NetworkAssumption DEF Limits
<1>6. \A s : Fits(d, s)
  BY DEF Fresh, Fits
<1> QED
  BY <1>4, <1>5, <1>6

\* So is one that was made deaf,
LEMMA DisabledFits ==
    ASSUME NEW c, NEW d, Shape(c), Limits(c), Disabled(c, d)
    PROVE  Shape(d) /\ Limits(d) /\ \A s : Follows(d, s)
<1>1. Records(d) /\ Entries(d) /\ Held(d) = Held(c) /\ Limits(d)
  BY DEF Shape, Limits, Disabled, Records, Entries, Held, First
<1>2. Sum(d, Held(d)) = Sum(c, Held(c))
  BY <1>1 DEF Disabled, Sum
<1> QED
  BY <1>1, <1>2, NoIndexesShape DEF Shape, Pending, Disabled

\* and one that was cleared.
LEMMA ClearedFits ==
    ASSUME NEW c, NEW d, Shape(c), Cleared(c, d)
    PROVE  Shape(d) /\ Limits(d) /\ \A s : Follows(d, s)
<1>1. Records(d)
  BY DEF Shape, Cleared, Records
<1>2. Entries(d) /\ Sum(d, Held(d)) = 0 /\ Len(d.entries) = 0
  BY <1>1, EmptyLog DEF Cleared
<1>3. Shape(d) /\ \A s : Follows(d, s)
  BY <1>1, <1>2, NoIndexesShape DEF Cleared
<1>4. Limits(d)
  BY <1>2, NetworkAssumption DEF Limits, Cleared
<1> QED
  BY <1>3, <1>4

\* A log that has nothing of a request has everything of it, as long as Chrome sends nothing.
LEMMA NothingSent ==
    ASSUME load \in Workloads, NEW d, NEW q \in Requests, NEW s, s[q] = Unsent,
           \A n \in 1..Len(d.records) : d.records[n].request # q,
           d.recordsByRequest[q] = {}, \A k \in Kinds : d.pendingExtra[k][q] = <<>>
    PROVE  Full(d, q, s)
<1>1. Reached(q, s) = 0 /\ s[q].extra = {}
  BY HopsNat DEF Reached, Unsent
<1>2. Paired(d, q, 0, {})
  BY DEF Paired
<1>3. Awaiting(d, q, 0 + 1, {})
  BY DEF Awaiting
<1> QED
  BY <1>1, <1>2, <1>3 DEF Full

\* The same log has the same properties.
LEMMA SameLogFits ==
    ASSUME NEW c, NEW d, Shape(c), Limits(c), SameLog(c, d)
    PROVE  /\ Shape(d) /\ Limits(d)
           /\ \A s : (Fits(c, s) => Fits(d, s)) /\ (Follows(c, s) => Follows(d, s))
           /\ \A q \in Requests : \A s : Full(c, q, s) => Full(d, q, s)
<1>1. Records(d) /\ Entries(d) /\ Indexes(d) /\ Limits(d) /\ Held(d) = Held(c)
  <2>1. Records(d) /\ Limits(d)
    BY DEF Shape, SameLog, Records, Limits
  <2>2. Entries(d) /\ Held(d) = Held(c)
    BY DEF Shape, SameLog, Entries, Held, First
  <2>3. Indexes(d)
    BY <2>2 DEF Shape, SameLog, Indexes
  <2> QED
    BY <2>1, <2>2, <2>3
<1>2. Pending(d)
  BY DEF Shape, SameLog, Pending, Queues
<1>3. Sum(d, Held(d)) = Sum(c, Held(c))
  BY <1>1 DEF SameLog, Sum
<1>4. \A s : (Fits(c, s) => Fits(d, s)) /\ (Follows(c, s) => Follows(d, s))
  BY DEF SameLog, Fits, Follows
<1>5. \A q \in Requests : \A s : Full(c, q, s) => Full(d, q, s)
  BY DEF SameLog, Full, Paired, Awaiting
<1> QED
  BY <1>1, <1>2, <1>3, <1>4, <1>5 DEF Shape, SameLog

\* A quiet step keeps the log of a capture consistent.
LEMMA QuietFits ==
    ASSUME LogsInv, UNCHANGED <<load, sent>>, NEW j \in Jobs, Quiet(j)
    PROVE  LogFits(j)'
<1> DEFINE c == cap[j]
           d == cap'[j]
<1>1. /\ Shape(c) /\ Limits(c) /\ Fits(c, sent) /\ (Hears(j) => Follows(c, sent))
      /\ (lease[j] = "none" => Fresh(c))
  BY DEF LogsInv, LogFits
<1>2. lease'[j] = "none" => lease[j] = "none"
  BY DEF Quiet
<1> SUFFICES /\ Shape(d) /\ Limits(d) /\ Fits(d, sent) /\ (Hears(j)' => Follows(d, sent))
             /\ (lease'[j] = "none" => Fresh(d))
  BY DEF LogFits, Fits, Follows, RecordFits, Reached, Hops
<1>3. CASE Kept(j)
  <2>1. SameLog(c, d) /\ (Hears(j)' => Hears(j) \/ lease[j] = "none")
    BY <1>3 DEF Kept
  <2>2. /\ Shape(d) /\ Limits(d)
        /\ \A s : (Fits(c, s) => Fits(d, s)) /\ (Follows(c, s) => Follows(d, s))
    BY <1>1, <2>1, SameLogFits
  <2>3. Fresh(c) => Fresh(d)
    BY <2>1 DEF SameLog, Fresh
  <2>4. IsCapture(d)
    BY <2>1 DEF SameLog
  <2>5. Fresh(d) => Follows(d, sent)
    BY <2>4, FreshFits
  <2> HIDE DEF c, d
  <2> QED
    BY <1>1, <1>2, <2>1, <2>2, <2>3, <2>5
<1>4. CASE New(j)
  BY <1>4, FreshFits DEF New
<1>5. CASE Deaf(j)
  <2>1. Disabled(c, d) /\ ~Hears(j)'
    BY <1>5 DEF Deaf
  <2>2. Shape(d) /\ Limits(d)
    BY <1>1, <2>1, DisabledFits
  <2>3. Fits(d, sent)
    BY <1>1, <2>1 DEF Disabled, Fits
  <2>4. Fresh(c) => Fresh(d)
    BY <2>1 DEF Disabled, NoIndexes, Fresh
  <2> QED
    BY <1>1, <1>2, <2>1, <2>2, <2>3, <2>4
<1>6. CASE Forgets(j)
  <2>1. Cleared(c, d)
    BY <1>6 DEF Forgets
  <2>2. Shape(d) /\ Limits(d) /\ Follows(d, sent)
    BY <1>1, <2>1, ClearedFits
  <2>3. Fits(d, sent)
    BY <1>1, <2>1 DEF Cleared, Fits
  <2>4. Fresh(c) => Fresh(d)
    BY <2>1 DEF Cleared, NoIndexes, Fresh
  <2> QED
    BY <1>1, <1>2, <2>2, <2>3, <2>4
<1> QED
  BY <1>3, <1>4, <1>5, <1>6 DEF Quiet

\* It keeps the extra headers paired.
LEMMA QuietPairs ==
    ASSUME LogsInv, UNCHANGED <<load, sent>>, partial \subseteq partial', NEW j \in Jobs, Quiet(j),
           NEW q \in Requests
    PROVE  Pairs(j, q)'
<1> DEFINE c == cap[j]
           d == cap'[j]
<1>1. /\ Shape(c) /\ Limits(c) /\ (lease[j] = "none" => Fresh(c))
      /\ load \in Workloads /\ Pairs(j, q)
  BY DEF LogsInv, LogFits, SentInv
<1>2. lease'[j] = "none" => lease[j] = "none"
  BY DEF Quiet
<1> SUFFICES ASSUME <<j, q>> \notin partial', Regular(q)'
             PROVE  /\ lease'[j] = "none" => sent[q] = Unsent
                    /\ (Hears(j) => Full(cap[j], q, sent))'
                    /\ Extras(cap[j], q)'
  BY DEF Pairs
<1>3. <<j, q>> \notin partial /\ Regular(q)
  BY DEF Regular, Hops
<1>4. /\ lease[j] = "none" => sent[q] = Unsent
      /\ Hears(j) => Full(c, q, sent)
      /\ Extras(c, q)
  BY <1>1, <1>3 DEF Pairs
<1> SUFFICES (Hears(j)' => Full(d, q, sent)) /\ Extras(d, q)
  <2>1. Full(d, q, sent) => Full(cap[j], q, sent)'
    BY DEF Full, Paired, Given, Awaiting, Reached, Hops
  <2>2. Extras(d, q) => Extras(cap[j], q)'
    OBVIOUS
  <2> QED
    BY <1>2, <1>4, <2>1, <2>2
<1>5. Fresh(d) /\ sent[q] = Unsent => Full(d, q, sent)
  <2> SUFFICES ASSUME Fresh(d), sent[q] = Unsent PROVE Full(d, q, sent)
    OBVIOUS
  <2>1. d.records = <<>> /\ d.recordsByRequest[q] = {} /\ \A k \in Kinds : d.pendingExtra[k][q] = <<>>
    BY DEF Fresh, NoRecords, Nothing
  <2>2. \A n \in 1..Len(d.records) : d.records[n].request # q
    BY <2>1
  <2> HIDE DEF d
  <2> QED
    BY <1>1, <2>1, <2>2, NothingSent
<1>6. CASE Kept(j)
  <2>1. SameLog(c, d) /\ (Hears(j)' => Hears(j) \/ lease[j] = "none")
    BY <1>6 DEF Kept
  <2>2. Full(c, q, sent) => Full(d, q, sent)
    BY <1>1, <2>1, SameLogFits
  <2>3. Fresh(c) => Fresh(d)
    BY <2>1 DEF SameLog, Fresh
  <2>4. Extras(c, q) => Extras(d, q)
    BY <2>1 DEF SameLog, Extras
  <2> HIDE DEF c, d
  <2> QED
    BY <1>1, <1>4, <1>5, <2>1, <2>2, <2>3, <2>4
<1>7. CASE New(j) /\ lease'[j] = "none"
  <2>1. ~Hears(j)'
    BY <1>7 DEF Hears
  <2>2. Extras(d, q)
    BY <1>7 DEF New, Fresh, Extras
  <2> QED
    BY <2>1, <2>2
<1>8. CASE Deaf(j)
  <2>1. Disabled(c, d) /\ ~Hears(j)'
    BY <1>8 DEF Deaf
  <2>2. Extras(d, q)
    BY <1>4, <2>1 DEF Disabled, Extras
  <2> QED
    BY <2>1, <2>2
<1>9. CASE Forgets(j)
  <2>1. Cleared(c, d) /\ (Hears(j)' => Hears(j)) /\ sent[q] = Unsent
    BY <1>9 DEF Forgets
  <2>2. Extras(d, q)
    BY <1>4, <2>1 DEF Cleared, Extras
  <2>3. ASSUME Hears(j) PROVE Full(d, q, sent)
    <3>1. Full(c, q, sent)
      BY <1>4, <2>3
    <3>2. \A n \in 1..Len(c.records) : c.records[n].hop \in Nat \ {0}
      BY <1>1 DEF Shape, Records, IsRecord
    <3>3. Reached(q, sent) = 0
      BY <1>1, <2>1, HopsNat DEF Reached, Unsent
    <3>4. \A n \in 1..Len(c.records) : c.records[n].request # q
      <4> SUFFICES ASSUME NEW n \in 1..Len(c.records), c.records[n].request = q PROVE FALSE
        OBVIOUS
      <4> HIDE DEF c
      <4>1. c.records[n].hop <= Reached(q, sent)
        BY <3>1 DEF Full, Paired
      <4> QED
        BY <3>2, <3>3, <4>1
    <3>5. /\ d.records = c.records /\ d.recordsByRequest[q] = {}
          /\ \A k \in Kinds : d.pendingExtra[k][q] = <<>>
      BY <2>1 DEF Cleared, NoIndexes, NoRecords, Nothing
    <3> HIDE DEF c, d
    <3> QED
      BY <1>1, <2>1, <3>4, <3>5, NothingSent
  <2> QED
    BY <2>1, <2>2, <2>3
<1> QED
  BY <1>6, <1>7, <1>8, <1>9 DEF Quiet

\* What a quiet step leaves of the captures that have, or had, a lease.
Retains(i) == lease[i] # "none" => lease'[i] # "none" /\ cap'[i].records = cap[i].records

\* One argument for all the steps but Chrome's events.
LEMMA QuietKeeps ==
    ASSUME LogsInv, UNCHANGED <<load, sent>>, partial \subseteq partial', \A i \in Jobs : Quiet(i)
    PROVE  LogsInv' /\ \A i \in Jobs : Retains(i)
<1>1. SentInv'
  BY DEF LogsInv, SentInv, SentFits, IsSent, ExtraEvents, Hops
<1>2. \A j \in Jobs : LogFits(j)'
  BY QuietFits
<1>3. \A j \in Jobs, q \in Requests : Pairs(j, q)'
  BY QuietPairs
<1>4. \A i \in Jobs : Retains(i)
  BY DEF Quiet, Retains, Kept, New, Deaf, Forgets, SameLog, Disabled, Cleared
<1> QED
  BY <1>1, <1>2, <1>3, <1>4 DEF LogsInv

-----------------------------------------------------------------------------
(* The steps that are not events of Chrome are quiet.                      *)

\* What the operations on captures do to their logs.
LEMMA OperationsForget ==
    ASSUME NEW c, IsCapture(c)
    PROVE  /\ SameLog(c, c)
           /\ SameLog(c, Releasing(c)) /\ Releasing(c).active = FALSE
           /\ Disabled(c, DisableBodyAccess(c))
           /\ Disabled(c, Released(c)) /\ Released(c).active = FALSE
           /\ Cleared(c, ClearCapture(c)) /\ SameHead(c, ClearCapture(c))
<1> DEFINE d == DisableBodyAccess(c)
<1>1. SameLog(c, c)
  BY DEF SameLog
<1>2. SameLog(c, Releasing(c)) /\ Releasing(c).active = FALSE
  BY DEF SameLog, Releasing, IsCapture, CaptureFields
<1>3. Disabled(c, d) /\ d.active = c.active /\ d.tab = c.tab /\ d.document = c.document
  BY DEF Disabled, NoIndexes, DisableBodyAccess, IsCapture, CaptureFields
<1>4. Released(c) = [d EXCEPT !.active = FALSE, !.lease = FALSE, !.expiresAt = now + RETAINED_TTL]
  BY DEF Released
<1>5. ClearCapture(c) = [d EXCEPT !.entries = <<>>, !.bufferedBytes = 0, !.evicted = 0,
                                  !.droppedEvents = 0]
  BY DEF ClearCapture
<1> HIDE DEF d
<1>6. Disabled(c, Released(c)) /\ Released(c).active = FALSE
  BY <1>3, <1>4 DEF Disabled, NoIndexes, IsCapture, CaptureFields
<1>7. Cleared(c, ClearCapture(c))
  BY <1>3, <1>5 DEF Disabled, Cleared, NoIndexes, IsCapture, CaptureFields
<1>8. SameHead(c, ClearCapture(c))
  BY <1>3, <1>5, ReleasedEnds DEF d, SameHead, IsCapture, CaptureFields
<1> QED
  BY <1>1, <1>2, <1>3, <1>6, <1>7, <1>8 DEF d

\* A capture whose log and lease a step leaves alone.
LEMMA AloneQuiet ==
    ASSUME NEW i \in Jobs, IsCapture(cap[i]), cap'[i] = cap[i], lease'[i] = lease[i]
    PROVE  Quiet(i)
BY DEF Quiet, Kept, SameLog, Hears

\* releaseCapture, before its await or after it.
LEMMA ReleasingQuiet ==
    ASSUME NEW i \in Jobs, IsCapture(cap[i]), lease'[i] = "none" => lease[i] = "none",
           cap'[i] \in {Releasing(cap[i]), Released(cap[i])}
    PROVE  Quiet(i)
<1>1. ~Hears(i)'
  BY OperationsForget DEF Hears
<1>2. SameLog(cap[i], cap'[i]) \/ Disabled(cap[i], cap'[i])
  BY OperationsForget
<1> QED
  BY <1>1, <1>2 DEF Quiet, Kept, Deaf

\* The captures that releaseCapture does not concern.
LEMMA ReleaseQuiet ==
    ASSUME CaptureInv, NEW c \in Jobs, ReleaseCapture(c)
    PROVE  \A i \in Jobs : Quiet(i)
<1> SUFFICES ASSUME NEW i \in Jobs PROVE Quiet(i)
  OBVIOUS
<1>1. /\ cap = [k \in Jobs |-> cap[k]] /\ lease \in [Jobs -> LeaseStates] /\ IsCapture(cap[i])
  BY DEF CaptureInv, CaptureTypes, JobTypes
<1>2. \/ cap' = [cap EXCEPT ![c] = Releasing(cap[c])] /\ lease' = [lease EXCEPT ![c] = "releasing"]
      \/ cap' = [cap EXCEPT ![c] = Released(cap[c])] /\ lease' = lease
  BY DEF ReleaseCapture
<1>3. CASE i = c
  <2>1. cap'[i] \in {Releasing(cap[i]), Released(cap[i])}
    BY <1>1, <1>2, <1>3
  <2>2. lease'[i] = "none" => lease[i] = "none"
    BY <1>1, <1>2, <1>3
  <2> QED
    BY <1>1, <2>1, <2>2, ReleasingQuiet
<1>4. CASE i # c
  <2>1. cap'[i] = cap[i] /\ lease'[i] = lease[i]
    BY <1>1, <1>2, <1>4
  <2> QED
    BY <1>1, <2>1, AloneQuiet
<1> QED
  BY <1>3, <1>4

\* The catch of start.
LEMMA CatchQuiet ==
    ASSUME CaptureInv, NEW j \in Jobs, NEW holds \in BOOLEAN, Catch(j, holds)
    PROVE  \A i \in Jobs : Quiet(i)
<1> SUFFICES ASSUME NEW i \in Jobs PROVE Quiet(i)
  OBVIOUS
<1>1. /\ cap = [k \in Jobs |-> cap[k]] /\ lease \in [Jobs -> LeaseStates] /\ IsCapture(cap[i])
  BY DEF CaptureInv, CaptureTypes, JobTypes
<1>2. /\ cap' = [cap EXCEPT ![j].active = FALSE, ![j].lease = FALSE]
      /\ lease' = (IF holds THEN [lease EXCEPT ![j] = "releasing"] ELSE lease)
  BY DEF Catch
<1>3. CASE i = j
  <2>1. SameLog(cap[i], cap'[i]) /\ cap'[i].active = FALSE
    BY <1>1, <1>2, <1>3 DEF SameLog, IsCapture, CaptureFields
  <2>2. lease'[i] = "none" => lease[i] = "none"
    BY <1>1, <1>2, <1>3
  <2> QED
    BY <2>1, <2>2 DEF Quiet, Kept, Hears
<1>4. CASE i # j
  <2>1. cap'[i] = cap[i] /\ lease'[i] = lease[i]
    BY <1>1, <1>2, <1>4
  <2> QED
    BY <1>1, <2>1, AloneQuiet
<1> QED
  BY <1>3, <1>4

\* The lease arrives, at a capture that had none.
LEMMA AcquiredQuiet ==
    ASSUME CaptureInv, CommandsInv, NEW j \in Jobs, Acquired(j)
    PROVE  \A i \in Jobs : Quiet(i)
<1>1. CASE Catch(j, TRUE) \/ Catch(j, FALSE)
  BY <1>1, CatchQuiet
<1>2. CASE cap' = [cap EXCEPT ![j].lease = TRUE] /\ lease' = [lease EXCEPT ![j] = "held"]
  <2> SUFFICES ASSUME NEW i \in Jobs PROVE Quiet(i)
    OBVIOUS
  <2>1. /\ cap = [k \in Jobs |-> cap[k]] /\ lease \in [Jobs -> LeaseStates] /\ IsCapture(cap[i])
    BY DEF CaptureInv, CaptureTypes, JobTypes
  <2>2. CASE i = j
    <3>1. SameLog(cap[i], cap'[i]) /\ lease'[i] = "held"
      BY <1>2, <2>1, <2>2 DEF SameLog, IsCapture, CaptureFields
    <3>2. lease[i] = "none"
      BY <2>2 DEF CommandsInv, ModeFits, Acquired, Early
    <3> QED
      BY <3>1, <3>2 DEF Quiet, Kept
  <2>3. CASE i # j
    <3>1. cap'[i] = cap[i] /\ lease'[i] = lease[i]
      BY <1>2, <2>1, <2>3
    <3> QED
      BY <2>1, <3>1, AloneQuiet
  <2> QED
    BY <2>2, <2>3
<1> QED
  BY <1>1, <1>2 DEF Acquired

\* A capture in the map, in the place of another or of an evicted one.
LEMMA InstalledQuiet ==
    ASSUME CaptureInv, CommandsInv, NEW j \in Jobs, job[j].mode = "prepare",
           NEW evicted \in SUBSET Jobs, \A i \in evicted : ~cap[i].active, Installed(j, evicted)
    PROVE  \A i \in Jobs : Quiet(i)
<1> DEFINE tab == job[j].tab
           previous == captures[tab]
<1> SUFFICES ASSUME NEW i \in Jobs PROVE Quiet(i)
  OBVIOUS
<1>1. /\ cap'[i] = (IF i = j THEN CreateCapture(tab, doc[tab])
                    ELSE IF i = previous THEN IF Awaits(i) THEN Releasing(cap[i]) ELSE Released(cap[i])
                    ELSE IF i \in evicted THEN DisableBodyAccess(cap[i])
                    ELSE cap[i])
      /\ lease'[i] = (IF i = previous /\ Awaits(i) THEN "releasing" ELSE lease[i])
  BY DEF Installed
<1>2. /\ IsCapture(cap[i]) /\ None \notin Jobs /\ tab \in Tabs
      /\ \A t \in Tabs : captures[t] # None => Starts(captures[t])
  BY NetworkAssumption DEF CaptureInv, JobTypes, TabFits, None
<1>3. previous # j
  BY <1>2 DEF Starts, Running, Early, Leased
<1> HIDE DEF tab, previous
<1>4. CASE i = j
  <2>1. cap'[i] = CreateCapture(tab, doc[tab]) /\ lease'[i] = lease[i]
    BY <1>1, <1>3, <1>4
  <2>2. Fresh(CreateCapture(tab, doc[tab])) /\ IsCapture(CreateCapture(tab, doc[tab]))
    BY DEF CreateCapture, Fresh, IsCapture, CaptureFields
  <2>3. lease[i] = "none"
    BY <1>4 DEF CommandsInv, ModeFits
  <2> QED
    BY <2>1, <2>2, <2>3 DEF Quiet, New
<1>5. CASE i # j /\ i = previous
  <2>1. /\ cap'[i] \in {Releasing(cap[i]), Released(cap[i])}
        /\ lease'[i] = "none" => lease[i] = "none"
    BY <1>1, <1>5
  <2> QED
    BY <1>2, <2>1, ReleasingQuiet
<1>6. CASE i # j /\ i # previous /\ i \in evicted
  <2>1. cap'[i] = DisableBodyAccess(cap[i]) /\ lease'[i] = lease[i]
    BY <1>1, <1>6
  <2>2. Disabled(cap[i], cap'[i])
    BY <1>2, <2>1, OperationsForget
  <2>3. cap'[i].active = cap[i].active
    BY <1>2, <2>1, ReleasedEnds DEF SameHead
  <2> QED
    BY <1>6, <2>1, <2>2, <2>3 DEF Quiet, Deaf, Hears
<1>7. CASE i # j /\ i # previous /\ i \notin evicted
  <2>1. cap'[i] = cap[i] /\ lease'[i] = lease[i]
    BY <1>1, <1>7
  <2> QED
    BY <1>2, <2>1, AloneQuiet
<1> QED
  BY <1>4, <1>5, <1>6, <1>7

\* A navigation releases the capture of its tab, if it has one.
LEMMA NavigateQuiet ==
    ASSUME CaptureInv, NEW t \in Tabs, Navigate(t)
    PROVE  \A i \in Jobs : Quiet(i)
<1>1. CASE captures[t] = None
  <2>1. cap' = cap /\ lease' = lease /\ \A i \in Jobs : IsCapture(cap[i])
    BY <1>1 DEF Navigate, CaptureInv, JobTypes
  <2> QED
    BY <2>1, AloneQuiet
<1>2. CASE captures[t] # None
  <2>1. captures[t] \in Jobs /\ ReleaseCapture(captures[t])
    BY <1>2 DEF Navigate, CaptureInv, CaptureTypes
  <2> QED
    BY <2>1, ReleaseQuiet
<1> QED
  BY <1>1, <1>2

\* The lease of capture j has gone, by itself or because it was released.
LEMMA GoneQuiet ==
    ASSUME CaptureInv, NEW j \in Jobs, Detach(j) \/ ReleaseEnds(j)
    PROVE  \A i \in Jobs : Quiet(i)
<1> SUFFICES ASSUME NEW i \in Jobs PROVE Quiet(i)
  OBVIOUS
<1>1. /\ cap = [k \in Jobs |-> cap[k]] /\ lease \in [Jobs -> LeaseStates] /\ IsCapture(cap[i])
  BY DEF CaptureInv, CaptureTypes, JobTypes
<1>2. /\ lease' = [lease EXCEPT ![j] = "gone"]
      /\ cap' = cap \/ cap' = [cap EXCEPT ![j] = Released(cap[j])]
  BY DEF Detach, ReleaseEnds
<1>3. CASE i = j
  <2>1. lease'[i] = "gone" /\ (cap'[i] = cap[i] \/ cap'[i] = Released(cap[i]))
    BY <1>1, <1>2, <1>3
  <2>2. ~Hears(i)'
    BY <2>1 DEF Hears
  <2>3. SameLog(cap[i], cap'[i]) \/ Disabled(cap[i], cap'[i])
    BY <1>1, <2>1, OperationsForget
  <2> QED
    BY <2>1, <2>2, <2>3 DEF Quiet, Kept, Deaf
<1>4. CASE i # j
  <2>1. cap'[i] = cap[i] /\ lease'[i] = lease[i]
    BY <1>1, <1>2, <1>4
  <2> QED
    BY <1>1, <2>1, AloneQuiet
<1> QED
  BY <1>3, <1>4

\* clear forgets the requests there have been.
LEMMA ClearQuiet ==
    ASSUME CaptureInv, NEW j \in Jobs, Clear(j)
    PROVE  (\A i \in Jobs : Quiet(i)) /\ partial \subseteq partial'
<1> DEFINE c == captures[job[j].tab]
<1>0. c \in Jobs /\ cap = [k \in Jobs |-> cap[k]]
  BY DEF Clear, Finds, CaptureInv, CaptureTypes, JobTypes
<1>1. /\ cap' = [cap EXCEPT ![c] = ClearCapture(cap[c])] /\ lease' = lease
      /\ partial' = partial \cup {<<c, r>> : r \in {s \in Requests : sent[s] # Unsent}}
  BY DEF Clear
<1> HIDE DEF c
<1> SUFFICES ASSUME NEW i \in Jobs PROVE Quiet(i)
  BY <1>1
<1>2. IsCapture(cap[i])
  BY DEF CaptureInv, JobTypes
<1>3. CASE i = c
  <2>1. cap'[i] = ClearCapture(cap[i])
    BY <1>0, <1>1, <1>3
  <2>2. Cleared(cap[i], cap'[i])
    BY <1>2, <2>1, OperationsForget
  <2>3. Hears(i)' => Hears(i)
    <3>1. SameHead(cap[i], ClearCapture(cap[i]))
      BY <1>2, OperationsForget
    <3> QED
      BY <1>1, <2>1, <3>1 DEF SameHead, Hears
  <2>4. \A r \in Requests : sent[r] # Unsent => <<i, r>> \in partial'
    BY <1>1, <1>3
  <2> QED
    BY <1>1, <2>2, <2>3, <2>4 DEF Quiet, Forgets
<1>4. CASE i # c
  <2>1. cap'[i] = cap[i] /\ lease'[i] = lease[i]
    BY <1>0, <1>1, <1>4
  <2> QED
    BY <1>2, <2>1, AloneQuiet
<1> QED
  BY <1>3, <1>4

\* The steps of the commands.
LEMMA StepQuiet ==
    ASSUME CaptureInv, CommandsInv, NEW j \in Jobs, Step(j)
    PROVE  /\ \A i \in Jobs : Quiet(i)
           /\ partial \subseteq partial' /\ UNCHANGED <<load, sent>>
<1> USE DEF world
<1>1. CASE Clear(j)
  BY <1>1, ClearQuiet DEF Clear
<1>2. ASSUME UNCHANGED <<cap, lease, world, partial>>
      PROVE  /\ \A i \in Jobs : Quiet(i)
             /\ partial \subseteq partial' /\ UNCHANGED <<load, sent>>
  <2>1. \A i \in Jobs : IsCapture(cap[i])
    BY DEF CaptureInv, JobTypes
  <2> QED
    BY <1>2, <2>1, AloneQuiet
<1>3. CASE StartCapture(j)
  <2>1. job[j].mode = "prepare" /\ partial' = partial /\ UNCHANGED <<load, sent>>
    BY <1>3 DEF StartCapture
  <2>2. CASE Installed(j, {})
    BY <2>1, <2>2, InstalledQuiet
  <2>3. CASE \E i \in Evictable(job[j].tab) : Installed(j, {i})
    <3>1. PICK i \in Evictable(job[j].tab) : Installed(j, {i})
      BY <2>3
    <3>2. {i} \in SUBSET Jobs /\ \A k \in {i} : ~cap[k].active
      BY DEF Evictable, Retained
    <3> QED
      BY <2>1, <3>1, <3>2, InstalledQuiet
  <2>4. CASE UNCHANGED <<captures, cap, lease>>
    <3>1. \A i \in Jobs : IsCapture(cap[i])
      BY DEF CaptureInv, JobTypes
    <3> QED
      BY <2>1, <2>4, <3>1, AloneQuiet
  <2> QED
    BY <1>3, <2>2, <2>3, <2>4 DEF StartCapture
<1>4. CASE PreviousReleased(j) \/ Enabled(j) \/ Started(j) \/ Acquired(j)
  <2>1. partial' = partial /\ UNCHANGED <<load, sent>>
    BY <1>4 DEF PreviousReleased, Enabled, Started, Acquired
  <2>2. \/ UNCHANGED <<cap, lease>> \/ \E holds \in BOOLEAN : Catch(j, holds)
        \/ Acquired(j)
    BY <1>4 DEF PreviousReleased, Enabled, Started, CaptureInv, JobTypes
  <2>3. \A i \in Jobs : IsCapture(cap[i])
    BY DEF CaptureInv, JobTypes
  <2> QED
    BY <2>1, <2>2, <2>3, AloneQuiet, CatchQuiet, AcquiredQuiet
<1>5. CASE Stop(j)
  <2>1. captures[job[j].tab] \in Jobs /\ ReleaseCapture(captures[job[j].tab])
    BY <1>5 DEF Stop, Finds, CaptureInv, CaptureTypes, JobTypes
  <2> QED
    BY <1>5, <2>1, ReleaseQuiet DEF Stop
<1>6. CASE ReleaseEnds(j)
  BY <1>6, GoneQuiet DEF ReleaseEnds
<1>7. Begin(j) \/ Refused(j) \/ Missing(j) \/ Stopped(j) => UNCHANGED <<cap, lease, world, partial>>
  BY DEF Begin, Refused, Missing, Stopped
<1>8. Read(j) \/ ExportHAR(j) \/ GetBody(j) => UNCHANGED <<cap, lease, world, partial>>
  <2>1. Read(j) => UNCHANGED <<cap, lease, world, partial>>
    BY DEF Read
  <2>2. ExportHAR(j) => UNCHANGED <<cap, lease, world, partial>>
    BY DEF ExportHAR
  <2>3. GetBody(j) => UNCHANGED <<cap, lease, world, partial>>
    <3> HIDE DEF world
    <3> QED
      BY Zenon DEF GetBody
  <2> QED
    BY <2>1, <2>2, <2>3
<1>9. SendBodyCommand(j) \/ BodyAnswered(j) \/ Answer(j) => UNCHANGED <<cap, lease, world, partial>>
  BY DEF SendBodyCommand, BodyAnswered, Answer
<1> QED
  BY <1>1, <1>2, <1>3, <1>4, <1>5, <1>6, <1>7, <1>8, <1>9 DEF Step

-----------------------------------------------------------------------------
(* The commands on the log.                                                *)

\* The records that commands refer to stay, and what has loaded stays loaded.
Carries ==
    /\ load' = load
    /\ \A i \in Jobs : lease[i] # "none" => lease'[i] # "none" /\ Grows(cap[i], cap'[i])
    /\ \A q \in Requests : sent[q].main = Hops(q) + 2 => sent'[q].main = Hops(q) + 2

\* No capture gets a lease.
NoLease(i) == lease'[i] # "none" => lease[i] # "none"

\* Command j gets mode m, and nothing else of it changes.
OnlyMode(j, m) ==
    /\ Changes(j) /\ job'[j].mode = m
    /\ job'[j].of = job[j].of /\ job'[j].entry = job[j].entry /\ job'[j].body = job[j].body
    /\ job'[j].params = job[j].params /\ job'[j].result = job[j].result

\* Such is an assignment of its mode.
LEMMA ModeOnly ==
    ASSUME CaptureInv, NEW j \in Jobs, NEW m, job' = [job EXCEPT ![j].mode = m]
    PROVE  OnlyMode(j, m)
<1>1. job = [i \in Jobs |-> job[i]] /\ IsJob(job[j])
  BY DEF CaptureInv, CaptureTypes, JobTypes
<1> QED
  BY <1>1 DEF OnlyMode, Changes, SameJob, IsJob, JobFields

\* The record of a body command, as it was when the command named it.
LEMMA CarriedBody ==
    ASSUME LogsInv, LogsInv', Carries, NEW of \in Jobs, lease[of] # "none",
           NEW n \in 1..Len(cap[of].records)
    PROVE  /\ lease'[of] # "none" /\ n \in 1..Len(cap'[of].records)
           /\ cap'[of].records[n].hop = cap[of].records[n].hop
           /\ Loaded(cap[of].records[n], sent) => Loaded(cap'[of].records[n], sent')
<1> DEFINE c == cap[of]
           d == cap'[of]
           x == c.records[n]
           y == d.records[n]
<1>1. /\ load' = load /\ lease'[of] # "none" /\ Len(c.records) <= Len(d.records)
      /\ \A i \in 1..Len(c.records) : Named(c.records[i], d.records[i])
      /\ \A q \in Requests : sent[q].main = Hops(q) + 2 => sent'[q].main = Hops(q) + 2
  BY DEF Carries, Grows
<1>2. Len(c.records) \in Nat /\ x.request \in Requests
  BY SeqLen DEF LogsInv, LogFits, Shape, Records, IsRecord
<1>3. Len(d.records) \in Nat
  <2>1. LogFits(of)'
    BY DEF LogsInv
  <2>2. Records(d)
    BY <2>1 DEF LogFits, Shape
  <2> HIDE DEF d
  <2> QED
    BY <2>2, SeqLen DEF Records
<1>4. n \in 1..Len(d.records) /\ Named(x, y)
  BY <1>1, <1>2, <1>3
<1>5. Loaded(x, sent) => Loaded(y, sent')
  BY <1>1, <1>2, <1>4 DEF Named, Loaded
<1> QED
  BY <1>1, <1>4, <1>5 DEF Named

\* A command that keeps what it has found out.
LEMMA BodyStays ==
    ASSUME LogsInv, LogsInv', Carries, NEW j \in Jobs, BodyFits(j),
           job'[j].op = job[j].op, job'[j].of = job[j].of, job'[j].entry = job[j].entry,
           job'[j].body = job[j].body, job'[j].params = job[j].params,
           job'[j].op = "body" /\ job'[j].mode \in {"body", "bodySent", "recheck", "done"} =>
              /\ job[j].mode \in {"body", "bodySent", "recheck", "done"}
              /\ job'[j].mode \in {"recheck", "done"} => job[j].mode \in {"recheck", "done"}
    PROVE  BodyFits(j)'
<1>0. load' = load
  BY DEF Carries
<1>a. Loaded(cap'[job'[j].of].records[job'[j].entry], sent') =>
        Loaded(cap[job[j].of].records[job[j].entry], sent)'
  BY ONLY <1>0 DEF Loaded, Hops
<1>b. job'[j].op = "body" => "direction" \in DOMAIN job'[j].params
  BY DEF BodyFits
<1> SUFFICES ASSUME job'[j].op = "body", job'[j].mode \in {"body", "bodySent", "recheck", "done"}
             PROVE  /\ job'[j].of \in Jobs /\ lease'[job'[j].of] # "none"
                    /\ job'[j].entry \in 1..Len(cap'[job'[j].of].records)
                    /\ job'[j].params.direction = "response" =>
                         /\ Loaded(cap'[job'[j].of].records[job'[j].entry], sent')
                         /\ job'[j].mode \in {"recheck", "done"} =>
                              job'[j].body = cap'[job'[j].of].records[job'[j].entry].hop
  BY <1>a, <1>b DEF BodyFits
<1>1. /\ job[j].of \in Jobs /\ lease[job[j].of] # "none"
      /\ job[j].entry \in 1..Len(cap[job[j].of].records)
      /\ job[j].params.direction = "response" =>
           /\ Loaded(cap[job[j].of].records[job[j].entry], sent)
           /\ job[j].mode \in {"recheck", "done"} =>
                job[j].body = cap[job[j].of].records[job[j].entry].hop
  BY DEF BodyFits
<1>2. ASSUME NEW of \in Jobs, of = job[j].of, NEW n, n = job[j].entry
      PROVE  /\ lease'[of] # "none" /\ n \in 1..Len(cap'[of].records)
             /\ cap'[of].records[n].hop = cap[of].records[n].hop
             /\ Loaded(cap[of].records[n], sent) => Loaded(cap'[of].records[n], sent')
  BY <1>1, <1>2, CarriedBody
<1> QED
  BY <1>1, <1>2

\* A command that has changed nothing of itself.
LEMMA CommandStays ==
    ASSUME LogInv, LogsInv', Carries, NEW j \in Jobs, job'[j] = job[j], NoLease(j)
    PROVE  ModeFits(j)' /\ BodyFits(j)' /\ ReadFits(j)'
<1>1. ModeFits(j) /\ BodyFits(j) /\ ReadFits(j) /\ LogsInv
  BY DEF LogInv, CommandsInv
<1>2. ModeFits(j)'
  BY <1>1 DEF ModeFits, NoLease
<1>3. BodyFits(j)'
  BY <1>1, BodyStays
<1>4. ReadFits(j)'
  BY <1>1 DEF ReadFits
<1> QED
  BY <1>2, <1>3, <1>4

\* Only command j changes.
LEMMA OthersStay ==
    ASSUME LogInv, LogsInv', Carries, NEW j \in Jobs, Changes(j),
           \A i \in Jobs \ {j} : NoLease(i), ModeFits(j)', BodyFits(j)', ReadFits(j)'
    PROVE  LogInv'
<1> SUFFICES ASSUME NEW i \in Jobs PROVE ModeFits(i)' /\ BodyFits(i)' /\ ReadFits(i)'
  BY DEF LogInv, CommandsInv
<1>1. CASE i = j
  BY <1>1
<1>2. CASE i # j
  BY <1>2, CommandStays DEF Changes
<1> QED
  BY <1>1, <1>2

\* Only its mode changes, and it is not further than what it has found out.
LEMMA ModeStays ==
    ASSUME LogInv, LogsInv', Carries, NEW j \in Jobs, NEW m, OnlyMode(j, m),
           \A i \in Jobs \ {j} : NoLease(i), ModeFits(j)',
           job[j].op \in {"body", "read"} /\ m \in {"recheck", "done"} => job[j].mode \in {"recheck", "done"},
           job[j].op = "body" /\ m \in {"body", "bodySent"} => job[j].mode \in {"body", "bodySent"}
    PROVE  LogInv'
<1>1. BodyFits(j) /\ ReadFits(j) /\ LogsInv
  BY DEF LogInv, CommandsInv
<1>2. /\ job'[j].op = job[j].op /\ job'[j].mode = m /\ job'[j].of = job[j].of
      /\ job'[j].entry = job[j].entry /\ job'[j].body = job[j].body
      /\ job'[j].params = job[j].params /\ job'[j].result = job[j].result
  BY DEF OnlyMode, Changes, SameJob
<1>3. BodyFits(j)'
  BY <1>1, <1>2, BodyStays
<1>4. ReadFits(j)'
  BY <1>1, <1>2 DEF ReadFits
<1> QED
  BY <1>3, <1>4, OthersStay DEF OnlyMode

\* The commands of the other kinds have nothing of the log.
LEMMA OtherKinds ==
    ASSUME LogInv, LogsInv', Carries, NEW j \in Jobs, Changes(j), job[j].op \notin {"body", "read"},
           \A i \in Jobs \ {j} : NoLease(i), ModeFits(j)'
    PROVE  LogInv'
<1>1. BodyFits(j)' /\ ReadFits(j)'
  BY DEF BodyFits, ReadFits, Changes, SameJob
<1> QED
  BY <1>1, OthersStay

\* A quiet step carries what the commands refer to.
LEMMA QuietCarries ==
    ASSUME LogsInv, UNCHANGED <<load, sent>>, \A i \in Jobs : Retains(i)
    PROVE  Carries
<1>1. ASSUME NEW i \in Jobs, lease[i] # "none" PROVE lease'[i] # "none" /\ Grows(cap[i], cap'[i])
  <2>1. cap'[i].records = cap[i].records /\ lease'[i] # "none"
    BY <1>1 DEF Retains
  <2>2. Len(cap[i].records) \in Nat
    BY SeqLen DEF LogsInv, LogFits, Shape, Records
  <2> QED
    BY <2>1, <2>2 DEF Grows, Named
<1> QED
  BY <1>1 DEF Carries

\* Chrome's events carry them.
LEMMA EventKeeps == ASSUME CaptureInv, LogInv, NEW r \in Requests, Event(r) PROVE LogInv'
<1>0. LogsInv /\ SentInv
  BY DEF LogInv, LogsInv
<1>1. LogsInv'
  <2>1. SentInv'
    BY <1>0, EventSends
  <2>2. ASSUME NEW j \in Jobs PROVE LogFits(j)' /\ \A q \in Requests : Pairs(j, q)'
    BY <1>0, DeafKeeps, HeardKeeps
  <2> QED
    BY <2>1, <2>2 DEF LogsInv
<1>2. UNCHANGED <<captures, lease, doc, job, load>>
  BY EventHeard
<1>3. Carries
  <2>1. ASSUME NEW i \in Jobs PROVE Grows(cap[i], cap'[i])
    <3>1. CASE Hears(i)
      BY <1>0, <3>1, HeardKeeps
    <3>2. CASE ~Hears(i)
      <4>1. cap'[i] = cap[i]
        BY <3>2, EventHeard
      <4>2. Len(cap[i].records) \in Nat
        BY <1>0, SeqLen DEF LogsInv, LogFits, Shape, Records
      <4> QED
        BY <4>1, <4>2 DEF Grows, Named
    <3> QED
      BY <3>1, <3>2
  <2>2. Moves(r, sent, sent')
    BY <1>0, EventSends
  <2> QED
    BY <1>2, <2>1, <2>2 DEF Carries, Moves
<1>4. ASSUME NEW i \in Jobs PROVE ModeFits(i)' /\ BodyFits(i)' /\ ReadFits(i)'
  BY <1>1, <1>2, <1>3, CommandStays DEF NoLease
<1> QED
  BY <1>1, <1>4 DEF LogInv, CommandsInv

\* A command that goes on, ends or fails, without a mode that only one kind of command has.
LEMMA ModeFitsOn ==
    ASSUME LogInv, NEW j \in Jobs, Changes(j), NoLease(j),
           job'[j].mode \in {"recheck", "done", "failed"}
    PROVE  ModeFits(j)'
<1>1. ModeFits(j)
  BY DEF LogInv, CommandsInv
<1> QED
  BY <1>1 DEF ModeFits, NoLease, Changes, SameJob, Early

\* The steps of a start.
LEMMA StartLogs ==
    ASSUME LogInv, LogsInv', Carries, NEW j \in Jobs, Changes(j), job[j].op = "start",
           job'[j].mode \notin {"stopping", "body", "bodySent", "new", "prepare"},
           job'[j].mode \in Early => lease'[j] = "none",
           \A i \in Jobs \ {j} : NoLease(i)
    PROVE  LogInv'
<1>1. ModeFits(j)'
  BY DEF ModeFits, Changes, SameJob
<1> QED
  BY <1>1, OtherKinds

\* The mode of a start whose catch runs.
LEMMA CatchLogs ==
    ASSUME CaptureInv, LogInv, LogsInv', Carries, NEW j \in Jobs, job[j].op = "start",
           NEW holds \in BOOLEAN, Catch(j, holds)
    PROVE  LogInv'
<1>1. /\ lease' = IF holds THEN [lease EXCEPT ![j] = "releasing"] ELSE lease
      /\ Goes(j, "undo") \/ Goes(j, "failed")
  BY DEF Catch, Goes, Fails
<1>2. Changes(j) /\ job'[j].mode \in {"undo", "failed"}
  BY <1>1, ModeChanges DEF Goes
<1>3. \A i \in Jobs \ {j} : NoLease(i)
  BY <1>1 DEF NoLease, CaptureInv, CaptureTypes
<1> QED
  BY <1>2, <1>3, StartLogs DEF Early

\* Installed gives no lease.
LEMMA InstalledLogs ==
    ASSUME CaptureInv, LogInv, LogsInv', Carries, NEW j \in Jobs, job[j].op = "start",
           job[j].mode = "prepare", NEW evicted, Installed(j, evicted)
    PROVE  LogInv'
<1> DEFINE previous == captures[job[j].tab]
           waits == IF previous # None /\ Awaits(previous) THEN previous ELSE None
<1>1. /\ lease' = [i \in Jobs |-> IF i = previous /\ Awaits(i) THEN "releasing" ELSE lease[i]]
      /\ job' = [job EXCEPT ![j].mode = "replaced", ![j].waits = waits]
  BY DEF Installed
<1> HIDE DEF previous, waits
<1>2. ASSUME NEW i \in Jobs PROVE NoLease(i)
  <2>1. Awaits(i) => lease[i] = "held"
    BY DEF CaptureInv, LeaseFits, Awaits
  <2> QED
    BY <1>1, <2>1 DEF NoLease
<1>3. Changes(j) /\ job'[j].mode = "replaced"
  <2>1. job = [i \in Jobs |-> job[i]] /\ IsJob(job[j])
    BY DEF CaptureInv, CaptureTypes, JobTypes
  <2> QED
    BY <1>1, <2>1 DEF Changes, SameJob, IsJob, JobFields
<1>4. lease[j] = "none"
  BY DEF LogInv, CommandsInv, ModeFits
<1>5. lease'[j] = "none"
  BY <1>2, <1>4 DEF NoLease
<1> QED
  BY <1>2, <1>3, <1>5, StartLogs

\* The steps of start.
LEMMA StartsLog ==
    ASSUME CaptureInv, LogInv, LogsInv', Carries, NEW j \in Jobs,
           \/ StartCapture(j) \/ PreviousReleased(j) \/ Acquired(j) \/ Enabled(j) \/ Started(j)
    PROVE  LogInv'
<1>1. ModeFits(j)
  BY DEF LogInv, CommandsInv
<1>2. job[j].op = "start"
  BY <1>1 DEF ModeFits, StartCapture, PreviousReleased, Acquired, Enabled, Started
<1>3. ASSUME NEW m, Goes(j, m), m \in {"recheck", "done", "failed"}, lease' = lease
      PROVE  LogInv'
  <2>1. Changes(j) /\ job'[j].mode = m
    BY <1>3, ModeChanges DEF Goes
  <2> QED
    BY <1>2, <1>3, <2>1, StartLogs DEF Early, NoLease
<1>4. CASE StartCapture(j)
  <2>1. job[j].mode = "prepare"
    BY <1>4 DEF StartCapture
  <2>2. (\E evicted : Installed(j, evicted)) \/ (Goes(j, "failed") /\ lease' = lease)
    BY <1>4 DEF StartCapture, Fails, Goes
  <2> QED
    BY <1>2, <1>3, <2>1, <2>2, InstalledLogs
<1>5. CASE PreviousReleased(j)
  <2>1. (Goes(j, "acquire") /\ lease' = lease) \/ Catch(j, FALSE)
    BY <1>5 DEF PreviousReleased
  <2>2. ASSUME Goes(j, "acquire"), lease' = lease PROVE LogInv'
    <3>1. Changes(j) /\ job'[j].mode = "acquire"
      BY <2>2, ModeChanges DEF Goes
    <3>2. lease[j] = "none"
      BY <1>1, <1>5 DEF ModeFits, PreviousReleased, Early
    <3> QED
      BY <1>2, <2>2, <3>1, <3>2, StartLogs DEF NoLease
  <2> QED
    BY <1>2, <2>1, <2>2, CatchLogs
<1>6. CASE Acquired(j)
  <2>1. \/ Goes(j, "enable") /\ lease' = [lease EXCEPT ![j] = "held"]
        \/ Catch(j, TRUE) \/ Catch(j, FALSE)
    BY <1>6 DEF Acquired
  <2>2. ASSUME Goes(j, "enable"), lease' = [lease EXCEPT ![j] = "held"] PROVE LogInv'
    <3>1. Changes(j) /\ job'[j].mode = "enable"
      BY <2>2, ModeChanges DEF Goes
    <3>2. \A i \in Jobs \ {j} : NoLease(i)
      BY <2>2 DEF NoLease, CaptureInv, CaptureTypes
    <3> QED
      BY <1>2, <3>1, <3>2, StartLogs DEF Early
  <2> QED
    BY <1>2, <2>1, <2>2, CatchLogs
<1>7. CASE Enabled(j)
  <2>1. (Goes(j, "recheck") /\ lease' = lease) \/ \E holds \in BOOLEAN : Catch(j, holds)
    BY <1>7 DEF Enabled, CaptureInv, JobTypes
  <2> QED
    BY <1>2, <1>3, <2>1, CatchLogs
<1>8. CASE Started(j)
  <2>1. (Goes(j, "done") /\ lease' = lease) \/ \E holds \in BOOLEAN : Catch(j, holds)
    BY <1>8 DEF Started, CaptureInv, JobTypes
  <2> QED
    BY <1>2, <1>3, <2>1, CatchLogs
<1> QED
  BY <1>4, <1>5, <1>6, <1>7, <1>8

\* A command fails, or goes on with what it has.
LEMMA FailsLogs ==
    ASSUME CaptureInv, LogInv, LogsInv', Carries, NEW j \in Jobs, lease' = lease, Fails(j)
    PROVE  LogInv'
<1>1. OnlyMode(j, "failed")
  BY ModeOnly DEF Fails
<1>2. \A i \in Jobs : NoLease(i)
  BY DEF NoLease
<1>3. ModeFits(j)'
  BY <1>1, <1>2, ModeFitsOn DEF OnlyMode
<1> QED
  BY <1>1, <1>2, <1>3, ModeStays

\* The steps of a command that change nothing but its mode.
LEMMA ModesLog ==
    ASSUME CaptureInv, LogInv, LogsInv', Carries, NEW j \in Jobs,
           Refused(j) \/ Missing(j) \/ Stopped(j) \/ SendBodyCommand(j) \/ Answer(j)
    PROVE  LogInv'
<1>0. ModeFits(j)
  BY DEF LogInv, CommandsInv
<1>1. lease' = lease /\ \A i \in Jobs : NoLease(i)
  BY DEF Refused, Missing, Stopped, SendBodyCommand, Answer, NoLease
<1>2. CASE Refused(j) \/ Missing(j)
  BY <1>1, <1>2, FailsLogs DEF Refused, Missing
<1>3. CASE Stopped(j)
  <2>1. OnlyMode(j, "recheck") /\ job[j].op = "stop"
    BY <1>0, <1>3, ModeOnly DEF Stopped, Goes, ModeFits
  <2> QED
    BY <1>1, <2>1, ModeFitsOn, ModeStays DEF OnlyMode
<1>4. CASE SendBodyCommand(j)
  <2>1. Fails(j) \/ Goes(j, "bodySent")
    BY <1>4 DEF SendBodyCommand
  <2>2. ASSUME Goes(j, "bodySent") PROVE LogInv'
    <3>1. OnlyMode(j, "bodySent") /\ job[j].op = "body" /\ job[j].mode = "body"
      BY <1>0, <1>4, <2>2, ModeOnly DEF SendBodyCommand, Goes, ModeFits
    <3>2. ModeFits(j)'
      BY <1>0, <1>1, <3>1 DEF ModeFits, OnlyMode, Changes, SameJob
    <3> QED
      BY <1>1, <3>1, <3>2, ModeStays
  <2> QED
    BY <1>1, <2>1, <2>2, FailsLogs
<1>5. CASE Answer(j)
  <2>1. OnlyMode(j, "done") /\ job[j].mode = "recheck"
    BY <1>5, ModeOnly DEF Answer, Goes
  <2> QED
    BY <1>1, <2>1, ModeFitsOn, ModeStays DEF OnlyMode
<1> QED
  BY <1>2, <1>3, <1>4, <1>5

\* A command that has found its capture, and goes on.
LEMMA FoundChanges ==
    ASSUME CaptureInv, NEW j \in Jobs, NEW c, NEW m, job' = [job EXCEPT ![j].of = c, ![j].mode = m]
    PROVE  Changes(j) /\ job'[j].mode = m
<1>1. job = [i \in Jobs |-> job[i]] /\ IsJob(job[j])
  BY DEF CaptureInv, CaptureTypes, JobTypes
<1>2. Changes(j)
  BY <1>1 DEF Changes, SameJob, IsJob, JobFields
<1>3. job'[j].mode = m
  <2> DEFINE y == [job[j] EXCEPT !.of = c]
  <2>1. IsJob(y)
    BY <1>1 DEF IsJob, JobFields
  <2>2. job'[j] = [y EXCEPT !.mode = m]
    BY <1>1
  <2> HIDE DEF y
  <2> QED
    BY <2>1, <2>2 DEF IsJob, JobFields
<1> QED
  BY <1>2, <1>3

\* har, too.
LEMMA ExportChanges ==
    ASSUME CaptureInv, NEW j \in Jobs, ExportHAR(j)
    PROVE  Changes(j) /\ job'[j].mode = "recheck"
<1> DEFINE c == captures[job[j].tab]
           entries == cap[c].entries
           fits == {k \in 0..Len(entries) :
                      Sum(cap[c], Range(SubSeq(entries, k + 1, Len(entries)))) <= MAX_BUFFER_BYTES \div 2}
           first == CHOOSE k \in fits : \A other \in fits : k <= other
           e == Range(SubSeq(entries, first + 1, Len(entries)))
<1>1. job' = [job EXCEPT ![j].of = c, ![j].mode = "recheck", ![j].result.entries = e]
  BY DEF ExportHAR
<1> HIDE DEF c, e
<1> DEFINE x == [job EXCEPT ![j].of = c, ![j].mode = "recheck"]
<1>2. job = [i \in Jobs |-> job[i]] /\ IsJob(job[j])
  BY DEF CaptureInv, CaptureTypes, JobTypes
<1>3. /\ x = [i \in Jobs |-> x[i]] /\ SameJob(job[j], x[j])
      /\ \A i \in Jobs \ {j} : x[i] = job[i]
  BY <1>2 DEF SameJob, IsJob, JobFields
<1>4. x[j].mode = "recheck"
  BY <1>2 DEF IsJob, JobFields
<1>5. job' = [x EXCEPT ![j].result.entries = e]
  BY <1>1
<1> HIDE DEF x
<1> QED
  BY <1>3, <1>4, <1>5 DEF Changes, SameJob, IsJob, JobFields

\* stop, clear and har ask the log for nothing that the properties are about.
LEMMA OthersLog ==
    ASSUME CaptureInv, LogInv, LogsInv', Carries, NEW j \in Jobs,
           Stop(j) \/ Clear(j) \/ ExportHAR(j)
    PROVE  LogInv'
<1>0. /\ ModeFits(j) /\ job = [i \in Jobs |-> job[i]] /\ IsJob(job[j])
  BY DEF LogInv, CommandsInv, CaptureInv, CaptureTypes, JobTypes
<1>1. CASE Stop(j)
  <2> DEFINE c == captures[job[j].tab]
             mode == IF Awaits(c) THEN "stopping" ELSE "recheck"
  <2>1. /\ job' = [job EXCEPT ![j].of = c, ![j].mode = mode] /\ ReleaseCapture(c)
        /\ job[j].op = "stop"
    BY <1>1 DEF Stop, Finds
  <2>2. \A i \in Jobs : NoLease(i)
    <3>1. Awaits(c) /\ c \in Jobs => lease[c] = "held"
      BY DEF CaptureInv, LeaseFits, Awaits
    <3>2. c \in Jobs
      BY <1>1 DEF Stop, Finds, CaptureInv, CaptureTypes, JobTypes
    <3>3. lease' = lease \/ (Awaits(c) /\ lease' = [lease EXCEPT ![c] = "releasing"])
      BY <2>1 DEF ReleaseCapture
    <3> HIDE DEF c
    <3> QED
      BY <3>1, <3>2, <3>3 DEF NoLease, CaptureInv, CaptureTypes
  <2>3. mode \in {"stopping", "recheck"}
    OBVIOUS
  <2> HIDE DEF c, mode
  <2>4. Changes(j) /\ job'[j].mode = mode
    BY <2>1, FoundChanges
  <2>5. ModeFits(j)'
    BY <1>0, <2>1, <2>2, <2>3, <2>4 DEF ModeFits, NoLease, Changes, SameJob
  <2> QED
    BY <2>1, <2>2, <2>4, <2>5, OtherKinds
<1>2. CASE Clear(j)
  <2> DEFINE c == captures[job[j].tab]
  <2>1. /\ job' = [job EXCEPT ![j].of = c, ![j].mode = "recheck"] /\ lease' = lease
        /\ job[j].op = "clear"
    BY <1>2 DEF Clear, Finds
  <2> HIDE DEF c
  <2>2. Changes(j) /\ job'[j].mode = "recheck"
    BY <2>1, FoundChanges
  <2>3. \A i \in Jobs : NoLease(i)
    BY <2>1 DEF NoLease
  <2> QED
    BY <2>1, <2>2, <2>3, ModeFitsOn, OtherKinds
<1>3. CASE ExportHAR(j)
  <2>1. Changes(j) /\ job'[j].mode = "recheck"
    BY <1>3, ExportChanges
  <2>2. lease' = lease /\ job[j].op = "har"
    BY <1>3 DEF ExportHAR, Finds
  <2>3. \A i \in Jobs : NoLease(i)
    BY <2>2 DEF NoLease
  <2> QED
    BY <2>1, <2>2, <2>3, ModeFitsOn, OtherKinds
<1> QED
  BY <1>1, <1>2, <1>3

\* The release of a lease, or its end, whether the start was to be undone or not.
LEMMA LeaseEndsLogs ==
    ASSUME CaptureInv, LogInv, LogsInv', Carries, NEW j \in Jobs, ReleaseEnds(j) \/ Detach(j)
    PROVE  LogInv'
<1>1. \A i \in Jobs : NoLease(i)
  BY DEF ReleaseEnds, Detach, NoLease, CaptureInv, CaptureTypes
<1>2. CASE job' = job
  <2>1. \A i \in Jobs : ModeFits(i)' /\ BodyFits(i)' /\ ReadFits(i)'
    BY <1>1, <1>2, CommandStays
  <2> QED
    BY <2>1 DEF LogInv, CommandsInv
<1>3. CASE job' = [job EXCEPT ![j].mode = "failed"]
  <2>1. OnlyMode(j, "failed")
    BY <1>3, ModeOnly
  <2> QED
    BY <1>1, <2>1, ModeFitsOn, ModeStays DEF OnlyMode
<1> QED
  BY <1>2, <1>3 DEF ReleaseEnds, Detach

-----------------------------------------------------------------------------
(* Reads.                                                                  *)

\* The first entries of M, up to the limit.
Page(M) == {n \in M : Cardinality({m \in M : m <= n}) <= ReadLimit}

\* A page of an interval, when it is not all of it, is an interval of ReadLimit entries.
LEMMA PageIs ==
    ASSUME NEW a \in Nat, NEW N \in Nat, NEW M, M = a..N, NEW P, P = Page(M), P # M
    PROVE  P = a..(a + ReadLimit - 1) /\ Max(P) = a + ReadLimit - 1 /\ Max(P) \in Nat
<1>0. ReadLimit \in Nat \ {0}
  BY NetworkAssumption
<1>1. \A n \in a..N : Cardinality({m \in a..N : m <= n}) = n - a + 1
  <2> SUFFICES ASSUME NEW n \in a..N PROVE Cardinality({m \in a..N : m <= n}) = n - a + 1
    OBVIOUS
  <2>1. {m \in a..N : m <= n} = a..n
    OBVIOUS
  <2>2. n \in Int /\ a \in Int /\ a <= n
    OBVIOUS
  <2>3. Cardinality(a..n) = IF a > n THEN 0 ELSE n - a + 1
    BY <2>2, FS_Interval
  <2>4. Cardinality(a..n) = n - a + 1
    BY <2>2, <2>3
  <2> QED
    BY <2>1, <2>4
<1>2. P = {n \in a..N : n - a + 1 <= ReadLimit}
  BY <1>1 DEF Page
<1>3. \E n \in a..N : ~(n - a + 1 <= ReadLimit)
  BY <1>2
<1>4. P = a..(a + ReadLimit - 1)
  <2>1. ASSUME NEW l \in Nat \ {0}, l = ReadLimit PROVE P = a..(a + l - 1)
    <3>1. P = {n \in a..N : n - a + 1 <= l} /\ \E n \in a..N : ~(n - a + 1 <= l)
      BY <1>2, <1>3, <2>1
    <3>2. \A n \in Int : n \in P <=> a <= n /\ n <= a + l - 1
      BY ONLY <3>1, a \in Nat, N \in Nat, l \in Nat \ {0}
    <3>3. \A n \in P : n \in Int
      BY ONLY <3>1, a \in Nat, N \in Nat
    <3>4. ASSUME NEW b \in Nat, b = a + l - 1 PROVE P = a..b
      <4>1. \A n \in Int : n \in P <=> a <= n /\ n <= b
        BY ONLY <3>2, <3>4
      <4>2. \A n \in P : n \in a..b
        BY ONLY <3>3, <3>4, <4>1, a \in Nat
      <4>3. \A n \in a..b : n \in P
        BY ONLY <3>4, <4>1, a \in Nat
      <4> QED
        BY ONLY <4>2, <4>3
    <3>5. a + l - 1 \in Nat
      BY ONLY a \in Nat, l \in Nat \ {0}
    <3> QED
      BY <3>4, <3>5
  <2> QED
    BY <1>0, <2>1
<1> DEFINE b == a + ReadLimit - 1
<1>5. b \in P /\ b \in Nat /\ \A y \in P : y <= b /\ y \in Nat
  <2>1. b \in Nat /\ a <= b /\ P = a..b
    BY <1>0, <1>4
  <2> HIDE DEF b
  <2> QED
    BY ONLY <2>1, a \in Nat
<1>6. Max(P) = b
  <2> HIDE DEF b
  <2>1. Max(P) \in P /\ \A y \in P : Max(P) >= y
    <3>1. b \in P /\ \A y \in P : b >= y
      BY ONLY <1>5
    <3> QED
      BY ONLY <3>1 DEF Max
  <2>2. ASSUME NEW m \in P, \A y \in P : m >= y PROVE m = b
    BY ONLY <1>5, <2>2
  <2> QED
    BY <2>1, <2>2
<1> QED
  BY <1>4, <1>5, <1>6

\* A read that follows a cursor has every entry after it, or says that it expired.
LEMMA ReadIs ==
    ASSUME NEW c, Shape(c), NEW cursor \in Nat
    PROVE  LET read == ReadCapture(c, cursor) IN
           /\ read.next \in Nat
           /\ cursor # None => read.expired \/ read.entries = (cursor + 1)..read.upTo
<1> DEFINE N == Len(c.records)
           f == First(c)
           matching == {n \in Range(c.entries) : n > cursor}
           page == {n \in matching : Cardinality({m \in matching : m <= n}) <= ReadLimit}
           more == page # matching
           a == IF f > cursor + 1 THEN f ELSE cursor + 1
           read == ReadCapture(c, cursor)
<1>1. /\ read.entries = page /\ read.next = (IF more THEN Max(page) ELSE None)
      /\ read.expired = Expired(c, cursor) /\ read.upTo = (IF more THEN Max(page) ELSE N)
  BY DEF ReadCapture
<1>2. N \in Nat /\ f \in Nat \ {0} /\ Range(c.entries) = f..N /\ a \in Nat
  <2>1. Records(c) /\ Entries(c)
    BY DEF Shape
  <2>2. N \in Nat /\ f \in Nat \ {0} /\ Range(c.entries) = f..N
    BY <2>1, LogBounds, HeldIs
  <2> HIDE DEF N, f
  <2> QED
    BY <2>2
<1>3. FirstSequence(c) = f
  <2>1. Entries(c) /\ Len(c.entries) \in Nat
    BY LogBounds DEF Shape
  <2>2. CASE c.entries = <<>>
    BY <1>2, <2>2 DEF FirstSequence, First
  <2>3. CASE c.entries # <<>>
    <3>1. c.entries \in Seq(Nat) /\ 1 \in 1..Len(c.entries)
      BY <2>1, <2>3 DEF Entries
    <3>2. c.entries[1] = f + 1 - 1
      BY <2>1, <3>1 DEF Entries
    <3> HIDE DEF f
    <3> QED
      BY <1>2, <2>3, <3>2 DEF FirstSequence
  <2> QED
    BY <2>2, <2>3
<1> HIDE DEF N, f
<1>4. matching = a..N
  BY <1>2
<1>5. cursor # None => Expired(c, cursor) \/ a = cursor + 1
  BY <1>2, <1>3 DEF Expired, None
<1> HIDE DEF matching, a, read
<1>a. page = Page(matching)
  BY DEF Page
<1> HIDE DEF page
<1>6. more => page = a..(a + ReadLimit - 1) /\ Max(page) = a + ReadLimit - 1 /\ Max(page) \in Nat
  BY <1>2, <1>4, <1>a, PageIs
<1>7. read.next \in Nat
  BY <1>1, <1>6 DEF None
<1>8. cursor # None => read.expired \/ read.entries = (cursor + 1)..read.upTo
  BY <1>1, <1>4, <1>5, <1>6
<1> QED
  BY <1>7, <1>8 DEF read

\* Read.
LEMMA ReadLogs ==
    ASSUME CaptureInv, LogInv, LogsInv', Carries, NEW j \in Jobs, Read(j) PROVE LogInv'
<1> DEFINE c == captures[job[j].tab]
           read == ReadCapture(cap[c], job[j].params.cursor)
<1>0. /\ c \in Jobs /\ job[j].op = "read" /\ lease' = lease
      /\ job = [i \in Jobs |-> job[i]] /\ IsJob(job[j])
  BY DEF Read, Finds, CaptureInv, CaptureTypes, JobTypes
<1>1. Shape(cap[c]) /\ job[j].params.cursor \in Nat /\ ReadFits(j)
  BY <1>0 DEF LogInv, LogsInv, LogFits, CommandsInv, ReadFits
<1>2. /\ read.next \in Nat
      /\ job[j].params.cursor # None =>
           read.expired \/ read.entries = (job[j].params.cursor + 1)..read.upTo
  BY <1>1, ReadIs
<1>3. job' = [job EXCEPT ![j].of = c, ![j].mode = "recheck", ![j].result = read]
  BY DEF Read
<1> HIDE DEF c, read
<1> DEFINE x == [job EXCEPT ![j].of = c, ![j].mode = "recheck"]
<1>4. /\ x = [i \in Jobs |-> x[i]] /\ SameJob(job[j], x[j]) /\ \A i \in Jobs \ {j} : x[i] = job[i]
  BY <1>0 DEF SameJob, IsJob, JobFields
<1>5. x[j].mode = "recheck" /\ x[j].params = job[j].params
  BY <1>0 DEF IsJob, JobFields
<1>6. job' = [x EXCEPT ![j].result = read]
  BY <1>3
<1> HIDE DEF x
<1>7. /\ Changes(j) /\ job'[j].mode = "recheck" /\ job'[j].result = read
      /\ job'[j].params = job[j].params
  BY <1>4, <1>5, <1>6 DEF Changes, SameJob, IsJob, JobFields
<1>8. \A i \in Jobs : NoLease(i)
  BY <1>0 DEF NoLease
<1>9. ReadFits(j)'
  BY <1>0, <1>1, <1>2, <1>7 DEF ReadFits
<1>10. BodyFits(j)'
  BY <1>0, <1>7 DEF BodyFits, Changes, SameJob
<1> QED
  BY <1>7, <1>8, <1>9, <1>10, ModeFitsOn, OthersStay

\* Begin: a read takes the cursor of an earlier one.
LEMMA BeginLogs ==
    ASSUME CaptureInv, LogInv, LogsInv', Carries, NEW j \in Jobs, Begin(j) PROVE LogInv'
<1>0. /\ lease' = lease /\ ModeFits(j) /\ ReadFits(j)
      /\ job = [i \in Jobs |-> job[i]] /\ IsJob(job[j]) /\ job[j].mode = "new"
  <2>1. lease' = lease /\ job[j].mode = "new"
    BY DEF Begin
  <2> QED
    BY <2>1 DEF CaptureInv, CaptureTypes, JobTypes, LogInv, CommandsInv
<1>1. \A i \in Jobs : NoLease(i)
  BY <1>0 DEF NoLease
<1>2. lease'[j] = "none"
  BY <1>0 DEF ModeFits
<1>3. ASSUME job'[j].mode = "prepare" PROVE ModeFits(j)'
  BY <1>2, <1>3 DEF ModeFits
<1>4. CASE Goes(j, "prepare")
  <2>1. OnlyMode(j, "prepare")
    BY <1>4, ModeOnly DEF Goes
  <2> QED
    BY <1>1, <1>3, <2>1, ModeStays DEF OnlyMode
<1>5. ASSUME job[j].op = "read", NEW c \in Cursors,
             job' = [job EXCEPT ![j].mode = "prepare", ![j].params = c]
      PROVE  LogInv'
  <2>1. c.cursor \in Nat /\ (c.from # None => c.cursor # None)
    <3>1. \A i \in Jobs : job[i].op = "read" => job[i].result.next \in Nat
      BY DEF LogInv, CommandsInv, ReadFits
    <3> QED
      BY <3>1 DEF Cursors, None
  <2> DEFINE y == [job[j] EXCEPT !.mode = "prepare"]
  <2>2. IsJob(y) /\ y.mode = "prepare" /\ y.result = job[j].result
        /\ y.op = job[j].op /\ y.tab = job[j].tab
    BY <1>0 DEF IsJob, JobFields
  <2>3. /\ job'[j] = [y EXCEPT !.params = c] /\ \A i \in Jobs \ {j} : job'[i] = job[i]
        /\ job' = [i \in Jobs |-> job'[i]]
    BY <1>0, <1>5
  <2> HIDE DEF y
  <2>6. /\ IsJob(job'[j]) /\ job'[j].op = y.op /\ job'[j].tab = y.tab /\ job'[j].mode = y.mode
        /\ job'[j].params = c /\ job'[j].result = y.result
    <3>1. ASSUME NEW z, z = [y EXCEPT !.params = c]
          PROVE  /\ IsJob(z) /\ z.op = y.op /\ z.tab = y.tab /\ z.mode = y.mode
                 /\ z.params = c /\ z.result = y.result
      BY <2>2, <3>1 DEF IsJob, JobFields
    <3> QED
      BY <2>3, <3>1
  <2>7. SameJob(job[j], job'[j]) /\ job'[j].mode = "prepare" /\ job'[j].result = job[j].result
    BY ONLY <2>2, <2>6 DEF SameJob
  <2>5. /\ Changes(j) /\ job'[j].mode = "prepare"
        /\ job'[j].params = c /\ job'[j].result = job[j].result
    BY ONLY <2>3, <2>6, <2>7 DEF Changes
  <2>4. ReadFits(j)' /\ BodyFits(j)'
    BY <1>0, <1>5, <2>1, <2>5 DEF ReadFits, BodyFits, Changes, SameJob
  <2> QED
    BY <1>1, <1>3, <2>4, <2>5, OthersStay
<1> QED
  BY <1>4, <1>5 DEF Begin

-----------------------------------------------------------------------------
(* getBody.                                                                *)

\* A body command that has found out what it says, while the captures stay as they are.
LEMMA BodyFound ==
    ASSUME UNCHANGED <<cap, lease, load, sent>>, NEW j \in Jobs, NEW of \in Jobs, NEW n,
           lease[of] # "none", n \in 1..Len(cap[of].records),
           job'[j].of = of, job'[j].entry = n, "direction" \in DOMAIN job'[j].params,
           job'[j].params.direction = "response" =>
              /\ Loaded(cap[of].records[n], sent)
              /\ job'[j].mode \in {"recheck", "done"} => job'[j].body = cap[of].records[n].hop
    PROVE  BodyFits(j)'
<1>a. Loaded(cap[of].records[n], sent) => Loaded(cap'[job'[j].of].records[job'[j].entry], sent')
  BY ONLY cap' = cap, sent' = sent, job'[j].of = of, job'[j].entry = n
<1>b. Loaded(cap'[job'[j].of].records[job'[j].entry], sent') =>
        Loaded(cap[job[j].of].records[job[j].entry], sent)'
  BY ONLY load' = load DEF Loaded, Hops
<1>1. /\ job'[j].of \in Jobs /\ lease'[job'[j].of] # "none"
      /\ job'[j].entry \in 1..Len(cap'[job'[j].of].records)
      /\ job'[j].params.direction = "response" =>
           /\ Loaded(cap[of].records[n], sent)
           /\ job'[j].mode \in {"recheck", "done"} =>
                job'[j].body = cap'[job'[j].of].records[job'[j].entry].hop
  OBVIOUS
<1> QED
  BY <1>1, <1>a, <1>b DEF BodyFits

\* A body command names an entry of the log whose body is available, which has loaded.
LEMMA GetBodyLogs ==
    ASSUME CaptureInv, LogInv, LogsInv', Carries, NEW j \in Jobs, GetBody(j) PROVE LogInv'
<1> DEFINE c == captures[job[j].tab]
<1>z. Finds(j, "body")
  BY Zenon DEF GetBody
<1>0. /\ c \in Jobs /\ job[j].op = "body" /\ job[j].mode = "prepare" /\ lease' = lease
      /\ job = [i \in Jobs |-> job[i]] /\ IsJob(job[j])
  <2>2. lease' = lease
    BY Zenon DEF GetBody
  <2> QED
    BY <1>z, <2>2 DEF Finds, CaptureInv, CaptureTypes, JobTypes
<1>a. cap' = cap
  BY Zenon DEF GetBody
<1> DEFINE Answers(n, direction) ==
             job' = [job EXCEPT ![j].of = c, ![j].entry = n, ![j].mode = "body",
                                ![j].params.direction = direction]
<1>b. \/ Fails(j)
      \/ \E direction \in Kinds : cap[c].lease /\ \E n \in cap[c].byEntryId :
            BodyAvailable(cap[c].records[n], direction) /\ Answers(n, direction)
  <2>1. \E direction \in Kinds :
           LET available == {n \in cap[c].byEntryId : BodyAvailable(cap[c].records[n], direction)}
           IN  IF ~cap[c].active \/ ~cap[c].lease \/ available = {}
               THEN Fails(j) ELSE \E n \in available : Answers(n, direction)
    BY Zenon DEF GetBody
  <2> HIDE DEF Answers
  <2> QED
    BY <2>1
<1>1. Shape(cap[c]) /\ Fits(cap[c], sent) /\ BodyFits(j) /\ LeaseFits(c)
  BY <1>0 DEF LogInv, LogsInv, LogFits, CommandsInv, CaptureInv
<1>2. \A i \in Jobs : NoLease(i)
  BY <1>0 DEF NoLease
<1>d. ModeFits(j)
  BY DEF LogInv, CommandsInv
<1>e. load' = load /\ sent' = sent
  BY Zenon DEF GetBody, world
<1> HIDE DEF c
<1>3. ASSUME NEW direction \in Kinds, cap[c].lease, NEW n \in cap[c].byEntryId,
             BodyAvailable(cap[c].records[n], direction), Answers(n, direction)
      PROVE  LogInv'
  <2> DEFINE y == [job[j] EXCEPT !.of = c, !.entry = n, !.mode = "body"]
             p == [job[j].params EXCEPT !.direction = direction]
             z == [y EXCEPT !.params = p]
  <2>1. IsJob(y) /\ y.mode = "body" /\ y.of = c /\ y.entry = n /\ y.op = job[j].op
        /\ y.tab = job[j].tab /\ y.params = job[j].params
    BY <1>0 DEF IsJob, JobFields
  <2>2. p.direction = direction /\ "direction" \in DOMAIN p
    BY <1>0, <1>1 DEF BodyFits
  <2> DEFINE x == [job EXCEPT ![j].of = c, ![j].entry = n, ![j].mode = "body"]
  <2>0. /\ x = [i \in Jobs |-> x[i]] /\ x[j] = y /\ \A i \in Jobs \ {j} : x[i] = job[i]
        /\ job' = [x EXCEPT ![j].params.direction = direction]
    BY <1>0, <1>3
  <2> HIDE DEF x, y
  <2>3. /\ job'[j] = [y EXCEPT !.params.direction = direction]
        /\ \A i \in Jobs \ {j} : job'[i] = job[i]
        /\ job' = [i \in Jobs |-> job'[i]]
    BY <2>0
  <2>4. job'[j] = z
    BY <2>1, <2>3
  <2> HIDE DEF p
  <2>5. /\ IsJob(z) /\ z.op = y.op /\ z.tab = y.tab /\ z.mode = y.mode /\ z.of = y.of
        /\ z.entry = y.entry /\ z.params = p
    BY <2>1 DEF IsJob, JobFields
  <2> HIDE DEF z
  <2>6. SameJob(job[j], job'[j]) /\ job'[j].mode = "body" /\ job'[j].of = c /\ job'[j].entry = n
        /\ job'[j].params.direction = direction /\ "direction" \in DOMAIN job'[j].params
    BY ONLY <2>1, <2>2, <2>4, <2>5 DEF SameJob
  <2>7. Changes(j)
    BY ONLY <2>3, <2>6 DEF Changes
  <2>8. ModeFits(j)'
    BY <1>0, <1>2, <1>d, <2>6 DEF ModeFits, NoLease, SameJob, Early
  <2>9. n \in 1..Len(cap[c].records)
    BY <1>1, LogBounds DEF Shape, Indexes
  <2>10. lease[c] # "none"
    BY <1>1, <1>3 DEF LeaseFits
  <2>11. direction = "response" => Loaded(cap[c].records[n], sent)
    BY <1>1, <1>3, <2>9 DEF Fits, RecordFits, BodyAvailable, Loaded
  <2>13. BodyFits(j)'
    BY <1>0, <1>a, <1>e, <2>6, <2>9, <2>10, <2>11, BodyFound
  <2>14. ReadFits(j)'
    BY <1>0, <2>6 DEF ReadFits, SameJob
  <2> QED
    BY <1>2, <2>7, <2>8, <2>13, <2>14, OthersStay
<1> HIDE DEF Answers
<1> QED
  BY <1>0, <1>b, <1>3, FailsLogs

\* Chrome answers with the body of the last hop, which is that of the entry.
LEMMA BodyAnsweredLogs ==
    ASSUME CaptureInv, LogInv, LogsInv', Carries, NEW j \in Jobs, BodyAnswered(j) PROVE LogInv'
<1>0. /\ job[j].mode = "bodySent" /\ lease' = lease /\ cap' = cap /\ load' = load /\ sent' = sent
      /\ ModeFits(j) /\ BodyFits(j) /\ job = [i \in Jobs |-> job[i]] /\ IsJob(job[j])
  <2>1. /\ job[j].mode = "bodySent" /\ lease' = lease /\ cap' = cap /\ load' = load
        /\ sent' = sent
    BY DEF BodyAnswered, world
  <2> QED
    BY <2>1 DEF LogInv, CommandsInv, CaptureInv, CaptureTypes, JobTypes
<1>1. job[j].op = "body"
  BY <1>0 DEF ModeFits
<1>2. \A i \in Jobs : NoLease(i)
  BY <1>0 DEF NoLease
<1> DEFINE of == job[j].of
           n == job[j].entry
           x == cap[of].records[n]
           body == ReachedHop(x.request)
           y == [job[j] EXCEPT !.mode = "recheck"]
<1>3. /\ job'[j] = [y EXCEPT !.body = body] /\ \A i \in Jobs \ {j} : job'[i] = job[i]
      /\ job' = [i \in Jobs |-> job'[i]]
  BY <1>0 DEF BodyAnswered
<1>4. IsJob(y) /\ y.mode = "recheck" /\ y.of = of /\ y.entry = n /\ y.op = job[j].op
      /\ y.tab = job[j].tab /\ y.params = job[j].params
  BY <1>0 DEF IsJob, JobFields
<1>5. /\ of \in Jobs /\ lease[of] # "none" /\ n \in 1..Len(cap[of].records)
      /\ job[j].params.direction = "response" => Loaded(x, sent)
      /\ "direction" \in DOMAIN job[j].params
  BY <1>0, <1>1 DEF BodyFits
<1>6. Loaded(x, sent) => body = x.hop
  <2>1. x.request \in Requests /\ Hops(x.request) \in Nat
    <3>1. LogFits(of) /\ SentInv
      BY <1>5 DEF LogInv, LogsInv
    <3>2. x.request \in Requests
      <4>1. Records(cap[of])
        BY <3>1 DEF LogFits, Shape
      <4> HIDE DEF of, n
      <4> QED
        BY <1>5, <4>1 DEF Records, IsRecord
    <3> QED
      BY <3>1, <3>2, WorkloadAssumption, LenProperties DEF SentInv, Hops
  <2> QED
    BY <2>1 DEF Loaded, ReachedHop
<1> HIDE DEF of, n, x, body, y
<1>7. ASSUME NEW z, z = [y EXCEPT !.body = body]
      PROVE  /\ IsJob(z) /\ z.op = y.op /\ z.tab = y.tab /\ z.mode = y.mode /\ z.of = y.of
             /\ z.entry = y.entry /\ z.params = y.params /\ z.body = body
  BY <1>4, <1>7 DEF IsJob, JobFields
<1>8. /\ SameJob(job[j], job'[j]) /\ job'[j].mode = "recheck" /\ job'[j].of = of
      /\ job'[j].entry = n /\ job'[j].params = job[j].params /\ job'[j].body = body
  BY ONLY <1>3, <1>4, <1>7 DEF SameJob
<1>9. Changes(j)
  BY ONLY <1>3, <1>8 DEF Changes
<1>10. ModeFits(j)'
  BY <1>2, <1>8, <1>9, ModeFitsOn
<1>11. BodyFits(j)'
  BY <1>0, <1>5, <1>6, <1>8, BodyFound DEF x
<1>12. ReadFits(j)'
  BY <1>1, <1>8 DEF ReadFits, SameJob
<1> QED
  BY <1>2, <1>9, <1>10, <1>11, <1>12, OthersStay

-----------------------------------------------------------------------------
(* The properties of the log.                                              *)

\* Every step of a command.
LEMMA StepLogs == ASSUME CaptureInv, LogInv, NEW j \in Jobs, Step(j) PROVE LogInv'
<1>0. LogsInv /\ CommandsInv
  BY DEF LogInv
<1>1. /\ \A i \in Jobs : Quiet(i)
      /\ partial \subseteq partial' /\ UNCHANGED <<load, sent>>
  BY <1>0, StepQuiet
<1>2. LogsInv' /\ \A i \in Jobs : Retains(i)
  BY <1>0, <1>1, QuietKeeps
<1>3. Carries
  BY <1>0, <1>1, <1>2, QuietCarries
<1>4. CASE Begin(j)
  BY <1>2, <1>3, <1>4, BeginLogs
<1>5. CASE \/ StartCapture(j) \/ PreviousReleased(j) \/ Acquired(j) \/ Enabled(j) \/ Started(j)
  BY <1>2, <1>3, <1>5, StartsLog
<1>6. CASE Refused(j) \/ Missing(j) \/ Stopped(j) \/ SendBodyCommand(j) \/ Answer(j)
  BY <1>2, <1>3, <1>6, ModesLog
<1>7. CASE Stop(j) \/ Clear(j) \/ ExportHAR(j)
  BY <1>2, <1>3, <1>7, OthersLog
<1>8. CASE Read(j)
  BY <1>2, <1>3, <1>8, ReadLogs
<1>9. CASE GetBody(j)
  BY <1>2, <1>3, <1>9, GetBodyLogs
<1>10. CASE BodyAnswered(j)
  BY <1>2, <1>3, <1>10, BodyAnsweredLogs
<1>11. CASE ReleaseEnds(j)
  BY <1>2, <1>3, <1>11, LeaseEndsLogs
<1> QED
  BY <1>4, <1>5, <1>6, <1>7, <1>8, <1>9, <1>10, <1>11 DEF Step

\* A quiet step of no command.
LEMMA IdleLogs ==
    ASSUME CaptureInv, LogInv, \A i \in Jobs : Quiet(i) /\ NoLease(i),
           UNCHANGED <<job, load, sent, partial>>
    PROVE  LogInv'
<1>0. LogsInv
  BY DEF LogInv
<1>1. LogsInv' /\ \A i \in Jobs : Retains(i)
  BY <1>0, QuietKeeps
<1>2. Carries
  BY <1>0, <1>1, QuietCarries
<1>3. \A i \in Jobs : ModeFits(i)' /\ BodyFits(i)' /\ ReadFits(i)'
  BY <1>1, <1>2, CommandStays
<1> QED
  BY <1>1, <1>3 DEF LogInv, CommandsInv

\* The debugger's detachment.
LEMMA DetachLogs == ASSUME CaptureInv, LogInv, NEW j \in Jobs, Detach(j) PROVE LogInv'
<1>1. UNCHANGED <<job, load, sent, partial>> /\ \A i \in Jobs : Quiet(i)
  BY GoneQuiet DEF Detach
<1>2. \A i \in Jobs : NoLease(i)
  BY DEF Detach, NoLease, CaptureInv, CaptureTypes
<1> QED
  BY <1>1, <1>2, IdleLogs

\* The navigation of the tab releases its capture.
LEMMA NavigateLogs == ASSUME CaptureInv, LogInv, NEW t \in Tabs, Navigate(t) PROVE LogInv'
<1>1. UNCHANGED <<job, load, sent, partial>> /\ \A i \in Jobs : Quiet(i)
  BY NavigateQuiet DEF Navigate
<1>2. ASSUME NEW i \in Jobs PROVE NoLease(i)
  <2> DEFINE c == captures[t]
  <2>1. lease' = lease \/ (Awaits(c) /\ lease' = [lease EXCEPT ![c] = "releasing"])
    BY DEF Navigate, ReleaseCapture
  <2>2. Awaits(i) => lease[i] = "held"
    BY DEF CaptureInv, LeaseFits, Awaits
  <2> HIDE DEF c
  <2> QED
    BY <2>1, <2>2 DEF NoLease, CaptureInv, CaptureTypes
<1> QED
  BY <1>1, <1>2, IdleLogs

\* The captures have nothing before Chrome has sent anything.
LEMMA InitLogs == Init => LogInv
<1> SUFFICES ASSUME Init PROVE LogInv
  OBVIOUS
<1>0. CaptureInv
  BY InitKeeps
<1>1. PICK w \in Workloads :
        /\ job = w.commands /\ load = w
        /\ cap = [j \in Jobs |-> [CreateCapture(w.commands[j].tab, 1) EXCEPT !.active = FALSE]]
  BY DEF Init
<1>2. /\ lease = [j \in Jobs |-> "none"] /\ sent = [r \in Requests |-> Unsent] /\ partial = {}
      /\ job \in [Jobs -> Commands] /\ load \in Workloads
  BY <1>1, WorkloadAssumption DEF Init
<1>3. ASSUME NEW j \in Jobs PROVE IsCapture(cap[j]) /\ Fresh(cap[j]) /\ cap[j].active = FALSE
  <2> DEFINE new == CreateCapture(w.commands[j].tab, 1)
  <2>1. cap[j] = [new EXCEPT !.active = FALSE]
    BY <1>1
  <2>2. IsCapture(new) /\ Fresh(new)
    <3>1. Created(CreateCapture(w.commands[j].tab, 1), w.commands[j].tab, 1)
      BY CreatedHead
    <3> QED
      BY <3>1 DEF Created, Fresh, CreateCapture
  <2> HIDE DEF new
  <2>3. IsCapture(cap[j])
    BY <1>0 DEF CaptureInv, JobTypes
  <2> QED
    BY <2>1, <2>2, <2>3 DEF IsCapture, CaptureFields, Fresh
<1>4. SentInv
  <2>1. ASSUME NEW r \in Requests PROVE IsSent(sent[r]) /\ SentFits(r, sent)
    BY <1>2 DEF Unsent, IsSent, SentFits
  <2> QED
    BY <1>2, <2>1 DEF SentInv
<1>5. ASSUME NEW j \in Jobs PROVE LogFits(j) /\ \A r \in Requests : Pairs(j, r)
  <2>1. LogFits(j)
    BY <1>3, FreshFits DEF LogFits
  <2>2. ~Hears(j) /\ cap[j].records = <<>>
    BY <1>3 DEF Hears, Fresh
  <2>3. \A r \in Requests : Extras(cap[j], r) /\ sent[r] = Unsent
    BY <1>2, <2>2, LenProperties DEF Extras
  <2> QED
    BY <2>1, <2>2, <2>3 DEF Pairs
<1>6. ASSUME NEW j \in Jobs PROVE ModeFits(j) /\ BodyFits(j) /\ ReadFits(j)
  <2>1. PICK op \in Ops, tab \in Tabs, mode \in {"new", "failed"} :
          job[j] = [Command(op, tab) EXCEPT !.mode = mode]
    BY <1>2 DEF Commands
  <2>2. /\ job[j].mode \in {"new", "failed"} /\ "direction" \in DOMAIN job[j].params
        /\ job[j].params.cursor = None /\ job[j].params.from = None
        /\ job[j].result.next = None
    BY <2>1 DEF Command
  <2>3. lease[j] = "none"
    BY <1>2
  <2> QED
    BY <2>2, <2>3 DEF ModeFits, BodyFits, ReadFits, None
<1> QED
  BY <1>4, <1>5, <1>6 DEF LogInv, LogsInv, CommandsInv

\* Every step.
LEMMA NextLogs == CaptureInv /\ LogInv /\ [Next]_vars => LogInv'
<1> SUFFICES ASSUME CaptureInv, LogInv, [Next]_vars PROVE LogInv'
  OBVIOUS
<1>1. ASSUME UNCHANGED <<cap, lease, job, load, sent, partial>> PROVE LogInv'
  <2>1. \A i \in Jobs : Quiet(i) /\ NoLease(i)
    BY <1>1, AloneQuiet DEF NoLease, CaptureInv, JobTypes
  <2> QED
    BY <1>1, <2>1, IdleLogs
<1>2. CASE UNCHANGED vars
  BY <1>1, <1>2 DEF vars
<1>3. CASE Tick
  BY <1>1, <1>3 DEF Tick
<1>4. CASE \E j \in Jobs : Step(j) \/ Detach(j)
  BY <1>4, StepLogs, DetachLogs
<1>5. CASE \E r \in Requests : Event(r)
  BY <1>5, EventKeeps
<1>6. CASE \E t \in Tabs : Navigate(t)
  BY <1>6, NavigateLogs
<1> QED
  BY <1>2, <1>3, <1>4, <1>5, <1>6 DEF Next

\* The invariant of the logs and of the commands on them, for every workload.
THEOREM LogInvariant == Spec => [](CaptureInv /\ LogInv)
<1>1. Init => CaptureInv /\ LogInv
  BY InitKeeps, InitLogs
<1>2. (CaptureInv /\ LogInv) /\ [Next]_vars => (CaptureInv /\ LogInv)'
  BY NextKeeps, NextLogs
<1> QED
  BY <1>1, <1>2, PTL DEF Spec

\* The counters of a log agree with what it holds and its indexes name only entries in it, and
\* both limits hold, whatever Chrome sends, and whichever captures are released or cleared.
THEOREM LogsAreConsistent == Spec => []LogConsistent
<1>1. ASSUME LogInv PROVE LogConsistent
  <2> SUFFICES ASSUME NEW j \in Jobs, NEW c, c = cap[j]
               PROVE  /\ c.bufferedBytes = Sum(c, Range(c.entries))
                      /\ c.bufferedBytes <= MAX_BUFFER_BYTES /\ Len(c.entries) <= MAX_ENTRIES
                      /\ c.byEntryId \subseteq Range(c.entries)
                      /\ \A r \in Requests :
                            /\ c.currentByRequest[r] \in Range(c.entries) \cup {None}
                            /\ c.recordsByRequest[r] \subseteq Range(c.entries)
                      /\ c.pendingExtraEvents = SumFunction(Queues(c))
    BY DEF LogConsistent, Queues
  <2>1. Shape(c) /\ Limits(c)
    BY <1>1 DEF LogInv, LogsInv, LogFits
  <2>2. Range(c.entries) = Held(c)
    BY <2>1, HeldIs DEF Shape
  <2>3. c.bufferedBytes = Sum(c, Range(c.entries))
    BY <2>1, <2>2 DEF Shape
  <2>4. c.pendingExtraEvents = SumFunction(Queues(c))
    <3>1. DOMAIN Queues(c) = Kinds \X Requests
      BY DEF Queues
    <3> QED
      BY <2>1, <3>1 DEF Shape, Pending, SumFunction
  <2>5. /\ c.byEntryId \subseteq Held(c)
        /\ \A r \in Requests :
              /\ c.currentByRequest[r] \in Held(c) \cup {None}
              /\ c.recordsByRequest[r] \subseteq Held(c)
    BY <2>1 DEF Shape, Indexes
  <2> QED
    BY <2>1, <2>2, <2>3, <2>4, <2>5 DEF Limits
<1> QED
  BY <1>1, LogInvariant, PTL

\* The extra headers of an entry are those of its own redirect hop.
THEOREM ExtrasArePaired == Spec => []ExtrasPaired
<1>1. ASSUME LogInv PROVE ExtrasPaired
  <2> SUFFICES ASSUME NEW j \in Jobs, NEW n \in 1..Len(cap[j].records), NEW r,
                      r = cap[j].records[n].request, <<j, r>> \notin partial, Regular(r),
                      NEW k \in Kinds
               PROVE  cap[j].records[n].extra[k] \in {None, cap[j].records[n].hop}
    BY DEF ExtrasPaired
  <2>1. LogFits(j) /\ \A q \in Requests : Pairs(j, q)
    BY <1>1 DEF LogInv, LogsInv
  <2>2. r \in Requests
    BY <2>1 DEF LogFits, Shape, Records, IsRecord
  <2>3. Extras(cap[j], r)
    BY <2>1, <2>2 DEF Pairs
  <2> QED
    BY <2>3 DEF Extras
<1> QED
  BY <1>1, LogInvariant, PTL

\* The response body that getBody answers with is the one of the entry that it was asked for.
THEOREM ResponseBodiesAreOfEntries == Spec => []ResponseBodyIsOfEntry
<1>1. LogInv => ResponseBodyIsOfEntry
  BY DEF LogInv, CommandsInv, BodyFits, ResponseBodyIsOfEntry
<1> QED
  BY <1>1, LogInvariant, PTL

\* A client that follows the cursor of a read misses no entry without being told.
THEOREM ReadsMissNothing == Spec => []ReadsHaveNoHole
<1>1. LogInv => ReadsHaveNoHole
  BY DEF LogInv, CommandsInv, ReadFits, ReadsHaveNoHole
<1> QED
  BY <1>1, LogInvariant, PTL
=============================================================================
