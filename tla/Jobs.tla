-------------------------------- MODULE Jobs --------------------------------
(***************************************************************************)
(* The requests that the extension executes: CommandRouter.execute, and    *)
(* the handlers that it calls, as they overlap on one tab.                 *)
(*                                                                         *)
(* A handler is a program, the sequence of what it awaits: Chrome's answer *)
(* about the tab, its site access or its document, a turn in a queue, a    *)
(* lease of the tab's CDP session, a CDP command, a message to the page's  *)
(* content script, an event or a pause.  Between two of them everything    *)
(* else can happen: another handler's step, a navigation, the cancellation *)
(* of the request, its timeout, the user detaching the debugger.           *)
(*                                                                         *)
(* The lease is what CDPSessions describes: acquiring joins or attaches,   *)
(* the last release detaches, and what was enabled in a session ends with  *)
(* it.  Chrome executes the commands of a session in the order in which    *)
(* they were sent, whether or not anyone still waits for the answer.       *)
(***************************************************************************)
EXTENDS Integers, Sequences, FiniteSets

CONSTANTS
    Jobs,          \* the requests
    Workloads,     \* what the requests run together, and in which browser
    Groups,        \* sequence: the overrides that emulation.js resets, in its order
    MaxDocument    \* bound: the documents that the tab shows, one after the other

ASSUME JobsAssumption == /\ IsFiniteSet(Jobs) /\ "emulation" \notin Jobs /\ "keeper" \notin Jobs
                         /\ Len(Groups) \in Nat \ {0} /\ MaxDocument \in Nat \ {0}

VARIABLES
    doc,        \* the tab's root document
    granted,    \* the documents whose site the extension may access
    active,     \* the tab that is active in the window
    holders,    \* the consumers with a lease of the CDP session
    on,         \* what is enabled in the session
    lost,       \* of it: what a command enabled for which no handler waited any more
    overrides,  \* the emulation that the session applies, by group
    emulated,   \* states.get(tabId).settings of emulation.js
    spoiled,    \* a reset was aborted, and the overrides were not replaced since
    wire,       \* the commands that Chrome has not executed yet
    turn,       \* the queues of emulation.js and of viewport captures
    tracing,    \* the request that Chrome owes a Tracing.tracingComplete
    streams,    \* the trace streams that are open, by the request that traced
    job         \* the requests

vars == <<doc, granted, active, holders, on, lost, overrides, emulated, spoiled,
          wire, turn, tracing, streams, job>>
chrome == <<on, lost, overrides, wire, tracing, streams>>

None == "none"
Documents == 1..MaxDocument
NoSettings == [g \in 1..Len(Groups) |-> None]
Tabs == {"user", "first", "second"}

----------------------------------------------------------------------------
(* The steps of a handler.  A live step is followed by throwIfCancelled.   *)

Do(op, arg) == [op |-> op, arg |-> arg, live |-> FALSE]
Live(step) == [step EXCEPT !.live = TRUE]

Access == Do("access", None)          \* resolveTab and assertPageAccess
Pin == Do("pin", None)                \* resolveRootDocument, for the first time
Stay == Do("stay", None)              \* the document again, and assertFreshDocument
Call == Do("call", None)              \* a question to Chrome
Change == Do("change", None)          \* an extension API that changes the browser
Acquire == Do("acquire", None)
Release == Do("release", None)
Read == Do("read", None)              \* a CDP command that reads the page
Page == Do("page", None)              \* bridge.execute, or a script, in the pinned document
Pause == Do("pause", None)            \* a capture runs, of what the page does
On(thing) == Do("on", thing)
Off(thing) == Do("off", thing)
Recheck == <<Access, Stay>>

----------------------------------------------------------------------------
(* The handlers.                                                           *)

Dispatch == <<Live(Call)>>

Prepare == <<Access, Live(Pin)>>

Metrics == Prepare \o <<Acquire>> \o Recheck \o <<Read>> \o Recheck \o <<Release>>

SendReadOnly == Prepare \o <<Acquire>> \o Recheck \o <<Read>> \o Recheck \o <<Release>>

CaptureTrace == <<On("tracing"), Pause, Off("tracing"), Do("completed", None)>>
ReadTraceStream == <<Do("readStream", None), Do("closeStream", None)>>

CaptureCoverage == <<On("profiler"), On("coverage"), Pause, Do("take", "coverage"),
                     Off("coverage"), Off("profiler")>>

CaptureCPUProfile == <<On("profiler"), Read, On("profile"), Pause, Off("profile"),
                       Off("profiler")>>

CaptureAudits == <<On("audits"), Pause>> \o Recheck \o <<Off("audits")>>

Capture(steps) == Prepare \o <<Acquire>> \o Recheck \o steps \o Recheck \o <<Release>>

Evaluate ==
    Prepare \o <<Acquire, Read>> \o Recheck \o <<Read>> \o Recheck
    \o <<Do("evaluate", "objects"), Do("close", "objects"), Release>> \o Recheck

References == <<Do("references", None)>>
GetTree ==
    Prepare \o <<Acquire, Access, Live(Stay), Read, Read, Live(Stay)>>
    \o References \o <<Release>>

CDPScreenshot ==
    <<Live(Access), Live(Call), Acquire, Access, Live(Pin), Read, Page, Stay, Read,
      Live(Read), Read, Access, Live(Stay), Release>>

PrintToPDF == <<Live(Access), Live(Call), Acquire, Live(Access), Live(Read), Release>>

ViewportScreenshot(tab) ==
    <<Live(Access), Live(Do("lock", "window")), Live(Do("query", tab)),
      Live(Do("activate", tab)), Do("activated", tab), Live(Access), Live(Do("shoot", tab))>>

Press == Do("press", "button")
DispatchClick == <<Press, Off("button")>>
TrustedInput(navigates) ==
    <<Live(Call), Acquire, Live(Page)>> \o DispatchClick
    \o (IF navigates THEN <<Release>> ELSE <<Page, Release>>)

PageCommand == <<Live(Access), Live(Pin), Page>>
ClickAndStay == <<Live(Access), Live(Pin)>> \o TrustedInput(FALSE) \o Recheck
ClickAndNavigate ==
    <<Live(Access), Live(Pin), Do("watch", None)>> \o TrustedInput(TRUE)
    \o <<Do("navigated", None)>>
Wait == <<Live(Access), Live(Pin), Do("watch", None), Do("navigated", None)>>

\* cookies.js: the store of the cookies is looked up with the document, and again after the call.
CookieTarget == <<Access, Pin, Live(Call)>>
CookieRecheck == Recheck \o <<Call>>
ReadCookies == CookieTarget \o <<Live(Call)>> \o CookieRecheck
ReadSensitiveCookies == CookieTarget \o <<Call, Live(Call)>> \o CookieRecheck
ChangeCookie == CookieTarget \o <<Live(Change)>> \o CookieRecheck

\* A script in the page reads or changes its storage, which is no part of the state here; it goes
\* on in the page when an abort ends the wait for it.
Storage == Prepare \o <<Page>> \o Recheck

\* Downloads, history, bookmarks and the reading list: the permission is asked for before and after.
Permitted(steps) == <<Call>> \o steps \o <<Call>>
ListDownloads == Permitted(<<Live(Call)>>)
CreateDownload == Permitted(<<Live(Change)>>)
ControlDownload == Permitted(<<Call, Live(Change), Call>>)
EraseDownload == Permitted(<<Call, Live(Change)>>)
SearchHistory == Permitted(<<Live(Call)>>)
DeleteURL == Permitted(<<Call, Live(Change)>>)
DeleteRange == Permitted(<<Live(Change)>>)
ListBookmarks == Permitted(<<Live(Call)>>)
ChangeBookmark == Permitted(<<Live(Change)>>)
RemoveBookmark == Permitted(<<Call, Live(Change)>>)
ListReadingList == Permitted(<<Live(Call)>>)
ChangeReadingList == Permitted(<<Live(Change), Live(Call)>>)
RemoveReadingList == Permitted(<<Call, Live(Change)>>)

ResetOperations == [g \in 1..Len(Groups) |-> Do("reset", g)]
ApplySettings(settings) ==
    LET chosen == SelectSeq([g \in 1..Len(Groups) |-> g], LAMBDA g : Groups[g] \in settings)
    IN  [i \in 1..Len(chosen) |-> Do("set", chosen[i])]

\* Emulation.execute, and replaceEmulation, resetEmulation or emulationResult in it.
InTurn(steps) ==
    Prepare \o <<Live(Do("lock", "tab")), Access, Live(Stay)>> \o steps
ReplaceEmulation(settings) ==
    InTurn(<<Do("adopt", None)>> \o ResetOperations \o ApplySettings(settings)
           \o <<Access, Do("commit", settings)>>)
GetEmulation == InTurn(<<>>)
ResetEmulation == <<Call, Live(Do("lock", "tab")), Do("disown", None)>> \o ResetOperations

Program(kind) == Dispatch \o
    CASE kind = "metrics" -> Metrics
      [] kind = "rawCDP" -> SendReadOnly
      [] kind = "trace" -> Capture(CaptureTrace \o ReadTraceStream)
      [] kind = "coverage" -> Capture(CaptureCoverage)
      [] kind = "cpuProfile" -> Capture(CaptureCPUProfile)
      [] kind = "audits" -> Capture(CaptureAudits)
      [] kind = "evaluate" -> Evaluate
      [] kind = "getTree" -> GetTree
      [] kind = "screenshot" -> CDPScreenshot
      [] kind = "pdf" -> PrintToPDF
      [] kind = "viewport1" -> ViewportScreenshot("first")
      [] kind = "viewport2" -> ViewportScreenshot("second")
      [] kind = "page" -> PageCommand
      [] kind = "click" -> ClickAndStay
      [] kind = "clickNavigates" -> ClickAndNavigate
      [] kind = "wait" -> Wait
      [] kind = "readCookies" -> ReadCookies
      [] kind = "readSensitiveCookies" -> ReadSensitiveCookies
      [] kind = "changeCookie" -> ChangeCookie
      [] kind = "storage" -> Storage
      [] kind = "listDownloads" -> ListDownloads
      [] kind = "createDownload" -> CreateDownload
      [] kind = "controlDownload" -> ControlDownload
      [] kind = "eraseDownload" -> EraseDownload
      [] kind = "searchHistory" -> SearchHistory
      [] kind = "deleteURL" -> DeleteURL
      [] kind = "deleteRange" -> DeleteRange
      [] kind = "listBookmarks" -> ListBookmarks
      [] kind = "changeBookmark" -> ChangeBookmark
      [] kind = "removeBookmark" -> RemoveBookmark
      [] kind = "listReadingList" -> ListReadingList
      [] kind = "changeReadingList" -> ChangeReadingList
      [] kind = "removeReadingList" -> RemoveReadingList
      [] kind = "setFirst" -> ReplaceEmulation({Groups[1]})
      [] kind = "setAll" -> ReplaceEmulation({Groups[g] : g \in 1..Len(Groups)})
      [] kind = "get" -> GetEmulation
      [] kind = "reset" -> ResetEmulation
      [] OTHER -> <<>>

\* Whose withTimeout answers at once, with Promise.race, and lets the operation end by itself.
Races(kind) ==
    \/ kind \in {"evaluate", "getTree", "screenshot", "pdf", "viewport1", "viewport2", "page",
                 "click", "clickNavigates", "wait", "setFirst", "setAll", "get", "reset"}
    \/ kind \in {"listDownloads", "createDownload", "controlDownload", "eraseDownload"}

\* A workload: the handler of every request, whether their targets name the document, whether
\* another consumer keeps the CDP session, and the documents whose site is accessible.
Workload(run, named, kept, access) ==
    [run |-> run, named |-> named, kept |-> kept, access |-> access]

Kinds == {w.run[j] : w \in Workloads, j \in Jobs}
Steps == [kind \in Kinds |-> Program(kind)]

\* Handlers that promise the document that they looked up first, or the one that the target named.
Pinning == Kinds \ {"pdf", "viewport1", "viewport2", None}

\* Where the steps of a handler are.
Places(kind, ops) == {i \in 1..Len(Steps[kind]) : Steps[kind][i].op \in ops}

\* The steps that find the document to be the pinned one, after one that found its site accessible.
Confirming(kind) ==
    {s \in Places(kind, {"stay"}) :
        \E p \in Places(kind, {"pin"}), a \in Places(kind, {"access"}) : p < a /\ a < s}

\* What the programs above have in common.  A handler that pins a document pins one; what it
\* reads, it reads after that, and confirms the document later; it takes no picture of whatever
\* tab is active; and a handler that may end early (disown) pins nothing, so it reads nothing.
ASSUME ProgramsAssumption ==
    \A kind \in Kinds :
       /\ Len(Steps[kind]) \in Nat
       /\ kind \in Pinning =>
            /\ \A p, q \in Places(kind, {"pin"}) : p = q
            /\ \A i \in Places(kind, {"read", "take", "evaluate", "pause"}) :
                  (\A p \in Places(kind, {"pin"}) : p < i) /\ \E s \in Confirming(kind) : i < s
            /\ Places(kind, {"shoot"}) = {}
            /\ Places(kind, {"disown"}) # {} => Places(kind, {"pin"}) = {}

\* The steps after which a finally block has something to do, and those that do it before.
Opens(kind) == Places(kind, {"on", "evaluate", "completed"})
Closes(kind) == Places(kind, {"off", "close", "closeStream"})
Closed(kind, p, q) ==
    \E c \in Closes(kind) : p < c /\ c < q /\ Steps[kind][c].arg = Steps[kind][p].arg
Enables(kind) == Places(kind, {"on", "evaluate"}) # {}
Emulates(kind) == Places(kind, {"adopt", "disown"}) # {}

\* A handler closes what it opened, the last first, and all of it before it gives up its lease;
\* it activates a tab in its turn, having looked which one is active; and the handlers of
\* emulation.js, whose finally blocks have a list of their own, do neither.
ASSUME FinallyAssumption ==
    \A kind \in Kinds :
       /\ \A p \in Opens(kind), q \in Places(kind, {"release"}) : p < q => Closed(kind, p, q)
       /\ \A p, o \in Opens(kind), q \in Closes(kind) :
             p < o /\ o < q /\ Steps[kind][p].arg = Steps[kind][q].arg => Closed(kind, o, q)
       /\ \A p \in Opens(kind) \cup Closes(kind) :
             Steps[kind][p].arg = None <=> Steps[kind][p].op \in {"completed", "closeStream"}
       /\ \A a \in Places(kind, {"query", "activate"}) :
             \E l \in Places(kind, {"lock"}) : l < a /\ Steps[kind][l].arg = "window"
       /\ \A q \in Places(kind, {"query"}), a \in Places(kind, {"activate"}) : q < a
       /\ Emulates(kind) => Opens(kind) = {} /\ Closes(kind) = {} /\ Places(kind, {"activate"}) = {}
       /\ Places(kind, {"activate"}) # {} => Opens(kind) = {} /\ Closes(kind) = {}
       /\ \A l \in Places(kind, {"lock"}) : l < Len(Steps[kind])

\* A handler of emulation.js changes overrides in its turn, after it took or gave up the tab's
\* state; it resets all of them, each before it sets it; and it commits what it has set, at the end.
ASSUME EmulationAssumption ==
    \A kind \in Kinds :
       /\ Places(kind, {"set", "reset", "commit"}) # {} => Emulates(kind)
       /\ \A a \in Places(kind, {"adopt", "disown"}) :
            /\ \E l \in Places(kind, {"lock"}) : l < a /\ Steps[kind][l].arg = "tab"
            /\ \A p \in Places(kind, {"set", "reset", "commit"}) : a < p
            /\ \A g \in 1..Len(Groups) : \E p \in Places(kind, {"reset"}) : Steps[kind][p].arg = g
       /\ \A p \in Places(kind, {"reset"}), s \in Places(kind, {"set"}) :
             Steps[kind][p].arg = Steps[kind][s].arg => p < s
       /\ \A c \in Places(kind, {"commit"}) :
            /\ \A p \in Places(kind, {"set", "reset", "commit"}) : p <= c
            /\ \A g \in 1..Len(Groups) : Groups[g] \in Steps[kind][c].arg <=>
                  \E s \in Places(kind, {"set"}) : Steps[kind][s].arg = g
       /\ Places(kind, {"adopt"}) # {} <=> Places(kind, {"commit"}) # {}
       /\ Places(kind, {"disown"}) # {} => kind = "reset" /\ Places(kind, {"set", "commit"}) = {}
       /\ kind = "get" => ~Emulates(kind)

----------------------------------------------------------------------------
(* What a step makes of a request's record r.                              *)

BestEffort == {"close", "closeStream"}
Commands == {"read", "on", "off", "press", "take", "evaluate", "set", "reset", "readStream"}
            \cup BestEffort

Here(r) == Steps[r.kind][r.pc]
At(j, ops) == job[j].mode = "run" /\ job[j].pc <= Len(Steps[job[j].kind])
              /\ Here(job[j]).op \in ops
Unwinding(j) == \/ job[j].mode = "undo"
                \/ job[j].mode = "run" /\ job[j].pc > Len(Steps[job[j].kind])

Aborted(r) == r.abort # "no"
\* A request that failed has no use for what it has read.
Failed(r) == [r EXCEPT !.mode = "undo", !.failed = TRUE, !.pc = Len(Steps[r.kind]) + 1,
                       !.want = 0, !.pin = 0, !.reads = {}]
After(r) == IF Here(r).live /\ Aborted(r) THEN Failed(r)
                                          ELSE [r EXCEPT !.pc = @ + 1, !.mode = "run"]
Push(r, step) == [r EXCEPT !.undo = <<step>> \o @]
\* The finally blocks are nested: what is turned off is what was turned on last.
Without(r, arg) == [r EXCEPT !.undo = IF @ # <<>> /\ Head(@).arg = arg THEN Tail(@) ELSE @]

Becomes(j, r) == job' = [job EXCEPT ![j] = r]
Lease(j, step) == IF step.op \in {"set", "reset"} THEN "emulation" ELSE j

\* releaseConsumer: the last consumer's release detaches the debugger.
LeaveSession(who) ==
    /\ holders' = holders \ who
    /\ IF holders' = {}
       THEN /\ on' = {} /\ lost' = {} /\ wire' = <<>> /\ streams' = {}
            /\ overrides' = NoSettings /\ tracing' = None
       ELSE UNCHANGED chrome

----------------------------------------------------------------------------
(* The request's life in CommandRouter and withTimeout.                    *)

Begin(j) ==
    /\ job[j].mode = "new"
    /\ Becomes(j, [job[j] EXCEPT !.mode = "run", !.want = IF @ = 0 THEN 0 ELSE doc])
    /\ UNCHANGED <<doc, granted, active, holders, emulated, spoiled, turn, chrome>>

\* Not between an answer and the command that the handler sends on it in the same task.
Abort(j, why) ==
    /\ job[j].mode \notin {"new", "done"} /\ job[j].answer = None
    /\ ~Aborted(job[j]) /\ ~At(j, Commands)
    /\ Becomes(j, [job[j] EXCEPT !.abort = why,
                   !.answer = IF Races(job[j].kind) /\ job[j].pc > 1 THEN "error" ELSE @])
    /\ UNCHANGED <<doc, granted, active, holders, emulated, spoiled, turn, chrome>>
Cancel(j) == Abort(j, "cancel")
Timeout(j) == job[j].pc > 1 /\ Abort(j, "timeout")

----------------------------------------------------------------------------
(* Chrome's answers to what cannot be aborted.                             *)

\* Fault: the document found again is not compared with the pinned one.
AnsweredStale(j, r) ==
    LET step == Here(r)
    IN  CASE step.op = "access" -> doc \in granted
          [] step.op = "pin" -> r.want \in {0, doc}
          [] step.op = "activated" -> active = step.arg
          [] OTHER -> TRUE

Answered(j, r) ==
    LET step == Here(r)
    IN  CASE step.op = "access" -> doc \in granted
          [] step.op = "pin" -> r.want \in {0, doc}
          [] step.op = "stay" -> r.pin = doc
          [] step.op = "activated" -> active = step.arg
          [] OTHER -> TRUE

Learned(r) ==
    CASE Here(r).op = "pin" -> [r EXCEPT !.pin = doc]
      [] Here(r).op = "watch" -> [r EXCEPT !.seen = "armed"]
      [] Here(r).op = "query" -> [r EXCEPT !.original = active]
      [] Here(r).op = "shoot" -> [r EXCEPT !.reads = @ \cup {IF active = Here(r).arg THEN doc ELSE 0}]
      [] OTHER -> r

Ask(j) ==
    /\ At(j, {"access", "pin", "stay", "call", "change", "query", "activated", "shoot", "watch"})
    /\ \/ Answered(j, job[j]) /\ Becomes(j, After(Learned(job[j])))
       \/ Becomes(j, Failed(job[j]))
    /\ UNCHANGED <<doc, granted, active, holders, emulated, spoiled, turn, chrome>>

\* chrome.tabs.update, if the tab is not the active one already.
Activate(j) ==
    /\ At(j, {"activate"})
    /\ LET r == job[j]
           tab == Here(r).arg
       IN  IF r.original = tab
           THEN active' = active /\ Becomes(j, [r EXCEPT !.pc = @ + 1])
           ELSE active' = tab /\ Becomes(j, After(Push(r, Do("restore", r.original))))
    /\ UNCHANGED <<doc, granted, holders, emulated, spoiled, turn, chrome>>

\* serializeTab and withCaptureLock.
Join(j) ==
    /\ At(j, {"lock"})
    /\ LET q == Here(job[j]).arg
       IN  /\ \A i \in 1..Len(turn[q]) : turn[q][i] # j
           /\ turn' = [turn EXCEPT ![q] = Append(@, j)]
    /\ UNCHANGED <<doc, granted, active, holders, emulated, spoiled, chrome, job>>

\* resetEmulation begins: nothing to do without a state; otherwise it is dropped in any case.
Disowned(r) ==
    IF "emulation" \in holders
    THEN [r EXCEPT !.pc = @ + 1, !.undo = <<Do("drop", None)>>]
    ELSE [r EXCEPT !.pc = Len(Steps[r.kind]) + 1]

First(j, q) == turn[q] # <<>> /\ Head(turn[q]) = j
Enter(j) ==
    /\ At(j, {"lock"})
    /\ First(j, Here(job[j]).arg)
    /\ LET r == After(job[j])
       IN  Becomes(j, IF r.mode = "run" /\ Here(r).op = "disown" THEN Disowned(r) ELSE r)
    /\ UNCHANGED <<doc, granted, active, holders, emulated, spoiled, turn, chrome>>

----------------------------------------------------------------------------
(* Leases and commands of the CDP session.                                 *)

AcquireLease(j) ==
    /\ At(j, {"acquire"})
    /\ \/ /\ ~Aborted(job[j])
          /\ holders' = holders \cup {j}
          /\ Becomes(j, After(job[j]))
       \/ UNCHANGED holders /\ Becomes(j, Failed(job[j]))
    /\ UNCHANGED <<doc, granted, active, emulated, spoiled, turn, chrome>>

ReleaseLease(j) ==
    /\ At(j, {"release"})
    /\ LeaveSession({j})
    /\ Becomes(j, After(job[j]))
    /\ UNCHANGED <<doc, granted, active, emulated, spoiled, turn>>

\* Fault: the finally block only drops the state.
AdoptWithoutResets(j) ==
    /\ At(j, {"adopt"})
    /\ \/ /\ "emulation" \in holders \/ ~Aborted(job[j])
          /\ holders' = holders \cup {"emulation"}
          /\ Becomes(j, After([job[j] EXCEPT !.undo = <<Do("drop", None)>>]))
       \/ /\ "emulation" \notin holders
          /\ UNCHANGED holders /\ Becomes(j, Failed(job[j]))
    /\ UNCHANGED <<doc, granted, active, emulated, spoiled, turn, chrome>>

\* replaceEmulation up to its try block: the state of the tab, made if there is none.
Adopt(j) ==
    /\ At(j, {"adopt"})
    /\ \/ /\ "emulation" \in holders \/ ~Aborted(job[j])
          /\ holders' = holders \cup {"emulation"}
          /\ Becomes(j, After([job[j] EXCEPT !.undo = ResetOperations \o <<Do("drop", None)>>]))
       \/ /\ "emulation" \notin holders
          /\ UNCHANGED holders /\ Becomes(j, Failed(job[j]))
    /\ UNCHANGED <<doc, granted, active, emulated, spoiled, turn, chrome>>

\* The end of replaceEmulation: the document again, and the settings are the state's.
Commit(j) ==
    /\ At(j, {"commit"})
    /\ IF job[j].pin = doc /\ ~Aborted(job[j])
       THEN /\ emulated' = IF "emulation" \in holders
                           THEN [g \in 1..Len(Groups) |->
                                    IF Groups[g] \in Here(job[j]).arg THEN job[j].kind ELSE None]
                           ELSE emulated
            /\ spoiled' = FALSE
            /\ Becomes(j, [After(job[j]) EXCEPT !.undo = <<>>])
       ELSE UNCHANGED <<emulated, spoiled>> /\ Becomes(j, Failed(job[j]))
    /\ UNCHANGED <<doc, granted, active, holders, turn, chrome>>

\* lease.sendCommand: refused without an active lease, and once its signal is aborted.
Send(j) ==
    /\ At(j, Commands)
    /\ LET step == Here(job[j])
           r == IF step.op = "evaluate" THEN Push(job[j], Off(step.arg)) ELSE job[j]
           refused == \/ Lease(j, step) \notin holders
                      \/ Aborted(r) /\ step.op \notin BestEffort
       IN  \/ /\ refused
              /\ Becomes(j, IF step.op \in BestEffort THEN After(Without(r, step.arg)) ELSE Failed(r))
              /\ UNCHANGED wire
           \/ /\ ~refused
              /\ Becomes(j, [r EXCEPT !.mode = "wait"])
              /\ wire' = Append(wire, [by |-> j, step |-> step, live |-> TRUE])
    /\ UNCHANGED <<doc, granted, active, holders, on, lost, overrides, emulated, spoiled, turn,
                   tracing, streams>>

\* The signal rejects the wait for a command's result; the command itself is on its way.
Abandon(j) ==
    /\ job[j].mode = "wait" /\ Aborted(job[j])
    /\ Here(job[j]).op \notin BestEffort
    /\ Becomes(j, Failed(job[j]))
    /\ wire' = [i \in 1..Len(wire) |-> IF wire[i].by = j THEN [wire[i] EXCEPT !.live = FALSE]
                                                          ELSE wire[i]]
    /\ UNCHANGED <<doc, granted, active, holders, on, lost, overrides, emulated, spoiled, turn,
                   tracing, streams>>

----------------------------------------------------------------------------
(* Chrome executes the next command.                                       *)

\* Profiler.disable also ends what runs in the domain.
Ends(thing) == IF thing = "profiler" THEN {"profiler", "coverage", "profile"} ELSE {thing}

Possible(c) ==
    LET step == c.step
    IN  CASE step.op \in {"on", "press"} ->
                /\ step.arg = "tracing" => "tracing" \notin on /\ tracing = None
                /\ step.arg \in {"coverage", "profile"} => "profiler" \in on
          [] step.op = "take" -> step.arg \in on
          [] step.op = "off" -> step.arg \in {"tracing", "profile"} => step.arg \in on
          [] step.op = "readStream" -> job[c.by].seen \in streams
          [] OTHER -> TRUE
Certain == {"off", "set", "reset", "close", "closeStream"}   \* what Chrome does not refuse

Effect(c) ==
    LET step == c.step
    IN  /\ on' = CASE step.op \in {"on", "press", "evaluate"} -> on \cup {step.arg}
                   [] step.op \in {"off", "close"} -> on \ Ends(step.arg)
                   [] OTHER -> on
        /\ lost' = CASE step.op \in {"on", "press", "evaluate"} ->
                          IF c.live /\ step.op # "press" THEN lost ELSE lost \cup {step.arg}
                     [] step.op \in {"off", "close"} -> lost \ Ends(step.arg)
                     [] OTHER -> lost
        /\ overrides' = IF step.op \in {"set", "reset"}
                        THEN [overrides EXCEPT ![step.arg] =
                                 IF step.op = "set" THEN job[c.by].kind ELSE None]
                        ELSE overrides
        /\ tracing' = IF step.op = "off" /\ step.arg = "tracing" THEN c.by ELSE tracing
        /\ streams' = IF step.op = "closeStream" THEN streams \ {job[c.by].seen} ELSE streams

\* Fault: the flag that makes the finally block disable the audits is not set.
ReturnedUnmarked(r) ==
    CASE Here(r).op \in {"read", "take", "evaluate"} -> After([r EXCEPT !.reads = @ \cup {doc}])
      [] Here(r).op = "on" /\ Here(r).arg # "audits" -> After(Push(r, Off(Here(r).arg)))
      [] Here(r).op \in {"off", "close", "closeStream"} -> After(Without(r, Here(r).arg))
      [] OTHER -> After(r)

Returned(r) ==
    CASE Here(r).op \in {"read", "take", "evaluate"} -> After([r EXCEPT !.reads = @ \cup {doc}])
      [] Here(r).op = "on" -> After(Push(r, Off(Here(r).arg)))
      [] Here(r).op \in {"off", "close", "closeStream"} -> After(Without(r, Here(r).arg))
      [] OTHER -> After(r)

Popped(r) == [r EXCEPT !.undo = Tail(@), !.mode = "undo"]

\* What the request makes of the outcome, if it still waits for it.
Resume(c, ok) ==
    LET r == job[c.by]
    IN  job' = IF ~c.live THEN job
               ELSE [job EXCEPT ![c.by] =
                        IF r.mode = "undoing" THEN Popped(r)
                        ELSE IF ok THEN Returned(r) ELSE Failed(r)]

Execute ==
    /\ wire # <<>>
    /\ wire' = Tail(wire)
    /\ LET c == Head(wire)
       IN  \/ Possible(c) /\ Effect(c) /\ Resume(c, TRUE)
           \/ /\ ~Possible(c) \/ c.step.op \notin Certain
              /\ UNCHANGED <<on, lost, overrides, tracing, streams>>
              /\ Resume(c, FALSE)
    /\ UNCHANGED <<doc, granted, active, holders, emulated, spoiled, turn>>

\* Tracing.tracingComplete reaches every trace whose lease listens for it.
Complete ==
    /\ tracing # None
    /\ tracing' = None
    /\ streams' = streams \cup {tracing}
    /\ job' = [j \in Jobs |-> IF job[j].kind = "trace" /\ j \in holders /\ job[j].seen = None
                              THEN [job[j] EXCEPT !.seen = tracing] ELSE job[j]]
    /\ UNCHANGED <<doc, granted, active, holders, on, lost, overrides, emulated, spoiled, wire, turn>>

----------------------------------------------------------------------------
(* The other waits, which the signal ends.                                 *)

Listen(j) ==
    /\ At(j, {"completed", "navigated", "pause"})
    /\ LET r == job[j]
       IN  \/ Aborted(r) /\ Becomes(j, Failed(r))
           \/ /\ ~Aborted(r)
              /\ CASE Here(r).op = "completed" ->
                        r.seen # None /\ Becomes(j, After(Push(r, Do("closeStream", None))))
                   [] Here(r).op = "navigated" -> r.seen = "moved" /\ Becomes(j, After(r))
                   [] OTHER -> Becomes(j, After([r EXCEPT !.reads = @ \cup {doc}]))
    /\ UNCHANGED <<doc, granted, active, holders, emulated, spoiled, turn, chrome>>

\* ContentScriptBridge.execute and scripting.executeScript, addressed to the pinned document.
\* Chrome injects no script into a site without access.
TalkToPage(j) ==
    /\ At(j, {"page", "references"})
    /\ LET r == job[j]
       IN  \/ /\ ~Aborted(r) /\ doc = r.pin /\ doc \in granted
              /\ Becomes(j, After([r EXCEPT !.reads = @ \cup {doc}]))
           \/ /\ Here(r).op = "references" /\ ~Aborted(r)
              /\ Becomes(j, After(r))
           \/ /\ Here(r).op = "page" \/ Aborted(r)
              /\ Becomes(j, Failed(r))
    /\ UNCHANGED <<doc, granted, active, holders, emulated, spoiled, turn, chrome>>

----------------------------------------------------------------------------
(* The finally blocks, without a signal, and the answer.                   *)

Undo(j) ==
    /\ Unwinding(j)
    /\ job[j].undo # <<>>
    /\ LET r == job[j]
           step == Head(r.undo)
       IN  CASE step.op = "restore" ->
                  /\ active' = step.arg /\ Becomes(j, Popped(r))
                  /\ UNCHANGED <<holders, emulated, chrome>>
             [] step.op = "drop" ->
                  /\ LeaveSession({"emulation"})
                  /\ emulated' = NoSettings
                  /\ Becomes(j, Popped(r))
                  /\ UNCHANGED active
             [] OTHER ->
                  /\ IF Lease(j, step) \in holders
                     THEN /\ Becomes(j, [r EXCEPT !.mode = "undoing"])
                          /\ wire' = Append(wire, [by |-> j, step |-> step, live |-> TRUE])
                     ELSE Becomes(j, Popped(r)) /\ UNCHANGED wire
                  /\ UNCHANGED <<active, holders, emulated, on, lost, overrides, tracing, streams>>
    /\ UNCHANGED <<doc, granted, spoiled, turn>>

\* Fault: the turn is not given up.
FinishKeepsTurn(j) ==
    /\ Unwinding(j)
    /\ job[j].undo = <<>>
    /\ LeaveSession({j})
    /\ Becomes(j, [job[j] EXCEPT !.mode = "done", !.answer = IF @ = None THEN "ok" ELSE @])
    /\ UNCHANGED <<doc, granted, active, emulated, spoiled, turn>>

Finish(j) ==
    /\ Unwinding(j)
    /\ job[j].undo = <<>>
    /\ LeaveSession({j})
    /\ turn' = [q \in DOMAIN turn |-> IF First(j, q) THEN Tail(turn[q]) ELSE turn[q]]
    /\ spoiled' = (spoiled \/ (job[j].kind = "reset" /\ job[j].failed))
    /\ LET r == job[j]
       IN  Becomes(j, [r EXCEPT !.mode = "done", !.abort = "no", !.seen = None,
                       !.answer = IF @ # None THEN @
                                  ELSE IF r.failed \/ r.abort = "cancel" THEN "error" ELSE "ok"])
    /\ UNCHANGED <<doc, granted, active, emulated>>

----------------------------------------------------------------------------
(* The browser and its user.                                               *)

Navigate ==
    /\ doc < MaxDocument
    /\ doc' = doc + 1
    /\ job' = [j \in Jobs |-> IF job[j].seen = "armed" THEN [job[j] EXCEPT !.seen = "moved"]
                                                       ELSE job[j]]
    /\ UNCHANGED <<granted, active, holders, emulated, spoiled, turn, chrome>>

\* The user ends the debugging session: no lease is active, and nothing is owed an answer.
Detach ==
    /\ holders # {}
    /\ LeaveSession(holders)
    /\ emulated' = NoSettings
    /\ job' = [j \in Jobs |-> CASE job[j].mode = "wait" -> Failed(job[j])
                                [] job[j].mode = "undoing" -> Popped(job[j])
                                [] OTHER -> job[j]]
    /\ UNCHANGED <<doc, granted, active, spoiled, turn>>

----------------------------------------------------------------------------
Init ==
    /\ doc = 1
    /\ active = "user"
    /\ on = {} /\ lost = {} /\ wire = <<>> /\ streams = {} /\ tracing = None
    /\ overrides = NoSettings /\ emulated = NoSettings /\ spoiled = FALSE
    /\ turn = [q \in {"tab", "window"} |-> <<>>]
    /\ \E w \in Workloads :
          /\ granted = w.access
          /\ holders = IF w.kept THEN {"keeper"} ELSE {}
          /\ job = [j \in Jobs |->
                [kind |-> w.run[j], mode |-> IF w.run[j] = None THEN "done" ELSE "new",
                 pc |-> 1, abort |-> "no", failed |-> FALSE,
                 answer |-> IF w.run[j] = None THEN "ok" ELSE None,
                 want |-> IF w.named THEN 1 ELSE 0, pin |-> 0, reads |-> {}, undo |-> <<>>,
                 seen |-> None, original |-> "user"]]

HandlerStep(j) ==
    \/ Ask(j) \/ Activate(j) \/ Join(j) \/ Enter(j) \/ AcquireLease(j) \/ ReleaseLease(j)
    \/ Adopt(j) \/ Commit(j) \/ Send(j) \/ Abandon(j) \/ Listen(j)
    \/ TalkToPage(j) \/ Undo(j) \/ Finish(j)

Next ==
    \/ \E j \in Jobs : Begin(j) \/ Cancel(j) \/ Timeout(j) \/ HandlerStep(j)
    \/ Execute \/ Complete
    \/ Navigate \/ Detach

Spec == Init /\ [][Next]_vars

\* Chrome answers what it is asked and executes what it is sent, the event loop gets to every
\* resolved promise, and a timer that is not cleared fires.
FairSpec ==
    /\ Spec
    /\ WF_vars(Execute) /\ WF_vars(Complete)
    /\ \A j \in Jobs : WF_vars(HandlerStep(j)) /\ WF_vars(Timeout(j))

----------------------------------------------------------------------------
Done(j) == job[j].mode = "done"

\* A request that succeeds has read the one document that it resolved, which is the one that its
\* target named if it named one, and which the extension may access: the checks before and after
\* the reads (recheckTarget, assertFreshDocument) leave no gap for a navigation.
ResultFromPinnedDocument ==
    \A j \in Jobs : job[j].answer = "ok" /\ job[j].kind \in Pinning =>
        /\ job[j].reads \subseteq {job[j].pin}
        /\ job[j].want # 0 /\ job[j].pin # 0 => job[j].pin = job[j].want
        /\ job[j].reads # {} => job[j].pin \in granted

\* When every request has ended, none holds the debugging session; what is still enabled in a
\* session that another consumer keeps was enabled by a command that its handler had stopped
\* waiting for, or is a mouse button that a cancelled click left pressed (trusted-input.js has no
\* finally block): the finally blocks of performance.js and evaluation.js undo all that they know
\* of, on every path.  And captures of two tabs of a window leave it with the tab active that the
\* user had chosen.  Streams of a trace are not meant: an abandoned one may stay open.
BrowserRestored ==
    (\A j \in Jobs : Done(j)) => holders \cap Jobs = {} /\ on \subseteq lost /\ active = "user"

\* With no emulation operation in its turn, the overrides of the session are the settings that
\* emulation.get reports, however the operations before it ended, except after an aborted reset.
EmulationTruthful ==
    (\A j \in Jobs : First(j, "tab") => job[j].kind = "get") => spoiled \/ overrides = emulated

\* Every request is answered, and its lease, its place in the queues and what it undoes end.
JobsEnd == \A j \in Jobs : job[j].mode # "new" ~> Done(j) /\ job[j].answer # None
=============================================================================
