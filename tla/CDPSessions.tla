---------------------------- MODULE CDPSessions -----------------------------
(***************************************************************************)
(* The lifecycle half of chrome-extension/src/cdp-session-manager.js: one  *)
(* chrome.debugger attachment per tab, shared by consumer leases and given *)
(* up with the last of them.                                               *)
(*                                                                         *)
(* Each element of Calls is one acquire(), the consumer it creates and, if *)
(* it finds no session for its tab, the session object it creates; the     *)
(* consumer's domains and allowlists are left out, and so is dispose(),    *)
(* which the extension never calls.  JavaScript is single                  *)
(* threaded: a handler runs to its next await, the promises it settles     *)
(* resume their waiters (the Resume actions), and only then does the next  *)
(* event run (Quiet).                                                      *)
(*                                                                         *)
(* chrome.debugger is external.  It executes the extension's calls in the  *)
(* order they are made and its replies and onDetach events reach the       *)
(* extension in the order it sends them, per tab (inbox).                  *)
(***************************************************************************)
EXTENDS Naturals, Sequences, FiniteSets

CONSTANTS
    Tabs,
    Calls,              \* the acquire() calls a behaviour can make
    Child,              \* the calls with includeChildTargets
    ConsumerId,         \* ConsumerId[c], the consumerId of call c
    TabsOf,             \* TabsOf[c], the tabs call c may name
    MaxSessions,        \* limits.maxSessions
    MaxConsumers,       \* limits.maxConsumersPerSession
    MaxDetaches,        \* bound: detaches by the user, DevTools or a closed tab
    None

ASSUME CDPAssumption ==
    /\ None \notin Calls \cup Tabs
    /\ Child \subseteq Calls
    /\ TabsOf \in [Calls -> SUBSET Tabs]
    /\ MaxSessions \in Nat \ {0}
    /\ MaxConsumers \in Nat \ {0}
    /\ MaxDetaches \in Nat

VARIABLES
    sessions,           \* this.sessions: the managed session of a tab, or None
    session,            \* the session object a call created
    call,               \* where an acquire() or its lease stands
    debuggee,           \* browser: the session a tab's debugger is attached for
    inbox,              \* browser: replies and events under way to the extension
    detaches            \* browser: detaches so far that the extension did not ask for

vars == <<sessions, session, call, debuggee, inbox, detaches>>

SessionStates == {"none", "attaching", "attached", "detaching", "detached", "failed"}

\* enabled is autoAttachEnabled; auto is the last autoAttachPromise.
Session == [tab: Tabs \cup {None}, state: SessionStates,
            ready: {"pending", "resolved", "rejected"},
            closeRequested: {"", "last_consumer_released", "shutdown"},
            consumers: SUBSET Calls, childConsumerCount: Nat,
            enabled: BOOLEAN, auto: {"none", "pending", "ok", "failed"}]

\* ready, auto: acquire awaits the attach, the auto-attach command.
\* disabling, disabled, closing: a release awaits the pending auto-attach,
\* the command that turns it off, the detach.
CallStates == {"idle", "ready", "auto", "leased", "disabling", "disabled", "closing", "done"}

Call == [pc: CallStates, of: Calls \cup {None}, active: BOOLEAN]

Replies == [kind: {"attached", "attachFailed", "detached",
                   "autoOn", "autoOnFailed", "autoOff"}, to: Calls]
           \cup [kind: {"onDetach"}, to: {None}]

Init ==
    /\ sessions = [t \in Tabs |-> None]
    /\ session = [s \in Calls |->
                     [tab |-> None, state |-> "none", ready |-> "pending",
                      closeRequested |-> "", consumers |-> {}, childConsumerCount |-> 0,
                      enabled |-> FALSE, auto |-> "none"]]
    /\ call = [c \in Calls |-> [pc |-> "idle", of |-> None, active |-> FALSE]]
    /\ debuggee = [t \in Tabs |-> None]
    /\ inbox = [t \in Tabs |-> <<>>]
    /\ detaches = 0

-----------------------------------------------------------------------------
(* chrome.debugger: what a call does to the browser, and its reply.        *)

Msg(kind, to) == [kind |-> kind, to |-> to]

Reply(t, kind, to) == inbox' = [inbox EXCEPT ![t] = Append(@, Msg(kind, to))]

\* Attaching fails on a debugged tab, and may fail for reasons of its own.
BrowserAttach(t, s) ==
    \/ /\ debuggee[t] = None
       /\ debuggee' = [debuggee EXCEPT ![t] = s]
       /\ Reply(t, "attached", s)
    \/ /\ Reply(t, "attachFailed", s)
       /\ UNCHANGED debuggee

\* detach addresses the tab, whoever attached; it answers even if it fails.
BrowserDetach(t, s) ==
    /\ debuggee' = [debuggee EXCEPT ![t] = None]
    /\ Reply(t, "detached", s)

BrowserAutoAttach(t, s) ==
    \/ debuggee[t] # None /\ Reply(t, "autoOn", s)
    \/ Reply(t, "autoOnFailed", s)

-----------------------------------------------------------------------------
(* Steps of the manager.                                                   *)

\* The waiters whose promise has settled.
ReadySettled(c) == call[c].pc = "ready" /\ session[call[c].of].ready # "pending"

AutoSettled(c) ==
    /\ call[c].pc \in {"auto", "disabling"}
    /\ session[call[c].of].auto \in {"ok", "failed"}

Quiet == \A c \in Calls : ~ReadySettled(c) /\ ~AutoSettled(c)

Managed == {sessions[t] : t \in Tabs} \ {None}

\* Fault: the consumers of a closed session stay active.
DeactivatedNone(S) == call

\* deactivateConsumers on every session of S.
Deactivated(S) ==
    [c \in Calls |-> IF \E s \in S : c \in session[s].consumers
                     THEN [call[c] EXCEPT !.active = FALSE] ELSE call[c]]

WithoutConsumers(x) == [x EXCEPT !.consumers = {}, !.childConsumerCount = 0]

Forget(s) == [t \in Tabs |-> IF sessions[t] = s THEN None ELSE sessions[t]]

Join(c, s) ==
    call' = [call EXCEPT ![c] = [pc |-> "ready", of |-> s, active |-> TRUE]]

\* acquire, up to its first await, on a tab with no session.
AcquireNew(c, t) ==
    /\ Quiet /\ call[c].pc = "idle"
    /\ sessions[t] = None
    /\ Cardinality(Managed) < MaxSessions
    /\ sessions' = [sessions EXCEPT ![t] = c]
    /\ session' = [session EXCEPT ![c] =
                      [@ EXCEPT !.tab = t, !.state = "attaching", !.consumers = {c},
                                !.childConsumerCount = IF c \in Child THEN 1 ELSE 0]]
    /\ Join(c, c)
    /\ BrowserAttach(t, c)
    /\ UNCHANGED detaches

AcquireShared(c, t) ==
    LET s == sessions[t] IN
    /\ Quiet /\ call[c].pc = "idle"
    /\ s # None
    /\ \A d \in session[s].consumers : ConsumerId[d] # ConsumerId[c]
    /\ Cardinality(session[s].consumers) < MaxConsumers
    /\ session' = [session EXCEPT
                      ![s].consumers = @ \cup {c},
                      ![s].childConsumerCount = @ + (IF c \in Child THEN 1 ELSE 0)]
    /\ Join(c, s)
    /\ UNCHANGED <<sessions, debuggee, inbox, detaches>>

\* acquire throws: a limit, or a consumerId in use.
AcquireRefused(c, t) ==
    LET s == sessions[t] IN
    /\ Quiet /\ call[c].pc = "idle"
    /\ \/ s = None /\ Cardinality(Managed) >= MaxSessions
       \/ /\ s # None
          /\ \/ \E d \in session[s].consumers : ConsumerId[d] = ConsumerId[c]
             \/ Cardinality(session[s].consumers) >= MaxConsumers
    /\ call' = [call EXCEPT ![c].pc = "done"]
    /\ UNCHANGED <<sessions, session, debuggee, inbox, detaches>>

\* What a release does once auto-attach is settled; x is its session now.
FinishRelease(c, x) ==
    LET s == call[c].of
        Leave(pc) == call' = [call EXCEPT ![c] = [@ EXCEPT !.pc = pc, !.active = FALSE]]
    IN
    \/ /\ x.consumers # {} \/ x.state \in {"detaching", "detached", "failed"}
       /\ session' = [session EXCEPT ![s] = x]
       /\ Leave("done")
       /\ UNCHANGED <<sessions, debuggee, inbox>>
    \/ /\ x.consumers = {} /\ x.state = "attaching"
       /\ session' = [session EXCEPT ![s] =
                         [x EXCEPT !.closeRequested = "last_consumer_released"]]
       /\ Leave("done")
       /\ UNCHANGED <<sessions, debuggee, inbox>>
    \/ /\ x.consumers = {} /\ x.state = "attached"
       /\ session' = [session EXCEPT ![s] = [x EXCEPT !.state = "detaching"]]
       /\ sessions' = Forget(s)
       /\ Leave("closing")
       /\ BrowserDetach(x.tab, s)

\* disableAutoAttach, from its last test: turn the command off and await it.
TurnOff(c, x) ==
    /\ session' = [session EXCEPT ![call[c].of] = [x EXCEPT !.enabled = FALSE]]
    /\ call' = [call EXCEPT ![c] = [@ EXCEPT !.pc = "disabled", !.active = FALSE]]
    /\ Reply(x.tab, "autoOff", c)
    /\ UNCHANGED <<sessions, debuggee>>

Left(c) ==
    [session[call[c].of] EXCEPT
        !.consumers = @ \ {c},
        !.childConsumerCount = IF c \in Child /\ @ > 0 THEN @ - 1 ELSE @]

\* releaseConsumer, up to its first await.
ReleaseConsumer(c) ==
    LET x == Left(c)
        disable == c \in Child /\ x.childConsumerCount = 0 /\ x.consumers # {}
                   /\ x.state = "attached"
    IN
    \/ /\ ~call[c].active
       /\ call' = [call EXCEPT ![c].pc = "done"]
       /\ UNCHANGED <<sessions, session, debuggee, inbox>>
    \/ /\ call[c].active
       /\ disable /\ x.auto = "pending"
       /\ session' = [session EXCEPT ![call[c].of] = x]
       /\ call' = [call EXCEPT ![c] = [@ EXCEPT !.pc = "disabling", !.active = FALSE]]
       /\ UNCHANGED <<sessions, debuggee, inbox>>
    \/ /\ call[c].active
       /\ disable /\ x.auto # "pending" /\ x.enabled
       /\ TurnOff(c, x)
    \/ /\ call[c].active
       /\ ~(disable /\ (x.auto = "pending" \/ x.enabled))
       /\ FinishRelease(c, x)

Release(c) ==
    /\ Quiet /\ call[c].pc = "leased"
    /\ ReleaseConsumer(c)
    /\ UNCHANGED detaches

\* The caller's signal ends waitWithSignal; what it waited for goes on.
Abort(c) ==
    /\ Quiet /\ call[c].pc \in {"ready", "auto"}
    /\ ReleaseConsumer(c)
    /\ UNCHANGED detaches

\* acquire after session.ready, with ensureAutoAttach up to its await.
ResumeReady(c) ==
    LET s == call[c].of IN
    /\ ReadySettled(c)
    /\ UNCHANGED detaches
    /\ \/ /\ session[s].ready = "rejected" \/ ~call[c].active \/ session[s].state # "attached"
          /\ ReleaseConsumer(c)
       \/ /\ session[s].ready = "resolved" /\ call[c].active /\ session[s].state = "attached"
          /\ c \notin Child \/ session[s].enabled
          /\ call' = [call EXCEPT ![c].pc = "leased"]
          /\ UNCHANGED <<sessions, session, debuggee, inbox>>
       \/ /\ session[s].ready = "resolved" /\ call[c].active /\ session[s].state = "attached"
          /\ c \in Child /\ ~session[s].enabled
          /\ call' = [call EXCEPT ![c].pc = "auto"]
          /\ \/ session[s].auto = "pending" /\ UNCHANGED <<session, inbox>>
             \/ /\ session[s].auto # "pending"
                /\ session' = [session EXCEPT ![s].auto = "pending"]
                /\ BrowserAutoAttach(session[s].tab, s)
          /\ UNCHANGED <<sessions, debuggee>>

ResumeAuto(c) ==
    /\ AutoSettled(c) /\ call[c].pc = "auto"
    /\ UNCHANGED detaches
    /\ \/ /\ session[call[c].of].auto = "ok"
          /\ call' = [call EXCEPT ![c].pc = "leased"]
          /\ UNCHANGED <<sessions, session, debuggee, inbox>>
       \/ /\ session[call[c].of].auto = "failed"
          /\ ReleaseConsumer(c)

\* disableAutoAttach after the pending command it waited for.
ResumeDisable(c) ==
    LET x == session[call[c].of] IN
    /\ AutoSettled(c) /\ call[c].pc = "disabling"
    /\ UNCHANGED detaches
    /\ \/ x.auto = "ok" /\ x.enabled /\ TurnOff(c, x)
       \/ (x.auto = "failed" \/ ~x.enabled) /\ FinishRelease(c, x)

-----------------------------------------------------------------------------
(* Replies and events of the browser.                                      *)

Arrives(t, kind) ==
    /\ Quiet
    /\ inbox[t] # <<>>
    /\ Head(inbox[t]).kind = kind
    /\ UNCHANGED detaches

Consume(t) == inbox' = [inbox EXCEPT ![t] = Tail(@)]

To(t) == Head(inbox[t]).to

\* Fault: only an explicit request closes, a session nobody uses stays.
MustCloseRequested(s) == session[s].closeRequested # ""

MustClose(s) == session[s].closeRequested # "" \/ session[s].consumers = {}

\* attachSession after a successful attach.
Attached(t) ==
    LET s == To(t) IN
    /\ Arrives(t, "attached")
    /\ \/ /\ ~MustClose(s)
          /\ session' = [session EXCEPT ![s].state = "attached", ![s].ready = "resolved"]
          /\ Consume(t)
          /\ UNCHANGED <<sessions, call, debuggee>>
       \/ /\ MustClose(s)
          /\ session' = [session EXCEPT ![s] =
                            [WithoutConsumers(@) EXCEPT !.state = "detaching"]]
          /\ sessions' = Forget(s)
          /\ call' = Deactivated({s})
          /\ debuggee' = [debuggee EXCEPT ![t] = None]
          /\ inbox' = [inbox EXCEPT ![t] = Append(Tail(@), Msg("detached", s))]

AttachFailed(t) ==
    LET s == To(t) IN
    /\ Arrives(t, "attachFailed")
    /\ sessions' = Forget(s)
    /\ session' = [session EXCEPT ![s] =
                      [WithoutConsumers(@) EXCEPT !.state = "failed", !.ready = "rejected"]]
    /\ call' = Deactivated({s})
    /\ Consume(t)
    /\ UNCHANGED debuggee

\* closeSession after its detach; attachSession ends with it if it closed.
Detached(t) ==
    LET s == To(t) IN
    /\ Arrives(t, "detached")
    /\ session' = [session EXCEPT ![s].state = "detached", ![s].ready = "resolved"]
    /\ call' = [c \in Calls |-> IF call[c].pc = "closing" /\ call[c].of = s
                                THEN [call[c] EXCEPT !.pc = "done"] ELSE call[c]]
    /\ Consume(t)
    /\ UNCHANGED <<sessions, debuggee>>

\* Fault: a failed auto-attach never settles its promise.
AutoAttachStuck(t) ==
    /\ \/ /\ Arrives(t, "autoOn")
          /\ session' = [session EXCEPT ![To(t)].auto = "ok", ![To(t)].enabled = TRUE]
       \/ Arrives(t, "autoOnFailed") /\ UNCHANGED session
    /\ Consume(t)
    /\ UNCHANGED <<sessions, call, debuggee>>

AutoAttachDone(t) ==
    /\ \/ /\ Arrives(t, "autoOn")
          /\ session' = [session EXCEPT ![To(t)].auto = "ok", ![To(t)].enabled = TRUE]
       \/ /\ Arrives(t, "autoOnFailed")
          /\ session' = [session EXCEPT ![To(t)].auto = "failed"]
    /\ Consume(t)
    /\ UNCHANGED <<sessions, call, debuggee>>

\* The reply to setAutoAttach(false), good or bad: the release goes on.
AutoAttachOff(t) ==
    LET c == To(t)
        x == session[call[c].of]
        close == x.consumers = {} /\ x.state = "attached"
    IN
    /\ Arrives(t, "autoOff")
    /\ call' = [call EXCEPT ![c].pc = IF close THEN "closing" ELSE "done"]
    /\ IF close
       THEN /\ session' = [session EXCEPT ![call[c].of].state = "detaching"]
            /\ sessions' = Forget(call[c].of)
            /\ debuggee' = [debuggee EXCEPT ![t] = None]
            /\ inbox' = [inbox EXCEPT ![t] = Append(Tail(@), Msg("detached", call[c].of))]
       ELSE /\ Consume(t)
            /\ UNCHANGED <<sessions, session, debuggee>>

\* handleDetach: the session the tab has now, whichever attachment ended.
HandleDetach(t) ==
    LET s == sessions[t] IN
    /\ Arrives(t, "onDetach")
    /\ Consume(t)
    /\ UNCHANGED debuggee
    /\ IF s = None
       THEN UNCHANGED <<sessions, session, call>>
       ELSE /\ sessions' = [sessions EXCEPT ![t] = None]
            /\ session' = [session EXCEPT ![s] =
                              [WithoutConsumers(@) EXCEPT !.state = "detached"]]
            /\ call' = Deactivated({s})

\* detachAll: the socket closed, the user disconnected, Debug was revoked.
DetachAll ==
    LET Open == {s \in Managed : session[s].state = "attached"}
    IN
    /\ Quiet
    /\ Managed # {}
    /\ session' = [s \in Calls |->
                      CASE s \in Open ->
                             [WithoutConsumers(session[s]) EXCEPT !.state = "detaching"]
                        [] s \in Managed \ Open ->
                             [WithoutConsumers(session[s]) EXCEPT !.closeRequested = "shutdown"]
                        [] OTHER -> session[s]]
    /\ sessions' = [t \in Tabs |-> IF sessions[t] \in Open THEN None ELSE sessions[t]]
    /\ call' = Deactivated(Managed)
    /\ debuggee' = [t \in Tabs |-> IF sessions[t] \in Open THEN None ELSE debuggee[t]]
    /\ inbox' = [t \in Tabs |-> IF sessions[t] \in Open
                                THEN Append(inbox[t], Msg("detached", sessions[t]))
                                ELSE inbox[t]]
    /\ UNCHANGED detaches

\* Browser: the user cancels, DevTools opens, the tab closes.
ExternalDetach(t) ==
    /\ debuggee[t] # None
    /\ detaches < MaxDetaches
    /\ detaches' = detaches + 1
    /\ debuggee' = [debuggee EXCEPT ![t] = None]
    /\ Reply(t, "onDetach", None)
    /\ UNCHANGED <<sessions, session, call>>

-----------------------------------------------------------------------------
Resume == \E c \in Calls : ResumeReady(c) \/ ResumeAuto(c) \/ ResumeDisable(c)

Receive(t) ==
    \/ Attached(t) \/ AttachFailed(t) \/ Detached(t)
    \/ AutoAttachDone(t) \/ AutoAttachOff(t) \/ HandleDetach(t)

Next ==
    \/ \E c \in Calls : \E t \in TabsOf[c] :
          AcquireNew(c, t) \/ AcquireShared(c, t) \/ AcquireRefused(c, t)
    \/ \E c \in Calls : Release(c) \/ Abort(c)
    \/ Resume
    \/ \E t \in Tabs : Receive(t) \/ ExternalDetach(t)
    \/ DetachAll

Spec == Init /\ [][Next]_vars

\* The event loop runs and the browser answers; nobody must call anything.
FairSpec == Spec /\ WF_vars(Resume) /\ \A t \in Tabs : WF_vars(Receive(t))

-----------------------------------------------------------------------------
(* Properties.                                                             *)

CDPTypeOK ==
    /\ sessions \in [Tabs -> Calls \cup {None}]
    /\ session \in [Calls -> Session]
    /\ call \in [Calls -> Call]
    /\ debuggee \in [Tabs -> Calls \cup {None}]
    /\ inbox \in [Tabs -> Seq(Replies)]
    /\ detaches \in 0..MaxDetaches

\* An attachment nobody uses does not outlive the replies under way: when a
\* tab's inbox is empty its debugger is attached for the managed session of
\* the tab, and that session has a consumer.
NoLeakedAttachment ==
    \A t \in Tabs : inbox[t] = <<>> /\ debuggee[t] # None =>
        /\ sessions[t] = debuggee[t]
        /\ session[debuggee[t]].consumers # {}

\* docs/cdp-session-manager.md:37: "The root session remains attached while at
\* least one consumer is active" - or the news of its end is under way.
LeaseKeepsAttachment ==
    \A c \in Calls :
        LET s == call[c].of IN
        call[c].pc = "leased" /\ call[c].active =>
            \/ debuggee[session[s].tab] = s
            \/ inbox[session[s].tab] # <<>>

\* It does while the browser ends at most one attachment.  After two, the
\* reply to an attach that handleDetach gave up can detach a later session.
ActiveLeaseIsAttached == detaches <= 1 => LeaseKeepsAttachment

\* childConsumerCount, kept by hand over five code paths, is the number of
\* child-aware consumers: it decides when auto-attach is turned off.
ChildCountExact ==
    \A s \in Calls :
        session[s].childConsumerCount = Cardinality(session[s].consumers \cap Child)

\* The manager's view of consumers, sessions and attachments agrees with the
\* browser's over every order of acquire, abort, release, attach and detach.
SessionsMatchLeases ==
    CDPTypeOK /\ NoLeakedAttachment /\ ActiveLeaseIsAttached /\ ChildCountExact

\* acquire() and release() settle whatever happens to the attachment they
\* wait for: the replies and the browser's events wake every waiter.
CallsSettle ==
    \A c \in Calls :
        LET Waits == call[c].pc \in {"ready", "auto", "disabling", "disabled", "closing"}
        IN  Waits ~> ~Waits

\* An attachment without consumers, a cancelled attach that succeeds late or
\* a last release, is given up.
UnusedIsDetached ==
    \A s \in Calls :
        LET Unused == /\ \E t \in Tabs : debuggee[t] = s
                      /\ session[s].consumers = {}
        IN  Unused ~> ~Unused
=============================================================================
