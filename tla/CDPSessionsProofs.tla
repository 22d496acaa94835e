------------------------- MODULE CDPSessionsProofs --------------------------
(***************************************************************************)
(* The CDP session manager and the browser's debugger, for every set of    *)
(* tabs and calls, every limit and any number of detaches.                 *)
(***************************************************************************)
EXTENDS CDPSessions, SequenceTheorems, FiniteSetTheorems, TLAPS

\* A message is in an inbox; one is before another.
In(q, m) == \E i \in 1..Len(q) : q[i] = m
Precedes(q, m, n) == \E i, j \in 1..Len(q) : i < j /\ q[i] = m /\ q[j] = n
Once(q, m) == ~Precedes(q, m, m)

News == Msg("onDetach", None)
AttachReply(s) == Msg("attached", s)
FailReply(s) == Msg("attachFailed", s)
DetachReply(s) == Msg("detached", s)

\* Calls: what a call that has not begun, a waiter and a consumer are.
CallFits(c) ==
    /\ call[c].pc = "idle" => call[c].of = None /\ ~call[c].active /\ session[c].state = "none"
    /\ call[c].pc \notin {"idle", "done"} => call[c].of # None
    /\ call[c].of # None => session[call[c].of].state # "none"
    /\ call[c].active => /\ call[c].pc \in {"ready", "auto", "leased"}
                         /\ c \in session[call[c].of].consumers
                         /\ call[c].pc # "ready" => session[call[c].of].state = "attached"

ConsumersFit(s) == \A c \in session[s].consumers : call[c].of = s /\ call[c].active

Members == \A c \in Calls : CallFits(c) /\ ConsumersFit(c)

\* Sessions: the map, the states and the consumers agree.
TabFits(t) ==
    sessions[t] # None =>
        /\ session[sessions[t]].tab = t
        /\ session[sessions[t]].state \in {"attaching", "attached"}

SessionFits(s) ==
    /\ session[s].tab = None <=> session[s].state = "none"
    /\ session[s].state # "none" => session[s].tab \in Tabs
    /\ session[s].state \in {"attaching", "attached"} => sessions[session[s].tab] = s
    /\ session[s].state = "attached" => session[s].consumers # {}
    /\ session[s].consumers # {} => session[s].state \in {"attaching", "attached"}

Sessions == (\A t \in Tabs : TabFits(t)) /\ \A s \in Calls : SessionFits(s)

\* Counts: of child-aware consumers.
CountFits(s) ==
    /\ session[s].childConsumerCount = Cardinality(session[s].consumers \cap Child)
    /\ IsFiniteSet(session[s].consumers)

Counts == \A s \in Calls : CountFits(s)

\* A release that turned auto-attach off has left its session.
Leaving(c) == call[c].of # None /\ ~call[c].active

OffFits == \A t \in Tabs, c \in Calls : In(inbox[t], Msg("autoOff", c)) => Leaving(c)

\* Replies: every call of the browser is answered once, while its session waits.
RepliesFit(t) ==
    \A s \in Calls :
        /\ In(inbox[t], AttachReply(s)) =>
              /\ session[s].tab = t /\ session[s].state \in {"attaching", "detached"}
              /\ Once(inbox[t], AttachReply(s)) /\ ~In(inbox[t], FailReply(s))
        /\ In(inbox[t], FailReply(s)) =>
              /\ session[s].tab = t /\ session[s].state \in {"attaching", "detached"}
              /\ Once(inbox[t], FailReply(s))
        /\ In(inbox[t], DetachReply(s)) =>
              /\ session[s].tab = t /\ session[s].state = "detaching"
              /\ Once(inbox[t], DetachReply(s))

\* Attachments: the manager knows of the tab's attachment or will be told, and no news of
\* an earlier one comes after that.
AttachmentKnown(t) ==
    debuggee[t] # None =>
        /\ session[debuggee[t]].tab = t /\ session[debuggee[t]].state # "none"
        /\ session[debuggee[t]].state = "attached" \/ In(inbox[t], AttachReply(debuggee[t]))
        /\ In(inbox[t], News) => In(inbox[t], AttachReply(debuggee[t]))
        /\ ~Precedes(inbox[t], AttachReply(debuggee[t]), News)

\* One detach: an attach whose session handleDetach gave up still owns the debugger when
\* its reply comes, so that closing it detaches nobody else.
ReplyOwns(t, s) ==
    In(inbox[t], AttachReply(s)) =>
        /\ session[s].state = "detached" => detaches = 1 /\ ~In(inbox[t], News)
        /\ \/ debuggee[t] = s
           \/ Precedes(inbox[t], AttachReply(s), News) /\ sessions[t] = s

LeaseOwns(t, s) ==
    session[s].state = "attached" /\ session[s].tab = t => debuggee[t] = s \/ In(inbox[t], News)

OneDetach(t) == detaches <= 1 => \A s \in Calls : ReplyOwns(t, s) /\ LeaseOwns(t, s)

NewsCounted ==
    /\ detaches = 0 => \A t \in Tabs : ~In(inbox[t], News)
    /\ detaches = 1 => \A t \in Tabs : Once(inbox[t], News)

TabInv(t) == RepliesFit(t) /\ AttachmentKnown(t) /\ OneDetach(t)

ManagerInv == CDPTypeOK /\ Members /\ Sessions /\ Counts
BrowserInv == OffFits /\ NewsCounted /\ \A t \in Tabs : TabInv(t)

CDPInv == ManagerInv /\ BrowserInv

-----------------------------------------------------------------------------
(* Inboxes: a message more at the end, a message less at the head.         *)

LEMMA AppendOrder ==
    ASSUME NEW q \in Seq(Replies), NEW m \in Replies
    PROVE  /\ Append(q, m) \in Seq(Replies)
           /\ \A x : In(Append(q, m), x) <=> In(q, x) \/ x = m
           /\ \A x, y : Precedes(Append(q, m), x, y) <=>
                           Precedes(q, x, y) \/ (In(q, x) /\ y = m)
<1> DEFINE a == Append(q, m)
           n == Len(q)
<1>1. n \in Nat
  BY LenProperties
<1>2. /\ a \in Seq(Replies) /\ Len(a) = n + 1
      /\ \A i \in 1..n : a[i] = q[i]
      /\ a[n + 1] = m
  BY <1>1, AppendProperties
<1> HIDE DEF a
<1>3. 1..(n + 1) = 1..n \cup {n + 1} /\ \A i \in 1..n : i < n + 1
  BY <1>1
<1>4. \A x : In(a, x) <=> In(q, x) \/ x = m
  BY <1>2, <1>3 DEF In
<1>5. \A x, y : Precedes(a, x, y) <=> Precedes(q, x, y) \/ (In(q, x) /\ y = m)
  <2> TAKE x, y
  <2>1. ASSUME Precedes(a, x, y) PROVE Precedes(q, x, y) \/ (In(q, x) /\ y = m)
    <3>1. PICK i \in 1..(n + 1), j \in 1..(n + 1) : i < j /\ a[i] = x /\ a[j] = y
      BY <2>1, <1>2 DEF Precedes
    <3>2. i \in 1..n /\ (j \in 1..n \/ j = n + 1)
      BY <1>1, <3>1
    <3> QED
      BY <3>1, <3>2, <1>2 DEF Precedes, In
  <2>2. ASSUME Precedes(q, x, y) PROVE Precedes(a, x, y)
    BY <2>2, <1>2, <1>3 DEF Precedes
  <2>3. ASSUME In(q, x), y = m PROVE Precedes(a, x, y)
    BY <2>3, <1>2, <1>3 DEF Precedes, In
  <2> QED
    BY <2>1, <2>2, <2>3
<1> QED
  BY <1>2, <1>4, <1>5 DEF a

LEMMA TailOrder ==
    ASSUME NEW q \in Seq(Replies), q # <<>>
    PROVE  /\ Tail(q) \in Seq(Replies) /\ Head(q) \in Replies
           /\ \A x : In(q, x) <=> x = Head(q) \/ In(Tail(q), x)
           /\ \A x, y : Precedes(q, x, y) <=>
                           (x = Head(q) /\ In(Tail(q), y)) \/ Precedes(Tail(q), x, y)
<1> DEFINE a == Tail(q)
           n == Len(q)
<1>1. n \in Nat \ {0}
  BY EmptySeq
<1>2. /\ a \in Seq(Replies) /\ Len(a) = n - 1 /\ Head(q) = q[1] /\ Head(q) \in Replies
      /\ \A i \in 1..(n - 1) : a[i] = q[i + 1]
  BY <1>1, HeadTailProperties
<1> HIDE DEF a
<1>3. /\ 1 \in 1..n /\ \A i \in 1..(n - 1) : i + 1 \in 1..n /\ 1 < i + 1
      /\ \A i \in 1..n : i = 1 \/ (i - 1 \in 1..(n - 1) /\ a[i - 1] = q[i])
  <2>1. \A i \in 1..n : i # 1 => i - 1 \in 1..(n - 1) /\ (i - 1) + 1 = i
    BY <1>1
  <2> QED
    BY <1>1, <1>2, <2>1
<1>4. \A x : In(q, x) <=> x = Head(q) \/ In(a, x)
  BY <1>2, <1>3 DEF In
<1>5. \A x, y : Precedes(q, x, y) <=> (x = Head(q) /\ In(a, y)) \/ Precedes(a, x, y)
  <2> TAKE x, y
  <2>1. ASSUME Precedes(q, x, y) PROVE (x = Head(q) /\ In(a, y)) \/ Precedes(a, x, y)
    <3>1. PICK i \in 1..n, j \in 1..n : i < j /\ q[i] = x /\ q[j] = y
      BY <2>1 DEF Precedes
    <3>2. j # 1
      BY <3>1, <1>1
    <3>3. j - 1 \in 1..(n - 1) /\ a[j - 1] = y
      BY <3>1, <3>2, <1>3
    <3>4. CASE i = 1
      BY <3>1, <3>3, <3>4, <1>2 DEF In
    <3>5. CASE i # 1
      <4>1. i - 1 \in 1..(n - 1) /\ a[i - 1] = x
        BY <3>1, <3>5, <1>3
      <4>2. i - 1 < j - 1
        BY <3>1, <1>1
      <4> QED
        BY <4>1, <4>2, <3>3, <1>2 DEF Precedes
    <3> QED
      BY <3>4, <3>5
  <2>2. ASSUME x = Head(q), In(a, y) PROVE Precedes(q, x, y)
    <3>1. PICK j \in 1..(n - 1) : a[j] = y
      BY <2>2, <1>2 DEF In
    <3>2. q[j + 1] = y /\ j + 1 \in 1..n /\ 1 < j + 1 /\ q[1] = x /\ 1 \in 1..n
      BY <3>1, <2>2, <1>2, <1>3
    <3> QED
      BY <3>2 DEF Precedes
  <2>3. ASSUME Precedes(a, x, y) PROVE Precedes(q, x, y)
    <3>1. PICK i \in 1..(n - 1), j \in 1..(n - 1) : i < j /\ a[i] = x /\ a[j] = y
      BY <2>3, <1>2 DEF Precedes
    <3>2. q[i + 1] = x /\ q[j + 1] = y /\ i + 1 \in 1..n /\ j + 1 \in 1..n
      BY <3>1, <1>2, <1>3
    <3>3. i + 1 < j + 1
      BY <3>1, <1>1
    <3> QED
      BY <3>2, <3>3 DEF Precedes
  <2> QED
    BY <2>1, <2>2, <2>3
<1> QED
  BY <1>2, <1>4, <1>5 DEF a

LEMMA OrderIn == ASSUME NEW q, NEW x, NEW y, Precedes(q, x, y) PROVE In(q, x) /\ In(q, y)
BY DEF Precedes, In

LEMMA MessageTypes ==
    /\ \A s \in Calls : /\ AttachReply(s) \in Replies /\ FailReply(s) \in Replies
                        /\ DetachReply(s) \in Replies
    /\ \A s \in Calls : /\ Msg("autoOn", s) \in Replies /\ Msg("autoOnFailed", s) \in Replies
                        /\ Msg("autoOff", s) \in Replies
    /\ News \in Replies
BY DEF Msg, Replies, AttachReply, FailReply, DetachReply, News

\* A message is its kind and its addressee.
LEMMA MessageEqual ==
    \A k, l, x, y : Msg(k, x) = Msg(l, y) <=> k = l /\ x = y
BY DEF Msg

LEMMA MessageFields == \A k, x : Msg(k, x).kind = k /\ Msg(k, x).to = x
BY DEF Msg

LEMMA Distinct ==
    /\ \A s, u : /\ AttachReply(s) = AttachReply(u) <=> s = u
                 /\ FailReply(s) = FailReply(u) <=> s = u
                 /\ DetachReply(s) = DetachReply(u) <=> s = u
    /\ \A s, u : /\ AttachReply(s) # FailReply(u) /\ AttachReply(s) # DetachReply(u)
                 /\ FailReply(s) # DetachReply(u)
    /\ \A s : AttachReply(s) # News /\ FailReply(s) # News /\ DetachReply(s) # News
BY MessageEqual DEF AttachReply, FailReply, DetachReply, News

-----------------------------------------------------------------------------
(* One tab: what a step does to its inbox, its debugger and its sessions.  *)

\* The replies to setAutoAttach say nothing of an attachment.
Plain(m) == m.kind \in {"autoOn", "autoOnFailed", "autoOff"}

LEMMA PlainIsOther ==
    ASSUME NEW m, Plain(m)
    PROVE  m # News /\ \A s : m # AttachReply(s) /\ m # FailReply(s) /\ m # DetachReply(s)
BY DEF Plain, News, AttachReply, FailReply, DetachReply, Msg

SameSessions(t) ==
    \A s \in Calls : /\ session'[s].tab = t <=> session[s].tab = t
                     /\ session[s].tab = t => session'[s].state = session[s].state

\* Nothing that matters to the tab, or a plain reply sent or received.
LEMMA TabSame ==
    ASSUME CDPInv, NEW t \in Tabs, SameSessions(t), detaches' = detaches,
           sessions'[t] = sessions[t], debuggee'[t] = debuggee[t],
           \/ inbox'[t] = inbox[t]
           \/ \E m \in Replies : Plain(m) /\ inbox'[t] = Append(inbox[t], m)
           \/ inbox[t] # <<>> /\ Plain(Head(inbox[t])) /\ inbox'[t] = Tail(inbox[t])
    PROVE  TabInv(t)'
<1> DEFINE q == inbox[t]
           r == inbox'[t]
<1>1. /\ q \in Seq(Replies) /\ debuggee[t] \in Calls \cup {None}
      /\ RepliesFit(t) /\ AttachmentKnown(t) /\ OneDetach(t)
  BY DEF CDPInv, ManagerInv, BrowserInv, CDPTypeOK, TabInv
<1>2. PICK m : \/ r = q
               \/ m \in Replies /\ Plain(m) /\ r = Append(q, m)
               \/ q # <<>> /\ m = Head(q) /\ Plain(m) /\ r = Tail(q)
  OBVIOUS
<1>3. CASE r = q
  BY <1>1, <1>3 DEF TabInv, RepliesFit, AttachmentKnown, OneDetach, ReplyOwns, LeaseOwns,
                    SameSessions
<1>4. CASE r # q
  <2>1. /\ Plain(m)
        /\ \A x : In(r, x) => In(q, x) \/ x = m
        /\ \A x : In(q, x) => In(r, x) \/ x = m
        /\ \A x, y : Precedes(r, x, y) => Precedes(q, x, y) \/ y = m
        /\ \A x, y : Precedes(q, x, y) => Precedes(r, x, y) \/ x = m
    <3>1. CASE m \in Replies /\ Plain(m) /\ r = Append(q, m)
      BY <1>1, <3>1, AppendOrder
    <3>2. CASE q # <<>> /\ m = Head(q) /\ Plain(m) /\ r = Tail(q)
      BY <1>1, <3>2, TailOrder
    <3> QED
      BY <1>2, <1>4, <3>1, <3>2
  <2>2. /\ In(r, News) <=> In(q, News)
        /\ \A s : /\ In(r, AttachReply(s)) <=> In(q, AttachReply(s))
                  /\ In(r, FailReply(s)) <=> In(q, FailReply(s))
                  /\ In(r, DetachReply(s)) <=> In(q, DetachReply(s))
                  /\ Once(r, AttachReply(s)) <=> Once(q, AttachReply(s))
                  /\ Once(r, FailReply(s)) <=> Once(q, FailReply(s))
                  /\ Once(r, DetachReply(s)) <=> Once(q, DetachReply(s))
                  /\ Precedes(r, AttachReply(s), News) <=> Precedes(q, AttachReply(s), News)
    BY <2>1, PlainIsOther DEF Once
  <2> HIDE DEF q, r
  <2>3. RepliesFit(t)'
    BY <1>1, <2>2 DEF RepliesFit, SameSessions, q, r
  <2>4. AttachmentKnown(t)'
    BY <1>1, <2>2 DEF AttachmentKnown, SameSessions, q, r
  <2>5. OneDetach(t)'
    <3> SUFFICES ASSUME detaches <= 1, NEW s \in Calls PROVE ReplyOwns(t, s)' /\ LeaseOwns(t, s)'
      BY DEF OneDetach
    <3>1. ReplyOwns(t, s) /\ LeaseOwns(t, s)
      BY <1>1 DEF OneDetach
    <3>2. ReplyOwns(t, s)'
      BY <1>1, <2>2, <3>1 DEF ReplyOwns, RepliesFit, SameSessions, q, r
    <3>3. LeaseOwns(t, s)'
      BY <2>2, <3>1 DEF LeaseOwns, SameSessions, q, r
    <3> QED
      BY <3>2, <3>3
  <2> QED
    BY <2>3, <2>4, <2>5 DEF TabInv
<1> QED
  BY <1>3, <1>4

\* All sessions of the tab but one are what they were.
OtherSessions(t, c) ==
    \A s \in Calls \ {c} : /\ session'[s].tab = t <=> session[s].tab = t
                           /\ session[s].tab = t => session'[s].state = session[s].state

\* The manager detaches the tab's session.
LEMMA TabDetach ==
    ASSUME CDPInv, NEW t \in Tabs, NEW s \in Calls, OtherSessions(t, s), detaches' = detaches,
           sessions[t] = s, session[s].state = "attached",
           session'[s].tab = t, session'[s].state = "detaching",
           sessions'[t] = None, debuggee'[t] = None,
           inbox'[t] = Append(inbox[t], DetachReply(s))
    PROVE  TabInv(t)'
<1> DEFINE q == inbox[t]
           r == inbox'[t]
<1>1. /\ q \in Seq(Replies) /\ debuggee[t] \in Calls \cup {None} /\ detaches \in Nat
      /\ RepliesFit(t) /\ AttachmentKnown(t) /\ OneDetach(t) /\ None \notin Calls
      /\ session[s].tab = t
      /\ \A u \in Calls : session[u].tab = t /\ session[u].state \in {"attaching", "attached"} => u = s
  BY CDPAssumption DEF CDPInv, ManagerInv, BrowserInv, CDPTypeOK, TabInv,
                       Sessions, TabFits, SessionFits
<1>2. /\ \A x : In(r, x) <=> In(q, x) \/ x = DetachReply(s)
      /\ \A x, y : Precedes(r, x, y) <=> Precedes(q, x, y) \/ (In(q, x) /\ y = DetachReply(s))
  BY <1>1, AppendOrder, MessageTypes
<1>3. ~In(q, AttachReply(s)) /\ ~In(q, FailReply(s)) /\ ~In(q, DetachReply(s))
  BY <1>1 DEF RepliesFit
<1>4. /\ In(r, News) <=> In(q, News)
      /\ \A u : /\ In(r, AttachReply(u)) <=> In(q, AttachReply(u))
                /\ In(r, FailReply(u)) <=> In(q, FailReply(u))
                /\ In(r, DetachReply(u)) <=> In(q, DetachReply(u)) \/ u = s
                /\ Once(r, AttachReply(u)) <=> Once(q, AttachReply(u))
                /\ Once(r, FailReply(u)) <=> Once(q, FailReply(u))
                /\ Once(q, DetachReply(u)) /\ u # s => Once(r, DetachReply(u))
                /\ Precedes(r, AttachReply(u), News) <=> Precedes(q, AttachReply(u), News)
  BY <1>2, Distinct DEF Once
<1>5. Once(r, DetachReply(s))
  BY <1>2, <1>3, OrderIn DEF Once
<1> HIDE DEF q, r
<1>6. RepliesFit(t)'
  BY <1>1, <1>3, <1>4, <1>5 DEF RepliesFit, OtherSessions, q, r
<1>7. AttachmentKnown(t)'
  BY DEF AttachmentKnown
<1>8. OneDetach(t)'
  <2> SUFFICES ASSUME detaches <= 1 PROVE OneDetach(t)'
    BY DEF OneDetach
  <2>1. ASSUME NEW u \in Calls, In(q, AttachReply(u)) PROVE FALSE
    <3>1. u # s /\ session[u].tab = t /\ session[u].state = "detached"
      BY <1>1, <1>3, <2>1 DEF RepliesFit, q
    <3>2. ~In(q, News) /\ debuggee[t] = u
      BY <1>1, <2>1, <3>1 DEF OneDetach, ReplyOwns, q
    <3>3. debuggee[t] = s
      BY <1>1, <3>2 DEF OneDetach, LeaseOwns, q
    <3> QED
      BY <3>1, <3>2, <3>3
  <2>2. ASSUME NEW u \in Calls PROVE ReplyOwns(t, u)' /\ LeaseOwns(t, u)'
    BY <1>1, <1>4, <2>1 DEF ReplyOwns, LeaseOwns, OtherSessions, q, r
  <2> QED
    BY <2>2 DEF OneDetach
<1> QED
  BY <1>6, <1>7, <1>8 DEF TabInv

\* A new session: the browser attaches for it, or refuses.
LEMMA TabAcquire ==
    ASSUME CDPInv, NEW t \in Tabs, NEW c \in Calls, OtherSessions(t, c), detaches' = detaches,
           sessions[t] = None, session[c].state = "none",
           session'[c].tab = t, session'[c].state = "attaching", sessions'[t] = c,
           \/ /\ debuggee[t] = None /\ debuggee'[t] = c
              /\ inbox'[t] = Append(inbox[t], AttachReply(c))
           \/ debuggee'[t] = debuggee[t] /\ inbox'[t] = Append(inbox[t], FailReply(c))
    PROVE  TabInv(t)'
<1> DEFINE q == inbox[t]
           r == inbox'[t]
<1>1. /\ q \in Seq(Replies) /\ debuggee[t] \in Calls \cup {None} /\ detaches \in Nat
      /\ RepliesFit(t) /\ AttachmentKnown(t) /\ OneDetach(t) /\ None \notin Calls
      /\ \A u \in Calls : session[u].tab = t => session[u].state \notin {"attaching", "attached"}
  BY CDPAssumption DEF CDPInv, ManagerInv, BrowserInv, CDPTypeOK, TabInv,
                       Sessions, TabFits, SessionFits
<1>2. /\ ~In(q, AttachReply(c)) /\ ~In(q, FailReply(c)) /\ ~In(q, DetachReply(c))
      /\ debuggee[t] # c
  BY <1>1 DEF RepliesFit, AttachmentKnown
<1>3. CASE /\ debuggee[t] = None /\ debuggee'[t] = c
           /\ inbox'[t] = Append(inbox[t], AttachReply(c))
  <2>1. /\ \A x : In(r, x) <=> In(q, x) \/ x = AttachReply(c)
        /\ \A x, y : Precedes(r, x, y) <=> Precedes(q, x, y) \/ (In(q, x) /\ y = AttachReply(c))
    BY <1>1, <1>3, AppendOrder, MessageTypes
  <2>2. /\ In(r, News) <=> In(q, News)
        /\ \A u : /\ In(r, AttachReply(u)) <=> In(q, AttachReply(u)) \/ u = c
                  /\ In(r, FailReply(u)) <=> In(q, FailReply(u))
                  /\ In(r, DetachReply(u)) <=> In(q, DetachReply(u))
                  /\ Once(q, AttachReply(u)) /\ u # c => Once(r, AttachReply(u))
                  /\ Once(r, FailReply(u)) <=> Once(q, FailReply(u))
                  /\ Once(r, DetachReply(u)) <=> Once(q, DetachReply(u))
                  /\ Precedes(r, AttachReply(u), News) <=> Precedes(q, AttachReply(u), News)
    BY <2>1, Distinct DEF Once
  <2>3. Once(r, AttachReply(c)) /\ ~Precedes(r, AttachReply(c), News)
    BY <1>2, <2>1, <2>2, OrderIn DEF Once
  <2> HIDE DEF q, r
  <2>4. RepliesFit(t)'
    BY <1>1, <1>2, <2>2, <2>3 DEF RepliesFit, OtherSessions, q, r
  <2>5. AttachmentKnown(t)'
    BY <1>3, <2>2, <2>3 DEF AttachmentKnown, q, r
  <2>6. OneDetach(t)'
    <3> SUFFICES ASSUME detaches <= 1, NEW u \in Calls PROVE ReplyOwns(t, u)' /\ LeaseOwns(t, u)'
      BY DEF OneDetach
    <3>1. ~In(q, AttachReply(u))
      BY <1>1, <1>3 DEF OneDetach, ReplyOwns, q
    <3> QED
      BY <1>1, <1>3, <2>2, <3>1 DEF ReplyOwns, LeaseOwns, OtherSessions, q, r
  <2> QED
    BY <2>4, <2>5, <2>6 DEF TabInv
<1>4. CASE debuggee'[t] = debuggee[t] /\ inbox'[t] = Append(inbox[t], FailReply(c))
  <2>1. /\ \A x : In(r, x) <=> In(q, x) \/ x = FailReply(c)
        /\ \A x, y : Precedes(r, x, y) <=> Precedes(q, x, y) \/ (In(q, x) /\ y = FailReply(c))
    BY <1>1, <1>4, AppendOrder, MessageTypes
  <2>2. /\ In(r, News) <=> In(q, News)
        /\ \A u : /\ In(r, AttachReply(u)) <=> In(q, AttachReply(u))
                  /\ In(r, FailReply(u)) <=> In(q, FailReply(u)) \/ u = c
                  /\ In(r, DetachReply(u)) <=> In(q, DetachReply(u))
                  /\ Once(r, AttachReply(u)) <=> Once(q, AttachReply(u))
                  /\ Once(q, FailReply(u)) /\ u # c => Once(r, FailReply(u))
                  /\ Once(r, DetachReply(u)) <=> Once(q, DetachReply(u))
                  /\ Precedes(r, AttachReply(u), News) <=> Precedes(q, AttachReply(u), News)
    BY <2>1, Distinct DEF Once
  <2>3. Once(r, FailReply(c))
    BY <1>2, <2>1, OrderIn DEF Once
  <2> HIDE DEF q, r
  <2>4. RepliesFit(t)'
    BY <1>1, <1>2, <2>2, <2>3 DEF RepliesFit, OtherSessions, q, r
  <2>5. AttachmentKnown(t)'
    BY <1>1, <1>2, <1>4, <2>2 DEF AttachmentKnown, OtherSessions, q, r
  <2>6. OneDetach(t)'
    <3> SUFFICES ASSUME detaches <= 1, NEW u \in Calls PROVE ReplyOwns(t, u)' /\ LeaseOwns(t, u)'
      BY DEF OneDetach
    <3>1. ReplyOwns(t, u) /\ LeaseOwns(t, u)
      BY <1>1 DEF OneDetach
    <3>2. ReplyOwns(t, u)'
      BY <1>1, <1>2, <1>4, <2>2, <3>1 DEF ReplyOwns, RepliesFit, OtherSessions, q, r
    <3>3. LeaseOwns(t, u)'
      BY <1>1, <2>2, <3>1 DEF LeaseOwns, OtherSessions, q, r
    <3> QED
      BY <3>2, <3>3
  <2> QED
    BY <2>4, <2>5, <2>6 DEF TabInv
<1> QED
  BY <1>3, <1>4

\* The reply to an attach: the session opens.
LEMMA TabOpen ==
    ASSUME CDPInv, NEW t \in Tabs, NEW s \in Calls, OtherSessions(t, s), detaches' = detaches,
           inbox[t] # <<>>, Head(inbox[t]) = AttachReply(s), inbox'[t] = Tail(inbox[t]),
           session[s].consumers # {}, session'[s].tab = session[s].tab,
           session'[s].state = "attached", sessions'[t] = sessions[t], debuggee'[t] = debuggee[t]
    PROVE  TabInv(t)' /\ session[s].state = "attaching"
<1> DEFINE q == inbox[t]
           r == inbox'[t]
<1>1. /\ q \in Seq(Replies) /\ debuggee[t] \in Calls \cup {None} /\ detaches \in Nat
      /\ RepliesFit(t) /\ AttachmentKnown(t) /\ OneDetach(t) /\ None \notin Calls
      /\ \A u \in Calls : /\ session[u].consumers # {} => session[u].state \in {"attaching", "attached"}
                          /\ session[u].state \in {"attaching", "attached"} => sessions[session[u].tab] = u
  BY CDPAssumption DEF CDPInv, ManagerInv, BrowserInv, CDPTypeOK, TabInv,
                       Sessions, TabFits, SessionFits
<1>2. /\ \A x : In(q, x) <=> x = AttachReply(s) \/ In(r, x)
      /\ \A x, y : Precedes(q, x, y) <=> (x = AttachReply(s) /\ In(r, y)) \/ Precedes(r, x, y)
  BY <1>1, TailOrder
<1>3. /\ In(r, News) <=> In(q, News)
      /\ Precedes(q, AttachReply(s), News) <=> In(q, News)
      /\ In(q, AttachReply(s))
      /\ \A u : /\ In(r, AttachReply(u)) => In(q, AttachReply(u))
                /\ In(q, AttachReply(u)) /\ u # s => In(r, AttachReply(u))
                /\ In(r, FailReply(u)) <=> In(q, FailReply(u))
                /\ In(r, DetachReply(u)) <=> In(q, DetachReply(u))
                /\ Once(q, AttachReply(u)) => Once(r, AttachReply(u))
                /\ Once(r, FailReply(u)) <=> Once(q, FailReply(u))
                /\ Once(r, DetachReply(u)) <=> Once(q, DetachReply(u))
                /\ Precedes(r, AttachReply(u), News) => Precedes(q, AttachReply(u), News)
                /\ Precedes(q, AttachReply(u), News) /\ u # s => Precedes(r, AttachReply(u), News)
  BY <1>2, Distinct, OrderIn DEF Once
<1>4. session[s].tab = t /\ session[s].state = "attaching" /\ sessions[t] = s
  BY <1>1, <1>3 DEF RepliesFit, q
<1>5. ~In(r, AttachReply(s)) /\ ~In(q, FailReply(s)) /\ ~In(q, DetachReply(s))
  <2>1. Once(q, AttachReply(s)) /\ ~In(q, FailReply(s)) /\ ~In(q, DetachReply(s))
    BY <1>1, <1>3, <1>4 DEF RepliesFit, q
  <2> QED
    BY <1>2, <2>1 DEF Once
<1> HIDE DEF q, r
<1>6. RepliesFit(t)'
  BY <1>1, <1>3, <1>5 DEF RepliesFit, OtherSessions, q, r
<1>7. AttachmentKnown(t)'
  <2>1. CASE debuggee[t] = s
    BY <1>1, <1>3, <1>4, <1>5, <2>1 DEF AttachmentKnown, q, r
  <2>2. CASE debuggee[t] # s
    BY <1>1, <1>3, <2>2 DEF AttachmentKnown, OtherSessions, q, r
  <2> QED
    BY <2>1, <2>2
<1>8. OneDetach(t)'
  <2> SUFFICES ASSUME detaches <= 1, NEW u \in Calls PROVE ReplyOwns(t, u)' /\ LeaseOwns(t, u)'
    BY DEF OneDetach
  <2>1. ReplyOwns(t, u) /\ LeaseOwns(t, u) /\ ReplyOwns(t, s)
    BY <1>1 DEF OneDetach
  <2>2. CASE u = s
    BY <1>3, <1>4, <1>5, <2>1, <2>2 DEF ReplyOwns, LeaseOwns, q, r
  <2>3. CASE u # s
    <3>1. ReplyOwns(t, u)'
      BY <1>1, <1>3, <2>1, <2>3 DEF ReplyOwns, RepliesFit, OtherSessions, q, r
    <3>2. LeaseOwns(t, u)'
      BY <1>3, <2>1, <2>3 DEF LeaseOwns, OtherSessions, q, r
    <3> QED
      BY <3>1, <3>2
  <2> QED
    BY <2>2, <2>3
<1> QED
  BY <1>4, <1>6, <1>7, <1>8 DEF TabInv

\* The reply to an attach: the session must close, and detaches the tab.
LEMMA TabClose ==
    ASSUME CDPInv, NEW t \in Tabs, NEW s \in Calls, OtherSessions(t, s), detaches' = detaches,
           inbox[t] # <<>>, Head(inbox[t]) = AttachReply(s),
           inbox'[t] = Append(Tail(inbox[t]), DetachReply(s)),
           session'[s].tab = session[s].tab, session'[s].state = "detaching",
           sessions'[t] = IF sessions[t] = s THEN None ELSE sessions[t], debuggee'[t] = None
    PROVE  TabInv(t)'
<1> DEFINE q == inbox[t]
           v == Tail(inbox[t])
           r == inbox'[t]
<1>1. /\ q \in Seq(Replies) /\ debuggee[t] \in Calls \cup {None} /\ detaches \in Nat
      /\ RepliesFit(t) /\ AttachmentKnown(t) /\ OneDetach(t) /\ None \notin Calls
      /\ \A u \in Calls : session[u].state \in {"attaching", "attached"} => sessions[session[u].tab] = u
      /\ sessions[t] # None => session[sessions[t]].state \in {"attaching", "attached"}
  BY CDPAssumption DEF CDPInv, ManagerInv, BrowserInv, CDPTypeOK, TabInv,
                       Sessions, TabFits, SessionFits
<1>2. /\ v \in Seq(Replies)
      /\ \A x : In(q, x) <=> x = AttachReply(s) \/ In(v, x)
      /\ \A x, y : Precedes(q, x, y) <=> (x = AttachReply(s) /\ In(v, y)) \/ Precedes(v, x, y)
  BY <1>1, TailOrder
<1> DEFINE d == DetachReply(s)
<1>d. d \in Replies /\ r = Append(v, d)
  BY MessageTypes
<1> HIDE DEF v, r, d
<1>3. /\ \A x : In(r, x) <=> In(v, x) \/ x = d
      /\ \A x, y : Precedes(r, x, y) <=> Precedes(v, x, y) \/ (In(v, x) /\ y = d)
  BY <1>2, <1>d, AppendOrder
<1> USE DEF d
<1>4. /\ In(r, News) <=> In(q, News)
      /\ Precedes(q, AttachReply(s), News) <=> In(q, News)
      /\ In(q, AttachReply(s))
      /\ \A u : /\ In(r, AttachReply(u)) => In(q, AttachReply(u))
                /\ In(r, FailReply(u)) <=> In(q, FailReply(u))
                /\ In(r, DetachReply(u)) <=> In(q, DetachReply(u)) \/ u = s
                /\ Once(q, AttachReply(u)) => Once(r, AttachReply(u))
                /\ Once(r, FailReply(u)) <=> Once(q, FailReply(u))
                /\ Once(q, DetachReply(u)) /\ u # s => Once(r, DetachReply(u))
  BY <1>2, <1>3, Distinct, OrderIn DEF Once
<1>5. /\ session[s].tab = t /\ session[s].state \in {"attaching", "detached"}
      /\ Once(q, AttachReply(s)) /\ ~In(q, FailReply(s)) /\ ~In(q, DetachReply(s))
  BY <1>1, <1>4 DEF RepliesFit, q
<1>6. ~In(r, AttachReply(s)) /\ Once(r, DetachReply(s))
  BY <1>2, <1>3, <1>4, <1>5, Distinct, OrderIn DEF Once
<1> HIDE DEF q, r
<1>7. RepliesFit(t)'
  BY <1>1, <1>4, <1>5, <1>6 DEF RepliesFit, OtherSessions, q, r
<1>8. AttachmentKnown(t)'
  BY DEF AttachmentKnown
<1>9. OneDetach(t)'
  <2> SUFFICES ASSUME detaches <= 1, NEW u \in Calls PROVE ReplyOwns(t, u)' /\ LeaseOwns(t, u)'
    BY DEF OneDetach
  <2>1. ReplyOwns(t, u) /\ LeaseOwns(t, u) /\ ReplyOwns(t, s)
    BY <1>1 DEF OneDetach
  <2>2. \/ debuggee[t] = s /\ ~In(q, News)
        \/ In(q, News) /\ sessions[t] = s
    BY <1>1, <1>4, <2>1, OrderIn DEF ReplyOwns, AttachmentKnown, q
  <2>3. CASE u = s
    BY <1>6, <2>3 DEF ReplyOwns, LeaseOwns, r
  <2>4. CASE u # s
    <3>1. ~In(q, AttachReply(u))
      <4> SUFFICES ASSUME In(q, AttachReply(u)) PROVE FALSE
        OBVIOUS
      <4>1. session[u].tab = t /\ session[u].state \in {"attaching", "detached"}
        BY <1>1 DEF RepliesFit, q
      <4>2. Precedes(q, AttachReply(u), News) => In(q, News)
        BY OrderIn
      <4> QED
        BY <1>1, <2>1, <2>2, <2>4, <4>1, <4>2 DEF ReplyOwns, q
    <3>2. ~(session[u].tab = t /\ session[u].state = "attached")
      BY <1>1, <2>1, <2>2, <2>4 DEF LeaseOwns, q
    <3> QED
      BY <1>4, <2>4, <3>1, <3>2 DEF ReplyOwns, LeaseOwns, OtherSessions, q, r
  <2> QED
    BY <2>3, <2>4
<1> QED
  BY <1>7, <1>8, <1>9 DEF TabInv

\* The reply to a failed attach, or to a detach: the session has ended.
LEMMA TabEnded ==
    ASSUME CDPInv, NEW t \in Tabs, NEW s \in Calls, OtherSessions(t, s), detaches' = detaches,
           inbox[t] # <<>>, Head(inbox[t]) \in {FailReply(s), DetachReply(s)},
           inbox'[t] = Tail(inbox[t]), session'[s].tab = session[s].tab,
           session'[s].state \in {"failed", "detached"},
           sessions'[t] = IF sessions[t] = s THEN None ELSE sessions[t], debuggee'[t] = debuggee[t]
    PROVE  TabInv(t)'
<1> DEFINE q == inbox[t]
           r == inbox'[t]
           m == Head(inbox[t])
<1>1. /\ q \in Seq(Replies) /\ debuggee[t] \in Calls \cup {None} /\ detaches \in Nat
      /\ RepliesFit(t) /\ AttachmentKnown(t) /\ OneDetach(t) /\ None \notin Calls
  BY CDPAssumption DEF CDPInv, ManagerInv, BrowserInv, CDPTypeOK, TabInv
<1>2. /\ \A x : In(q, x) <=> x = m \/ In(r, x)
      /\ \A x, y : Precedes(q, x, y) <=> (x = m /\ In(r, y)) \/ Precedes(r, x, y)
  BY <1>1, TailOrder
<1> HIDE DEF m
<1>3. m = FailReply(s) \/ m = DetachReply(s)
  BY DEF m
<1>4. /\ In(r, News) <=> In(q, News)
      /\ \A u : /\ In(r, AttachReply(u)) <=> In(q, AttachReply(u))
                /\ In(r, FailReply(u)) => In(q, FailReply(u))
                /\ In(r, DetachReply(u)) => In(q, DetachReply(u))
                /\ Once(r, AttachReply(u)) <=> Once(q, AttachReply(u))
                /\ Once(q, FailReply(u)) => Once(r, FailReply(u))
                /\ Once(q, DetachReply(u)) => Once(r, DetachReply(u))
                /\ Precedes(r, AttachReply(u), News) <=> Precedes(q, AttachReply(u), News)
  BY <1>2, <1>3, Distinct DEF Once
<1>5. /\ session[s].tab = t /\ session[s].state # "attached"
      /\ ~In(q, AttachReply(s)) /\ ~In(r, FailReply(s)) /\ ~In(r, DetachReply(s))
  <2>1. CASE m = FailReply(s)
    <3>1. In(q, FailReply(s))
      BY <1>2, <2>1
    <3>2. /\ session[s].tab = t /\ session[s].state \in {"attaching", "detached"}
          /\ Once(q, FailReply(s)) /\ ~In(q, AttachReply(s)) /\ ~In(q, DetachReply(s))
      BY <1>1, <3>1 DEF RepliesFit, q
    <3> QED
      BY <1>2, <1>4, <2>1, <3>2 DEF Once
  <2>2. CASE m = DetachReply(s)
    <3>1. In(q, DetachReply(s))
      BY <1>2, <2>2
    <3>2. /\ session[s].tab = t /\ session[s].state = "detaching"
          /\ Once(q, DetachReply(s)) /\ ~In(q, AttachReply(s)) /\ ~In(q, FailReply(s))
      BY <1>1, <3>1 DEF RepliesFit, q
    <3> QED
      BY <1>2, <1>4, <2>2, <3>2 DEF Once
  <2> QED
    BY <1>3, <2>1, <2>2
<1>6. debuggee[t] # s
  BY <1>1, <1>5 DEF AttachmentKnown, q
<1> HIDE DEF q, r
<1>7. RepliesFit(t)'
  BY <1>1, <1>4, <1>5 DEF RepliesFit, OtherSessions, q, r
<1>8. AttachmentKnown(t)'
  BY <1>1, <1>4, <1>6 DEF AttachmentKnown, OtherSessions, q, r
<1>9. OneDetach(t)'
  <2> SUFFICES ASSUME detaches <= 1, NEW u \in Calls PROVE ReplyOwns(t, u)' /\ LeaseOwns(t, u)'
    BY DEF OneDetach
  <2>1. ReplyOwns(t, u) /\ LeaseOwns(t, u)
    BY <1>1 DEF OneDetach
  <2>2. CASE u = s
    BY <1>4, <1>5, <2>2 DEF ReplyOwns, LeaseOwns, q, r
  <2>3. CASE u # s
    <3>1. ReplyOwns(t, u)'
      BY <1>1, <1>4, <2>1, <2>3 DEF ReplyOwns, RepliesFit, OtherSessions, q, r
    <3>2. LeaseOwns(t, u)'
      BY <1>4, <2>1, <2>3 DEF LeaseOwns, OtherSessions, q, r
    <3> QED
      BY <3>1, <3>2
  <2> QED
    BY <2>2, <2>3
<1> QED
  BY <1>7, <1>8, <1>9 DEF TabInv

\* The news of a detach: the session the tab has now is given up.
LEMMA TabNews ==
    ASSUME CDPInv, NEW t \in Tabs, detaches' = detaches,
           inbox[t] # <<>>, Head(inbox[t]) = News, inbox'[t] = Tail(inbox[t]),
           \A s \in Calls : /\ session'[s].tab = session[s].tab
                            /\ session'[s].state = IF sessions[t] = s THEN "detached"
                                                   ELSE session[s].state,
           sessions'[t] = None, debuggee'[t] = debuggee[t]
    PROVE  TabInv(t)'
<1> DEFINE q == inbox[t]
           r == inbox'[t]
<1>1. /\ q \in Seq(Replies) /\ debuggee[t] \in Calls \cup {None} /\ detaches \in Nat
      /\ RepliesFit(t) /\ AttachmentKnown(t) /\ OneDetach(t) /\ NewsCounted /\ None \notin Calls
      /\ \A u \in Calls : session[u].state \in {"attaching", "attached"} => sessions[session[u].tab] = u
      /\ sessions[t] # None => session[sessions[t]].state \in {"attaching", "attached"}
  BY CDPAssumption DEF CDPInv, ManagerInv, BrowserInv, CDPTypeOK, TabInv,
                       Sessions, TabFits, SessionFits
<1>2. /\ \A x : In(q, x) <=> x = News \/ In(r, x)
      /\ \A x, y : Precedes(q, x, y) <=> (x = News /\ In(r, y)) \/ Precedes(r, x, y)
  BY <1>1, TailOrder
<1>3. /\ In(q, News) /\ (In(r, News) => Precedes(q, News, News))
      /\ \A u : /\ In(r, AttachReply(u)) <=> In(q, AttachReply(u))
                /\ In(r, FailReply(u)) <=> In(q, FailReply(u))
                /\ In(r, DetachReply(u)) <=> In(q, DetachReply(u))
                /\ Once(r, AttachReply(u)) <=> Once(q, AttachReply(u))
                /\ Once(r, FailReply(u)) <=> Once(q, FailReply(u))
                /\ Once(r, DetachReply(u)) <=> Once(q, DetachReply(u))
                /\ Precedes(q, AttachReply(u), News) => Precedes(r, AttachReply(u), News)
                /\ Precedes(r, AttachReply(u), News) => Precedes(q, AttachReply(u), News)
  BY <1>2, Distinct DEF Once
<1>4. \A u \in Calls : session'[u].tab = t => session'[u].state \notin {"attaching", "attached"}
  BY <1>1
<1> HIDE DEF q, r
<1>5. RepliesFit(t)'
  BY <1>1, <1>3 DEF RepliesFit, q, r
<1>6. AttachmentKnown(t)'
  BY <1>1, <1>3 DEF AttachmentKnown, q, r
<1>7. OneDetach(t)'
  <2> SUFFICES ASSUME detaches <= 1, NEW u \in Calls PROVE ReplyOwns(t, u)' /\ LeaseOwns(t, u)'
    BY DEF OneDetach
  <2>1. ReplyOwns(t, u)
    BY <1>1 DEF OneDetach
  <2>2. detaches = 1 /\ ~In(r, News)
    BY <1>1, <1>3 DEF NewsCounted, Once, q
  <2>3. ~Precedes(q, AttachReply(u), News)
    BY <1>3, <2>2, OrderIn
  <2> QED
    BY <1>3, <1>4, <2>1, <2>2, <2>3 DEF ReplyOwns, LeaseOwns, q, r
<1> QED
  BY <1>5, <1>6, <1>7 DEF TabInv

\* The browser ends the tab's attachment.
LEMMA TabEndedByBrowser ==
    ASSUME CDPInv, NEW t \in Tabs, session' = session, sessions' = sessions,
           debuggee'[t] = None, detaches' = detaches + 1, inbox'[t] = Append(inbox[t], News)
    PROVE  TabInv(t)'
<1> DEFINE q == inbox[t]
           r == inbox'[t]
<1>1. /\ q \in Seq(Replies) /\ detaches \in Nat
      /\ RepliesFit(t) /\ OneDetach(t) /\ None \notin Calls
      /\ \A u \in Calls : session[u].state \in {"attaching", "attached"} => sessions[session[u].tab] = u
  BY CDPAssumption DEF CDPInv, ManagerInv, BrowserInv, CDPTypeOK, TabInv,
                       Sessions, TabFits, SessionFits
<1>2. /\ \A x : In(r, x) <=> In(q, x) \/ x = News
      /\ \A x, y : Precedes(r, x, y) <=> Precedes(q, x, y) \/ (In(q, x) /\ y = News)
  BY <1>1, AppendOrder, MessageTypes
<1>3. /\ In(r, News)
      /\ \A u : /\ In(r, AttachReply(u)) <=> In(q, AttachReply(u))
                /\ In(r, FailReply(u)) <=> In(q, FailReply(u))
                /\ In(r, DetachReply(u)) <=> In(q, DetachReply(u))
                /\ Once(r, AttachReply(u)) <=> Once(q, AttachReply(u))
                /\ Once(r, FailReply(u)) <=> Once(q, FailReply(u))
                /\ Once(r, DetachReply(u)) <=> Once(q, DetachReply(u))
                /\ In(q, AttachReply(u)) => Precedes(r, AttachReply(u), News)
  BY <1>2, Distinct DEF Once
<1> HIDE DEF q, r
<1>4. RepliesFit(t)'
  BY <1>1, <1>3 DEF RepliesFit, q, r
<1>5. AttachmentKnown(t)'
  BY DEF AttachmentKnown
<1>6. OneDetach(t)'
  <2> SUFFICES ASSUME detaches + 1 <= 1, NEW u \in Calls PROVE ReplyOwns(t, u)' /\ LeaseOwns(t, u)'
    BY DEF OneDetach
  <2>1. ReplyOwns(t, u) /\ detaches # 1
    BY <1>1 DEF OneDetach
  <2>2. ReplyOwns(t, u)'
    <3> SUFFICES ASSUME In(r, AttachReply(u))
                 PROVE  session[u].state # "detached" /\ Precedes(r, AttachReply(u), News) /\ sessions[t] = u
      BY DEF ReplyOwns, r
    <3>1. In(q, AttachReply(u))
      BY <1>3
    <3>2. session[u].tab = t /\ session[u].state \in {"attaching", "detached"}
      BY <1>1, <3>1 DEF RepliesFit, q
    <3>3. session[u].state # "detached"
      BY <2>1, <3>1 DEF ReplyOwns, q
    <3> QED
      BY <1>1, <1>3, <3>1, <3>2, <3>3
  <2>3. LeaseOwns(t, u)'
    BY <1>3 DEF LeaseOwns, r
  <2> QED
    BY <2>2, <2>3
<1> QED
  BY <1>4, <1>5, <1>6 DEF TabInv

\* The browser ends the attachment of another tab.
LEMMA TabElsewhere ==
    ASSUME CDPInv, NEW t \in Tabs, session' = session, sessions' = sessions,
           debuggee'[t] = debuggee[t], detaches' = detaches + 1, inbox'[t] = inbox[t]
    PROVE  TabInv(t)'
<1>1. detaches \in Nat /\ RepliesFit(t) /\ AttachmentKnown(t) /\ OneDetach(t)
  BY CDPAssumption DEF CDPInv, ManagerInv, BrowserInv, CDPTypeOK, TabInv
<1>2. RepliesFit(t)' /\ AttachmentKnown(t)'
  BY <1>1 DEF RepliesFit, AttachmentKnown
<1>3. OneDetach(t)'
  <2> SUFFICES ASSUME detaches + 1 <= 1, NEW u \in Calls PROVE ReplyOwns(t, u)' /\ LeaseOwns(t, u)'
    BY DEF OneDetach
  <2>1. ReplyOwns(t, u) /\ LeaseOwns(t, u) /\ detaches # 1
    BY <1>1 DEF OneDetach
  <2> QED
    BY <2>1 DEF ReplyOwns, LeaseOwns
<1> QED
  BY <1>2, <1>3 DEF TabInv

-----------------------------------------------------------------------------
(* Every inbox: the releases under way, the news under way.                *)

\* What the extension's calls send: no news, and an answer to a release that has left.
Sendable(m) == m \in Replies /\ m # News /\ (m.kind = "autoOff" => Leaving(m.to)')

\* An inbox stays, gets such a message, loses its first one, or both.
Delivers(t) ==
    \/ inbox'[t] = inbox[t]
    \/ \E m : Sendable(m) /\ inbox'[t] = Append(inbox[t], m)
    \/ inbox[t] # <<>> /\ inbox'[t] = Tail(inbox[t])
    \/ \E m : Sendable(m) /\ inbox[t] # <<>> /\ inbox'[t] = Append(Tail(inbox[t]), m)

\* What is in the inbox afterwards.
LEMMA DeliversOrder ==
    ASSUME CDPInv, NEW t \in Tabs, Delivers(t)
    PROVE  /\ inbox'[t] \in Seq(Replies)
           /\ In(inbox'[t], News) => In(inbox[t], News)
           /\ Once(inbox[t], News) => Once(inbox'[t], News)
           /\ \A c : In(inbox'[t], Msg("autoOff", c)) =>
                        In(inbox[t], Msg("autoOff", c)) \/ Leaving(c)'
<1> DEFINE q == inbox[t]
           r == inbox'[t]
           v == Tail(inbox[t])
<1>1. q \in Seq(Replies)
  BY DEF CDPInv, ManagerInv, CDPTypeOK
<1>2. ASSUME NEW m, Sendable(m)
      PROVE  m \in Replies /\ m # News /\ \A c : Msg("autoOff", c) = m => Leaving(c)'
  BY <1>2, MessageFields DEF Sendable
<1>3. ASSUME q # <<>>
      PROVE  /\ v \in Seq(Replies) /\ (\A x : In(v, x) => In(q, x))
             /\ Once(q, News) => Once(v, News)
  BY <1>1, <1>3, TailOrder DEF Once
<1> HIDE DEF q, r, v
<1>4. CASE r = q
  BY <1>1, <1>4 DEF q, r
<1>5. CASE \E m : Sendable(m) /\ r = Append(q, m)
  <2>1. PICK m : Sendable(m) /\ r = Append(q, m)
    BY <1>5
  <2>2. /\ r \in Seq(Replies)
        /\ \A x : In(r, x) <=> In(q, x) \/ x = m
        /\ \A x, y : Precedes(r, x, y) <=> Precedes(q, x, y) \/ (In(q, x) /\ y = m)
    BY <1>1, <1>2, <2>1, AppendOrder
  <2> QED
    BY <1>2, <2>1, <2>2 DEF Once, q, r
<1>6. CASE q # <<>> /\ r = v
  BY <1>3, <1>6 DEF q, r
<1>7. CASE \E m : Sendable(m) /\ q # <<>> /\ r = Append(v, m)
  <2>1. PICK m : Sendable(m) /\ r = Append(v, m)
    BY <1>7
  <2>2. /\ r \in Seq(Replies)
        /\ \A x : In(r, x) <=> In(v, x) \/ x = m
        /\ \A x, y : Precedes(r, x, y) <=> Precedes(v, x, y) \/ (In(v, x) /\ y = m)
    BY <1>2, <1>3, <1>7, <2>1, AppendOrder
  <2> QED
    BY <1>2, <1>3, <1>7, <2>1, <2>2 DEF Once, q, r
<1> QED
  BY <1>4, <1>5, <1>6, <1>7 DEF Delivers, q, r, v

LEMMA InboxesKept ==
    ASSUME CDPInv, detaches' = detaches, \A t \in Tabs : Delivers(t),
           \A c \in Calls : Leaving(c) => Leaving(c)'
    PROVE  OffFits' /\ NewsCounted'
<1>1. OffFits /\ NewsCounted
  BY DEF CDPInv, BrowserInv
<1>2. \A t \in Tabs : /\ In(inbox'[t], News) => In(inbox[t], News)
                      /\ Once(inbox[t], News) => Once(inbox'[t], News)
  BY DeliversOrder
<1>3. ASSUME NEW t \in Tabs, NEW c \in Calls, In(inbox'[t], Msg("autoOff", c))
      PROVE  Leaving(c)'
  <2>1. In(inbox[t], Msg("autoOff", c)) \/ Leaving(c)'
    BY <1>3, DeliversOrder
  <2> QED
    BY <1>1, <2>1 DEF OffFits
<1> QED
  BY <1>1, <1>2, <1>3 DEF OffFits, NewsCounted

-----------------------------------------------------------------------------
(* The manager: waiters move, consumers join and leave, sessions end.      *)

\* No consumer joins or leaves: a waiter moves on, a promise settles.
LEMMA ManagerSame ==
    ASSUME ManagerInv, CDPTypeOK', sessions' = sessions,
           \A s \in Calls :
              /\ session'[s].tab = session[s].tab /\ session'[s].consumers = session[s].consumers
              /\ session'[s].childConsumerCount = session[s].childConsumerCount
              /\ \/ session'[s].state = session[s].state
                 \/ session[s].state = "detaching" /\ session'[s].state = "detached"
                 \/ /\ session[s].state = "attaching" /\ session'[s].state = "attached"
                    /\ session[s].consumers # {},
           \A c \in Calls :
              /\ call'[c].of = call[c].of /\ call'[c].active = call[c].active
              /\ \/ call'[c].pc = call[c].pc
                 \/ /\ call'[c].pc # "idle" /\ (call'[c].pc = "done" \/ call[c].of # None)
                    /\ call[c].active => /\ call'[c].pc \in {"auto", "leased"}
                                         /\ session[call[c].of].state = "attached"
    PROVE  ManagerInv'
<1>1. CDPTypeOK /\ Members /\ Sessions /\ Counts
  BY DEF ManagerInv
<1>2. Members'
  <2> SUFFICES ASSUME NEW c \in Calls PROVE CallFits(c)' /\ ConsumersFit(c)'
    BY DEF Members
  <2>1. CallFits(c) /\ ConsumersFit(c) /\ call[c].of \in Calls \cup {None}
    BY <1>1 DEF Members, CDPTypeOK, Call
  <2>2. CallFits(c)'
    BY <2>1 DEF CallFits
  <2>3. ConsumersFit(c)'
    <3>1. session[c].consumers \subseteq Calls
      BY <1>1 DEF CDPTypeOK, Session
    <3> QED
      BY <2>1, <3>1 DEF ConsumersFit
  <2> QED
    BY <2>2, <2>3
<1>3. Sessions'
  <2>1. ASSUME NEW t \in Tabs PROVE TabFits(t)'
    <3>1. TabFits(t) /\ sessions[t] \in Calls \cup {None}
      BY <1>1 DEF Sessions, CDPTypeOK
    <3> QED
      BY <3>1 DEF TabFits
  <2>2. ASSUME NEW s \in Calls PROVE SessionFits(s)'
    <3>1. SessionFits(s)
      BY <1>1 DEF Sessions
    <3> QED
      BY <3>1 DEF SessionFits
  <2> QED
    BY <2>1, <2>2 DEF Sessions
<1>4. Counts'
  BY <1>1 DEF Counts, CountFits
<1> QED
  BY <1>2, <1>3, <1>4 DEF ManagerInv

\* A consumer leaves; with the last one an attached session ends.
LEMMA ManagerLeave ==
    ASSUME ManagerInv, CDPTypeOK', NEW c \in Calls, NEW s \in Calls,
           call[c].active, s = call[c].of,
           \A d \in Calls \ {c} : call'[d] = call[d],
           call'[c].of = s, ~call'[c].active, call'[c].pc # "idle",
           \A u \in Calls \ {s} : session'[u] = session[u],
           session'[s].tab = session[s].tab,
           session'[s].consumers = Left(c).consumers,
           session'[s].childConsumerCount = Left(c).childConsumerCount,
           \/ /\ session'[s].state = session[s].state /\ sessions' = sessions
              /\ session[s].state = "attached" => session'[s].consumers # {}
           \/ /\ session[s].state = "attached" /\ session'[s].state = "detaching"
              /\ session'[s].consumers = {} /\ sessions' = Forget(s)
    PROVE  ManagerInv'
<1> DEFINE C == session[s].consumers
           n == session[s].childConsumerCount
<1>1. CDPTypeOK /\ Members /\ Sessions /\ Counts
  BY DEF ManagerInv
<1>2. /\ session[s] \in Session /\ C \subseteq Calls /\ n \in Nat
      /\ c \in C /\ IsFiniteSet(C) /\ n = Cardinality(C \cap Child)
  <2>1. session[s] \in Session /\ CallFits(c) /\ CountFits(s)
    BY <1>1 DEF CDPTypeOK, Members, Counts
  <2> QED
    BY <2>1 DEF Session, CallFits, CountFits
<1>3. /\ session'[s].consumers = C \ {c}
      /\ session'[s].childConsumerCount = IF c \in Child /\ n > 0 THEN n - 1 ELSE n
  BY <1>2 DEF Left, Session
<1> HIDE DEF C, n
<1>4. Members'
  <2> SUFFICES ASSUME NEW d \in Calls PROVE CallFits(d)' /\ ConsumersFit(d)'
    BY DEF Members
  <2>1. /\ CallFits(d) /\ ConsumersFit(d) /\ CallFits(c) /\ call[d].of \in Calls \cup {None}
        /\ session[d].consumers \subseteq Calls
    BY <1>1 DEF Members, CDPTypeOK, Call, Session
  <2>2. CallFits(d)'
    <3>1. CASE d = c
      BY <1>3, <2>1, <3>1 DEF CallFits
    <3>2. CASE d # c
      BY <1>3, <2>1, <3>2 DEF CallFits, C
    <3> QED
      BY <3>1, <3>2
  <2>3. ConsumersFit(d)'
    <3>1. CASE d = s
      BY <1>2, <1>3, <2>1, <3>1 DEF ConsumersFit, C
    <3>2. CASE d # s
      BY <2>1, <3>2 DEF ConsumersFit
    <3> QED
      BY <3>1, <3>2
  <2> QED
    BY <2>2, <2>3
<1>5. Sessions'
  <2>1. CASE sessions' = sessions /\ session'[s].state = session[s].state
              /\ (session[s].state = "attached" => session'[s].consumers # {})
    <3>1. session'[s].consumers # {} => session[s].consumers # {}
      BY <1>3 DEF C
    <3>2. ASSUME NEW t \in Tabs PROVE TabFits(t)'
      <4>1. TabFits(t) /\ sessions[t] \in Calls \cup {None}
        BY <1>1 DEF Sessions, CDPTypeOK
      <4> QED
        BY <2>1, <4>1 DEF TabFits
    <3>3. ASSUME NEW u \in Calls PROVE SessionFits(u)'
      <4>1. SessionFits(u)
        BY <1>1 DEF Sessions
      <4> QED
        BY <2>1, <3>1, <4>1 DEF SessionFits
    <3> QED
      BY <3>2, <3>3 DEF Sessions
  <2>2. CASE /\ session[s].state = "attached" /\ session'[s].state = "detaching"
             /\ session'[s].consumers = {} /\ sessions' = Forget(s)
    <3>1. \A t \in Tabs : /\ sessions[t] \in Calls \cup {None}
                          /\ sessions'[t] = IF sessions[t] = s THEN None ELSE sessions[t]
      BY <1>1, <2>2 DEF Forget, CDPTypeOK
    <3>2. ASSUME NEW t \in Tabs PROVE TabFits(t)'
      <4>1. TabFits(t)
        BY <1>1 DEF Sessions
      <4> QED
        BY <3>1, <4>1 DEF TabFits
    <3>3. ASSUME NEW u \in Calls PROVE SessionFits(u)'
      <4>1. SessionFits(u) /\ SessionFits(s)
        BY <1>1 DEF Sessions
      <4>2. CASE u = s
        BY <2>2, <4>1, <4>2 DEF SessionFits
      <4>3. CASE u # s
        BY <3>1, <4>1, <4>3 DEF SessionFits
      <4> QED
        BY <4>2, <4>3
    <3> QED
      BY <3>2, <3>3 DEF Sessions
  <2> QED
    BY <2>1, <2>2
<1>6. Counts'
  <2>1. IsFiniteSet(C \ {c})
    BY <1>2, FS_RemoveElement
  <2>2. IsFiniteSet(C \cap Child)
    BY <1>2, FS_Subset
  <2>3. session'[s].childConsumerCount = Cardinality((C \ {c}) \cap Child)
    <3>1. CASE c \in Child
      <4>1. (C \ {c}) \cap Child = (C \cap Child) \ {c} /\ c \in C \cap Child
        BY <1>2, <3>1
      <4>2. Cardinality((C \cap Child) \ {c}) = n - 1 /\ n > 0
        <5>1. Cardinality((C \cap Child) \ {c}) = n - 1
          BY <1>2, <2>2, <4>1, FS_RemoveElement
        <5>2. Cardinality((C \cap Child) \ {c}) \in Nat
          BY <2>2, FS_RemoveElement, FS_CardinalityType
        <5> QED
          BY <1>2, <5>1, <5>2
      <4> QED
        BY <1>3, <3>1, <4>1, <4>2
    <3>2. CASE c \notin Child
      <4>1. (C \ {c}) \cap Child = C \cap Child
        BY <3>2
      <4> QED
        BY <1>2, <1>3, <3>2, <4>1
    <3> QED
      BY <3>1, <3>2
  <2>4. ASSUME NEW u \in Calls PROVE CountFits(u)'
    <3>1. CountFits(u)
      BY <1>1 DEF Counts
    <3> QED
      BY <1>3, <2>1, <2>3, <3>1 DEF CountFits
  <2> QED
    BY <2>4 DEF Counts
<1> QED
  BY <1>4, <1>5, <1>6 DEF ManagerInv

\* Sessions end with their consumers; one that is attaching may go on without.
LEMMA ManagerClose ==
    ASSUME ManagerInv, CDPTypeOK', NEW S \in SUBSET Calls, call' = Deactivated(S),
           \A u \in Calls \ S : session'[u] = session[u],
           \A u \in S : /\ session[u].state # "none" /\ session'[u].tab = session[u].tab
                        /\ session'[u].consumers = {} /\ session'[u].childConsumerCount = 0
                        /\ \/ session'[u].state = "attaching" /\ session[u].state = "attaching"
                           \/ session'[u].state \in {"detaching", "detached", "failed"},
           \A t \in Tabs : sessions'[t] = IF sessions[t] \in S /\ session'[sessions[t]].state # "attaching"
                                          THEN None ELSE sessions[t]
    PROVE  ManagerInv'
<1>1. CDPTypeOK /\ Members /\ Sessions /\ Counts /\ None \notin Calls
  BY CDPAssumption DEF ManagerInv
<1>2. ASSUME NEW c \in Calls
      PROVE  /\ call'[c].of = call[c].of /\ call'[c].pc = call[c].pc
             /\ call'[c].active <=> call[c].active /\ call[c].of \notin S
             /\ call[c].of \in Calls \cup {None}
  <2>1. /\ call[c] \in Call /\ CallFits(c) /\ \A s \in S : ConsumersFit(s)
        /\ call'[c] = IF \E s \in S : c \in session[s].consumers
                      THEN [call[c] EXCEPT !.active = FALSE] ELSE call[c]
    BY <1>1 DEF CDPTypeOK, Members, Deactivated
  <2>2. CASE \E s \in S : c \in session[s].consumers
    BY <2>1, <2>2 DEF ConsumersFit, Call
  <2>3. CASE ~\E s \in S : c \in session[s].consumers
    BY <2>1, <2>3 DEF CallFits, Call
  <2> QED
    BY <2>2, <2>3
<1>3. \A s \in Calls : session[s].state = "none" <=> session'[s].state = "none"
  OBVIOUS
<1>4. Members'
  <2> SUFFICES ASSUME NEW c \in Calls PROVE CallFits(c)' /\ ConsumersFit(c)'
    BY DEF Members
  <2>1. CallFits(c) /\ ConsumersFit(c) /\ session[c].consumers \subseteq Calls
    <3>1. session[c] \in Session
      BY <1>1 DEF CDPTypeOK
    <3>2. session[c].consumers \subseteq Calls
      BY <3>1 DEF Session
    <3> QED
      BY <1>1, <3>2 DEF Members
  <2>2. CallFits(c)'
    <3>1. call'[c].active => /\ call[c].active /\ call[c].of \in Calls \ S
                             /\ session'[call[c].of] = session[call[c].of]
      <4>1. call[c].active => call[c].of # None
        BY <2>1 DEF CallFits
      <4> QED
        BY <1>2, <4>1
    <3> QED
      BY <1>2, <1>3, <2>1, <3>1 DEF CallFits
  <2>3. ConsumersFit(c)'
    <3>1. CASE c \in S
      BY <3>1 DEF ConsumersFit
    <3>2. CASE c \notin S
      BY <1>2, <2>1, <3>2 DEF ConsumersFit
    <3> QED
      BY <3>1, <3>2
  <2> QED
    BY <2>2, <2>3
<1>5. Sessions'
  <2>1. ASSUME NEW t \in Tabs PROVE TabFits(t)'
    <3>1. TabFits(t) /\ sessions[t] \in Calls \cup {None}
      BY <1>1 DEF Sessions, CDPTypeOK
    <3> QED
      BY <3>1 DEF TabFits
  <2>2. ASSUME NEW s \in Calls PROVE SessionFits(s)'
    <3>1. SessionFits(s)
      BY <1>1 DEF Sessions
    <3>2. CASE s \in S
      BY <3>1, <3>2 DEF SessionFits
    <3>3. CASE s \notin S
      BY <3>1, <3>3 DEF SessionFits
    <3> QED
      BY <3>2, <3>3
  <2> QED
    BY <2>1, <2>2 DEF Sessions
<1>6. Counts'
  <2>1. {} \cap Child = {} /\ IsFiniteSet({}) /\ Cardinality({}) = 0
    BY FS_EmptySet
  <2>2. ASSUME NEW s \in Calls PROVE CountFits(s)'
    <3>1. CountFits(s)
      BY <1>1 DEF Counts
    <3>2. CASE s \in S
      <4>1. session'[s].consumers = {} /\ session'[s].childConsumerCount = 0
        BY <3>2
      <4> QED
        BY <2>1, <4>1 DEF CountFits
    <3>3. CASE s \notin S
      <4>1. session'[s] = session[s]
        BY <3>3
      <4> QED
        BY <3>1, <4>1 DEF CountFits
    <3> QED
      BY <3>2, <3>3
  <2> QED
    BY <2>2 DEF Counts
<1> QED
  BY <1>4, <1>5, <1>6 DEF ManagerInv

\* A consumer joins a session, a new one or the tab's.
LEMMA ManagerJoin ==
    ASSUME ManagerInv, CDPTypeOK', NEW c \in Calls, NEW s \in Calls, NEW t \in Tabs,
           call[c].pc = "idle", Join(c, s),
           \A u \in Calls \ {s} : session'[u] = session[u],
           session'[s].tab = t, session'[s].consumers = session[s].consumers \cup {c},
           session'[s].childConsumerCount =
              session[s].childConsumerCount + (IF c \in Child THEN 1 ELSE 0),
           \/ /\ s = c /\ session'[s].state = "attaching"
              /\ sessions[t] = None /\ sessions' = [sessions EXCEPT ![t] = s]
           \/ /\ sessions[t] = s /\ session'[s].state = session[s].state
              /\ sessions' = sessions
    PROVE  ManagerInv'
<1> DEFINE C == session[s].consumers
           n == session[s].childConsumerCount
<1>1. CDPTypeOK /\ Members /\ Sessions /\ Counts /\ None \notin Calls
  BY CDPAssumption DEF ManagerInv
<1>2. /\ C \subseteq Calls /\ n \in Nat
      /\ c \notin C /\ IsFiniteSet(C) /\ n = Cardinality(C \cap Child)
  <2>1. session[s] \in Session /\ CallFits(c) /\ CountFits(s) /\ ConsumersFit(s)
    BY <1>1 DEF CDPTypeOK, Members, Counts
  <2> QED
    BY <2>1 DEF Session, CallFits, ConsumersFit, CountFits
<1> HIDE DEF C, n
<1>3. /\ call'[c].pc = "ready" /\ call'[c].of = s /\ call'[c].active
      /\ \A d \in Calls \ {c} : call'[d] = call[d]
  BY <1>1 DEF Join, CDPTypeOK
<1>4. session'[s].state \in {"attaching", "attached"} /\ (s = c \/ session[s].state # "none")
  <2>1. TabFits(t)
    BY <1>1 DEF Sessions
  <2> QED
    BY <1>1, <2>1 DEF TabFits
<1>5. Members'
  <2> SUFFICES ASSUME NEW d \in Calls PROVE CallFits(d)' /\ ConsumersFit(d)'
    BY DEF Members
  <2>1. /\ CallFits(d) /\ ConsumersFit(d) /\ CallFits(c) /\ call[d].of \in Calls \cup {None}
        /\ session[d].consumers \subseteq Calls
    BY <1>1 DEF Members, CDPTypeOK, Call, Session
  <2>2. CallFits(d)'
    <3>1. CASE d = c
      BY <1>1, <1>3, <1>4, <3>1 DEF CallFits
    <3>2. CASE d # c
      BY <1>3, <1>4, <2>1, <3>2 DEF CallFits
    <3> QED
      BY <3>1, <3>2
  <2>3. ConsumersFit(d)'
    <3>1. CASE d = s
      BY <1>2, <1>3, <2>1, <3>1 DEF ConsumersFit, C
    <3>2. CASE d # s
      <4>1. call[c].active = FALSE
        BY <1>1, <2>1 DEF CallFits, CDPTypeOK, Call
      <4> QED
        BY <1>3, <2>1, <3>2, <4>1 DEF ConsumersFit
    <3> QED
      BY <3>1, <3>2
  <2> QED
    BY <2>2, <2>3
<1>6. Sessions'
  <2>1. CASE /\ s = c /\ session'[s].state = "attaching"
             /\ sessions[t] = None /\ sessions' = [sessions EXCEPT ![t] = s]
    <3>1. session[s].state = "none"
      BY <1>1, <2>1 DEF Members, CallFits
    <3>2. sessions'[t] = s /\ \A u \in Tabs \ {t} : sessions'[u] = sessions[u]
      BY <1>1, <2>1 DEF CDPTypeOK
    <3>3. ASSUME NEW u \in Tabs PROVE TabFits(u)'
      <4>1. TabFits(u) /\ sessions[u] \in Calls \cup {None}
        BY <1>1 DEF Sessions, CDPTypeOK
      <4> QED
        BY <2>1, <3>1, <3>2, <4>1 DEF TabFits
    <3>4. ASSUME NEW u \in Calls PROVE SessionFits(u)'
      <4>1. SessionFits(u)
        BY <1>1 DEF Sessions
      <4>2. CASE u = s
        BY <2>1, <3>2, <4>2, CDPAssumption DEF SessionFits
      <4>3. CASE u # s
        BY <1>1, <2>1, <3>2, <4>1, <4>3 DEF SessionFits
      <4> QED
        BY <4>2, <4>3
    <3> QED
      BY <3>3, <3>4 DEF Sessions
  <2>2. CASE /\ sessions[t] = s /\ session'[s].state = session[s].state
             /\ sessions' = sessions
    <3>1. ASSUME NEW u \in Tabs PROVE TabFits(u)'
      <4>1. TabFits(u) /\ TabFits(t) /\ sessions[u] \in Calls \cup {None}
        BY <1>1 DEF Sessions, CDPTypeOK
      <4> QED
        BY <1>1, <2>2, <4>1 DEF TabFits
    <3>2. ASSUME NEW u \in Calls PROVE SessionFits(u)'
      <4>1. SessionFits(u)
        BY <1>1 DEF Sessions
      <4>2. CASE u = s
        BY <1>4, <2>2, <4>1, <4>2, CDPAssumption DEF SessionFits
      <4>3. CASE u # s
        BY <2>2, <4>1, <4>3 DEF SessionFits
      <4> QED
        BY <4>2, <4>3
    <3> QED
      BY <3>1, <3>2 DEF Sessions
  <2> QED
    BY <2>1, <2>2
<1>7. Counts'
  <2>1. IsFiniteSet(C \cup {c})
    BY <1>2, FS_AddElement
  <2>2. IsFiniteSet(C \cap Child)
    BY <1>2, FS_Subset
  <2>3. session'[s].childConsumerCount = Cardinality((C \cup {c}) \cap Child)
    <3>1. CASE c \in Child
      <4>1. (C \cup {c}) \cap Child = (C \cap Child) \cup {c} /\ c \notin C \cap Child
        BY <1>2, <3>1
      <4>2. Cardinality((C \cap Child) \cup {c}) = Cardinality(C \cap Child) + 1
        BY <2>2, <4>1, FS_AddElement
      <4> QED
        BY <1>2, <3>1, <4>1, <4>2 DEF n
    <3>2. CASE c \notin Child
      <4>1. (C \cup {c}) \cap Child = C \cap Child
        BY <3>2
      <4>2. session'[s].childConsumerCount = n
        BY <1>2, <3>2 DEF n
      <4> QED
        BY <1>2, <4>1, <4>2
    <3> QED
      BY <3>1, <3>2
  <2>4. ASSUME NEW u \in Calls PROVE CountFits(u)'
    <3>1. CountFits(u)
      BY <1>1 DEF Counts
    <3> QED
      BY <2>1, <2>3, <3>1 DEF CountFits, C
  <2> QED
    BY <2>4 DEF Counts
<1> QED
  BY <1>5, <1>6, <1>7 DEF ManagerInv

-----------------------------------------------------------------------------
(* The steps: what they do to the types, the manager, the inboxes and the  *)
(* tabs.                                                                   *)

LEMMA SessionOf ==
    ASSUME CDPInv, NEW c \in Calls, call[c].of # None
    PROVE  /\ call[c].of \in Calls /\ session[call[c].of] \in Session
           /\ session[call[c].of].state # "none" /\ session[call[c].of].tab \in Tabs
<1>1. /\ call[c].of \in Calls /\ session \in [Calls -> Session] /\ CallFits(c)
      /\ \A s \in Calls : SessionFits(s)
  BY DEF CDPInv, ManagerInv, CDPTypeOK, Call, Members, Sessions
<1>2. session[call[c].of].state # "none"
  BY <1>1 DEF CallFits
<1> QED
  BY <1>1, <1>2 DEF SessionFits

\* A plain reply is sent, or received.
PlainMove(t) ==
    \/ inbox'[t] = inbox[t]
    \/ \E m : Sendable(m) /\ Plain(m) /\ inbox'[t] = Append(inbox[t], m)
    \/ inbox[t] # <<>> /\ Plain(Head(inbox[t])) /\ inbox'[t] = Tail(inbox[t])

LEMMA PlainSent ==
    ASSUME CDPInv, NEW t \in Tabs, NEW k \in {"autoOn", "autoOnFailed", "autoOff"}, NEW c \in Calls,
           k = "autoOff" => Leaving(c)', Reply(t, k, c)
    PROVE  inbox' \in [Tabs -> Seq(Replies)] /\ \A u \in Tabs : PlainMove(u)
<1> DEFINE m == Msg(k, c)
<1>1. inbox \in [Tabs -> Seq(Replies)]
  BY DEF CDPInv, ManagerInv, CDPTypeOK
<1>2. m \in Replies /\ m.kind = k /\ m.to = c
  BY DEF Replies, Msg
<1>3. Plain(m) /\ Sendable(m)
  BY <1>2, PlainIsOther DEF Plain, Sendable
<1> HIDE DEF m
<1>4. inbox' = [inbox EXCEPT ![t] = Append(@, m)]
  BY DEF Reply, m
<1>5. Append(inbox[t], m) \in Seq(Replies)
  BY <1>1, <1>2, AppendOrder
<1> QED
  BY <1>1, <1>3, <1>4, <1>5 DEF PlainMove

LEMMA PlainReceived ==
    ASSUME CDPInv, NEW t \in Tabs, inbox[t] # <<>>, Plain(Head(inbox[t])), Consume(t)
    PROVE  inbox' \in [Tabs -> Seq(Replies)] /\ \A u \in Tabs : PlainMove(u)
<1>1. inbox \in [Tabs -> Seq(Replies)]
  BY DEF CDPInv, ManagerInv, CDPTypeOK
<1>2. Tail(inbox[t]) \in Seq(Replies)
  BY <1>1, TailOrder
<1> QED
  BY <1>1, <1>2 DEF PlainMove, Consume

\* The states and tabs of the sessions stay, and only plain replies move.
LEMMA PlainStep ==
    ASSUME CDPInv, ManagerInv', sessions' = sessions, debuggee' = debuggee, detaches' = detaches,
           \A s \in Calls : session'[s].tab = session[s].tab /\ session'[s].state = session[s].state,
           \A c \in Calls : Leaving(c) => Leaving(c)',
           \A t \in Tabs : PlainMove(t)
    PROVE  CDPInv'
<1>1. ASSUME NEW t \in Tabs PROVE Delivers(t)
  BY <1>1 DEF PlainMove, Delivers
<1>2. OffFits' /\ NewsCounted'
  BY <1>1, InboxesKept
<1>3. ASSUME NEW t \in Tabs PROVE TabInv(t)'
  <2>1. SameSessions(t)
    BY DEF SameSessions
  <2>2. \/ inbox'[t] = inbox[t]
        \/ \E m \in Replies : Plain(m) /\ inbox'[t] = Append(inbox[t], m)
        \/ inbox[t] # <<>> /\ Plain(Head(inbox[t])) /\ inbox'[t] = Tail(inbox[t])
    BY DEF PlainMove, Sendable
  <2> QED
    BY <2>1, <2>2, TabSame
<1> QED
  BY <1>2, <1>3 DEF CDPInv, BrowserInv

\* A consumer leaves and its session goes on.
LEMMA LeaveStep ==
    ASSUME CDPInv, NEW c \in Calls, NEW p \in CallStates \ {"idle"}, NEW y \in Session,
           call[c].active, call[c].of # None,
           call' = [call EXCEPT ![c] = [@ EXCEPT !.pc = p, !.active = FALSE]],
           session' = [session EXCEPT ![call[c].of] = y],
           y.tab = session[call[c].of].tab, y.state = session[call[c].of].state,
           y.consumers = Left(c).consumers, y.childConsumerCount = Left(c).childConsumerCount,
           y.state = "attached" => y.consumers # {},
           sessions' = sessions, debuggee' = debuggee, detaches' = detaches,
           inbox' \in [Tabs -> Seq(Replies)], \A t \in Tabs : PlainMove(t)
    PROVE  CDPInv'
<1> DEFINE s == call[c].of
<1>1. CDPTypeOK /\ s \in Calls
  BY SessionOf DEF CDPInv, ManagerInv
<1>2. call[c] \in Call /\ [call[c] EXCEPT !.pc = p, !.active = FALSE] \in Call
  BY <1>1 DEF CDPTypeOK, Call
<1>3. CDPTypeOK'
  BY <1>1, <1>2 DEF CDPTypeOK
<1>4. /\ session'[s] = y /\ \A u \in Calls \ {s} : session'[u] = session[u]
      /\ call'[c].of = s /\ ~call'[c].active /\ call'[c].pc = p
      /\ \A d \in Calls \ {c} : call'[d] = call[d]
  BY <1>1, <1>2 DEF CDPTypeOK, Call
<1>5. /\ \A d \in Calls : Leaving(d) => Leaving(d)'
      /\ \A u \in Calls : session'[u].tab = session[u].tab /\ session'[u].state = session[u].state
  BY <1>4 DEF Leaving
<1> HIDE DEF s
<1>6. ManagerInv'
  <2>1. ManagerInv /\ s = call[c].of /\ p # "idle"
    BY DEF CDPInv, s
  <2>2. /\ session'[s].tab = session[s].tab /\ session'[s].consumers = Left(c).consumers
        /\ session'[s].childConsumerCount = Left(c).childConsumerCount
        /\ session'[s].state = session[s].state
        /\ session[s].state = "attached" => session'[s].consumers # {}
    BY <1>4 DEF s
  <2> QED
    BY <1>1, <1>3, <1>4, <2>1, <2>2, ManagerLeave
<1> QED
  BY <1>5, <1>6, PlainStep

\* The last consumer leaves an attached session: it is forgotten and detached.
LEMMA CloseStep ==
    ASSUME CDPInv, NEW c \in Calls, NEW y \in Session,
           call[c].active, call[c].of # None,
           call' = [call EXCEPT ![c] = [@ EXCEPT !.pc = "closing", !.active = FALSE]],
           session' = [session EXCEPT ![call[c].of] = y],
           y.tab = session[call[c].of].tab, session[call[c].of].state = "attached",
           y.state = "detaching", y.consumers = {}, Left(c).consumers = {},
           y.childConsumerCount = Left(c).childConsumerCount,
           sessions' = Forget(call[c].of), BrowserDetach(y.tab, call[c].of), detaches' = detaches
    PROVE  CDPInv'
<1> DEFINE s == call[c].of
           t == y.tab
           m == DetachReply(s)
<1>1. CDPTypeOK /\ s \in Calls /\ session[s] \in Session /\ t \in Tabs
  BY SessionOf DEF CDPInv, ManagerInv
<1>2. call[c] \in Call /\ [call[c] EXCEPT !.pc = "closing", !.active = FALSE] \in Call
  BY <1>1 DEF CDPTypeOK, Call, CallStates
<1>3. m \in Replies /\ Sendable(m)
  <2>1. m \in Replies /\ m # News /\ m.kind = "detached"
    BY <1>1, MessageTypes, Distinct, MessageFields DEF DetachReply
  <2> QED
    BY <2>1 DEF Sendable
<1>4. inbox' = [inbox EXCEPT ![t] = Append(@, m)] /\ debuggee' = [debuggee EXCEPT ![t] = None]
  BY DEF BrowserDetach, Reply, DetachReply
<1> HIDE DEF m
<1>5. Append(inbox[t], m) \in Seq(Replies)
  BY <1>1, <1>3, AppendOrder DEF CDPTypeOK
<1>6. CDPTypeOK'
  BY <1>1, <1>2, <1>4, <1>5 DEF CDPTypeOK, Forget
<1>7. /\ session'[s] = y /\ \A u \in Calls \ {s} : session'[u] = session[u]
      /\ call'[c].of = s /\ ~call'[c].active /\ call'[c].pc = "closing"
      /\ \A d \in Calls \ {c} : call'[d] = call[d]
  BY <1>1, <1>2 DEF CDPTypeOK, Call
<1>8. /\ inbox'[t] = Append(inbox[t], m) /\ debuggee'[t] = None
      /\ \A u \in Tabs \ {t} : inbox'[u] = inbox[u] /\ debuggee'[u] = debuggee[u]
  BY <1>1, <1>4 DEF CDPTypeOK
<1>9. sessions[t] = s /\ \A u \in Tabs \ {t} : sessions[u] # s
  BY <1>1 DEF CDPInv, ManagerInv, Sessions, SessionFits, TabFits
<1>10. sessions'[t] = None /\ \A u \in Tabs \ {t} : sessions'[u] = sessions[u]
  BY <1>1, <1>9 DEF Forget
<1> HIDE DEF s, t
<1>11. ManagerInv'
  <2>1. ManagerInv /\ s = call[c].of
    BY DEF CDPInv, s
  <2>2. /\ session'[s].tab = session[s].tab /\ session'[s].consumers = Left(c).consumers
        /\ session'[s].childConsumerCount = Left(c).childConsumerCount
        /\ session[s].state = "attached" /\ session'[s].state = "detaching"
        /\ session'[s].consumers = {} /\ sessions' = Forget(s)
    BY <1>7 DEF s
  <2> QED
    BY <1>1, <1>6, <1>7, <2>1, <2>2, ManagerLeave
<1>12. OffFits' /\ NewsCounted'
  <2>1. \A u \in Tabs : Delivers(u)
    BY <1>3, <1>8 DEF Delivers
  <2>2. \A d \in Calls : Leaving(d) => Leaving(d)'
    BY <1>7 DEF Leaving, s
  <2> QED
    BY <2>1, <2>2, InboxesKept
<1>13. ASSUME NEW u \in Tabs PROVE TabInv(u)'
  <2>1. CASE u = t
    <3>1. /\ OtherSessions(t, s) /\ session'[s].tab = t /\ session'[s].state = "detaching"
          /\ session[s].state = "attached"
      BY <1>7 DEF OtherSessions, s, t
    <3> QED
      BY <1>1, <1>8, <1>9, <1>10, <2>1, <3>1, TabDetach DEF m
  <2>2. CASE u # t
    <3>1. session[s].tab = t /\ session'[s].tab = t
      BY <1>7 DEF s, t
    <3>2. SameSessions(u)
      BY <1>7, <2>2, <3>1 DEF SameSessions
    <3> QED
      BY <1>8, <1>10, <2>2, <3>2, TabSame
  <2> QED
    BY <2>1, <2>2
<1> QED
  BY <1>11, <1>12, <1>13 DEF CDPInv, BrowserInv

\* A call moves on, and nothing but promises changes in the sessions.
LEMMA WaiterStep ==
    ASSUME CDPInv, NEW c \in Calls, NEW p \in CallStates \ {"idle"},
           p = "done" \/ call[c].of # None,
           call[c].active => p \in {"auto", "leased"} /\ session[call[c].of].state = "attached",
           call' \in [Calls -> Call], call'[c].pc = p, call'[c].of = call[c].of,
           call'[c].active = call[c].active, \A d \in Calls \ {c} : call'[d] = call[d],
           session' \in [Calls -> Session],
           \A s \in Calls :
              /\ session'[s].tab = session[s].tab /\ session'[s].consumers = session[s].consumers
              /\ session'[s].childConsumerCount = session[s].childConsumerCount
              /\ session'[s].state = session[s].state,
           sessions' = sessions, debuggee' = debuggee, detaches' = detaches,
           inbox' \in [Tabs -> Seq(Replies)], \A t \in Tabs : PlainMove(t)
    PROVE  CDPInv'
<1>1. ManagerInv /\ CDPTypeOK'
  BY DEF CDPInv, ManagerInv, CDPTypeOK
<1>2. \A d \in Calls :
         /\ call'[d].of = call[d].of /\ call'[d].active = call[d].active
         /\ \/ call'[d].pc = call[d].pc
            \/ /\ call'[d].pc # "idle" /\ (call'[d].pc = "done" \/ call[d].of # None)
               /\ call[d].active => /\ call'[d].pc \in {"auto", "leased"}
                                    /\ session[call[d].of].state = "attached"
  OBVIOUS
<1>3. ManagerInv'
  BY <1>1, <1>2, ManagerSame
<1>4. \A d \in Calls : Leaving(d) => Leaving(d)'
  BY <1>2 DEF Leaving
<1> QED
  BY <1>3, <1>4, PlainStep

\* The session as a leaving consumer leaves it.
LEMMA LeftSession ==
    ASSUME CDPInv, NEW c \in Calls, call[c].of # None
    PROVE  LET s == session[call[c].of]
           IN  /\ Left(c) \in Session /\ Left(c).consumers = s.consumers \ {c}
               /\ Left(c).tab = s.tab /\ Left(c).state = s.state
<1> DEFINE x == session[call[c].of]
           n == IF c \in Child /\ x.childConsumerCount > 0 THEN x.childConsumerCount - 1
                ELSE x.childConsumerCount
<1>1. x \in Session
  BY SessionOf
<1>2. n \in Nat /\ x.consumers \ {c} \subseteq Calls
  <2>1. x.childConsumerCount \in Nat /\ x.consumers \subseteq Calls
    BY <1>1 DEF Session
  <2> QED
    BY <2>1
<1>3. Left(c) = [x EXCEPT !.consumers = x.consumers \ {c}, !.childConsumerCount = n]
  BY DEF Left
<1> HIDE DEF x, n
<1>4. /\ Left(c) \in Session /\ Left(c).consumers = x.consumers \ {c}
      /\ Left(c).tab = x.tab /\ Left(c).state = x.state
  BY <1>1, <1>2, <1>3 DEF Session
<1> QED
  BY <1>4 DEF x

\* The tail of a release that has left its session before.
LEMMA FinishedKept ==
    ASSUME CDPInv, NEW c \in Calls, call[c].of # None, ~call[c].active,
           FinishRelease(c, session[call[c].of]), detaches' = detaches
    PROVE  CDPInv'
<1> DEFINE s == call[c].of
           x == session[call[c].of]
           y == session'[call[c].of]
<1>1. CDPTypeOK /\ s \in Calls /\ x \in Session /\ call[c] \in Call
  BY SessionOf DEF CDPInv, ManagerInv, CDPTypeOK
<1>2. x.state = "attached" => x.consumers # {}
  BY <1>1 DEF CDPInv, ManagerInv, Sessions, SessionFits
<1>3. /\ \/ session' = [session EXCEPT ![s] = x]
         \/ session' = [session EXCEPT ![s] = [x EXCEPT !.closeRequested = "last_consumer_released"]]
      /\ call' = [call EXCEPT ![c] = [@ EXCEPT !.pc = "done", !.active = FALSE]]
      /\ UNCHANGED <<sessions, debuggee, inbox>>
  BY <1>2 DEF FinishRelease
<1>4. call' \in [Calls -> Call] /\ call'[c].pc = "done" /\ call'[c].of = call[c].of
      /\ call'[c].active = call[c].active /\ \A d \in Calls \ {c} : call'[d] = call[d]
  BY <1>1, <1>3 DEF CDPTypeOK, Call, CallStates
<1>5. /\ session' \in [Calls -> Session]
      /\ \A u \in Calls :
            /\ session'[u].tab = session[u].tab /\ session'[u].consumers = session[u].consumers
            /\ session'[u].childConsumerCount = session[u].childConsumerCount
            /\ session'[u].state = session[u].state
  <2>1. CASE session' = [session EXCEPT ![s] = x]
    BY <1>1, <2>1 DEF CDPTypeOK
  <2>2. CASE session' = [session EXCEPT ![s] = [x EXCEPT !.closeRequested = "last_consumer_released"]]
    <3>1. [x EXCEPT !.closeRequested = "last_consumer_released"] \in Session
      BY <1>1 DEF Session
    <3> QED
      BY <1>1, <2>2, <3>1 DEF CDPTypeOK, Session
  <2> QED
    BY <1>3, <2>1, <2>2
<1>6. inbox' \in [Tabs -> Seq(Replies)] /\ \A t \in Tabs : PlainMove(t)
  BY <1>1, <1>3 DEF CDPTypeOK, PlainMove
<1>7. "done" \in CallStates \ {"idle"}
  BY DEF CallStates
<1> QED
  BY <1>3, <1>4, <1>5, <1>6, <1>7, WaiterStep

\* releaseConsumer, from whichever state the call is in.
LEMMA ReleaseKept ==
    ASSUME CDPInv, NEW c \in Calls, call[c].of # None, ReleaseConsumer(c), detaches' = detaches
    PROVE  CDPInv'
<1> DEFINE s == call[c].of
           x == Left(c)
           disable == c \in Child /\ x.childConsumerCount = 0 /\ x.consumers # {}
                      /\ x.state = "attached"
<1>1. /\ CDPTypeOK /\ s \in Calls /\ session[s] \in Session /\ session[s].tab \in Tabs
      /\ call[c] \in Call
  BY SessionOf DEF CDPInv, ManagerInv, CDPTypeOK
<1>2. /\ x \in Session /\ x.consumers = session[s].consumers \ {c}
      /\ x.tab = session[s].tab /\ x.state = session[s].state
  BY LeftSession
<1>3. ASSUME UNCHANGED inbox
      PROVE  inbox' \in [Tabs -> Seq(Replies)] /\ \A t \in Tabs : PlainMove(t)
  BY <1>1, <1>3 DEF CDPTypeOK, PlainMove
<1>4. {"done", "disabling", "disabled"} \subseteq CallStates \ {"idle"}
  BY DEF CallStates
<1> HIDE DEF x
<1>5. CASE /\ ~call[c].active
           /\ call' = [call EXCEPT ![c].pc = "done"]
           /\ UNCHANGED <<sessions, session, debuggee, inbox>>
  <2>1. call' \in [Calls -> Call] /\ call'[c].pc = "done" /\ call'[c].of = call[c].of
        /\ call'[c].active = call[c].active /\ \A d \in Calls \ {c} : call'[d] = call[d]
    BY <1>1, <1>5 DEF CDPTypeOK, Call, CallStates
  <2>2. session' \in [Calls -> Session]
    BY <1>1, <1>5 DEF CDPTypeOK
  <2> QED
    BY <1>3, <1>4, <1>5, <2>1, <2>2, WaiterStep
<1>6. CASE /\ call[c].active
           /\ disable /\ x.auto = "pending"
           /\ session' = [session EXCEPT ![s] = x]
           /\ call' = [call EXCEPT ![c] = [@ EXCEPT !.pc = "disabling", !.active = FALSE]]
           /\ UNCHANGED <<sessions, debuggee, inbox>>
  BY <1>2, <1>3, <1>4, <1>6, LeaveStep DEF x
<1>7. CASE call[c].active /\ disable /\ TurnOff(c, x)
  <2> DEFINE y == [x EXCEPT !.enabled = FALSE]
  <2>1. /\ y \in Session /\ y.consumers = x.consumers /\ y.tab = x.tab /\ y.state = x.state
        /\ y.childConsumerCount = x.childConsumerCount
    BY <1>2 DEF Session
  <2>2. inbox' \in [Tabs -> Seq(Replies)] /\ \A t \in Tabs : PlainMove(t)
    <3>1. Leaving(c)'
      BY <1>1, <1>7 DEF TurnOff, Leaving, CDPTypeOK, Call
    <3> QED
      BY <1>1, <1>2, <1>7, <3>1, PlainSent DEF TurnOff
  <2>3. /\ session' = [session EXCEPT ![s] = y]
        /\ call' = [call EXCEPT ![c] = [@ EXCEPT !.pc = "disabled", !.active = FALSE]]
        /\ UNCHANGED <<sessions, debuggee>>
    BY <1>7 DEF TurnOff
  <2> HIDE DEF y
  <2> QED
    BY <1>2, <1>4, <1>7, <2>1, <2>2, <2>3, LeaveStep DEF x
<1>8. CASE call[c].active /\ FinishRelease(c, x)
  <2>1. CASE /\ x.consumers # {} \/ x.state \in {"detaching", "detached", "failed"}
             /\ session' = [session EXCEPT ![s] = x]
             /\ call' = [call EXCEPT ![c] = [@ EXCEPT !.pc = "done", !.active = FALSE]]
             /\ UNCHANGED <<sessions, debuggee, inbox>>
    BY <1>2, <1>3, <1>4, <1>8, <2>1, LeaveStep DEF x
  <2>2. CASE /\ x.consumers = {} /\ x.state = "attaching"
             /\ session' = [session EXCEPT ![s] =
                               [x EXCEPT !.closeRequested = "last_consumer_released"]]
             /\ call' = [call EXCEPT ![c] = [@ EXCEPT !.pc = "done", !.active = FALSE]]
             /\ UNCHANGED <<sessions, debuggee, inbox>>
    <3> DEFINE y == [x EXCEPT !.closeRequested = "last_consumer_released"]
    <3>1. /\ y \in Session /\ y.consumers = x.consumers /\ y.tab = x.tab /\ y.state = x.state
          /\ y.childConsumerCount = x.childConsumerCount
      BY <1>2 DEF Session
    <3>2. session' = [session EXCEPT ![s] = y]
      BY <2>2
    <3> HIDE DEF y
    <3> QED
      BY <1>2, <1>3, <1>4, <1>8, <2>2, <3>1, <3>2, LeaveStep DEF x
  <2>3. CASE /\ x.consumers = {} /\ x.state = "attached"
             /\ session' = [session EXCEPT ![s] = [x EXCEPT !.state = "detaching"]]
             /\ sessions' = Forget(s)
             /\ call' = [call EXCEPT ![c] = [@ EXCEPT !.pc = "closing", !.active = FALSE]]
             /\ BrowserDetach(x.tab, s)
    <3> DEFINE y == [x EXCEPT !.state = "detaching"]
    <3>1. /\ y \in Session /\ y.consumers = {} /\ y.tab = x.tab /\ y.state = "detaching"
          /\ y.childConsumerCount = x.childConsumerCount
      BY <1>2, <2>3 DEF Session, SessionStates
    <3>2. session' = [session EXCEPT ![s] = y] /\ BrowserDetach(y.tab, s)
      BY <2>3, <3>1
    <3> HIDE DEF y
    <3> QED
      BY <1>2, <1>8, <2>3, <3>1, <3>2, CloseStep DEF x
  <2> QED
    BY <1>8, <2>1, <2>2, <2>3 DEF FinishRelease
<1> QED
  BY <1>5, <1>6, <1>7, <1>8 DEF ReleaseConsumer, x

\* acquire goes on with a settled promise.
LEMMA ResumeReadyKept ==
    ASSUME CDPInv, NEW c \in Calls, ResumeReady(c)
    PROVE  CDPInv'
<1> DEFINE s == call[c].of
<1>1. call[c].of # None /\ call[c].pc = "ready" /\ call[c] \in Call /\ CDPTypeOK
  BY DEF ResumeReady, ReadySettled, CDPInv, ManagerInv, Members, CallFits, CDPTypeOK
<1>2. s \in Calls /\ session[s] \in Session /\ session[s].tab \in Tabs
  BY <1>1, SessionOf
<1>3. {"leased", "auto"} \subseteq CallStates \ {"idle"}
  BY DEF CallStates
<1>4. ASSUME NEW p \in {"leased", "auto"}, call' = [call EXCEPT ![c].pc = p]
      PROVE  /\ call' \in [Calls -> Call] /\ call'[c].pc = p /\ call'[c].of = call[c].of
             /\ call'[c].active = call[c].active /\ \A d \in Calls \ {c} : call'[d] = call[d]
  BY <1>1, <1>3, <1>4 DEF CDPTypeOK, Call
<1>5. ASSUME UNCHANGED <<session, inbox>>
      PROVE  /\ inbox' \in [Tabs -> Seq(Replies)] /\ \A t \in Tabs : PlainMove(t)
             /\ session' \in [Calls -> Session]
  BY <1>1, <1>5 DEF CDPTypeOK, PlainMove
<1>6. detaches' = detaches
  BY DEF ResumeReady
<1>7. CASE ReleaseConsumer(c)
  BY <1>1, <1>6, <1>7, ReleaseKept
<1>8. CASE /\ session[s].state = "attached"
           /\ call' = [call EXCEPT ![c].pc = "leased"]
           /\ UNCHANGED <<sessions, session, debuggee, inbox>>
  <2>1. /\ call' \in [Calls -> Call] /\ call'[c].pc = "leased" /\ call'[c].of = call[c].of
        /\ call'[c].active = call[c].active /\ \A d \in Calls \ {c} : call'[d] = call[d]
    BY <1>4, <1>8
  <2> QED
    BY <1>1, <1>3, <1>5, <1>6, <1>8, <2>1, WaiterStep
<1>9. CASE /\ session[s].state = "attached"
           /\ call' = [call EXCEPT ![c].pc = "auto"]
           /\ \/ session[s].auto = "pending" /\ UNCHANGED <<session, inbox>>
              \/ /\ session[s].auto # "pending"
                 /\ session' = [session EXCEPT ![s].auto = "pending"]
                 /\ BrowserAutoAttach(session[s].tab, s)
           /\ UNCHANGED <<sessions, debuggee>>
  <2>1. /\ call' \in [Calls -> Call] /\ call'[c].pc = "auto" /\ call'[c].of = call[c].of
        /\ call'[c].active = call[c].active /\ \A d \in Calls \ {c} : call'[d] = call[d]
    BY <1>4, <1>9
  <2>2. CASE UNCHANGED <<session, inbox>>
    BY <1>1, <1>3, <1>5, <1>6, <1>9, <2>1, <2>2, WaiterStep
  <2>3. CASE /\ session' = [session EXCEPT ![s].auto = "pending"]
             /\ BrowserAutoAttach(session[s].tab, s)
    <3>1. /\ session' \in [Calls -> Session]
          /\ \A u \in Calls :
                /\ session'[u].tab = session[u].tab /\ session'[u].consumers = session[u].consumers
                /\ session'[u].childConsumerCount = session[u].childConsumerCount
                /\ session'[u].state = session[u].state
      BY <1>1, <1>2, <2>3 DEF CDPTypeOK, Session
    <3>2. PICK k \in {"autoOn", "autoOnFailed"} : Reply(session[s].tab, k, s)
      BY <2>3 DEF BrowserAutoAttach
    <3>3. inbox' \in [Tabs -> Seq(Replies)] /\ \A t \in Tabs : PlainMove(t)
      BY <1>2, <3>2, PlainSent
    <3> QED
      BY <1>1, <1>3, <1>6, <1>9, <2>1, <3>1, <3>3, WaiterStep
  <2> QED
    BY <1>9, <2>2, <2>3
<1> QED
  BY <1>7, <1>8, <1>9 DEF ResumeReady

LEMMA ResumeAutoKept ==
    ASSUME CDPInv, NEW c \in Calls, ResumeAuto(c)
    PROVE  CDPInv'
<1>1. /\ call[c].of # None /\ call[c].pc = "auto" /\ call[c] \in Call /\ CDPTypeOK
      /\ call[c].active => session[call[c].of].state = "attached"
  BY DEF ResumeAuto, CDPInv, ManagerInv, Members, CallFits, CDPTypeOK
<1>2. detaches' = detaches
  BY DEF ResumeAuto
<1>3. CASE ReleaseConsumer(c)
  BY <1>1, <1>2, <1>3, ReleaseKept
<1>4. CASE /\ call' = [call EXCEPT ![c].pc = "leased"]
           /\ UNCHANGED <<sessions, session, debuggee, inbox>>
  <2>1. /\ call' \in [Calls -> Call] /\ call'[c].pc = "leased" /\ call'[c].of = call[c].of
        /\ call'[c].active = call[c].active /\ \A d \in Calls \ {c} : call'[d] = call[d]
    BY <1>1, <1>4 DEF CDPTypeOK, Call, CallStates
  <2>2. /\ inbox' \in [Tabs -> Seq(Replies)] /\ \A t \in Tabs : PlainMove(t)
        /\ session' \in [Calls -> Session]
    BY <1>1, <1>4 DEF CDPTypeOK, PlainMove
  <2>3. "leased" \in CallStates \ {"idle"}
    BY DEF CallStates
  <2> QED
    BY <1>1, <1>2, <1>4, <2>1, <2>2, <2>3, WaiterStep
<1> QED
  BY <1>3, <1>4 DEF ResumeAuto

LEMMA ResumeDisableKept ==
    ASSUME CDPInv, NEW c \in Calls, ResumeDisable(c)
    PROVE  CDPInv'
<1> DEFINE s == call[c].of
           x == session[call[c].of]
<1>1. /\ call[c].of # None /\ call[c].pc = "disabling" /\ call[c].active = FALSE
      /\ call[c] \in Call /\ CDPTypeOK /\ detaches' = detaches
  <2>1. CallFits(c) /\ call[c] \in Call /\ CDPTypeOK /\ call[c].pc = "disabling" /\ detaches' = detaches
    BY DEF ResumeDisable, CDPInv, ManagerInv, Members, CDPTypeOK
  <2> QED
    BY <2>1 DEF CallFits, Call
<1>2. s \in Calls /\ x \in Session /\ x.tab \in Tabs
  BY <1>1, SessionOf
<1>3. CASE FinishRelease(c, x)
  BY <1>1, <1>3, FinishedKept
<1>4. CASE TurnOff(c, x)
  <2>1. /\ call' \in [Calls -> Call] /\ call'[c].pc = "disabled" /\ call'[c].of = call[c].of
        /\ call'[c].active = call[c].active /\ \A d \in Calls \ {c} : call'[d] = call[d]
    BY <1>1, <1>4 DEF TurnOff, CDPTypeOK, Call, CallStates
  <2>2. /\ session' \in [Calls -> Session]
        /\ \A u \in Calls :
              /\ session'[u].tab = session[u].tab /\ session'[u].consumers = session[u].consumers
              /\ session'[u].childConsumerCount = session[u].childConsumerCount
              /\ session'[u].state = session[u].state
    BY <1>1, <1>2, <1>4 DEF TurnOff, CDPTypeOK, Session
  <2>3. inbox' \in [Tabs -> Seq(Replies)] /\ \A t \in Tabs : PlainMove(t)
    <3>1. Leaving(c)'
      BY <1>1, <2>1 DEF Leaving
    <3> QED
      BY <1>1, <1>2, <1>4, <3>1, PlainSent DEF TurnOff
  <2>4. "disabled" \in CallStates \ {"idle"} /\ sessions' = sessions /\ debuggee' = debuggee
    BY <1>4 DEF CallStates, TurnOff
  <2> QED
    BY <1>1, <2>1, <2>2, <2>3, <2>4, WaiterStep
<1> QED
  BY <1>3, <1>4 DEF ResumeDisable

\* acquire makes a session and asks the browser to attach.
LEMMA AcquireNewKept ==
    ASSUME CDPInv, NEW c \in Calls, NEW t \in Tabs, AcquireNew(c, t)
    PROVE  CDPInv'
<1> DEFINE y == session'[c]
<1>1. /\ CDPTypeOK /\ ManagerInv /\ CallFits(c) /\ SessionFits(c) /\ CountFits(c)
      /\ session[c] \in Session /\ call[c].pc = "idle" /\ None \notin Calls
      /\ sessions[t] = None /\ detaches' = detaches
  BY CDPAssumption DEF AcquireNew, CDPInv, ManagerInv, Members, Sessions, Counts, CDPTypeOK
<1>2. session[c].state = "none" /\ session[c].consumers = {} /\ session[c].childConsumerCount = 0
  <2>1. session[c].state = "none" /\ session[c].consumers = {}
    BY <1>1 DEF CallFits, SessionFits
  <2>2. {} \cap Child = {} /\ Cardinality({}) = 0
    BY FS_EmptySet
  <2> QED
    BY <1>1, <2>1, <2>2 DEF CountFits
<1>3. /\ y \in Session /\ y.tab = t /\ y.state = "attaching" /\ y.consumers = {c}
      /\ y.childConsumerCount = IF c \in Child THEN 1 ELSE 0
      /\ session' \in [Calls -> Session]
      /\ \A u \in Calls \ {c} : session'[u] = session[u]
  BY <1>1 DEF AcquireNew, CDPTypeOK, Session, SessionStates
<1> HIDE DEF y
<1>4. PICK m \in {AttachReply(c), FailReply(c)} :
         /\ inbox' = [inbox EXCEPT ![t] = Append(@, m)]
         /\ \/ /\ m = AttachReply(c) /\ debuggee[t] = None
               /\ debuggee' = [debuggee EXCEPT ![t] = c]
            \/ m = FailReply(c) /\ debuggee' = debuggee
  BY DEF AcquireNew, BrowserAttach, Reply, AttachReply, FailReply
<1>5. m \in Replies /\ Sendable(m) /\ Append(inbox[t], m) \in Seq(Replies)
  <2>1. m \in Replies /\ m # News
    BY MessageTypes, Distinct
  <2>2. m.kind # "autoOff"
    BY MessageFields DEF AttachReply, FailReply
  <2> QED
    BY <1>1, <2>1, <2>2, AppendOrder DEF Sendable, CDPTypeOK
<1>6. CDPTypeOK'
  <2>1. call' \in [Calls -> Call]
    BY <1>1 DEF AcquireNew, Join, CDPTypeOK, Call, CallStates
  <2>2. sessions' \in [Tabs -> Calls \cup {None}] /\ debuggee' \in [Tabs -> Calls \cup {None}]
    BY <1>1, <1>4 DEF AcquireNew, CDPTypeOK
  <2>3. inbox' \in [Tabs -> Seq(Replies)]
    BY <1>1, <1>4, <1>5 DEF CDPTypeOK
  <2> QED
    BY <1>1, <1>3, <2>1, <2>2, <2>3 DEF CDPTypeOK
<1>7. ManagerInv'
  <2>1. Join(c, c) /\ sessions' = [sessions EXCEPT ![t] = c]
    BY DEF AcquireNew
  <2>2. /\ session'[c].tab = t /\ session'[c].consumers = session[c].consumers \cup {c}
        /\ session'[c].childConsumerCount =
              session[c].childConsumerCount + (IF c \in Child THEN 1 ELSE 0)
        /\ session'[c].state = "attaching"
    BY <1>2, <1>3 DEF y
  <2> QED
    BY <1>1, <1>3, <1>6, <2>1, <2>2, ManagerJoin
<1>8. /\ inbox'[t] = Append(inbox[t], m) /\ sessions'[t] = c
      /\ \A u \in Tabs \ {t} : /\ inbox'[u] = inbox[u] /\ debuggee'[u] = debuggee[u]
                               /\ sessions'[u] = sessions[u]
      /\ \A d \in Calls : Leaving(d) => Leaving(d)'
  BY <1>1, <1>4 DEF AcquireNew, Join, CDPTypeOK, CallFits, Leaving
<1>9. OffFits' /\ NewsCounted'
  <2>1. \A u \in Tabs : Delivers(u)
    BY <1>5, <1>8 DEF Delivers
  <2> QED
    BY <1>1, <1>8, <2>1, InboxesKept
<1>10. ASSUME NEW u \in Tabs PROVE TabInv(u)'
  <2>1. CASE u = t
    <3>1. OtherSessions(t, c) /\ session'[c].tab = t /\ session'[c].state = "attaching"
      BY <1>3 DEF OtherSessions, y
    <3>2. \/ /\ debuggee[t] = None /\ debuggee'[t] = c
             /\ inbox'[t] = Append(inbox[t], AttachReply(c))
          \/ debuggee'[t] = debuggee[t] /\ inbox'[t] = Append(inbox[t], FailReply(c))
      BY <1>1, <1>4, <1>8 DEF CDPTypeOK
    <3> QED
      BY <1>1, <1>2, <1>8, <2>1, <3>1, <3>2, TabAcquire
  <2>2. CASE u # t
    <3>1. session[c].tab # u
      BY <1>1, <1>2, CDPAssumption DEF SessionFits
    <3>2. SameSessions(u)
      BY <1>3, <2>2, <3>1 DEF SameSessions, y
    <3> QED
      BY <1>1, <1>8, <2>2, <3>2, TabSame
  <2> QED
    BY <2>1, <2>2
<1> QED
  BY <1>7, <1>9, <1>10 DEF CDPInv, BrowserInv

LEMMA AcquireSharedKept ==
    ASSUME CDPInv, NEW c \in Calls, NEW t \in Tabs, AcquireShared(c, t)
    PROVE  CDPInv'
<1> DEFINE s == sessions[t]
           C == session[s].consumers \cup {c}
           n == session[s].childConsumerCount + (IF c \in Child THEN 1 ELSE 0)
<1>1. /\ CDPTypeOK /\ ManagerInv /\ TabFits(t) /\ call[c].pc = "idle" /\ s \in Calls /\ s # None
      /\ session[s] \in Session
      /\ UNCHANGED <<sessions, debuggee, inbox, detaches>>
      /\ session' = [session EXCEPT ![s].consumers = C, ![s].childConsumerCount = n]
  BY DEF AcquireShared, CDPInv, ManagerInv, Sessions, CDPTypeOK
<1>2. C \subseteq Calls /\ n \in Nat
  <2>1. session[s].consumers \subseteq Calls /\ session[s].childConsumerCount \in Nat
    BY <1>1 DEF Session
  <2> QED
    BY <2>1
<1> HIDE DEF C, n, s
<1>3. /\ session' \in [Calls -> Session]
      /\ session'[s].consumers = C /\ session'[s].childConsumerCount = n
      /\ session'[s].tab = session[s].tab /\ session'[s].state = session[s].state
      /\ \A u \in Calls \ {s} : session'[u] = session[u]
  BY <1>1, <1>2 DEF CDPTypeOK, Session
<1>4. Join(c, s)
  BY DEF AcquireShared, s
<1>5. CDPTypeOK'
  <2>1. call' \in [Calls -> Call]
    BY <1>1, <1>4 DEF Join, CDPTypeOK, Call, CallStates
  <2> QED
    BY <1>1, <1>3, <2>1 DEF CDPTypeOK
<1>6. session[s].tab = t /\ sessions[t] = s
  BY <1>1 DEF TabFits, s
<1>7. ManagerInv'
  <2>1. /\ session'[s].consumers = session[s].consumers \cup {c} /\ session'[s].tab = t
        /\ session'[s].childConsumerCount =
              session[s].childConsumerCount + (IF c \in Child THEN 1 ELSE 0)
    BY <1>3, <1>6 DEF C, n
  <2> QED
    BY <1>1, <1>3, <1>4, <1>5, <1>6, <2>1, ManagerJoin
<1>8. \A d \in Calls : Leaving(d) => Leaving(d)'
  <2>1. CallFits(c)
    BY DEF CDPInv, ManagerInv, Members
  <2> QED
    BY <1>1, <1>4, <2>1 DEF Join, CDPTypeOK, CallFits, Leaving
<1>9. OffFits' /\ NewsCounted'
  <2>1. \A u \in Tabs : Delivers(u)
    BY <1>1 DEF Delivers
  <2> QED
    BY <1>1, <1>8, <2>1, InboxesKept
<1>10. ASSUME NEW u \in Tabs PROVE TabInv(u)'
  <2>1. SameSessions(u)
    BY <1>3 DEF SameSessions
  <2> QED
    BY <1>1, <2>1, TabSame
<1> QED
  BY <1>7, <1>9, <1>10 DEF CDPInv, BrowserInv

LEMMA AcquireRefusedKept ==
    ASSUME CDPInv, NEW c \in Calls, NEW t \in Tabs, AcquireRefused(c, t)
    PROVE  CDPInv'
<1>1. /\ CDPTypeOK /\ ~call[c].active /\ call[c] \in Call
      /\ call' = [call EXCEPT ![c].pc = "done"]
      /\ UNCHANGED <<sessions, session, debuggee, inbox, detaches>>
  BY DEF AcquireRefused, CDPInv, ManagerInv, CDPTypeOK, Members, CallFits
<1>2. call' \in [Calls -> Call] /\ call'[c].pc = "done" /\ call'[c].of = call[c].of
      /\ call'[c].active = call[c].active /\ \A d \in Calls \ {c} : call'[d] = call[d]
  BY <1>1 DEF CDPTypeOK, Call, CallStates
<1>3. /\ inbox' \in [Tabs -> Seq(Replies)] /\ \A u \in Tabs : PlainMove(u)
      /\ session' \in [Calls -> Session]
  BY <1>1 DEF CDPTypeOK, PlainMove
<1>4. "done" \in CallStates \ {"idle"}
  BY DEF CallStates
<1> QED
  BY <1>1, <1>2, <1>3, <1>4, WaiterStep

-----------------------------------------------------------------------------
(* The steps of a reply or an event.                                       *)

LEMMA Arrival ==
    ASSUME CDPInv, NEW t \in Tabs, NEW k, Arrives(t, k)
    PROVE  /\ inbox[t] # <<>> /\ inbox \in [Tabs -> Seq(Replies)] /\ Tail(inbox[t]) \in Seq(Replies)
           /\ Head(inbox[t]) = Msg(k, To(t)) /\ In(inbox[t], Msg(k, To(t)))
           /\ k # "onDetach" => To(t) \in Calls
           /\ k = "onDetach" => To(t) = None
           /\ detaches' = detaches
<1>1. inbox \in [Tabs -> Seq(Replies)] /\ inbox[t] # <<>> /\ Head(inbox[t]).kind = k
      /\ detaches' = detaches
  BY DEF CDPInv, ManagerInv, CDPTypeOK, Arrives
<1>2. /\ Tail(inbox[t]) \in Seq(Replies) /\ Head(inbox[t]) \in Replies
      /\ In(inbox[t], Head(inbox[t]))
  BY <1>1, TailOrder
<1>3. ASSUME NEW m \in Replies, m.kind = k
      PROVE  /\ m = Msg(k, m.to) /\ (k # "onDetach" => m.to \in Calls)
             /\ k = "onDetach" => m.to = None
  BY <1>3 DEF Replies, Msg
<1> QED
  BY <1>1, <1>2, <1>3 DEF To

\* A session of the tab ends with its consumers.
LEMMA EndStep ==
    ASSUME CDPInv, NEW t \in Tabs, NEW s \in Calls, NEW y \in Session,
           session[s].tab = t, session[s].state # "none",
           call' = Deactivated({s}), session' = [session EXCEPT ![s] = y],
           y.tab = session[s].tab, y.consumers = {}, y.childConsumerCount = 0,
           y.state \in {"detaching", "detached", "failed"},
           \A u \in Tabs : sessions'[u] = IF sessions[u] = s THEN None ELSE sessions[u],
           sessions' \in [Tabs -> Calls \cup {None}],
           debuggee' \in [Tabs -> Calls \cup {None}], detaches' = detaches,
           inbox' \in [Tabs -> Seq(Replies)], Delivers(t),
           \A u \in Tabs \ {t} : inbox'[u] = inbox[u] /\ debuggee'[u] = debuggee[u],
           TabInv(t)'
    PROVE  CDPInv'
<1>1. CDPTypeOK /\ ManagerInv /\ None \notin Calls
  BY CDPAssumption DEF CDPInv, ManagerInv
<1>2. /\ session' \in [Calls -> Session] /\ session'[s] = y
      /\ \A u \in Calls \ {s} : session'[u] = session[u]
  BY <1>1 DEF CDPTypeOK
<1>3. call' \in [Calls -> Call] /\ \A d \in Calls : Leaving(d) => Leaving(d)'
  <2>1. ASSUME NEW d \in Calls
        PROVE  /\ call[d] \in Call /\ [call[d] EXCEPT !.active = FALSE] \in Call
               /\ [call[d] EXCEPT !.active = FALSE].of = call[d].of
               /\ [call[d] EXCEPT !.active = FALSE].active = FALSE
    <3>1. call[d] \in Call
      BY <1>1 DEF CDPTypeOK
    <3> QED
      BY <3>1 DEF Call
  <2> QED
    BY <2>1 DEF Deactivated, Leaving
<1>4. CDPTypeOK'
  BY <1>1, <1>2, <1>3 DEF CDPTypeOK
<1>5. ManagerInv'
  <2> DEFINE S == {s}
  <2>1. /\ S \in SUBSET Calls /\ call' = Deactivated(S)
        /\ \A u \in Calls \ S : session'[u] = session[u]
        /\ \A u \in S : /\ session[u].state # "none" /\ session'[u].tab = session[u].tab
                        /\ session'[u].consumers = {} /\ session'[u].childConsumerCount = 0
                        /\ \/ session'[u].state = "attaching" /\ session[u].state = "attaching"
                           \/ session'[u].state \in {"detaching", "detached", "failed"}
    BY <1>2
  <2>2. \A u \in Tabs : sessions'[u] = IF sessions[u] \in S /\ session'[sessions[u]].state # "attaching"
                                       THEN None ELSE sessions[u]
    BY <1>2
  <2> HIDE DEF S
  <2> QED
    BY <1>1, <1>4, <2>1, <2>2, ManagerClose
<1>6. OffFits' /\ NewsCounted'
  <2>1. \A u \in Tabs : Delivers(u)
    BY DEF Delivers
  <2> QED
    BY <1>3, <2>1, InboxesKept
<1>7. ASSUME NEW u \in Tabs, u # t PROVE TabInv(u)'
  <2>1. SameSessions(u)
    BY <1>2, <1>7 DEF SameSessions
  <2>2. sessions'[u] = sessions[u]
    BY <1>1, <1>7 DEF ManagerInv, Sessions, TabFits
  <2> QED
    BY <1>7, <2>1, <2>2, TabSame
<1> QED
  BY <1>5, <1>6, <1>7 DEF CDPInv, BrowserInv

LEMMA AttachedKept ==
    ASSUME CDPInv, NEW t \in Tabs, Attached(t)
    PROVE  CDPInv'
<1> DEFINE s == To(t)
<1>1. /\ inbox[t] # <<>> /\ Head(inbox[t]) = AttachReply(s) /\ In(inbox[t], AttachReply(s))
      /\ s \in Calls /\ inbox \in [Tabs -> Seq(Replies)] /\ Tail(inbox[t]) \in Seq(Replies)
      /\ detaches' = detaches
  BY Arrival DEF Attached, AttachReply
<1>2. CDPTypeOK /\ ManagerInv /\ session[s] \in Session
  BY <1>1 DEF CDPInv, ManagerInv, CDPTypeOK
<1>3. session[s].tab = t /\ session[s].state \in {"attaching", "detached"}
  BY <1>1 DEF CDPInv, BrowserInv, TabInv, RepliesFit
<1>4. CASE /\ ~MustClose(s)
           /\ session' = [session EXCEPT ![s].state = "attached", ![s].ready = "resolved"]
           /\ Consume(t)
           /\ UNCHANGED <<sessions, call, debuggee>>
  <2>1. /\ session' \in [Calls -> Session] /\ session'[s].state = "attached"
        /\ session'[s].tab = session[s].tab /\ session'[s].consumers = session[s].consumers
        /\ session'[s].childConsumerCount = session[s].childConsumerCount
        /\ \A u \in Calls \ {s} : session'[u] = session[u]
    BY <1>1, <1>2, <1>4 DEF CDPTypeOK, Session, SessionStates
  <2>2. /\ inbox'[t] = Tail(inbox[t]) /\ inbox' \in [Tabs -> Seq(Replies)]
        /\ \A u \in Tabs \ {t} : inbox'[u] = inbox[u]
    BY <1>1, <1>4 DEF Consume
  <2>3. session[s].consumers # {} /\ OtherSessions(t, s)
    BY <1>4, <2>1 DEF MustClose, OtherSessions
  <2>4. TabInv(t)' /\ session[s].state = "attaching"
    BY <1>1, <1>4, <2>1, <2>2, <2>3, TabOpen
  <2>5. ManagerInv'
    <3>1. CDPTypeOK'
      BY <1>1, <1>2, <1>4, <2>1, <2>2 DEF CDPTypeOK
    <3> QED
      BY <1>2, <1>4, <2>1, <2>3, <2>4, <3>1, ManagerSame
  <2>6. OffFits' /\ NewsCounted'
    <3>1. \A u \in Tabs : Delivers(u)
      BY <1>1, <2>2 DEF Delivers
    <3> QED
      BY <1>1, <1>4, <3>1, InboxesKept DEF Leaving
  <2>7. ASSUME NEW u \in Tabs, u # t PROVE TabInv(u)'
    <3>1. SameSessions(u)
      BY <1>3, <2>1, <2>7 DEF SameSessions
    <3> QED
      BY <1>1, <1>4, <2>2, <2>7, <3>1, TabSame
  <2> QED
    BY <2>4, <2>5, <2>6, <2>7 DEF CDPInv, BrowserInv
<1>5. CASE /\ session' = [session EXCEPT ![s] =
                             [WithoutConsumers(@) EXCEPT !.state = "detaching"]]
           /\ sessions' = Forget(s)
           /\ call' = Deactivated({s})
           /\ debuggee' = [debuggee EXCEPT ![t] = None]
           /\ inbox' = [inbox EXCEPT ![t] = Append(Tail(@), Msg("detached", s))]
  <2> DEFINE y == [WithoutConsumers(session[s]) EXCEPT !.state = "detaching"]
             m == DetachReply(s)
  <2>1. /\ y \in Session /\ y.tab = session[s].tab /\ y.consumers = {} /\ y.childConsumerCount = 0
        /\ y.state = "detaching"
    BY <1>2 DEF WithoutConsumers, Session, SessionStates
  <2>2. session' = [session EXCEPT ![s] = y]
    BY <1>5
  <2> HIDE DEF y
  <2>3. m \in Replies /\ Sendable(m)
    <3>1. m \in Replies /\ m # News /\ m.kind = "detached"
      BY <1>1, MessageTypes, Distinct, MessageFields DEF DetachReply
    <3> QED
      BY <3>1 DEF Sendable
  <2>4. inbox' = [inbox EXCEPT ![t] = Append(Tail(@), m)]
    BY <1>5 DEF DetachReply
  <2> HIDE DEF m
  <2>5. Append(Tail(inbox[t]), m) \in Seq(Replies)
    BY <1>1, <2>3, AppendOrder
  <2>6. /\ inbox' \in [Tabs -> Seq(Replies)] /\ inbox'[t] = Append(Tail(inbox[t]), m)
        /\ debuggee' \in [Tabs -> Calls \cup {None}] /\ debuggee'[t] = None
        /\ \A u \in Tabs \ {t} : inbox'[u] = inbox[u] /\ debuggee'[u] = debuggee[u]
    BY <1>1, <1>2, <1>5, <2>4, <2>5 DEF CDPTypeOK
  <2>7. /\ sessions' \in [Tabs -> Calls \cup {None}]
        /\ \A u \in Tabs : sessions'[u] = IF sessions[u] = s THEN None ELSE sessions[u]
    BY <1>2, <1>5 DEF Forget, CDPTypeOK
  <2>8. session'[s] = y /\ OtherSessions(t, s)
    BY <1>1, <1>2, <2>2 DEF CDPTypeOK, OtherSessions
  <2>9. TabInv(t)'
    BY <1>1, <2>1, <2>6, <2>7, <2>8, TabClose DEF m
  <2>10. Delivers(t)
    BY <1>1, <2>3, <2>6 DEF Delivers
  <2>11. session[s].state # "none" /\ y.state \in {"detaching", "detached", "failed"}
    BY <1>3, <2>1
  <2>12. call' = Deactivated({s})
    BY <1>5
  <2> HIDE DEF s
  <2> QED
    BY <1>1, <1>3, <2>1, <2>2, <2>6, <2>7, <2>9, <2>10, <2>11, <2>12, EndStep
<1> QED
  BY <1>4, <1>5 DEF Attached

LEMMA AttachFailedKept ==
    ASSUME CDPInv, NEW t \in Tabs, AttachFailed(t)
    PROVE  CDPInv'
<1> DEFINE s == To(t)
           y == [WithoutConsumers(session[s]) EXCEPT !.state = "failed", !.ready = "rejected"]
<1>1. /\ inbox[t] # <<>> /\ Head(inbox[t]) = FailReply(s) /\ In(inbox[t], FailReply(s))
      /\ s \in Calls /\ inbox \in [Tabs -> Seq(Replies)] /\ Tail(inbox[t]) \in Seq(Replies)
      /\ detaches' = detaches
  BY Arrival DEF AttachFailed, FailReply
<1>2. CDPTypeOK /\ session[s] \in Session
  BY <1>1 DEF CDPInv, ManagerInv, CDPTypeOK
<1>3. session[s].tab = t /\ session[s].state # "none"
  BY <1>1 DEF CDPInv, BrowserInv, TabInv, RepliesFit
<1>4. /\ y \in Session /\ y.tab = session[s].tab /\ y.consumers = {} /\ y.childConsumerCount = 0
      /\ y.state = "failed"
  BY <1>2 DEF WithoutConsumers, Session, SessionStates
<1>5. session' = [session EXCEPT ![s] = y] /\ call' = Deactivated({s}) /\ debuggee' = debuggee
  BY DEF AttachFailed
<1> HIDE DEF y
<1>6. /\ inbox' \in [Tabs -> Seq(Replies)] /\ inbox'[t] = Tail(inbox[t])
      /\ \A u \in Tabs \ {t} : inbox'[u] = inbox[u]
  BY <1>1 DEF AttachFailed, Consume
<1>7. /\ sessions' \in [Tabs -> Calls \cup {None}]
      /\ \A u \in Tabs : sessions'[u] = IF sessions[u] = s THEN None ELSE sessions[u]
  BY <1>2 DEF AttachFailed, Forget, CDPTypeOK
<1>8. session'[s] = y /\ OtherSessions(t, s)
  BY <1>1, <1>2, <1>5 DEF CDPTypeOK, OtherSessions
<1>9. TabInv(t)'
  BY <1>1, <1>4, <1>5, <1>6, <1>7, <1>8, TabEnded
<1>10. Delivers(t) /\ debuggee' \in [Tabs -> Calls \cup {None}]
  BY <1>1, <1>2, <1>5, <1>6 DEF Delivers, CDPTypeOK
<1> QED
  BY <1>1, <1>3, <1>4, <1>5, <1>6, <1>7, <1>9, <1>10, EndStep

LEMMA DetachedKept ==
    ASSUME CDPInv, NEW t \in Tabs, Detached(t)
    PROVE  CDPInv'
<1> DEFINE s == To(t)
<1>1. /\ inbox[t] # <<>> /\ Head(inbox[t]) = DetachReply(s) /\ In(inbox[t], DetachReply(s))
      /\ s \in Calls /\ inbox \in [Tabs -> Seq(Replies)] /\ Tail(inbox[t]) \in Seq(Replies)
      /\ detaches' = detaches
  BY Arrival DEF Detached, DetachReply
<1>2. CDPTypeOK /\ ManagerInv /\ session[s] \in Session /\ TabFits(t)
  BY <1>1 DEF CDPInv, ManagerInv, CDPTypeOK, Sessions
<1>3. session[s].tab = t /\ session[s].state = "detaching"
  BY <1>1 DEF CDPInv, BrowserInv, TabInv, RepliesFit
<1>4. /\ session' \in [Calls -> Session] /\ session'[s].state = "detached"
      /\ session'[s].tab = session[s].tab /\ session'[s].consumers = session[s].consumers
      /\ session'[s].childConsumerCount = session[s].childConsumerCount
      /\ \A u \in Calls \ {s} : session'[u] = session[u]
  BY <1>1, <1>2 DEF Detached, CDPTypeOK, Session, SessionStates
<1>5. /\ inbox'[t] = Tail(inbox[t]) /\ inbox' \in [Tabs -> Seq(Replies)]
      /\ \A u \in Tabs \ {t} : inbox'[u] = inbox[u]
      /\ sessions' = sessions /\ debuggee' = debuggee
  BY <1>1 DEF Detached, Consume
<1>6. ASSUME NEW d \in Calls
      PROVE  /\ call'[d] \in Call /\ call'[d].of = call[d].of /\ call'[d].active = call[d].active
             /\ \/ call'[d].pc = call[d].pc
                \/ call'[d].pc = "done" /\ ~call[d].active
  <2>1. call[d] \in Call /\ CallFits(d)
    BY <1>2 DEF CDPTypeOK, ManagerInv, Members
  <2>2. call'[d] = IF call[d].pc = "closing" /\ call[d].of = s
                   THEN [call[d] EXCEPT !.pc = "done"] ELSE call[d]
    BY DEF Detached
  <2> QED
    BY <2>1, <2>2 DEF CallFits, Call, CallStates
<1>7. CDPTypeOK'
  <2>1. call' = [d \in Calls |-> call'[d]]
    BY DEF Detached
  <2>2. call' \in [Calls -> Call]
    BY <1>6, <2>1
  <2> QED
    BY <1>1, <1>2, <1>4, <1>5, <2>2 DEF CDPTypeOK
<1>8. ManagerInv'
  <2>1. \A d \in Calls :
           /\ call'[d].of = call[d].of /\ call'[d].active = call[d].active
           /\ \/ call'[d].pc = call[d].pc
              \/ /\ call'[d].pc # "idle" /\ (call'[d].pc = "done" \/ call[d].of # None)
                 /\ call[d].active => /\ call'[d].pc \in {"auto", "leased"}
                                      /\ session[call[d].of].state = "attached"
    BY <1>6
  <2> QED
    BY <1>2, <1>3, <1>4, <1>5, <1>7, <2>1, ManagerSame
<1>9. OffFits' /\ NewsCounted'
  <2>1. \A u \in Tabs : Delivers(u)
    BY <1>1, <1>5 DEF Delivers
  <2>2. \A d \in Calls : Leaving(d) => Leaving(d)'
    BY <1>6 DEF Leaving
  <2> QED
    BY <1>1, <2>1, <2>2, InboxesKept
<1>10. ASSUME NEW u \in Tabs PROVE TabInv(u)'
  <2>1. CASE u = t
    <3>1. OtherSessions(t, s)
      BY <1>4 DEF OtherSessions
    <3>2. sessions'[t] = IF sessions[t] = s THEN None ELSE sessions[t]
      BY <1>1, <1>2, <1>3, <1>5, CDPAssumption DEF TabFits
    <3> QED
      BY <1>1, <1>4, <1>5, <2>1, <3>1, <3>2, TabEnded
  <2>2. CASE u # t
    <3>1. SameSessions(u)
      BY <1>3, <1>4, <2>2 DEF SameSessions
    <3> QED
      BY <1>1, <1>5, <2>2, <3>1, TabSame
  <2> QED
    BY <2>1, <2>2
<1> QED
  BY <1>8, <1>9, <1>10 DEF CDPInv, BrowserInv

LEMMA AutoAttachDoneKept ==
    ASSUME CDPInv, NEW t \in Tabs, AutoAttachDone(t)
    PROVE  CDPInv'
<1> DEFINE s == To(t)
<1>1. PICK k \in {"autoOn", "autoOnFailed"} : Arrives(t, k)
  BY DEF AutoAttachDone
<1>2. inbox[t] # <<>> /\ Head(inbox[t]) = Msg(k, s) /\ s \in Calls /\ detaches' = detaches
  BY <1>1, Arrival
<1>3. Plain(Head(inbox[t]))
  BY <1>2, MessageFields DEF Plain
<1>4. inbox' \in [Tabs -> Seq(Replies)] /\ \A u \in Tabs : PlainMove(u)
  BY <1>2, <1>3, PlainReceived DEF AutoAttachDone
<1>5. CDPTypeOK /\ ManagerInv /\ session[s] \in Session
  BY <1>2 DEF CDPInv, ManagerInv, CDPTypeOK
<1>6. /\ session' \in [Calls -> Session]
      /\ \A u \in Calls :
            /\ session'[u].tab = session[u].tab /\ session'[u].consumers = session[u].consumers
            /\ session'[u].childConsumerCount = session[u].childConsumerCount
            /\ session'[u].state = session[u].state
  <2>1. CASE session' = [session EXCEPT ![s].auto = "ok", ![s].enabled = TRUE]
    BY <1>2, <1>5, <2>1 DEF CDPTypeOK, Session
  <2>2. CASE session' = [session EXCEPT ![s].auto = "failed"]
    BY <1>2, <1>5, <2>2 DEF CDPTypeOK, Session
  <2> QED
    BY <2>1, <2>2 DEF AutoAttachDone
<1>7. UNCHANGED <<sessions, call, debuggee>>
  BY DEF AutoAttachDone
<1>8. ManagerInv'
  <2>1. CDPTypeOK'
    BY <1>2, <1>4, <1>5, <1>6, <1>7 DEF CDPTypeOK
  <2> QED
    BY <1>5, <1>6, <1>7, <2>1, ManagerSame
<1> QED
  BY <1>2, <1>4, <1>6, <1>7, <1>8, PlainStep DEF Leaving

LEMMA AutoAttachOffKept ==
    ASSUME CDPInv, NEW t \in Tabs, AutoAttachOff(t)
    PROVE  CDPInv'
<1> DEFINE c == To(t)
           x == session[call[c].of]
<1>1. /\ inbox[t] # <<>> /\ Head(inbox[t]) = Msg("autoOff", c) /\ c \in Calls
      /\ In(inbox[t], Msg("autoOff", c)) /\ detaches' = detaches
  BY Arrival DEF AutoAttachOff
<1>2. Plain(Head(inbox[t]))
  BY <1>1, MessageFields DEF Plain
<1>3. call[c].of # None /\ ~call[c].active /\ CDPTypeOK /\ call[c] \in Call
  BY <1>1 DEF CDPInv, BrowserInv, ManagerInv, OffFits, Leaving, CDPTypeOK
<1>4. ~(x.consumers = {} /\ x.state = "attached")
  <2>1. call[c].of \in Calls
    BY <1>1, <1>3, SessionOf
  <2> QED
    BY <2>1 DEF CDPInv, ManagerInv, Sessions, SessionFits
<1>5. /\ call' = [call EXCEPT ![c].pc = "done"] /\ Consume(t)
      /\ UNCHANGED <<sessions, session, debuggee>>
  BY <1>4 DEF AutoAttachOff
<1>6. inbox' \in [Tabs -> Seq(Replies)] /\ \A u \in Tabs : PlainMove(u)
  BY <1>1, <1>2, <1>5, PlainReceived
<1>7. call' \in [Calls -> Call] /\ call'[c].pc = "done" /\ call'[c].of = call[c].of
      /\ call'[c].active = call[c].active /\ \A d \in Calls \ {c} : call'[d] = call[d]
  BY <1>1, <1>3, <1>5 DEF CDPTypeOK, Call, CallStates
<1>8. session' \in [Calls -> Session] /\ "done" \in CallStates \ {"idle"}
  BY <1>3, <1>5 DEF CDPTypeOK, CallStates
<1> HIDE DEF c
<1> QED
  BY <1>1, <1>3, <1>5, <1>6, <1>7, <1>8, WaiterStep

LEMMA HandleDetachKept ==
    ASSUME CDPInv, NEW t \in Tabs, HandleDetach(t)
    PROVE  CDPInv'
<1> DEFINE s == sessions[t]
<1>1. /\ inbox[t] # <<>> /\ Head(inbox[t]) = News
      /\ inbox \in [Tabs -> Seq(Replies)] /\ Tail(inbox[t]) \in Seq(Replies)
      /\ detaches' = detaches
  BY Arrival DEF HandleDetach, News
<1>2. CDPTypeOK /\ ManagerInv /\ s \in Calls \cup {None} /\ None \notin Calls
  BY CDPAssumption DEF CDPInv, ManagerInv, CDPTypeOK
<1>3. /\ inbox' \in [Tabs -> Seq(Replies)] /\ inbox'[t] = Tail(inbox[t])
      /\ \A u \in Tabs \ {t} : inbox'[u] = inbox[u]
      /\ debuggee' = debuggee
  BY <1>1 DEF HandleDetach, Consume
<1>4. Delivers(t)
  BY <1>1, <1>3 DEF Delivers
<1>5. CASE s = None
  <2>1. UNCHANGED <<sessions, session, call>>
    BY <1>5 DEF HandleDetach
  <2>2. TabInv(t)'
    BY <1>1, <1>2, <1>3, <1>5, <2>1, TabNews
  <2>3. ManagerInv'
    <3>1. CDPTypeOK'
      BY <1>1, <1>2, <1>3, <2>1 DEF CDPTypeOK
    <3> QED
      BY <1>2, <2>1, <3>1, ManagerSame
  <2>4. OffFits' /\ NewsCounted'
    <3>1. \A u \in Tabs : Delivers(u)
      BY <1>3, <1>4 DEF Delivers
    <3>2. \A d \in Calls : Leaving(d) => Leaving(d)'
      BY <2>1 DEF Leaving
    <3> QED
      BY <1>1, <3>1, <3>2, InboxesKept
  <2>5. ASSUME NEW u \in Tabs, u # t PROVE TabInv(u)'
    <3>1. SameSessions(u)
      BY <2>1 DEF SameSessions
    <3> QED
      BY <1>1, <1>3, <2>1, <2>5, <3>1, TabSame
  <2> QED
    BY <2>2, <2>3, <2>4, <2>5 DEF CDPInv, BrowserInv
<1>6. CASE s # None
  <2> DEFINE y == [WithoutConsumers(session[s]) EXCEPT !.state = "detached"]
  <2>1. /\ s \in Calls /\ session[s] \in Session /\ session[s].tab = t /\ session[s].state # "none"
        /\ \A u \in Tabs \ {t} : sessions[u] # s
    BY <1>2, <1>6 DEF ManagerInv, Sessions, TabFits, CDPTypeOK
  <2>2. /\ y \in Session /\ y.tab = session[s].tab /\ y.consumers = {} /\ y.childConsumerCount = 0
        /\ y.state = "detached"
    BY <2>1 DEF WithoutConsumers, Session, SessionStates
  <2>3. /\ session' = [session EXCEPT ![s] = y] /\ call' = Deactivated({s})
        /\ sessions' = [sessions EXCEPT ![t] = None]
    BY <1>6 DEF HandleDetach
  <2> HIDE DEF y
  <2>4. /\ sessions' \in [Tabs -> Calls \cup {None}] /\ sessions'[t] = None
        /\ \A u \in Tabs : sessions'[u] = IF sessions[u] = s THEN None ELSE sessions[u]
    BY <1>2, <2>1, <2>3 DEF CDPTypeOK
  <2>5. \A u \in Calls : /\ session'[u].tab = session[u].tab
                         /\ session'[u].state = IF sessions[t] = u THEN "detached"
                                                ELSE session[u].state
    BY <1>2, <2>1, <2>2, <2>3 DEF CDPTypeOK
  <2>6. TabInv(t)'
    BY <1>1, <1>3, <2>4, <2>5, TabNews
  <2>7. debuggee' \in [Tabs -> Calls \cup {None}] /\ y.state \in {"detaching", "detached", "failed"}
    BY <1>2, <1>3, <2>2 DEF CDPTypeOK
  <2>8. \A u \in Tabs \ {t} : inbox'[u] = inbox[u] /\ debuggee'[u] = debuggee[u]
    BY <1>3
  <2> HIDE DEF s
  <2> QED
    BY <1>1, <1>3, <1>4, <2>1, <2>2, <2>3, <2>4, <2>6, <2>7, <2>8, EndStep
<1> QED
  BY <1>5, <1>6

LEMMA ExternalDetachKept ==
    ASSUME CDPInv, NEW t \in Tabs, ExternalDetach(t)
    PROVE  CDPInv'
<1>1. /\ CDPTypeOK /\ ManagerInv /\ detaches < MaxDetaches /\ detaches' = detaches + 1
      /\ debuggee' = [debuggee EXCEPT ![t] = None] /\ UNCHANGED <<sessions, session, call>>
      /\ inbox' = [inbox EXCEPT ![t] = Append(@, News)] /\ detaches \in Nat
      /\ OffFits /\ NewsCounted
  BY CDPAssumption DEF ExternalDetach, Reply, News, CDPInv, ManagerInv, BrowserInv, CDPTypeOK
<1>2. /\ Append(inbox[t], News) \in Seq(Replies)
      /\ \A x : In(Append(inbox[t], News), x) <=> In(inbox[t], x) \/ x = News
      /\ \A x, y : Precedes(Append(inbox[t], News), x, y) <=>
                      Precedes(inbox[t], x, y) \/ (In(inbox[t], x) /\ y = News)
  <2>1. inbox[t] \in Seq(Replies) /\ News \in Replies
    BY <1>1, MessageTypes DEF CDPTypeOK
  <2> HIDE DEF News
  <2> QED
    BY <2>1, AppendOrder
<1>3. /\ inbox'[t] = Append(inbox[t], News) /\ debuggee'[t] = None
      /\ \A u \in Tabs \ {t} : inbox'[u] = inbox[u] /\ debuggee'[u] = debuggee[u]
      /\ inbox' \in [Tabs -> Seq(Replies)] /\ debuggee' \in [Tabs -> Calls \cup {None}]
  BY <1>1, <1>2 DEF CDPTypeOK
<1>4. ManagerInv'
  <2>1. CDPTypeOK'
    BY <1>1, <1>3, CDPAssumption DEF CDPTypeOK
  <2> QED
    BY <1>1, <2>1, ManagerSame
<1>5. OffFits'
  <2>1. \A c : Msg("autoOff", c) # News
    BY MessageEqual DEF News
  <2> QED
    BY <1>1, <1>2, <1>3, <2>1 DEF OffFits, Leaving
<1>6. NewsCounted'
  <2>1. detaches' # 0 /\ (detaches' = 1 => detaches = 0)
    BY <1>1
  <2>2. ASSUME detaches = 0, NEW u \in Tabs PROVE Once(inbox'[u], News)
    <3>1. ~In(inbox[u], News) /\ ~Precedes(inbox[u], News, News)
      BY <1>1, <2>2, OrderIn DEF NewsCounted
    <3> QED
      BY <1>2, <1>3, <3>1 DEF Once
  <2> QED
    BY <2>1, <2>2 DEF NewsCounted
<1>7. ASSUME NEW u \in Tabs PROVE TabInv(u)'
  <2>1. CASE u = t
    BY <1>1, <1>3, <2>1, TabEndedByBrowser
  <2>2. CASE u # t
    BY <1>1, <1>3, <2>2, TabElsewhere
  <2> QED
    BY <2>1, <2>2
<1> QED
  BY <1>4, <1>5, <1>6, <1>7 DEF CDPInv, BrowserInv

-----------------------------------------------------------------------------
(* detachAll, which ends every session that is attached.                   *)

LEMMA DetachAllKept ==
    ASSUME CDPInv, DetachAll
    PROVE  CDPInv'
<1> DEFINE S == Managed
           Open == {s \in Managed : session[s].state = "attached"}
<1>1. /\ CDPTypeOK /\ ManagerInv /\ detaches' = detaches /\ None \notin Calls
      /\ (\A t \in Tabs : TabFits(t)) /\ \A s \in Calls : SessionFits(s)
  BY CDPAssumption DEF DetachAll, CDPInv, ManagerInv, Sessions
<1>2. S \in SUBSET Calls /\ Open \subseteq S /\ \A t \in Tabs : sessions[t] # None => sessions[t] \in S
  BY <1>1 DEF Managed, CDPTypeOK
<1>3. \A s \in S : /\ session[s].tab \in Tabs /\ sessions[session[s].tab] = s
                   /\ session[s].state = IF s \in Open THEN "attached" ELSE "attaching"
  <2> SUFFICES ASSUME NEW s \in S
               PROVE  /\ session[s].tab \in Tabs /\ sessions[session[s].tab] = s
                      /\ session[s].state = IF s \in Open THEN "attached" ELSE "attaching"
    OBVIOUS
  <2>1. PICK t \in Tabs : sessions[t] = s /\ s # None
    BY DEF Managed
  <2>2. session[s].tab = t /\ session[s].state \in {"attaching", "attached"}
    BY <1>1, <2>1 DEF TabFits
  <2> QED
    BY <2>1, <2>2
<1>4. /\ session' = [s \in Calls |->
                      CASE s \in Open ->
                             [WithoutConsumers(session[s]) EXCEPT !.state = "detaching"]
                        [] s \in S \ Open ->
                             [WithoutConsumers(session[s]) EXCEPT !.closeRequested = "shutdown"]
                        [] OTHER -> session[s]]
      /\ sessions' = [t \in Tabs |-> IF sessions[t] \in Open THEN None ELSE sessions[t]]
      /\ call' = Deactivated(S)
      /\ debuggee' = [t \in Tabs |-> IF sessions[t] \in Open THEN None ELSE debuggee[t]]
      /\ inbox' = [t \in Tabs |-> IF sessions[t] \in Open
                                  THEN Append(inbox[t], DetachReply(sessions[t]))
                                  ELSE inbox[t]]
  BY DEF DetachAll, DetachReply
<1> HIDE DEF S, Open
<1>5. ASSUME NEW s \in Calls
      PROVE  /\ session'[s] \in Session /\ session'[s].tab = session[s].tab
             /\ s \in S => session'[s].consumers = {} /\ session'[s].childConsumerCount = 0
             /\ s \in S => session'[s].state = IF s \in Open THEN "detaching" ELSE "attaching"
             /\ s \notin S => session'[s] = session[s]
  <2>1. session[s] \in Session
    BY <1>1 DEF CDPTypeOK
  <2>2. CASE s \in Open
    <3> DEFINE y == [WithoutConsumers(session[s]) EXCEPT !.state = "detaching"]
    <3>1. session'[s] = y
      BY <1>4, <2>2
    <3>2. /\ y \in Session /\ y.tab = session[s].tab
          /\ y.consumers = {} /\ y.childConsumerCount = 0
          /\ y.state = "detaching"
      BY <2>1 DEF WithoutConsumers, Session, SessionStates
    <3> HIDE DEF y
    <3> QED
      BY <3>1, <1>2, <2>2, <3>2
  <2>3. CASE s \in S \ Open
    <3> DEFINE y == [WithoutConsumers(session[s]) EXCEPT !.closeRequested = "shutdown"]
    <3>1. session'[s] = y
      BY <1>4, <2>3
    <3>2. /\ y \in Session /\ y.tab = session[s].tab
          /\ y.consumers = {} /\ y.childConsumerCount = 0
          /\ y.state = session[s].state
      BY <2>1 DEF WithoutConsumers, Session, SessionStates
    <3> HIDE DEF y
    <3> QED
      BY <3>1, <1>3, <2>3, <3>2
  <2>4. CASE s \notin S
    <3>1. session'[s] = session[s]
      BY <1>2, <1>4, <2>4
    <3> QED
      BY <2>1, <2>4, <3>1
  <2> QED
    BY <2>2, <2>3, <2>4
<1>6. ASSUME NEW d \in Calls
      PROVE  call'[d] \in Call /\ (Leaving(d) => Leaving(d)')
  <2>1. /\ call[d] \in Call
        /\ call'[d] = [call[d] EXCEPT !.active = FALSE] \/ call'[d] = call[d]
    BY <1>1, <1>4 DEF Deactivated, CDPTypeOK
  <2> QED
    BY <2>1 DEF Call, Leaving
<1>7. ASSUME NEW t \in Tabs, sessions[t] \in Open
      PROVE  /\ Append(inbox[t], DetachReply(sessions[t])) \in Seq(Replies)
             /\ Sendable(DetachReply(sessions[t]))
  <2> DEFINE m == DetachReply(sessions[t])
  <2>1. m \in Replies /\ m # News /\ m.kind = "detached"
    BY <1>2, <1>7, MessageTypes, Distinct, MessageFields DEF DetachReply
  <2> HIDE DEF m
  <2>2. Sendable(m) /\ Append(inbox[t], m) \in Seq(Replies)
    BY <1>1, <2>1, AppendOrder DEF Sendable, CDPTypeOK
  <2> QED
    BY <2>2 DEF m
<1>8. CDPTypeOK'
  <2>1. session' \in [Calls -> Session]
    <3>1. session' = [s \in Calls |-> session'[s]]
      BY <1>4
    <3> QED
      BY <1>5, <3>1
  <2>2. call' \in [Calls -> Call]
    <3>1. call' = [d \in Calls |-> call'[d]]
      BY <1>4 DEF Deactivated
    <3> QED
      BY <1>6, <3>1
  <2>3. inbox' \in [Tabs -> Seq(Replies)]
    <3>1. inbox' = [t \in Tabs |-> inbox'[t]]
      BY <1>4
    <3>2. ASSUME NEW t \in Tabs PROVE inbox'[t] \in Seq(Replies)
      BY <1>1, <1>4, <1>7 DEF CDPTypeOK
    <3> QED
      BY <3>1, <3>2
  <2>4. sessions' \in [Tabs -> Calls \cup {None}] /\ debuggee' \in [Tabs -> Calls \cup {None}]
    BY <1>1, <1>4 DEF CDPTypeOK
  <2> QED
    BY <1>1, <2>1, <2>2, <2>3, <2>4 DEF CDPTypeOK
<1>9. ManagerInv'
  <2>1. \A u \in Calls \ S : session'[u] = session[u]
    BY <1>5
  <2>2. \A u \in S : /\ session[u].state # "none" /\ session'[u].tab = session[u].tab
                     /\ session'[u].consumers = {} /\ session'[u].childConsumerCount = 0
                     /\ \/ session'[u].state = "attaching" /\ session[u].state = "attaching"
                        \/ session'[u].state \in {"detaching", "detached", "failed"}
    BY <1>2, <1>3, <1>5
  <2>3. \A t \in Tabs : sessions'[t] = IF sessions[t] \in S /\ session'[sessions[t]].state # "attaching"
                                       THEN None ELSE sessions[t]
    <3> SUFFICES ASSUME NEW t \in Tabs
                 PROVE  sessions'[t] = IF sessions[t] \in S /\ session'[sessions[t]].state # "attaching"
                                       THEN None ELSE sessions[t]
      OBVIOUS
    <3>1. sessions[t] \in S => (sessions[t] \in Open <=> session'[sessions[t]].state # "attaching")
      BY <1>2, <1>5
    <3> QED
      BY <1>2, <1>4, <3>1
  <2> QED
    BY <1>1, <1>2, <1>4, <1>8, <2>1, <2>2, <2>3, ManagerClose
<1>10. OffFits' /\ NewsCounted'
  <2>1. ASSUME NEW t \in Tabs PROVE Delivers(t)
    BY <1>4, <1>7 DEF Delivers
  <2> QED
    BY <1>1, <1>6, <2>1, InboxesKept
<1>11. ASSUME NEW t \in Tabs PROVE TabInv(t)'
  <2>1. CASE sessions[t] \in Open
    <3> DEFINE s == sessions[t]
    <3>1. /\ s \in Calls /\ s \in S /\ session[s].tab = t /\ session[s].state = "attached"
          /\ session'[s].tab = t /\ session'[s].state = "detaching"
      <4>1. s \in Calls /\ s \in S
        BY <1>2, <2>1
      <4>2. session[s].tab = t
        BY <1>1, <4>1 DEF TabFits
      <4> QED
        BY <1>3, <1>5, <2>1, <4>1, <4>2
    <3>2. sessions'[t] = None /\ debuggee'[t] = None /\ inbox'[t] = Append(inbox[t], DetachReply(s))
      BY <1>4, <2>1
    <3>3. OtherSessions(t, s)
      <4> SUFFICES ASSUME NEW u \in Calls \ {s}
                   PROVE  /\ session'[u].tab = t <=> session[u].tab = t
                          /\ session[u].tab = t => session'[u].state = session[u].state
        BY DEF OtherSessions
      <4>1. u \in S => session[u].tab # t
        BY <1>3
      <4> QED
        BY <1>5, <4>1
    <3> QED
      BY <1>1, <3>1, <3>2, <3>3, TabDetach
  <2>2. CASE sessions[t] \notin Open
    <3>1. sessions'[t] = sessions[t] /\ debuggee'[t] = debuggee[t] /\ inbox'[t] = inbox[t]
      BY <1>4, <2>2
    <3>2. SameSessions(t)
      <4> SUFFICES ASSUME NEW u \in Calls
                   PROVE  /\ session'[u].tab = t <=> session[u].tab = t
                          /\ session[u].tab = t => session'[u].state = session[u].state
        BY DEF SameSessions
      <4>1. u \in S /\ session[u].tab = t => u \notin Open
        BY <1>3, <2>2
      <4> QED
        BY <1>3, <1>5, <4>1
    <3> QED
      BY <1>1, <3>1, <3>2, TabSame
  <2> QED
    BY <2>1, <2>2
<1> QED
  BY <1>9, <1>10, <1>11 DEF CDPInv, BrowserInv

-----------------------------------------------------------------------------
(* The invariant and what it says.                                         *)

LEMMA CDPInitially == Init => CDPInv
<1> SUFFICES ASSUME Init PROVE CDPInv
  OBVIOUS
<1>1. CDPTypeOK
  <2>1. <<>> \in Seq(Replies)
    OBVIOUS
  <2>2. [tab |-> None, state |-> "none", ready |-> "pending", closeRequested |-> "",
         consumers |-> {}, childConsumerCount |-> 0, enabled |-> FALSE, auto |-> "none"] \in Session
    BY DEF Session, SessionStates
  <2>3. [pc |-> "idle", of |-> None, active |-> FALSE] \in Call
    BY DEF Call, CallStates
  <2>4. session \in [Calls -> Session]
    BY <2>2 DEF Init
  <2>5. call \in [Calls -> Call]
    BY <2>3 DEF Init
  <2>6. /\ sessions \in [Tabs -> Calls \cup {None}] /\ debuggee \in [Tabs -> Calls \cup {None}]
        /\ inbox \in [Tabs -> Seq(Replies)]
    BY <2>1 DEF Init
  <2>7. detaches \in 0..MaxDetaches
    <3>1. detaches = 0 /\ MaxDetaches \in Nat
      BY CDPAssumption DEF Init
    <3> QED
      BY <3>1
  <2> QED
    BY <2>4, <2>5, <2>6, <2>7 DEF CDPTypeOK
<1>2. Members
  BY DEF Init, Members, CallFits, ConsumersFit
<1>3. Sessions
  BY DEF Init, Sessions, TabFits, SessionFits
<1>4. Counts
  <2>1. {} \cap Child = {} /\ IsFiniteSet({}) /\ Cardinality({}) = 0
    BY FS_EmptySet
  <2> QED
    BY <2>1 DEF Init, Counts, CountFits
<1>5. \A t \in Tabs : \A x, y : ~In(inbox[t], x) /\ ~Precedes(inbox[t], x, y)
  <2>1. \A t \in Tabs : inbox[t] = <<>>
    BY DEF Init
  <2>2. Len(<<>>) = 0 /\ 1..0 = {}
    OBVIOUS
  <2> QED
    BY <2>1, <2>2 DEF In, Precedes
<1>6. OffFits /\ NewsCounted
  BY <1>5 DEF OffFits, NewsCounted, Once
<1>7. \A t \in Tabs : TabInv(t)
  BY <1>5 DEF Init, TabInv, RepliesFit, AttachmentKnown, OneDetach, ReplyOwns, LeaseOwns
<1> QED
  BY <1>1, <1>2, <1>3, <1>4, <1>6, <1>7 DEF CDPInv, ManagerInv, BrowserInv

\* Every step of the manager, of its callers and of the browser keeps it.
LEMMA CDPStep == CDPInv /\ [Next]_vars => CDPInv'
<1> SUFFICES ASSUME CDPInv, [Next]_vars PROVE CDPInv'
  OBVIOUS
<1>1. ASSUME NEW c \in Calls, NEW t \in TabsOf[c],
             AcquireNew(c, t) \/ AcquireShared(c, t) \/ AcquireRefused(c, t)
      PROVE  CDPInv'
  <2>1. t \in Tabs
    BY CDPAssumption
  <2> QED
    BY <1>1, <2>1, AcquireNewKept, AcquireSharedKept, AcquireRefusedKept
<1>2. ASSUME NEW c \in Calls, Release(c) \/ Abort(c) PROVE CDPInv'
  <2>1. call[c].pc \in {"leased", "ready", "auto"} /\ ReleaseConsumer(c) /\ detaches' = detaches
    BY <1>2 DEF Release, Abort
  <2>2. call[c].of # None
    BY <2>1 DEF CDPInv, ManagerInv, Members, CallFits
  <2> QED
    BY <2>1, <2>2, ReleaseKept
<1>3. ASSUME NEW c \in Calls, ResumeReady(c) \/ ResumeAuto(c) \/ ResumeDisable(c) PROVE CDPInv'
  BY <1>3, ResumeReadyKept, ResumeAutoKept, ResumeDisableKept
<1>4. ASSUME NEW t \in Tabs, Receive(t) PROVE CDPInv'
  BY <1>4, AttachedKept, AttachFailedKept, DetachedKept, AutoAttachDoneKept, AutoAttachOffKept,
     HandleDetachKept DEF Receive
<1>5. ASSUME NEW t \in Tabs, ExternalDetach(t) PROVE CDPInv'
  BY <1>5, ExternalDetachKept
<1>6. CASE DetachAll
  BY <1>6, DetachAllKept
<1>7. CASE UNCHANGED vars
  BY <1>7 DEF vars, CDPInv, ManagerInv, BrowserInv, CDPTypeOK, Members, CallFits, ConsumersFit,
     Sessions, TabFits, SessionFits, Counts, CountFits, OffFits, Leaving, NewsCounted, TabInv,
     RepliesFit, AttachmentKnown, OneDetach, ReplyOwns, LeaseOwns
<1> QED
  BY <1>1, <1>2, <1>3, <1>4, <1>5, <1>6, <1>7 DEF Next, Resume

\* The manager's view of consumers, sessions and attachments agrees with the
\* browser's (cdp-session-manager.js) over every order of acquire, abort,
\* release, attach and detach, for any number of tabs, calls and detaches: no
\* attachment is leaked, childConsumerCount is exact, and a lease has its
\* attachment while the browser has ended at most one by itself.
THEOREM SessionsAlwaysMatch == Spec => []SessionsMatchLeases
<1>1. CDPInv => SessionsMatchLeases
  <2> SUFFICES ASSUME CDPInv PROVE SessionsMatchLeases
    OBVIOUS
  <2>1. CDPTypeOK /\ Members /\ Sessions /\ Counts /\ \A t \in Tabs : TabInv(t)
    BY DEF CDPInv, ManagerInv, BrowserInv
  <2>2. NoLeakedAttachment
    <3> SUFFICES ASSUME NEW t \in Tabs, inbox[t] = <<>>, debuggee[t] # None
                 PROVE  sessions[t] = debuggee[t] /\ session[debuggee[t]].consumers # {}
      BY DEF NoLeakedAttachment
    <3>1. debuggee[t] \in Calls /\ AttachmentKnown(t) /\ SessionFits(debuggee[t])
      BY <2>1 DEF CDPTypeOK, TabInv, Sessions
    <3>2. \A m : ~In(inbox[t], m)
      BY DEF In
    <3> QED
      BY <3>1, <3>2 DEF AttachmentKnown, SessionFits
  <2>3. ActiveLeaseIsAttached
    <3> SUFFICES ASSUME detaches <= 1, NEW c \in Calls, call[c].pc = "leased", call[c].active
                 PROVE  \/ debuggee[session[call[c].of].tab] = call[c].of
                        \/ inbox[session[call[c].of].tab] # <<>>
      BY DEF ActiveLeaseIsAttached, LeaseKeepsAttachment
    <3> DEFINE s == call[c].of
               t == session[call[c].of].tab
    <3>1. s \in Calls /\ t \in Tabs /\ c \in session[s].consumers
      <4>1. CallFits(c)
        BY <2>1 DEF Members
      <4>2. call[c].of # None
        BY <4>1 DEF CallFits
      <4> QED
        BY <4>1, <4>2, SessionOf DEF CallFits
    <3>2. session[s].state = "attached"
      BY <2>1 DEF Members, CallFits
    <3>3. LeaseOwns(t, s)
      BY <2>1, <3>1 DEF TabInv, OneDetach
    <3>4. In(inbox[t], News) => inbox[t] # <<>>
      BY DEF In
    <3> QED
      BY <3>2, <3>3, <3>4 DEF LeaseOwns
  <2>4. ChildCountExact
    BY <2>1 DEF ChildCountExact, Counts, CountFits
  <2> QED
    BY <2>1, <2>2, <2>3, <2>4 DEF SessionsMatchLeases
<1> QED
  BY <1>1, CDPInitially, CDPStep, PTL DEF Spec
=============================================================================
