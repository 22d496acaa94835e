----------------------------- MODULE JobsProofs -----------------------------
(***************************************************************************)
(* That answers are about the pinned document, that the finally blocks     *)
(* restore the browser, and that the overrides on the tab are those the    *)
(* extension says it set: for any number of requests, any workloads of     *)
(* handlers and any number of documents.  What the proofs use of the       *)
(* handlers is ProgramsAssumption, FinallyAssumption and                   *)
(* EmulationAssumption.                                                    *)
(***************************************************************************)
EXTENDS Jobs, SequenceTheorems, TLAPS

JobFields == {"kind", "mode", "pc", "abort", "failed", "answer", "want", "pin", "reads", "undo",
              "seen", "original"}
Modes == {"new", "run", "wait", "undo", "undoing", "done"}
Ending == {"undo", "undoing", "done"}

\* A request's record has its fields, whatever they hold.
IsJob(r) == r = [f \in JobFields |-> r[f]]

\* What was read is the pinned document's, whose site is accessible.
Clean(r, sites) == r.reads \subseteq {r.pin} /\ (r.reads # {} => r.pin \in sites)

\* The document of a request that pins one, while the tab shows document d: nothing is read before
\* it is pinned; the tab has shown only it or later ones since; once its site was looked up it is
\* accessible, or no longer shown; and the reads are clean unless a confirmation is still to come.
Pinned(r, d, sites) ==
    /\ r.mode \in Ending => r.pc > Len(Steps[r.kind])
    /\ r.pin \in Nat /\ r.pin <= d
    /\ r.want # 0 /\ r.pin # 0 => r.pin = r.want
    /\ \A x \in r.reads : x \in Nat /\ r.pin <= x /\ x <= d
    /\ \A p \in Places(r.kind, {"pin"}) :
         /\ r.pc <= p => r.pin = 0 /\ r.reads = {}
         /\ \A a \in Places(r.kind, {"access"}) :
               p < a /\ a < r.pc => r.pin = 0 \/ r.pin \in sites \/ r.pin < d
    /\ (\E s \in Confirming(r.kind) : r.pc <= s) \/ Clean(r, sites)

\* An answer before the end is one of a timeout that races.
Fits(r, d, sites) ==
    /\ IsJob(r) /\ r.kind \in Kinds /\ r.pc \in Nat \ {0} /\ r.mode \in Modes
    /\ r.mode = "new" => r.pin = 0
    /\ r.mode = "wait" => r.pc <= Len(Steps[r.kind]) /\ Here(r).op \in Commands
    /\ r.answer = "ok" => r.mode = "done"
    /\ r.answer # None /\ r.mode # "done" => Races(r.kind)
    /\ r.kind \in Pinning => Pinned(r, d, sites)

\* The commands on the wire: those that someone waits for are each of a request of its own.
IsSeq(s) == Len(s) \in Nat /\ s = [i \in 1..Len(s) |-> s[i]]
MessageFields == {"by", "step", "live"}
IsMessage(c) == c = [f \in MessageFields |-> c[f]]
Waiting == {"wait", "undoing"}
WireFits ==
    /\ IsSeq(wire)
    /\ \A i \in 1..Len(wire) :
         /\ IsMessage(wire[i]) /\ wire[i].by \in Jobs
         /\ wire[i].live \in BOOLEAN
         /\ wire[i].live => job[wire[i].by].mode \in Waiting
    /\ \A i, k \in 1..Len(wire) :
         wire[i].live /\ wire[k].live /\ wire[i].by = wire[k].by => i = k

JobsInv ==
    /\ doc \in Nat \ {0} /\ job = [j \in Jobs |-> job[j]]
    /\ \A j \in Jobs : Fits(job[j], doc, granted)
    /\ WireFits

-----------------------------------------------------------------------------
(* What a step makes of a request's record.                                *)

\* q is r with what the step that r is at learned, in document d.
Learns(r, q, d, sites) ==
    LET op == Here(r).op IN
    /\ IsJob(q) /\ q.kind = r.kind /\ q.pc = r.pc /\ q.want = r.want /\ q.answer = r.answer
    /\ r.kind \in Pinning =>
         /\ op = "pin" => q.pin = d /\ r.want \in {0, d}
         /\ op # "pin" => q.pin = r.pin
         /\ op = "access" => d \in sites
         /\ op = "stay" => r.pin = d
         /\ \/ q.reads = r.reads
            \/ /\ q.reads = r.reads \cup {d}
               /\ \/ op \in {"read", "take", "evaluate", "pause"}
                  \/ op \in {"page", "references"} /\ r.pin = d /\ d \in sites

\* Where a step is in its program.
LEMMA PlaceOfStep ==
    ASSUME NEW r, r.kind \in Kinds, r.pc \in Nat, r.pc > 0, r.pc <= Len(Steps[r.kind]),
           NEW ops, Here(r).op \in ops
    PROVE  r.pc \in Places(r.kind, ops)
BY ProgramsAssumption DEF Places, Here

\* The places of steps are numbers within the program.
LEMMA PlacesAreNumbers ==
    ASSUME NEW kind \in Kinds, NEW ops
    PROVE  \A i \in Places(kind, ops) : i \in Nat /\ i > 0 /\ i <= Len(Steps[kind])
BY ProgramsAssumption DEF Places

LEMMA StepKeepsPinned ==
    ASSUME NEW d \in Nat \ {0}, NEW sites, NEW r, NEW q,
           r.kind \in Kinds, r.kind \in Pinning, r.pc \in Nat, r.pc > 0,
           r.pc <= Len(Steps[r.kind]),
           Pinned(r, d, sites), Learns(r, q, d, sites),
           NEW n, n.kind = r.kind, n.pc = r.pc + 1, n.want = q.want, n.pin = q.pin,
           n.reads = q.reads, n.mode = "run"
    PROVE  Pinned(n, d, sites)
<1> DEFINE kind == r.kind
           op == Here(r).op
           Pins == Places(kind, {"pin"})
           Accesses == Places(kind, {"access"})
<1>0. /\ \A p, p2 \in Pins : p = p2
      /\ \A i \in Places(kind, {"read", "take", "evaluate", "pause"}) :
            (\A p \in Pins : p < i) /\ \E s \in Confirming(kind) : i < s
  BY ProgramsAssumption
<1>1. /\ \A p \in Pins : p \in Nat /\ p > 0
      /\ \A a \in Accesses : a \in Nat
      /\ \A s \in Confirming(kind) : s \in Nat /\ s \in Places(kind, {"stay"})
  BY PlacesAreNumbers DEF Confirming
<1>2. \A ops : op \in ops => r.pc \in Places(kind, ops)
  BY PlaceOfStep
<1>2a. \A ops : r.pc \in Places(kind, ops) => op \in ops
  BY DEF Places, Here
<1>3. /\ n.mode \notin Ending /\ n.pin \in Nat /\ n.pin <= d
      /\ n.want # 0 /\ n.pin # 0 => n.pin = n.want
  BY DEF Learns, Pinned, Ending
<1>4. CASE op = "pin"
  <2>1. r.pc \in Pins
    BY <1>2, <1>4
  <2>2. r.pin = 0 /\ r.reads = {} /\ n.reads = {} /\ n.pin = d
    BY <1>1, <1>4, <2>1 DEF Pinned, Learns
  <2>3. \A p \in Pins : ~(n.pc <= p)
    BY <1>0, <1>1, <2>1
  <2>4. \A p \in Pins, a \in Accesses : ~(p < a /\ a < n.pc)
    BY <1>0, <1>1, <2>1
  <2> QED
    BY <1>3, <2>2, <2>3, <2>4 DEF Pinned, Clean
<1>5. CASE op # "pin"
  <2>1. n.pin = r.pin /\ r.pin \in Nat /\ r.pin <= d
    BY <1>5 DEF Learns, Pinned
  <2>2. \A x \in n.reads : x \in Nat /\ n.pin <= x /\ x <= d
    BY <2>1 DEF Learns, Pinned
  <2>3. ASSUME NEW p \in Pins, n.pc <= p PROVE n.pin = 0 /\ n.reads = {}
    <3>1. r.pc <= p /\ r.pc < p
      BY <1>1, <2>3
    <3>2. r.pin = 0 /\ r.reads = {}
      BY <3>1 DEF Pinned
    <3>3. op \notin {"read", "take", "evaluate", "pause"}
      <4> SUFFICES ASSUME op \in {"read", "take", "evaluate", "pause"} PROVE FALSE
        OBVIOUS
      <4>1. r.pc \in Places(kind, {"read", "take", "evaluate", "pause"})
        BY <1>2
      <4>2. p < r.pc
        BY <1>0, <4>1
      <4> QED
        BY <1>1, <3>1, <4>2
    <3> QED
      BY <2>1, <3>2, <3>3 DEF Learns
  <2>4. ASSUME NEW p \in Pins, NEW a \in Accesses, p < a, a < n.pc
        PROVE  n.pin = 0 \/ n.pin \in sites \/ n.pin < d
    <3>1. CASE a < r.pc
      BY <2>1, <2>4, <3>1 DEF Pinned
    <3>2. CASE a = r.pc
      <4>1. d \in sites
        BY <1>2a, <3>2 DEF Learns
      <4> QED
        BY <2>1, <4>1
    <3> QED
      BY <1>1, <2>4, <3>1, <3>2
  <2>5. (\E s \in Confirming(kind) : n.pc <= s) \/ Clean(n, sites)
    <3>1. CASE op \in {"read", "take", "evaluate", "pause"}
      <4>1. PICK s \in Confirming(kind) : r.pc < s
        BY <1>0, <1>2, <3>1
      <4> QED
        BY <1>1, <4>1
    <3>2. ASSUME NEW s \in Confirming(kind), r.pc = s PROVE Clean(n, sites)
      <4>1. op = "stay"
        BY <1>1, <1>2a, <3>2
      <4>2. r.pin = d /\ n.reads = r.reads
        BY <4>1 DEF Learns
      <4>3. PICK p \in Pins, a \in Accesses : p < a /\ a < s
        BY DEF Confirming
      <4>4. r.pin \in sites
        BY <3>2, <4>2, <4>3 DEF Pinned
      <4>5. \A x \in r.reads : x = r.pin
        BY <2>1, <4>2 DEF Pinned
      <4> QED
        BY <2>1, <4>2, <4>4, <4>5 DEF Clean
    <3>3. CASE Clean(r, sites) /\ op \notin {"read", "take", "evaluate", "pause"}
      BY <2>1, <3>3 DEF Clean, Learns
    <3>4. ASSUME NEW s \in Confirming(kind), r.pc < s PROVE n.pc <= s
      BY <1>1, <3>4
    <3>5. (\E s \in Confirming(kind) : r.pc <= s) \/ Clean(r, sites)
      BY DEF Pinned
    <3> QED
      BY <1>1, <3>1, <3>2, <3>3, <3>4, <3>5
  <2> QED
    BY <1>3, <2>2, <2>3, <2>4, <2>5 DEF Pinned
<1> QED
  BY <1>4, <1>5
\* A record that a failure, or the end of a finally block, leaves.
LEMMA SameStepFits ==
    ASSUME NEW d \in Nat \ {0}, NEW sites, NEW r, NEW q, Fits(r, d, sites),
           IsJob(q), q.kind = r.kind, q.pc = r.pc, q.want = r.want, q.pin = r.pin,
           q.reads = r.reads, q.mode \in Modes \ {"new"},
           q.mode = "wait" => r.pc <= Len(Steps[r.kind]) /\ Here(r).op \in Commands,
           q.mode \in Ending => r.mode \in Ending \/ r.pc > Len(Steps[r.kind]),
           q.answer = "ok" => q.mode = "done",
           q.answer # None /\ q.mode # "done" => Races(q.kind)
    PROVE  Fits(q, d, sites)
<1>1. Here(q) = Here(r)
  BY DEF Here
<1>2. q.kind \in Pinning => Pinned(q, d, sites)
  <2> SUFFICES ASSUME q.kind \in Pinning PROVE Pinned(q, d, sites)
    OBVIOUS
  <2>1. Pinned(r, d, sites)
    BY DEF Fits
  <2>2. q.mode \in Ending => q.pc > Len(Steps[q.kind])
    BY <2>1 DEF Pinned
  <2>3. Clean(r, sites) => Clean(q, sites)
    BY DEF Clean
  <2> QED
    BY <2>1, <2>2, <2>3 DEF Pinned
<1> QED
  BY <1>1, <1>2 DEF Fits

\* What a failed step leaves.
LEMMA FailedFits ==
    ASSUME NEW d \in Nat \ {0}, NEW sites, NEW q, IsJob(q), q.kind \in Kinds,
           q.answer # "ok", q.answer # None => Races(q.kind)
    PROVE  Fits(Failed(q), d, sites) /\ Failed(q).mode = "undo"
<1> DEFINE n == Failed(q)
<1>1. /\ IsJob(n) /\ n.kind = q.kind /\ n.mode = "undo" /\ n.pc = Len(Steps[q.kind]) + 1
      /\ n.want = 0 /\ n.pin = 0 /\ n.reads = {} /\ n.answer = q.answer
  BY DEF Failed, IsJob, JobFields
<1> HIDE DEF n
<1>2. Len(Steps[n.kind]) \in Nat
  BY <1>1, ProgramsAssumption
<1>3. Pinned(n, d, sites)
  <2>1. \A p \in Places(n.kind, {"pin"}) : p \in Nat /\ p <= Len(Steps[n.kind])
    BY <1>1, PlacesAreNumbers
  <2>2. Clean(n, sites)
    BY <1>1 DEF Clean
  <2> QED
    BY <1>1, <1>2, <2>1, <2>2 DEF Pinned
<1>4. Fits(n, d, sites)
  BY <1>1, <1>2, <1>3 DEF Fits, Modes
<1> QED
  BY <1>1, <1>4 DEF n

\* The record at the step after, and what a step that is done leaves.
LEMMA AfterFits ==
    ASSUME NEW d \in Nat \ {0}, NEW sites, NEW r, Fits(r, d, sites), r.mode \in {"run", "wait"},
           r.pc <= Len(Steps[r.kind]), NEW q, Learns(r, q, d, sites)
    PROVE  /\ Fits(After(q), d, sites) /\ After(q).mode \in {"run", "undo"}
           /\ Fits([q EXCEPT !.pc = @ + 1, !.mode = "run"], d, sites)
<1> DEFINE n == [q EXCEPT !.pc = @ + 1, !.mode = "run"]
<1>1. /\ IsJob(q) /\ q.kind \in Kinds /\ q.kind = r.kind /\ q.pc = r.pc /\ q.pc \in Nat
      /\ q.answer # "ok" /\ (q.answer # None => Races(q.kind))
  BY DEF Learns, Fits
<1>2. /\ IsJob(n) /\ n.kind = q.kind /\ n.mode = "run" /\ n.pc = q.pc + 1
      /\ n.want = q.want /\ n.pin = q.pin /\ n.reads = q.reads /\ n.answer = q.answer
  BY <1>1 DEF IsJob, JobFields
<1> HIDE DEF n
<1>3. n.kind \in Pinning => Pinned(n, d, sites)
  <2> SUFFICES ASSUME n.kind \in Pinning PROVE Pinned(n, d, sites)
    OBVIOUS
  <2>1. Pinned(r, d, sites) /\ r.pc > 0
    BY <1>1, <1>2 DEF Fits
  <2> QED
    BY <1>1, <1>2, <2>1, StepKeepsPinned
<1>4. Fits(n, d, sites)
  BY <1>1, <1>2, <1>3 DEF Fits, Modes
<1>5. Fits(Failed(q), d, sites) /\ Failed(q).mode = "undo"
  BY <1>1, FailedFits
<1>6. After(q) = Failed(q) \/ After(q) = n
  BY DEF After, n
<1>7. Fits(After(q), d, sites) /\ After(q).mode \in {"run", "undo"}
  BY <1>2, <1>4, <1>5, <1>6
<1> QED
  BY <1>4, <1>7 DEF n

\* q is r but for what it will undo, what it has seen and which tab was active.
SameCore(r, q) ==
    /\ IsJob(q) /\ q.kind = r.kind /\ q.mode = r.mode /\ q.pc = r.pc /\ q.want = r.want
    /\ q.pin = r.pin /\ q.reads = r.reads /\ q.answer = r.answer

LEMMA CoreFits ==
    ASSUME NEW d \in Nat \ {0}, NEW sites, NEW r, Fits(r, d, sites), NEW q, SameCore(r, q)
    PROVE  /\ Fits(q, d, sites)
           /\ Here(r).op \notin {"pin", "access", "stay"} => Learns(r, q, d, sites)
<1>1. Here(q) = Here(r)
  BY DEF SameCore, Here
<1>2. Pinned(r, d, sites) => Pinned(q, d, sites)
  BY DEF SameCore, Pinned, Clean
<1>3. Fits(q, d, sites)
  BY <1>1, <1>2 DEF SameCore, Fits
<1>4. Here(r).op \notin {"pin", "access", "stay"} => Learns(r, q, d, sites)
  BY DEF SameCore, Learns, Fits
<1> QED
  BY <1>3, <1>4

\* The finally blocks' stack, and what a record has seen, are none of the core.
LEMMA CoreKept ==
    ASSUME NEW r, IsJob(r), NEW x
    PROVE  /\ SameCore(r, r) /\ SameCore(r, Push(r, x)) /\ SameCore(r, Without(r, x))
           /\ SameCore(r, [r EXCEPT !.undo = x]) /\ SameCore(r, [r EXCEPT !.seen = x])
           /\ SameCore(r, [r EXCEPT !.original = x])
BY DEF SameCore, IsJob, JobFields, Push, Without

\* resetEmulation without a state ends early; it has no document.
LEMMA DisownedFits ==
    ASSUME NEW d \in Nat \ {0}, NEW sites, NEW r, Fits(r, d, sites), r.mode = "run",
           Here(r).op = "disown"
    PROVE  Fits(Disowned(r), d, sites) /\ Disowned(r).mode = "run"
<1> DEFINE n == Disowned(r)
<1>0. /\ IsJob(r) /\ r.kind \in Kinds /\ r.pc \in Nat \ {0} /\ Len(Steps[r.kind]) \in Nat
  BY ProgramsAssumption DEF Fits
<1>1. /\ IsJob(n) /\ n.kind = r.kind /\ n.mode = "run"
      /\ n.want = r.want /\ n.pin = r.pin /\ n.reads = r.reads /\ n.answer = r.answer
      /\ n.pc \in {r.pc + 1, Len(Steps[r.kind]) + 1}
  <2>1. CASE "emulation" \in holders
    BY <1>0, <2>1 DEF Disowned, IsJob, JobFields
  <2>2. CASE "emulation" \notin holders
    BY <1>0, <2>2 DEF Disowned, IsJob, JobFields
  <2> QED
    BY <2>1, <2>2
<1> HIDE DEF n
<1>2. ASSUME r.kind \in Pinning PROVE Pinned(n, d, sites)
  <2>0. Pinned(r, d, sites) /\ n.mode \notin Ending
    BY <1>1, <1>2 DEF Fits, Ending
  <2>1. \A ops : \A i \in Places(r.kind, ops) : i \in Nat /\ i <= Len(Steps[r.kind])
    BY <1>0, PlacesAreNumbers
  <2>2. Confirming(r.kind) \subseteq Places(r.kind, {"stay"})
    BY DEF Confirming
  <2>3. CASE r.pc > Len(Steps[r.kind])
    <3>1. n.pc > Len(Steps[r.kind]) /\ n.pc \in Nat
      BY <1>0, <1>1, <2>3
    <3>2. Clean(r, sites)
      BY <1>0, <2>0, <2>1, <2>2, <2>3 DEF Pinned
    <3>3. Clean(n, sites)
      BY <1>1, <3>2 DEF Clean
    <3>4. \A ops : \A i \in Places(r.kind, ops) : i < r.pc /\ i < n.pc
      BY <1>0, <2>1, <2>3, <3>1
    <3>5. \A p \in Places(n.kind, {"pin"}) :
            /\ ~(n.pc <= p)
            /\ \A a \in Places(n.kind, {"access"}) :
                  p < a => n.pin = 0 \/ n.pin \in sites \/ n.pin < d
      BY <1>0, <1>1, <2>0, <2>1, <3>1, <3>4 DEF Pinned
    <3> QED
      BY <1>1, <2>0, <3>3, <3>5 DEF Pinned
  <2>4. CASE r.pc <= Len(Steps[r.kind])
    <3>1. r.pc \in Places(r.kind, {"disown"})
      <4>1. Here(r).op \in {"disown"} /\ r.pc > 0
        BY <1>0
      <4> QED
        BY <1>0, <2>4, <4>1, PlaceOfStep
    <3>2. Places(r.kind, {"pin"}) = {}
      BY <1>0, <1>2, <3>1, ProgramsAssumption
    <3>3. Confirming(r.kind) = {}
      BY <3>2 DEF Confirming
    <3>4. Clean(n, sites)
      BY <1>1, <2>0, <3>3 DEF Pinned, Clean
    <3> QED
      BY <1>1, <2>0, <3>2, <3>4 DEF Pinned
  <2> QED
    BY <1>0, <2>3, <2>4
<1>3. Fits(n, d, sites)
  BY <1>0, <1>1, <1>2 DEF Fits, Modes
<1> QED
  BY <1>1, <1>3 DEF n

-----------------------------------------------------------------------------
(* The wire.                                                               *)

LEMMA WireKept ==
    ASSUME WireFits, wire' = wire \/ wire' = <<>>,
           \A j \in Jobs : job[j].mode \in Waiting => job'[j].mode \in Waiting
    PROVE  WireFits'
<1>1. CASE wire' = wire
  BY <1>1 DEF WireFits, IsSeq
<1>2. CASE wire' = <<>>
  BY <1>2 DEF WireFits, IsSeq
<1> QED
  BY <1>1, <1>2

LEMMA SequenceIs == ASSUME NEW S, NEW s \in Seq(S) PROVE IsSeq(s)
BY LenProperties DEF IsSeq

LEMMA AppendedTo ==
    ASSUME NEW s, IsSeq(s), NEW e
    PROVE  /\ IsSeq(Append(s, e)) /\ Len(Append(s, e)) = Len(s) + 1
           /\ Append(s, e)[Len(s) + 1] = e
           /\ \A i \in 1..Len(s) : Append(s, e)[i] = s[i]
<1> DEFINE S == {s[i] : i \in 1..Len(s)} \cup {e}
<1>1. s \in Seq(S)
  BY DEF IsSeq
<1> HIDE DEF S
<1>2. e \in S
  BY DEF S
<1>3. Append(s, e) \in Seq(S) /\ Len(Append(s, e)) = Len(s) + 1 /\ Append(s, e)[Len(s) + 1] = e
  BY <1>1, <1>2
<1>4. \A i \in 1..Len(s) : Append(s, e)[i] = s[i]
  BY <1>1, <1>2
<1>5. IsSeq(Append(s, e))
  BY <1>3, SequenceIs
<1> QED
  BY <1>3, <1>4, <1>5

LEMMA TailOf ==
    ASSUME NEW s, IsSeq(s), s # <<>>
    PROVE  /\ IsSeq(Tail(s)) /\ Len(s) > 0 /\ Len(Tail(s)) = Len(s) - 1
           /\ \A i \in 1..Len(Tail(s)) : i + 1 \in 1..Len(s) /\ Tail(s)[i] = s[i + 1]
           /\ Head(s) = s[1]
<1> DEFINE S == {s[i] : i \in 1..Len(s)}
<1>1. s \in Seq(S)
  BY DEF IsSeq
<1> HIDE DEF S
<1>2. Tail(s) \in Seq(S) /\ Len(s) > 0 /\ Len(Tail(s)) = Len(s) - 1 /\ Head(s) = s[1]
  BY <1>1
<1>3. \A i \in 1..Len(Tail(s)) : i + 1 \in 1..Len(s) /\ Tail(s)[i] = s[i + 1]
  BY <1>1, <1>2
<1>4. IsSeq(Tail(s))
  BY <1>2, SequenceIs
<1> QED
  BY <1>2, <1>3, <1>4

\* A command is sent by a request that then waits for it.
LEMMA WireAppended ==
    ASSUME WireFits, NEW j \in Jobs, job[j].mode \notin Waiting, job'[j].mode \in Waiting,
           \A i \in Jobs \ {j} : job'[i] = job[i],
           NEW x, wire' = Append(wire, [by |-> j, step |-> x, live |-> TRUE])
    PROVE  WireFits'
<1> DEFINE c == [by |-> j, step |-> x, live |-> TRUE]
<1>1. c.by = j /\ c.live = TRUE /\ IsMessage(c)
  BY DEF IsMessage, MessageFields
<1>2. wire' = Append(wire, c)
  OBVIOUS
<1> HIDE DEF c
<1>3. /\ IsSeq(wire') /\ Len(wire') = Len(wire) + 1 /\ wire'[Len(wire) + 1] = c
      /\ \A i \in 1..Len(wire) : wire'[i] = wire[i] /\ Len(wire) \in Nat
  BY <1>2, AppendedTo DEF WireFits
<1>4. Len(wire) \in Nat
  BY DEF WireFits, IsSeq
<1>5. \A i \in 1..Len(wire) : wire[i].live => wire[i].by # j
  BY DEF WireFits
<1>6. ASSUME NEW i \in 1..Len(wire')
      PROVE  /\ IsMessage(wire'[i]) /\ wire'[i].by \in Jobs
             /\ wire'[i].live \in BOOLEAN
             /\ wire'[i].live => job'[wire'[i].by].mode \in Waiting
  <2>1. CASE i = Len(wire) + 1
    BY <1>1, <1>3, <2>1
  <2>2. CASE i \in 1..Len(wire)
    <3>1. wire'[i] = wire[i]
      BY <1>3, <2>2
    <3>2. wire[i].live => job'[wire[i].by] = job[wire[i].by]
      BY <1>5, <2>2 DEF WireFits
    <3>3. /\ IsMessage(wire[i]) /\ wire[i].by \in Jobs
          /\ wire[i].live \in BOOLEAN /\ (wire[i].live => job[wire[i].by].mode \in Waiting)
      BY <2>2 DEF WireFits
    <3> QED
      BY <3>1, <3>2, <3>3
  <2>3. i = Len(wire) + 1 \/ i \in 1..Len(wire)
    BY <1>3, <1>4
  <2> QED
    BY ONLY <2>1, <2>2, <2>3, Zenon
<1>7. ASSUME NEW i \in 1..Len(wire'), NEW k \in 1..Len(wire'), wire'[i].live, wire'[k].live,
             wire'[i].by = wire'[k].by
      PROVE  i = k
  <2>1. i = Len(wire) + 1 \/ i \in 1..Len(wire)
    BY <1>3, <1>4
  <2>2. k = Len(wire) + 1 \/ k \in 1..Len(wire)
    BY <1>3, <1>4
  <2> QED
    BY <1>1, <1>3, <1>5, <1>7, <2>1, <2>2 DEF WireFits
<1> QED
  BY <1>3, <1>6, <1>7 DEF WireFits

-----------------------------------------------------------------------------
(* The steps.                                                              *)

LEMMA JobFits ==
    ASSUME JobsInv, NEW j \in Jobs
    PROVE  /\ doc \in Nat \ {0} /\ Fits(job[j], doc, granted)
           /\ IsJob(job[j]) /\ job[j].kind \in Kinds /\ job[j].mode \in Modes
BY DEF JobsInv, Fits

\* Request j becomes q, and nothing is sent.
LEMMA BecomesKeeps ==
    ASSUME JobsInv, NEW j \in Jobs, NEW q, Becomes(j, q), Fits(q, doc, granted),
           job[j].mode \in Waiting => q.mode \in Waiting, doc' = doc, granted' = granted,
           wire' = wire \/ wire' = <<>>
    PROVE  JobsInv'
<1>1. /\ job' = [i \in Jobs |-> job'[i]] /\ job'[j] = q
      /\ \A i \in Jobs \ {j} : job'[i] = job[i]
  BY DEF JobsInv, Becomes
<1>2. WireFits'
  BY <1>1, WireKept DEF JobsInv
<1>3. \A i \in Jobs : Fits(job'[i], doc', granted')
  BY <1>1 DEF JobsInv
<1> QED
  BY <1>1, <1>2, <1>3 DEF JobsInv

\* The outcomes of a step that request j is at.
LEMMA StepEnds ==
    ASSUME JobsInv, NEW j \in Jobs, job[j].mode \in {"run", "wait"}
    PROVE  /\ Fits(Failed(job[j]), doc, granted)
           /\ \A q : SameCore(job[j], q) => Fits(Failed(q), doc, granted)
           /\ job[j].pc <= Len(Steps[job[j].kind]) =>
                \A q : Learns(job[j], q, doc, granted) => Fits(After(q), doc, granted)
           /\ job[j].pc <= Len(Steps[job[j].kind])
              /\ Here(job[j]).op \notin {"pin", "access", "stay"} =>
                \A q : SameCore(job[j], q) => Fits(After(q), doc, granted)
<1> DEFINE r == job[j]
<1>0. /\ doc \in Nat \ {0} /\ Fits(r, doc, granted) /\ IsJob(r) /\ r.kind \in Kinds
      /\ r.answer # "ok" /\ (r.answer # None => Races(r.kind))
  BY JobFits DEF Fits
<1> HIDE DEF r
<1>1. ASSUME NEW q, SameCore(r, q) PROVE Fits(Failed(q), doc, granted)
  BY <1>0, <1>1, FailedFits DEF SameCore
<1>2. ASSUME NEW q, r.pc <= Len(Steps[r.kind]), Learns(r, q, doc, granted)
      PROVE  Fits(After(q), doc, granted)
  BY <1>0, <1>2, AfterFits DEF r
<1>3. ASSUME NEW q, r.pc <= Len(Steps[r.kind]), SameCore(r, q),
             Here(r).op \notin {"pin", "access", "stay"}
      PROVE  Fits(After(q), doc, granted)
  BY <1>0, <1>2, <1>3, CoreFits
<1>4. Fits(Failed(r), doc, granted)
  BY <1>0, <1>1, CoreKept
<1> QED
  BY <1>1, <1>2, <1>3, <1>4 DEF r

LEMMA BeginKeeps == ASSUME JobsInv, NEW j \in Jobs, Begin(j) PROVE JobsInv'
<1> DEFINE r == job[j]
           q == [r EXCEPT !.mode = "run", !.want = IF @ = 0 THEN 0 ELSE doc]
<1>0. /\ doc \in Nat \ {0} /\ Fits(r, doc, granted) /\ IsJob(r) /\ r.mode = "new"
      /\ Becomes(j, q) /\ doc' = doc /\ granted' = granted /\ wire' = wire
  BY JobFits DEF Begin, chrome
<1>1. /\ IsJob(q) /\ q.kind = r.kind /\ q.pc = r.pc /\ q.pin = r.pin /\ q.reads = r.reads
      /\ q.answer = r.answer /\ q.mode = "run" /\ r.pin = 0
  BY <1>0 DEF IsJob, JobFields, Fits
<1> HIDE DEF q, r
<1>2. Pinned(r, doc, granted) => Pinned(q, doc, granted)
  BY <1>1 DEF Pinned, Clean, Ending
<1>3. Fits(q, doc, granted)
  BY <1>0, <1>1, <1>2 DEF Fits, Modes
<1> QED
  BY <1>0, <1>1, <1>3, BecomesKeeps DEF r, Waiting

LEMMA AbortKeeps == ASSUME JobsInv, NEW j \in Jobs, NEW why, Abort(j, why) PROVE JobsInv'
<1> DEFINE r == job[j]
           answer == IF Races(r.kind) /\ r.pc > 1 THEN "error" ELSE r.answer
           q == [r EXCEPT !.abort = why, !.answer = answer]
<1>0. /\ doc \in Nat \ {0} /\ Fits(r, doc, granted) /\ IsJob(r) /\ r.mode \notin {"new", "done"}
      /\ r.answer = None /\ doc' = doc /\ granted' = granted /\ wire' = wire
      /\ r.mode \in Modes
  BY JobFits DEF Abort, chrome
<1>1. Becomes(j, q)
  BY DEF Abort
<1>2. /\ IsJob(q) /\ q.kind = r.kind /\ q.pc = r.pc /\ q.want = r.want /\ q.pin = r.pin
      /\ q.reads = r.reads /\ q.mode = r.mode /\ q.answer = answer
  BY <1>0 DEF IsJob, JobFields
<1>3. q.answer # "ok" /\ (q.answer # None => Races(q.kind))
  BY <1>0, <1>2 DEF None
<1> HIDE DEF q, r, answer
<1>4. r.mode = "wait" => r.pc <= Len(Steps[r.kind]) /\ Here(r).op \in Commands
  BY <1>0 DEF Fits
<1>5. Fits(q, doc, granted)
  BY <1>0, <1>2, <1>3, <1>4, SameStepFits
<1> QED
  BY <1>0, <1>1, <1>2, <1>5, BecomesKeeps DEF r

\* resolveTab, assertPageAccess, resolveRootDocument, assertFreshDocument and other questions.
LEMMA AskKeeps == ASSUME JobsInv, NEW j \in Jobs, Ask(j) PROVE JobsInv'
<1> DEFINE r == job[j]
           op == Here(r).op
           q == Learned(r)
<1>0. /\ doc \in Nat \ {0} /\ Fits(r, doc, granted) /\ IsJob(r) /\ r.kind \in Kinds
      /\ r.mode = "run" /\ r.pc <= Len(Steps[r.kind])
      /\ op \in {"access", "pin", "stay", "call", "change", "query", "activated", "shoot", "watch"}
      /\ doc' = doc /\ granted' = granted /\ wire' = wire
  BY JobFits DEF Ask, At, chrome
<1>1. CASE Becomes(j, Failed(r))
  BY <1>0, <1>1, StepEnds, BecomesKeeps DEF Waiting
<1>2. CASE Answered(j, r) /\ Becomes(j, After(q))
  <2>1. /\ op = "access" => doc \in granted
        /\ op = "pin" => r.want \in {0, doc}
        /\ op = "stay" => r.pin = doc
    BY <1>2 DEF Answered
  <2>2. /\ IsJob(q) /\ q.kind = r.kind /\ q.pc = r.pc /\ q.want = r.want /\ q.answer = r.answer
        /\ op = "pin" => q.pin = doc
        /\ op # "pin" => q.pin = r.pin
        /\ op # "shoot" => q.reads = r.reads
    <3>1. CASE op = "pin"
      BY <1>0, <3>1 DEF Learned, IsJob, JobFields
    <3>2. CASE op = "watch"
      BY <1>0, <3>2 DEF Learned, IsJob, JobFields
    <3>3. CASE op = "query"
      BY <1>0, <3>3 DEF Learned, IsJob, JobFields
    <3>4. CASE op = "shoot"
      BY <1>0, <3>4 DEF Learned, IsJob, JobFields
    <3>5. CASE op \notin {"pin", "watch", "query", "shoot"}
      BY <1>0, <3>5 DEF Learned
    <3> QED
      BY <3>1, <3>2, <3>3, <3>4, <3>5
  <2> HIDE DEF q
  <2>3. r.pc > 0 /\ r.pc \in Nat
    BY <1>0 DEF Fits
  <2>4. r.kind \in Pinning => op # "shoot"
    <3> SUFFICES ASSUME r.kind \in Pinning, op = "shoot" PROVE FALSE
      OBVIOUS
    <3>1. r.pc \in Places(r.kind, {"shoot"})
      BY <1>0, <2>3, PlaceOfStep
    <3> QED
      BY <1>0, <3>1, ProgramsAssumption
  <2>5. Learns(r, q, doc, granted)
    BY <2>1, <2>2, <2>4 DEF Learns
  <2> QED
    BY <1>0, <1>2, <2>5, StepEnds, BecomesKeeps DEF Waiting
<1> QED
  BY <1>1, <1>2 DEF Ask

\* chrome.tabs.update of a viewport capture.
LEMMA ActivateKeeps == ASSUME JobsInv, NEW j \in Jobs, Activate(j) PROVE JobsInv'
<1> DEFINE r == job[j]
           q == Push(r, Do("restore", r.original))
           n == [r EXCEPT !.pc = @ + 1]
<1>0. /\ doc \in Nat \ {0} /\ Fits(r, doc, granted) /\ IsJob(r)
      /\ r.mode = "run" /\ r.pc <= Len(Steps[r.kind]) /\ Here(r).op = "activate"
      /\ doc' = doc /\ granted' = granted /\ wire' = wire
      /\ Becomes(j, n) \/ Becomes(j, After(q))
  BY JobFits DEF Activate, At, chrome
<1>1. CASE Becomes(j, After(q))
  <2>1. SameCore(r, q)
    BY <1>0, CoreKept
  <2>2. Fits(After(q), doc, granted)
    BY <1>0, <2>1, StepEnds
  <2> QED
    BY <1>0, <1>1, <2>2, BecomesKeeps DEF Waiting
<1>2. CASE Becomes(j, n)
  <2>1. Learns(r, r, doc, granted)
    BY <1>0, CoreKept, CoreFits
  <2>2. n = [r EXCEPT !.pc = @ + 1, !.mode = "run"]
    BY <1>0 DEF IsJob, JobFields
  <2>3. Fits(n, doc, granted)
    BY <1>0, <2>1, <2>2, AfterFits
  <2> QED
    BY <1>0, <1>2, <2>3, BecomesKeeps DEF Waiting
<1> QED
  BY <1>0, <1>1, <1>2

\* serializeTab and withCaptureLock.
LEMMA EnterKeeps == ASSUME JobsInv, NEW j \in Jobs, Enter(j) PROVE JobsInv'
<1> DEFINE r == After(job[j])
<1>0. /\ doc \in Nat \ {0} /\ Fits(job[j], doc, granted) /\ IsJob(job[j])
      /\ job[j].mode = "run" /\ job[j].pc <= Len(Steps[job[j].kind]) /\ Here(job[j]).op = "lock"
      /\ doc' = doc /\ granted' = granted /\ wire' = wire
      /\ \/ Becomes(j, r)
         \/ r.mode = "run" /\ Here(r).op = "disown" /\ Becomes(j, Disowned(r))
  BY JobFits DEF Enter, At, chrome
<1>1. Fits(r, doc, granted)
  BY <1>0, StepEnds, CoreKept
<1> HIDE DEF r
<1>2. CASE Becomes(j, r)
  BY <1>0, <1>1, <1>2, BecomesKeeps DEF Waiting
<1>3. CASE r.mode = "run" /\ Here(r).op = "disown" /\ Becomes(j, Disowned(r))
  <2>1. Fits(Disowned(r), doc, granted)
    BY <1>0, <1>1, <1>3, DisownedFits
  <2> QED
    BY <1>0, <1>3, <2>1, BecomesKeeps DEF Waiting
<1> QED
  BY <1>0, <1>2, <1>3

\* A session that ends takes its commands with it.
LEMMA SessionWire == ASSUME NEW who, LeaveSession(who) PROVE wire' = wire \/ wire' = <<>>
BY DEF LeaveSession, chrome

\* Leases: acquire, release, and the state of emulation.js.
LEMMA LeaseKeeps ==
    ASSUME JobsInv, NEW j \in Jobs, AcquireLease(j) \/ ReleaseLease(j) \/ Adopt(j) \/ Commit(j)
    PROVE  JobsInv'
<1> DEFINE r == job[j]
           u == [r EXCEPT !.undo = ResetOperations \o <<Do("drop", None)>>]
           q == [After(r) EXCEPT !.undo = <<>>]
<1>0. /\ doc \in Nat \ {0} /\ Fits(r, doc, granted) /\ IsJob(r)
      /\ r.mode = "run" /\ r.pc <= Len(Steps[r.kind])
      /\ Here(r).op \in {"acquire", "release", "adopt", "commit"}
      /\ doc' = doc /\ granted' = granted /\ (wire' = wire \/ wire' = <<>>)
  BY JobFits, SessionWire DEF AcquireLease, ReleaseLease, Adopt, Commit, At, chrome
<1>1. Becomes(j, After(r)) \/ Becomes(j, Failed(r)) \/ Becomes(j, After(u)) \/ Becomes(j, q)
  BY DEF AcquireLease, ReleaseLease, Adopt, Commit
<1>2. Fits(Failed(r), doc, granted) /\ Fits(After(r), doc, granted)
  BY <1>0, StepEnds, CoreKept
<1>3. Fits(After(u), doc, granted)
  <2>1. SameCore(r, u)
    BY <1>0, CoreKept
  <2> QED
    BY <1>0, <2>1, StepEnds
<1>4. Fits(q, doc, granted)
  <2>1. IsJob(After(r))
    BY <1>2 DEF Fits
  <2>2. SameCore(After(r), q)
    BY <2>1, CoreKept
  <2> QED
    BY <1>0, <1>2, <2>2, CoreFits
<1> HIDE DEF u, q
<1> QED
  BY <1>0, <1>1, <1>2, <1>3, <1>4, BecomesKeeps DEF Waiting

\* Request j becomes q, which waits for the command that it sent.
LEMMA SendsKeeps ==
    ASSUME JobsInv, NEW j \in Jobs, NEW q, Becomes(j, q), Fits(q, doc, granted),
           job[j].mode \notin Waiting, q.mode \in Waiting, doc' = doc, granted' = granted,
           NEW x, wire' = Append(wire, [by |-> j, step |-> x, live |-> TRUE])
    PROVE  JobsInv'
<1>1. /\ job' = [i \in Jobs |-> job'[i]] /\ job'[j] = q
      /\ \A i \in Jobs \ {j} : job'[i] = job[i]
  BY DEF JobsInv, Becomes
<1>2. WireFits'
  BY <1>1, WireAppended DEF JobsInv
<1>3. \A i \in Jobs : Fits(job'[i], doc', granted')
  BY <1>1 DEF JobsInv
<1> QED
  BY <1>1, <1>2, <1>3 DEF JobsInv

\* lease.sendCommand.
LEMMA SendKeeps == ASSUME JobsInv, NEW j \in Jobs, Send(j) PROVE JobsInv'
<1> DEFINE step == Here(job[j])
           r == IF step.op = "evaluate" THEN Push(job[j], Off(step.arg)) ELSE job[j]
           o == Without(r, step.arg)
           q == [r EXCEPT !.mode = "wait"]
<1>0. /\ doc \in Nat \ {0} /\ Fits(job[j], doc, granted) /\ IsJob(job[j])
      /\ job[j].mode = "run" /\ job[j].pc <= Len(Steps[job[j].kind]) /\ step.op \in Commands
      /\ doc' = doc /\ granted' = granted
  BY JobFits DEF Send, At
<1>1. \/ wire' = wire /\ (Becomes(j, After(o)) \/ Becomes(j, Failed(r)))
      \/ Becomes(j, q) /\ wire' = Append(wire, [by |-> j, step |-> step, live |-> TRUE])
  BY DEF Send
<1>2. SameCore(job[j], r) /\ IsJob(r)
  <2>1. SameCore(job[j], Push(job[j], Off(step.arg))) /\ SameCore(job[j], job[j])
    BY <1>0, CoreKept
  <2> QED
    BY <2>1 DEF SameCore
<1> HIDE DEF r
<1>3. SameCore(job[j], o)
  <2>1. SameCore(r, o)
    BY <1>2, CoreKept
  <2> QED
    BY <1>2, <2>1 DEF SameCore
<1> HIDE DEF o
<1>4. Fits(Failed(r), doc, granted) /\ Fits(After(o), doc, granted)
  <2>1. step.op \notin {"pin", "access", "stay"}
    BY <1>0 DEF Commands, BestEffort
  <2> QED
    BY <1>0, <1>2, <1>3, <2>1, StepEnds
<1>5. Fits(q, doc, granted) /\ q.mode = "wait"
  <2>1. /\ IsJob(q) /\ q.kind = r.kind /\ q.pc = r.pc /\ q.want = r.want /\ q.pin = r.pin
        /\ q.reads = r.reads /\ q.answer = r.answer /\ q.mode = "wait"
    BY <1>2 DEF IsJob, JobFields
  <2> HIDE DEF q
  <2>2. q.answer # "ok" /\ (q.answer # None => Races(q.kind))
    BY <1>0, <1>2, <2>1 DEF SameCore, Fits
  <2>3. /\ q.kind = job[j].kind /\ q.pc = job[j].pc /\ q.want = job[j].want /\ q.pin = job[j].pin
        /\ q.reads = job[j].reads
        /\ q.mode \in Modes \ {"new"} /\ q.mode \notin Ending
    BY <1>2, <2>1 DEF SameCore, Modes, Ending
  <2> QED
    BY <1>0, <2>1, <2>2, <2>3, SameStepFits
<1> HIDE DEF q, step
<1>6. CASE wire' = wire /\ (Becomes(j, After(o)) \/ Becomes(j, Failed(r)))
  BY <1>0, <1>4, <1>6, BecomesKeeps DEF Waiting
<1>7. CASE Becomes(j, q) /\ wire' = Append(wire, [by |-> j, step |-> step, live |-> TRUE])
  BY <1>0, <1>5, <1>7, SendsKeeps DEF Waiting
<1> QED
  BY <1>1, <1>6, <1>7

\* The signal rejects the wait; the command is nobody's.
LEMMA AbandonKeeps == ASSUME JobsInv, NEW j \in Jobs, Abandon(j) PROVE JobsInv'
<1>0. /\ doc \in Nat \ {0} /\ job[j].mode = "wait" /\ Becomes(j, Failed(job[j]))
      /\ doc' = doc /\ granted' = granted /\ WireFits
      /\ wire' = [i \in 1..Len(wire) |-> IF wire[i].by = j THEN [wire[i] EXCEPT !.live = FALSE]
                                                            ELSE wire[i]]
  BY DEF Abandon, JobsInv
<1>1. /\ job' = [i \in Jobs |-> job'[i]] /\ job'[j] = Failed(job[j])
      /\ \A i \in Jobs \ {j} : job'[i] = job[i]
  BY <1>0 DEF JobsInv, Becomes
<1>2. Fits(Failed(job[j]), doc, granted)
  BY <1>0, StepEnds
<1>3. \A i \in Jobs : Fits(job'[i], doc', granted')
  BY <1>0, <1>1, <1>2 DEF JobsInv
<1>4. Len(wire) \in Nat
  BY <1>0 DEF WireFits, IsSeq
<1>5. IsSeq(wire') /\ Len(wire') = Len(wire)
  BY <1>0, <1>4 DEF IsSeq
<1>6. ASSUME NEW i \in 1..Len(wire)
      PROVE  /\ IsMessage(wire'[i]) /\ wire'[i].by = wire[i].by /\ wire'[i].by \in Jobs
             /\ wire'[i].live \in BOOLEAN
             /\ wire'[i].live => wire[i].live /\ wire[i].by # j
  <2>1. IsMessage(wire[i]) /\ wire[i].by \in Jobs /\ wire[i].live \in BOOLEAN
    BY <1>0 DEF WireFits
  <2>2. CASE wire[i].by = j
    <3>1. wire'[i] = [wire[i] EXCEPT !.live = FALSE]
      BY <1>0, <2>2
    <3> QED
      BY <2>1, <2>2, <3>1 DEF IsMessage, MessageFields
  <2>3. CASE wire[i].by # j
    <3>1. wire'[i] = wire[i]
      BY <1>0, <2>3
    <3> QED
      BY <2>1, <2>3, <3>1
  <2> QED
    BY <2>2, <2>3
<1>7. ASSUME NEW i \in 1..Len(wire), wire'[i].live PROVE job'[wire'[i].by].mode \in Waiting
  <2>1. wire[i].live /\ wire[i].by \in Jobs \ {j} /\ wire'[i].by = wire[i].by
    BY <1>6, <1>7
  <2> QED
    BY <1>0, <1>1, <2>1 DEF WireFits
<1>8. ASSUME NEW i \in 1..Len(wire), NEW k \in 1..Len(wire), wire'[i].live, wire'[k].live,
             wire'[i].by = wire'[k].by
      PROVE  i = k
  <2>1. wire[i].live /\ wire[k].live /\ wire[i].by = wire[k].by
    BY <1>6, <1>8
  <2> QED
    BY <1>0, <2>1 DEF WireFits
<1>9. WireFits'
  BY <1>5, <1>6, <1>7, <1>8 DEF WireFits
<1> QED
  BY <1>0, <1>1, <1>3, <1>9 DEF JobsInv

\* Pauses and events.
LEMMA ListenKeeps == ASSUME JobsInv, NEW j \in Jobs, Listen(j) PROVE JobsInv'
<1> DEFINE r == job[j]
           q == Push(r, Do("closeStream", None))
           p == [r EXCEPT !.reads = @ \cup {doc}]
<1>0. /\ doc \in Nat \ {0} /\ Fits(r, doc, granted) /\ IsJob(r)
      /\ r.mode = "run" /\ r.pc <= Len(Steps[r.kind])
      /\ Here(r).op \in {"completed", "navigated", "pause"}
      /\ doc' = doc /\ granted' = granted /\ wire' = wire
  BY JobFits DEF Listen, At, chrome
<1>1. \/ Becomes(j, Failed(r)) \/ Becomes(j, After(q)) \/ Becomes(j, After(r))
      \/ Here(r).op = "pause" /\ Becomes(j, After(p))
  <2>1. CASE Here(r).op = "completed"
    BY <2>1 DEF Listen
  <2>2. CASE Here(r).op = "navigated"
    BY <2>2 DEF Listen
  <2>3. CASE Here(r).op = "pause"
    BY <2>3 DEF Listen
  <2> QED
    BY <1>0, <2>1, <2>2, <2>3
<1>2. SameCore(r, q) /\ SameCore(r, r)
  BY <1>0, CoreKept
<1>2a. ASSUME Here(r).op = "pause" PROVE Fits(After(p), doc, granted)
  <2>1. /\ IsJob(p) /\ p.kind = r.kind /\ p.pc = r.pc /\ p.want = r.want /\ p.answer = r.answer
        /\ p.pin = r.pin /\ p.reads = r.reads \cup {doc}
    BY <1>0 DEF IsJob, JobFields
  <2> HIDE DEF p
  <2>2. Learns(r, p, doc, granted)
    BY <1>0, <1>2a, <2>1 DEF Learns, Fits
  <2> QED
    BY <1>0, <2>2, StepEnds
<1> HIDE DEF p, q
<1>3. Fits(Failed(r), doc, granted) /\ Fits(After(q), doc, granted) /\ Fits(After(r), doc, granted)
  BY <1>0, <1>2, StepEnds
<1> QED
  BY <1>0, <1>1, <1>2a, <1>3, BecomesKeeps DEF Waiting

\* A message to the content script of the pinned document.
LEMMA TalkKeeps == ASSUME JobsInv, NEW j \in Jobs, TalkToPage(j) PROVE JobsInv'
<1> DEFINE r == job[j]
           q == [r EXCEPT !.reads = @ \cup {doc}]
<1>0. /\ doc \in Nat \ {0} /\ Fits(r, doc, granted) /\ IsJob(r)
      /\ r.mode = "run" /\ r.pc <= Len(Steps[r.kind]) /\ Here(r).op \in {"page", "references"}
      /\ doc' = doc /\ granted' = granted /\ wire' = wire
      /\ \/ Becomes(j, Failed(r)) \/ Becomes(j, After(r))
         \/ doc = r.pin /\ doc \in granted /\ Becomes(j, After(q))
  BY JobFits DEF TalkToPage, At, chrome
<1>1. Fits(Failed(r), doc, granted) /\ Fits(After(r), doc, granted)
  BY <1>0, CoreKept, StepEnds
<1>2. ASSUME doc = r.pin, doc \in granted PROVE Fits(After(q), doc, granted)
  <2>1. /\ IsJob(q) /\ q.kind = r.kind /\ q.pc = r.pc /\ q.want = r.want /\ q.answer = r.answer
        /\ q.pin = r.pin /\ q.reads = r.reads \cup {doc}
    BY <1>0 DEF IsJob, JobFields
  <2> HIDE DEF q
  <2>2. Learns(r, q, doc, granted)
    BY <1>0, <1>2, <2>1 DEF Learns, Fits
  <2> QED
    BY <1>0, <2>2, StepEnds
<1> HIDE DEF q
<1> QED
  BY <1>0, <1>1, <1>2, BecomesKeeps DEF Waiting

\* A request that unwinds stays at the end of its program, whatever it has to undo.
LEMMA UnwindingFits ==
    ASSUME NEW d \in Nat \ {0}, NEW sites, NEW r, Fits(r, d, sites),
           \/ r.mode \in {"undo", "undoing"}
           \/ r.mode = "run" /\ r.pc > Len(Steps[r.kind])
    PROVE  /\ Fits(Popped(r), d, sites) /\ Popped(r).mode = "undo"
           /\ Fits([r EXCEPT !.mode = "undoing"], d, sites)
           /\ [r EXCEPT !.mode = "undoing"].mode = "undoing"
           /\ \A answer : Fits([r EXCEPT !.mode = "done", !.abort = "no", !.seen = None,
                                         !.answer = answer], d, sites)
<1>0. IsJob(r) /\ r.answer # "ok" /\ (r.answer # None => Races(r.kind))
  BY DEF Fits
<1>1. ASSUME NEW q, IsJob(q), q.kind = r.kind, q.pc = r.pc, q.want = r.want, q.pin = r.pin,
             q.reads = r.reads, q.mode \in Ending,
             q.mode = "done" \/ q.answer = r.answer
      PROVE  Fits(q, d, sites)
  <2>1. q.mode \in Modes \ {"new"} /\ q.mode # "wait"
    BY <1>1 DEF Modes, Ending
  <2>2. r.mode \in Ending \/ r.pc > Len(Steps[r.kind])
    BY DEF Ending
  <2> QED
    BY <1>0, <1>1, <2>1, <2>2, SameStepFits
<1>2. Fits(Popped(r), d, sites) /\ Popped(r).mode = "undo"
  <2> DEFINE q == Popped(r)
  <2>1. /\ IsJob(q) /\ q.kind = r.kind /\ q.pc = r.pc /\ q.want = r.want /\ q.pin = r.pin
        /\ q.reads = r.reads /\ q.mode = "undo" /\ q.answer = r.answer
    BY <1>0 DEF IsJob, JobFields, Popped
  <2> HIDE DEF q
  <2>2. Fits(q, d, sites)
    BY <1>1, <2>1 DEF Ending
  <2> QED
    BY <2>1, <2>2 DEF q
<1>3. /\ Fits([r EXCEPT !.mode = "undoing"], d, sites)
      /\ [r EXCEPT !.mode = "undoing"].mode = "undoing"
  <2> DEFINE q == [r EXCEPT !.mode = "undoing"]
  <2>1. /\ IsJob(q) /\ q.kind = r.kind /\ q.pc = r.pc /\ q.want = r.want /\ q.pin = r.pin
        /\ q.reads = r.reads /\ q.mode = "undoing" /\ q.answer = r.answer
    BY <1>0 DEF IsJob, JobFields
  <2> HIDE DEF q
  <2>2. Fits(q, d, sites)
    BY <1>1, <2>1 DEF Ending
  <2> QED
    BY <2>1, <2>2 DEF q
<1>4. ASSUME NEW answer
      PROVE  Fits([r EXCEPT !.mode = "done", !.abort = "no", !.seen = None, !.answer = answer],
                  d, sites)
  <2> DEFINE q == [r EXCEPT !.mode = "done", !.abort = "no", !.seen = None, !.answer = answer]
  <2>1. /\ IsJob(q) /\ q.kind = r.kind /\ q.pc = r.pc /\ q.want = r.want /\ q.pin = r.pin
        /\ q.reads = r.reads /\ q.mode = "done"
    BY <1>0 DEF IsJob, JobFields
  <2> HIDE DEF q
  <2>2. Fits(q, d, sites)
    BY <1>1, <2>1 DEF Ending
  <2> QED
    BY <2>2 DEF q
<1> QED
  BY <1>2, <1>3, <1>4

\* The finally blocks.
LEMMA UndoKeeps == ASSUME JobsInv, NEW j \in Jobs, Undo(j) PROVE JobsInv'
<1> DEFINE r == job[j]
           step == Head(r.undo)
           q == [r EXCEPT !.mode = "undoing"]
<1>0. /\ doc \in Nat \ {0} /\ Fits(r, doc, granted) /\ doc' = doc /\ granted' = granted
      /\ r.mode = "undo" \/ (r.mode = "run" /\ r.pc > Len(Steps[r.kind]))
  BY JobFits DEF Undo, Unwinding
<1>1. \/ Becomes(j, Popped(r)) /\ (wire' = wire \/ wire' = <<>>)
      \/ Becomes(j, q) /\ wire' = Append(wire, [by |-> j, step |-> step, live |-> TRUE])
  <2>1. CASE step.op = "restore"
    BY <2>1 DEF Undo, chrome
  <2>2. CASE step.op = "drop"
    BY <2>2, SessionWire DEF Undo
  <2>3. CASE step.op \notin {"restore", "drop"}
    BY <2>3 DEF Undo
  <2> QED
    BY <2>1, <2>2, <2>3
<1>2. Fits(Popped(r), doc, granted) /\ Fits(q, doc, granted) /\ q.mode = "undoing"
  BY <1>0, UnwindingFits
<1> HIDE DEF q, step
<1>3. CASE Becomes(j, Popped(r)) /\ (wire' = wire \/ wire' = <<>>)
  BY <1>0, <1>2, <1>3, BecomesKeeps DEF Waiting
<1>4. CASE Becomes(j, q) /\ wire' = Append(wire, [by |-> j, step |-> step, live |-> TRUE])
  BY <1>0, <1>2, <1>4, SendsKeeps DEF Waiting
<1> QED
  BY <1>1, <1>3, <1>4

\* The answer.
LEMMA FinishKeeps == ASSUME JobsInv, NEW j \in Jobs, Finish(j) PROVE JobsInv'
<1> DEFINE r == job[j]
           answer == IF r.answer # None THEN r.answer
                     ELSE IF r.failed \/ r.abort = "cancel" THEN "error" ELSE "ok"
           q == [r EXCEPT !.mode = "done", !.abort = "no", !.seen = None, !.answer = answer]
<1>0. /\ doc \in Nat \ {0} /\ Fits(r, doc, granted) /\ IsJob(r) /\ doc' = doc /\ granted' = granted
      /\ r.mode = "undo" \/ (r.mode = "run" /\ r.pc > Len(Steps[r.kind]))
      /\ wire' = wire \/ wire' = <<>>
  BY JobFits, SessionWire DEF Finish, Unwinding
<1>1. Becomes(j, q)
  BY <1>0 DEF Finish, IsJob, JobFields
<1> HIDE DEF answer
<1>2. Fits(q, doc, granted)
  BY <1>0, UnwindingFits
<1> HIDE DEF q
<1> QED
  BY <1>0, <1>1, <1>2, BecomesKeeps DEF Waiting

\* Time goes on for a record.
LEMMA NextDocumentFits ==
    ASSUME NEW d \in Nat \ {0}, NEW sites, NEW r, Fits(r, d, sites) PROVE Fits(r, d + 1, sites)
<1>1. Pinned(r, d, sites) => Pinned(r, d + 1, sites)
  BY DEF Pinned
<1> QED
  BY <1>1 DEF Fits

\* All records keep their core: events that requests see.
LEMMA SeenKeeps ==
    ASSUME JobsInv, job' = [j \in Jobs |-> job'[j]], \A j \in Jobs : SameCore(job[j], job'[j]),
           doc' = doc \/ doc' = doc + 1, granted' = granted, wire' = wire
    PROVE  JobsInv'
<1>1. \A j \in Jobs : Fits(job'[j], doc, granted)
  BY CoreFits DEF JobsInv
<1>2. \A j \in Jobs : Fits(job'[j], doc', granted')
  BY <1>1, NextDocumentFits DEF JobsInv
<1>3. WireFits'
  BY WireKept DEF JobsInv, SameCore
<1> QED
  BY <1>2, <1>3 DEF JobsInv

LEMMA CompleteKeeps == ASSUME JobsInv, Complete PROVE JobsInv'
<1>1. \A j \in Jobs : SameCore(job[j], job'[j])
  BY JobFits, CoreKept DEF Complete
<1> QED
  BY <1>1, SeenKeeps DEF Complete

LEMMA NavigateKeeps == ASSUME JobsInv, Navigate PROVE JobsInv'
<1>1. \A j \in Jobs : SameCore(job[j], job'[j])
  BY JobFits, CoreKept DEF Navigate
<1> QED
  BY <1>1, SeenKeeps DEF Navigate, chrome

\* A user's detach takes the wire, and ends the waits.
LEMMA DetachKeeps == ASSUME JobsInv, Detach PROVE JobsInv'
<1>0. /\ wire' = <<>> /\ doc' = doc /\ granted' = granted /\ doc \in Nat \ {0}
      /\ job' = [j \in Jobs |-> CASE job[j].mode = "wait" -> Failed(job[j])
                                  [] job[j].mode = "undoing" -> Popped(job[j])
                                  [] OTHER -> job[j]]
  BY DEF Detach, LeaveSession, JobsInv
<1>1. WireFits'
  BY <1>0 DEF WireFits, IsSeq
<1>2. ASSUME NEW j \in Jobs PROVE Fits(job'[j], doc, granted)
  <2>0. Fits(job[j], doc, granted)
    BY JobFits
  <2>1. CASE job[j].mode = "wait"
    BY <1>0, <2>1, StepEnds
  <2>2. CASE job[j].mode = "undoing"
    BY <1>0, <2>0, <2>2, UnwindingFits
  <2>3. CASE job[j].mode \notin Waiting
    BY <1>0, <2>0, <2>3 DEF Waiting
  <2> QED
    BY <2>1, <2>2, <2>3 DEF Waiting
<1> QED
  BY <1>0, <1>1, <1>2 DEF JobsInv

\* What a request makes of the result of its command.
LEMMA ReturnedFits ==
    ASSUME JobsInv, NEW j \in Jobs, job[j].mode = "wait" PROVE Fits(Returned(job[j]), doc, granted)
<1> DEFINE r == job[j]
           op == Here(r).op
<1>0. /\ doc \in Nat \ {0} /\ Fits(r, doc, granted) /\ IsJob(r)
      /\ r.pc <= Len(Steps[r.kind]) /\ op \in Commands
  BY JobFits DEF Fits
<1>1. op \notin {"pin", "access", "stay"}
  BY <1>0 DEF Commands, BestEffort
<1>2. CASE op \in {"read", "take", "evaluate"}
  <2> DEFINE q == [r EXCEPT !.reads = @ \cup {doc}]
  <2>1. Returned(r) = After(q)
    BY <1>2 DEF Returned
  <2>2. /\ IsJob(q) /\ q.kind = r.kind /\ q.pc = r.pc /\ q.want = r.want /\ q.answer = r.answer
        /\ q.pin = r.pin /\ q.reads = r.reads \cup {doc}
    BY <1>0 DEF IsJob, JobFields
  <2> HIDE DEF q
  <2>3. Learns(r, q, doc, granted)
    BY <1>0, <1>2, <2>2 DEF Learns, Fits
  <2> QED
    BY <1>0, <2>1, <2>3, StepEnds
<1>3. CASE op \notin {"read", "take", "evaluate"}
  <2>1. \/ Returned(r) = After(Push(r, Off(Here(r).arg)))
        \/ Returned(r) = After(Without(r, Here(r).arg)) \/ Returned(r) = After(r)
    BY <1>3 DEF Returned
  <2>2. \A x : SameCore(r, Push(r, x)) /\ SameCore(r, Without(r, x)) /\ SameCore(r, r)
    BY <1>0, CoreKept
  <2>3. \A q : SameCore(r, q) => Fits(After(q), doc, granted)
    BY <1>0, <1>1, StepEnds
  <2> QED
    BY <2>1, <2>2, <2>3
<1> QED
  BY <1>2, <1>3

LEMMA ExecuteKeeps == ASSUME JobsInv, Execute PROVE JobsInv'
<1> DEFINE c == Head(wire)
           r == job[c.by]
<1>0. /\ wire # <<>> /\ wire' = Tail(wire) /\ WireFits /\ IsSeq(wire)
      /\ doc \in Nat \ {0} /\ doc' = doc /\ granted' = granted
      /\ job = [j \in Jobs |-> job[j]]
  BY DEF Execute, JobsInv, WireFits
<1>1. PICK ok \in BOOLEAN : Resume(c, ok)
  BY DEF Execute
<1>2. /\ IsSeq(wire') /\ Len(wire) > 0 /\ Len(wire') = Len(wire) - 1 /\ c = wire[1]
      /\ \A i \in 1..Len(wire') : i + 1 \in 1..Len(wire) /\ wire'[i] = wire[i + 1]
  BY <1>0, TailOf
<1>3. Len(wire) \in Nat /\ 1 \in 1..Len(wire)
  BY <1>0, <1>2 DEF IsSeq
<1>4. c.by \in Jobs /\ c.live \in BOOLEAN /\ (c.live => r.mode \in Waiting)
  BY <1>0, <1>2, <1>3 DEF WireFits
<1> DEFINE q == IF r.mode = "undoing" THEN Popped(r) ELSE IF ok THEN Returned(r) ELSE Failed(r)
<1>5. job' = IF ~c.live THEN job ELSE [job EXCEPT ![c.by] = q]
  BY <1>1 DEF Resume
<1>6. ASSUME c.live PROVE Fits(q, doc, granted)
  <2>1. CASE r.mode = "undoing"
    <3>1. Fits(r, doc, granted)
      BY <1>4, JobFits
    <3> QED
      BY <1>0, <2>1, <3>1, UnwindingFits
  <2>2. CASE r.mode = "wait"
    <3>1. Fits(Returned(r), doc, granted)
      BY <1>4, <2>2, ReturnedFits
    <3>2. Fits(Failed(r), doc, granted)
      BY <1>4, <2>2, StepEnds
    <3>3. q = Returned(r) \/ q = Failed(r)
      BY <2>2
    <3> HIDE DEF q
    <3> QED
      BY <3>1, <3>2, <3>3
  <2> QED
    BY <1>4, <1>6, <2>1, <2>2 DEF Waiting
<1> HIDE DEF q
<1>7. /\ job' = [j \in Jobs |-> job'[j]]
      /\ \A j \in Jobs : job'[j] = job[j] \/ (c.live /\ j = c.by /\ job'[j] = q)
  BY <1>0, <1>4, <1>5
<1>8. \A j \in Jobs : Fits(job'[j], doc', granted')
  BY <1>0, <1>6, <1>7 DEF JobsInv
<1> HIDE DEF c
<1>9. ASSUME NEW i \in 1..Len(wire')
      PROVE  /\ IsMessage(wire'[i]) /\ wire'[i].by \in Jobs /\ wire'[i].live \in BOOLEAN
             /\ wire'[i].live => job'[wire'[i].by].mode \in Waiting
  <2>1. i + 1 \in 1..Len(wire) /\ wire'[i] = wire[i + 1] /\ i + 1 # 1
    BY <1>2, <1>3
  <2>2. /\ IsMessage(wire[i + 1]) /\ wire[i + 1].by \in Jobs /\ wire[i + 1].live \in BOOLEAN
        /\ wire[i + 1].live => job[wire[i + 1].by].mode \in Waiting
    BY <1>0, <2>1 DEF WireFits
  <2>3. wire[i + 1].live /\ c.live => wire[i + 1].by # c.by
    BY <1>0, <1>2, <1>3, <2>1 DEF WireFits
  <2> QED
    BY <1>7, <2>1, <2>2, <2>3
<1>10. ASSUME NEW i \in 1..Len(wire'), NEW k \in 1..Len(wire'), wire'[i].live, wire'[k].live,
              wire'[i].by = wire'[k].by
       PROVE  i = k
  <2>1. i + 1 = k + 1
    BY <1>0, <1>2, <1>10 DEF WireFits
  <2> QED
    BY <2>1
<1>11. WireFits'
  BY <1>2, <1>9, <1>10 DEF WireFits
<1> QED
  BY <1>0, <1>7, <1>8, <1>11 DEF JobsInv

-----------------------------------------------------------------------------
(* The invariant, and the properties it gives.                             *)

LEMMA InitKeeps == Init => JobsInv
<1> SUFFICES ASSUME Init PROVE JobsInv
  OBVIOUS
<1>1. PICK w \in Workloads :
         job = [j \in Jobs |->
                [kind |-> w.run[j], mode |-> IF w.run[j] = None THEN "done" ELSE "new",
                 pc |-> 1, abort |-> "no", failed |-> FALSE,
                 answer |-> IF w.run[j] = None THEN "ok" ELSE None,
                 want |-> IF w.named THEN 1 ELSE 0, pin |-> 0, reads |-> {}, undo |-> <<>>,
                 seen |-> None, original |-> "user"]]
  BY DEF Init
<1>2. ASSUME NEW j \in Jobs PROVE Fits(job[j], doc, granted)
  <2> DEFINE r == job[j]
  <2>1. /\ IsJob(r) /\ r.kind = w.run[j] /\ r.pc = 1 /\ r.pin = 0 /\ r.reads = {}
        /\ \/ r.kind = None /\ r.mode = "done" /\ r.answer = "ok"
           \/ r.kind # None /\ r.mode = "new" /\ r.answer = None
    BY <1>1 DEF IsJob, JobFields
  <2> HIDE DEF r
  <2>2. r.kind \in Kinds /\ (r.kind \in Pinning => r.kind # None)
    BY <2>1 DEF Kinds, Pinning
  <2>3. doc = 1
    BY DEF Init
  <2>4. r.kind \in Pinning => Pinned(r, doc, granted)
    <3> SUFFICES ASSUME r.kind \in Pinning PROVE Pinned(r, doc, granted)
      OBVIOUS
    <3>1. r.mode \notin Ending
      BY <2>1, <2>2 DEF Ending
    <3>2. Clean(r, granted)
      BY <2>1 DEF Clean
    <3>3. \A p \in Places(r.kind, {"pin"}), a \in Places(r.kind, {"access"}) : p \in Nat /\ a \in Nat
      BY <2>2, PlacesAreNumbers
    <3> QED
      BY <2>1, <2>3, <3>1, <3>2, <3>3 DEF Pinned
  <2>5. /\ r.pc \in Nat \ {0} /\ r.mode \in Modes /\ (r.mode = "new" => r.pin = 0) /\ r.mode # "wait"
    BY <2>1 DEF Modes
  <2>6. (r.answer = "ok" => r.mode = "done") /\ (r.answer # None => r.mode = "done")
    BY <2>1 DEF None
  <2>7. Fits(r, doc, granted)
    BY <2>1, <2>2, <2>4, <2>5, <2>6 DEF Fits
  <2> QED
    BY <2>7 DEF r
<1>3. WireFits
  BY DEF Init, WireFits, IsSeq
<1> QED
  BY <1>1, <1>2, <1>3 DEF JobsInv, Init

LEMMA NextKeeps == JobsInv /\ [Next]_vars => JobsInv'
<1> SUFFICES ASSUME JobsInv, [Next]_vars PROVE JobsInv'
  OBVIOUS
<1>1. ASSUME NEW j \in Jobs, HandlerStep(j) PROVE JobsInv'
  <2>1. CASE Join(j)
    BY <2>1 DEF Join, chrome, JobsInv, WireFits
  <2> QED
    BY <1>1, <2>1, AskKeeps, ActivateKeeps, EnterKeeps, LeaseKeeps, SendKeeps, AbandonKeeps,
       ListenKeeps, TalkKeeps, UndoKeeps, FinishKeeps DEF HandlerStep
<1>2. ASSUME NEW j \in Jobs, Begin(j) \/ Cancel(j) \/ Timeout(j) PROVE JobsInv'
  BY <1>2, BeginKeeps, AbortKeeps DEF Cancel, Timeout
<1>3. CASE UNCHANGED vars
  BY <1>3 DEF vars, JobsInv, WireFits
<1> QED
  BY <1>1, <1>2, <1>3, ExecuteKeeps, CompleteKeeps, NavigateKeeps, DetachKeeps DEF Next

\* The invariant of the requests, for every workload whose handlers recheck what they read.
THEOREM JobsInvariant == Spec => []JobsInv
BY InitKeeps, NextKeeps, PTL DEF Spec

\* A request that succeeds has read only the document that it pinned, which is the named one, on an
\* accessible site: no navigation between two awaits of a handler goes unnoticed.
THEOREM ResultsAreOfPinned == Spec => []ResultFromPinnedDocument
<1>1. ASSUME JobsInv PROVE ResultFromPinnedDocument
  <2> SUFFICES ASSUME NEW j \in Jobs, job[j].answer = "ok", job[j].kind \in Pinning
               PROVE  /\ job[j].reads \subseteq {job[j].pin}
                      /\ job[j].want # 0 /\ job[j].pin # 0 => job[j].pin = job[j].want
                      /\ job[j].reads # {} => job[j].pin \in granted
    BY DEF ResultFromPinnedDocument
  <2>1. /\ Pinned(job[j], doc, granted) /\ job[j].mode = "done" /\ job[j].kind \in Kinds
        /\ job[j].pc \in Nat
    BY <1>1, JobFits DEF Fits
  <2>2. job[j].pc > Len(Steps[job[j].kind])
    BY <2>1 DEF Pinned, Ending
  <2>3. \A s \in Confirming(job[j].kind) : s \in Nat /\ s <= Len(Steps[job[j].kind])
    BY <2>1, PlacesAreNumbers DEF Confirming
  <2>4. Clean(job[j], granted)
    BY <2>1, <2>2, <2>3, ProgramsAssumption DEF Pinned
  <2> QED
    BY <2>1, <2>4 DEF Pinned, Clean
<1> QED
  BY <1>1, JobsInvariant, PTL

-----------------------------------------------------------------------------
(* What the finally blocks undo.                                           *)

\* The steps on a finally block's list.
Listed(s) == {s[k] : k \in 1..Len(s)}
Restores(s) == \E u \in Listed(s) : u.op = "restore"

\* A step that a finally block makes for a handler.
Tidied(kind, u) ==
    /\ u.op \in {"off", "closeStream", "reset", "drop", "restore"}
    /\ u.op = "off" => u = Off(u.arg) /\ u.arg # None /\ Enables(kind)
    /\ u.op = "restore" => u.arg = "user" /\ Places(kind, {"activate"}) # {}

\* The list is of what the steps before top opened and did not close, the last first.
Opened(kind, top, s) ==
    \E f \in [1..Len(s) -> Nat] :
       /\ \A k \in 1..Len(s) :
            /\ f[k] \in Opens(kind) /\ f[k] < top /\ ~Closed(kind, f[k], top)
            /\ s[k].arg = Steps[kind][f[k]].arg
       /\ \A i, k \in 1..Len(s) : i < k => f[k] < f[i]

\* Only the first in the window's queue has a tab to restore; first says whether the request is.
Kept(kind, s, first) ==
    IsSeq(s) /\ (\A u \in Listed(s) : Tidied(kind, u)) /\ (Restores(s) => first)

\* What is true of the list, and of the turn, of a handler that has come to top.
InPlace(kind, s, top, first) ==
    /\ Enables(kind) => Opened(kind, top, s)
    /\ Restores(s) => \E a \in Places(kind, {"activate"}) : a < top
    /\ \A l \in Places(kind, {"lock"}) : l < top /\ Steps[kind][l].arg = "window" => first

\* An evaluation is on the list before it is sent.
Top(r) == IF r.mode = "wait" /\ Here(r).op = "evaluate" THEN r.pc + 1 ELSE r.pc

Tidy(r, first) ==
    /\ r.original = "user" /\ Kept(r.kind, r.undo, first)
    /\ r.mode \in {"new", "done"} => r.undo = <<>>
    /\ r.mode = "new" => r.pc = 1
    /\ r.mode = "undoing" => r.undo # <<>> /\ Head(r.undo).op \notin {"restore", "drop"}
    /\ r.mode \in {"run", "wait"} /\ r.pc <= Len(Steps[r.kind]) =>
          InPlace(r.kind, r.undo, Top(r), first)
    /\ r.mode = "wait" /\ Here(r).op = "evaluate" => Off(Here(r).arg) \in Listed(r.undo)

\* A command that someone waits for is the step of the handler, or the first on the list of its
\* finally block; its lease is not given up.
Meant(c) ==
    /\ job[c.by].mode = "wait" => c.step = Here(job[c.by])
    /\ job[c.by].mode = "undoing" => c.step = Head(job[c.by].undo)
    /\ c.step.op \notin {"set", "reset"} => c.by \in holders
Sent == \A i \in 1..Len(wire) : wire[i].live => Meant(wire[i])

\* What is enabled, and not lost, is on the list of a consumer.
Listing == \A x \in on \ lost : \E i \in Jobs : i \in holders /\ Off(x) \in Listed(job[i].undo)

\* Another tab than the user's is active only during a capture that restores it.
Activity == active = "user" \/ \E j \in Jobs : First(j, "window") /\ Restores(job[j].undo)

Queues == turn = [q \in {"tab", "window"} |-> turn[q]] /\ \A q \in {"tab", "window"} : IsSeq(turn[q])

RestInv ==
    /\ \A j \in Jobs : Tidy(job[j], First(j, "window"))
    /\ Sent /\ Listing /\ Activity /\ Queues

\* A list with a step put before it.
LEMMA PrependedTo ==
    ASSUME NEW s, IsSeq(s), NEW e
    PROVE  /\ IsSeq(<<e>> \o s) /\ Len(<<e>> \o s) = Len(s) + 1
           /\ (<<e>> \o s)[1] = e /\ \A i \in 1..Len(s) : (<<e>> \o s)[i + 1] = s[i]
           /\ Listed(<<e>> \o s) = Listed(s) \cup {e}
<1> DEFINE S == {s[i] : i \in 1..Len(s)} \cup {e}
           t == <<e>> \o s
<1>1. s \in Seq(S) /\ Len(s) \in Nat
  BY DEF IsSeq
<1> HIDE DEF S
<1>2. e \in S
  BY DEF S
<1>3. t \in Seq(S) /\ Len(t) = Len(s) + 1 /\ t[1] = e /\ \A i \in 1..Len(s) : t[i + 1] = s[i]
  BY <1>1, <1>2
<1>4. IsSeq(t)
  BY <1>3, SequenceIs
<1> HIDE DEF t
<1>5. Listed(t) = Listed(s) \cup {e}
  <2>1. ASSUME NEW k \in 1..Len(t) PROVE t[k] \in Listed(s) \cup {e}
    <3>1. k = 1 \/ (k - 1 \in 1..Len(s) /\ t[k] = s[k - 1])
      BY <1>1, <1>3
    <3> QED
      BY <1>3, <3>1 DEF Listed
  <2>2. ASSUME NEW k \in 1..Len(s) PROVE s[k] \in Listed(t)
    BY <1>1, <1>3, k + 1 \in 1..Len(t) DEF Listed
  <2>3. e \in Listed(t)
    BY <1>1, <1>3, 1 \in 1..Len(t) DEF Listed
  <2> QED
    BY <2>1, <2>2, <2>3 DEF Listed
<1> QED
  BY <1>3, <1>4, <1>5 DEF t

\* A list without its first step.
LEMMA PoppedFrom ==
    ASSUME NEW s, IsSeq(s), s # <<>>
    PROVE  /\ Listed(Tail(s)) \subseteq Listed(s) /\ Listed(s) \subseteq Listed(Tail(s)) \cup {Head(s)}
           /\ Head(s) \in Listed(s)
<1>1. /\ Len(s) > 0 /\ Len(Tail(s)) = Len(s) - 1 /\ Head(s) = s[1] /\ Len(s) \in Nat
      /\ \A i \in 1..Len(Tail(s)) : i + 1 \in 1..Len(s) /\ Tail(s)[i] = s[i + 1]
  BY TailOf DEF IsSeq
<1>2. ASSUME NEW k \in 1..Len(s) PROVE s[k] \in Listed(Tail(s)) \cup {Head(s)}
  <2>1. k = 1 \/ k - 1 \in 1..Len(Tail(s))
    BY <1>1
  <2>2. k - 1 \in 1..Len(Tail(s)) => Tail(s)[k - 1] = s[k]
    BY <1>1
  <2> QED
    BY <1>1, <2>1, <2>2 DEF Listed
<1>3. ASSUME NEW k \in 1..Len(Tail(s)) PROVE Tail(s)[k] \in Listed(s)
  BY <1>1, <1>3 DEF Listed
<1>4. Head(s) \in Listed(s)
  BY <1>1, 1 \in 1..Len(s) DEF Listed
<1> QED
  BY <1>2, <1>3, <1>4 DEF Listed

LEMMA NothingListed == IsSeq(<<>>) /\ Listed(<<>>) = {} /\ ~Restores(<<>>)
BY DEF IsSeq, Listed, Restores

\* What is kept of a list when a step is put before it, and when the first is taken from it.
LEMMA KeptPush ==
    ASSUME NEW kind, NEW s, NEW first, Kept(kind, s, first), NEW u, Tidied(kind, u),
           u.op = "restore" => first
    PROVE  Kept(kind, <<u>> \o s, first)
BY PrependedTo DEF Kept, Restores

LEMMA KeptPop ==
    ASSUME NEW kind, NEW s, NEW first, Kept(kind, s, first), s # <<>>
    PROVE  Kept(kind, Tail(s), first) /\ (Restores(Tail(s)) => Restores(s))
BY PoppedFrom, TailOf DEF Kept, Restores

-----------------------------------------------------------------------------
(* The list as the handler goes on.                                        *)

LEMMA OpensAreNumbers ==
    ASSUME NEW kind \in Kinds
    PROVE  /\ \A p \in Opens(kind) : p \in Nat /\ p > 0 /\ p <= Len(Steps[kind])
           /\ \A c \in Closes(kind) : c \in Nat /\ c > 0 /\ c <= Len(Steps[kind])
BY PlacesAreNumbers DEF Opens, Closes

\* With nothing on the list.
LEMMA NothingOpened == ASSUME NEW kind \in Kinds, NEW top PROVE Opened(kind, top, <<>>)
<1> DEFINE f == [k \in 1..Len(<<>>) |-> 0]
<1>1. f \in [1..Len(<<>>) -> Nat] /\ 1..Len(<<>>) = {}
  OBVIOUS
<1> HIDE DEF f
<1> QED
  BY <1>1 DEF Opened

\* A step that closes nothing leaves what is open so.
LEMMA StaysOpened ==
    ASSUME NEW kind \in Kinds, NEW top \in Nat, NEW s, Opened(kind, top, s), top \notin Closes(kind)
    PROVE  Opened(kind, top + 1, s)
<1>1. PICK f \in [1..Len(s) -> Nat] :
         /\ \A k \in 1..Len(s) :
              /\ f[k] \in Opens(kind) /\ f[k] < top /\ ~Closed(kind, f[k], top)
              /\ s[k].arg = Steps[kind][f[k]].arg
         /\ \A i, k \in 1..Len(s) : i < k => f[k] < f[i]
  BY DEF Opened
<1>2. ASSUME NEW p \in Nat, ~Closed(kind, p, top) PROVE ~Closed(kind, p, top + 1)
  BY <1>2, OpensAreNumbers DEF Closed
<1>3. \A k \in 1..Len(s) : f[k] \in Nat /\ f[k] < top + 1 /\ ~Closed(kind, f[k], top + 1)
  BY <1>1, <1>2
<1> QED
  BY <1>1, <1>3 DEF Opened

\* A step that opens something comes after all that is open.
LEMMA PushOpens ==
    ASSUME NEW kind \in Kinds, NEW top \in Nat, NEW s, IsSeq(s), Opened(kind, top, s),
           top \in Opens(kind), NEW u, u.arg = Steps[kind][top].arg
    PROVE  Opened(kind, top + 1, <<u>> \o s)
<1>1. PICK f \in [1..Len(s) -> Nat] :
         /\ \A k \in 1..Len(s) :
              /\ f[k] \in Opens(kind) /\ f[k] < top /\ ~Closed(kind, f[k], top)
              /\ s[k].arg = Steps[kind][f[k]].arg
         /\ \A i, k \in 1..Len(s) : i < k => f[k] < f[i]
  BY DEF Opened
<1> DEFINE t == <<u>> \o s
           g == [k \in 1..Len(t) |-> IF k = 1 THEN top ELSE f[k - 1]]
<1>2. /\ Len(t) = Len(s) + 1 /\ t[1] = u /\ \A i \in 1..Len(s) : t[i + 1] = s[i]
      /\ Len(s) \in Nat
  BY PrependedTo DEF IsSeq
<1> HIDE DEF t
<1>3. \A k \in 1..Len(t) : k = 1 \/ (k - 1 \in 1..Len(s) /\ t[k] = s[k - 1])
  BY <1>2
<1>4. g[1] = top /\ \A k \in 1..Len(t) : k # 1 => g[k] = f[k - 1]
  BY <1>2
<1>5. g \in [1..Len(t) -> Nat]
  BY <1>1, <1>3
<1> HIDE DEF g
<1>6. top \notin Closes(kind)
  BY DEF Opens, Closes, Places
<1>7. ASSUME NEW p \in Nat, ~Closed(kind, p, top) PROVE ~Closed(kind, p, top + 1)
  BY <1>6, <1>7, OpensAreNumbers DEF Closed
<1>8. ~Closed(kind, top, top + 1)
  BY OpensAreNumbers DEF Closed
<1>9. ASSUME NEW k \in 1..Len(t)
      PROVE  /\ g[k] \in Opens(kind) /\ g[k] < top + 1 /\ ~Closed(kind, g[k], top + 1)
             /\ t[k].arg = Steps[kind][g[k]].arg
  <2>1. CASE k = 1
    BY <1>2, <1>4, <1>8, <2>1
  <2>2. CASE k # 1
    <3>1. k - 1 \in 1..Len(s) /\ t[k] = s[k - 1] /\ g[k] = f[k - 1]
      BY <1>3, <1>4, <2>2
    <3>2. f[k - 1] \in Nat /\ ~Closed(kind, f[k - 1], top + 1)
      BY <1>1, <1>7, <3>1
    <3> QED
      BY <1>1, <3>1, <3>2
  <2> QED
    BY <2>1, <2>2
<1>10. ASSUME NEW i \in 1..Len(t), NEW k \in 1..Len(t), i < k PROVE g[k] < g[i]
  <2>1. k - 1 \in 1..Len(s) /\ g[k] = f[k - 1]
    BY <1>3, <1>4, <1>10
  <2>2. CASE i = 1
    BY <1>1, <1>4, <2>1, <2>2
  <2>3. CASE i # 1
    <3>1. i - 1 \in 1..Len(s) /\ g[i] = f[i - 1] /\ i - 1 < k - 1
      BY <1>2, <1>3, <1>4, <1>10, <2>3
    <3> QED
      BY <1>1, <2>1, <3>1
  <2> QED
    BY <2>2, <2>3
<1> QED
  BY <1>5, <1>9, <1>10 DEF Opened, t

\* A step that closes something finds it first on the list, if it is there.
LEMMA TailCloses ==
    ASSUME NEW kind \in Kinds, NEW top \in Nat, NEW s, IsSeq(s), Opened(kind, top, s),
           top \in Closes(kind)
    PROVE  LET arg == Steps[kind][top].arg
           IN  Opened(kind, top + 1, IF s # <<>> /\ Head(s).arg = arg THEN Tail(s) ELSE s)
<1> DEFINE arg == Steps[kind][top].arg
<1>1. PICK f \in [1..Len(s) -> Nat] :
         /\ \A k \in 1..Len(s) :
              /\ f[k] \in Opens(kind) /\ f[k] < top /\ ~Closed(kind, f[k], top)
              /\ s[k].arg = Steps[kind][f[k]].arg
         /\ \A i, k \in 1..Len(s) : i < k => f[k] < f[i]
  BY DEF Opened
<1>2. Len(s) \in Nat
  BY DEF IsSeq
<1>3. ASSUME NEW k \in 1..Len(s), k # 1 PROVE s[k].arg # arg
  <2>1. 1 \in 1..Len(s) /\ 1 < k
    BY <1>2, <1>3
  <2>2. f[1] \in Opens(kind) /\ f[k] \in Opens(kind) /\ f[k] < f[1] /\ f[1] < top
    BY <1>1, <2>1
  <2>3. ~Closed(kind, f[1], top)
    BY <1>1, <2>1
  <2>4. Steps[kind][f[k]].arg # Steps[kind][top].arg
    BY <2>2, <2>3, FinallyAssumption
  <2> QED
    BY <1>1, <2>4
<1>4. ASSUME NEW p \in Nat, ~Closed(kind, p, top), Steps[kind][p].arg # arg
      PROVE  ~Closed(kind, p, top + 1)
  BY <1>4, OpensAreNumbers DEF Closed
<1>5. CASE s # <<>> /\ Head(s).arg = arg
  <2> DEFINE t == Tail(s)
             g == [k \in 1..Len(t) |-> f[k + 1]]
  <2>1. /\ Len(t) = Len(s) - 1 /\ Len(s) > 0
        /\ \A i \in 1..Len(t) : i + 1 \in 1..Len(s) /\ t[i] = s[i + 1]
    BY <1>5, TailOf
  <2> HIDE DEF t
  <2>2. \A k \in 1..Len(t) : g[k] = f[k + 1] /\ k + 1 \in 1..Len(s) /\ k + 1 # 1 /\ t[k] = s[k + 1]
    BY <1>2, <2>1
  <2>3. g \in [1..Len(t) -> Nat]
    BY <1>1, <2>1
  <2> HIDE DEF g
  <2>4. ASSUME NEW k \in 1..Len(t)
        PROVE  /\ g[k] \in Opens(kind) /\ g[k] < top + 1 /\ ~Closed(kind, g[k], top + 1)
               /\ t[k].arg = Steps[kind][g[k]].arg
    <3>1. g[k] = f[k + 1] /\ k + 1 \in 1..Len(s) /\ t[k] = s[k + 1] /\ s[k + 1].arg # arg
      BY <1>3, <2>2
    <3>2. /\ f[k + 1] \in Opens(kind) /\ f[k + 1] < top /\ ~Closed(kind, f[k + 1], top)
          /\ s[k + 1].arg = Steps[kind][f[k + 1]].arg /\ f[k + 1] \in Nat
      BY <1>1, <3>1
    <3> QED
      BY <1>4, <3>1, <3>2
  <2>5. ASSUME NEW i \in 1..Len(t), NEW k \in 1..Len(t), i < k PROVE g[k] < g[i]
    BY <1>1, <2>2, <2>5, i + 1 < k + 1
  <2>6. Opened(kind, top + 1, t)
    BY <2>3, <2>4, <2>5 DEF Opened
  <2> QED
    BY <1>5, <2>6 DEF t
<1>6. CASE ~(s # <<>> /\ Head(s).arg = arg)
  <2>1. ASSUME NEW k \in 1..Len(s) PROVE s[k].arg # arg
    <3>1. CASE k = 1
      <4>1. s # <<>>
        BY <1>2, <3>1
      <4>2. Head(s) = s[1]
        BY <4>1, TailOf
      <4> QED
        BY <1>6, <3>1, <4>1, <4>2
    <3> QED
      BY <1>3, <3>1
  <2>2. \A k \in 1..Len(s) : f[k] \in Nat /\ f[k] < top + 1 /\ ~Closed(kind, f[k], top + 1)
    BY <1>1, <1>4, <2>1
  <2>3. Opened(kind, top + 1, s)
    BY <1>1, <2>2 DEF Opened
  <2> QED
    BY <1>6, <2>3
<1> QED
  BY <1>5, <1>6

\* A handler that gives up its lease has nothing left on its list.
LEMMA NothingAtRelease ==
    ASSUME NEW kind \in Kinds, NEW top \in Places(kind, {"release"}), NEW s, IsSeq(s),
           Opened(kind, top, s)
    PROVE  s = <<>>
<1>1. PICK f \in [1..Len(s) -> Nat] :
         \A k \in 1..Len(s) : f[k] \in Opens(kind) /\ f[k] < top /\ ~Closed(kind, f[k], top)
  BY DEF Opened
<1>2. \A k \in 1..Len(s) : FALSE
  BY <1>1, FinallyAssumption
<1>3. Len(s) = 0
  <2>1. Len(s) \in Nat
    BY DEF IsSeq
  <2>2. 1 \notin 1..Len(s)
    BY <1>2
  <2> QED
    BY <2>1, <2>2
<1>4. s = [i \in 1..0 |-> s[i]] /\ <<>> = [i \in 1..0 |-> s[i]]
  BY <1>3 DEF IsSeq
<1> QED
  BY <1>4

-----------------------------------------------------------------------------
(* What a step makes of the list and the turn of a request.                *)

\* A step that closes nothing, and whose turn it is if it is one of the window's queue.
LEMMA Advances ==
    ASSUME NEW kind \in Kinds, NEW top \in Nat, NEW s, NEW first, InPlace(kind, s, top, first),
           top \notin Closes(kind),
           top \in Places(kind, {"lock"}) /\ Steps[kind][top].arg = "window" => first
    PROVE  InPlace(kind, s, top + 1, first)
<1>1. Enables(kind) => Opened(kind, top + 1, s)
  BY StaysOpened DEF InPlace
<1>2. \A l \in Places(kind, {"lock"}) : l \in Nat /\ (l < top + 1 => l < top \/ l = top)
  BY PlacesAreNumbers
<1>3. \A a \in Places(kind, {"activate"}) : a \in Nat /\ (a < top => a < top + 1)
  BY PlacesAreNumbers
<1> QED
  BY <1>1, <1>2, <1>3 DEF InPlace

\* A failure leaves the list to the finally blocks.
LEMMA FailedTidy ==
    ASSUME NEW r, IsJob(r), r.original = "user", NEW first, Kept(r.kind, r.undo, first)
    PROVE  /\ Tidy(Failed(r), first) /\ Failed(r).undo = r.undo
           /\ Failed(r).mode = "undo" /\ IsJob(Failed(r))
<1> DEFINE q == Failed(r)
<1>1. /\ IsJob(q) /\ q.kind = r.kind /\ q.undo = r.undo /\ q.original = r.original
      /\ q.mode = "undo"
  BY DEF Failed, IsJob, JobFields
<1> HIDE DEF q
<1>2. Tidy(q, first)
  BY <1>1 DEF Tidy
<1> QED
  BY <1>1, <1>2 DEF q

LEMMA AfterTidy ==
    ASSUME NEW r, IsJob(r), r.original = "user", NEW first, Kept(r.kind, r.undo, first),
           InPlace(r.kind, r.undo, r.pc + 1, first)
    PROVE  /\ Tidy(After(r), first) /\ After(r).undo = r.undo
           /\ After(r).mode \notin Waiting /\ IsJob(After(r))
<1> DEFINE q == [r EXCEPT !.pc = @ + 1, !.mode = "run"]
<1>1. /\ IsJob(q) /\ q.kind = r.kind /\ q.undo = r.undo /\ q.original = r.original
      /\ q.mode = "run" /\ q.pc = r.pc + 1
  BY DEF IsJob, JobFields
<1>2. After(r) = q \/ After(r) = Failed(r)
  BY DEF After
<1> HIDE DEF q
<1>3. Top(q) = r.pc + 1
  BY <1>1 DEF Top
<1>4. Tidy(q, first)
  BY <1>1, <1>3 DEF Tidy
<1>5. q.mode \notin Waiting /\ "undo" \notin Waiting
  BY <1>1 DEF Waiting
<1> QED
  BY <1>1, <1>2, <1>4, <1>5, FailedTidy

\* What the list and the turn depend on.
LEMMA SameTidy ==
    ASSUME NEW r, NEW first, Tidy(r, first), NEW q, q.kind = r.kind, q.mode = r.mode, q.pc = r.pc,
           q.undo = r.undo, q.original = r.original, NEW then, first => then
    PROVE  Tidy(q, then)
<1>1. Here(q) = Here(r) /\ Top(q) = Top(r)
  BY DEF Here, Top
<1>2. Kept(r.kind, r.undo, first) => Kept(r.kind, r.undo, then)
  BY DEF Kept
<1>3. \A top : InPlace(r.kind, r.undo, top, first) => InPlace(r.kind, r.undo, top, then)
  BY DEF InPlace
<1> QED
  BY <1>1, <1>2, <1>3 DEF Tidy

-----------------------------------------------------------------------------
(* The parts of the invariant, as one request takes a step.                *)

LEMMA OneChanges ==
    ASSUME JobsInv, NEW j \in Jobs, NEW q, Becomes(j, q)
    PROVE  job'[j] = q /\ \A i \in Jobs \ {j} : job'[i] = job[i]
BY DEF JobsInv, Becomes

LEMMA TidyKeeps ==
    ASSUME JobsInv, RestInv, NEW j \in Jobs, NEW q, Becomes(j, q), Tidy(q, First(j, "window")'),
           \A i \in Jobs \ {j} : First(i, "window") => First(i, "window")'
    PROVE  \A i \in Jobs : Tidy(job[i], First(i, "window"))'
<1> SUFFICES ASSUME NEW i \in Jobs PROVE Tidy(job'[i], First(i, "window")')
  BY DEF Tidy, Kept, InPlace, Top, Here
<1>1. CASE i = j
  BY <1>1, OneChanges
<1>2. CASE i # j
  <2>1. job'[i] = job[i] /\ Tidy(job[i], First(i, "window"))
    BY <1>2, OneChanges DEF RestInv
  <2> QED
    BY <1>2, <2>1, SameTidy
<1> QED
  BY <1>1, <1>2

\* The commands that are waited for stay what they mean while another request takes a step.
LEMMA SentKeeps ==
    ASSUME JobsInv, Sent, NEW j \in Jobs, NEW q, Becomes(j, q), job[j].mode \notin Waiting,
           wire' = wire \/ wire' = <<>>, holders \ {j, "emulation"} \subseteq holders'
    PROVE  Sent'
<1>1. CASE wire' = <<>>
  BY <1>1 DEF Sent
<1>2. CASE wire' = wire
  <2> SUFFICES ASSUME NEW i \in 1..Len(wire), wire[i].live PROVE Meant(wire[i])'
    BY <1>2 DEF Sent
  <2>1. wire[i].by \in Jobs /\ job[wire[i].by].mode \in Waiting /\ Meant(wire[i])
    BY DEF JobsInv, WireFits, Sent
  <2>2. wire[i].by # j /\ wire[i].by # "emulation" /\ wire'[i] = wire[i]
    BY <1>2, <2>1, JobsAssumption
  <2>3. job'[wire[i].by] = job[wire[i].by]
    BY <2>1, <2>2, OneChanges
  <2>4. wire[i].by \in holders => wire[i].by \in holders'
    BY <2>2
  <2> DEFINE b == wire[i].by
  <2> HIDE DEF b
  <2>5. Here(job'[wire'[i].by]) = Here(job[wire[i].by])
    BY <2>2, <2>3
  <2> QED
    BY <2>1, <2>2, <2>3, <2>4, <2>5 DEF Meant, Here
<1> QED
  BY <1>1, <1>2

LEMMA SendsMeant ==
    ASSUME JobsInv, Sent, NEW j \in Jobs, NEW q, Becomes(j, q), job[j].mode \notin Waiting,
           NEW x, wire' = Append(wire, [by |-> j, step |-> x, live |-> TRUE]),
           holders' = holders,
           q.mode = "wait" => x = Here(q),
           q.mode = "undoing" => x = Head(q.undo),
           x.op \notin {"set", "reset"} => j \in holders
    PROVE  Sent'
<1> DEFINE c == [by |-> j, step |-> x, live |-> TRUE]
<1>1. c.by = j /\ c.step = x
  OBVIOUS
<1>2. wire' = Append(wire, c)
  OBVIOUS
<1> HIDE DEF c
<1>3. /\ Len(wire') = Len(wire) + 1 /\ wire'[Len(wire) + 1] = c
      /\ \A i \in 1..Len(wire) : wire'[i] = wire[i]
  BY <1>2, AppendedTo DEF JobsInv, WireFits
<1>4. Len(wire) \in Nat
  BY DEF JobsInv, WireFits, IsSeq
<1>5. job'[j] = q /\ \A i \in Jobs \ {j} : job'[i] = job[i]
  BY OneChanges
<1> SUFFICES ASSUME NEW i \in 1..Len(wire'), wire'[i].live PROVE Meant(wire[i])'
  BY DEF Sent
<1>6. CASE i = Len(wire) + 1
  <2>1. wire'[i].by = j /\ wire'[i].step = x
    BY <1>1, <1>3, <1>6
  <2>2. Here(job'[wire'[i].by]) = Here(q)
    BY <1>5, <2>1
  <2> QED
    BY <1>5, <2>1, <2>2 DEF Meant, Here
<1>7. CASE i \in 1..Len(wire)
  <2>1. wire'[i] = wire[i] /\ wire[i].live
    BY <1>3, <1>7
  <2>2. wire[i].by \in Jobs /\ job[wire[i].by].mode \in Waiting /\ Meant(wire[i])
    BY <1>7, <2>1 DEF JobsInv, WireFits, Sent
  <2>3. job'[wire[i].by] = job[wire[i].by]
    BY <1>5, <2>2
  <2>4. Here(job'[wire'[i].by]) = Here(job[wire[i].by])
    BY <2>1, <2>3
  <2> QED
    BY <2>1, <2>2, <2>3, <2>4 DEF Meant, Here
<1> QED
  BY <1>3, <1>4, <1>6, <1>7

\* Everything stays listed, unless the session ends.
LEMMA ListingKeeps ==
    ASSUME JobsInv, Listing, NEW j \in Jobs, NEW q, Becomes(j, q),
           \/ on' = {}
           \/ /\ on' = on /\ lost' = lost
              /\ \A i \in Jobs \ {j} : i \in holders => i \in holders'
              /\ \A x \in on \ lost : j \in holders /\ Off(x) \in Listed(job[j].undo) =>
                    j \in holders' /\ Off(x) \in Listed(q.undo)
    PROVE  Listing'
<1>1. job'[j] = q /\ \A i \in Jobs \ {j} : job'[i] = job[i]
  BY OneChanges
<1> SUFFICES ASSUME NEW x \in on' \ lost'
             PROVE  \E i \in Jobs : i \in holders' /\ Off(x) \in Listed(job'[i].undo)
  BY DEF Listing, Off, Do, Listed
<1>2. x \in on \ lost
  OBVIOUS
<1>3. PICK i \in Jobs : i \in holders /\ Off(x) \in Listed(job[i].undo)
  BY <1>2 DEF Listing
<1>4. i \in holders' /\ Off(x) \in Listed(job'[i].undo)
  BY <1>1, <1>2, <1>3
<1> QED
  BY <1>4

\* Whoever has a tab to restore is still the first, and still has it.
LEMMA ActivityKeeps ==
    ASSUME JobsInv, Activity, NEW j \in Jobs, NEW q, Becomes(j, q), turn' = turn,
           \/ active' = active /\ (Restores(job[j].undo) => Restores(q.undo))
           \/ active' = "user"
           \/ First(j, "window") /\ Restores(q.undo)
    PROVE  Activity'
<1>1. job'[j] = q /\ \A i \in Jobs \ {j} : job'[i] = job[i]
  BY OneChanges
<1>2. \A i \in Jobs : First(i, "window")' <=> First(i, "window")
  BY DEF First
<1> SUFFICES ASSUME active' # "user"
             PROVE  \E i \in Jobs : First(i, "window")' /\ Restores(job'[i].undo)
  BY DEF Activity, Restores, Listed
<1>3. CASE First(j, "window") /\ Restores(q.undo)
  BY <1>1, <1>2, <1>3
<1>4. CASE active' = active /\ (Restores(job[j].undo) => Restores(q.undo))
  <2>1. PICK i \in Jobs : First(i, "window") /\ Restores(job[i].undo)
    BY <1>4 DEF Activity
  <2>2. First(i, "window")' /\ Restores(job'[i].undo)
    BY <1>1, <1>2, <1>4, <2>1
  <2> QED
    BY <2>2
<1> QED
  BY <1>3, <1>4

\* One request takes a step; no one's turn ends.
LEMMA OneKeeps ==
    ASSUME JobsInv, RestInv, NEW j \in Jobs, NEW q, Becomes(j, q), Tidy(q, First(j, "window")),
           turn' = turn, Sent',
           \/ on' = {}
           \/ /\ on' = on /\ lost' = lost
              /\ \A i \in Jobs \ {j} : i \in holders => i \in holders'
              /\ \A x \in on \ lost : j \in holders /\ Off(x) \in Listed(job[j].undo) =>
                    j \in holders' /\ Off(x) \in Listed(q.undo),
           \/ active' = active /\ (Restores(job[j].undo) => Restores(q.undo))
           \/ active' = "user"
           \/ First(j, "window") /\ Restores(q.undo)
    PROVE  RestInv'
<1>1. \A i \in Jobs : First(i, "window")' <=> First(i, "window")
  BY DEF First
<1>2. Tidy(q, First(j, "window")')
  BY <1>1, SameTidy
<1>3. \A i \in Jobs : Tidy(job[i], First(i, "window"))'
  BY <1>1, <1>2, TidyKeeps
<1>4. Listing'
  BY ListingKeeps DEF RestInv
<1>5. Activity'
  BY ActivityKeeps DEF RestInv
<1>6. Queues'
  BY DEF RestInv, Queues
<1> QED
  BY <1>3, <1>4, <1>5, <1>6 DEF RestInv

-----------------------------------------------------------------------------
(* The steps, and what they leave to the finally blocks.                   *)

LEMMA NotThere ==
    ASSUME NEW r, NEW ops, Here(r).op \notin ops PROVE r.pc \notin Places(r.kind, ops)
BY DEF Places, Here

LEMMA JobTidy ==
    ASSUME JobsInv, RestInv, NEW j \in Jobs
    PROVE  /\ Tidy(job[j], First(j, "window")) /\ IsJob(job[j]) /\ job[j].kind \in Kinds
           /\ job[j].pc \in Nat /\ job[j].pc > 0 /\ job[j].original = "user"
           /\ Kept(job[j].kind, job[j].undo, First(j, "window")) /\ IsSeq(job[j].undo)
           /\ \A u \in Listed(job[j].undo) : Tidied(job[j].kind, u)
<1>1. Tidy(job[j], First(j, "window"))
  BY DEF RestInv
<1>2. job[j].original = "user" /\ Kept(job[j].kind, job[j].undo, First(j, "window"))
  BY <1>1 DEF Tidy
<1>3. IsSeq(job[j].undo) /\ \A u \in Listed(job[j].undo) : Tidied(job[j].kind, u)
  BY <1>2 DEF Kept
<1>4. IsJob(job[j]) /\ job[j].kind \in Kinds /\ job[j].pc \in Nat /\ job[j].pc > 0
  BY DEF JobsInv, Fits
<1> QED
  BY <1>1, <1>2, <1>3, <1>4

\* A handler at one of its steps.
LEMMA RunningTidy ==
    ASSUME JobsInv, RestInv, NEW j \in Jobs, job[j].mode = "run",
           job[j].pc <= Len(Steps[job[j].kind])
    PROVE  InPlace(job[j].kind, job[j].undo, job[j].pc, First(j, "window"))
<1>1. Top(job[j]) = job[j].pc
  BY DEF Top
<1> QED
  BY <1>1, JobTidy DEF Tidy

\* A step that is none of a finally block, and takes no turn.
LEMMA PlainStep ==
    ASSUME JobsInv, RestInv, NEW j \in Jobs, job[j].mode = "run",
           job[j].pc <= Len(Steps[job[j].kind]),
           Here(job[j]).op \notin {"off", "close", "closeStream", "lock"},
           NEW q, IsJob(q), q.kind = job[j].kind, q.pc = job[j].pc, q.undo = job[j].undo,
           q.original = "user"
    PROVE  /\ Tidy(After(q), First(j, "window")) /\ After(q).undo = job[j].undo
           /\ Tidy(Failed(q), First(j, "window")) /\ Failed(q).undo = job[j].undo
<1> DEFINE first == First(j, "window")
<1>1. InPlace(q.kind, q.undo, q.pc, first)
  BY RunningTidy
<1>2. /\ job[j].pc \notin Closes(job[j].kind) /\ job[j].pc \notin Places(job[j].kind, {"lock"})
      /\ job[j].kind \in Kinds /\ job[j].pc \in Nat /\ Kept(job[j].kind, job[j].undo, first)
  BY NotThere, JobTidy DEF Closes
<1> HIDE DEF first
<1>3. InPlace(q.kind, q.undo, q.pc + 1, first)
  BY <1>1, <1>2, Advances
<1> QED
  BY <1>2, <1>3, AfterTidy, FailedTidy DEF first

\* A step that changes nothing but the request, and neither its list nor its turn.
LEMMA PlainKeeps ==
    ASSUME JobsInv, RestInv, NEW j \in Jobs, NEW q, Becomes(j, q), job[j].mode \notin Waiting,
           Tidy(q, First(j, "window")), q.undo = job[j].undo, turn' = turn, wire' = wire,
           on' = on, lost' = lost, active' = active, holders \subseteq holders'
    PROVE  RestInv'
<1>1. Sent'
  BY SentKeeps DEF RestInv
<1> QED
  BY <1>1, OneKeeps

LEMMA BeginRests == ASSUME JobsInv, RestInv, NEW j \in Jobs, Begin(j) PROVE RestInv'
<1> DEFINE r == job[j]
           q == [r EXCEPT !.mode = "run", !.want = IF @ = 0 THEN 0 ELSE doc]
           first == First(j, "window")
<1>0. /\ Becomes(j, q) /\ turn' = turn /\ wire' = wire /\ on' = on /\ lost' = lost
      /\ active' = active /\ holders' = holders /\ r.mode = "new"
  BY DEF Begin, chrome
<1>1. /\ IsJob(r) /\ r.pc = 1 /\ r.undo = <<>> /\ r.original = "user" /\ r.kind \in Kinds
      /\ Kept(r.kind, r.undo, first)
  BY <1>0, JobTidy DEF Tidy
<1>2. /\ q.kind = r.kind /\ q.mode = "run" /\ q.pc = 1 /\ q.undo = <<>> /\ q.original = "user"
  BY <1>1 DEF IsJob, JobFields
<1> HIDE DEF q, r, first
<1>3. InPlace(q.kind, q.undo, 1, first)
  <2>1. \A l \in Places(r.kind, {"lock"}) : l \in Nat /\ l > 0
    BY <1>1, PlacesAreNumbers
  <2> QED
    BY <1>1, <1>2, <2>1, NothingOpened, NothingListed DEF InPlace
<1>4. Top(q) = 1
  BY <1>2 DEF Top
<1>5. Tidy(q, first)
  BY <1>1, <1>2, <1>3, <1>4 DEF Tidy
<1>6. r.mode \notin Waiting
  BY <1>0 DEF Waiting
<1> QED
  BY <1>0, <1>1, <1>2, <1>5, <1>6, PlainKeeps DEF r, first

\* Signals and events change no list and no turn.
LEMMA SameRests ==
    ASSUME JobsInv, RestInv,
           \A j \in Jobs : /\ job'[j].kind = job[j].kind /\ job'[j].mode = job[j].mode
                           /\ job'[j].pc = job[j].pc /\ job'[j].undo = job[j].undo
                           /\ job'[j].original = job[j].original,
           turn' = turn, wire' = wire, on' = on, lost' = lost, active' = active, holders' = holders
    PROVE  RestInv'
<1>1. \A i \in Jobs : First(i, "window")' <=> First(i, "window")
  BY DEF First
<1>2. ASSUME NEW i \in Jobs PROVE Tidy(job[i], First(i, "window"))'
  <2>1. Tidy(job'[i], First(i, "window")')
    BY <1>1, SameTidy DEF RestInv
  <2> QED
    BY <2>1 DEF Tidy, Kept, InPlace, Top, Here
<1>3. Sent'
  <2> SUFFICES ASSUME NEW i \in 1..Len(wire), wire[i].live PROVE Meant(wire[i])'
    BY DEF Sent
  <2>1. wire[i].by \in Jobs /\ Meant(wire[i]) /\ wire'[i] = wire[i]
    BY DEF JobsInv, WireFits, RestInv, Sent
  <2>2. Here(job'[wire[i].by]) = Here(job[wire[i].by])
    BY <2>1 DEF Here
  <2> QED
    BY <2>1, <2>2 DEF Meant, Here
<1>4. Listing'
  BY DEF RestInv, Listing, Off, Do, Listed
<1>5. Activity'
  <2>1. \A i \in Jobs : Restores(job'[i].undo) <=> Restores(job[i].undo)
    OBVIOUS
  <2>2. Activity
    BY DEF RestInv
  <2> QED
    BY <1>1, <2>1, <2>2 DEF Activity, Restores, Listed
<1>6. Queues'
  BY DEF RestInv, Queues
<1> QED
  BY <1>2, <1>3, <1>4, <1>5, <1>6 DEF RestInv

LEMMA AbortRests == ASSUME JobsInv, RestInv, NEW j \in Jobs, NEW why, Abort(j, why) PROVE RestInv'
<1> DEFINE r == job[j]
           answer == IF Races(r.kind) /\ r.pc > 1 THEN "error" ELSE r.answer
           q == [r EXCEPT !.abort = why, !.answer = answer]
<1>1. /\ Becomes(j, q) /\ turn' = turn /\ wire' = wire /\ on' = on /\ lost' = lost
      /\ active' = active /\ holders' = holders
  BY DEF Abort, chrome
<1>2. /\ q.kind = r.kind /\ q.mode = r.mode /\ q.pc = r.pc /\ q.undo = r.undo
      /\ q.original = r.original
  BY JobTidy DEF IsJob, JobFields
<1> HIDE DEF q
<1>3. job'[j] = q /\ \A i \in Jobs \ {j} : job'[i] = job[i]
  BY <1>1, OneChanges
<1>4. \A i \in Jobs : /\ job'[i].kind = job[i].kind /\ job'[i].mode = job[i].mode
                      /\ job'[i].pc = job[i].pc /\ job'[i].undo = job[i].undo
                      /\ job'[i].original = job[i].original
  BY <1>2, <1>3
<1> QED
  BY <1>1, <1>4, SameRests

LEMMA SeenRests ==
    ASSUME JobsInv, RestInv, Complete \/ Navigate PROVE RestInv'
<1>1. ASSUME NEW i \in Jobs
      PROVE  /\ job'[i].kind = job[i].kind /\ job'[i].mode = job[i].mode
             /\ job'[i].pc = job[i].pc /\ job'[i].undo = job[i].undo
             /\ job'[i].original = job[i].original
  <2>1. \E x : job'[i] = [job[i] EXCEPT !.seen = x] \/ job'[i] = job[i]
    BY DEF Complete, Navigate
  <2> QED
    BY <2>1, JobTidy DEF IsJob, JobFields
<1> QED
  BY <1>1, SameRests DEF Complete, Navigate, chrome

\* Which tab is active is asked by the one whose turn it is, who has activated no other yet.
LEMMA QueriedIsUsers ==
    ASSUME JobsInv, RestInv, NEW j \in Jobs, job[j].mode = "run",
           job[j].pc <= Len(Steps[job[j].kind]), Here(job[j]).op = "query"
    PROVE  active = "user"
<1>1. /\ job[j].kind \in Kinds /\ job[j].pc \in Nat /\ job[j].pc > 0
      /\ job[j].pc \in Places(job[j].kind, {"query", "activate"})
      /\ job[j].pc \in Places(job[j].kind, {"query"})
  BY JobTidy, PlaceOfStep
<1>2. PICK l \in Places(job[j].kind, {"lock"}) :
         l < job[j].pc /\ Steps[job[j].kind][l].arg = "window"
  BY <1>1, FinallyAssumption
<1>3. First(j, "window")
  BY <1>2, RunningTidy DEF InPlace
<1>4. ~Restores(job[j].undo)
  <2>1. SUFFICES ASSUME Restores(job[j].undo) PROVE FALSE
    OBVIOUS
  <2>2. PICK a \in Places(job[j].kind, {"activate"}) : a < job[j].pc
    BY <2>1, RunningTidy DEF InPlace
  <2>3. job[j].pc < a /\ a \in Nat
    BY <1>1, FinallyAssumption, PlacesAreNumbers
  <2> QED
    BY <1>1, <2>2, <2>3
<1>5. \A i \in Jobs : First(i, "window") => i = j
  BY <1>3 DEF First
<1> QED
  BY <1>4, <1>5 DEF RestInv, Activity

LEMMA AskRests == ASSUME JobsInv, RestInv, NEW j \in Jobs, Ask(j) PROVE RestInv'
<1> DEFINE r == job[j]
           q == Learned(r)
<1>0. /\ turn' = turn /\ wire' = wire /\ on' = on /\ lost' = lost
      /\ active' = active /\ holders' = holders /\ r.mode = "run" /\ r.pc <= Len(Steps[r.kind])
      /\ Here(r).op \in {"access", "pin", "stay", "call", "change", "query", "activated", "shoot",
                         "watch"}
      /\ Becomes(j, After(q)) \/ Becomes(j, Failed(r))
  BY DEF Ask, At, chrome
<1>1. IsJob(r) /\ r.original = "user" /\ r.mode \notin Waiting
  BY <1>0, JobTidy DEF Waiting
<1>2. Here(r).op = "query" => active = "user"
  BY <1>0, QueriedIsUsers
<1>3. IsJob(q) /\ q.kind = r.kind /\ q.pc = r.pc /\ q.undo = r.undo /\ q.original = "user"
  <2>1. CASE Here(r).op = "query"
    <3>1. q = [r EXCEPT !.original = active]
      BY <2>1 DEF Learned
    <3> QED
      BY <1>1, <1>2, <2>1, <3>1 DEF IsJob, JobFields
  <2>2. CASE Here(r).op # "query"
    <3>1. \/ \E x : q = [r EXCEPT !.pin = x] \/ q = [r EXCEPT !.seen = x]
                   \/ q = [r EXCEPT !.reads = x]
          \/ q = r
      BY <2>2 DEF Learned
    <3> HIDE DEF q
    <3> QED
      BY <1>1, <3>1 DEF IsJob, JobFields
  <2> QED
    BY <2>1, <2>2
<1> HIDE DEF q
<1>4. /\ Tidy(After(q), First(j, "window")) /\ After(q).undo = r.undo
      /\ Tidy(Failed(r), First(j, "window")) /\ Failed(r).undo = r.undo
  BY <1>0, <1>1, <1>3, PlainStep
<1> QED
  BY <1>0, <1>1, <1>4, PlainKeeps

LEMMA ActivateRests == ASSUME JobsInv, RestInv, NEW j \in Jobs, Activate(j) PROVE RestInv'
<1> DEFINE r == job[j]
           first == First(j, "window")
           u == Do("restore", r.original)
           q == Push(r, u)
           n == [r EXCEPT !.pc = @ + 1]
<1>0. /\ turn' = turn /\ wire' = wire /\ on' = on /\ lost' = lost /\ holders' = holders
      /\ r.mode = "run" /\ r.pc <= Len(Steps[r.kind]) /\ Here(r).op = "activate"
      /\ (active' = active /\ Becomes(j, n)) \/ Becomes(j, After(q))
  BY DEF Activate, At, chrome
<1>1. /\ IsJob(r) /\ r.original = "user" /\ r.mode \notin Waiting /\ r.kind \in Kinds
      /\ r.pc \in Nat /\ r.pc > 0 /\ Kept(r.kind, r.undo, first) /\ IsSeq(r.undo)
      /\ InPlace(r.kind, r.undo, r.pc, first)
  BY <1>0, JobTidy, RunningTidy DEF Waiting
<1>2. r.pc \in Places(r.kind, {"activate"}) /\ r.pc \in Places(r.kind, {"query", "activate"})
  BY <1>0, <1>1, PlaceOfStep
<1>3. PICK l \in Places(r.kind, {"lock"}) : l < r.pc /\ Steps[r.kind][l].arg = "window"
  BY <1>1, <1>2, FinallyAssumption
<1>4. first /\ ~Enables(r.kind)
  BY <1>1, <1>2, <1>3, FinallyAssumption DEF InPlace, Enables, Opens, Places
<1>5. CASE active' = active /\ Becomes(j, n)
  <2>1. /\ n.kind = r.kind /\ n.pc = r.pc + 1 /\ n.undo = r.undo /\ n.original = "user"
        /\ n.mode = "run"
    BY <1>0, <1>1 DEF IsJob, JobFields
  <2> HIDE DEF n
  <2>2. InPlace(n.kind, n.undo, r.pc + 1, first)
    <3>1. r.pc \notin Closes(r.kind)
      BY <1>0, NotThere DEF Closes
    <3> QED
      BY <1>1, <1>4, <2>1, <3>1, Advances
  <2>3. Top(n) = r.pc + 1
    BY <2>1 DEF Top
  <2>4. Tidy(n, first)
    BY <1>1, <2>1, <2>2, <2>3 DEF Tidy
  <2> QED
    BY <1>0, <1>1, <1>5, <2>1, <2>4, PlainKeeps
<1>6. CASE Becomes(j, After(q))
  <2>1. u.op = "restore" /\ u.arg = "user"
    BY <1>1 DEF Do
  <2>2. IsJob(q) /\ q.kind = r.kind /\ q.pc = r.pc /\ q.undo = <<u>> \o r.undo /\ q.original = "user"
    BY <1>1 DEF Push, IsJob, JobFields
  <2> HIDE DEF q, u
  <2>3. Tidied(r.kind, u)
    BY <1>2, <2>1 DEF Tidied
  <2>4. Kept(q.kind, q.undo, first)
    BY <1>1, <1>4, <2>1, <2>2, <2>3, KeptPush
  <2>5. InPlace(q.kind, q.undo, q.pc + 1, first)
    BY <1>1, <1>2, <1>4, <2>2, r.pc < r.pc + 1 DEF InPlace
  <2>6. Tidy(After(q), first) /\ After(q).undo = q.undo
    BY <2>2, <2>4, <2>5, AfterTidy
  <2>7. Restores(q.undo) /\ Listed(r.undo) \subseteq Listed(q.undo)
    BY <1>1, <2>1, <2>2, PrependedTo DEF Restores
  <2>8. Sent'
    BY <1>0, <1>1, <1>6, SentKeeps DEF RestInv
  <2> HIDE DEF r, first
  <2> QED
    BY <1>0, <1>4, <1>6, <2>6, <2>7, <2>8, OneKeeps DEF r, first
<1> QED
  BY <1>0, <1>5, <1>6

\* A queue's end is nobody's turn.
LEMMA JoinRests == ASSUME JobsInv, RestInv, NEW j \in Jobs, Join(j) PROVE RestInv'
<1> DEFINE q == Here(job[j]).arg
<1>0. /\ turn' = [turn EXCEPT ![q] = Append(@, j)] /\ job' = job /\ wire' = wire /\ on' = on
      /\ lost' = lost /\ active' = active /\ holders' = holders
  BY DEF Join, chrome
<1>1. Queues
  BY DEF RestInv
<1> HIDE DEF q
<1>2. ASSUME NEW x \in {"tab", "window"}
      PROVE  /\ turn'[x] = IF x = q THEN Append(turn[x], j) ELSE turn[x]
             /\ IsSeq(turn'[x])
             /\ turn[x] # <<>> => turn'[x] # <<>> /\ Head(turn'[x]) = Head(turn[x])
  <2>1. turn'[x] = IF x = q THEN Append(turn[x], j) ELSE turn[x]
    BY <1>0, <1>1 DEF Queues
  <2>2. IsSeq(turn[x])
    BY <1>1 DEF Queues
  <2>3. /\ IsSeq(Append(turn[x], j)) /\ Len(Append(turn[x], j)) = Len(turn[x]) + 1
        /\ \A i \in 1..Len(turn[x]) : Append(turn[x], j)[i] = turn[x][i]
    BY <2>2, AppendedTo
  <2>4. ASSUME turn[x] # <<>>
        PROVE  Append(turn[x], j) # <<>> /\ Head(Append(turn[x], j)) = Head(turn[x])
    <3>1. Len(turn[x]) > 0 /\ Head(turn[x]) = turn[x][1] /\ Len(turn[x]) \in Nat
      BY <2>2, <2>4, TailOf DEF IsSeq
    <3>2. Append(turn[x], j) # <<>>
      BY <2>3, <3>1
    <3>3. Head(Append(turn[x], j)) = Append(turn[x], j)[1]
      BY <2>3, <3>2, TailOf
    <3> QED
      BY <2>3, <3>1, <3>2, <3>3
  <2> QED
    BY <2>1, <2>2, <2>3, <2>4
<1>3. \A i \in Jobs : First(i, "window") => First(i, "window")'
  BY <1>2 DEF First
<1>4. ASSUME NEW i \in Jobs PROVE Tidy(job[i], First(i, "window"))'
  <2>1. Tidy(job[i], First(i, "window")')
    BY <1>3, SameTidy DEF RestInv
  <2> QED
    BY <1>0, <2>1 DEF Tidy, Kept, InPlace, Top, Here
<1>5. Sent'
  BY <1>0 DEF RestInv, Sent, Meant, Here
<1>6. Listing'
  BY <1>0 DEF RestInv, Listing, Off, Do, Listed
<1>7. Activity'
  BY <1>0, <1>3 DEF RestInv, Activity, Restores, Listed
<1>8. Queues'
  <2>1. turn' = [x \in {"tab", "window"} |-> turn'[x]]
    BY <1>0, <1>1 DEF Queues
  <2> QED
    BY <1>2, <2>1 DEF Queues, IsSeq
<1> QED
  BY <1>4, <1>5, <1>6, <1>7, <1>8 DEF RestInv

\* A handler that enables nothing has nothing to turn off, and one that activates no tab none to
\* restore.
LEMMA NothingToTidy ==
    ASSUME NEW kind, NEW s, \A u \in Listed(s) : Tidied(kind, u)
    PROVE  /\ ~Enables(kind) => \A x : Off(x) \notin Listed(s)
           /\ Places(kind, {"activate"}) = {} => ~Restores(s)
BY DEF Tidied, Off, Do, Restores

\* The list of such a handler can be any other.
LEMMA OtherList ==
    ASSUME NEW kind, NEW s, NEW top, NEW first, InPlace(kind, s, top, first), ~Enables(kind),
           NEW t, ~Restores(t)
    PROVE  InPlace(kind, t, top, first)
BY DEF InPlace

\* The handlers of emulation.js.
LEMMA EmulationKinds ==
    ASSUME NEW kind \in Kinds, NEW p \in Places(kind, {"adopt", "commit", "disown"})
    PROVE  Emulates(kind) /\ ~Enables(kind) /\ Places(kind, {"activate"}) = {}
<1>1. Emulates(kind)
  BY EmulationAssumption DEF Emulates, Places
<1> QED
  BY <1>1, FinallyAssumption DEF Enables, Opens, Places

LEMMA DropListed ==
    /\ Listed(<<Do("drop", None)>>) = {Do("drop", None)} /\ IsSeq(<<Do("drop", None)>>)
    /\ \A kind, first : Kept(kind, <<Do("drop", None)>>, first)
    /\ ~Restores(<<Do("drop", None)>>)
<1> DEFINE u == Do("drop", None)
<1>1. u.op = "drop"
  BY DEF Do
<1> HIDE DEF u
<1>2. Listed(<<u>>) = {u} /\ IsSeq(<<u>>)
  BY DEF Listed, IsSeq
<1>3. \A kind : Tidied(kind, u)
  BY <1>1 DEF Tidied
<1>4. ~Restores(<<u>>)
  BY <1>1, <1>2 DEF Restores
<1> QED
  BY <1>2, <1>3, <1>4 DEF Kept, u

LEMMA ResetsListed ==
    LET s == ResetOperations \o <<Do("drop", None)>>
    IN  ~Restores(s) /\ \A kind, first : Kept(kind, s, first)
<1> DEFINE u == Do("drop", None)
           s == ResetOperations \o <<u>>
           S == {Do("reset", g) : g \in 1..Len(Groups)} \cup {u}
<1>1. \A x \in S : x.op \in {"reset", "drop"}
  BY DEF Do
<1>2. ResetOperations \in Seq(S) /\ <<u>> \in Seq(S)
  BY JobsAssumption DEF ResetOperations
<1> HIDE DEF S, u
<1>3. s \in Seq(S)
  BY <1>2
<1>4. IsSeq(s)
  BY <1>3, SequenceIs
<1>5. \A x \in Listed(s) : x \in S
  BY <1>3 DEF Listed
<1> HIDE DEF s
<1>6. \A x \in Listed(s) : x.op \in {"reset", "drop"}
  BY <1>1, <1>5
<1>7. ~Restores(s) /\ \A kind : \A x \in Listed(s) : Tidied(kind, x)
  BY <1>6 DEF Restores, Tidied
<1>8. ~Restores(s) /\ \A kind, first : Kept(kind, s, first)
  BY <1>4, <1>7 DEF Kept
<1> QED
  BY <1>8 DEF s, u

LEMMA EnterRests == ASSUME JobsInv, RestInv, NEW j \in Jobs, Enter(j) PROVE RestInv'
<1> DEFINE r == job[j]
           first == First(j, "window")
           n == After(r)
           q == Disowned(n)
<1>0. /\ turn' = turn /\ wire' = wire /\ on' = on /\ lost' = lost /\ active' = active
      /\ holders' = holders /\ r.mode = "run" /\ r.pc <= Len(Steps[r.kind]) /\ Here(r).op = "lock"
      /\ First(j, Here(r).arg)
      /\ Becomes(j, n) \/ (n.mode = "run" /\ Here(n).op = "disown" /\ Becomes(j, q))
  BY DEF Enter, At, chrome
<1>1. /\ IsJob(r) /\ r.original = "user" /\ r.mode \notin Waiting /\ r.kind \in Kinds
      /\ r.pc \in Nat /\ r.pc > 0 /\ Kept(r.kind, r.undo, first) /\ IsSeq(r.undo)
      /\ InPlace(r.kind, r.undo, r.pc, first) /\ \A u \in Listed(r.undo) : Tidied(r.kind, u)
  BY <1>0, JobTidy, RunningTidy DEF Waiting
<1>2. r.pc \in Places(r.kind, {"lock"}) /\ r.pc \notin Closes(r.kind)
  BY <1>0, <1>1, PlaceOfStep, NotThere DEF Closes
<1>3. Steps[r.kind][r.pc].arg = "window" => first
  BY <1>0 DEF Here
<1> HIDE DEF r, first
<1>4. InPlace(r.kind, r.undo, r.pc + 1, first)
  BY <1>1, <1>2, <1>3, Advances
<1>5. Tidy(n, first) /\ n.undo = r.undo
  BY <1>1, <1>4, AfterTidy
<1>6. CASE Becomes(j, n)
  BY <1>0, <1>1, <1>5, <1>6, PlainKeeps DEF r, first
<1>7. CASE n.mode = "run" /\ Here(n).op = "disown" /\ Becomes(j, q)
  <2>1. n = [r EXCEPT !.pc = @ + 1, !.mode = "run"]
    BY <1>1, <1>7 DEF After, Failed, IsJob, JobFields
  <2>2. /\ IsJob(n) /\ n.kind = r.kind /\ n.pc = r.pc + 1 /\ n.original = "user"
    BY <1>1, <2>1 DEF IsJob, JobFields
  <2>3. n.pc \in Places(n.kind, {"adopt", "commit", "disown"}) /\ n.pc \in Nat /\ n.pc > 0
        /\ n.pc <= Len(Steps[n.kind]) /\ n.kind \in Kinds
    <3>1. r.pc < Len(Steps[r.kind]) /\ Len(Steps[r.kind]) \in Nat
      BY <1>1, <1>2, FinallyAssumption, ProgramsAssumption
    <3>2. n.pc \in Nat /\ n.pc > 0 /\ n.pc <= Len(Steps[n.kind]) /\ n.kind \in Kinds
      BY <1>1, <2>2, <3>1
    <3> HIDE DEF n
    <3> QED
      BY <1>7, <3>2, PlaceOfStep
  <2>4. ~Enables(r.kind) /\ Places(r.kind, {"activate"}) = {}
    BY <2>2, <2>3, EmulationKinds
  <2> HIDE DEF n
  <2>5. n.pc \notin Closes(n.kind) /\ n.pc \notin Places(n.kind, {"lock"})
    BY <1>7, NotThere DEF Closes
  <2>6. InPlace(n.kind, r.undo, n.pc + 1, first)
    BY <1>4, <2>2, <2>3, <2>5, Advances
  <2>7. InPlace(n.kind, <<Do("drop", None)>>, n.pc + 1, first)
    BY <2>2, <2>4, <2>6, OtherList, DropListed
  <2>8. Tidy(q, first)
    <3>1. CASE q = [n EXCEPT !.pc = @ + 1, !.undo = <<Do("drop", None)>>]
      <4>1. /\ q.kind = n.kind /\ q.pc = n.pc + 1 /\ q.undo = <<Do("drop", None)>>
            /\ q.mode = "run" /\ q.original = "user"
        BY <1>7, <2>2, <3>1 DEF IsJob, JobFields
      <4> HIDE DEF q
      <4>2. Top(q) = n.pc + 1
        BY <4>1 DEF Top
      <4> QED
        BY <2>7, <4>1, <4>2, DropListed DEF Tidy
    <3>2. CASE q = [n EXCEPT !.pc = Len(Steps[n.kind]) + 1]
      <4>1. /\ q.kind = n.kind /\ q.pc = Len(Steps[n.kind]) + 1 /\ q.undo = n.undo
            /\ q.mode = "run" /\ q.original = "user"
        BY <1>7, <2>2, <3>2 DEF IsJob, JobFields
      <4>2. Len(Steps[n.kind]) \in Nat
        BY <2>3, ProgramsAssumption
      <4> HIDE DEF q
      <4>3. ~(q.pc <= Len(Steps[q.kind]))
        BY <4>1, <4>2
      <4>4. Kept(q.kind, q.undo, first)
        BY <1>1, <1>5, <2>2, <4>1
      <4> QED
        BY <4>1, <4>3, <4>4 DEF Tidy
    <3> QED
      BY <3>1, <3>2 DEF Disowned
  <2> HIDE DEF q
  <2>9. (\A x : Off(x) \notin Listed(r.undo)) /\ ~Restores(r.undo)
    BY <1>1, <2>4, NothingToTidy
  <2>10. Sent'
    BY <1>0, <1>1, <1>7, SentKeeps DEF RestInv, r
  <2> QED
    BY <1>0, <1>7, <2>8, <2>9, <2>10, OneKeeps DEF r, first
<1> QED
  BY <1>0, <1>6, <1>7

\* The last lease takes what is enabled and what is on its way; another leaves both.
LEMMA SessionEnds ==
    ASSUME NEW who, LeaveSession(who)
    PROVE  /\ holders' = holders \ who
           /\ \/ on' = {} /\ wire' = <<>>
              \/ on' = on /\ lost' = lost /\ wire' = wire
BY DEF LeaveSession, chrome

LEMMA ReleaseRests == ASSUME JobsInv, RestInv, NEW j \in Jobs, ReleaseLease(j) PROVE RestInv'
<1> DEFINE r == job[j]
           first == First(j, "window")
           q == After(r)
<1>0. /\ turn' = turn /\ active' = active /\ LeaveSession({j}) /\ Becomes(j, q)
      /\ r.mode = "run" /\ r.pc <= Len(Steps[r.kind]) /\ Here(r).op = "release"
  BY DEF ReleaseLease, At
<1>1. /\ IsJob(r) /\ r.original = "user" /\ r.mode \notin Waiting /\ r.kind \in Kinds
      /\ r.pc \in Nat /\ r.pc > 0 /\ IsSeq(r.undo)
      /\ InPlace(r.kind, r.undo, r.pc, first) /\ \A u \in Listed(r.undo) : Tidied(r.kind, u)
  BY <1>0, JobTidy, RunningTidy DEF Waiting
<1>2. Tidy(q, first) /\ q.undo = r.undo
  BY <1>0, <1>1, PlainStep
<1> HIDE DEF q
<1>3. \A x : Off(x) \notin Listed(r.undo)
  <2>1. CASE Enables(r.kind)
    <3>1. r.pc \in Places(r.kind, {"release"})
      BY <1>0, <1>1, PlaceOfStep
    <3>2. r.undo = <<>>
      BY <1>1, <2>1, <3>1, NothingAtRelease DEF InPlace
    <3> QED
      BY <3>2, NothingListed
  <2>2. CASE ~Enables(r.kind)
    BY <1>1, <2>2, NothingToTidy
  <2> QED
    BY <2>1, <2>2
<1>4. Sent'
  BY <1>0, <1>1, SessionEnds, SentKeeps DEF RestInv
<1> QED
  BY <1>0, <1>2, <1>3, <1>4, SessionEnds, OneKeeps

LEMMA AcquireRests == ASSUME JobsInv, RestInv, NEW j \in Jobs, AcquireLease(j) PROVE RestInv'
<1>0. /\ turn' = turn /\ wire' = wire /\ on' = on /\ lost' = lost /\ active' = active
      /\ holders \subseteq holders' /\ job[j].mode = "run"
      /\ job[j].pc <= Len(Steps[job[j].kind]) /\ Here(job[j]).op = "acquire"
      /\ Becomes(j, After(job[j])) \/ Becomes(j, Failed(job[j]))
  BY DEF AcquireLease, At, chrome
<1>1. IsJob(job[j]) /\ job[j].original = "user" /\ job[j].mode \notin Waiting
  BY <1>0, JobTidy DEF Waiting
<1>2. /\ Tidy(After(job[j]), First(j, "window")) /\ After(job[j]).undo = job[j].undo
      /\ Tidy(Failed(job[j]), First(j, "window")) /\ Failed(job[j]).undo = job[j].undo
  BY <1>0, <1>1, PlainStep
<1> QED
  BY <1>0, <1>1, <1>2, PlainKeeps

LEMMA AdoptRests == ASSUME JobsInv, RestInv, NEW j \in Jobs, Adopt(j) PROVE RestInv'
<1> DEFINE r == job[j]
           first == First(j, "window")
           s == ResetOperations \o <<Do("drop", None)>>
           n == [r EXCEPT !.undo = s]
<1>0. /\ turn' = turn /\ wire' = wire /\ on' = on /\ lost' = lost /\ active' = active
      /\ holders \subseteq holders' /\ r.mode = "run"
      /\ r.pc <= Len(Steps[r.kind]) /\ Here(r).op = "adopt"
      /\ Becomes(j, After(n)) \/ Becomes(j, Failed(r))
  BY DEF Adopt, At, chrome
<1>1. /\ IsJob(r) /\ r.original = "user" /\ r.mode \notin Waiting /\ r.kind \in Kinds
      /\ r.pc \in Nat /\ r.pc > 0 /\ Kept(r.kind, r.undo, first)
      /\ InPlace(r.kind, r.undo, r.pc, first) /\ \A u \in Listed(r.undo) : Tidied(r.kind, u)
  BY <1>0, JobTidy, RunningTidy DEF Waiting
<1>2. r.pc \in Places(r.kind, {"adopt", "commit", "disown"})
      /\ r.pc \notin Closes(r.kind) /\ r.pc \notin Places(r.kind, {"lock"})
  BY <1>0, <1>1, PlaceOfStep, NotThere DEF Closes
<1>3. ~Enables(r.kind) /\ (\A x : Off(x) \notin Listed(r.undo)) /\ ~Restores(r.undo)
  BY <1>1, <1>2, EmulationKinds, NothingToTidy
<1> HIDE DEF s
<1>4. /\ IsJob(n) /\ n.kind = r.kind /\ n.pc = r.pc /\ n.undo = s /\ n.original = "user"
  BY <1>1 DEF IsJob, JobFields
<1> HIDE DEF n, first
<1>5. ~Restores(s) /\ Kept(n.kind, s, first)
  BY ResetsListed DEF s
<1>6. InPlace(n.kind, s, n.pc + 1, first)
  BY <1>1, <1>2, <1>3, <1>4, <1>5, Advances, OtherList
<1>7. Tidy(After(n), first) /\ Tidy(Failed(r), first)
  BY <1>1, <1>4, <1>5, <1>6, AfterTidy, FailedTidy
<1>8. Sent'
  BY <1>0, <1>1, SentKeeps DEF RestInv
<1> HIDE DEF r
<1> QED
  BY <1>0, <1>3, <1>7, <1>8, OneKeeps DEF r, first

LEMMA CommitRests == ASSUME JobsInv, RestInv, NEW j \in Jobs, Commit(j) PROVE RestInv'
<1> DEFINE r == job[j]
           first == First(j, "window")
           n == [After(r) EXCEPT !.undo = <<>>]
<1>0. /\ turn' = turn /\ wire' = wire /\ on' = on /\ lost' = lost /\ active' = active
      /\ holders' = holders /\ r.mode = "run"
      /\ r.pc <= Len(Steps[r.kind]) /\ Here(r).op = "commit"
      /\ (~Aborted(r) /\ Becomes(j, n)) \/ Becomes(j, Failed(r))
  BY DEF Commit, At, chrome
<1>1. /\ IsJob(r) /\ r.original = "user" /\ r.mode \notin Waiting /\ r.kind \in Kinds
      /\ r.pc \in Nat /\ r.pc > 0 /\ Kept(r.kind, r.undo, first)
      /\ InPlace(r.kind, r.undo, r.pc, first) /\ \A u \in Listed(r.undo) : Tidied(r.kind, u)
  BY <1>0, JobTidy, RunningTidy DEF Waiting
<1>2. r.pc \in Places(r.kind, {"adopt", "commit", "disown"})
      /\ r.pc \notin Closes(r.kind) /\ r.pc \notin Places(r.kind, {"lock"})
  BY <1>0, <1>1, PlaceOfStep, NotThere DEF Closes
<1>3. ~Enables(r.kind) /\ (\A x : Off(x) \notin Listed(r.undo)) /\ ~Restores(r.undo)
  BY <1>1, <1>2, EmulationKinds, NothingToTidy
<1>4. InPlace(r.kind, <<>>, r.pc + 1, first) /\ Kept(r.kind, <<>>, first)
  BY <1>1, <1>2, <1>3, Advances, OtherList, NothingListed DEF Kept
<1>5. ~Aborted(r) => Tidy(n, first)
  <2> SUFFICES ASSUME ~Aborted(r) PROVE Tidy(n, first)
    OBVIOUS
  <2>1. n = [r EXCEPT !.pc = @ + 1, !.mode = "run", !.undo = <<>>]
    BY <1>1 DEF After, IsJob, JobFields
  <2>2. n.kind = r.kind /\ n.pc = r.pc + 1 /\ n.undo = <<>> /\ n.mode = "run" /\ n.original = "user"
    BY <1>1, <2>1 DEF IsJob, JobFields
  <2> HIDE DEF n
  <2>3. Top(n) = r.pc + 1
    BY <2>2 DEF Top
  <2> QED
    BY <1>4, <2>2, <2>3 DEF Tidy
<1>6. Tidy(Failed(r), first)
  BY <1>1, FailedTidy
<1>7. Sent'
  BY <1>0, <1>1, SentKeeps DEF RestInv
<1> HIDE DEF r, n, first
<1> QED
  BY <1>0, <1>3, <1>5, <1>6, <1>7, OneKeeps DEF r, first

-----------------------------------------------------------------------------
(* Commands.                                                               *)

\* What a step that opens something puts on the list.
LEMMA PushTidy ==
    ASSUME NEW kind \in Kinds, NEW top \in Opens(kind), NEW s, NEW first,
           Kept(kind, s, first), InPlace(kind, s, top, first),
           NEW u, u.arg = Steps[kind][top].arg,
           u = Do("closeStream", None) \/ (top \in Places(kind, {"on", "evaluate"}) /\ u = Off(u.arg))
    PROVE  /\ Kept(kind, <<u>> \o s, first) /\ InPlace(kind, <<u>> \o s, top + 1, first)
           /\ Restores(<<u>> \o s) <=> Restores(s)
           /\ Listed(<<u>> \o s) = Listed(s) \cup {u}
<1>1. top \in Nat /\ IsSeq(s)
  BY OpensAreNumbers DEF Kept
<1>2. Listed(<<u>> \o s) = Listed(s) \cup {u}
  BY <1>1, PrependedTo
<1>3. u.op # "restore" /\ Tidied(kind, u)
  <2>1. CASE u = Do("closeStream", None)
    BY <2>1 DEF Do, Tidied
  <2>2. CASE top \in Places(kind, {"on", "evaluate"}) /\ u = Off(u.arg)
    <3>1. u.op = "off"
      BY <2>2 DEF Off, Do
    <3>2. Steps[kind][top].op \notin {"completed", "closeStream"} /\ Enables(kind)
      BY <2>2 DEF Places, Enables
    <3>3. u.arg # None
      BY <3>2, FinallyAssumption
    <3> QED
      BY <2>2, <3>1, <3>2, <3>3 DEF Tidied
  <2> QED
    BY <2>1, <2>2
<1>4. Restores(<<u>> \o s) <=> Restores(s)
  BY <1>2, <1>3 DEF Restores
<1>5. Kept(kind, <<u>> \o s, first)
  BY <1>3, KeptPush
<1>6. top \notin Closes(kind) /\ top \notin Places(kind, {"lock"})
  BY DEF Opens, Closes, Places
<1>7. InPlace(kind, s, top + 1, first)
  BY <1>1, <1>6, Advances
<1>8. Enables(kind) => Opened(kind, top + 1, <<u>> \o s)
  BY <1>1, PushOpens DEF InPlace
<1>9. InPlace(kind, <<u>> \o s, top + 1, first)
  BY <1>4, <1>7, <1>8 DEF InPlace
<1> QED
  BY <1>2, <1>4, <1>5, <1>9

\* What a step that closes something takes from it.
LEMMA WithoutTidy ==
    ASSUME NEW kind \in Kinds, NEW top \in Closes(kind), NEW s, NEW first,
           Kept(kind, s, first), InPlace(kind, s, top, first)
    PROVE  LET arg == Steps[kind][top].arg
               t == IF s # <<>> /\ Head(s).arg = arg THEN Tail(s) ELSE s
           IN  /\ Kept(kind, t, first) /\ InPlace(kind, t, top + 1, first)
               /\ ~Restores(s)
               /\ \A x : Off(x) \in Listed(s) /\ x # arg => Off(x) \in Listed(t)
<1> DEFINE arg == Steps[kind][top].arg
           t == IF s # <<>> /\ Head(s).arg = arg THEN Tail(s) ELSE s
<1>1. top \in Nat /\ IsSeq(s) /\ top \notin Places(kind, {"lock"})
  BY OpensAreNumbers DEF Kept, Closes, Places
<1>2. ~Restores(s)
  BY FinallyAssumption, NothingToTidy DEF Kept
<1>3. Kept(kind, t, first) /\ (Restores(t) => Restores(s))
  BY KeptPop
<1>4. Enables(kind) => Opened(kind, top + 1, t)
  BY <1>1, TailCloses DEF InPlace
<1>5. \A x : Off(x) \in Listed(s) /\ x # arg => Off(x) \in Listed(t)
  <2>1. \A x : Off(x).arg = x
    BY DEF Off, Do
  <2> QED
    BY <1>1, <2>1, PoppedFrom
<1>6. \A l \in Places(kind, {"lock"}) : l \in Nat /\ (l < top + 1 => l < top)
  BY <1>1, PlacesAreNumbers
<1> HIDE DEF t
<1>7. InPlace(kind, t, top + 1, first)
  BY <1>2, <1>3, <1>4, <1>6 DEF InPlace
<1> QED
  BY <1>2, <1>3, <1>5, <1>7 DEF t

\* An evaluation is on the list before it is sent; a refused cleanup is off it.
LEMMA SendRests == ASSUME JobsInv, RestInv, NEW j \in Jobs, Send(j) PROVE RestInv'
<1> DEFINE k == job[j]
           first == First(j, "window")
           step == Here(k)
           r == IF step.op = "evaluate" THEN Push(k, Off(step.arg)) ELSE k
           o == Without(r, step.arg)
           q == [r EXCEPT !.mode = "wait"]
           refused == Lease(j, step) \notin holders \/ (Aborted(r) /\ step.op \notin BestEffort)
<1>0. /\ turn' = turn /\ on' = on /\ lost' = lost /\ active' = active /\ holders' = holders
      /\ k.mode = "run" /\ k.pc <= Len(Steps[k.kind]) /\ step.op \in Commands
      /\ \/ /\ wire' = wire /\ refused
            /\ \/ step.op \in BestEffort /\ Becomes(j, After(o))
               \/ step.op \notin BestEffort /\ Becomes(j, Failed(r))
         \/ /\ ~refused /\ Becomes(j, q)
            /\ wire' = Append(wire, [by |-> j, step |-> step, live |-> TRUE])
  BY DEF Send, At
<1>1. /\ IsJob(k) /\ k.original = "user" /\ k.mode \notin Waiting /\ k.kind \in Kinds
      /\ k.pc \in Nat /\ k.pc > 0 /\ Kept(k.kind, k.undo, first) /\ IsSeq(k.undo)
      /\ InPlace(k.kind, k.undo, k.pc, first)
  BY <1>0, JobTidy, RunningTidy DEF Waiting
<1>1a. step = Steps[k.kind][k.pc]
  BY DEF Here
<1> DEFINE u == Off(step.arg)
<1>2. u.arg = step.arg /\ u = Off(u.arg)
  BY DEF Off, Do
<1>3. /\ IsJob(r) /\ r.kind = k.kind /\ r.pc = k.pc /\ r.mode = "run" /\ r.original = "user"
      /\ r.undo = IF step.op = "evaluate" THEN <<u>> \o k.undo ELSE k.undo
  BY <1>0, <1>1 DEF Push, IsJob, JobFields
<1> HIDE DEF r, u
<1>4. step.op = "evaluate" =>
        /\ Kept(k.kind, <<u>> \o k.undo, first) /\ InPlace(k.kind, <<u>> \o k.undo, k.pc + 1, first)
        /\ Restores(<<u>> \o k.undo) <=> Restores(k.undo)
        /\ Listed(<<u>> \o k.undo) = Listed(k.undo) \cup {u}
  <2> SUFFICES ASSUME step.op = "evaluate"
               PROVE /\ Kept(k.kind, <<u>> \o k.undo, first)
                     /\ InPlace(k.kind, <<u>> \o k.undo, k.pc + 1, first)
                     /\ Restores(<<u>> \o k.undo) <=> Restores(k.undo)
                     /\ Listed(<<u>> \o k.undo) = Listed(k.undo) \cup {u}
    OBVIOUS
  <2>1. k.pc \in Places(k.kind, {"on", "evaluate"}) /\ k.pc \in Opens(k.kind)
    BY <1>0, <1>1, PlaceOfStep DEF Opens
  <2> HIDE DEF k, first
  <2> QED
    BY <1>1, <1>1a, <1>2, <2>1, PushTidy
<1>5. /\ Kept(r.kind, r.undo, first) /\ Listed(k.undo) \subseteq Listed(r.undo)
      /\ Restores(k.undo) <=> Restores(r.undo)
  BY <1>1, <1>3, <1>4
<1>6. CASE wire' = wire /\ refused /\ step.op \notin BestEffort /\ Becomes(j, Failed(r))
  <2>1. Tidy(Failed(r), first) /\ Failed(r).undo = r.undo
    BY <1>3, <1>5, FailedTidy
  <2>2. Sent'
    BY <1>0, <1>1, <1>6, SentKeeps DEF RestInv
  <2> HIDE DEF k
  <2> QED
    BY <1>0, <1>5, <1>6, <2>1, <2>2, OneKeeps DEF k
<1>7. CASE wire' = wire /\ refused /\ step.op \in BestEffort /\ Becomes(j, After(o))
  <2>1. r = k /\ step.op # "evaluate"
    BY <1>7 DEF BestEffort, r
  <2>2. j \notin holders
    BY <1>7 DEF BestEffort, Lease
  <2>3. k.pc \in Closes(k.kind)
    BY <1>0, <1>1, <1>7, PlaceOfStep DEF Closes, BestEffort
  <2> DEFINE t == IF k.undo # <<>> /\ Head(k.undo).arg = step.arg THEN Tail(k.undo) ELSE k.undo
  <2>4. IsJob(o) /\ o.kind = k.kind /\ o.pc = k.pc /\ o.undo = t /\ o.original = "user"
    BY <1>1, <2>1 DEF Without, IsJob, JobFields
  <2> HIDE DEF o
  <2>5. Kept(k.kind, t, first) /\ InPlace(k.kind, t, k.pc + 1, first) /\ ~Restores(k.undo)
    BY <1>1, <1>1a, <2>3, WithoutTidy
  <2> HIDE DEF t
  <2>6. Tidy(After(o), first)
    BY <2>4, <2>5, AfterTidy
  <2>7. Sent'
    BY <1>0, <1>1, <1>7, SentKeeps DEF RestInv
  <2> HIDE DEF k
  <2> QED
    BY <1>0, <1>7, <2>2, <2>5, <2>6, <2>7, OneKeeps DEF k
<1>8. CASE /\ ~refused /\ Becomes(j, q)
           /\ wire' = Append(wire, [by |-> j, step |-> step, live |-> TRUE])
  <2>1. /\ IsJob(q) /\ q.kind = k.kind /\ q.pc = k.pc /\ q.undo = r.undo /\ q.original = "user"
        /\ q.mode = "wait"
    BY <1>3 DEF IsJob, JobFields
  <2> HIDE DEF q
  <2>2. Here(q) = step
    BY <2>1 DEF Here
  <2>3. Tidy(q, first)
    <3>1. CASE step.op = "evaluate"
      <4>1. Top(q) = k.pc + 1
        BY <2>1, <2>2, <3>1 DEF Top
      <4>2. Off(step.arg) \in Listed(q.undo)
        BY <1>3, <1>4, <2>1, <3>1 DEF u
      <4>3. InPlace(q.kind, q.undo, Top(q), first)
        BY <1>3, <1>4, <2>1, <3>1, <4>1
      <4>4. Kept(q.kind, q.undo, first)
        BY <1>3, <1>5, <2>1
      <4> HIDE DEF step
      <4> QED
        BY <2>1, <2>2, <4>2, <4>3, <4>4 DEF Tidy
    <3>2. CASE step.op # "evaluate"
      <4>1. Top(q) = k.pc
        BY <2>1, <2>2, <3>2 DEF Top
      <4>2. InPlace(q.kind, q.undo, Top(q), first) /\ Kept(q.kind, q.undo, first)
        BY <1>1, <1>3, <2>1, <3>2, <4>1
      <4>3. Here(q).op # "evaluate"
        BY <2>2, <3>2
      <4> QED
        BY <2>1, <4>2, <4>3 DEF Tidy
    <3> QED
      BY <3>1, <3>2
  <2>4. step.op \notin {"set", "reset"} => j \in holders
    BY <1>8 DEF Lease
  <2>5. Sent'
    <3> HIDE DEF step
    <3> QED
      BY <1>0, <1>1, <1>8, <2>1, <2>2, <2>4, SendsMeant DEF RestInv
  <2> HIDE DEF k, step
  <2> QED
    BY <1>0, <1>5, <1>8, <2>1, <2>3, <2>5, OneKeeps DEF k
<1> QED
  BY <1>0, <1>6, <1>7, <1>8

\* What is sent and no longer waited for is nobody's.
LEMMA AbandonRests == ASSUME JobsInv, RestInv, NEW j \in Jobs, Abandon(j) PROVE RestInv'
<1> DEFINE q == Failed(job[j])
<1>0. /\ turn' = turn /\ on' = on /\ lost' = lost /\ active' = active /\ holders' = holders
      /\ job[j].mode = "wait" /\ Becomes(j, q)
      /\ wire' = [i \in 1..Len(wire) |-> IF wire[i].by = j THEN [wire[i] EXCEPT !.live = FALSE]
                                                            ELSE wire[i]]
  BY DEF Abandon
<1>1. Tidy(q, First(j, "window")) /\ q.undo = job[j].undo
  BY JobTidy, FailedTidy
<1> HIDE DEF q
<1>2. Sent'
  <2>1. Len(wire) \in Nat /\ Len(wire') = Len(wire)
    BY <1>0 DEF JobsInv, WireFits, IsSeq
  <2> SUFFICES ASSUME NEW i \in 1..Len(wire), wire'[i].live PROVE Meant(wire[i])'
    BY <2>1 DEF Sent
  <2>2. /\ IsMessage(wire[i]) /\ wire[i].by \in Jobs
        /\ wire'[i] = IF wire[i].by = j THEN [wire[i] EXCEPT !.live = FALSE] ELSE wire[i]
    BY <1>0 DEF JobsInv, WireFits
  <2>3. wire[i].by # j
    BY <2>2 DEF IsMessage, MessageFields
  <2>4. wire'[i] = wire[i] /\ wire[i].live /\ job'[wire[i].by] = job[wire[i].by]
    BY <1>0, <2>2, <2>3, OneChanges
  <2>5. Meant(wire[i])
    BY <2>4 DEF RestInv, Sent
  <2>6. Here(job'[wire'[i].by]) = Here(job[wire[i].by])
    BY <2>4
  <2> QED
    BY <1>0, <2>4, <2>5, <2>6 DEF Meant, Here
<1> QED
  BY <1>0, <1>1, <1>2, OneKeeps

LEMMA ListenRests == ASSUME JobsInv, RestInv, NEW j \in Jobs, Listen(j) PROVE RestInv'
<1> DEFINE r == job[j]
           first == First(j, "window")
           u == Do("closeStream", None)
           q == Push(r, u)
           p == [r EXCEPT !.reads = @ \cup {doc}]
<1>0. /\ turn' = turn /\ wire' = wire /\ on' = on /\ lost' = lost /\ active' = active
      /\ holders' = holders /\ r.mode = "run" /\ r.pc <= Len(Steps[r.kind])
      /\ Here(r).op \in {"completed", "navigated", "pause"}
  BY DEF Listen, At, chrome
<1>1. \/ Becomes(j, Failed(r)) \/ Becomes(j, After(r)) \/ Becomes(j, After(p))
      \/ Here(r).op = "completed" /\ Becomes(j, After(q))
  <2>1. CASE Here(r).op = "completed"
    BY <2>1 DEF Listen
  <2>2. CASE Here(r).op = "navigated"
    BY <2>2 DEF Listen
  <2>3. CASE Here(r).op = "pause"
    BY <2>3 DEF Listen
  <2> QED
    BY <1>0, <2>1, <2>2, <2>3
<1>2. /\ IsJob(r) /\ r.original = "user" /\ r.mode \notin Waiting /\ r.kind \in Kinds
      /\ r.pc \in Nat /\ r.pc > 0 /\ Kept(r.kind, r.undo, first)
      /\ InPlace(r.kind, r.undo, r.pc, first)
  BY <1>0, JobTidy, RunningTidy DEF Waiting
<1>2a. IsJob(p) /\ p.kind = r.kind /\ p.pc = r.pc /\ p.undo = r.undo /\ p.original = "user"
  BY <1>2 DEF IsJob, JobFields
<1> HIDE DEF p
<1>3. /\ Tidy(After(r), first) /\ After(r).undo = r.undo
      /\ Tidy(After(p), first) /\ After(p).undo = r.undo
      /\ Tidy(Failed(r), first) /\ Failed(r).undo = r.undo
  BY <1>0, <1>2, <1>2a, PlainStep
<1>4. CASE Becomes(j, Failed(r)) \/ Becomes(j, After(r)) \/ Becomes(j, After(p))
  BY <1>0, <1>2, <1>3, <1>4, PlainKeeps
<1>5. CASE Here(r).op = "completed" /\ Becomes(j, After(q))
  <2>1. r.pc \in Opens(r.kind) /\ Steps[r.kind][r.pc].arg = None
    <3>1. r.pc \in Places(r.kind, {"on", "evaluate", "completed"})
      BY <1>0, <1>2, <1>5, PlaceOfStep
    <3>2. Steps[r.kind][r.pc].op = "completed"
      BY <1>5 DEF Here
    <3> QED
      BY <1>2, <3>1, <3>2, FinallyAssumption DEF Opens
  <2>2. u.arg = None
    BY DEF Do
  <2>3. IsJob(q) /\ q.kind = r.kind /\ q.pc = r.pc /\ q.undo = <<u>> \o r.undo /\ q.original = "user"
    BY <1>2 DEF Push, IsJob, JobFields
  <2> HIDE DEF q, r, first
  <2>4. /\ Kept(r.kind, <<u>> \o r.undo, first) /\ InPlace(r.kind, <<u>> \o r.undo, r.pc + 1, first)
        /\ Restores(<<u>> \o r.undo) <=> Restores(r.undo)
        /\ Listed(<<u>> \o r.undo) = Listed(r.undo) \cup {u}
    BY <1>2, <2>1, <2>2, PushTidy
  <2>5. Tidy(After(q), first) /\ After(q).undo = <<u>> \o r.undo
    BY <2>3, <2>4, AfterTidy
  <2>6. Sent'
    BY <1>0, <1>2, <1>5, SentKeeps DEF RestInv, r
  <2> QED
    BY <1>0, <1>5, <2>4, <2>5, <2>6, OneKeeps DEF r, first
<1> QED
  BY <1>1, <1>4, <1>5

LEMMA TalkRests == ASSUME JobsInv, RestInv, NEW j \in Jobs, TalkToPage(j) PROVE RestInv'
<1> DEFINE r == job[j]
           q == [r EXCEPT !.reads = @ \cup {doc}]
<1>0. /\ turn' = turn /\ wire' = wire /\ on' = on /\ lost' = lost /\ active' = active
      /\ holders' = holders /\ r.mode = "run" /\ r.pc <= Len(Steps[r.kind])
      /\ Here(r).op \in {"page", "references"}
      /\ Becomes(j, Failed(r)) \/ Becomes(j, After(r)) \/ Becomes(j, After(q))
  BY DEF TalkToPage, At, chrome
<1>1. IsJob(r) /\ r.original = "user" /\ r.mode \notin Waiting
  BY <1>0, JobTidy DEF Waiting
<1>2. IsJob(q) /\ q.kind = r.kind /\ q.pc = r.pc /\ q.undo = r.undo /\ q.original = "user"
  BY <1>1 DEF IsJob, JobFields
<1> HIDE DEF q
<1>3. /\ Tidy(After(r), First(j, "window")) /\ After(r).undo = r.undo
      /\ Tidy(After(q), First(j, "window")) /\ After(q).undo = r.undo
      /\ Tidy(Failed(r), First(j, "window")) /\ Failed(r).undo = r.undo
  BY <1>0, <1>1, <1>2, PlainStep
<1> QED
  BY <1>0, <1>1, <1>3, PlainKeeps

\* The first step of the list is taken from it.
LEMMA PoppedTidy ==
    ASSUME NEW r, IsJob(r), r.original = "user", NEW first, Kept(r.kind, r.undo, first), r.undo # <<>>
    PROVE  /\ Tidy(Popped(r), first) /\ Popped(r).mode = "undo"
           /\ Popped(r).undo = Tail(r.undo)
           /\ \A x : Off(x) \in Listed(r.undo) /\ Head(r.undo) # Off(x) =>
                 Off(x) \in Listed(Popped(r).undo)
           /\ Restores(r.undo) /\ Head(r.undo).op # "restore" => Restores(Popped(r).undo)
<1> DEFINE q == Popped(r)
<1>1. /\ IsJob(q) /\ q.kind = r.kind /\ q.undo = Tail(r.undo) /\ q.original = "user"
      /\ q.mode = "undo"
  BY DEF Popped, IsJob, JobFields
<1> HIDE DEF q
<1>2. Kept(q.kind, q.undo, first)
  BY <1>1, KeptPop
<1>3. Tidy(q, first)
  BY <1>1, <1>2 DEF Tidy
<1>4. Listed(r.undo) \subseteq Listed(q.undo) \cup {Head(r.undo)}
  BY <1>1, PoppedFrom DEF Kept
<1> QED
  BY <1>1, <1>3, <1>4 DEF q, Restores

LEMMA UndoRests == ASSUME JobsInv, RestInv, NEW j \in Jobs, Undo(j) PROVE RestInv'
<1> DEFINE r == job[j]
           first == First(j, "window")
           step == Head(r.undo)
           q == [r EXCEPT !.mode = "undoing"]
           n == Popped(r)
<1>0. turn' = turn /\ r.undo # <<>> /\ Unwinding(j)
  BY DEF Undo
<1>1. /\ IsJob(r) /\ r.original = "user" /\ r.kind \in Kinds
      /\ Kept(r.kind, r.undo, first) /\ IsSeq(r.undo)
      /\ \A u \in Listed(r.undo) : Tidied(r.kind, u)
  BY JobTidy
<1>2. r.mode \notin Waiting
  BY <1>0 DEF Unwinding, Waiting
<1>3. Tidied(r.kind, step)
  BY <1>0, <1>1, PoppedFrom
<1>4. /\ Tidy(n, first)
      /\ \A x : Off(x) \in Listed(r.undo) /\ step # Off(x) => Off(x) \in Listed(n.undo)
      /\ Restores(r.undo) /\ step.op # "restore" => Restores(n.undo)
  BY <1>0, <1>1, PoppedTidy
<1>5. \A x : Off(x).op = "off" /\ Off(x).arg = x
  BY DEF Off, Do
<1>6. CASE step.op = "restore"
  <2>1. /\ active' = step.arg /\ Becomes(j, n) /\ wire' = wire /\ on' = on /\ lost' = lost
        /\ holders' = holders
    BY <1>6 DEF Undo, chrome
  <2>2. active' = "user"
    BY <1>3, <1>6, <2>1 DEF Tidied
  <2> HIDE DEF n
  <2>3. Sent'
    BY <1>2, <2>1, SentKeeps DEF RestInv
  <2> HIDE DEF r, step
  <2> QED
    BY <1>0, <1>4, <1>5, <1>6, <2>1, <2>2, <2>3, OneKeeps DEF r
<1>7. CASE step.op = "drop"
  <2>1. LeaveSession({"emulation"}) /\ Becomes(j, n) /\ active' = active
    BY <1>7 DEF Undo
  <2> HIDE DEF n
  <2>2. Sent'
    BY <1>2, <2>1, SessionEnds, SentKeeps DEF RestInv
  <2>3. \A i \in Jobs : i \in holders => i \in holders \ {"emulation"}
    BY JobsAssumption
  <2> HIDE DEF r, step
  <2> QED
    BY <1>0, <1>4, <1>5, <1>7, <2>1, <2>2, <2>3, SessionEnds, OneKeeps DEF r
<1>8. CASE step.op \notin {"restore", "drop"}
  <2>1. /\ active' = active /\ on' = on /\ lost' = lost /\ holders' = holders
        /\ \/ /\ Lease(j, step) \in holders /\ Becomes(j, q)
              /\ wire' = Append(wire, [by |-> j, step |-> step, live |-> TRUE])
           \/ Lease(j, step) \notin holders /\ Becomes(j, n) /\ wire' = wire
    BY <1>8 DEF Undo
  <2>2. CASE /\ Lease(j, step) \in holders /\ Becomes(j, q)
             /\ wire' = Append(wire, [by |-> j, step |-> step, live |-> TRUE])
    <3>1. /\ q.kind = r.kind /\ q.undo = r.undo /\ q.original = "user" /\ q.mode = "undoing"
      BY <1>1 DEF IsJob, JobFields
    <3> HIDE DEF q
    <3>2. Tidy(q, first)
      BY <1>0, <1>1, <1>8, <3>1 DEF Tidy
    <3>3. step.op \notin {"set", "reset"} => j \in holders
      BY <2>2 DEF Lease
    <3>4. step = Head(q.undo)
      BY <3>1
    <3> HIDE DEF step, r
    <3>5. Sent'
      BY <1>2, <1>8, <2>1, <2>2, <3>1, <3>3, <3>4, SendsMeant DEF RestInv, r
    <3> QED
      BY <1>0, <2>1, <2>2, <3>1, <3>2, <3>5, OneKeeps DEF r
  <2>3. CASE Lease(j, step) \notin holders /\ Becomes(j, n) /\ wire' = wire
    <3>1. \A x : step = Off(x) => j \notin holders
      BY <1>5, <2>3 DEF Lease
    <3> HIDE DEF n
    <3>2. Sent'
      BY <1>2, <2>1, <2>3, SentKeeps DEF RestInv
    <3> HIDE DEF r, step
    <3> QED
      BY <1>0, <1>4, <1>8, <2>1, <2>3, <3>1, <3>2, OneKeeps DEF r
  <2> QED
    BY <2>1, <2>2, <2>3
<1> QED
  BY <1>6, <1>7, <1>8

LEMMA FinishRests == ASSUME JobsInv, RestInv, NEW j \in Jobs, Finish(j) PROVE RestInv'
<1> DEFINE r == job[j]
           answer == IF r.answer # None THEN r.answer
                     ELSE IF r.failed \/ r.abort = "cancel" THEN "error" ELSE "ok"
           q == [r EXCEPT !.mode = "done", !.abort = "no", !.seen = None, !.answer = answer]
<1>0. /\ r.undo = <<>> /\ Unwinding(j) /\ LeaveSession({j}) /\ active' = active
      /\ turn' = [x \in DOMAIN turn |-> IF First(j, x) THEN Tail(turn[x]) ELSE turn[x]]
  BY DEF Finish
<1>1. IsJob(r) /\ r.original = "user"
  BY JobTidy
<1>2. Becomes(j, q)
  BY <1>1 DEF Finish, IsJob, JobFields
<1>3. /\ q.kind = r.kind /\ q.undo = <<>> /\ q.original = "user" /\ q.mode = "done"
  BY <1>0, <1>1 DEF IsJob, JobFields
<1> HIDE DEF q
<1>4. r.mode \notin Waiting
  BY <1>0 DEF Unwinding, Waiting
<1>5. \A first : Tidy(q, first)
  BY <1>3, NothingListed DEF Tidy, Kept
<1>6. Queues
  BY DEF RestInv
<1>7. \A x \in {"tab", "window"} : turn'[x] = IF First(j, x) THEN Tail(turn[x]) ELSE turn[x]
  BY <1>0, <1>6 DEF Queues
<1>8. \A i \in Jobs \ {j} : First(i, "window") => First(i, "window")'
  BY <1>7 DEF First
<1>9. \A i \in Jobs : Tidy(job[i], First(i, "window"))'
  BY <1>2, <1>5, <1>8, TidyKeeps
<1>10. Sent'
  BY <1>0, <1>2, <1>4, SessionEnds, SentKeeps DEF RestInv
<1>11. Listing'
  <2>1. \A x : Off(x) \notin Listed(r.undo)
    BY <1>0, NothingListed
  <2> QED
    BY <1>0, <1>2, <2>1, SessionEnds, ListingKeeps DEF RestInv
<1>12. Activity'
  <2> SUFFICES ASSUME active' # "user"
               PROVE  \E i \in Jobs : First(i, "window")' /\ Restores(job'[i].undo)
    BY DEF Activity, Restores, Listed
  <2>1. PICK i \in Jobs : First(i, "window") /\ Restores(job[i].undo)
    BY <1>0 DEF RestInv, Activity
  <2>2. i # j
    BY <1>0, <2>1, NothingListed
  <2>3. job'[i] = job[i]
    BY <1>2, <2>2, OneChanges
  <2> QED
    BY <1>8, <2>1, <2>2, <2>3
<1>13. Queues'
  <2>1. turn' = [x \in {"tab", "window"} |-> turn'[x]]
    BY <1>0, <1>6 DEF Queues
  <2>2. ASSUME NEW x \in {"tab", "window"} PROVE IsSeq(turn'[x])
    <3>1. IsSeq(turn[x])
      BY <1>6 DEF Queues
    <3>2. CASE First(j, x)
      BY <1>7, <3>1, <3>2, TailOf DEF First
    <3>3. CASE ~First(j, x)
      BY <1>7, <3>1, <3>3
    <3> QED
      BY <3>2, <3>3
  <2> QED
    BY <2>1, <2>2 DEF Queues, IsSeq
<1> QED
  BY <1>9, <1>10, <1>11, <1>12, <1>13 DEF RestInv


\* A user's detach ends the session; the finally blocks go on without it.
LEMMA DetachRests == ASSUME JobsInv, RestInv, Detach PROVE RestInv'
<1>0. /\ LeaveSession(holders) /\ turn' = turn /\ active' = active
      /\ job' = [j \in Jobs |-> CASE job[j].mode = "wait" -> Failed(job[j])
                                  [] job[j].mode = "undoing" -> Popped(job[j])
                                  [] OTHER -> job[j]]
  BY DEF Detach
<1>1. on' = {} /\ wire' = <<>>
  BY <1>0 DEF LeaveSession
<1>2. \A i \in Jobs : First(i, "window")' <=> First(i, "window")
  BY <1>0 DEF First
<1>3. ASSUME NEW i \in Jobs
      PROVE  /\ Tidy(job'[i], First(i, "window"))
             /\ Restores(job[i].undo) => Restores(job'[i].undo)
  <2>1. CASE job[i].mode = "wait"
    <3>1. job'[i] = Failed(job[i])
      BY <1>0, <2>1
    <3> QED
      BY <3>1, JobTidy, FailedTidy
  <2>2. CASE job[i].mode = "undoing"
    <3>1. job'[i] = Popped(job[i])
      BY <1>0, <2>2
    <3>2. job[i].undo # <<>> /\ Head(job[i].undo).op # "restore"
      BY <2>2, JobTidy DEF Tidy
    <3> QED
      BY <3>1, <3>2, JobTidy, PoppedTidy
  <2>3. CASE job[i].mode \notin {"wait", "undoing"}
    <3>1. job'[i] = job[i]
      BY <1>0, <2>3
    <3> QED
      BY <3>1, JobTidy
  <2> QED
    BY <2>1, <2>2, <2>3
<1>4. ASSUME NEW i \in Jobs PROVE Tidy(job[i], First(i, "window"))'
  <2>1. Tidy(job'[i], First(i, "window")')
    BY <1>2, <1>3, SameTidy
  <2> QED
    BY <2>1 DEF Tidy, Kept, InPlace, Top, Here
<1>5. Sent' /\ Listing'
  BY <1>1 DEF Sent, Listing
<1>6. Activity'
  <2>1. Activity
    BY DEF RestInv
  <2> QED
    BY <1>0, <1>2, <1>3, <2>1 DEF Activity, Restores, Listed
<1>7. Queues'
  BY <1>0 DEF RestInv, Queues
<1> QED
  BY <1>4, <1>5, <1>6, <1>7 DEF RestInv

\* What a command that Chrome executes enables is its step's, and what it disables is off.
LEMMA EffectOn ==
    ASSUME NEW c, Effect(c)
    PROVE  /\ \A x \in on' \ lost' :
                x \in on \ lost \/ (c.live /\ c.step.op \in {"on", "evaluate"} /\ x = c.step.arg)
           /\ c.step.op \in {"off", "close"} => c.step.arg \notin on'
<1>1. CASE c.step.op \in {"on", "press", "evaluate"}
  <2>1. on' = on \cup {c.step.arg}
    BY <1>1 DEF Effect
  <2>2. lost' = IF c.live /\ c.step.op # "press" THEN lost ELSE lost \cup {c.step.arg}
    BY <1>1 DEF Effect
  <2> QED
    BY <1>1, <2>1, <2>2
<1>2. CASE c.step.op \in {"off", "close"}
  <2>1. on' = on \ Ends(c.step.arg) /\ lost' = lost \ Ends(c.step.arg)
    BY <1>2 DEF Effect
  <2>2. c.step.arg \in Ends(c.step.arg)
    BY DEF Ends
  <2> QED
    BY <1>2, <2>1, <2>2
<1>3. CASE c.step.op \notin {"on", "press", "evaluate", "off", "close"}
  <2>1. on' = on /\ lost' = lost
    BY <1>3 DEF Effect
  <2> QED
    BY <1>3, <2>1
<1> QED
  BY <1>1, <1>2, <1>3

\* What is made of the result of a command: it is on the list while it is enabled.
LEMMA ReturnedTidy ==
    ASSUME JobsInv, RestInv, NEW j \in Jobs, job[j].mode = "wait",
           Here(job[j]).op \in {"off", "close"} => Here(job[j]).arg \notin on'
    PROVE  LET r == job[j]
               q == Returned(r)
           IN  /\ Tidy(q, First(j, "window")) /\ q.mode \notin Waiting
               /\ Restores(r.undo) => Restores(q.undo)
               /\ \A x \in on' : Off(x) \in Listed(r.undo) => Off(x) \in Listed(q.undo)
               /\ Here(r).op \in {"on", "evaluate"} => Off(Here(r).arg) \in Listed(q.undo)
<1> DEFINE r == job[j]
           first == First(j, "window")
           op == Here(r).op
           arg == Here(r).arg
           u == Off(arg)
           t == IF r.undo # <<>> /\ Head(r.undo).arg = arg THEN Tail(r.undo) ELSE r.undo
           n == Push(r, u)
           o == Without(r, arg)
           v == [r EXCEPT !.reads = @ \cup {doc}]
<1>1. /\ IsJob(r) /\ r.original = "user" /\ r.kind \in Kinds
      /\ r.pc \in Nat /\ r.pc > 0 /\ Kept(r.kind, r.undo, first) /\ IsSeq(r.undo)
      /\ r.pc <= Len(Steps[r.kind]) /\ op \in Commands /\ Tidy(r, first)
      /\ \A x \in Listed(r.undo) : Tidied(r.kind, x)
  BY JobTidy DEF JobsInv, Fits
<1>2. Steps[r.kind][r.pc].arg = arg /\ Steps[r.kind][r.pc].op = op
  BY DEF Here
<1>3. InPlace(r.kind, r.undo, IF op = "evaluate" THEN r.pc + 1 ELSE r.pc, first)
  BY <1>1 DEF Tidy, Top
<1>4. op = "evaluate" => u \in Listed(r.undo)
  BY <1>1 DEF Tidy
<1>5. u.arg = arg /\ u = Off(u.arg) /\ \A x : Off(x) = u => x = arg
  BY DEF Off, Do
<1>6. r.pc \notin Places(r.kind, {"lock"})
  BY <1>1, <1>2 DEF Places, Commands, BestEffort
<1>7. CASE op = "on"
  <2>1. r.pc \in Opens(r.kind) /\ r.pc \in Places(r.kind, {"on", "evaluate"})
    BY <1>1, <1>7, PlaceOfStep DEF Opens
  <2>2. IsJob(n) /\ n.kind = r.kind /\ n.pc = r.pc /\ n.undo = <<u>> \o r.undo /\ n.original = "user"
    BY <1>1 DEF Push, IsJob, JobFields
  <2>3. Returned(r) = After(n)
    BY <1>7 DEF Returned
  <2> HIDE DEF n, r, first, u
  <2>4. /\ Kept(r.kind, <<u>> \o r.undo, first) /\ InPlace(r.kind, <<u>> \o r.undo, r.pc + 1, first)
        /\ Restores(<<u>> \o r.undo) <=> Restores(r.undo)
        /\ Listed(<<u>> \o r.undo) = Listed(r.undo) \cup {u}
    BY <1>1, <1>2, <1>3, <1>5, <1>7, <2>1, PushTidy
  <2>5. Tidy(After(n), first) /\ After(n).undo = <<u>> \o r.undo /\ After(n).mode \notin Waiting
    BY <2>2, <2>4, AfterTidy
  <2> QED
    BY <2>3, <2>4, <2>5 DEF r, first, u
<1>8. CASE op \in {"off", "close", "closeStream"}
  <2>1. r.pc \in Closes(r.kind)
    BY <1>1, <1>8, PlaceOfStep DEF Closes
  <2>2. IsJob(o) /\ o.kind = r.kind /\ o.pc = r.pc /\ o.undo = t /\ o.original = "user"
    BY <1>1 DEF Without, IsJob, JobFields
  <2>3. Returned(r) = After(o)
    BY <1>8 DEF Returned
  <2>4. /\ Kept(r.kind, t, first) /\ InPlace(r.kind, t, r.pc + 1, first) /\ ~Restores(r.undo)
        /\ \A x : Off(x) \in Listed(r.undo) /\ x # arg => Off(x) \in Listed(t)
    <3>1. InPlace(r.kind, r.undo, r.pc, first)
      BY <1>3, <1>8
    <3> HIDE DEF r, first, arg, op
    <3> QED
      BY <1>1, <1>2, <2>1, <3>1, WithoutTidy
  <2>5. op = "closeStream" => arg = None
    BY <1>1, <1>2, <2>1, FinallyAssumption
  <2>6. \A x \in on' : Off(x) \in Listed(r.undo) => x # arg
    <3>1. \A x : Off(x).arg = x /\ Off(x).op = "off"
      BY DEF Off, Do
    <3>2. op = "closeStream" => \A x : Off(x) \in Listed(r.undo) => x # None
      BY <1>1, <3>1 DEF Tidied
    <3> QED
      BY <1>8, <2>5, <3>2
  <2> HIDE DEF o, t, r, first, arg
  <2>7. Tidy(After(o), first) /\ After(o).undo = t /\ After(o).mode \notin Waiting
    BY <2>2, <2>4, AfterTidy
  <2> QED
    BY <1>8, <2>3, <2>4, <2>6, <2>7 DEF r, first, arg
<1>9. CASE op \notin {"on", "off", "close", "closeStream"}
  <2>1. Returned(r) = After(v) \/ Returned(r) = After(r)
    BY <1>9 DEF Returned
  <2>2. IsJob(v) /\ v.kind = r.kind /\ v.pc = r.pc /\ v.undo = r.undo /\ v.original = "user"
    BY <1>1 DEF IsJob, JobFields
  <2>3. r.pc \notin Closes(r.kind)
    BY <1>2, <1>9 DEF Closes, Places
  <2> HIDE DEF v, first
  <2>4. InPlace(r.kind, r.undo, r.pc + 1, first)
    <3>1. CASE op = "evaluate"
      BY <1>3, <3>1
    <3>2. CASE op # "evaluate"
      BY <1>1, <1>3, <1>6, <2>3, <3>2, Advances
    <3> QED
      BY <3>1, <3>2
  <2>5. /\ Tidy(After(v), first) /\ After(v).undo = r.undo /\ After(v).mode \notin Waiting
        /\ Tidy(After(r), first) /\ After(r).undo = r.undo /\ After(r).mode \notin Waiting
    BY <1>1, <2>2, <2>4, AfterTidy
  <2> QED
    BY <1>4, <1>9, <2>1, <2>5 DEF first
<1> QED
  BY <1>7, <1>8, <1>9

\* What the answer to a command leaves on the list: what is still enabled.
LEMMA AnsweredTidy ==
    ASSUME JobsInv, RestInv, NEW c, c.by \in Jobs, Meant(c), job[c.by].mode \in Waiting,
           NEW ok \in BOOLEAN,
           IF ok THEN Effect(c)
                 ELSE (~Possible(c) \/ c.step.op \notin Certain) /\ on' = on /\ lost' = lost,
           NEW q,
           q = IF job[c.by].mode = "undoing" THEN Popped(job[c.by])
               ELSE IF ok THEN Returned(job[c.by]) ELSE Failed(job[c.by])
    PROVE  LET r == job[c.by]
           IN  /\ Tidy(q, First(c.by, "window"))
               /\ Restores(r.undo) => Restores(q.undo)
               /\ \A x \in on' : Off(x) \in Listed(r.undo) => Off(x) \in Listed(q.undo)
               /\ ok /\ c.step.op \in {"on", "evaluate"} => Off(c.step.arg) \in Listed(q.undo)
<1> DEFINE r == job[c.by]
           first == First(c.by, "window")
<1>1. /\ IsJob(r) /\ r.original = "user" /\ Kept(r.kind, r.undo, first) /\ Tidy(r, first)
      /\ \A x \in Listed(r.undo) : Tidied(r.kind, x)
  BY JobTidy
<1>2. c.step.op \in {"off", "close"} /\ ok => c.step.arg \notin on'
  BY EffectOn
<1>3. CASE r.mode = "undoing"
  <2>1. /\ r.undo # <<>> /\ Head(r.undo).op \notin {"restore", "drop"}
        /\ c.step = Head(r.undo) /\ q = Popped(r)
    BY <1>1, <1>3 DEF Tidy, Meant
  <2>2. Head(r.undo) \in Listed(r.undo)
    BY <1>1, <2>1, PoppedFrom DEF Kept
  <2>3. c.step.op \in {"off", "closeStream", "reset"}
    BY <1>1, <2>1, <2>2 DEF Tidied
  <2>4. c.step.op = "off" => c.step.arg \notin on'
    <3>1. CASE ok
      BY <1>2, <3>1
    <3>2. CASE ~ok
      <4>1. (~Possible(c) \/ c.step.op \notin Certain) /\ on' = on
        BY <3>2
      <4>2. c.step.op = "off" => ~Possible(c)
        BY <4>1 DEF Certain
      <4>3. c.step.op = "off" /\ ~Possible(c) => c.step.arg \notin on
        BY DEF Possible
      <4> QED
        BY <4>1, <4>2, <4>3
    <3> QED
      BY <3>1, <3>2
  <2>5. \A x \in on' : Off(x) # Head(r.undo)
    BY <2>1, <2>4 DEF Off, Do
  <2> HIDE DEF r
  <2> QED
    BY <1>1, <2>1, <2>3, <2>5, PoppedTidy DEF r
<1>4. CASE r.mode = "wait" /\ ok
  <2>1. c.step = Here(r) /\ q = Returned(r)
    BY <1>4 DEF Meant
  <2>2. Here(r).op \in {"off", "close"} => Here(r).arg \notin on'
    BY <1>2, <1>4, <2>1
  <2> QED
    BY <1>4, <2>1, <2>2, ReturnedTidy
<1>5. CASE r.mode = "wait" /\ ~ok
  <2>1. q = Failed(r)
    BY <1>5
  <2> QED
    BY <1>1, <1>5, <2>1, FailedTidy
<1> QED
  BY <1>3, <1>4, <1>5 DEF Waiting

LEMMA ExecuteRests == ASSUME JobsInv, RestInv, Execute PROVE RestInv'
<1> DEFINE c == Head(wire)
           r == job[c.by]
<1>0. /\ wire # <<>> /\ wire' = Tail(wire) /\ WireFits /\ IsSeq(wire)
      /\ turn' = turn /\ active' = active /\ holders' = holders
  BY DEF Execute, JobsInv, WireFits
<1>1. PICK ok \in BOOLEAN :
         /\ Resume(c, ok)
         /\ IF ok THEN Effect(c)
                  ELSE (~Possible(c) \/ c.step.op \notin Certain) /\ on' = on /\ lost' = lost
  BY DEF Execute
<1>2. /\ IsSeq(wire') /\ Len(wire) > 0 /\ Len(wire') = Len(wire) - 1 /\ c = wire[1]
      /\ \A i \in 1..Len(wire') : i + 1 \in 1..Len(wire) /\ wire'[i] = wire[i + 1]
  BY <1>0, TailOf
<1>3. Len(wire) \in Nat /\ 1 \in 1..Len(wire)
  BY <1>0, <1>2 DEF IsSeq
<1>4. /\ c.by \in Jobs /\ c.live \in BOOLEAN
      /\ c.live => r.mode \in Waiting /\ Meant(c)
  BY <1>0, <1>2, <1>3 DEF WireFits, RestInv, Sent
<1> DEFINE q == IF r.mode = "undoing" THEN Popped(r) ELSE IF ok THEN Returned(r) ELSE Failed(r)
<1>5. (~c.live => job' = job) /\ (c.live => Becomes(c.by, q))
  BY <1>1 DEF Resume, Becomes
<1>6. c.live =>
        /\ Tidy(q, First(c.by, "window"))
        /\ Restores(r.undo) => Restores(q.undo)
        /\ \A x \in on' : Off(x) \in Listed(r.undo) => Off(x) \in Listed(q.undo)
        /\ ok /\ c.step.op \in {"on", "evaluate"} => Off(c.step.arg) \in Listed(q.undo)
  BY <1>1, <1>4, AnsweredTidy
<1> HIDE DEF q, c
<1>7. \A x \in on' \ lost' :
        \/ x \in on \ lost
        \/ ok /\ c.live /\ c.step.op \in {"on", "evaluate"} /\ x = c.step.arg
  <2>1. CASE ok
    BY <1>1, <2>1, EffectOn
  <2>2. CASE ~ok
    BY <1>1, <2>2
  <2> QED
    BY <2>1, <2>2
<1>8. \A i \in Jobs : First(i, "window")' <=> First(i, "window")
  BY <1>0 DEF First
<1>9. \A i \in Jobs : job'[i] = job[i] \/ (c.live /\ i = c.by /\ job'[i] = q)
  BY <1>4, <1>5, OneChanges
<1>10. ASSUME NEW i \in Jobs PROVE Tidy(job[i], First(i, "window"))'
  <2>1. Tidy(job'[i], First(i, "window"))
    BY <1>6, <1>9, JobTidy
  <2>2. Tidy(job'[i], First(i, "window")')
    BY <1>8, <2>1, SameTidy
  <2> QED
    BY <2>2 DEF Tidy, Kept, InPlace, Top, Here
<1>11. Sent'
  <2> SUFFICES ASSUME NEW i \in 1..Len(wire'), wire'[i].live PROVE Meant(wire[i])'
    BY DEF Sent
  <2>1. i + 1 \in 1..Len(wire) /\ wire'[i] = wire[i + 1] /\ i + 1 # 1 /\ wire[i + 1].live
    BY <1>2, <1>3
  <2>2. wire[i + 1].by \in Jobs /\ Meant(wire[i + 1])
    BY <1>0, <2>1 DEF WireFits, RestInv, Sent
  <2>3. c.live => wire[i + 1].by # c.by
    BY <1>0, <1>2, <1>3, <2>1 DEF WireFits
  <2>4. job'[wire[i + 1].by] = job[wire[i + 1].by]
    BY <1>9, <2>2, <2>3
  <2>5. Here(job'[wire'[i].by]) = Here(job[wire[i + 1].by])
    BY <2>1, <2>4
  <2> QED
    BY <1>0, <2>1, <2>2, <2>4, <2>5 DEF Meant, Here
<1>12. Listing'
  <2> SUFFICES ASSUME NEW x \in on' \ lost'
               PROVE  \E i \in Jobs : i \in holders' /\ Off(x) \in Listed(job'[i].undo)
    BY DEF Listing, Off, Do, Listed
  <2>1. CASE x \in on \ lost
    <3>1. PICK i \in Jobs : i \in holders /\ Off(x) \in Listed(job[i].undo)
      BY <2>1 DEF RestInv, Listing
    <3>2. Off(x) \in Listed(job'[i].undo)
      BY <1>6, <1>9, <3>1
    <3> QED
      BY <1>0, <3>1, <3>2
  <2>2. CASE ok /\ c.live /\ c.step.op \in {"on", "evaluate"} /\ x = c.step.arg
    <3>1. job'[c.by] = q
      BY <1>4, <1>5, <2>2, OneChanges
    <3>2. c.by \in holders
      BY <1>4, <2>2 DEF Meant
    <3> QED
      BY <1>0, <1>4, <1>6, <2>2, <3>1, <3>2
  <2> QED
    BY <1>7, <2>1, <2>2
<1>13. Activity'
  <2> SUFFICES ASSUME active' # "user"
               PROVE  \E i \in Jobs : First(i, "window")' /\ Restores(job'[i].undo)
    BY DEF Activity, Restores, Listed
  <2>1. PICK i \in Jobs : First(i, "window") /\ Restores(job[i].undo)
    BY <1>0 DEF RestInv, Activity
  <2>2. Restores(job'[i].undo)
    BY <1>6, <1>9, <2>1
  <2> QED
    BY <1>8, <2>1, <2>2
<1>14. Queues'
  BY <1>0 DEF RestInv, Queues
<1> QED
  BY <1>10, <1>11, <1>12, <1>13, <1>14 DEF RestInv

LEMMA InitRests == Init => RestInv
<1> SUFFICES ASSUME Init PROVE RestInv
  OBVIOUS
<1>1. PICK w \in Workloads :
         job = [j \in Jobs |->
                [kind |-> w.run[j], mode |-> IF w.run[j] = None THEN "done" ELSE "new",
                 pc |-> 1, abort |-> "no", failed |-> FALSE,
                 answer |-> IF w.run[j] = None THEN "ok" ELSE None,
                 want |-> IF w.named THEN 1 ELSE 0, pin |-> 0, reads |-> {}, undo |-> <<>>,
                 seen |-> None, original |-> "user"]]
  BY DEF Init
<1>2. ASSUME NEW j \in Jobs PROVE Tidy(job[j], First(j, "window"))
  <2> DEFINE r == job[j]
  <2>1. r.pc = 1 /\ r.undo = <<>> /\ r.original = "user" /\ r.mode \in {"new", "done"}
    BY <1>1
  <2> HIDE DEF r
  <2>2. Tidy(r, First(j, "window"))
    BY <2>1, NothingListed DEF Tidy, Kept
  <2> QED
    BY <2>2 DEF r
<1>3. Sent /\ Listing /\ Activity
  BY DEF Init, Sent, Listing, Activity
<1>4. Queues
  BY NothingListed DEF Init, Queues
<1> QED
  BY <1>2, <1>3, <1>4 DEF RestInv

LEMMA NextRests == JobsInv /\ RestInv /\ [Next]_vars => RestInv'
<1> SUFFICES ASSUME JobsInv, RestInv, [Next]_vars PROVE RestInv'
  OBVIOUS
<1>1. ASSUME NEW j \in Jobs, HandlerStep(j) PROVE RestInv'
  BY <1>1, AskRests, ActivateRests, JoinRests, EnterRests, AcquireRests, ReleaseRests, AdoptRests,
     CommitRests, SendRests, AbandonRests, ListenRests, TalkRests, UndoRests, FinishRests
     DEF HandlerStep
<1>2. ASSUME NEW j \in Jobs, Begin(j) \/ Cancel(j) \/ Timeout(j) PROVE RestInv'
  BY <1>2, BeginRests, AbortRests DEF Cancel, Timeout
<1>3. CASE UNCHANGED vars
  BY <1>3, SameRests DEF vars
<1> QED
  BY <1>1, <1>2, <1>3, ExecuteRests, SeenRests, DetachRests DEF Next

\* The invariant of the finally blocks, for every workload whose handlers close what they open.
THEOREM RestoringInvariant == Spec => []RestInv
<1>1. JobsInv /\ RestInv /\ [Next]_vars => RestInv'
  BY NextRests
<1> QED
  BY InitRests, <1>1, JobsInvariant, PTL DEF Spec

\* Whatever else it leaves behind, a request that has ended has no lease of the session.
Released == \A j \in Jobs : j \in holders => job[j].mode # "done"

\* What a step of a handler or of its finally block makes of its record, but for its end.
LEMMA NotDoneYet ==
    ASSUME NEW r, "mode" \in DOMAIN r
    PROVE  /\ After(r).mode # "done" /\ Failed(r).mode # "done" /\ Popped(r).mode # "done"
           /\ r.mode # "done" => Disowned(r).mode # "done"
<1>1. Failed(r).mode = "undo" /\ Popped(r).mode = "undo"
  BY DEF Failed, Popped
<1>2. After(r).mode \in {"undo", "run"}
  BY <1>1 DEF After
<1>3. Disowned(r).mode = r.mode
  BY DEF Disowned
<1> QED
  BY <1>1, <1>2, <1>3

\* A step that ends no request, and makes none a holder but a running one that runs on.
LEMMA LeasesKept ==
    ASSUME JobsInv, Released, NEW j \in Jobs, NEW r, Becomes(j, r), r.mode # "done",
           holders' \subseteq holders \cup {j, "emulation"}
    PROVE  Released'
BY OneChanges, JobsAssumption DEF Released

\* A step of one handler: none ends a request but Finish, whose finally block releases the lease.
LEMMA HandlerLeases == ASSUME JobsInv, Released, NEW j \in Jobs, HandlerStep(j) PROVE Released'
<1> DEFINE r == job[j]
<1>0. IsJob(r) /\ "mode" \in DOMAIN r
  BY JobFits DEF IsJob, JobFields
<1>1. CASE Ask(j)
  <2>1. "mode" \in DOMAIN Learned(r)
    BY <1>0 DEF Learned
  <2>2. holders' = holders /\ (Becomes(j, After(Learned(r))) \/ Becomes(j, Failed(r)))
    BY <1>1 DEF Ask
  <2> QED
    BY <1>0, <2>1, <2>2, NotDoneYet, LeasesKept
<1>2. CASE Activate(j)
  <2> DEFINE p == Push(r, Do("restore", r.original))
             n == [r EXCEPT !.pc = @ + 1]
  <2>1. "mode" \in DOMAIN p /\ n.mode = r.mode
    BY <1>0 DEF Push, IsJob, JobFields
  <2>2. holders' = holders /\ r.mode = "run" /\ (Becomes(j, n) \/ Becomes(j, After(p)))
    BY <1>2 DEF Activate, At
  <2> HIDE DEF p, n
  <2> QED
    BY <2>1, <2>2, NotDoneYet, LeasesKept
<1>3. CASE Join(j)
  BY <1>3 DEF Join, Released
<1>4. CASE Enter(j)
  <2>1. /\ holders' = holders
        /\ \/ Becomes(j, After(r))
           \/ After(r).mode = "run" /\ Becomes(j, Disowned(After(r)))
    BY <1>4 DEF Enter
  <2>2. "mode" \in DOMAIN After(r)
    BY <1>0 DEF After, Failed
  <2> QED
    BY <1>0, <2>1, <2>2, NotDoneYet, LeasesKept
<1>5. CASE AcquireLease(j) \/ ReleaseLease(j)
  <2>1. holders' \subseteq holders \cup {j} /\ (Becomes(j, After(r)) \/ Becomes(j, Failed(r)))
    BY <1>5, SessionEnds DEF AcquireLease, ReleaseLease
  <2> QED
    BY <1>0, <2>1, NotDoneYet, LeasesKept
<1>6. CASE Adopt(j)
  <2> DEFINE q == [r EXCEPT !.undo = ResetOperations \o <<Do("drop", None)>>]
  <2>1. "mode" \in DOMAIN q
    BY <1>0
  <2>2. /\ holders' \subseteq holders \cup {"emulation"}
        /\ Becomes(j, After(q)) \/ Becomes(j, Failed(r))
    BY <1>6 DEF Adopt
  <2> HIDE DEF q
  <2> QED
    BY <1>0, <2>1, <2>2, NotDoneYet, LeasesKept
<1>7. CASE Commit(j)
  <2> DEFINE q == [After(r) EXCEPT !.undo = <<>>]
  <2>1. holders' = holders /\ (Becomes(j, q) \/ Becomes(j, Failed(r)))
    BY <1>7 DEF Commit
  <2>2. q.mode = After(r).mode
    BY <1>0 DEF After, Failed, IsJob, JobFields
  <2> HIDE DEF q
  <2> QED
    BY <1>0, <2>1, <2>2, NotDoneYet, LeasesKept
<1>8. CASE Send(j)
  <2>1. PICK q : /\ q = r \/ q = Push(r, Off(Here(r).arg))
                 /\ holders' = holders
                 /\ \/ Becomes(j, After(Without(q, Here(r).arg)))
                    \/ Becomes(j, Failed(q))
                    \/ Becomes(j, [q EXCEPT !.mode = "wait"])
    BY <1>8 DEF Send
  <2>2. "mode" \in DOMAIN q /\ "mode" \in DOMAIN Without(q, Here(r).arg)
    BY <1>0, <2>1 DEF Push, Without
  <2>3. [q EXCEPT !.mode = "wait"].mode = "wait"
    BY <2>2
  <2> QED
    BY <2>1, <2>2, <2>3, NotDoneYet, LeasesKept
<1>9. CASE Abandon(j)
  BY <1>0, <1>9, NotDoneYet, LeasesKept DEF Abandon
<1>10. CASE Listen(j)
  <2> DEFINE p == Push(r, Do("closeStream", None))
             q == [r EXCEPT !.reads = @ \cup {doc}]
  <2>1. "mode" \in DOMAIN p /\ "mode" \in DOMAIN q
    BY <1>0 DEF Push
  <2>2. /\ holders' = holders
        /\ \/ Becomes(j, After(p)) \/ Becomes(j, After(q)) \/ Becomes(j, After(r))
           \/ Becomes(j, Failed(r))
    BY <1>10 DEF Listen
  <2> HIDE DEF p, q
  <2> QED
    BY <1>0, <2>1, <2>2, NotDoneYet, LeasesKept
<1>11. CASE TalkToPage(j)
  <2> DEFINE p == [r EXCEPT !.reads = @ \cup {doc}]
  <2>1. "mode" \in DOMAIN p
    BY <1>0
  <2>2. holders' = holders /\ (Becomes(j, After(p)) \/ Becomes(j, After(r)) \/ Becomes(j, Failed(r)))
    BY <1>11 DEF TalkToPage
  <2> HIDE DEF p
  <2> QED
    BY <1>0, <2>1, <2>2, NotDoneYet, LeasesKept
<1>12. CASE Undo(j)
  <2> DEFINE p == [r EXCEPT !.mode = "undoing"]
  <2>1. p.mode = "undoing"
    BY <1>0
  <2>2. holders' \subseteq holders /\ (Becomes(j, Popped(r)) \/ Becomes(j, p))
    BY <1>12, SessionEnds DEF Undo
  <2> HIDE DEF p
  <2> QED
    BY <1>0, <2>1, <2>2, NotDoneYet, LeasesKept
<1>13. CASE Finish(j)
  <2>1. holders' = holders \ {j} /\ \A i \in Jobs \ {j} : job'[i] = job[i]
    BY <1>13, SessionEnds, OneChanges DEF Finish
  <2> QED
    BY <2>1 DEF Released
<1> HIDE DEF r
<1> QED
  BY <1>1, <1>2, <1>3, <1>4, <1>5, <1>6, <1>7, <1>8, <1>9, <1>10, <1>11, <1>12, <1>13
     DEF HandlerStep

\* Steps that the requests only hear of.
LEMMA HeardLeases ==
    ASSUME JobsInv, Released, Execute \/ Complete \/ Navigate \/ Detach
    PROVE  Released'
<1>0. \A i \in Jobs : IsJob(job[i]) /\ "mode" \in DOMAIN job[i]
  BY JobFits DEF IsJob, JobFields
<1>1. CASE Execute
  <2> DEFINE c == Head(wire)
             q == job[c.by]
  <2>1. holders' = holders /\ (Resume(c, TRUE) \/ Resume(c, FALSE))
    BY <1>1 DEF Execute
  <2> HIDE DEF c
  <2>2. ASSUME NEW i \in Jobs PROVE job'[i] = job[i] \/ job'[i].mode # "done"
    <3>1. "mode" \in DOMAIN job[i] /\ i \in DOMAIN job
      BY <1>0 DEF JobsInv
    <3>2. \/ job'[i] = job[i] \/ job'[i] = Popped(job[i]) \/ job'[i] = Returned(job[i])
          \/ job'[i] = Failed(job[i])
      BY <2>1, <3>1 DEF Resume
    <3>3. Returned(job[i]).mode # "done"
      <4>1. PICK p : Returned(job[i]) = After(p) /\ "mode" \in DOMAIN p
        BY <3>1 DEF Returned, Push, Without
      <4> QED
        BY <4>1, NotDoneYet
    <3> QED
      BY <3>1, <3>2, <3>3, NotDoneYet
  <2> QED
    BY <2>1, <2>2 DEF Released
<1>2. CASE Complete \/ Navigate
  <2>1. holders' = holders /\ \A i \in Jobs : job'[i].mode = job[i].mode
    BY <1>0, <1>2 DEF Complete, Navigate, IsJob, JobFields
  <2> QED
    BY <2>1 DEF Released
<1>3. CASE Detach
  BY <1>3, SessionEnds DEF Detach, Released
<1> QED
  BY <1>1, <1>2, <1>3

LEMMA LeasesStep == ASSUME JobsInv, Released, [Next]_vars PROVE Released'
<1>1. ASSUME NEW j \in Jobs, Begin(j) \/ Cancel(j) \/ Timeout(j) PROVE Released'
  <2> DEFINE b == [job[j] EXCEPT !.mode = "run", !.want = IF @ = 0 THEN 0 ELSE doc]
  <2>1. IsJob(job[j]) /\ "mode" \in DOMAIN job[j]
    BY JobFits DEF IsJob, JobFields
  <2>2. CASE Begin(j)
    <3>1. b.mode = "run"
      BY <2>1
    <3>2. Becomes(j, b) /\ holders' = holders
      BY <2>2 DEF Begin
    <3> HIDE DEF b
    <3> QED
      BY <3>1, <3>2, LeasesKept
  <2>3. ASSUME NEW why, Abort(j, why) PROVE Released'
    <3> DEFINE a == [job[j] EXCEPT !.abort = why,
                        !.answer = IF Races(job[j].kind) /\ job[j].pc > 1 THEN "error" ELSE @]
    <3>1. a.mode = job[j].mode
      BY <2>1 DEF IsJob, JobFields
    <3>2. Becomes(j, a) /\ holders' = holders
      BY <2>3 DEF Abort
    <3> HIDE DEF a
    <3> QED
      BY <3>1, <3>2, OneChanges DEF Released
  <2> QED
    BY <1>1, <2>2, <2>3 DEF Cancel, Timeout
<1>2. CASE UNCHANGED vars
  BY <1>2 DEF vars, Released
<1> QED
  BY <1>1, <1>2, HandlerLeases, HeardLeases DEF Next

\* The lease that the finally block of a handler releases is not taken again.
LEMMA LeasesInvariant == Spec => []Released
<1>1. Init => Released
  BY JobsAssumption DEF Init, Released
<1>2. JobsInv /\ Released /\ [Next]_vars => Released'
  BY LeasesStep
<1> QED
  BY <1>1, <1>2, JobsInvariant, PTL DEF Spec

\* When every request has ended, none has a lease, and what is still enabled in the session, which
\* another consumer then keeps, is in lost: enabled by a command that its handler had stopped
\* waiting for, or a button that a cancelled click left pressed; and the user's tab is active.  So
\* no cancellation, failure or detach at any await of any handler, in any order with the others,
\* makes a finally block miss what it has to undo.  The streams of traces are not meant.
THEOREM BrowserIsRestored == Spec => []BrowserRestored
<1>1. RestInv /\ Released => BrowserRestored
  <2> SUFFICES ASSUME RestInv, Released, \A j \in Jobs : Done(j)
               PROVE  holders \cap Jobs = {} /\ on \subseteq lost /\ active = "user"
    BY DEF BrowserRestored
  <2>1. \A j \in Jobs : job[j].undo = <<>>
    BY DEF RestInv, Tidy, Done
  <2>2. \A j \in Jobs : Listed(job[j].undo) = {} /\ ~Restores(job[j].undo)
    BY <2>1, NothingListed
  <2>3. on \subseteq lost /\ active = "user"
    BY <2>2 DEF RestInv, Listing, Activity
  <2> QED
    BY <2>3 DEF Released, Done
<1> QED
  BY <1>1, RestoringInvariant, LeasesInvariant, PTL

-----------------------------------------------------------------------------
(* What the finally blocks of emulation.js undo.                           *)

Drops(s) == \E u \in Listed(s) : u.op = "drop"
Adopts(kind) == Places(kind, {"adopt"}) # {}
Committed(kind, top) == \E c \in Places(kind, {"commit"}) : c < top
Active(r) == r.mode \in {"run", "wait"}

\* A reset that failed: whatever it left is reported as spoiled.
Exempt(r) == r.kind = "reset" /\ r.failed
Busy(r) == Drops(r.undo) \/ Exempt(r)

\* The list of such a handler ends with the dropping of the tab's state; before that are the resets
\* of a replacement.
Overriding(kind, s) ==
    /\ \A u \in Listed(s) : u.op = "drop" \/ (Adopts(kind) /\ u = Do("reset", u.arg))
    /\ \A k \in 1..Len(s) : s[k].op = "drop" <=> k = Len(s)

\* A handler that has come to top, and is in its turn if first holds.
Started(kind, s, top, first) ==
    /\ \A l \in Places(kind, {"lock"}) : l < top /\ Steps[kind][l].arg = "tab" => first
    /\ (\E a \in Places(kind, {"adopt", "disown"}) : a < top) /\ ~Committed(kind, top) => Drops(s)
    /\ Adopts(kind) /\ Drops(s) => \A g \in 1..Len(Groups) : Do("reset", g) \in Listed(s)

Recorded(r, first) ==
    IF Emulates(r.kind)
    THEN /\ Overriding(r.kind, r.undo)
         /\ Drops(r.undo) => first
         /\ r.mode \in {"new", "run", "wait"} => ~r.failed
         /\ Active(r) =>
              /\ r.pc <= Len(Steps[r.kind]) => Started(r.kind, r.undo, r.pc, first)
              /\ Committed(r.kind, r.pc) => r.undo = <<>>
    ELSE \A u \in Listed(r.undo) : u.op \notin {"reset", "drop"}

\* The commands that change overrides; Noise is of handlers that no longer wait for them.
Emulating(c) == c.step.op \in {"set", "reset"}
Traffic == \E i \in 1..Len(wire) : Emulating(wire[i])
Noise == \E i \in 1..Len(wire) : Emulating(wire[i]) /\ ~wire[i].live

\* The groups that a handler, or its finally block, has reset, and what it has set them to since.
Handled(r) == {g \in 1..Len(Groups) :
                 IF Active(r) THEN \E p \in Places(r.kind, {"reset"}) :
                                      p < r.pc /\ Steps[r.kind][p].arg = g
                              ELSE Do("reset", g) \notin Listed(r.undo)}
Intended(r, g) ==
    IF Active(r) /\ \E s \in Places(r.kind, {"set"}) : s < r.pc /\ Steps[r.kind][s].arg = g
    THEN r.kind ELSE None

\* The overrides while a handler changes them.
Standing(r) ==
    IF "emulation" \in holders
    THEN /\ \A g \in Handled(r) : overrides[g] = Intended(r, g)
         /\ Noise => Handled(r) = {}
    ELSE overrides = NoSettings /\ ~Traffic
Working == \A j \in Jobs : Drops(job[j].undo) /\ ~Exempt(job[j]) => Standing(job[j])

\* The overrides while nobody does.
Calm == (\A j \in Jobs : First(j, "tab") => ~Busy(job[j])) => spoiled \/ (overrides = emulated /\ ~Traffic)

\* A command that is waited for is of the handler in its turn, and comes after the others.
Ordered ==
    /\ \A i \in 1..Len(wire) : Emulating(wire[i]) /\ wire[i].live =>
          First(wire[i].by, "tab") /\ Drops(job[wire[i].by].undo)
    /\ \A i, k \in 1..Len(wire) :
          (Emulating(wire[i]) /\ ~wire[i].live) /\ (Emulating(wire[k]) /\ wire[k].live) => i < k

Settled == /\ overrides = [g \in 1..Len(Groups) |-> overrides[g]]
           /\ "emulation" \notin holders => emulated = NoSettings

TruthInv ==
    /\ \A j \in Jobs : Recorded(job[j], First(j, "tab"))
    /\ Ordered /\ Calm /\ Working /\ Settled

LEMMA EmptyIs == ASSUME NEW s, IsSeq(s), Len(s) = 0 PROVE s = <<>>
<1>1. s = [i \in 1..0 |-> s[i]] /\ <<>> = [i \in 1..0 |-> s[i]]
  BY DEF IsSeq
<1> QED
  BY <1>1

LEMMA NothingDrops == ~Drops(<<>>) /\ \A kind : Overriding(kind, <<>>)
<1>1. Len(<<>>) = 0 /\ \A k : k \notin 1..0
  OBVIOUS
<1> QED
  BY <1>1, NothingListed DEF Drops, Overriding

\* The list without its first step.
LEMMA OverridingPop ==
    ASSUME NEW kind, NEW s, IsSeq(s), s # <<>>, Overriding(kind, s)
    PROVE  /\ Overriding(kind, Tail(s)) /\ Drops(s)
           /\ Head(s).op # "drop" =>
                Adopts(kind) /\ Head(s) = Do("reset", Head(s).arg) /\ Drops(Tail(s))
           /\ Head(s).op = "drop" => Tail(s) = <<>> /\ Listed(s) = {Head(s)}
<1> DEFINE t == Tail(s)
<1>1. /\ IsSeq(t) /\ Len(s) \in Nat /\ Len(s) > 0 /\ Len(t) = Len(s) - 1 /\ Head(s) = s[1]
      /\ \A i \in 1..Len(t) : i + 1 \in 1..Len(s) /\ t[i] = s[i + 1]
  BY TailOf DEF IsSeq
<1>2. Listed(t) \subseteq Listed(s) /\ Listed(s) \subseteq Listed(t) \cup {Head(s)} /\ Head(s) \in Listed(s)
  BY PoppedFrom
<1> HIDE DEF t
<1>3. \A k \in 1..Len(s) : s[k].op = "drop" <=> k = Len(s)
  BY DEF Overriding
<1>4. 1 \in 1..Len(s) /\ Len(s) \in 1..Len(s)
  BY <1>1
<1>5. \A i \in 1..Len(t) : t[i].op = "drop" <=> i = Len(t)
  <2> TAKE i \in 1..Len(t)
  <2>1. t[i] = s[i + 1] /\ i + 1 \in 1..Len(s)
    BY <1>1
  <2>2. i + 1 = Len(s) <=> i = Len(t)
    BY <1>1
  <2> QED
    BY <1>3, <2>1, <2>2
<1>6. Overriding(kind, t)
  BY <1>2, <1>5 DEF Overriding
<1>7. Drops(s)
  BY <1>3, <1>4 DEF Drops, Listed
<1>8. ASSUME Head(s).op # "drop"
      PROVE  Adopts(kind) /\ Head(s) = Do("reset", Head(s).arg) /\ Drops(t)
  <2>1. Len(t) \in 1..Len(t)
    BY <1>1, <1>3, <1>4, <1>8
  <2>2. Drops(t)
    BY <1>5, <2>1 DEF Drops, Listed
  <2> QED
    BY <1>2, <1>8, <2>2 DEF Overriding
<1>9. ASSUME Head(s).op = "drop" PROVE t = <<>> /\ Listed(s) = {Head(s)}
  <2>1. Len(t) = 0
    BY <1>1, <1>3, <1>4, <1>9
  <2>2. t = <<>>
    BY <1>1, <2>1, EmptyIs
  <2> QED
    BY <1>2, <2>2, NothingListed
<1> QED
  BY <1>6, <1>7, <1>8, <1>9 DEF t

\* What a step of a request leaves of its share in the overrides, held the state's lease or not.
Leads(r, q, first, held) ==
    /\ Recorded(q, first) /\ (Drops(q.undo) <=> Drops(r.undo)) /\ (Exempt(r) => Exempt(q))
    /\ Drops(q.undo) /\ ~Exempt(q) =>
         \/ ~held
         \/ Handled(q) \subseteq Handled(r) /\ \A g \in Handled(q) : Intended(q, g) = Intended(r, g)

LEMMA SameLeads ==
    ASSUME NEW r, NEW first, Recorded(r, first), NEW q, q.kind = r.kind, q.mode = r.mode,
           q.pc = r.pc, q.undo = r.undo, q.failed = r.failed, NEW then, first => then, NEW held
    PROVE  Leads(r, q, then, held)
<1>1. Recorded(q, then)
  BY DEF Recorded, Started, Active
<1>2. Handled(q) = Handled(r) /\ \A g : Intended(q, g) = Intended(r, g)
  BY DEF Handled, Intended, Active
<1>3. (Drops(q.undo) <=> Drops(r.undo)) /\ (Exempt(r) <=> Exempt(q))
  BY DEF Exempt
<1> QED
  BY <1>1, <1>2, <1>3 DEF Leads

\* The steps that emulation.js is about.
Emulations == {"adopt", "disown", "commit", "set", "reset"}

\* What another step makes of a request: for the handlers of emulation.js, it fails, waits or goes on.
Goes(r, q) ==
    /\ q.kind = r.kind /\ (r.failed => q.failed)
    /\ ~Emulates(r.kind) =>
         \A u \in Listed(q.undo) : u \in Listed(r.undo) \/ u.op \notin {"reset", "drop"}
    /\ Emulates(r.kind) =>
         /\ q.undo = r.undo /\ Active(r) /\ r.pc <= Len(Steps[r.kind])
         /\ \/ q.mode = "undo" /\ q.failed
            \/ Active(q) /\ q.failed = r.failed /\ q.pc = r.pc
            \/ Active(q) /\ q.failed = r.failed /\ q.pc = r.pc + 1 /\ Here(r).op \notin Emulations

LEMMA GoesLeads ==
    ASSUME NEW r, r.kind \in Kinds, r.pc \in Nat, r.pc > 0, NEW first, Recorded(r, first), NEW q,
           Goes(r, q), NEW held, Emulates(r.kind) /\ Here(r).op = "lock" /\ Here(r).arg = "tab" => first
    PROVE  Leads(r, q, first, held)
<1>1. q.kind = r.kind /\ (Exempt(r) => Exempt(q))
  BY DEF Goes, Exempt
<1>2. CASE ~Emulates(r.kind)
  <2>1. \A u \in Listed(r.undo) : u.op \notin {"reset", "drop"}
    BY <1>2 DEF Recorded
  <2>2. \A u \in Listed(q.undo) : u.op \notin {"reset", "drop"}
    BY <1>2, <2>1 DEF Goes
  <2>3. ~Drops(r.undo) /\ ~Drops(q.undo)
    BY <2>1, <2>2 DEF Drops
  <2> QED
    BY <1>1, <1>2, <2>2, <2>3 DEF Leads, Recorded
<1>3. CASE Emulates(r.kind)
  <2>0. q.undo = r.undo /\ Active(r) /\ r.pc <= Len(Steps[r.kind])
    BY <1>3 DEF Goes
  <2>1. /\ Overriding(r.kind, r.undo) /\ (Drops(r.undo) => first) /\ ~r.failed
        /\ Started(r.kind, r.undo, r.pc, first) /\ (Committed(r.kind, r.pc) => r.undo = <<>>)
    BY <1>3, <2>0 DEF Recorded, Active
  <2>2. CASE q.mode = "undo" /\ q.failed
    <3>1. ~Active(q) /\ q.mode \notin {"new", "run", "wait"}
      BY <2>2 DEF Active
    <3>2. Recorded(q, first)
      BY <1>1, <1>3, <2>0, <2>1, <3>1 DEF Recorded
    <3>3. Drops(q.undo) /\ ~Exempt(q) => Handled(q) = {}
      <4> SUFFICES ASSUME Drops(q.undo), ~Exempt(q) PROVE Handled(q) = {}
        OBVIOUS
      <4>1. r.kind # "reset"
        BY <1>1, <2>2 DEF Exempt
      <4>2. Adopts(r.kind)
        BY <1>3, <4>1, EmulationAssumption DEF Adopts, Emulates, Places
      <4>3. \A g \in 1..Len(Groups) : Do("reset", g) \in Listed(q.undo)
        BY <2>0, <2>1, <4>2 DEF Started
      <4> QED
        BY <3>1, <4>3 DEF Handled
    <3> QED
      BY <1>1, <2>0, <3>2, <3>3 DEF Leads
  <2>3. CASE Active(q) /\ q.failed = r.failed /\ q.pc = r.pc
    <3>1. Recorded(q, first)
      BY <1>1, <1>3, <2>0, <2>1, <2>3 DEF Recorded
    <3>2. Handled(q) = Handled(r) /\ \A g : Intended(q, g) = Intended(r, g)
      BY <1>1, <2>0, <2>3 DEF Handled, Intended
    <3> QED
      BY <1>1, <2>0, <3>1, <3>2 DEF Leads
  <2>4. CASE Active(q) /\ q.failed = r.failed /\ q.pc = r.pc + 1 /\ Here(r).op \notin Emulations
    <3>1. \A ops : \A p \in Places(r.kind, ops) : p \in Nat
      BY PlacesAreNumbers
    <3>2. /\ r.pc \notin Places(r.kind, {"adopt", "disown"}) /\ r.pc \notin Places(r.kind, {"commit"})
          /\ r.pc \notin Places(r.kind, {"set"}) /\ r.pc \notin Places(r.kind, {"reset"})
      BY <2>4, NotThere DEF Emulations
    <3>3. \A p \in Nat : p < q.pc <=> p < r.pc \/ p = r.pc
      BY <2>4
    <3>4. Committed(q.kind, q.pc) <=> Committed(r.kind, r.pc)
      BY <1>1, <3>1, <3>2, <3>3 DEF Committed
    <3>5. \A l \in Places(r.kind, {"lock"}) : l < q.pc /\ Steps[r.kind][l].arg = "tab" => first
      <4> SUFFICES ASSUME NEW l \in Places(r.kind, {"lock"}), l < q.pc, Steps[r.kind][l].arg = "tab"
                   PROVE  first
        OBVIOUS
      <4>1. CASE l < r.pc
        BY <2>1, <4>1 DEF Started
      <4>2. CASE l = r.pc
        BY <1>3, <4>2 DEF Here, Places
      <4> QED
        BY <3>1, <3>3, <4>1, <4>2
    <3>6. (\E a \in Places(r.kind, {"adopt", "disown"}) : a < q.pc) =>
             \E a \in Places(r.kind, {"adopt", "disown"}) : a < r.pc
      BY <3>1, <3>2, <3>3
    <3>7. Started(q.kind, q.undo, q.pc, first)
      BY <1>1, <2>0, <2>1, <3>4, <3>5, <3>6 DEF Started
    <3>8. Recorded(q, first)
      BY <1>1, <1>3, <2>0, <2>1, <2>4, <3>4, <3>7 DEF Recorded
    <3>9. Handled(q) = Handled(r)
      BY <1>1, <2>0, <2>4, <3>1, <3>2, <3>3 DEF Handled
    <3>10. \A g : Intended(q, g) = Intended(r, g)
      BY <1>1, <2>0, <2>4, <3>1, <3>2, <3>3 DEF Intended
    <3> QED
      BY <1>1, <2>0, <3>8, <3>9, <3>10 DEF Leads
  <2> QED
    BY <1>3, <2>2, <2>3, <2>4 DEF Goes
<1> QED
  BY <1>2, <1>3

-----------------------------------------------------------------------------
(* The parts of the invariant, as requests take steps.                     *)

\* No command about overrides is added to the wire, and at most the first is taken from it.
Shrinks ==
    \E d \in {0, 1} : \A i \in 1..Len(wire') :
       Emulating(wire'[i]) => i + d \in 1..Len(wire) /\ wire'[i] = wire[i + d]

LEMMA TrafficShrinks ==
    ASSUME Shrinks, NEW i \in 1..Len(wire'), Emulating(wire'[i])
    PROVE  Traffic /\ (~wire'[i].live => Noise)
BY DEF Shrinks, Traffic, Noise

LEMMA OrderShrinks ==
    ASSUME JobsInv, Ordered, Shrinks,
           \A i \in Jobs : First(i, "tab") /\ Drops(job[i].undo) => First(i, "tab")' /\ Drops(job'[i].undo)
    PROVE  Ordered'
<1>1. PICK d \in {0, 1} : \A i \in 1..Len(wire') :
         Emulating(wire'[i]) => i + d \in 1..Len(wire) /\ wire'[i] = wire[i + d]
  BY DEF Shrinks
<1>2. ASSUME NEW i \in 1..Len(wire'), Emulating(wire'[i]), wire'[i].live
      PROVE  \E b \in Jobs : b = wire'[i].by /\ First(b, "tab")' /\ Drops(job'[b].undo)
  <2>1. i + d \in 1..Len(wire) /\ wire'[i] = wire[i + d]
    BY <1>1, <1>2
  <2>2. wire[i + d].by \in Jobs
    BY <2>1 DEF JobsInv, WireFits
  <2>3. First(wire[i + d].by, "tab") /\ Drops(job[wire[i + d].by].undo)
    BY <1>2, <2>1 DEF Ordered
  <2>4. PICK b \in Jobs : b = wire[i + d].by
    BY <2>2
  <2>5. First(b, "tab")' /\ Drops(job'[b].undo)
    BY <2>3, <2>4
  <2> QED
    BY <2>1, <2>4, <2>5
<1>3. ASSUME NEW i \in 1..Len(wire'), NEW k \in 1..Len(wire'),
             Emulating(wire'[i]), ~wire'[i].live, Emulating(wire'[k]), wire'[k].live
      PROVE  i < k
  <2>1. /\ i + d \in 1..Len(wire) /\ wire'[i] = wire[i + d]
        /\ k + d \in 1..Len(wire) /\ wire'[k] = wire[k + d]
    BY <1>1, <1>3
  <2>2. i + d < k + d
    BY <1>3, <2>1 DEF Ordered
  <2> QED
    BY <2>2
<1>4. \A i \in 1..Len(wire') : Emulating(wire'[i]) /\ wire'[i].live =>
         First(wire[i].by, "tab")' /\ Drops(job'[wire'[i].by].undo)
  BY <1>2 DEF First
<1>5. \A i, k \in 1..Len(wire') : (Emulating(wire'[i]) /\ ~wire'[i].live)
                                  /\ (Emulating(wire'[k]) /\ wire'[k].live) => i < k
  BY <1>3
<1> QED
  BY <1>4, <1>5 DEF Ordered, Emulating, Drops, Listed

\* What the invariant says of a request in the next state.
LEMMA RecordedThen ==
    ASSUME \A i \in Jobs : Recorded(job'[i], First(i, "tab")')
    PROVE  (\A i \in Jobs : Recorded(job[i], First(i, "tab")))'
BY DEF Recorded, Overriding, Started, Drops, Listed, Active, Committed

LEMMA SameHandling ==
    ASSUME NEW i \in Jobs
    PROVE  /\ Handled(job[i])' = Handled(job'[i])
           /\ \A g : Intended(job[i], g)' = Intended(job'[i], g)
           /\ Exempt(job[i])' <=> Exempt(job'[i])
           /\ Drops(job[i].undo)' <=> Drops(job'[i].undo)
           /\ Busy(job[i])' <=> Drops(job'[i].undo) \/ Exempt(job'[i])
BY DEF Handled, Intended, Exempt, Drops, Busy, Active, Listed

\* A step that changes no overrides.
LEMMA TruthKeeps ==
    ASSUME JobsInv, TruthInv, emulated' = emulated, overrides' = overrides, Shrinks,
           "emulation" \in holders' <=> "emulation" \in holders,
           \A i \in Jobs : Leads(job[i], job'[i], First(i, "tab")', "emulation" \in holders'),
           \A i \in Jobs : First(i, "tab") /\ Drops(job[i].undo) => First(i, "tab")',
           spoiled => spoiled',
           spoiled' \/ \A i \in Jobs : First(i, "tab") /\ Busy(job[i]) => First(i, "tab")'
    PROVE  TruthInv'
<1>1. /\ \A i \in Jobs : Recorded(job'[i], First(i, "tab")')
      /\ \A i \in Jobs : Drops(job'[i].undo) <=> Drops(job[i].undo)
      /\ \A i \in Jobs : Exempt(job[i]) => Exempt(job'[i])
  BY DEF Leads
<1>2. Ordered'
  BY <1>1, OrderShrinks DEF TruthInv
<1>3. (Traffic' => Traffic) /\ (Noise' => Noise)
  BY TrafficShrinks DEF Traffic, Noise
<1>4. Calm'
  <2> SUFFICES ASSUME \A i \in Jobs : First(i, "tab")' => ~Busy(job[i])', ~spoiled'
               PROVE  overrides' = emulated' /\ ~Traffic'
    BY DEF Calm
  <2>1. ASSUME NEW i \in Jobs, First(i, "tab") PROVE ~Busy(job[i])
    <3> SUFFICES ASSUME Busy(job[i]) PROVE FALSE
      OBVIOUS
    <3>1. First(i, "tab")'
      BY <2>1
    <3>2. ~Drops(job'[i].undo) /\ ~Exempt(job'[i])
      BY <3>1, SameHandling
    <3> QED
      BY <1>1, <3>2 DEF Busy
  <2> QED
    BY <1>3, <2>1 DEF TruthInv, Calm
<1>5. ASSUME NEW i \in Jobs, Drops(job'[i].undo), ~Exempt(job'[i]) PROVE Standing(job[i])'
  <2>1. Standing(job[i])
    BY <1>1, <1>5 DEF TruthInv, Working
  <2>2. CASE "emulation" \in holders
    <3>1. \/ "emulation" \notin holders'
          \/ /\ Handled(job'[i]) \subseteq Handled(job[i])
             /\ \A g \in Handled(job'[i]) : Intended(job'[i], g) = Intended(job[i], g)
      BY <1>5 DEF Leads
    <3>2. \A g \in Handled(job'[i]) : overrides'[g] = Intended(job'[i], g)
      BY <2>1, <2>2, <3>1 DEF Standing
    <3>3. Noise' => Handled(job'[i]) = {}
      BY <1>3, <2>1, <2>2, <3>1 DEF Standing
    <3> QED
      BY <2>2, <3>2, <3>3, SameHandling DEF Standing
  <2>3. CASE "emulation" \notin holders
    BY <1>3, <2>1, <2>3 DEF Standing, NoSettings
  <2> QED
    BY <2>2, <2>3
<1>6. Working'
  BY <1>5, SameHandling DEF Working
<1>7. Settled'
  BY DEF TruthInv, Settled, NoSettings
<1>8. (\A i \in Jobs : Recorded(job[i], First(i, "tab")))'
  BY <1>1, RecordedThen
<1> QED
  BY <1>2, <1>4, <1>6, <1>7, <1>8 DEF TruthInv

\* A step that ends the session.
LEMMA TruthEnds ==
    ASSUME \A i \in Jobs : Recorded(job'[i], First(i, "tab")'),
           overrides' = NoSettings, emulated' = NoSettings, wire' = <<>>, "emulation" \notin holders'
    PROVE  TruthInv'
<1>1. ~Traffic' /\ Ordered'
  BY DEF Traffic, Ordered
<1>2. Calm'
  BY <1>1 DEF Calm
<1>3. \A i \in Jobs : Standing(job[i])'
  BY <1>1 DEF Standing, NoSettings
<1>4. Working'
  BY <1>3 DEF Working
<1>5. Settled'
  BY DEF Settled, NoSettings
<1>6. (\A i \in Jobs : Recorded(job[i], First(i, "tab")))'
  BY RecordedThen
<1> QED
  BY <1>1, <1>2, <1>4, <1>5, <1>6 DEF TruthInv

\* A step during which the request in its turn changes overrides.
LEMMA TruthBusy ==
    ASSUME \A i \in Jobs : Recorded(job'[i], First(i, "tab")'), Ordered',
           NEW j \in Jobs, First(j, "tab")', Drops(job'[j].undo),
           ~Exempt(job'[j]) => Standing(job[j])',
           overrides' = [g \in 1..Len(Groups) |-> overrides'[g]],
           "emulation" \notin holders' => emulated' = NoSettings
    PROVE  TruthInv'
<1>1. ~Calm' => FALSE
  BY SameHandling DEF Calm
<1>2. \A i \in Jobs : Drops(job'[i].undo) => i = j
  <2> SUFFICES ASSUME NEW i \in Jobs, Drops(job'[i].undo) PROVE i = j
    OBVIOUS
  <2>1. First(i, "tab")'
    <3>1. CASE Emulates(job'[i].kind)
      BY <3>1 DEF Recorded
    <3>2. CASE ~Emulates(job'[i].kind)
      BY <3>2 DEF Recorded, Drops
    <3> QED
      BY <3>1, <3>2
  <2> QED
    BY <2>1 DEF First
<1>3. Working'
  BY <1>2, SameHandling DEF Working
<1>4. Settled'
  BY DEF Settled, NoSettings
<1>5. (\A i \in Jobs : Recorded(job[i], First(i, "tab")))'
  BY RecordedThen
<1> QED
  BY <1>1, <1>3, <1>4, <1>5 DEF TruthInv

-----------------------------------------------------------------------------
(* The steps that are none of emulation.js.                                *)

\* x is r but for what it has learned, and for what emulation.js has no part in.
Beside(r, x) ==
    /\ IsJob(x) /\ x.kind = r.kind /\ x.pc = r.pc /\ x.failed = r.failed
    /\ Emulates(r.kind) => x.undo = r.undo
    /\ ~Emulates(r.kind) =>
         \A u \in Listed(x.undo) : u \in Listed(r.undo) \/ u.op \notin {"reset", "drop"}

LEMMA RunIsActive == ASSUME NEW r, r.mode \in {"run", "wait"} PROVE Active(r)
BY DEF Active

LEMMA AfterGoes ==
    ASSUME NEW r, NEW x, Beside(r, x), Active(r), r.pc <= Len(Steps[r.kind])
    PROVE  /\ Goes(r, Failed(x)) /\ (Here(r).op \notin Emulations => Goes(r, After(x)))
           /\ \A q : q.kind = x.kind /\ q.undo = x.undo /\ q.mode = "wait"
                       /\ q.failed = x.failed /\ q.pc = x.pc => Goes(r, q)
<1> DEFINE f == Failed(x)
           n == [x EXCEPT !.pc = @ + 1, !.mode = "run"]
<1>1. /\ f.kind = r.kind /\ f.undo = x.undo /\ f.mode = "undo" /\ f.failed
      /\ n.kind = r.kind /\ n.undo = x.undo /\ n.mode = "run" /\ n.failed = r.failed /\ n.pc = r.pc + 1
  BY DEF Failed, IsJob, JobFields, Beside
<1>2. After(x) = f \/ After(x) = n
  BY DEF After
<1> HIDE DEF f, n
<1>3. Goes(r, f)
  BY <1>1 DEF Goes, Beside
<1>4. Active(n)
  BY <1>1 DEF Active
<1>5. ASSUME NEW q, q.kind = x.kind, q.undo = x.undo, q.mode = "wait", q.failed = x.failed, q.pc = x.pc
      PROVE  Goes(r, q)
  BY <1>5, RunIsActive DEF Goes, Beside
<1>6. Here(r).op \notin Emulations => Goes(r, n)
  BY <1>1, <1>4 DEF Goes, Beside
<1>7. Goes(r, Failed(x)) /\ (Here(r).op \notin Emulations => Goes(r, After(x)))
  BY <1>2, <1>3, <1>6 DEF f
<1> QED
  BY <1>5, <1>7

LEMMA SameGoes ==
    ASSUME NEW r, IsJob(r), Active(r), r.pc <= Len(Steps[r.kind]), NEW x, IsJob(x),
           x.kind = r.kind, x.pc = r.pc, x.failed = r.failed, x.undo = r.undo
    PROVE  Goes(r, Failed(x)) /\ (Here(r).op \notin Emulations => Goes(r, After(x)))
<1>1. Beside(r, x)
  BY DEF Beside
<1> QED
  BY <1>1, AfterGoes

LEMMA JobsLead ==
    ASSUME JobsInv, TruthInv, NEW j \in Jobs, NEW q, Becomes(j, q), NEW held,
           Leads(job[j], q, First(j, "tab"), held), turn' = turn
    PROVE  /\ \A i \in Jobs : Leads(job[i], job'[i], First(i, "tab")', held)
           /\ \A i \in Jobs : First(i, "tab")' <=> First(i, "tab")
<1>1. \A i \in Jobs : First(i, "tab")' <=> First(i, "tab")
  BY DEF First
<1>2. ASSUME NEW i \in Jobs PROVE Leads(job[i], job'[i], First(i, "tab"), held)
  <2>1. CASE i = j
    BY <2>1, OneChanges
  <2>2. CASE i # j
    <3>1. job'[i] = job[i] /\ Recorded(job[i], First(i, "tab"))
      BY <2>2, OneChanges DEF TruthInv
    <3>2. Leads(job[i], job[i], First(i, "tab"), held)
      BY <3>1, SameLeads
    <3> QED
      BY <3>1, <3>2
  <2> QED
    BY <2>1, <2>2
<1>3. ASSUME NEW i \in Jobs PROVE Leads(job[i], job'[i], First(i, "tab")', held)
  BY <1>1, <1>2 DEF Leads, Recorded, Started
<1> QED
  BY <1>1, <1>3

\* One request takes such a step, which may end the session.
LEMMA OneTruth ==
    ASSUME JobsInv, TruthInv, NEW j \in Jobs, NEW q, Becomes(j, q),
           Leads(job[j], q, First(j, "tab"), "emulation" \in holders'),
           turn' = turn, emulated' = emulated, spoiled' = spoiled,
           "emulation" \in holders' <=> "emulation" \in holders,
           \/ overrides' = overrides /\ Shrinks
           \/ overrides' = NoSettings /\ wire' = <<>> /\ "emulation" \notin holders'
    PROVE  TruthInv'
<1>1. /\ \A i \in Jobs : Leads(job[i], job'[i], First(i, "tab")', "emulation" \in holders')
      /\ \A i \in Jobs : First(i, "tab")' <=> First(i, "tab")
  BY JobsLead
<1>2. CASE overrides' = overrides /\ Shrinks
  BY <1>1, <1>2, TruthKeeps
<1>3. CASE overrides' = NoSettings /\ wire' = <<>> /\ "emulation" \notin holders'
  <2>1. \A i \in Jobs : Recorded(job'[i], First(i, "tab")')
    BY <1>1 DEF Leads
  <2>2. emulated' = NoSettings
    BY <1>3 DEF TruthInv, Settled
  <2> QED
    BY <1>3, <2>1, <2>2, TruthEnds
<1> QED
  BY <1>2, <1>3

LEMMA SameWireShrinks ==
    ASSUME JobsInv, wire' = wire PROVE Shrinks
<1>1. Len(wire) \in Nat
  BY DEF JobsInv, WireFits, IsSeq
<1>2. \A i \in 1..Len(wire') : i + 0 \in 1..Len(wire) /\ wire'[i] = wire[i + 0]
  BY <1>1
<1> QED
  BY <1>2 DEF Shrinks

LEMMA PlainTruth ==
    ASSUME JobsInv, TruthInv, NEW j \in Jobs, NEW q, Becomes(j, q),
           Goes(job[j], q), Here(job[j]).op # "lock", turn' = turn, emulated' = emulated,
           spoiled' = spoiled, "emulation" \in holders' <=> "emulation" \in holders,
           \/ overrides' = overrides /\ Shrinks
           \/ overrides' = NoSettings /\ wire' = <<>> /\ "emulation" \notin holders'
    PROVE  TruthInv'
<1>1. job[j].kind \in Kinds /\ job[j].pc \in Nat /\ job[j].pc > 0 /\ Recorded(job[j], First(j, "tab"))
  BY JobFits DEF TruthInv, Fits
<1>2. Leads(job[j], q, First(j, "tab"), "emulation" \in holders')
  BY <1>1, GoesLeads
<1> QED
  BY <1>2, OneTruth

LEMMA BeginTruth == ASSUME JobsInv, RestInv, TruthInv, NEW j \in Jobs, Begin(j) PROVE TruthInv'
<1> DEFINE r == job[j]
           q == [r EXCEPT !.mode = "run", !.want = IF @ = 0 THEN 0 ELSE doc]
           first == First(j, "tab")
<1>0. /\ Becomes(j, q) /\ turn' = turn /\ wire' = wire /\ overrides' = overrides
      /\ emulated' = emulated /\ spoiled' = spoiled /\ holders' = holders /\ r.mode = "new"
  BY DEF Begin, chrome
<1>1. /\ IsJob(r) /\ r.pc = 1 /\ r.undo = <<>> /\ r.kind \in Kinds /\ Recorded(r, first)
  BY <1>0, JobTidy DEF Tidy, TruthInv
<1>2. q.kind = r.kind /\ q.mode = "run" /\ q.pc = 1 /\ q.undo = <<>> /\ q.failed = r.failed
  BY <1>1 DEF IsJob, JobFields
<1> HIDE DEF q, r, first
<1>3. \A ops : \A p \in Places(r.kind, ops) : ~(p < 1)
  BY <1>1, PlacesAreNumbers
<1>4. Started(q.kind, q.undo, q.pc, first) /\ ~Committed(q.kind, q.pc)
  BY <1>2, <1>3, NothingDrops DEF Started, Committed
<1>5. Recorded(q, first)
  BY <1>0, <1>1, <1>2, <1>4 DEF Recorded
<1>6. Leads(r, q, first, "emulation" \in holders')
  BY <1>1, <1>2, <1>5, NothingDrops DEF Leads, Exempt
<1> QED
  BY <1>0, <1>6, OneTruth, SameWireShrinks DEF r, first

LEMMA SameTruth ==
    ASSUME JobsInv, TruthInv,
           \A j \in Jobs : /\ job'[j].kind = job[j].kind /\ job'[j].mode = job[j].mode
                           /\ job'[j].pc = job[j].pc /\ job'[j].undo = job[j].undo
                           /\ job'[j].failed = job[j].failed,
           \A j \in Jobs : First(j, "tab") => First(j, "tab")',
           wire' = wire, overrides' = overrides, emulated' = emulated, spoiled' = spoiled,
           holders' = holders
    PROVE  TruthInv'
<1>1. \A j \in Jobs : Leads(job[j], job'[j], First(j, "tab")', "emulation" \in holders')
  <2> SUFFICES ASSUME NEW j \in Jobs
               PROVE  Leads(job[j], job'[j], First(j, "tab")', "emulation" \in holders')
    OBVIOUS
  <2> DEFINE r == job[j]
             q == job'[j]
             first == First(j, "tab")
             then == First(j, "tab")'
  <2>1. Recorded(r, first) /\ (first => then)
    BY DEF TruthInv
  <2>2. q.kind = r.kind /\ q.mode = r.mode /\ q.pc = r.pc /\ q.undo = r.undo /\ q.failed = r.failed
    OBVIOUS
  <2> HIDE DEF r, q, first, then
  <2>3. \A held : Leads(r, q, then, held)
    BY <2>1, <2>2, SameLeads
  <2> QED
    BY <2>3 DEF r, q, then
<1> QED
  BY <1>1, TruthKeeps, SameWireShrinks

LEMMA AbortTruth == ASSUME JobsInv, RestInv, TruthInv, NEW j \in Jobs, NEW why, Abort(j, why) PROVE TruthInv'
<1> DEFINE r == job[j]
           answer == IF Races(r.kind) /\ r.pc > 1 THEN "error" ELSE r.answer
           q == [r EXCEPT !.abort = why, !.answer = answer]
<1>1. /\ Becomes(j, q) /\ turn' = turn /\ wire' = wire /\ overrides' = overrides
      /\ emulated' = emulated /\ spoiled' = spoiled /\ holders' = holders
  BY DEF Abort, chrome
<1>2. /\ q.kind = r.kind /\ q.mode = r.mode /\ q.pc = r.pc /\ q.undo = r.undo
      /\ q.failed = r.failed
  BY JobTidy DEF IsJob, JobFields
<1> HIDE DEF q
<1>3. job'[j] = q /\ \A i \in Jobs \ {j} : job'[i] = job[i]
  BY <1>1, OneChanges
<1>4. \A i \in Jobs : /\ job'[i].kind = job[i].kind /\ job'[i].mode = job[i].mode
                      /\ job'[i].pc = job[i].pc /\ job'[i].undo = job[i].undo
                      /\ job'[i].failed = job[i].failed
  BY <1>2, <1>3
<1> QED
  BY <1>1, <1>4, SameTruth DEF First

LEMMA SeenTruth == ASSUME JobsInv, RestInv, TruthInv, Complete \/ Navigate PROVE TruthInv'
<1>1. ASSUME NEW i \in Jobs
      PROVE  /\ job'[i].kind = job[i].kind /\ job'[i].mode = job[i].mode
             /\ job'[i].pc = job[i].pc /\ job'[i].undo = job[i].undo
             /\ job'[i].failed = job[i].failed
  <2>1. \E x : job'[i] = [job[i] EXCEPT !.seen = x] \/ job'[i] = job[i]
    BY DEF Complete, Navigate
  <2> QED
    BY <2>1, JobTidy DEF IsJob, JobFields
<1> QED
  BY <1>1, SameTruth DEF Complete, Navigate, chrome, First

\* A request that joins an empty queue is the first, and has done nothing yet.
LEMMA JoinTruth == ASSUME JobsInv, RestInv, TruthInv, NEW j \in Jobs, Join(j) PROVE TruthInv'
<1> DEFINE q == Here(job[j]).arg
<1>0. /\ turn' = [turn EXCEPT ![q] = Append(@, j)] /\ job' = job /\ wire' = wire
      /\ overrides' = overrides /\ emulated' = emulated /\ spoiled' = spoiled /\ holders' = holders
  BY DEF Join, chrome
<1>1. Queues
  BY DEF RestInv
<1> HIDE DEF q
<1> DEFINE s == turn["tab"]
<1>2. turn'["tab"] = (IF "tab" = q THEN Append(s, j) ELSE s) /\ IsSeq(s)
  BY <1>0, <1>1 DEF Queues
<1>3. s # <<>> => Append(s, j) # <<>> /\ Head(Append(s, j)) = Head(s)
  <2> SUFFICES ASSUME s # <<>> PROVE Append(s, j) # <<>> /\ Head(Append(s, j)) = Head(s)
    OBVIOUS
  <2> HIDE DEF s
  <2>1. /\ IsSeq(Append(s, j)) /\ Len(Append(s, j)) = Len(s) + 1
        /\ \A i \in 1..Len(s) : Append(s, j)[i] = s[i]
    BY <1>2, AppendedTo
  <2>2. Len(s) > 0 /\ Head(s) = s[1] /\ Len(s) \in Nat
    BY <1>2, TailOf DEF IsSeq
  <2>3. Append(s, j) # <<>>
    BY <2>1, <2>2
  <2>4. Head(Append(s, j)) = Append(s, j)[1]
    BY <2>1, <2>3, TailOf
  <2> QED
    BY <2>1, <2>2, <2>3, <2>4
<1>4. \A i \in Jobs : First(i, "tab") => First(i, "tab")'
  BY <1>2, <1>3 DEF First
<1> QED
  BY <1>0, <1>4, SameTruth

LEMMA ElseGoes ==
    ASSUME NEW r, NEW q, ~Emulates(r.kind), q.kind = r.kind, r.failed => q.failed,
           \A u \in Listed(q.undo) : u \in Listed(r.undo) \/ u.op \notin {"reset", "drop"}
    PROVE  Goes(r, q)
BY DEF Goes

\* Where one step of a request is, its handler is not one of emulation.js.
LEMMA ElsewhereKinds ==
    ASSUME NEW kind \in Kinds, NEW p,
           p \in Opens(kind) \/ p \in Closes(kind) \/ p \in Places(kind, {"activate"})
    PROVE  ~Emulates(kind)
BY FinallyAssumption

LEMMA AskTruth == ASSUME JobsInv, RestInv, TruthInv, NEW j \in Jobs, Ask(j) PROVE TruthInv'
<1> DEFINE r == job[j]
           x == Learned(r)
<1>0. /\ turn' = turn /\ wire' = wire /\ overrides' = overrides /\ emulated' = emulated
      /\ spoiled' = spoiled /\ holders' = holders /\ r.mode = "run" /\ r.pc <= Len(Steps[r.kind])
      /\ Here(r).op \in {"access", "pin", "stay", "call", "change", "query", "activated", "shoot",
                         "watch"}
      /\ Becomes(j, After(x)) \/ Becomes(j, Failed(r))
  BY DEF Ask, At, chrome
<1>1. IsJob(r) /\ Active(r)
  BY <1>0, JobTidy, RunIsActive
<1>2. IsJob(x) /\ x.kind = r.kind /\ x.pc = r.pc /\ x.undo = r.undo /\ x.failed = r.failed
  <2>1. \/ \E y : \/ x = [r EXCEPT !.pin = y] \/ x = [r EXCEPT !.seen = y]
                  \/ x = [r EXCEPT !.original = y]
                  \/ x = [r EXCEPT !.reads = y]
        \/ x = r
    BY DEF Learned
  <2> HIDE DEF x
  <2> QED
    BY <1>1, <2>1 DEF IsJob, JobFields
<1>3. Here(r).op \notin Emulations /\ Here(r).op # "lock"
  BY <1>0 DEF Emulations
<1> HIDE DEF x, r
<1>4. Goes(r, After(x)) /\ Goes(r, Failed(r))
  BY <1>0, <1>1, <1>2, <1>3, SameGoes
<1> QED
  BY <1>0, <1>3, <1>4, PlainTruth, SameWireShrinks DEF r

LEMMA ActivateTruth == ASSUME JobsInv, RestInv, TruthInv, NEW j \in Jobs, Activate(j) PROVE TruthInv'
<1> DEFINE r == job[j]
           u == Do("restore", r.original)
           x == Push(r, u)
           n == [r EXCEPT !.pc = @ + 1]
<1>0. /\ turn' = turn /\ wire' = wire /\ overrides' = overrides /\ emulated' = emulated
      /\ spoiled' = spoiled /\ holders' = holders /\ r.mode = "run" /\ r.pc <= Len(Steps[r.kind])
      /\ Here(r).op = "activate" /\ (Becomes(j, n) \/ Becomes(j, After(x)))
  BY DEF Activate, At, chrome
<1>1. /\ IsJob(r) /\ Active(r) /\ r.kind \in Kinds /\ r.pc \in Nat /\ r.pc > 0 /\ IsSeq(r.undo)
  BY <1>0, JobTidy, RunIsActive
<1>2. ~Emulates(r.kind)
  BY <1>0, <1>1, PlaceOfStep, ElsewhereKinds
<1>3. IsJob(x) /\ x.kind = r.kind /\ x.pc = r.pc /\ x.undo = <<u>> \o r.undo /\ x.failed = r.failed
  BY <1>1 DEF Push, IsJob, JobFields
<1>4a. u.op = "restore"
  BY DEF Do
<1>5. n.kind = r.kind /\ n.failed = r.failed /\ n.undo = r.undo
  BY <1>1 DEF IsJob, JobFields
<1> HIDE DEF x, u, n, r
<1>4. \A v \in Listed(x.undo) : v \in Listed(r.undo) \/ v = u
  BY <1>1, <1>3, PrependedTo
<1>4b. Beside(r, x)
  BY <1>2, <1>3, <1>4, <1>4a DEF Beside
<1>6. Goes(r, After(x))
  BY <1>0, <1>1, <1>4b, AfterGoes DEF Emulations
<1>7. Goes(r, n)
  BY <1>2, <1>5, ElseGoes
<1> QED
  BY <1>0, <1>6, <1>7, PlainTruth, SameWireShrinks DEF r

LEMMA AcquireTruth == ASSUME JobsInv, RestInv, TruthInv, NEW j \in Jobs, AcquireLease(j) PROVE TruthInv'
<1> DEFINE r == job[j]
<1>0. /\ turn' = turn /\ wire' = wire /\ overrides' = overrides /\ emulated' = emulated
      /\ spoiled' = spoiled /\ r.mode = "run" /\ r.pc <= Len(Steps[r.kind]) /\ Here(r).op = "acquire"
      /\ Becomes(j, After(r)) \/ Becomes(j, Failed(r))
      /\ holders' = holders \/ holders' = holders \cup {j}
  BY DEF AcquireLease, At, chrome
<1>1. IsJob(r) /\ Active(r)
  BY <1>0, JobTidy, RunIsActive
<1> HIDE DEF r
<1>2. Goes(r, After(r)) /\ Goes(r, Failed(r))
  BY <1>0, <1>1, SameGoes DEF Emulations
<1>3. "emulation" \in holders' <=> "emulation" \in holders
  BY <1>0, JobsAssumption
<1> QED
  BY <1>0, <1>2, <1>3, PlainTruth, SameWireShrinks DEF r

\* The end of a lease that is not the state's.
LEMMA SessionTruth ==
    ASSUME JobsInv, NEW j \in Jobs, LeaveSession({j})
    PROVE  /\ "emulation" \in holders' <=> "emulation" \in holders
           /\ \/ overrides' = overrides /\ Shrinks
              \/ overrides' = NoSettings /\ wire' = <<>> /\ "emulation" \notin holders'
<1>1. holders' = holders \ {j} /\ j # "emulation"
  BY JobsAssumption DEF LeaveSession
<1>2. CASE holders' = {}
  BY <1>1, <1>2 DEF LeaveSession
<1>3. CASE holders' # {}
  <2>1. overrides' = overrides /\ wire' = wire
    BY <1>3 DEF LeaveSession, chrome
  <2> QED
    BY <1>1, <2>1, SameWireShrinks
<1> QED
  BY <1>2, <1>3

LEMMA ReleaseTruth == ASSUME JobsInv, RestInv, TruthInv, NEW j \in Jobs, ReleaseLease(j) PROVE TruthInv'
<1> DEFINE r == job[j]
<1>0. /\ turn' = turn /\ emulated' = emulated /\ spoiled' = spoiled /\ LeaveSession({j})
      /\ r.mode = "run" /\ r.pc <= Len(Steps[r.kind]) /\ Here(r).op = "release"
      /\ Becomes(j, After(r))
  BY DEF ReleaseLease, At
<1>1. IsJob(r) /\ Active(r)
  BY <1>0, JobTidy, RunIsActive
<1> HIDE DEF r
<1>2. Goes(r, After(r))
  BY <1>0, <1>1, SameGoes DEF Emulations
<1> QED
  BY <1>0, <1>2, SessionTruth, PlainTruth DEF r

LEMMA ListenTruth == ASSUME JobsInv, RestInv, TruthInv, NEW j \in Jobs, Listen(j) PROVE TruthInv'
<1> DEFINE r == job[j]
           u == Do("closeStream", None)
           x == Push(r, u)
           p == [r EXCEPT !.reads = @ \cup {doc}]
<1>0. /\ turn' = turn /\ wire' = wire /\ overrides' = overrides /\ emulated' = emulated
      /\ spoiled' = spoiled /\ holders' = holders /\ r.mode = "run" /\ r.pc <= Len(Steps[r.kind])
      /\ Here(r).op \in {"completed", "navigated", "pause"}
      /\ \/ Becomes(j, After(r)) \/ Becomes(j, Failed(r)) \/ Becomes(j, After(p))
         \/ Here(r).op = "completed" /\ Becomes(j, After(x))
  BY DEF Listen, At, chrome
<1>1. /\ IsJob(r) /\ Active(r) /\ r.kind \in Kinds /\ r.pc \in Nat /\ r.pc > 0 /\ IsSeq(r.undo)
  BY <1>0, JobTidy, RunIsActive
<1>2. Here(r).op \notin Emulations /\ Here(r).op # "lock"
  BY <1>0 DEF Emulations
<1>2a. IsJob(p) /\ p.kind = r.kind /\ p.pc = r.pc /\ p.undo = r.undo /\ p.failed = r.failed
  BY <1>1 DEF IsJob, JobFields
<1> HIDE DEF p, r
<1>3. Goes(r, After(r)) /\ Goes(r, Failed(r)) /\ Goes(r, After(p))
  BY <1>0, <1>1, <1>2, <1>2a, SameGoes
<1>4. Here(r).op = "completed" => Goes(r, After(x))
  <2> SUFFICES ASSUME Here(r).op = "completed" PROVE Goes(r, After(x))
    OBVIOUS
  <2>1. r.pc \in Opens(r.kind)
    BY <1>0, <1>1, PlaceOfStep DEF Opens
  <2>2. ~Emulates(r.kind)
    BY <1>1, <2>1, ElsewhereKinds
  <2>3. IsJob(x) /\ x.kind = r.kind /\ x.pc = r.pc /\ x.undo = <<u>> \o r.undo /\ x.failed = r.failed
    BY <1>1 DEF Push, IsJob, JobFields
  <2>3a. u.op = "closeStream"
    BY DEF Do
  <2> HIDE DEF x, u
  <2>4. \A v \in Listed(x.undo) : v \in Listed(r.undo) \/ v = u
    BY <1>1, <2>3, PrependedTo
  <2>5. Beside(r, x)
    BY <2>2, <2>3, <2>3a, <2>4 DEF Beside
  <2> QED
    BY <1>0, <1>1, <1>2, <2>5, AfterGoes
<1> HIDE DEF x
<1> QED
  BY <1>0, <1>2, <1>3, <1>4, PlainTruth, SameWireShrinks DEF r

LEMMA TalkTruth == ASSUME JobsInv, RestInv, TruthInv, NEW j \in Jobs, TalkToPage(j) PROVE TruthInv'
<1> DEFINE r == job[j]
           x == [r EXCEPT !.reads = @ \cup {doc}]
<1>0. /\ turn' = turn /\ wire' = wire /\ overrides' = overrides /\ emulated' = emulated
      /\ spoiled' = spoiled /\ holders' = holders /\ r.mode = "run" /\ r.pc <= Len(Steps[r.kind])
      /\ Here(r).op \in {"page", "references"}
      /\ \/ Becomes(j, After(r)) \/ Becomes(j, Failed(r)) \/ Becomes(j, After(x))
  BY DEF TalkToPage, At, chrome
<1>1. /\ IsJob(r) /\ Active(r)
  BY <1>0, JobTidy, RunIsActive
<1>2. Here(r).op \notin Emulations /\ Here(r).op # "lock"
  BY <1>0 DEF Emulations
<1>3. IsJob(x) /\ x.kind = r.kind /\ x.pc = r.pc /\ x.undo = r.undo /\ x.failed = r.failed
  BY <1>1 DEF IsJob, JobFields
<1> HIDE DEF x, r
<1>4. Goes(r, After(r)) /\ Goes(r, Failed(r)) /\ Goes(r, After(x))
  BY <1>0, <1>1, <1>2, <1>3, SameGoes
<1> QED
  BY <1>0, <1>2, <1>4, PlainTruth, SameWireShrinks DEF r

-----------------------------------------------------------------------------
(* The steps of emulation.js.                                              *)

\* A request with a state to drop is one of emulation.js, and in its turn.
LEMMA DropsInTurn ==
    ASSUME NEW r, NEW first, Recorded(r, first), Drops(r.undo)
    PROVE  /\ first /\ Emulates(r.kind) /\ Overriding(r.kind, r.undo)
           /\ r.mode \in {"new", "run", "wait"} => ~Exempt(r)
<1>1. Emulates(r.kind)
  <2> SUFFICES ASSUME ~Emulates(r.kind) PROVE FALSE
    OBVIOUS
  <2> QED
    BY DEF Recorded, Drops
<1> QED
  BY <1>1 DEF Recorded, Exempt

\* A failed request has its resets on the list again.
LEMMA FailedHandles ==
    ASSUME NEW r, NEW first, Recorded(r, first), Active(r), r.pc <= Len(Steps[r.kind]),
           r.kind \in Kinds, NEW q, q.kind = r.kind, q.undo = r.undo, q.mode = "undo", q.failed,
           Drops(q.undo)
    PROVE  Recorded(q, first) /\ (~Exempt(q) => Handled(q) = {})
<1>1. first /\ Emulates(r.kind) /\ Overriding(r.kind, r.undo)
  BY DropsInTurn
<1>2. Started(r.kind, r.undo, r.pc, first)
  BY <1>1 DEF Recorded
<1>3. ~Active(q)
  BY DEF Active
<1>4. Recorded(q, first)
  BY <1>1, <1>3 DEF Recorded
<1>5. ASSUME ~Exempt(q) PROVE Handled(q) = {}
  <2>1. r.kind # "reset"
    BY <1>5 DEF Exempt
  <2>2. Adopts(r.kind)
    BY <1>1, <2>1, EmulationAssumption DEF Adopts, Emulates, Places
  <2>3. \A g \in 1..Len(Groups) : Do("reset", g) \in Listed(q.undo)
    BY <1>2, <2>2 DEF Started
  <2> QED
    BY <1>3, <2>3 DEF Handled
<1> QED
  BY <1>4, <1>5

\* A request that goes on after one of its resets or settings.
LEMMA NextRecorded ==
    ASSUME NEW r, NEW first, Recorded(r, first), Active(r), r.pc <= Len(Steps[r.kind]),
           r.kind \in Kinds, r.pc \in Nat, r.pc > 0, Emulates(r.kind),
           Here(r).op \notin {"lock", "adopt", "disown", "commit"},
           NEW q, q.kind = r.kind, q.undo = r.undo, q.mode = "run", q.failed = r.failed, q.pc = r.pc + 1
    PROVE  Recorded(q, first)
<1>1. /\ Overriding(r.kind, r.undo) /\ (Drops(r.undo) => first) /\ ~r.failed
      /\ Started(r.kind, r.undo, r.pc, first) /\ (Committed(r.kind, r.pc) => r.undo = <<>>)
  BY DEF Recorded, Active
<1>2. \A ops : \A p \in Places(r.kind, ops) : p \in Nat
  BY PlacesAreNumbers
<1>3. /\ r.pc \notin Places(r.kind, {"adopt", "disown"}) /\ r.pc \notin Places(r.kind, {"commit"})
      /\ r.pc \notin Places(r.kind, {"lock"})
  BY NotThere
<1>4. \A p \in Nat : p < q.pc <=> p < r.pc \/ p = r.pc
  OBVIOUS
<1>5. Committed(q.kind, q.pc) <=> Committed(r.kind, r.pc)
  BY <1>2, <1>3, <1>4 DEF Committed
<1>6. \A l \in Places(r.kind, {"lock"}) : l < q.pc /\ Steps[r.kind][l].arg = "tab" => first
  BY <1>1, <1>2, <1>3, <1>4 DEF Started
<1>7. (\E a \in Places(r.kind, {"adopt", "disown"}) : a < q.pc) =>
         \E a \in Places(r.kind, {"adopt", "disown"}) : a < r.pc
  BY <1>2, <1>3, <1>4
<1>8. Started(q.kind, q.undo, q.pc, first)
  BY <1>1, <1>5, <1>6, <1>7 DEF Started
<1>9. Active(q)
  BY DEF Active
<1> QED
  BY <1>1, <1>5, <1>8, <1>9 DEF Recorded

\* What a request in its turn makes of the invariant when it ends with something to drop.
LEMMA BusyTruth ==
    ASSUME JobsInv, TruthInv, NEW j \in Jobs, NEW q, Becomes(j, q), turn' = turn,
           First(j, "tab"), Recorded(q, TRUE), Drops(q.undo), Shrinks \/ Ordered',
           ~Exempt(q) =>
              IF "emulation" \in holders'
              THEN (\A g \in Handled(q) : overrides'[g] = Intended(q, g)) /\ (Noise' => Handled(q) = {})
              ELSE overrides' = NoSettings /\ ~Traffic',
           overrides' = [g \in 1..Len(Groups) |-> overrides'[g]],
           "emulation" \notin holders' => emulated' = NoSettings
    PROVE  TruthInv'
<1>1. job'[j] = q /\ \A i \in Jobs \ {j} : job'[i] = job[i]
  BY OneChanges
<1>2. \A i \in Jobs : First(i, "tab")' <=> First(i, "tab")
  BY DEF First
<1>3. ASSUME NEW i \in Jobs PROVE Recorded(job'[i], First(i, "tab"))
  <2>1. CASE i = j
    BY <1>1, <2>1 DEF Recorded, Started
  <2>2. CASE i # j
    BY <1>1, <2>2 DEF TruthInv
  <2> QED
    BY <2>1, <2>2
<1>4. ASSUME NEW i \in Jobs PROVE Recorded(job'[i], First(i, "tab")')
  BY <1>2, <1>3 DEF Recorded, Started
<1>5. Ordered'
  <2>1. CASE Shrinks
    <3>1. \A i \in Jobs : First(i, "tab") /\ Drops(job[i].undo) => First(i, "tab")' /\ Drops(job'[i].undo)
      BY <1>1, <1>2
    <3> QED
      BY <2>1, <3>1, OrderShrinks DEF TruthInv
  <2> QED
    BY <2>1
<1>6. First(j, "tab")' /\ Drops(job'[j].undo)
  BY <1>1, <1>2
<1>7. ~Exempt(job'[j]) => Standing(job[j])'
  <2>1. Handled(job[j])' = Handled(q) /\ \A g : Intended(job[j], g)' = Intended(q, g)
    BY <1>1, SameHandling
  <2> SUFFICES ASSUME ~Exempt(q) PROVE Standing(job[j])'
    BY <1>1
  <2>2. CASE "emulation" \in holders'
    BY <2>1, <2>2 DEF Standing
  <2>3. CASE "emulation" \notin holders'
    BY <2>3 DEF Standing, NoSettings
  <2> QED
    BY <2>2, <2>3
<1> QED
  BY <1>4, <1>5, <1>6, <1>7, TruthBusy

\* A step after which there is nothing to drop.
LEMMA TruthCalms ==
    ASSUME \A i \in Jobs : Recorded(job'[i], First(i, "tab")') /\ ~Drops(job'[i].undo),
           \A i \in 1..Len(wire') : Emulating(wire'[i]) => ~wire'[i].live,
           \/ \E i \in Jobs : First(i, "tab")' /\ Exempt(job'[i])
           \/ overrides' = emulated' /\ ~Traffic',
           overrides' = [g \in 1..Len(Groups) |-> overrides'[g]],
           "emulation" \notin holders' => emulated' = NoSettings
    PROVE  TruthInv'
<1>1. Calm'
  BY SameHandling DEF Calm
<1>2. Working'
  BY SameHandling DEF Working
<1>3. Ordered'
  BY DEF Ordered, Emulating
<1>4. Settled'
  BY DEF Settled, NoSettings
<1>5. (\A i \in Jobs : Recorded(job[i], First(i, "tab")))'
  BY RecordedThen
<1> QED
  BY <1>1, <1>2, <1>3, <1>4, <1>5 DEF TruthInv

LEMMA DropAlone ==
    LET s == <<Do("drop", None)>>
    IN  Drops(s) /\ \A kind : Overriding(kind, s)
<1> DEFINE u == Do("drop", None)
           s == <<u>>
<1>1. u.op = "drop"
  BY DEF Do
<1> HIDE DEF u
<1>2. Listed(s) = {u} /\ Len(s) = 1 /\ s[1] = u
  BY DEF Listed
<1> HIDE DEF s
<1>3. Drops(s) /\ \A kind : Overriding(kind, s)
  BY <1>1, <1>2 DEF Drops, Overriding
<1> QED
  BY <1>3 DEF s, u

\* The list of a replacement.
LEMMA ResetsThenDrop ==
    LET s == ResetOperations \o <<Do("drop", None)>>
    IN  /\ Drops(s) /\ \A kind : Adopts(kind) => Overriding(kind, s)
        /\ \A g \in 1..Len(Groups) : Do("reset", g) \in Listed(s)
<1> DEFINE u == Do("drop", None)
           t == ResetOperations
           s == t \o <<u>>
           n == Len(Groups)
           S == {Do("reset", g) : g \in 1..n} \cup {u}
<1>1. u.op = "drop" /\ \A g : Do("reset", g).op = "reset" /\ Do("reset", g).arg = g
  BY DEF Do
<1>2. n \in Nat
  BY JobsAssumption
<1>3. t \in Seq(S) /\ Len(t) = n /\ \A g \in 1..n : t[g] = Do("reset", g)
  BY <1>2 DEF ResetOperations
<1>4. u \in S
  OBVIOUS
<1> HIDE DEF S, u, t, n
<1>5. Len(s) = n + 1 /\ s[n + 1] = u /\ \A g \in 1..n : s[g] = Do("reset", g)
  BY <1>2, <1>3, <1>4
<1>6. \A k \in 1..Len(s) : k = n + 1 \/ k \in 1..n
  BY <1>2, <1>5
<1> HIDE DEF s
<1>7. \A k \in 1..Len(s) : s[k].op = "drop" <=> k = Len(s)
  BY <1>1, <1>2, <1>5, <1>6
<1>8. \A x \in Listed(s) : x.op = "drop" \/ x = Do("reset", x.arg)
  BY <1>1, <1>5, <1>6 DEF Listed
<1>9. \A g \in 1..n : g \in 1..Len(s)
  BY <1>2, <1>5
<1>10. \A g \in 1..n : Do("reset", g) \in Listed(s)
  BY <1>5, <1>9 DEF Listed
<1>11. n + 1 \in 1..Len(s)
  BY <1>2, <1>5
<1>12. Drops(s)
  BY <1>1, <1>5, <1>11 DEF Drops, Listed
<1>13. \A kind : Adopts(kind) => Overriding(kind, s)
  BY <1>7, <1>8 DEF Overriding
<1> QED
  BY <1>10, <1>12, <1>13 DEF s, t, u, n

\* What is known of a handler that has come to a step of emulation.js.
LEMMA AdoptPlace ==
    ASSUME NEW kind \in Kinds, NEW p \in Places(kind, {"adopt", "disown"})
    PROVE  /\ Emulates(kind) /\ p \in Nat /\ (\A c \in Places(kind, {"set", "reset", "commit"}) : c \in Nat /\ p < c)
           /\ \E l \in Places(kind, {"lock"}) : l < p /\ Steps[kind][l].arg = "tab"
           /\ p \in Places(kind, {"adopt"}) => Adopts(kind)
           /\ p \in Places(kind, {"disown"}) =>
                kind = "reset" /\ Places(kind, {"set", "commit"}) = {} /\ ~Adopts(kind)
<1>1. \A ops : \A i \in Places(kind, ops) : i \in Nat
  BY PlacesAreNumbers
<1>2. ASSUME p \in Places(kind, {"disown"}) PROVE ~Adopts(kind)
  <2>1. Places(kind, {"set", "commit"}) = {}
    BY <1>2, EmulationAssumption
  <2>2. Places(kind, {"commit"}) = {}
    BY <2>1 DEF Places
  <2> QED
    BY <2>2, EmulationAssumption DEF Adopts
<1> QED
  BY <1>1, <1>2, EmulationAssumption DEF Emulates, Adopts

LEMMA EnterTruth == ASSUME JobsInv, RestInv, TruthInv, NEW j \in Jobs, Enter(j) PROVE TruthInv'
<1> DEFINE r == job[j]
           first == First(j, "tab")
           held == "emulation" \in holders'
           n == After(r)
           q == Disowned(n)
<1>0. /\ turn' = turn /\ wire' = wire /\ overrides' = overrides /\ emulated' = emulated
      /\ spoiled' = spoiled /\ holders' = holders /\ r.mode = "run" /\ r.pc <= Len(Steps[r.kind])
      /\ Here(r).op = "lock" /\ First(j, Here(r).arg)
      /\ Becomes(j, n) \/ (n.mode = "run" /\ Here(n).op = "disown" /\ Becomes(j, q))
  BY DEF Enter, At, chrome
<1>1. /\ IsJob(r) /\ Active(r) /\ r.kind \in Kinds /\ r.pc \in Nat /\ r.pc > 0 /\ Recorded(r, first)
  BY <1>0, JobTidy, RunIsActive DEF TruthInv
<1>1a. Here(r).arg = "tab" => first
  BY <1>0
<1>1b. Shrinks
  BY <1>0, SameWireShrinks
<1> HIDE DEF r, first, held
<1>2. Goes(r, n)
  BY <1>0, <1>1, SameGoes DEF Emulations
<1>3. Leads(r, n, first, held)
  BY <1>1, <1>1a, <1>2, GoesLeads
<1>4. CASE Becomes(j, n)
  <2> HIDE DEF n
  <2> QED
    BY <1>0, <1>1b, <1>3, <1>4, OneTruth DEF r, first, held
<1>5. CASE n.mode = "run" /\ Here(n).op = "disown" /\ Becomes(j, q)
  <2>1. n = [r EXCEPT !.pc = @ + 1, !.mode = "run"]
    BY <1>1, <1>5 DEF After, Failed, IsJob, JobFields
  <2>2. IsJob(n) /\ n.kind = r.kind /\ n.pc = r.pc + 1 /\ n.undo = r.undo /\ n.failed = r.failed
    BY <1>1, <2>1 DEF IsJob, JobFields
  <2> HIDE DEF n
  <2>3. n.pc \in Nat /\ n.pc > 0 /\ n.pc <= Len(Steps[n.kind]) /\ n.kind \in Kinds /\ Len(Steps[n.kind]) \in Nat
    <3>1. r.pc < Len(Steps[r.kind]) /\ Len(Steps[r.kind]) \in Nat
      BY <1>0, <1>1, PlaceOfStep, FinallyAssumption, ProgramsAssumption
    <3> QED
      BY <1>1, <2>2, <3>1
  <2>4. n.pc \in Places(n.kind, {"adopt", "disown"}) /\ n.pc \in Places(n.kind, {"disown"})
    BY <1>5, <2>3, PlaceOfStep
  <2>5. /\ Emulates(n.kind) /\ n.kind = "reset" /\ Places(n.kind, {"set", "commit"}) = {} /\ ~Adopts(n.kind)
        /\ \A c \in Places(n.kind, {"set", "reset", "commit"}) : c \in Nat /\ n.pc < c
        /\ \E l \in Places(n.kind, {"lock"}) : l < n.pc /\ Steps[n.kind][l].arg = "tab"
    BY <2>3, <2>4, AdoptPlace
  <2>6. Recorded(n, first)
    BY <1>3 DEF Leads
  <2>7. /\ Overriding(n.kind, n.undo) /\ (Drops(n.undo) => first) /\ ~n.failed
        /\ Started(n.kind, n.undo, n.pc, first)
    BY <1>5, <2>3, <2>5, <2>6 DEF Recorded, Active
  <2>8. first
    BY <2>5, <2>7 DEF Started
  <2>9. \A top : ~Committed(n.kind, top)
    BY <2>5 DEF Committed, Places
  <2>10. CASE "emulation" \in holders
    <3> DEFINE s == <<Do("drop", None)>>
    <3>1. q.kind = n.kind /\ q.mode = "run" /\ q.pc = n.pc + 1 /\ q.undo = s /\ q.failed = n.failed
      BY <1>5, <2>2, <2>10 DEF Disowned, IsJob, JobFields
    <3> HIDE DEF s
    <3>2. Drops(s) /\ Overriding(q.kind, s)
      BY DropAlone DEF s
    <3> HIDE DEF q
    <3>3. Started(q.kind, q.undo, q.pc, TRUE)
      BY <2>5, <3>1, <3>2 DEF Started
    <3>4. Recorded(q, TRUE)
      BY <2>5, <2>7, <2>9, <3>1, <3>2, <3>3 DEF Recorded
    <3>5. Handled(q) = {}
      <4>1. \A p \in Places(q.kind, {"reset"}) : p \in Nat /\ n.pc < p
        BY <2>5, <3>1 DEF Places
      <4>2. \A p \in Places(q.kind, {"reset"}) : ~(p < q.pc)
        BY <2>3, <3>1, <4>1
      <4>3. Active(q)
        BY <3>1 DEF Active
      <4> QED
        BY <4>2, <4>3 DEF Handled
    <3>6. overrides' = [g \in 1..Len(Groups) |-> overrides'[g]]
      BY <1>0 DEF TruthInv, Settled
    <3> QED
      BY <1>0, <1>1b, <1>5, <2>8, <2>10, <3>1, <3>2, <3>4, <3>5, <3>6, BusyTruth DEF r, first
  <2>11. CASE "emulation" \notin holders
    <3>1. /\ q.kind = n.kind /\ q.mode = "run" /\ q.pc = Len(Steps[n.kind]) + 1 /\ q.undo = n.undo
          /\ q.failed = n.failed
      BY <1>5, <2>2, <2>11 DEF Disowned, IsJob, JobFields
    <3> HIDE DEF q
    <3>2. ~(q.pc <= Len(Steps[q.kind]))
      BY <2>3, <3>1
    <3>3. Recorded(q, first)
      BY <2>5, <2>7, <2>9, <3>1, <3>2 DEF Recorded
    <3>4. ~held /\ ~Exempt(r)
      BY <1>0, <2>2, <2>7, <2>11 DEF held, Exempt
    <3>5. Leads(r, q, first, held)
      BY <2>2, <3>1, <3>3, <3>4 DEF Leads
    <3> QED
      BY <1>0, <1>1b, <1>5, <3>5, OneTruth DEF r, first, held
  <2> QED
    BY <2>10, <2>11
<1> QED
  BY <1>0, <1>4, <1>5

LEMMA AdoptTruth == ASSUME JobsInv, RestInv, TruthInv, NEW j \in Jobs, Adopt(j) PROVE TruthInv'
<1> DEFINE r == job[j]
           first == First(j, "tab")
           held == "emulation" \in holders'
           s == ResetOperations \o <<Do("drop", None)>>
           x == [r EXCEPT !.undo = s]
           q == After(x)
<1>0. /\ turn' = turn /\ wire' = wire /\ overrides' = overrides /\ emulated' = emulated
      /\ spoiled' = spoiled /\ r.mode = "run" /\ r.pc <= Len(Steps[r.kind]) /\ Here(r).op = "adopt"
      /\ \/ holders' = holders \cup {"emulation"} /\ Becomes(j, q)
         \/ holders' = holders /\ Becomes(j, Failed(r))
  BY DEF Adopt, At, chrome
<1>1. /\ IsJob(r) /\ Active(r) /\ r.kind \in Kinds /\ r.pc \in Nat /\ r.pc > 0 /\ Recorded(r, first)
  BY <1>0, JobTidy, RunIsActive DEF TruthInv
<1>1a. Shrinks
  BY <1>0, SameWireShrinks
<1> HIDE DEF s
<1>2. IsJob(x) /\ x.kind = r.kind /\ x.pc = r.pc /\ x.undo = s /\ x.failed = r.failed /\ x.mode = "run"
  BY <1>0, <1>1 DEF IsJob, JobFields
<1> HIDE DEF x
<1>3. \/ q = Failed(x)
      \/ q = [x EXCEPT !.pc = @ + 1, !.mode = "run"]
  BY DEF After
<1> HIDE DEF q, r, first, held
<1>4. /\ q.kind = r.kind /\ q.undo = s
      /\ \/ q.mode = "undo"
         \/ q.mode = "run" /\ q.pc = r.pc + 1 /\ q.failed = r.failed
  <2>1. CASE q = Failed(x)
    BY <1>2, <2>1 DEF Failed, IsJob, JobFields
  <2>2. CASE q = [x EXCEPT !.pc = @ + 1, !.mode = "run"]
    BY <1>2, <2>2 DEF IsJob, JobFields
  <2> QED
    BY <1>3, <2>1, <2>2
<1>5. CASE holders' = holders /\ Becomes(j, Failed(r))
  <2>1. Goes(r, Failed(r))
    BY <1>0, <1>1, SameGoes
  <2> QED
    BY <1>0, <1>1a, <1>5, <2>1, PlainTruth DEF r
<1>6. CASE holders' = holders \cup {"emulation"} /\ Becomes(j, q)
  <2>1. r.pc \in Places(r.kind, {"adopt", "disown"}) /\ r.pc \in Places(r.kind, {"adopt"})
    BY <1>0, <1>1, PlaceOfStep
  <2>2. /\ Emulates(r.kind) /\ Adopts(r.kind)
        /\ \A c \in Places(r.kind, {"set", "reset", "commit"}) : c \in Nat /\ r.pc < c
        /\ \E l \in Places(r.kind, {"lock"}) : l < r.pc /\ Steps[r.kind][l].arg = "tab"
    BY <1>1, <2>1, AdoptPlace
  <2>3. ~r.failed /\ Started(r.kind, r.undo, r.pc, first)
    BY <1>0, <1>1, <2>2 DEF Recorded
  <2>4. first
    BY <2>2, <2>3 DEF Started
  <2>5. /\ Drops(s) /\ Overriding(r.kind, s) /\ \A g \in 1..Len(Groups) : Do("reset", g) \in Listed(s)
    BY <2>2, ResetsThenDrop DEF s
  <2>6. CASE q.mode = "undo"
    <3>1. ~Active(q)
      BY <2>6 DEF Active
    <3>2. Recorded(q, TRUE)
      BY <1>4, <2>2, <2>5, <2>6, <3>1 DEF Recorded
    <3>3. Handled(q) = {}
      BY <1>4, <2>5, <3>1 DEF Handled
    <3>4. overrides' = [g \in 1..Len(Groups) |-> overrides'[g]]
      BY <1>0 DEF TruthInv, Settled
    <3> QED
      BY <1>0, <1>1a, <1>4, <1>6, <2>4, <2>5, <3>2, <3>3, <3>4, BusyTruth DEF first
  <2>7. CASE q.mode = "run" /\ q.pc = r.pc + 1 /\ q.failed = r.failed
    <3>1. Active(q)
      BY <2>7 DEF Active
    <3>2. \A c \in Places(q.kind, {"commit"}) \cup Places(q.kind, {"reset"}) : c \in Nat /\ r.pc < c
      BY <1>4, <2>2 DEF Places
    <3>3. \A c \in Places(q.kind, {"commit"}) \cup Places(q.kind, {"reset"}) : ~(c < q.pc)
      BY <1>1, <2>7, <3>2
    <3>4. ~Committed(q.kind, q.pc)
      BY <3>3 DEF Committed
    <3>5. Started(q.kind, q.undo, q.pc, TRUE)
      BY <1>4, <2>5 DEF Started
    <3>6. Recorded(q, TRUE)
      BY <1>4, <2>2, <2>3, <2>5, <2>7, <3>4, <3>5 DEF Recorded
    <3>7. Handled(q) = {}
      BY <3>1, <3>3 DEF Handled
    <3>8. overrides' = [g \in 1..Len(Groups) |-> overrides'[g]]
      BY <1>0 DEF TruthInv, Settled
    <3> QED
      BY <1>0, <1>1a, <1>4, <1>6, <2>4, <2>5, <3>6, <3>7, <3>8, BusyTruth DEF first
  <2> QED
    BY <1>4, <2>6, <2>7
<1> QED
  BY <1>0, <1>5, <1>6

\* Where the settings are committed, all of them and all resets are done.
LEMMA CommitPlace ==
    ASSUME NEW kind \in Kinds, NEW top \in Places(kind, {"commit"})
    PROVE  /\ Emulates(kind) /\ Adopts(kind) /\ top \in Nat /\ ~Committed(kind, top)
           /\ \E a \in Places(kind, {"adopt", "disown"}) : a \in Nat /\ a < top
           /\ \A g \in 1..Len(Groups) :
                /\ \E p \in Places(kind, {"reset"}) : p < top /\ Steps[kind][p].arg = g
                /\ Groups[g] \in Steps[kind][top].arg <=>
                     \E s \in Places(kind, {"set"}) : s < top /\ Steps[kind][s].arg = g
<1>1. \A ops : \A i \in Places(kind, ops) : i \in Nat /\ i \in 1..Len(Steps[kind])
  BY DEF Places
<1>2. \A p \in Places(kind, {"set", "reset", "commit"}) : p <= top
  BY EmulationAssumption
<1>3. Places(kind, {"commit"}) # {} /\ Places(kind, {"set", "reset", "commit"}) # {}
  BY DEF Places
<1>4. Emulates(kind) /\ Adopts(kind)
  BY <1>3, EmulationAssumption DEF Adopts
<1>5. ~Committed(kind, top)
  <2>1. top \in Places(kind, {"set", "reset", "commit"})
    BY DEF Places
  <2>2. \A c \in Places(kind, {"commit"}) : top <= c
    BY <2>1, EmulationAssumption
  <2>3. \A c \in Places(kind, {"commit"}) : ~(c < top)
    BY <1>1, <2>2
  <2> QED
    BY <2>3 DEF Committed
<1>6. PICK a \in Places(kind, {"adopt", "disown"}) : TRUE
  BY <1>4 DEF Emulates
<1>7. top \in Places(kind, {"set", "reset", "commit"})
  BY DEF Places
<1>8. a \in Nat /\ a < top
  BY <1>1, <1>6, <1>7, EmulationAssumption
<1>9. \A p \in Places(kind, {"set"}) \cup Places(kind, {"reset"}) :
         p \in Places(kind, {"set", "reset", "commit"}) /\ p # top
  BY DEF Places
<1>10. \A p \in Places(kind, {"set"}) \cup Places(kind, {"reset"}) : p < top
  BY <1>1, <1>2, <1>9
<1>11. ASSUME NEW g \in 1..Len(Groups)
       PROVE  \E p \in Places(kind, {"reset"}) : p < top /\ Steps[kind][p].arg = g
  BY <1>6, <1>10, EmulationAssumption
<1>12. ASSUME NEW g \in 1..Len(Groups)
       PROVE  Groups[g] \in Steps[kind][top].arg <=>
                 \E s \in Places(kind, {"set"}) : s < top /\ Steps[kind][s].arg = g
  BY <1>10, EmulationAssumption
<1> QED
  BY <1>1, <1>4, <1>5, <1>6, <1>8, <1>11, <1>12

\* Nobody waits for a command about overrides while the first in the tab's queue does not wait.
LEMMA NobodyWaits ==
    ASSUME JobsInv, TruthInv, NEW j \in Jobs, First(j, "tab"), job[j].mode \notin Waiting
    PROVE  \A i \in 1..Len(wire) : Emulating(wire[i]) => ~wire[i].live
<1> SUFFICES ASSUME NEW i \in 1..Len(wire), Emulating(wire[i]), wire[i].live PROVE FALSE
  OBVIOUS
<1>1. First(wire[i].by, "tab")
  BY DEF TruthInv, Ordered
<1>2. wire[i].by = j
  BY <1>1 DEF First
<1>3. job[wire[i].by].mode \in Waiting
  BY DEF JobsInv, WireFits
<1> QED
  BY <1>2, <1>3

\* The one request with something to drop gives that up.
LEMMA OnlyOneDrops ==
    ASSUME JobsInv, TruthInv, NEW j \in Jobs, First(j, "tab"), NEW q, Becomes(j, q), turn' = turn,
           Recorded(q, TRUE), ~Drops(q.undo)
    PROVE  /\ \A i \in Jobs : Recorded(job'[i], First(i, "tab")') /\ ~Drops(job'[i].undo)
           /\ First(j, "tab")' /\ job'[j] = q
<1>1. job'[j] = q /\ \A i \in Jobs \ {j} : job'[i] = job[i]
  BY OneChanges
<1>2. \A i \in Jobs : First(i, "tab")' <=> First(i, "tab")
  BY DEF First
<1>3. ASSUME NEW i \in Jobs PROVE Recorded(job'[i], First(i, "tab")) /\ ~Drops(job'[i].undo)
  <2>1. CASE i = j
    BY <1>1, <2>1 DEF Recorded, Started
  <2>2. CASE i # j
    <3>1. Recorded(job[i], First(i, "tab")) /\ ~First(i, "tab")
      BY <2>2 DEF TruthInv, First
    <3>2. ~Drops(job[i].undo)
      BY <3>1, DropsInTurn
    <3> QED
      BY <1>1, <2>2, <3>1, <3>2
  <2> QED
    BY <2>1, <2>2
<1>4. ASSUME NEW i \in Jobs PROVE Recorded(job'[i], First(i, "tab")')
  BY <1>2, <1>3 DEF Recorded, Started
<1> QED
  BY <1>1, <1>2, <1>3, <1>4

LEMMA CommitTruth == ASSUME JobsInv, RestInv, TruthInv, NEW j \in Jobs, Commit(j) PROVE TruthInv'
<1> DEFINE r == job[j]
           first == First(j, "tab")
           q == [After(r) EXCEPT !.undo = <<>>]
           settings == [g \in 1..Len(Groups) |-> IF Groups[g] \in Here(r).arg THEN r.kind ELSE None]
<1>0. /\ turn' = turn /\ wire' = wire /\ overrides' = overrides /\ holders' = holders
      /\ r.mode = "run" /\ r.pc <= Len(Steps[r.kind]) /\ Here(r).op = "commit"
      /\ \/ /\ ~Aborted(r) /\ Becomes(j, q)
            /\ emulated' = IF "emulation" \in holders THEN settings ELSE emulated
         \/ Becomes(j, Failed(r)) /\ emulated' = emulated /\ spoiled' = spoiled
  BY DEF Commit, At, chrome
<1>1. /\ IsJob(r) /\ Active(r) /\ r.kind \in Kinds /\ r.pc \in Nat /\ r.pc > 0 /\ Recorded(r, first)
  BY <1>0, JobTidy, RunIsActive DEF TruthInv
<1>2. CASE Becomes(j, Failed(r)) /\ emulated' = emulated /\ spoiled' = spoiled
  <2> HIDE DEF r
  <2>1. Goes(r, Failed(r))
    BY <1>0, <1>1, SameGoes
  <2>2. Shrinks
    BY <1>0, SameWireShrinks
  <2> QED
    BY <1>0, <1>2, <2>1, <2>2, PlainTruth DEF r
<1>3. CASE /\ ~Aborted(r) /\ Becomes(j, q)
           /\ emulated' = IF "emulation" \in holders THEN settings ELSE emulated
  <2>1. q.kind = r.kind /\ q.undo = <<>> /\ q.mode = "run" /\ q.pc = r.pc + 1 /\ q.failed = r.failed
    <3>1. q = [r EXCEPT !.pc = @ + 1, !.mode = "run", !.undo = <<>>]
      BY <1>1, <1>3 DEF After, IsJob, JobFields
    <3> QED
      BY <1>1, <3>1 DEF IsJob, JobFields
  <2> HIDE DEF q, settings
  <2>2. r.pc \in Places(r.kind, {"commit"})
    BY <1>0, <1>1, PlaceOfStep
  <2> DEFINE k == r.kind
             top == r.pc
  <2>3. /\ Emulates(k) /\ Adopts(k) /\ ~Committed(k, top)
        /\ \E a \in Places(k, {"adopt", "disown"}) : a < top
        /\ \A g \in 1..Len(Groups) :
             /\ \E p \in Places(k, {"reset"}) : p < top /\ Steps[k][p].arg = g
             /\ Groups[g] \in Steps[k][top].arg <=>
                  \E s \in Places(k, {"set"}) : s < top /\ Steps[k][s].arg = g
    BY <1>1, <2>2, CommitPlace
  <2>4. ~r.failed /\ Started(k, r.undo, top, first)
    BY <1>0, <1>1, <2>3 DEF Recorded
  <2>5. Drops(r.undo)
    BY <2>3, <2>4 DEF Started
  <2>6. first /\ ~Exempt(r)
    BY <1>0, <1>1, <2>5, DropsInTurn
  <2>7. Recorded(q, TRUE)
    <3>1. Started(q.kind, q.undo, q.pc, TRUE)
      <4>1. top < q.pc
        BY <1>1, <2>1
      <4>2. Committed(q.kind, q.pc)
        BY <2>1, <2>2, <4>1 DEF Committed
      <4> QED
        BY <2>1, <4>2, NothingDrops DEF Started
    <3> QED
      BY <2>1, <2>3, <2>4, <3>1, NothingDrops DEF Recorded
  <2>8. /\ \A i \in Jobs : Recorded(job'[i], First(i, "tab")') /\ ~Drops(job'[i].undo)
    BY <1>0, <1>3, <2>1, <2>6, <2>7, NothingDrops, OnlyOneDrops
  <2>9. \A i \in 1..Len(wire) : Emulating(wire[i]) => ~wire[i].live
    BY <1>0, <2>6, NobodyWaits DEF Waiting
  <2>10. Standing(r) /\ overrides = [g \in 1..Len(Groups) |-> overrides[g]]
         /\ ("emulation" \notin holders => emulated = NoSettings)
    BY <2>5, <2>6 DEF TruthInv, Working, Settled
  <2>11. CASE "emulation" \in holders
    <3>1. Handled(r) = 1..Len(Groups)
      BY <1>1, <2>3 DEF Handled
    <3>2. 1 \in 1..Len(Groups)
      BY JobsAssumption
    <3>3. ~Noise /\ \A g \in 1..Len(Groups) : overrides[g] = Intended(r, g)
      BY <2>10, <2>11, <3>1, <3>2 DEF Standing
    <3>4. ~Traffic
      BY <2>9, <3>3 DEF Traffic, Noise
    <3>5. \A g \in 1..Len(Groups) :
             Intended(r, g) = IF Groups[g] \in Here(r).arg THEN r.kind ELSE None
      BY <1>1, <2>3 DEF Intended, Here
    <3>6. overrides' = emulated'
      BY <1>0, <1>3, <2>10, <2>11, <3>3, <3>5 DEF settings
    <3>7. ~Traffic'
      BY <1>0, <3>4 DEF Traffic
    <3> QED
      BY <1>0, <2>8, <2>9, <2>10, <2>11, <3>6, <3>7, TruthCalms
  <2>12. CASE "emulation" \notin holders
    <3>1. overrides' = NoSettings /\ emulated' = NoSettings /\ ~Traffic
      BY <1>0, <1>3, <2>10, <2>12 DEF Standing
    <3>2. ~Traffic'
      BY <1>0, <3>1 DEF Traffic
    <3> QED
      BY <1>0, <2>8, <2>9, <2>10, <3>1, <3>2, TruthCalms
  <2> QED
    BY <2>11, <2>12
<1> QED
  BY <1>0, <1>2, <1>3

\* A command on its way that is not about overrides.
LEMMA AppendShrinks ==
    ASSUME JobsInv, NEW m, ~Emulating(m), wire' = Append(wire, m) PROVE Shrinks
<1>1. IsSeq(wire) /\ Len(wire) \in Nat
  BY DEF JobsInv, WireFits, IsSeq
<1>2. /\ Len(wire') = Len(wire) + 1 /\ wire'[Len(wire) + 1] = m
      /\ \A i \in 1..Len(wire) : wire'[i] = wire[i]
  BY <1>1, AppendedTo
<1>3. ASSUME NEW i \in 1..Len(wire'), Emulating(wire'[i])
      PROVE  i + 0 \in 1..Len(wire) /\ wire'[i] = wire[i + 0]
  <2>1. i # Len(wire) + 1
    BY <1>2, <1>3
  <2> QED
    BY <1>1, <1>2, <2>1
<1> QED
  BY <1>3 DEF Shrinks

\* A command about overrides, of the first in the queue.
LEMMA AppendOrdered ==
    ASSUME JobsInv, TruthInv, NEW j \in Jobs, NEW q, Becomes(j, q), turn' = turn, First(j, "tab"),
           Drops(q.undo), NEW x, wire' = Append(wire, [by |-> j, step |-> x, live |-> TRUE])
    PROVE  Ordered' /\ (Noise' => Noise)
<1> DEFINE m == [by |-> j, step |-> x, live |-> TRUE]
           n == Len(wire)
<1>1. IsSeq(wire) /\ n \in Nat
  BY DEF JobsInv, WireFits, IsSeq
<1>2. Len(wire') = n + 1 /\ wire'[n + 1] = m /\ \A i \in 1..n : wire'[i] = wire[i]
  BY <1>1, AppendedTo
<1>3. m.by = j /\ m.live
  OBVIOUS
<1> HIDE DEF m
<1>4. \A i \in 1..Len(wire') : i \in 1..n \/ (i = n + 1 /\ wire'[i] = m)
  BY <1>1, <1>2
<1>5. job'[j] = q /\ \A i \in Jobs \ {j} : job'[i] = job[i]
  BY OneChanges
<1>6. ASSUME NEW i \in 1..Len(wire'), Emulating(wire'[i]), wire'[i].live
      PROVE  wire'[i].by = j
  <2>1. CASE i \in 1..n
    <3>1. First(wire[i].by, "tab")
      BY <1>2, <1>6, <2>1 DEF TruthInv, Ordered
    <3> QED
      BY <1>2, <2>1, <3>1 DEF First
  <2>2. CASE i = n + 1
    BY <1>2, <1>3, <2>2
  <2> QED
    BY <1>4, <2>1, <2>2
<1>7. ASSUME NEW i \in 1..Len(wire'), Emulating(wire'[i]), ~wire'[i].live
      PROVE  i \in 1..n /\ wire'[i] = wire[i]
  BY <1>2, <1>3, <1>4, <1>7
<1>8. Noise' => Noise
  BY <1>7 DEF Noise, Emulating
<1>9. ASSUME NEW i \in 1..Len(wire'), NEW k \in 1..Len(wire'),
             Emulating(wire'[i]), ~wire'[i].live, Emulating(wire'[k]), wire'[k].live
      PROVE  i < k
  <2>1. i \in 1..n /\ wire'[i] = wire[i]
    BY <1>7, <1>9
  <2>2. CASE k \in 1..n
    BY <1>2, <1>9, <2>1, <2>2 DEF TruthInv, Ordered
  <2>3. CASE k = n + 1
    BY <1>1, <2>1, <2>3
  <2> QED
    BY <1>4, <2>2, <2>3
<1>10. \A i \in 1..Len(wire') : Emulating(wire'[i]) /\ wire'[i].live =>
          First(wire[i].by, "tab")' /\ Drops(job'[wire'[i].by].undo)
  BY <1>5, <1>6 DEF First
<1>11. \A i, k \in 1..Len(wire') : (Emulating(wire'[i]) /\ ~wire'[i].live)
                                   /\ (Emulating(wire'[k]) /\ wire'[k].live) => i < k
  BY <1>9
<1>12. Ordered'
  BY <1>10, <1>11 DEF Ordered, Emulating, Drops, Listed
<1> QED
  BY <1>8, <1>12

\* What is known of a handler that has come to a reset or a setting.
LEMMA SetPlace ==
    ASSUME NEW r, NEW first, Recorded(r, first), Active(r), r.pc <= Len(Steps[r.kind]),
           r.kind \in Kinds, r.pc \in Nat, r.pc > 0, Here(r).op \in {"set", "reset"}
    PROVE  /\ Emulates(r.kind) /\ Drops(r.undo) /\ first /\ ~Exempt(r)
           /\ Here(r).op = "reset" => \A s \in Places(r.kind, {"set"}) :
                 Steps[r.kind][s].arg = Here(r).arg => r.pc < s
<1> DEFINE k == r.kind
           top == r.pc
<1>1. \A ops : \A i \in Places(k, ops) : i \in Nat
  BY PlacesAreNumbers
<1>2. top \in Places(k, {"set", "reset", "commit"}) /\ top \in Places(k, {"set", "reset"})
  BY PlaceOfStep
<1>3. Emulates(k) /\ \A c \in Places(k, {"commit"}) : top <= c
  BY <1>2, EmulationAssumption
<1>4. PICK a \in Places(k, {"adopt", "disown"}) : a < top
  BY <1>2, <1>3, EmulationAssumption DEF Emulates
<1>5. ~Committed(k, top)
  BY <1>1, <1>3 DEF Committed
<1>6. Started(k, r.undo, top, first) /\ ~r.failed
  BY <1>3 DEF Recorded, Active
<1>7. Drops(r.undo)
  BY <1>4, <1>5, <1>6 DEF Started
<1>8. first
  BY <1>7, DropsInTurn
<1>9. ASSUME Here(r).op = "reset", NEW s \in Places(k, {"set"}), Steps[k][s].arg = Here(r).arg
      PROVE  top < s
  <2>1. top \in Places(k, {"reset"})
    BY <1>9, PlaceOfStep
  <2> QED
    BY <1>9, <2>1, EmulationAssumption DEF Here
<1> QED
  BY <1>3, <1>6, <1>7, <1>8, <1>9 DEF Exempt

LEMMA SendTruth == ASSUME JobsInv, RestInv, TruthInv, NEW j \in Jobs, Send(j) PROVE TruthInv'
<1> DEFINE k == job[j]
           first == First(j, "tab")
           held == "emulation" \in holders'
           step == Here(k)
           u == Off(step.arg)
           r == IF step.op = "evaluate" THEN Push(k, u) ELSE k
           o == Without(r, step.arg)
           q == [r EXCEPT !.mode = "wait"]
           m == [by |-> j, step |-> step, live |-> TRUE]
<1>0. /\ turn' = turn /\ overrides' = overrides /\ emulated' = emulated /\ spoiled' = spoiled
      /\ holders' = holders /\ k.mode = "run" /\ k.pc <= Len(Steps[k.kind]) /\ step.op \in Commands
      /\ \/ /\ wire' = wire
            /\ \/ step.op \in BestEffort /\ Becomes(j, After(o))
               \/ Becomes(j, Failed(r))
         \/ /\ Lease(j, step) \in holders /\ Becomes(j, q) /\ wire' = Append(wire, m)
  BY DEF Send, At
<1>1. /\ IsJob(k) /\ Active(k) /\ k.kind \in Kinds /\ k.pc \in Nat /\ k.pc > 0 /\ IsSeq(k.undo)
      /\ Recorded(k, first)
  BY <1>0, JobTidy, RunIsActive DEF TruthInv
<1>2. /\ step.op \notin Emulations \ {"set", "reset"} /\ step.op # "lock"
  BY <1>0 DEF Emulations, Commands, BestEffort
<1>3. u.op = "off"
  BY DEF Off, Do
<1> HIDE DEF u
<1>4. /\ IsJob(r) /\ r.kind = k.kind /\ r.pc = k.pc /\ r.failed = k.failed
      /\ r.undo = (IF step.op = "evaluate" THEN <<u>> \o k.undo ELSE k.undo) /\ IsSeq(r.undo)
  BY <1>1, PrependedTo DEF Push, IsJob, JobFields
<1> HIDE DEF r
<1>5. \A v \in Listed(r.undo) : v \in Listed(k.undo) \/ v.op \notin {"reset", "drop"}
  <2>1. CASE step.op = "evaluate"
    BY <1>1, <1>3, <1>4, <2>1, PrependedTo
  <2>2. CASE step.op # "evaluate"
    BY <1>4, <2>2
  <2> QED
    BY <2>1, <2>2
<1>6. Emulates(k.kind) => step.op \notin {"on", "off", "evaluate"} \cup BestEffort
  <2> SUFFICES ASSUME Emulates(k.kind), step.op \in {"on", "off", "evaluate"} \cup BestEffort PROVE FALSE
    OBVIOUS
  <2>1. k.pc \in Opens(k.kind) \/ k.pc \in Closes(k.kind)
    BY <1>0, <1>1, PlaceOfStep DEF Opens, Closes, BestEffort
  <2> QED
    BY <1>1, <2>1, ElsewhereKinds
<1>7. Beside(k, r)
  BY <1>4, <1>5, <1>6 DEF Beside
<1>8. m.by = j /\ m.step = step
  OBVIOUS
<1>9. wire' = wire => Shrinks
  BY SameWireShrinks
<1>10. q.kind = r.kind /\ q.mode = "wait" /\ q.pc = r.pc /\ q.undo = r.undo /\ q.failed = r.failed
  BY <1>4 DEF IsJob, JobFields
<1>11. step.op \in BestEffort => IsJob(o) /\ Beside(k, o)
  <2> SUFFICES ASSUME step.op \in BestEffort PROVE IsJob(o) /\ Beside(k, o)
    OBVIOUS
  <2> DEFINE t == IF r.undo # <<>> /\ Head(r.undo).arg = step.arg THEN Tail(r.undo) ELSE r.undo
  <2>1. IsJob(o) /\ o.kind = r.kind /\ o.pc = r.pc /\ o.failed = r.failed /\ o.undo = t
    BY <1>4 DEF Without, IsJob, JobFields
  <2>2. \A v \in Listed(t) : v \in Listed(r.undo)
    <3>1. CASE r.undo # <<>> /\ Head(r.undo).arg = step.arg
      BY <1>4, <3>1, PoppedFrom
    <3>2. CASE ~(r.undo # <<>> /\ Head(r.undo).arg = step.arg)
      BY <3>2
    <3> QED
      BY <3>1, <3>2
  <2> HIDE DEF o, t
  <2>3. \A v \in Listed(o.undo) : v \in Listed(k.undo) \/ v.op \notin {"reset", "drop"}
    BY <1>5, <2>1, <2>2
  <2> QED
    BY <1>4, <1>6, <2>1, <2>3 DEF Beside
<1> HIDE DEF q, o, m, k, step, first
<1>12. CASE step.op \notin {"set", "reset"}
  <2>1. Here(k).op \notin Emulations /\ Here(k).op # "lock"
    BY <1>2, <1>12 DEF Emulations, step
  <2>2. Goes(k, Failed(r)) /\ Goes(k, q) /\ (step.op \in BestEffort => Goes(k, After(o)))
    BY <1>0, <1>1, <1>7, <1>10, <1>11, <2>1, AfterGoes
  <2>3. wire' = Append(wire, m) => Shrinks
    BY <1>8, <1>12, AppendShrinks DEF Emulating
  <2> QED
    BY <1>0, <1>9, <2>1, <2>2, <2>3, PlainTruth DEF k
<1>13. CASE step.op \in {"set", "reset"}
  <2>1. Here(k).op \in {"set", "reset"} /\ Here(k).op # "lock" /\ step.op \notin BestEffort
    BY <1>13 DEF step, BestEffort
  <2>2. Emulates(k.kind) /\ Drops(k.undo) /\ first /\ ~Exempt(k)
    BY <1>0, <1>1, <2>1, SetPlace
  <2>3. Goes(k, Failed(r)) /\ Goes(k, q)
    BY <1>0, <1>1, <1>7, <1>10, AfterGoes
  <2>4. CASE wire' = wire
    BY <1>0, <1>9, <2>1, <2>3, <2>4, PlainTruth DEF k
  <2>5. CASE Lease(j, step) \in holders /\ Becomes(j, q) /\ wire' = Append(wire, m)
    <3>1. "emulation" \in holders
      BY <1>13, <2>5 DEF Lease
    <3>2. Leads(k, q, first, TRUE)
      BY <1>1, <2>1, <2>3, GoesLeads
    <3>3. Recorded(q, TRUE) /\ Drops(q.undo)
      BY <2>2, <3>2 DEF Leads
    <3>4. /\ \A g \in Handled(k) : overrides[g] = Intended(k, g)
          /\ Noise => Handled(k) = {}
          /\ overrides = [g \in 1..Len(Groups) |-> overrides[g]]
      BY <2>2, <3>1 DEF TruthInv, Working, Standing, Settled, k
    <3>5. Ordered' /\ (Noise' => Noise)
      BY <1>0, <2>2, <2>5, <3>3, AppendOrdered DEF m, first
    <3>6. ~Exempt(q) => /\ Handled(q) \subseteq Handled(k)
                        /\ \A g \in Handled(q) : Intended(q, g) = Intended(k, g)
      BY <3>2, <3>3 DEF Leads
    <3>7. ~Exempt(q) => (\A g \in Handled(q) : overrides'[g] = Intended(q, g)) /\ (Noise' => Handled(q) = {})
      BY <1>0, <3>4, <3>5, <3>6
    <3> QED
      BY <1>0, <2>2, <2>5, <3>1, <3>3, <3>4, <3>5, <3>7, BusyTruth DEF first
  <2> QED
    BY <1>0, <2>1, <2>4, <2>5
<1> QED
  BY <1>12, <1>13

LEMMA AbandonTruth == ASSUME JobsInv, RestInv, TruthInv, NEW j \in Jobs, Abandon(j) PROVE TruthInv'
<1> DEFINE r == job[j]
           first == First(j, "tab")
           q == Failed(r)
<1>0. /\ turn' = turn /\ overrides' = overrides /\ emulated' = emulated /\ spoiled' = spoiled
      /\ holders' = holders /\ r.mode = "wait" /\ Becomes(j, q)
      /\ wire' = [i \in 1..Len(wire) |-> IF wire[i].by = j THEN [wire[i] EXCEPT !.live = FALSE]
                                                            ELSE wire[i]]
  BY DEF Abandon
<1>1. /\ IsJob(r) /\ Active(r) /\ r.kind \in Kinds /\ r.pc \in Nat /\ r.pc > 0
      /\ Recorded(r, first) /\ r.pc <= Len(Steps[r.kind]) /\ Here(r).op \in Commands
  BY <1>0, JobTidy, JobFits, RunIsActive DEF TruthInv, Fits
<1>2. Here(r).op # "lock"
  BY <1>1 DEF Commands, BestEffort
<1>3. Len(wire) \in Nat /\ Len(wire') = Len(wire)
  BY <1>0 DEF JobsInv, WireFits, IsSeq
<1>4. ASSUME NEW i \in 1..Len(wire)
      PROVE  /\ wire'[i].step = wire[i].step /\ wire'[i].by = wire[i].by
             /\ wire'[i].live => wire[i].live /\ wire[i].by # j
             /\ ~(wire[i].live /\ wire[i].by = j) => wire'[i] = wire[i]
  <2>1. /\ IsMessage(wire[i]) /\ wire[i].live \in BOOLEAN
        /\ wire'[i] = IF wire[i].by = j THEN [wire[i] EXCEPT !.live = FALSE] ELSE wire[i]
    BY <1>0 DEF JobsInv, WireFits
  <2>2. CASE wire[i].by = j
    BY <2>1, <2>2 DEF IsMessage, MessageFields
  <2>3. CASE wire[i].by # j
    BY <2>1, <2>3
  <2> QED
    BY <2>2, <2>3
<1> HIDE DEF r, first
<1>5. q.kind = r.kind /\ q.undo = r.undo /\ q.mode = "undo" /\ q.failed
  BY <1>1 DEF Failed, IsJob, JobFields
<1>6. Goes(r, q)
  BY <1>1, SameGoes
<1> HIDE DEF q
<1>7. CASE Drops(r.undo)
  <2>1. Recorded(q, first) /\ (~Exempt(q) => Handled(q) = {})
    BY <1>1, <1>5, <1>7, FailedHandles
  <2>2. first /\ ~Exempt(r)
    BY <1>0, <1>1, <1>7, DropsInTurn
  <2>3. \A i \in 1..Len(wire') : Emulating(wire'[i]) => ~wire'[i].live
    <3> SUFFICES ASSUME NEW i \in 1..Len(wire), Emulating(wire'[i]), wire'[i].live PROVE FALSE
      BY <1>3
    <3>1. Emulating(wire[i]) /\ wire[i].live /\ wire[i].by # j
      BY <1>4 DEF Emulating
    <3>2. First(wire[i].by, "tab")
      BY <3>1 DEF TruthInv, Ordered
    <3> QED
      BY <2>2, <3>1, <3>2 DEF First, first
  <2>4. Ordered'
    BY <2>3 DEF Ordered, Emulating
  <2>5. Traffic' => Traffic
    BY <1>3, <1>4 DEF Traffic, Emulating
  <2>6. /\ "emulation" \notin holders => overrides = NoSettings /\ ~Traffic
        /\ overrides = [g \in 1..Len(Groups) |-> overrides[g]]
        /\ "emulation" \notin holders => emulated = NoSettings
    BY <1>7, <2>2 DEF TruthInv, Working, Standing, Settled, r
  <2>7. Recorded(q, TRUE)
    BY <2>1, <2>2
  <2> QED
    BY <1>0, <1>5, <1>7, <2>1, <2>2, <2>4, <2>5, <2>6, <2>7, BusyTruth DEF first
<1>8. CASE ~Drops(r.undo)
  <2>1. ASSUME NEW i \in 1..Len(wire'), Emulating(wire'[i])
        PROVE  i + 0 \in 1..Len(wire) /\ wire'[i] = wire[i + 0]
    <3>1. i \in 1..Len(wire) /\ i + 0 = i /\ Emulating(wire[i])
      BY <1>3, <1>4, <2>1 DEF Emulating
    <3>2. ~(wire[i].live /\ wire[i].by = j)
      BY <1>8, <3>1 DEF TruthInv, Ordered, r
    <3> QED
      BY <1>4, <3>1, <3>2
  <2>2. Shrinks
    BY <2>1 DEF Shrinks
  <2> QED
    BY <1>0, <1>2, <1>6, <2>2, PlainTruth DEF r
<1> QED
  BY <1>7, <1>8

\* A finally block's step is off its list.
LEMMA PoppedTo ==
    ASSUME NEW r, IsJob(r)
    PROVE  /\ IsJob(Popped(r)) /\ Popped(r).kind = r.kind /\ Popped(r).undo = Tail(r.undo)
           /\ Popped(r).mode = "undo" /\ Popped(r).failed = r.failed
BY DEF Popped, IsJob, JobFields

LEMMA PoppedRecorded ==
    ASSUME NEW r, IsJob(r), IsSeq(r.undo), r.undo # <<>>, NEW first, Recorded(r, first)
    PROVE  /\ Recorded(Popped(r), first) /\ (Exempt(Popped(r)) <=> Exempt(r))
           /\ ~Emulates(r.kind) => Goes(r, Popped(r))
           /\ Emulates(r.kind) =>
                /\ Drops(r.undo) /\ first
                /\ Head(r.undo).op # "drop" =>
                     Adopts(r.kind) /\ Head(r.undo) = Do("reset", Head(r.undo).arg)
                     /\ Drops(Popped(r).undo)
                /\ Head(r.undo).op = "drop" =>
                     Popped(r).undo = <<>> /\ Listed(r.undo) = {Head(r.undo)}
<1> DEFINE q == Popped(r)
<1>1. q.kind = r.kind /\ q.undo = Tail(r.undo) /\ q.mode = "undo" /\ q.failed = r.failed
  BY PoppedTo
<1> HIDE DEF q
<1>2. Listed(q.undo) \subseteq Listed(r.undo)
  BY <1>1, PoppedFrom
<1>3. Exempt(q) <=> Exempt(r)
  BY <1>1 DEF Exempt
<1>4. CASE ~Emulates(r.kind)
  <2>1. Recorded(q, first)
    BY <1>1, <1>2, <1>4 DEF Recorded
  <2>2. Goes(r, q)
    BY <1>1, <1>2, <1>4, ElseGoes
  <2> QED
    BY <1>3, <1>4, <2>1, <2>2 DEF q
<1>5. CASE Emulates(r.kind)
  <2>1. Overriding(r.kind, r.undo) /\ (Drops(r.undo) => first)
    BY <1>5 DEF Recorded
  <2>2. /\ Overriding(r.kind, q.undo) /\ Drops(r.undo)
        /\ Head(r.undo).op # "drop" =>
             Adopts(r.kind) /\ Head(r.undo) = Do("reset", Head(r.undo).arg) /\ Drops(q.undo)
        /\ Head(r.undo).op = "drop" => q.undo = <<>> /\ Listed(r.undo) = {Head(r.undo)}
    BY <1>1, <2>1, OverridingPop
  <2>3. ~Active(q)
    BY <1>1 DEF Active
  <2>4. Recorded(q, first)
    BY <1>1, <1>5, <2>1, <2>2, <2>3 DEF Recorded
  <2> QED
    BY <1>3, <1>5, <2>1, <2>2, <2>4 DEF q
<1> QED
  BY <1>4, <1>5

\* Where a request's last step is done and there is something to drop, nothing was committed.
LEMMA UncommittedEnd ==
    ASSUME NEW r, NEW first, Recorded(r, first), r.kind \in Kinds, r.pc \in Nat, r.mode = "run",
           r.pc > Len(Steps[r.kind]), Drops(r.undo)
    PROVE  /\ ~Adopts(r.kind)
           /\ \A g \in 1..Len(Groups) : g \in Handled(r) /\ Intended(r, g) = None
<1> DEFINE k == r.kind
<1>1. Emulates(k)
  BY DropsInTurn
<1>2. \A ops : \A p \in Places(k, ops) : p \in Nat /\ p < r.pc
  BY PlacesAreNumbers, ProgramsAssumption
<1>3. ~Committed(k, r.pc)
  BY <1>1, NothingDrops DEF Recorded, Active
<1>4. Places(k, {"commit"}) = {}
  BY <1>2, <1>3 DEF Committed
<1>5. ~Adopts(k)
  BY <1>4, EmulationAssumption DEF Adopts
<1>6. PICK a \in Places(k, {"adopt", "disown"}) : TRUE
  BY <1>1 DEF Emulates
<1>7. a \in Places(k, {"disown"})
  BY <1>5, <1>6 DEF Adopts, Places
<1>8. Places(k, {"set"}) = {}
  <2>1. Places(k, {"set", "commit"}) = {}
    BY <1>7, EmulationAssumption
  <2> QED
    BY <2>1 DEF Places
<1>9. \A g \in 1..Len(Groups) : \E p \in Places(k, {"reset"}) : Steps[k][p].arg = g
  BY <1>6, EmulationAssumption
<1>10. Active(r)
  BY DEF Active
<1>11. \A g \in 1..Len(Groups) : g \in Handled(r)
  BY <1>2, <1>9, <1>10 DEF Handled
<1>12. \A g : Intended(r, g) = None
  BY <1>8 DEF Intended
<1> QED
  BY <1>5, <1>11, <1>12

\* A finally block drops the tab's state, when it has reset all overrides.
LEMMA DropTruth ==
    ASSUME JobsInv, RestInv, TruthInv, NEW j \in Jobs, Undo(j), Head(job[j].undo).op = "drop"
    PROVE  TruthInv'
<1> DEFINE r == job[j]
           first == First(j, "tab")
           q == Popped(r)
<1>0. /\ turn' = turn /\ spoiled' = spoiled /\ r.undo # <<>> /\ Unwinding(j)
      /\ LeaveSession({"emulation"}) /\ emulated' = NoSettings /\ Becomes(j, q)
  BY DEF Undo
<1>1. /\ IsJob(r) /\ r.kind \in Kinds /\ r.pc \in Nat /\ IsSeq(r.undo) /\ Recorded(r, first)
  BY JobTidy DEF TruthInv
<1>2. r.mode \notin Waiting
  BY <1>0 DEF Unwinding, Waiting
<1>2a. r.mode = "undo" \/ (r.mode = "run" /\ r.pc > Len(Steps[r.kind]))
  BY <1>0 DEF Unwinding
<1> HIDE DEF q, first
<1>3. Drops(r.undo)
  BY <1>0, <1>1, PoppedFrom DEF Drops
<1>3a. Head(r.undo).op = "drop"
  OBVIOUS
<1>4. /\ first /\ Recorded(q, TRUE) /\ (Exempt(q) <=> Exempt(r)) /\ q.undo = <<>>
      /\ Listed(r.undo) = {Head(r.undo)}
  <2>1. Emulates(r.kind)
    BY <1>1, <1>3, DropsInTurn
  <2>2. /\ first /\ Recorded(q, first) /\ (Exempt(q) <=> Exempt(r)) /\ q.undo = <<>>
        /\ Listed(r.undo) = {Head(r.undo)}
    <3> HIDE DEF r
    <3>1. r.undo # <<>>
      BY <1>0
    <3>2. first /\ Recorded(q, first) /\ (Exempt(q) <=> Exempt(r))
      BY <1>1, <2>1, <3>1, PoppedRecorded DEF q
    <3>3. q.undo = <<>> /\ Listed(r.undo) = {Head(r.undo)}
      BY <1>1, <1>3a, <2>1, <3>1, PoppedRecorded DEF q
    <3> QED
      BY <3>2, <3>3
  <2> QED
    BY <2>2
<1>5. /\ \A i \in Jobs : Recorded(job'[i], First(i, "tab")') /\ ~Drops(job'[i].undo)
      /\ First(j, "tab")' /\ job'[j] = q
  BY <1>0, <1>4, NothingDrops, OnlyOneDrops DEF first
<1>6. \A i \in 1..Len(wire) : Emulating(wire[i]) => ~wire[i].live
  BY <1>2, <1>4, NobodyWaits DEF first
<1>7. ASSUME ~Exempt(r) PROVE overrides = NoSettings /\ ~Traffic
  <2>1. Standing(r) /\ overrides = [g \in 1..Len(Groups) |-> overrides[g]]
    BY <1>3, <1>7 DEF TruthInv, Working, Settled
  <2>2. CASE "emulation" \in holders
    <3>1. \A g \in 1..Len(Groups) : g \in Handled(r) /\ Intended(r, g) = None
      <4>1. CASE r.mode = "undo"
        <5>1. ~Active(r)
          BY <4>1 DEF Active
        <5>2. \A g : Do("reset", g).op # "drop"
          BY DEF Do
        <5>3. \A g : Do("reset", g) \notin Listed(r.undo)
          BY <1>4, <5>2
        <5> QED
          BY <5>1, <5>3 DEF Handled, Intended
      <4>2. CASE r.mode = "run" /\ r.pc > Len(Steps[r.kind])
        BY <1>1, <1>3, <4>2, UncommittedEnd
      <4> QED
        BY <1>2a, <4>1, <4>2
    <3>2. 1 \in 1..Len(Groups)
      BY JobsAssumption
    <3>3. ~Noise /\ \A g \in 1..Len(Groups) : overrides[g] = None
      BY <2>1, <2>2, <3>1, <3>2 DEF Standing
    <3> QED
      BY <1>6, <2>1, <3>3 DEF Traffic, Noise, NoSettings
  <2>3. CASE "emulation" \notin holders
    BY <2>1, <2>3 DEF Standing
  <2> QED
    BY <2>2, <2>3
<1>8. CASE holders' = {}
  <2>1. overrides' = NoSettings /\ wire' = <<>>
    BY <1>0, <1>8 DEF LeaveSession
  <2>2. "emulation" \notin holders'
    BY <1>8
  <2> QED
    BY <1>0, <1>5, <2>1, <2>2, TruthEnds
<1>9. CASE holders' # {}
  <2>1. overrides' = overrides /\ wire' = wire
    BY <1>0, <1>9 DEF LeaveSession, chrome
  <2>2. Traffic' => Traffic
    BY <2>1 DEF Traffic
  <2>3. \/ \E i \in Jobs : First(i, "tab")' /\ Exempt(job'[i])
        \/ overrides' = emulated' /\ ~Traffic'
    BY <1>0, <1>4, <1>5, <1>7, <2>1, <2>2
  <2>4. overrides' = [g \in 1..Len(Groups) |-> overrides'[g]]
    BY <2>1 DEF TruthInv, Settled
  <2> QED
    BY <1>0, <1>5, <1>6, <2>1, <2>3, <2>4, TruthCalms
<1> QED
  BY <1>8, <1>9

LEMMA UndoTruth == ASSUME JobsInv, RestInv, TruthInv, NEW j \in Jobs, Undo(j) PROVE TruthInv'
<1> DEFINE r == job[j]
           first == First(j, "tab")
           step == Head(r.undo)
           n == Popped(r)
           q == [r EXCEPT !.mode = "undoing"]
           m == [by |-> j, step |-> step, live |-> TRUE]
<1>0. turn' = turn /\ spoiled' = spoiled /\ r.undo # <<>> /\ Unwinding(j)
  BY DEF Undo
<1>1. /\ IsJob(r) /\ r.kind \in Kinds /\ r.pc \in Nat /\ IsSeq(r.undo) /\ Recorded(r, first)
  BY JobTidy DEF TruthInv
<1>2. q.kind = r.kind /\ q.mode = "undoing" /\ q.undo = r.undo /\ q.failed = r.failed
  BY <1>1 DEF IsJob, JobFields
<1>3. CASE step.op = "drop"
  BY <1>3, DropTruth
<1>4. CASE step.op # "drop"
  <2>0. /\ overrides' = overrides /\ emulated' = emulated /\ holders' = holders
        /\ \/ Becomes(j, n) /\ wire' = wire /\ (step.op # "restore" => Lease(j, step) \notin holders)
           \/ Lease(j, step) \in holders /\ Becomes(j, q) /\ wire' = Append(wire, m)
    <3>1. CASE step.op = "restore"
      BY <3>1 DEF Undo, chrome
    <3>2. CASE step.op # "restore"
      BY <1>4, <3>2 DEF Undo
    <3> QED
      BY <3>1, <3>2
  <2>1. m.step = step
    OBVIOUS
  <2>2. step \in Listed(r.undo) /\ step.op # "set"
    BY <1>0, <1>1, PoppedFrom, JobTidy DEF Tidied
  <2>3. r.mode = "undo" \/ (r.mode = "run" /\ r.pc > Len(Steps[r.kind]))
    BY <1>0 DEF Unwinding
  <2>4. wire' = wire => Shrinks
    BY SameWireShrinks
  <2> HIDE DEF r, first, q, m
  <2>5. CASE ~Emulates(r.kind)
    <3>1. step.op \notin {"set", "reset"}
      BY <1>1, <1>4, <2>2, <2>5 DEF Recorded
    <3>2. Goes(r, q)
      BY <1>2, <2>5, ElseGoes
    <3>3. Goes(r, n)
      BY <1>0, <1>1, <2>5, PoppedRecorded
    <3>4. wire' = Append(wire, m) => Shrinks
      BY <2>1, <3>1, AppendShrinks DEF Emulating
    <3>5. \A held : Leads(r, q, first, held) /\ Leads(r, n, first, held)
      <4>1. \A u \in Listed(q.undo) : u.op \notin {"reset", "drop"}
        BY <1>1, <1>2, <2>5 DEF Recorded
      <4>2. Recorded(n, first) /\ n.kind = r.kind /\ n.undo = Tail(r.undo) /\ n.failed = r.failed
        BY <1>0, <1>1, PoppedRecorded, PoppedTo
      <4>3. ~Drops(q.undo) /\ ~Drops(r.undo)
        BY <1>2, <4>1 DEF Drops
      <4>4. ~Drops(n.undo)
        <5> HIDE DEF n
        <5> QED
          BY <2>5, <4>2, DropsInTurn
      <4>5. Recorded(q, first)
        BY <1>2, <2>5, <4>1 DEF Recorded
      <4> HIDE DEF n
      <4>6. Exempt(r) => Exempt(q) /\ Exempt(n)
        BY <1>2, <4>2 DEF Exempt
      <4> QED
        BY <4>2, <4>3, <4>4, <4>5, <4>6 DEF Leads
    <3> HIDE DEF n
    <3> QED
      BY <1>0, <2>0, <2>4, <3>4, <3>5, OneTruth DEF r, first
  <2>6. CASE Emulates(r.kind)
    <3>1. /\ Recorded(n, first) /\ (Exempt(n) <=> Exempt(r)) /\ Drops(r.undo) /\ first
          /\ Adopts(r.kind) /\ step = Do("reset", step.arg) /\ Drops(n.undo)
      BY <1>0, <1>1, <1>4, <2>6, PoppedRecorded
    <3>2. step.op = "reset" /\ Lease(j, step) = "emulation"
      BY <3>1 DEF Do, Lease
    <3> HIDE DEF n
    <3>3. r.mode = "undo"
      BY <1>1, <2>3, <3>1, UncommittedEnd
    <3>4. CASE Becomes(j, n) /\ wire' = wire /\ "emulation" \notin holders
      <4>1. Leads(r, n, first, "emulation" \in holders')
        BY <2>0, <3>1, <3>4 DEF Leads
      <4> QED
        BY <1>0, <2>0, <2>4, <3>4, <4>1, OneTruth DEF r, first
    <3>5. CASE "emulation" \in holders /\ Becomes(j, q) /\ wire' = Append(wire, m)
      <4>1. ~Active(r) /\ ~Active(q)
        BY <1>2, <3>3 DEF Active
      <4>2. Recorded(q, TRUE)
        BY <1>1, <1>2, <2>6, <4>1 DEF Recorded
      <4>3. /\ Handled(q) = Handled(r) /\ (\A g : Intended(q, g) = Intended(r, g))
            /\ (Exempt(q) <=> Exempt(r))
        BY <1>2, <4>1 DEF Handled, Intended, Exempt
      <4>4. /\ ~Exempt(r) => /\ \A g \in Handled(r) : overrides[g] = Intended(r, g)
                             /\ Noise => Handled(r) = {}
            /\ overrides = [g \in 1..Len(Groups) |-> overrides[g]]
        BY <3>1, <3>5 DEF TruthInv, Working, Standing, Settled, r
      <4>5. Ordered' /\ (Noise' => Noise)
        BY <1>0, <1>2, <3>1, <3>5, AppendOrdered DEF m, first
      <4>6. ~Exempt(q) => (\A g \in Handled(q) : overrides'[g] = Intended(q, g)) /\ (Noise' => Handled(q) = {})
        BY <2>0, <4>3, <4>4, <4>5
      <4> QED
        BY <1>0, <1>2, <2>0, <3>1, <3>5, <4>2, <4>4, <4>5, <4>6, BusyTruth DEF first
    <3> QED
      BY <2>0, <3>2, <3>4, <3>5
  <2> QED
    BY <2>5, <2>6
<1> QED
  BY <1>3, <1>4

\* A request gives up its turn with nothing to drop, or with a reset reported as failed.
LEMMA FinishTruth == ASSUME JobsInv, RestInv, TruthInv, NEW j \in Jobs, Finish(j) PROVE TruthInv'
<1> DEFINE r == job[j]
           answer == IF r.answer # None THEN r.answer
                     ELSE IF r.failed \/ r.abort = "cancel" THEN "error" ELSE "ok"
           q == [r EXCEPT !.mode = "done", !.abort = "no", !.seen = None, !.answer = answer]
<1>0. /\ r.undo = <<>> /\ LeaveSession({j}) /\ emulated' = emulated
      /\ turn' = [x \in DOMAIN turn |-> IF First(j, x) THEN Tail(turn[x]) ELSE turn[x]]
      /\ spoiled' = (spoiled \/ (r.kind = "reset" /\ r.failed))
  BY DEF Finish
<1>1. IsJob(r) /\ Recorded(r, First(j, "tab"))
  BY JobTidy DEF TruthInv
<1>2. Becomes(j, q)
  BY <1>1 DEF Finish, IsJob, JobFields
<1>3. q.kind = r.kind /\ q.undo = <<>> /\ q.mode = "done" /\ q.failed = r.failed
  BY <1>0, <1>1 DEF IsJob, JobFields
<1> HIDE DEF q
<1>4. Queues
  BY DEF RestInv
<1>5. turn'["tab"] = IF First(j, "tab") THEN Tail(turn["tab"]) ELSE turn["tab"]
  BY <1>0, <1>4 DEF Queues
<1>6. \A i \in Jobs \ {j} : First(i, "tab") => First(i, "tab")'
  BY <1>5 DEF First
<1>7. job'[j] = q /\ \A i \in Jobs \ {j} : job'[i] = job[i]
  BY <1>2, OneChanges
<1>8. ~Drops(r.undo)
  BY <1>0, NothingDrops
<1> HIDE DEF r
<1>9. \A held, first : Leads(r, q, first, held)
  <2>1. \A first : Recorded(q, first)
    <3>1. ~Active(q)
      BY <1>3 DEF Active
    <3> QED
      BY <1>3, <3>1, NothingListed, NothingDrops DEF Recorded
  <2> QED
    BY <1>0, <1>3, <2>1, NothingDrops DEF Leads, Exempt
<1>10. "emulation" \in holders' <=> "emulation" \in holders
  BY <1>0, JobsAssumption DEF LeaveSession
<1>11. ASSUME NEW i \in Jobs PROVE Leads(job[i], job'[i], First(i, "tab")', "emulation" \in holders')
  <2>1. CASE i = j
    BY <1>7, <1>9, <2>1 DEF r
  <2>2. CASE i # j
    <3>1. job'[i] = job[i] /\ Recorded(job[i], First(i, "tab")) /\ (First(i, "tab") => First(i, "tab")')
      BY <1>6, <1>7, <2>2 DEF TruthInv
    <3> DEFINE s == job[i]
               now == First(i, "tab")
               then == First(i, "tab")'
    <3> HIDE DEF s, now, then
    <3>2. \A held : Leads(s, s, then, held)
      <4>1. Recorded(s, now) /\ (now => then)
        BY <3>1 DEF s, now, then
      <4> QED
        BY <4>1, SameLeads
    <3> QED
      BY <3>1, <3>2 DEF s, then
  <2> QED
    BY <2>1, <2>2
<1>12. CASE holders' # {}
  <2>1. overrides' = overrides /\ wire' = wire
    BY <1>0, <1>12 DEF LeaveSession, chrome
  <2>2. Shrinks
    BY <2>1, SameWireShrinks
  <2>3. \A i \in Jobs : First(i, "tab") /\ Drops(job[i].undo) => First(i, "tab")'
    BY <1>6, <1>8 DEF r
  <2>4. spoiled' \/ \A i \in Jobs : First(i, "tab") /\ Busy(job[i]) => First(i, "tab")'
    BY <1>0, <1>6, <1>8 DEF Busy, Exempt, r
  <2> QED
    BY <1>0, <1>10, <1>11, <2>1, <2>2, <2>3, <2>4, TruthKeeps
<1>13. CASE holders' = {}
  <2>1. overrides' = NoSettings /\ wire' = <<>> /\ "emulation" \notin holders'
    BY <1>0, <1>13 DEF LeaveSession
  <2>2. emulated' = NoSettings
    BY <1>0, <1>10, <2>1 DEF TruthInv, Settled
  <2>3. \A i \in Jobs : Recorded(job'[i], First(i, "tab")')
    BY <1>11 DEF Leads
  <2> QED
    BY <2>1, <2>2, <2>3, TruthEnds
<1> QED
  BY <1>12, <1>13

LEMMA DetachTruth == ASSUME JobsInv, RestInv, TruthInv, Detach PROVE TruthInv'
<1>0. /\ LeaveSession(holders) /\ turn' = turn /\ emulated' = NoSettings
      /\ job' = [j \in Jobs |-> CASE job[j].mode = "wait" -> Failed(job[j])
                                  [] job[j].mode = "undoing" -> Popped(job[j])
                                  [] OTHER -> job[j]]
  BY DEF Detach
<1>1. overrides' = NoSettings /\ wire' = <<>> /\ "emulation" \notin holders'
  BY <1>0 DEF LeaveSession
<1>2. \A i \in Jobs : First(i, "tab")' <=> First(i, "tab")
  BY <1>0 DEF First
<1>3. ASSUME NEW i \in Jobs PROVE Recorded(job'[i], First(i, "tab"))
  <2> DEFINE r == job[i]
             first == First(i, "tab")
  <2>0. /\ IsJob(r) /\ r.kind \in Kinds /\ r.pc \in Nat /\ r.pc > 0 /\ IsSeq(r.undo) /\ Recorded(r, first)
        /\ r.mode = "undoing" => r.undo # <<>>
        /\ r.mode = "wait" => r.pc <= Len(Steps[r.kind]) /\ Here(r).op # "lock"
    BY JobTidy, JobFits DEF TruthInv, Tidy, Fits, Commands, BestEffort
  <2>1. CASE r.mode = "wait"
    <3>1. job'[i] = Failed(r)
      BY <1>0, <2>1
    <3> HIDE DEF r, first
    <3>2. Goes(r, Failed(r))
      BY <2>0, <2>1, RunIsActive, SameGoes
    <3>3. Leads(r, Failed(r), first, TRUE)
      BY <2>0, <2>1, <3>2, GoesLeads
    <3> QED
      BY <3>1, <3>3 DEF Leads, first
  <2>2. CASE r.mode = "undoing"
    <3>1. job'[i] = Popped(r)
      BY <1>0, <2>2
    <3> HIDE DEF r, first
    <3> QED
      BY <2>0, <2>2, <3>1, PoppedRecorded DEF first
  <2>3. CASE r.mode \notin {"wait", "undoing"}
    BY <1>0, <2>0, <2>3
  <2> QED
    BY <2>1, <2>2, <2>3
<1>4. ASSUME NEW i \in Jobs PROVE Recorded(job'[i], First(i, "tab")')
  BY <1>2, <1>3 DEF Recorded, Started
<1> QED
  BY <1>0, <1>1, <1>4, TruthEnds

-----------------------------------------------------------------------------
(* Chrome executes a command.                                              *)

\* What a handler makes of the answer to a command that is not about overrides.
LEMMA AnsweredGoes ==
    ASSUME JobsInv, RestInv, TruthInv, NEW c, c.by \in Jobs, Meant(c), ~Emulating(c),
           job[c.by].mode \in Waiting, NEW ok \in BOOLEAN,
           NEW q, q = IF job[c.by].mode = "undoing" THEN Popped(job[c.by])
                      ELSE IF ok THEN Returned(job[c.by]) ELSE Failed(job[c.by])
    PROVE  \A held : Leads(job[c.by], q, First(c.by, "tab"), held)
<1> DEFINE r == job[c.by]
           first == First(c.by, "tab")
           step == Here(r)
           x == [r EXCEPT !.reads = @ \cup {doc}]
           u == Off(step.arg)
           p == Push(r, u)
           o == Without(r, step.arg)
<1>1. /\ IsJob(r) /\ r.kind \in Kinds /\ r.pc \in Nat /\ r.pc > 0 /\ IsSeq(r.undo) /\ Recorded(r, first)
      /\ r.mode = "undoing" => r.undo # <<>> /\ Head(r.undo).op \notin {"restore", "drop"}
      /\ r.mode = "wait" => r.pc <= Len(Steps[r.kind]) /\ step.op \in Commands
  BY JobTidy, JobFits DEF TruthInv, Tidy, Fits
<1>2. /\ r.mode = "wait" => step.op \notin {"set", "reset"}
      /\ r.mode = "undoing" => Head(r.undo).op # "reset"
  BY DEF Meant, Emulating
<1> HIDE DEF r, first
<1>3. CASE r.mode = "undoing"
  <2>1. Recorded(q, first) /\ ~Emulates(r.kind) /\ q.kind = r.kind /\ q.failed = r.failed
    <3>1. q = Popped(r) /\ r.undo # <<>>
      BY <1>1, <1>3 DEF r
    <3>2. Emulates(r.kind) => Head(r.undo) = Do("reset", Head(r.undo).arg)
      BY <1>1, <1>3, <3>1, PoppedRecorded
    <3>3. \A g : Do("reset", g).op = "reset"
      BY DEF Do
    <3>4. ~Emulates(r.kind)
      BY <1>2, <1>3, <3>2, <3>3
    <3>5. Recorded(q, first)
      BY <1>1, <3>1, PoppedRecorded
    <3> QED
      BY <1>1, <3>1, <3>4, <3>5, PoppedTo
  <2>2. ~Drops(q.undo) /\ ~Drops(r.undo)
    BY <1>1, <2>1, DropsInTurn
  <2> QED
    BY <2>1, <2>2 DEF Leads, Exempt, r, first
<1>4. CASE r.mode = "wait"
  <2>1. /\ q = IF ok THEN Returned(r) ELSE Failed(r)
        /\ Active(r) /\ step.op \notin Emulations /\ step.op # "lock"
    <3>1. q = IF ok THEN Returned(r) ELSE Failed(r)
      BY <1>4 DEF r
    <3> QED
      BY <1>1, <1>2, <1>4, <3>1, RunIsActive DEF Emulations, Commands, BestEffort
  <2>2. /\ IsJob(x) /\ x.kind = r.kind /\ x.pc = r.pc /\ x.failed = r.failed /\ x.undo = r.undo
        /\ IsJob(p) /\ p.kind = r.kind /\ p.pc = r.pc /\ p.failed = r.failed /\ p.undo = <<u>> \o r.undo
        /\ IsJob(o) /\ o.kind = r.kind /\ o.pc = r.pc /\ o.failed = r.failed
        /\ o.undo = IF r.undo # <<>> /\ Head(r.undo).arg = step.arg THEN Tail(r.undo) ELSE r.undo
    BY <1>1 DEF IsJob, JobFields, Push, Without
  <2>3. u.op = "off"
    BY DEF Off, Do
  <2>4. \/ q = Failed(r) \/ q = After(r) \/ q = After(x)
        \/ q = After(p) /\ step.op = "on"
        \/ q = After(o) /\ step.op \in {"off", "close", "closeStream"}
    BY <2>1 DEF Returned
  <2> HIDE DEF x, p, o, u, step
  <2>5. \/ step.op = "on" \/ step.op \in {"off", "close", "closeStream"} => ~Emulates(r.kind)
    <3> SUFFICES ASSUME step.op = "on" \/ step.op \in {"off", "close", "closeStream"}
                 PROVE  ~Emulates(r.kind)
      OBVIOUS
    <3>1. r.pc \in Opens(r.kind) \/ r.pc \in Closes(r.kind)
      BY <1>1, <1>4, PlaceOfStep DEF Opens, Closes, step
    <3> QED
      BY <1>1, <3>1, ElsewhereKinds
  <2>6. \A v \in Listed(p.undo) : v \in Listed(r.undo) \/ v.op \notin {"reset", "drop"}
    BY <1>1, <2>2, <2>3, PrependedTo
  <2>7. \A v \in Listed(o.undo) : v \in Listed(r.undo)
    <3>1. CASE r.undo # <<>> /\ Head(r.undo).arg = step.arg
      BY <1>1, <2>2, <3>1, PoppedFrom
    <3>2. CASE ~(r.undo # <<>> /\ Head(r.undo).arg = step.arg)
      BY <2>2, <3>2
    <3> QED
      BY <3>1, <3>2
  <2>8. Here(r).op \notin Emulations
    BY <2>1 DEF step
  <2>9. Goes(r, Failed(r)) /\ Goes(r, After(r)) /\ Goes(r, After(x))
    BY <1>1, <1>4, <2>1, <2>2, <2>8, SameGoes
  <2>10. ASSUME ~Emulates(r.kind) PROVE Goes(r, After(p)) /\ Goes(r, After(o))
    <3>1. Beside(r, p) /\ Beside(r, o)
      BY <2>2, <2>6, <2>7, <2>10 DEF Beside
    <3> QED
      BY <1>1, <1>4, <2>1, <2>8, <3>1, AfterGoes
  <2>11. Goes(r, q)
    BY <2>4, <2>5, <2>9, <2>10
  <2>12. Here(r).op # "lock"
    BY <2>1 DEF step
  <2>13. \A held : Leads(r, q, first, held)
    BY <1>1, <2>11, <2>12, GoesLeads
  <2> QED
    BY <2>13 DEF r, first
<1> QED
  BY <1>3, <1>4 DEF Waiting, r

\* What a handler makes of the answer to one that is.
LEMMA AnsweredHandles ==
    ASSUME JobsInv, RestInv, TruthInv, NEW c, c.by \in Jobs, Meant(c), Emulating(c),
           job[c.by].mode \in Waiting, Drops(job[c.by].undo),
           NEW q, q = IF job[c.by].mode = "undoing" THEN Popped(job[c.by]) ELSE Returned(job[c.by])
    PROVE  LET r == job[c.by]
           IN  /\ Recorded(q, TRUE) /\ Drops(q.undo) /\ (Exempt(r) => Exempt(q))
               /\ ~Exempt(q) => \A g \in Handled(q) :
                    IF g = c.step.arg
                    THEN Intended(q, g) = IF c.step.op = "set" THEN r.kind ELSE None
                    ELSE g \in Handled(r) /\ Intended(q, g) = Intended(r, g)
<1> DEFINE r == job[c.by]
           first == First(c.by, "tab")
<1>1. /\ IsJob(r) /\ r.kind \in Kinds /\ r.pc \in Nat /\ r.pc > 0 /\ IsSeq(r.undo) /\ Recorded(r, first)
      /\ r.mode = "undoing" => r.undo # <<>> /\ Head(r.undo).op # "drop"
      /\ r.mode = "wait" => r.pc <= Len(Steps[r.kind])
  BY JobTidy, JobFits DEF TruthInv, Tidy, Fits
<1>2. /\ r.mode = "wait" => c.step = Here(r)
      /\ r.mode = "undoing" => c.step = Head(r.undo)
      /\ c.step.op \in {"set", "reset"} /\ Drops(r.undo)
      /\ q = IF r.mode = "undoing" THEN Popped(r) ELSE Returned(r)
  BY DEF Meant, Emulating
<1>2a. r.mode \in {"wait", "undoing"}
  BY DEF Waiting
<1> DEFINE Goal == /\ Recorded(q, TRUE) /\ Drops(q.undo) /\ (Exempt(r) => Exempt(q))
                   /\ ~Exempt(q) => \A g \in Handled(q) :
                        IF g = c.step.arg
                        THEN Intended(q, g) = IF c.step.op = "set" THEN r.kind ELSE None
                        ELSE g \in Handled(r) /\ Intended(q, g) = Intended(r, g)
<1> SUFFICES Goal
  OBVIOUS
<1> HIDE DEF r, first
<1>3. CASE r.mode = "undoing"
  <2>1. q = Popped(r) /\ Emulates(r.kind)
    BY <1>1, <1>2, <1>3, DropsInTurn
  <2>2. /\ Recorded(q, first) /\ first /\ (Exempt(q) <=> Exempt(r)) /\ Drops(q.undo)
        /\ c.step = Do("reset", c.step.arg)
    BY <1>1, <1>2, <1>3, <2>1, PoppedRecorded
  <2>3. /\ q.mode = "undo" /\ q.undo = Tail(r.undo) /\ q.kind = r.kind
    BY <1>1, <2>1, PoppedTo
  <2>4. ~Active(q) /\ ~Active(r)
    BY <1>3, <2>3 DEF Active
  <2>5. Listed(r.undo) \subseteq Listed(q.undo) \cup {c.step}
    BY <1>1, <1>2, <1>3, <2>3, PoppedFrom
  <2>6. \A g : Do("reset", g).arg = g /\ Do("reset", g).op = "reset"
    BY DEF Do
  <2>7. \A g : Intended(q, g) = None /\ Intended(r, g) = None
    BY <2>4 DEF Intended
  <2>8. \A g \in Handled(q) : g = c.step.arg \/ g \in Handled(r)
    BY <2>4, <2>5, <2>6 DEF Handled
  <2>9. c.step.op # "set"
    BY <2>2, <2>6
  <2> QED
    BY <2>2, <2>7, <2>8, <2>9
<1>4. CASE r.mode = "wait"
  <2>1. c.step = Here(r) /\ Here(r).op \in {"set", "reset"} /\ q = Returned(r) /\ Active(r)
    BY <1>2, <1>4, RunIsActive
  <2>2. q = After(r)
    BY <2>1 DEF Returned
  <2>3. \/ q = Failed(r)
        \/ q = [r EXCEPT !.pc = @ + 1, !.mode = "run"]
    BY <2>2 DEF After
  <2>4. first /\ Emulates(r.kind) /\ ~Exempt(r)
    BY <1>1, <1>2, <1>4, DropsInTurn
  <2>5. CASE q = Failed(r)
    <3>1. q.kind = r.kind /\ q.undo = r.undo /\ q.mode = "undo" /\ q.failed
      BY <1>1, <2>5 DEF Failed, IsJob, JobFields
    <3>2. Recorded(q, first) /\ (~Exempt(q) => Handled(q) = {})
      BY <1>1, <1>2, <1>4, <2>1, <3>1, FailedHandles
    <3> QED
      BY <1>2, <2>4, <3>1, <3>2
  <2>6. CASE q = [r EXCEPT !.pc = @ + 1, !.mode = "run"]
    <3>1. /\ q.kind = r.kind /\ q.undo = r.undo /\ q.mode = "run" /\ q.failed = r.failed
          /\ q.pc = r.pc + 1
      BY <1>1, <2>6 DEF IsJob, JobFields
    <3>2. Recorded(q, first)
      BY <1>1, <1>4, <2>1, <2>4, <3>1, NextRecorded
    <3>3. Active(q)
      BY <3>1 DEF Active
    <3>4. \A ops : \A p \in Places(r.kind, ops) : p < q.pc <=> p < r.pc \/ p = r.pc
      BY <1>1, <3>1, PlacesAreNumbers
    <3>5. Here(r) = Steps[r.kind][r.pc]
      BY DEF Here
    <3>6. ASSUME NEW g \in Handled(q), g # c.step.arg
          PROVE  g \in Handled(r) /\ Intended(q, g) = Intended(r, g)
      <4>1. g \in Handled(r)
        BY <2>1, <3>1, <3>3, <3>4, <3>5, <3>6 DEF Handled
      <4>2. Intended(q, g) = Intended(r, g)
        BY <2>1, <3>1, <3>3, <3>4, <3>5, <3>6 DEF Intended
      <4> QED
        BY <4>1, <4>2
    <3>7. ASSUME NEW g \in Handled(q), g = c.step.arg
          PROVE  Intended(q, g) = IF c.step.op = "set" THEN r.kind ELSE None
      <4>1. CASE c.step.op = "set"
        <5>0. Here(r).op \in {"set"}
          BY <2>1, <4>1
        <5>1a. r.pc \in Places(r.kind, {"set"})
          BY <1>1, <1>4, <5>0, PlaceOfStep
        <5>1. r.pc \in Places(r.kind, {"set"}) /\ r.pc < q.pc /\ Steps[r.kind][r.pc].arg = g
          BY <1>1, <2>1, <3>1, <3>5, <3>7, <5>1a
        <5> QED
          BY <3>1, <3>3, <4>1, <5>1 DEF Intended
      <4>2. CASE c.step.op = "reset"
        <5>1. \A s \in Places(r.kind, {"set"}) : Steps[r.kind][s].arg = g => r.pc < s
          BY <1>1, <1>4, <2>1, <3>7, <4>2, SetPlace
        <5>2. \A s \in Places(r.kind, {"set"}) : s \in Nat
          BY <1>1, PlacesAreNumbers
        <5>3. \A s \in Places(r.kind, {"set"}) : Steps[r.kind][s].arg = g => ~(s < q.pc)
          BY <1>1, <3>1, <5>1, <5>2
        <5>4. Intended(q, g) = None
          BY <3>1, <5>3 DEF Intended
        <5> QED
          BY <4>2, <5>4
      <4> QED
        BY <1>2, <4>1, <4>2
    <3> QED
      BY <1>2, <2>4, <3>1, <3>2, <3>6, <3>7
  <2> QED
    BY <2>3, <2>5, <2>6
<1> QED
  BY <1>2a, <1>3, <1>4

LEMMA ExecuteTruth == ASSUME JobsInv, RestInv, TruthInv, Execute PROVE TruthInv'
<1> DEFINE c == Head(wire)
           r == job[c.by]
<1>0. /\ wire # <<>> /\ wire' = Tail(wire) /\ WireFits /\ IsSeq(wire)
      /\ turn' = turn /\ holders' = holders /\ emulated' = emulated /\ spoiled' = spoiled
  BY DEF Execute, JobsInv, WireFits
<1>1. PICK ok \in BOOLEAN :
         /\ Resume(c, ok)
         /\ IF ok THEN Effect(c)
                  ELSE (~Possible(c) \/ c.step.op \notin Certain) /\ overrides' = overrides
  BY DEF Execute
<1>2. /\ IsSeq(wire') /\ Len(wire) > 0 /\ Len(wire') = Len(wire) - 1 /\ c = wire[1]
      /\ \A i \in 1..Len(wire') : i + 1 \in 1..Len(wire) /\ wire'[i] = wire[i + 1]
  BY <1>0, TailOf
<1>3. Len(wire) \in Nat /\ 1 \in 1..Len(wire)
  BY <1>0, <1>2 DEF IsSeq
<1>4. /\ c.by \in Jobs /\ c.live \in BOOLEAN
      /\ c.live => r.mode \in Waiting /\ Meant(c)
  BY <1>0, <1>2, <1>3 DEF WireFits, RestInv, Sent
<1>5. Shrinks
  BY <1>2 DEF Shrinks
<1> DEFINE q == IF r.mode = "undoing" THEN Popped(r) ELSE IF ok THEN Returned(r) ELSE Failed(r)
<1>6. (~c.live => job' = job) /\ (c.live => Becomes(c.by, q))
  BY <1>1 DEF Resume, Becomes
<1>7. overrides = [g \in 1..Len(Groups) |-> overrides[g]]
      /\ ("emulation" \notin holders => emulated = NoSettings)
  BY DEF TruthInv, Settled
<1>8. CASE ~Emulating(c)
  <2>1. overrides' = overrides
    BY <1>1, <1>8 DEF Effect, Emulating
  <2>2. CASE c.live
    <3> HIDE DEF c
    <3>1. \A held : Leads(r, q, First(c.by, "tab"), held)
      BY <1>4, <1>8, <2>2, AnsweredGoes
    <3> HIDE DEF q
    <3> QED
      BY <1>0, <1>4, <1>5, <1>6, <2>1, <2>2, <3>1, OneTruth
  <2>3. CASE ~c.live
    <3>1. ASSUME NEW i \in Jobs PROVE Leads(job[i], job'[i], First(i, "tab")', "emulation" \in holders')
      <4> DEFINE s == job[i]
                 now == First(i, "tab")
                 then == First(i, "tab")'
      <4>1. Recorded(s, now) /\ (now => then) /\ job'[i] = s
        BY <1>0, <1>6, <2>3 DEF TruthInv, First
      <4> HIDE DEF s, now, then
      <4>2. \A held : Leads(s, s, then, held)
        BY <4>1, SameLeads
      <4> QED
        BY <4>1, <4>2 DEF s, then
    <3>2. \A i \in Jobs : First(i, "tab") => First(i, "tab")'
      BY <1>0 DEF First
    <3> QED
      BY <1>0, <1>5, <2>1, <3>1, <3>2, TruthKeeps
  <2> QED
    BY <1>4, <2>2, <2>3
<1>9. CASE Emulating(c)
  <2>1. c.step.op \in {"set", "reset"} /\ Possible(c) /\ c.step.op \in Certain
    BY <1>9 DEF Emulating, Possible, Certain
  <2>2. ok /\ overrides' = [overrides EXCEPT ![c.step.arg] = IF c.step.op = "set" THEN r.kind ELSE None]
    BY <1>1, <2>1 DEF Effect
  <2>3. /\ overrides' = [g \in 1..Len(Groups) |-> overrides'[g]]
        /\ \A g \in 1..Len(Groups) :
              overrides'[g] = IF g = c.step.arg THEN IF c.step.op = "set" THEN r.kind ELSE None
                                                ELSE overrides[g]
    BY <1>7, <2>2
  <2>4. Traffic
    BY <1>2, <1>3, <1>9 DEF Traffic
  <2>5. (Traffic' => Traffic) /\ (Noise' => Noise)
    BY <1>5, TrafficShrinks DEF Traffic, Noise
  <2>6. CASE c.live
    <3>1. First(c.by, "tab") /\ Drops(r.undo)
      BY <1>2, <1>3, <1>9, <2>6 DEF TruthInv, Ordered
    <3>2. ~Noise
      BY <1>2, <1>3, <1>9, <2>6 DEF TruthInv, Ordered, Noise
    <3>3. ~Exempt(r) => "emulation" \in holders /\ \A g \in Handled(r) : overrides[g] = Intended(r, g)
      BY <1>4, <2>4, <3>1 DEF TruthInv, Working, Standing
    <3>4. q = IF r.mode = "undoing" THEN Popped(r) ELSE Returned(r)
      BY <2>2
    <3> HIDE DEF q, c
    <3>5. /\ Recorded(q, TRUE) /\ Drops(q.undo) /\ (Exempt(r) => Exempt(q))
          /\ ~Exempt(q) => \A g \in Handled(q) :
                IF g = c.step.arg
                THEN Intended(q, g) = IF c.step.op = "set" THEN r.kind ELSE None
                ELSE g \in Handled(r) /\ Intended(q, g) = Intended(r, g)
      BY <1>4, <1>9, <2>6, <3>1, <3>4, AnsweredHandles
    <3>6. \A g \in Handled(q) : g \in 1..Len(Groups)
      BY DEF Handled
    <3> HIDE DEF r
    <3>7. ASSUME ~Exempt(q), NEW g \in Handled(q) PROVE overrides'[g] = Intended(q, g)
      <4>1. CASE g = c.step.arg
        BY <2>3, <3>5, <3>6, <3>7, <4>1
      <4>2. CASE g # c.step.arg
        BY <2>3, <3>3, <3>5, <3>6, <3>7, <4>2
      <4> QED
        BY <4>1, <4>2
    <3>8. ~Exempt(q) => "emulation" \in holders'
      BY <1>0, <3>3, <3>5
    <3> QED
      BY <1>0, <1>4, <1>5, <1>6, <1>7, <2>3, <2>5, <2>6, <3>1, <3>2, <3>5, <3>7, <3>8, BusyTruth
  <2>7. CASE ~c.live
    <3>1. Noise
      BY <1>2, <1>3, <1>9, <2>7 DEF Noise
    <3>2. job' = job
      BY <1>6, <2>7
    <3>3. \A i \in Jobs : First(i, "tab")' <=> First(i, "tab")
      BY <1>0 DEF First
    <3>4. ASSUME NEW i \in Jobs PROVE Recorded(job'[i], First(i, "tab")')
      <4>1. Recorded(job'[i], First(i, "tab"))
        BY <3>2 DEF TruthInv
      <4> QED
        BY <3>3, <4>1 DEF Recorded, Started
    <3>5. (\A i \in Jobs : Recorded(job[i], First(i, "tab")))'
      BY <3>4, RecordedThen
    <3>6. Ordered'
      <4>1. \A i \in Jobs : First(i, "tab") /\ Drops(job[i].undo) => First(i, "tab")' /\ Drops(job'[i].undo)
        BY <3>2, <3>3
      <4> QED
        BY <1>5, <4>1, OrderShrinks DEF TruthInv
    <3>7. Calm'
      <4> SUFFICES ASSUME \A i \in Jobs : First(i, "tab")' => ~Busy(job[i])' PROVE spoiled'
        BY DEF Calm
      <4>1. \A i \in Jobs : First(i, "tab") => ~Busy(job[i])
        BY <3>2, <3>3, SameHandling DEF Busy
      <4> QED
        BY <1>0, <2>4, <4>1 DEF TruthInv, Calm
    <3>8. Working'
      <4> SUFFICES ASSUME NEW i \in Jobs, Drops(job[i].undo), ~Exempt(job[i]) PROVE Standing(job[i])'
        BY <3>2, SameHandling DEF Working
      <4>1. "emulation" \in holders /\ Handled(job[i]) = {}
        BY <2>4, <3>1 DEF TruthInv, Working, Standing
      <4>2. Handled(job[i])' = {}
        BY <3>2, <4>1, SameHandling
      <4> QED
        BY <1>0, <4>1, <4>2 DEF Standing
    <3>9. Settled'
      BY <1>0, <1>7, <2>3 DEF Settled, NoSettings
    <3> QED
      BY <3>5, <3>6, <3>7, <3>8, <3>9 DEF TruthInv
  <2> QED
    BY <1>4, <2>6, <2>7
<1> QED
  BY <1>8, <1>9

LEMMA InitTruth == Init => TruthInv
<1> SUFFICES ASSUME Init PROVE TruthInv
  OBVIOUS
<1>1. PICK w \in Workloads :
         job = [j \in Jobs |->
                [kind |-> w.run[j], mode |-> IF w.run[j] = None THEN "done" ELSE "new",
                 pc |-> 1, abort |-> "no", failed |-> FALSE,
                 answer |-> IF w.run[j] = None THEN "ok" ELSE None,
                 want |-> IF w.named THEN 1 ELSE 0, pin |-> 0, reads |-> {}, undo |-> <<>>,
                 seen |-> None, original |-> "user"]]
  BY DEF Init
<1>2. ASSUME NEW j \in Jobs PROVE Recorded(job[j], First(j, "tab")) /\ ~Drops(job[j].undo)
  <2> DEFINE r == job[j]
  <2>1. r.undo = <<>> /\ ~r.failed /\ r.mode \in {"new", "done"}
    BY <1>1
  <2> HIDE DEF r
  <2>2. ~Active(r)
    BY <2>1 DEF Active
  <2>3. \A first : Recorded(r, first)
    BY <2>1, <2>2, NothingDrops, NothingListed DEF Recorded
  <2> QED
    BY <2>1, <2>3, NothingDrops DEF r
<1>3. wire = <<>> /\ overrides = NoSettings /\ emulated = NoSettings
  BY DEF Init
<1>4. ~Traffic /\ Ordered
  BY <1>3 DEF Traffic, Ordered
<1>5. Calm /\ Settled
  BY <1>3, <1>4 DEF Calm, Settled, NoSettings
<1>6. Working
  BY <1>2 DEF Working
<1> QED
  BY <1>2, <1>4, <1>5, <1>6 DEF TruthInv

LEMMA NextTruth == JobsInv /\ RestInv /\ TruthInv /\ [Next]_vars => TruthInv'
<1> SUFFICES ASSUME JobsInv, RestInv, TruthInv, [Next]_vars PROVE TruthInv'
  OBVIOUS
<1>1. ASSUME NEW j \in Jobs, HandlerStep(j) PROVE TruthInv'
  BY <1>1, AskTruth, ActivateTruth, JoinTruth, EnterTruth, AcquireTruth, ReleaseTruth, AdoptTruth,
     CommitTruth, SendTruth, AbandonTruth, ListenTruth, TalkTruth, UndoTruth, FinishTruth
     DEF HandlerStep
<1>2. ASSUME NEW j \in Jobs, Begin(j) \/ Cancel(j) \/ Timeout(j) PROVE TruthInv'
  BY <1>2, BeginTruth, AbortTruth DEF Cancel, Timeout
<1>3. CASE UNCHANGED vars
  BY <1>3, SameTruth DEF vars, First
<1> QED
  BY <1>1, <1>2, <1>3, ExecuteTruth, SeenTruth, DetachTruth DEF Next

\* The invariant of the overrides, for every workload whose emulation handlers adopt, reset, set
\* and commit in that order.
THEOREM EmulatingInvariant == Spec => []TruthInv
<1>1. JobsInv /\ RestInv /\ TruthInv /\ [Next]_vars => TruthInv'
  BY NextTruth
<1> QED
  BY InitTruth, <1>1, JobsInvariant, RestoringInvariant, PTL DEF Spec

\* With no emulation operation in its turn, the overrides of the session are what emulation.get
\* reports, except after an aborted reset: no cancellation, failure or detach between two commands
\* of a replacement leaves the session with overrides that emulation.js does not know of, whatever
\* commands of abandoned operations Chrome still has to execute.
THEOREM EmulationIsTruthful == Spec => []EmulationTruthful
<1>1. JobsInv /\ TruthInv => EmulationTruthful
  <2> SUFFICES ASSUME JobsInv, TruthInv, \A j \in Jobs : First(j, "tab") => job[j].kind = "get"
               PROVE  spoiled \/ overrides = emulated
    BY DEF EmulationTruthful
  <2>1. ASSUME NEW j \in Jobs, First(j, "tab") PROVE ~Busy(job[j])
    <3>1. job[j].kind = "get" /\ job[j].kind \in Kinds /\ Recorded(job[j], First(j, "tab"))
      BY <2>1, JobFits DEF TruthInv
    <3>2. ~Emulates(job[j].kind)
      BY <3>1, EmulationAssumption
    <3>3. ~Drops(job[j].undo)
      BY <3>1, <3>2, DropsInTurn
    <3> QED
      BY <3>1, <3>3 DEF Busy, Exempt
  <2> QED
    BY <2>1 DEF TruthInv, Calm
<1> QED
  BY <1>1, JobsInvariant, EmulatingInvariant, PTL

=============================================================================
