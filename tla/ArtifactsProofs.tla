-------------------------- MODULE ArtifactsProofs ---------------------------
(***************************************************************************)
(* The artifact store, for every set of IDs, sizes and quotas and any      *)
(* number of failures and crashes.                                         *)
(***************************************************************************)
EXTENDS Artifacts, Sums

OpKinds == {"none", "put", "cleanup", "read", "delete", "open"}

Operation == [kind: OpKinds, size: Nat, id: Ids \cup {None}, now: Nat,
              todo: SUBSET Ids, then: Steps, error: BOOLEAN]

Types ==
    /\ content \in [Ids -> Sizes \cup {None}]
    /\ metadata \in [Ids -> Metadata \cup {None}]
    /\ entries \in [Ids -> Metadata \cup {None}]
    /\ clock \in Nat /\ maxBytes \in Nat /\ faults \in Nat
    /\ pc \in Steps /\ op \in Operation
    /\ drawn \subseteq Ids /\ IsFiniteSet(drawn)

\* Which operations a step can belong to.
KindsAt(step) ==
    CASE step \in {"scan", "orphans"} -> {"open"}
      [] step \in {"room", "content", "metadata", "index"} -> {"put"}
      [] step = "expired" -> {"put", "cleanup"}
      [] step = "quota" -> {"cleanup", "open"}
      [] OTHER -> {"none", "read", "delete"}

Scanning == pc = "scan" \/ (pc = "remove" /\ op.then = "scan")

\* Control: what an operation knows at each of its steps.
Control ==
    /\ pc # "remove" => op.kind \in KindsAt(pc)
    /\ pc = "remove" => /\ op.then \in {"scan", "expired", "room", "quota", "idle"}
                        /\ op.kind \in KindsAt(op.then)
                        /\ op.id \in drawn \ (stored \cup op.todo)
                        /\ op.error \/ content[op.id] = None
    /\ op.todo # {} => Scanning
    /\ \A i \in op.todo : metadata[i] # None /\ entries[i] = None
    /\ op.kind = "put" => op.size \in Sizes
    /\ pc \in {"metadata", "index"} =>
          /\ op.id \in drawn \ (stored \cup gone)
          /\ entries[op.id] = None /\ content[op.id] = op.size
    /\ pc = "index" => metadata[op.id] # None /\ metadata[op.id].size = op.size

\* Files: whose content and metadata may be there.
Files ==
    /\ stored \subseteq drawn /\ gone \subseteq drawn
    /\ \A i \in Ids \ drawn : content[i] = None /\ metadata[i] = None /\ entries[i] = None
    /\ \A i \in stored : metadata[i] # None /\ content[i] = metadata[i].size
    /\ \A i \in stored \ op.todo : pc # "down" => entries[i] = metadata[i]
    /\ \A i \in gone : content[i] = None /\ entries[i] = None

\* Orphans: only a start in progress, a Put in progress, or two failures leave content
\* that no entry owns.
OrphansExplained ==
    (faults <= 1 /\ pc \notin {"down", "orphans"} /\ ~Scanning) =>
        \A i \in Orphans : pc \in {"metadata", "index"} /\ i = op.id

\* Quota: kept by every operation once a start has enforced it.
Quota ==
    /\ UsedBytesExact
    /\ op.kind # "open" => usedBytes <= maxBytes
    /\ pc \in {"content", "metadata", "index"} => usedBytes + op.size <= maxBytes
    /\ pc = "down" => entries = [i \in Ids |-> None] /\ usedBytes = 0

ArtifactsInv == Types /\ Control /\ Files /\ OrphansExplained /\ Quota

-----------------------------------------------------------------------------
(* The account: how the size of an index changes with it.                  *)

Held(e) == {i \in Ids : e[i] # None}
SizeOf(e) == SumFunctionOnSet([i \in Held(e) |-> e[i].size], Held(e))

LEMMA ExactMeans == UsedBytesExact <=> usedBytes = SizeOf(entries)
BY DEF UsedBytesExact, Indexed, SizeOf, Held

Index(e) == e \in [Ids -> Metadata \cup {None}] /\ IsFiniteSet(Held(e))

LEMMA SizesAreNumbers ==
    ASSUME NEW e, Index(e)
    PROVE  \A i \in Held(e) : e[i] \in Metadata /\ e[i].size \in Nat
BY ArtifactsAssumption DEF Index, Held, Metadata

LEMMA SizeEmpty == SizeOf([i \in Ids |-> None]) = 0
<1>1. Held([i \in Ids |-> None]) = {}
  BY DEF Held
<1> QED
  BY <1>1, SumEmpty DEF SizeOf

\* A part of an index, summed with the function of the whole.
LEMMA SizeOfPart ==
    ASSUME NEW e, Index(e), NEW d, Index(d), Held(d) \subseteq Held(e),
           \A i \in Held(d) : d[i] = e[i]
    PROVE  SizeOf(d) = SumFunctionOnSet([i \in Held(e) |-> e[i].size], Held(d))
<1> DEFINE f == [i \in Held(d) |-> d[i].size]
           g == [i \in Held(e) |-> e[i].size]
<1>1. \A i \in Held(d) : f[i] \in Nat /\ g[i] = f[i]
  BY SizesAreNumbers
<1> HIDE DEF f, g
<1>2. SumFunctionOnSet(f, Held(d)) = SumFunctionOnSet(g, Held(d))
  BY <1>1, SumSame DEF Index
<1> QED
  BY <1>2 DEF f, g, SizeOf

LEMMA SizeDropped ==
    ASSUME NEW e, Index(e), NEW i \in Held(e)
    PROVE  LET d == [e EXCEPT ![i] = None]
           IN  /\ Index(d) /\ SizeOf(d) = SizeOf(e) - e[i].size
               /\ SizeOf(d) \in Nat /\ SizeOf(d) <= SizeOf(e)
<1> DEFINE d == [e EXCEPT ![i] = None]
           f == [j \in Held(e) |-> e[j].size]
<1>1. /\ Held(d) = Held(e) \ {i} /\ d \in [Ids -> Metadata \cup {None}]
      /\ \A j \in Held(d) : d[j] = e[j]
  BY DEF Held, Index
<1> HIDE DEF d
<1>2. Index(d)
  BY <1>1, FS_Subset DEF Index
<1>3. /\ \A j \in Held(e) : f[j] \in Nat
      /\ f[i] = e[i].size
  BY SizesAreNumbers
<1>4. SizeOf(d) = SumFunctionOnSet(f, Held(e) \ {i}) /\ SizeOf(e) = SumFunctionOnSet(f, Held(e))
  BY <1>1, <1>2, SizeOfPart DEF SizeOf
<1> HIDE DEF f
<1>5. /\ SizeOf(d) = SizeOf(e) - f[i] /\ f[i] <= SizeOf(e) /\ SizeOf(e) \in Nat /\ f[i] \in Nat
  BY <1>3, <1>4, SumRemove, SumType DEF Index
<1> QED
  BY <1>2, <1>3, <1>5 DEF d

LEMMA SizeAdded ==
    ASSUME NEW e, Index(e), NEW i \in Ids, e[i] = None, NEW m \in Metadata
    PROVE  LET d == [e EXCEPT ![i] = m]
           IN  Index(d) /\ SizeOf(d) = SizeOf(e) + m.size /\ SizeOf(d) \in Nat
<1> DEFINE d == [e EXCEPT ![i] = m]
           f == [j \in Held(d) |-> d[j].size]
<1>1. /\ Held(d) = Held(e) \cup {i} /\ i \notin Held(e) /\ d \in [Ids -> Metadata \cup {None}]
      /\ \A j \in Held(e) : d[j] = e[j]
      /\ d[i] = m
  BY NoneAssumption DEF Held, Index
<1> HIDE DEF d
<1>2. Index(d)
  BY <1>1, FS_AddElement DEF Index
<1>3. /\ \A j \in Held(e) \cup {i} : f[j] \in Nat
      /\ f[i] = m.size
  BY <1>1, <1>2, SizesAreNumbers
<1>4. SizeOf(e) = SumFunctionOnSet(f, Held(e)) /\ SizeOf(d) = SumFunctionOnSet(f, Held(e) \cup {i})
  BY <1>1, <1>2, SizeOfPart DEF SizeOf
<1> HIDE DEF f
<1>5. /\ SizeOf(d) = SizeOf(e) + f[i] /\ SizeOf(e) \in Nat /\ f[i] \in Nat
  <2>1. IsFiniteSet(Held(e))
    BY DEF Index
  <2>2. SumFunctionOnSet(f, Held(e) \cup {i}) = SumFunctionOnSet(f, Held(e)) + f[i]
    BY <2>1, <1>1, <1>3, SumAdd
  <2>3. SumFunctionOnSet(f, Held(e)) \in Nat
    BY <2>1, <1>3, SumType
  <2> QED
    BY <2>2, <2>3, <1>3, <1>4
<1> QED
  BY <1>2, <1>3, <1>5 DEF d

-----------------------------------------------------------------------------
(* The steps that several operations share.                                *)

LEMMA IndexOfEntries == ASSUME Types, Files PROVE Index(entries) /\ Held(entries) = Indexed
<1>1. Held(entries) \subseteq drawn
  BY DEF Held, Files
<1> QED
  BY <1>1, FS_Subset DEF Types, Index, Held, Indexed

LEMMA RemoveContentKeeps ==
    ASSUME ArtifactsInv, NEW i \in drawn, NEW kind, NEW then, RemoveContent(i, kind, then),
           pc # "down", then \in {"scan", "expired", "room", "quota", "idle"},
           kind \in KindsAt(then), kind = "put" => op.size \in Sizes,
           op.todo # {} => then = "scan",
           kind # "open" => usedBytes <= maxBytes,
           then # "scan" /\ faults <= 1 => Orphans = {}
    PROVE  ArtifactsInv'
<1> USE DEF ArtifactsInv
<1>0. /\ pc' = "remove" /\ stored' = stored \ {i}
      /\ \/ /\ content' = [content EXCEPT ![i] = None] /\ faults' = faults
            /\ op' = [op EXCEPT !.kind = kind, !.id = i, !.then = then, !.error = FALSE,
                                !.todo = @ \ {i}]
         \/ /\ content' = content /\ faults' = faults + 1
            /\ op' = [op EXCEPT !.kind = kind, !.id = i, !.then = then, !.error = TRUE,
                                !.todo = @ \ {i}]
      /\ UNCHANGED <<clock, maxBytes, metadata, entries, usedBytes, drawn, gone>>
  BY DEF RemoveContent, NoFault, Fault, index
<1>1. i \in Ids /\ kind \in OpKinds /\ then \in Steps
  BY DEF Types, Steps, KindsAt, OpKinds
<1>2. /\ op' \in Operation
      /\ op'.kind = kind /\ op'.id = i /\ op'.then = then /\ op'.size = op.size
      /\ op'.todo = op.todo \ {i}
      /\ op'.error \/ (content'[i] = None /\ faults' = faults)
  BY <1>0, <1>1 DEF Types, Operation
<1>3. /\ content' \in [Ids -> Sizes \cup {None}] /\ faults' \in Nat /\ faults <= faults'
      /\ \A j \in Ids : content'[j] = content[j] \/ (j = i /\ content'[j] = None)
  BY <1>0, <1>1 DEF Types
<1>4. /\ pc' = "remove" /\ stored' = stored \ {i}
      /\ UNCHANGED <<clock, maxBytes, metadata, entries, usedBytes, drawn, gone>>
  BY <1>0
<1>5. Types'
  BY <1>2, <1>3, <1>4 DEF Types, Steps
<1>6. Control'
  BY <1>1, <1>2, <1>3, <1>4 DEF Types, Control, Scanning, Files
<1>7. Files'
  <2>1. \A j \in stored' : j \in Ids /\ j # i /\ content'[j] = content[j]
    BY <1>3, <1>4 DEF Files, Types
  <2>2. \A j \in stored' \ op'.todo : j \in stored \ op.todo
    BY <1>2, <1>4
  <2> QED
    BY <2>1, <2>2, <1>1, <1>2, <1>3, <1>4 DEF Types, Files
<1>8. OrphansExplained'
  <2>1. Orphans' \subseteq Orphans
    BY <1>3, <1>4 DEF Orphans
  <2> QED
    BY <2>1, <1>2, <1>3, <1>4 DEF Types, OrphansExplained, Scanning
<1>9. Quota'
  BY <1>2, <1>4 DEF Quota, UsedBytesExact, Indexed
<1> QED
  BY <1>5, <1>6, <1>7, <1>8, <1>9

\* An error ends the operation.
LEMMA AbandonKeeps ==
    ASSUME ArtifactsInv, Abandon, UNCHANGED <<clock, maxBytes, drawn, stored, gone>>,
           content' \in [Ids -> Sizes \cup {None}], metadata' \in [Ids -> Metadata \cup {None}],
           faults' \in Nat,
           \A i \in Ids \ drawn : content'[i] = None /\ metadata'[i] = None,
           \A i \in stored : content'[i] = content[i] /\ metadata'[i] = metadata[i],
           \A i \in gone : content'[i] = None,
           pc # "down",
           op.kind # "open" => op.todo = {},
           op.kind # "open" /\ faults' <= 1 => \A i \in Ids : content'[i] # None => entries[i] # None
    PROVE  ArtifactsInv'
<1> USE DEF ArtifactsInv
<1>1. /\ op' \in Operation /\ op'.kind = "none" /\ op'.todo = {} /\ op'.id = None
      /\ op'.then = "idle" /\ op'.size = 0
  BY DEF Abandon, NoOp, Operation, OpKinds, Steps
<1>2. CASE op.kind = "open"
  <2>1. pc' = "down" /\ entries' = [i \in Ids |-> None] /\ usedBytes' = 0
    BY <1>2 DEF Abandon
  <2>2. Types'
    BY <1>1, <2>1 DEF Types, Steps
  <2>3. Control' /\ OrphansExplained'
    BY <1>1, <2>1 DEF Control, KindsAt, OrphansExplained, Scanning
  <2>4. Files'
    BY <1>1, <2>1 DEF Files, Types
  <2>5. Quota'
    <3>1. SizeOf(entries') = 0
      BY <2>1, SizeEmpty
    <3>2. UsedBytesExact'
      BY <3>1, <2>1, ExactMeans DEF UsedBytesExact, Indexed, SizeOf, Held
    <3> QED
      BY <3>2, <1>1, <2>1 DEF Quota, Types
  <2> QED
    BY <2>2, <2>3, <2>4, <2>5
<1>3. CASE op.kind # "open"
  <2>1. pc' = "idle" /\ entries' = entries /\ usedBytes' = usedBytes
    BY <1>3 DEF Abandon, index
  <2>2. Types'
    BY <1>1, <2>1 DEF Types, Steps
  <2>3. Control'
    BY <1>1, <2>1 DEF Control, KindsAt, Scanning
  <2>4. OrphansExplained'
    BY <1>1, <1>3, <2>1 DEF OrphansExplained, Orphans
  <2>5. Files'
    BY <1>1, <1>3, <2>1 DEF Files, Types
  <2>6. Quota'
    BY <1>1, <1>3, <2>1 DEF Quota, UsedBytesExact, Indexed
  <2> QED
    BY <2>2, <2>3, <2>4, <2>5, <2>6
<1> QED
  BY <1>2, <1>3

\* Taking an artifact out of the index takes its size off the account.
LEMMA DropAccounts ==
    ASSUME Types, Files, UsedBytesExact, NEW i \in Ids, Drop(i)
    PROVE  /\ UsedBytesExact' /\ usedBytes \in Nat /\ usedBytes' \in Nat /\ usedBytes' <= usedBytes
           /\ entries' \in [Ids -> Metadata \cup {None}] /\ entries'[i] = None
           /\ \A j \in Ids : j # i => entries'[j] = entries[j]
           /\ gone' = gone \cup {i}
<1>1. Index(entries) /\ usedBytes = SizeOf(entries)
  BY IndexOfEntries, ExactMeans
<1>2. /\ entries' \in [Ids -> Metadata \cup {None}] /\ entries'[i] = None
      /\ \A j \in Ids : j # i => entries'[j] = entries[j]
      /\ gone' = gone \cup {i} /\ entries' = [entries EXCEPT ![i] = None]
  BY DEF Drop, Types
<1>3. SizeOf(entries) \in Nat
  <2>1. /\ IsFiniteSet(Held(entries))
        /\ \A j \in Held(entries) : [k \in Held(entries) |-> entries[k].size][j] \in Nat
    BY <1>1, SizesAreNumbers DEF Index
  <2> QED
    BY <2>1, SumType DEF SizeOf
<1>4. usedBytes' = SizeOf(entries') /\ usedBytes' \in Nat /\ usedBytes' <= usedBytes
  <2>1. CASE entries[i] = None
    <3>1. entries' = entries /\ usedBytes' = usedBytes
      BY <2>1, <1>2 DEF Drop, Types
    <3> QED
      BY <3>1, <1>1, <1>3
  <2>2. CASE entries[i] # None
    <3>1. i \in Held(entries) /\ usedBytes' = usedBytes - entries[i].size
      BY <2>2 DEF Held, Drop
    <3>2. /\ SizeOf(entries') = SizeOf(entries) - entries[i].size
          /\ SizeOf(entries') \in Nat /\ SizeOf(entries') <= SizeOf(entries)
      BY <3>1, <1>1, <1>2, SizeDropped
    <3> QED
      BY <3>1, <3>2, <1>1
  <2> QED
    BY <2>1, <2>2
<1>5. UsedBytesExact'
  BY <1>4 DEF UsedBytesExact, Indexed, SizeOf, Held
<1> QED
  BY <1>1, <1>2, <1>3, <1>4, <1>5

LEMMA RemoveKeeps == ASSUME ArtifactsInv, Remove PROVE ArtifactsInv'
<1> USE DEF ArtifactsInv
<1>0. /\ pc = "remove" /\ UNCHANGED <<clock, maxBytes, content, drawn, stored>>
      /\ op.id \in Ids /\ op.id \in drawn \ stored /\ op.id \notin op.todo
  BY DEF Remove, Control, Types
<1>1. /\ op.kind # "open" => op.todo = {}
      /\ op.kind # "open" /\ faults <= 1 => Orphans = {}
      /\ op.todo # {} => op.then = "scan"
      /\ op.kind = "open" \/ op.then # "scan"
  BY <1>0 DEF Control, Scanning, KindsAt, OrphansExplained
<1>2. ASSUME Abandon, UNCHANGED gone, faults' \in Nat, faults <= faults',
             metadata' = [metadata EXCEPT ![op.id] = None] \/ metadata' = metadata
      PROVE  ArtifactsInv'
  <2>1. /\ metadata' \in [Ids -> Metadata \cup {None}]
        /\ \A i \in Ids : i # op.id => metadata'[i] = metadata[i]
        /\ metadata'[op.id] \in {None, metadata[op.id]}
    BY <1>0, <1>2 DEF Types
  <2>2. content' \in [Ids -> Sizes \cup {None}]
    BY <1>0 DEF Types
  <2>3. \A i \in Ids \ drawn : content'[i] = None /\ metadata'[i] = None
    BY <1>0, <2>1 DEF Files
  <2>4. \A i \in stored : content'[i] = content[i] /\ metadata'[i] = metadata[i]
    BY <1>0, <2>1 DEF Files, Types
  <2>5. \A i \in gone : content'[i] = None
    BY <1>0 DEF Files
  <2>6. op.kind # "open" /\ faults' <= 1 => \A i \in Ids : content'[i] # None => entries[i] # None
    BY <1>0, <1>1, <1>2 DEF Orphans, Types
  <2> QED
    BY <1>0, <1>1, <1>2, <2>1, <2>2, <2>3, <2>4, <2>5, <2>6, AbandonKeeps
<1>3. ASSUME Drop(op.id), ~op.error, metadata' = [metadata EXCEPT ![op.id] = None], NoFault,
             pc' = op.then, op' = [op EXCEPT !.id = None]
      PROVE  ArtifactsInv'
  <2>1. /\ op' \in Operation /\ op'.kind = op.kind /\ op'.size = op.size /\ op'.todo = op.todo
        /\ op'.then = op.then /\ op'.error = op.error
    BY <1>3 DEF Types, Operation
  <2>2. /\ metadata' \in [Ids -> Metadata \cup {None}] /\ metadata'[op.id] = None
        /\ \A i \in Ids : i # op.id => metadata'[i] = metadata[i]
        /\ content[op.id] = None
    BY <1>0, <1>3 DEF Types, Control
  <2>3. /\ UsedBytesExact' /\ usedBytes \in Nat /\ usedBytes' \in Nat /\ usedBytes' <= usedBytes
        /\ entries' \in [Ids -> Metadata \cup {None}] /\ entries'[op.id] = None
        /\ \A j \in Ids : j # op.id => entries'[j] = entries[j]
        /\ gone' = gone \cup {op.id}
    BY <1>0, <1>3, DropAccounts DEF Quota
  <2>4. /\ pc' \in {"scan", "expired", "room", "quota", "idle"} /\ pc' = op.then
        /\ faults' = faults /\ op.kind \in KindsAt(pc')
    BY <1>0, <1>3 DEF Control, NoFault
  <2>5. Types'
    BY <1>0, <2>1, <2>2, <2>3, <2>4 DEF Types, Steps
  <2>6. Control'
    <3>1. \A i \in op.todo : i \in Ids /\ i # op.id
      BY <1>0 DEF Types, Operation
    <3> QED
      BY <3>1, <1>0, <1>1, <2>1, <2>2, <2>3, <2>4 DEF Control, Scanning, KindsAt
  <2>7. Files'
    BY <1>0, <2>1, <2>2, <2>3, <2>4 DEF Files, Types
  <2>8. OrphansExplained'
    <3>1. Orphans' \subseteq Orphans
      BY <1>0, <2>2, <2>3 DEF Orphans
    <3> QED
      BY <3>1, <1>0, <2>1, <2>4 DEF OrphansExplained, Scanning
  <2>9. Quota'
    BY <1>0, <2>1, <2>3, <2>4 DEF Quota, Types
  <2> QED
    BY <2>5, <2>6, <2>7, <2>8, <2>9
<1>4. faults \in Nat
  BY DEF Types
<1> QED
  BY <1>2, <1>3, <1>4 DEF Remove, Fault, NoFault

LEMMA AddAccounts ==
    ASSUME Types, Files, UsedBytesExact, NEW i \in Ids, entries[i] = None, NEW m \in Metadata,
           entries' = [entries EXCEPT ![i] = m], usedBytes' = usedBytes + m.size
    PROVE  /\ UsedBytesExact' /\ usedBytes' \in Nat
           /\ entries' \in [Ids -> Metadata \cup {None}] /\ entries'[i] = m
           /\ \A j \in Ids : j # i => entries'[j] = entries[j]
<1>1. Index(entries) /\ usedBytes = SizeOf(entries)
  BY IndexOfEntries, ExactMeans
<1>2. usedBytes' = SizeOf(entries') /\ usedBytes' \in Nat
  BY <1>1, SizeAdded
<1>3. UsedBytesExact'
  BY <1>2 DEF UsedBytesExact, Indexed, SizeOf, Held
<1> QED
  BY <1>2, <1>3 DEF Types

\* A step that only moves on in the operation.
LEMMA GotoKeeps ==
    ASSUME ArtifactsInv, NEW step \in Steps, Goto(step), pc \notin {"down", "remove"},
           step \notin {"remove", "metadata", "index", "down", "scan"},
           op.kind \in KindsAt(step), op.todo = {},
           step # "orphans" /\ faults <= 1 => Orphans = {},
           step = "content" => usedBytes + op.size <= maxBytes
    PROVE  ArtifactsInv'
<1> USE DEF ArtifactsInv
<1>1. pc' = step /\ UNCHANGED <<clock, maxBytes, content, metadata, entries, usedBytes, op,
                                 faults, drawn, stored, gone>>
  BY DEF Goto, disk, index, history
<1>2. Types'
  BY <1>1 DEF Types
<1>3. Control'
  BY <1>1 DEF Control
<1>4. Files'
  BY <1>1 DEF Files
<1>5. OrphansExplained'
  BY <1>1 DEF OrphansExplained, Orphans
<1>6. Quota'
  BY <1>1 DEF Quota, UsedBytesExact, Indexed
<1> QED
  BY <1>2, <1>3, <1>4, <1>5, <1>6

-----------------------------------------------------------------------------
(* The operations.                                                         *)

LEMMA IndexedIsDrawn == ASSUME ArtifactsInv PROVE Indexed \subseteq drawn
BY DEF ArtifactsInv, Files, Indexed

LEMMA CleanupExpiredKeeps == ASSUME ArtifactsInv, CleanupExpired PROVE ArtifactsInv'
<1>1. /\ pc = "expired" /\ op.kind \in {"put", "cleanup"} /\ op.todo = {}
      /\ usedBytes <= maxBytes
      /\ faults <= 1 => Orphans = {}
      /\ op.kind = "put" => op.size \in Sizes
  BY DEF CleanupExpired, ArtifactsInv, Control, Scanning, KindsAt, OrphansExplained, Quota
<1>2. CASE \E i \in Indexed : RemoveContent(i, op.kind, "expired")
  <2>1. op.kind \in KindsAt("expired")
    BY <1>1 DEF KindsAt
  <2> QED
    BY <1>1, <1>2, <2>1, IndexedIsDrawn, RemoveContentKeeps
<1>3. CASE Goto(IF op.kind = "put" THEN "room" ELSE "quota")
  <2> DEFINE step == IF op.kind = "put" THEN "room" ELSE "quota"
  <2>1. step \in Steps /\ step \in {"room", "quota"} /\ op.kind \in KindsAt(step)
    BY <1>1 DEF Steps, KindsAt
  <2> HIDE DEF step
  <2> QED
    BY <1>1, <1>3, <2>1, GotoKeeps DEF step
<1> QED
  BY <1>2, <1>3 DEF CleanupExpired

\* oldestIDLocked finds one: the least ID of the least creation time.
LEMMA OldestIsIndexed == ASSUME ArtifactsInv, Indexed # {} PROVE Oldest \in Indexed
<1> DEFINE Times == {entries[i].createdAt : i \in Indexed}
<1>1. \A i \in Indexed : i \in Nat /\ entries[i].createdAt \in Nat
  BY ArtifactsAssumption DEF ArtifactsInv, Types, Indexed, Metadata
<1>2. PICK t \in Times : \A u \in Times : t <= u
  <2>1. Times \in SUBSET Nat /\ Times # {}
    BY <1>1
  <2> HIDE DEF Times
  <2> QED
    BY <2>1, LeastNumber
<1> DEFINE First == {i \in Indexed : entries[i].createdAt = t}
<1>3. PICK i \in First : \A j \in First : i <= j
  <2>1. First \in SUBSET Nat /\ First # {}
    BY <1>1
  <2> HIDE DEF First
  <2> QED
    BY <2>1, LeastNumber
<1>4. i \in Indexed /\ \A j \in Indexed :
          \/ entries[i].createdAt < entries[j].createdAt
          \/ entries[i].createdAt = entries[j].createdAt /\ i <= j
  BY <1>1, <1>2, <1>3
<1> QED
  BY <1>4 DEF Oldest

LEMMA MakeRoomKeeps == ASSUME ArtifactsInv, MakeRoom PROVE ArtifactsInv'
<1>1. /\ pc = "room" /\ op.kind = "put" /\ op.todo = {} /\ op.size \in Sizes
      /\ usedBytes <= maxBytes
      /\ faults <= 1 => Orphans = {}
      /\ op.kind \in KindsAt("room") /\ op.kind \in KindsAt("content")
  BY DEF MakeRoom, ArtifactsInv, Control, Scanning, KindsAt, OrphansExplained, Quota
<1>2. CASE Indexed # {} /\ RemoveContent(Oldest, "put", "room")
  BY <1>1, <1>2, OldestIsIndexed, IndexedIsDrawn, RemoveContentKeeps
<1>3. CASE usedBytes + op.size <= maxBytes /\ Goto("content")
  BY <1>1, <1>3, GotoKeeps DEF Steps
<1> QED
  BY <1>2, <1>3 DEF MakeRoom

LEMMA EnforceQuotaKeeps == ASSUME ArtifactsInv, EnforceQuota PROVE ArtifactsInv'
<1>1. /\ pc = "quota" /\ op.kind \in {"cleanup", "open"} /\ op.todo = {}
      /\ op.kind # "open" => usedBytes <= maxBytes
      /\ faults <= 1 => Orphans = {}
      /\ op.kind \in KindsAt("quota")
  BY DEF EnforceQuota, ArtifactsInv, Control, Scanning, KindsAt, OrphansExplained, Quota
<1>2. CASE Indexed # {} /\ RemoveContent(Oldest, op.kind, "quota")
  BY <1>1, <1>2, OldestIsIndexed, IndexedIsDrawn, RemoveContentKeeps
<1>3. CASE /\ usedBytes <= maxBytes /\ pc' = "idle" /\ op' = NoOp
           /\ UNCHANGED <<clock, maxBytes, disk, index, faults, crashes, history>>
  <2> USE DEF ArtifactsInv
  <2>1. /\ op' \in Operation /\ op'.kind = "none" /\ op'.todo = {}
        /\ pc' = "idle" /\ usedBytes <= maxBytes
        /\ UNCHANGED <<clock, maxBytes, content, metadata, entries, usedBytes, faults,
                       drawn, stored, gone>>
    BY <1>3 DEF NoOp, Operation, OpKinds, Steps, disk, index, history
  <2>2. Types'
    BY <2>1 DEF Types, Steps
  <2>3. Control'
    BY <2>1 DEF Control, KindsAt
  <2>4. Files'
    BY <1>1, <2>1 DEF Files
  <2>5. OrphansExplained'
    BY <1>1, <2>1 DEF OrphansExplained, Orphans
  <2>6. Quota'
    BY <2>1 DEF Quota, UsedBytesExact, Indexed
  <2> QED
    BY <2>2, <2>3, <2>4, <2>5, <2>6
<1> QED
  BY <1>2, <1>3 DEF EnforceQuota

\* Put, Cleanup and the other operations begin from an idle store.
LEMMA BeginKeeps ==
    ASSUME ArtifactsInv, NEW kind, NEW size \in Nat, Begin(kind, size, "expired"),
           kind \in {"put", "cleanup"}, kind = "put" => size \in Sizes
    PROVE  ArtifactsInv'
<1> USE DEF ArtifactsInv
<1>1. /\ op' \in Operation /\ op'.kind = kind /\ op'.todo = {} /\ op'.size = size
      /\ pc = "idle" /\ pc' = "expired"
      /\ UNCHANGED <<clock, maxBytes, content, metadata, entries, usedBytes, faults,
                     drawn, stored, gone>>
  BY DEF Begin, NoOp, Operation, OpKinds, Steps, disk, index, history, Types
<1>0. op.kind # "open" /\ op.todo = {}
  BY <1>1 DEF Control, KindsAt, Scanning
<1>2. Types'
  BY <1>1 DEF Types, Steps
<1>3. Control'
  BY <1>1 DEF Control, KindsAt
<1>4. Files'
  BY <1>0, <1>1 DEF Files
<1>5. OrphansExplained'
  BY <1>1 DEF OrphansExplained, Orphans, Scanning
<1>6. Quota'
  BY <1>0, <1>1 DEF Quota, UsedBytesExact, Indexed
<1> QED
  BY <1>2, <1>3, <1>4, <1>5, <1>6

LEMMA WriteContentKeeps == ASSUME ArtifactsInv, WriteContent PROVE ArtifactsInv'
<1> USE DEF ArtifactsInv
<1>0. /\ pc = "content" /\ op.kind = "put" /\ op.todo = {} /\ op.size \in Sizes
      /\ usedBytes + op.size <= maxBytes /\ usedBytes <= maxBytes
      /\ faults <= 1 => Orphans = {}
      /\ UNCHANGED <<clock, maxBytes, metadata, stored, gone>>
      /\ faults \in Nat
  BY DEF WriteContent, Control, Scanning, KindsAt, OrphansExplained, Quota, Types
<1>1. ASSUME NEW i \in Ids \ drawn, drawn' = drawn \cup {i}, NoFault, UNCHANGED index,
             content' = [content EXCEPT ![i] = op.size],
             pc' = "metadata", op' = [op EXCEPT !.id = i, !.now = clock]
      PROVE  ArtifactsInv'
  <2>1. /\ op' \in Operation /\ op'.kind = "put" /\ op'.todo = {} /\ op'.size = op.size
        /\ op'.id = i
    BY <1>0, <1>1 DEF Types, Operation
  <2>2. /\ content' \in [Ids -> Sizes \cup {None}] /\ content'[i] = op.size
        /\ \A j \in Ids : j # i => content'[j] = content[j]
    BY <1>0, <1>1 DEF Types
  <2>3. UNCHANGED <<entries, usedBytes, faults>>
    BY <1>1 DEF index, NoFault
  <2>4. /\ i \notin stored /\ i \notin gone /\ entries[i] = None /\ metadata[i] = None
        /\ stored \subseteq Ids /\ gone \subseteq Ids
    BY <1>1 DEF Files, Types
  <2>5. Types'
    <3>1. IsFiniteSet(drawn')
      BY <1>1, FS_AddElement DEF Types
    <3> QED
      BY <3>1, <1>0, <1>1, <2>1, <2>2, <2>3 DEF Types, Steps
  <2>6. Control'
    BY <1>0, <1>1, <2>1, <2>2, <2>3, <2>4 DEF Control, KindsAt
  <2>7. Files'
    BY <1>0, <1>1, <2>1, <2>2, <2>3, <2>4 DEF Files
  <2>8. OrphansExplained'
    BY <1>0, <1>1, <2>1, <2>2, <2>3 DEF OrphansExplained, Orphans
  <2>9. Quota'
    BY <1>0, <1>1, <2>1, <2>3 DEF Quota, UsedBytesExact, Indexed
  <2> QED
    BY <2>5, <2>6, <2>7, <2>8, <2>9
<1>2. CASE Fault /\ Abandon /\ UNCHANGED <<content, drawn>>
  <2>1. faults' \in Nat /\ faults <= faults'
    BY <1>0, <1>2 DEF Fault
  <2>2. \A i \in Ids : faults' <= 1 => (content'[i] # None => entries[i] # None)
    BY <1>0, <1>2, <2>1 DEF Orphans
  <2>3. /\ content' \in [Ids -> Sizes \cup {None}] /\ metadata' \in [Ids -> Metadata \cup {None}]
        /\ \A i \in Ids \ drawn : content'[i] = None /\ metadata'[i] = None
        /\ \A i \in stored : content'[i] = content[i] /\ metadata'[i] = metadata[i]
        /\ \A i \in gone : content'[i] = None
    BY <1>0, <1>2 DEF Types, Files
  <2> QED
    BY <1>0, <1>2, <2>1, <2>2, <2>3, AbandonKeeps
<1> QED
  BY <1>1, <1>2 DEF WriteContent

LEMMA WriteMetadataKeeps == ASSUME ArtifactsInv, WriteMetadata PROVE ArtifactsInv'
<1> USE DEF ArtifactsInv
<1> DEFINE m == [size |-> op.size, createdAt |-> op.now, expiresAt |-> op.now + TTL]
<1>0. /\ pc = "metadata" /\ op.kind = "put" /\ op.todo = {} /\ op.size \in Sizes
      /\ usedBytes + op.size <= maxBytes /\ usedBytes <= maxBytes
      /\ op.id \in drawn /\ op.id \notin stored /\ op.id \notin gone /\ op.id \in Ids
      /\ entries[op.id] = None /\ content[op.id] = op.size
      /\ faults <= 1 => Orphans \subseteq {op.id}
      /\ UNCHANGED <<clock, maxBytes, drawn, stored, gone>>
      /\ faults \in Nat
  BY DEF WriteMetadata, Control, Scanning, KindsAt, OrphansExplained, Quota, Types, history
<1>1. CASE /\ metadata' = [metadata EXCEPT ![op.id] = m]
           /\ pc' = "index" /\ NoFault /\ UNCHANGED <<content, index, op>>
  <2>1. m \in Metadata /\ m.size = op.size
    BY <1>0, ArtifactsAssumption DEF Metadata, Types, Operation
  <2> HIDE DEF m
  <2>2. UNCHANGED <<content, entries, usedBytes, op, faults>>
    BY <1>1 DEF index, NoFault
  <2>3. /\ metadata' \in [Ids -> Metadata \cup {None}] /\ metadata'[op.id] = m
        /\ \A j \in Ids : j # op.id => metadata'[j] = metadata[j]
        /\ m # None
    BY <1>0, <1>1, <2>1, NoneAssumption DEF Types
  <2>4. Types'
    BY <1>0, <1>1, <2>2, <2>3 DEF Types, Steps
  <2>5. Control'
    BY <1>0, <1>1, <2>1, <2>2, <2>3 DEF Control, KindsAt
  <2>6. Files'
    BY <1>0, <1>1, <2>2, <2>3 DEF Files, Types
  <2>7. OrphansExplained'
    BY <1>0, <1>1, <2>2 DEF OrphansExplained, Orphans
  <2>8. Quota'
    BY <1>0, <1>1, <2>2 DEF Quota, UsedBytesExact, Indexed
  <2> QED
    BY <2>4, <2>5, <2>6, <2>7, <2>8
<1>2. ASSUME Abandon, UNCHANGED metadata, faults' \in Nat, faults < faults',
             \/ content' = [content EXCEPT ![op.id] = None]
             \/ content' = content /\ faults' > 1
      PROVE  ArtifactsInv'
  <2>1. /\ content' \in [Ids -> Sizes \cup {None}]
        /\ \A i \in Ids : i # op.id => content'[i] = content[i]
        /\ content'[op.id] = None \/ faults' > 1
    BY <1>0, <1>2 DEF Types
  <2>2. faults' <= 1 => \A i \in Ids : content'[i] # None => entries[i] # None
    BY <1>0, <1>2, <2>1 DEF Orphans
  <2>3. /\ metadata' \in [Ids -> Metadata \cup {None}]
        /\ \A i \in Ids \ drawn : content'[i] = None /\ metadata'[i] = None
        /\ \A i \in stored : content'[i] = content[i] /\ metadata'[i] = metadata[i]
        /\ \A i \in gone : content'[i] = None
    BY <1>0, <1>2, <2>1 DEF Types, Files
  <2> QED
    BY <1>0, <1>2, <2>1, <2>2, <2>3, AbandonKeeps
<1>3. CASE Fault /\ Abandon /\ UNCHANGED metadata /\ content' = [content EXCEPT ![op.id] = None]
  BY <1>0, <1>2, <1>3 DEF Fault
<1>4. CASE faults' = faults + 2 /\ Abandon /\ UNCHANGED disk
  BY <1>0, <1>2, <1>4 DEF disk
<1> QED
  BY <1>1, <1>3, <1>4 DEF WriteMetadata

LEMMA PutIndexKeeps == ASSUME ArtifactsInv, PutIndex PROVE ArtifactsInv'
<1> USE DEF ArtifactsInv
<1>0. /\ pc = "index" /\ op.kind = "put" /\ op.todo = {} /\ op.size \in Sizes
      /\ usedBytes + op.size <= maxBytes
      /\ op.id \in drawn /\ op.id \notin stored /\ op.id \notin gone /\ op.id \in Ids
      /\ entries[op.id] = None /\ content[op.id] = op.size
      /\ metadata[op.id] \in Metadata /\ metadata[op.id].size = op.size /\ metadata[op.id] # None
      /\ faults <= 1 => Orphans \subseteq {op.id}
      /\ UNCHANGED <<clock, maxBytes, content, metadata, faults, drawn, gone>>
      /\ stored' = stored \cup {op.id} /\ pc' = "idle"
      /\ usedBytes' = usedBytes + op.size
  BY DEF PutIndex, Control, Scanning, KindsAt, OrphansExplained, Quota, Types, disk
<1>1. op' \in Operation /\ op'.kind = "none" /\ op'.todo = {}
  BY DEF PutIndex, NoOp, Operation, OpKinds, Steps
<1>2. /\ UsedBytesExact' /\ entries' \in [Ids -> Metadata \cup {None}]
      /\ entries'[op.id] = metadata[op.id]
      /\ \A j \in Ids : j # op.id => entries'[j] = entries[j]
  BY <1>0, AddAccounts DEF PutIndex, Quota
<1>3. Types'
  BY <1>0, <1>1, <1>2 DEF Types, Steps
<1>4. Control'
  BY <1>0, <1>1 DEF Control, KindsAt
<1>5. Files'
  BY <1>0, <1>1, <1>2 DEF Files, Types
<1>6. OrphansExplained'
  BY <1>0, <1>2 DEF OrphansExplained, Orphans
<1>7. Quota'
  BY <1>0, <1>1, <1>2 DEF Quota
<1> QED
  BY <1>3, <1>4, <1>5, <1>6, <1>7

\* What an idle store knows.
LEMMA IdleStore ==
    ASSUME ArtifactsInv, pc = "idle"
    PROVE  /\ op.todo = {} /\ op.kind # "open" /\ op.kind # "put" /\ usedBytes <= maxBytes
           /\ faults <= 1 => Orphans = {}
BY DEF ArtifactsInv, Control, Scanning, KindsAt, OrphansExplained, Quota

LEMMA RemovalsKeep ==
    ASSUME ArtifactsInv, NEW i \in Ids, ReadExpired(i) \/ Delete(i)
    PROVE  ArtifactsInv'
<1>1. PICK kind \in {"read", "delete"} : RemoveContent(i, kind, "idle")
  BY DEF ReadExpired, Delete
<1>2. pc = "idle" /\ i \in drawn
  BY IndexedIsDrawn DEF ReadExpired, Delete
<1>3. kind \in KindsAt("idle") /\ kind # "put"
  BY DEF KindsAt
<1> QED
  BY <1>1, <1>2, <1>3, IdleStore, RemoveContentKeeps

LEMMA ReadMissingKeeps == ASSUME ArtifactsInv, NEW i \in Ids, ReadMissing(i) PROVE ArtifactsInv'
<1> USE DEF ArtifactsInv
<1>1. /\ pc = "idle" /\ content[i] = None /\ i \in drawn
      /\ UNCHANGED <<clock, maxBytes, content, metadata, pc, op, faults, drawn, stored>>
  BY IndexedIsDrawn DEF ReadMissing, disk
<1>2. /\ UsedBytesExact' /\ usedBytes \in Nat /\ usedBytes' \in Nat /\ usedBytes' <= usedBytes
      /\ entries' \in [Ids -> Metadata \cup {None}] /\ entries'[i] = None
      /\ \A j \in Ids : j # i => entries'[j] = entries[j]
      /\ gone' = gone \cup {i}
  BY DropAccounts DEF ReadMissing, Quota
<1>3. i \notin stored
  BY <1>1, ArtifactsAssumption DEF Files, Types, Metadata
<1>4. Types'
  BY <1>1, <1>2 DEF Types
<1>5. Control'
  BY <1>1, IdleStore DEF Control
<1>6. Files'
  BY <1>1, <1>2, <1>3 DEF Files, Types
<1>7. OrphansExplained'
  BY <1>1, <1>2, IdleStore DEF OrphansExplained, Orphans
<1>8. Quota'
  BY <1>1, <1>2, IdleStore DEF Quota, Types
<1> QED
  BY <1>4, <1>5, <1>6, <1>7, <1>8

LEMMA OpenKeeps == ASSUME ArtifactsInv, Open PROVE ArtifactsInv'
<1> USE DEF ArtifactsInv
<1> DEFINE found == {i \in Ids : metadata[i] # None}
<1>1. /\ op' \in Operation /\ op'.kind = "open" /\ op'.todo = found
      /\ pc = "down" /\ pc' = "scan" /\ maxBytes' \in Nat
      /\ UNCHANGED <<clock, content, metadata, entries, usedBytes, faults, drawn, stored, gone>>
  BY ArtifactsAssumption
     DEF Open, NoOp, Operation, OpKinds, Steps, disk, index, history, Types
<1>2. \A i \in found : i \in Ids /\ metadata[i] # None /\ entries[i] = None
  BY <1>1 DEF Quota
<1>3. stored \subseteq found
  BY DEF Files, Types
<1> HIDE DEF found
<1>4. Types'
  BY <1>1 DEF Types, Steps
<1>5. Control'
  BY <1>1, <1>2 DEF Control, KindsAt, Scanning
<1>6. Files'
  BY <1>1, <1>3 DEF Files
<1>7. OrphansExplained'
  BY <1>1 DEF OrphansExplained, Scanning
<1>8. Quota'
  BY <1>1 DEF Quota, UsedBytesExact, Indexed
<1> QED
  BY <1>4, <1>5, <1>6, <1>7, <1>8

LEMMA LoadEntryKeeps == ASSUME ArtifactsInv, NEW i \in Ids, LoadEntry(i) PROVE ArtifactsInv'
<1> USE DEF ArtifactsInv
<1>0. /\ pc = "scan" /\ op.kind = "open" /\ i \in op.todo /\ content[i] = metadata[i].size
      /\ metadata[i] \in Metadata /\ entries[i] = None
      /\ UNCHANGED <<clock, maxBytes, content, metadata, pc, faults, drawn, stored, gone>>
      /\ usedBytes' = usedBytes + metadata[i].size
      /\ entries' = [entries EXCEPT ![i] = metadata[i]]
  BY DEF LoadEntry, Whole, Types, Control, KindsAt, disk, history
<1>1. /\ op' \in Operation /\ op'.kind = "open" /\ op'.todo = op.todo \ {i} /\ op'.size = op.size
      /\ op'.id = op.id
  BY <1>0 DEF LoadEntry, Types, Operation
<1>2. /\ UsedBytesExact' /\ entries' \in [Ids -> Metadata \cup {None}]
      /\ entries'[i] = metadata[i] /\ \A j \in Ids : j # i => entries'[j] = entries[j]
  BY <1>0, AddAccounts DEF Quota
<1>3. i \in drawn /\ i \notin gone
  BY <1>0, ArtifactsAssumption DEF Control, Files, Metadata
<1>4. Types'
  BY <1>0, <1>1, <1>2 DEF Types
<1>5. Control'
  <2>1. \A j \in op'.todo : j \in Ids /\ j # i /\ j \in op.todo
    BY <1>1 DEF Types, Operation
  <2> QED
    BY <2>1, <1>0, <1>1, <1>2 DEF Control, KindsAt, Scanning
<1>6. Files'
  BY <1>0, <1>1, <1>2, <1>3 DEF Files, Types
<1>7. OrphansExplained'
  BY <1>0 DEF OrphansExplained, Scanning
<1>8. Quota'
  BY <1>0, <1>1, <1>2 DEF Quota
<1> QED
  BY <1>4, <1>5, <1>6, <1>7, <1>8

LEMMA LoadStaleKeeps == ASSUME ArtifactsInv, NEW i \in Ids, LoadStale(i) PROVE ArtifactsInv'
<1>1. /\ pc = "scan" /\ i \in op.todo /\ RemoveContent(i, "open", "scan")
      /\ "open" \in KindsAt("scan")
  BY DEF LoadStale, KindsAt
<1>2. i \in drawn
  BY <1>1 DEF ArtifactsInv, Control, Files
<1> QED
  BY <1>1, <1>2, RemoveContentKeeps

LEMMA LoadMovesKeep == ASSUME ArtifactsInv, LoadScanned \/ LoadDone PROVE ArtifactsInv'
<1>1. pc \in {"scan", "orphans"} /\ op.kind = "open"
  BY DEF LoadScanned, LoadDone, ArtifactsInv, Control, KindsAt
<1>2. CASE LoadScanned
  <2>1. op.todo = {} /\ Goto("orphans") /\ op.kind \in KindsAt("orphans") /\ "orphans" \in Steps
    BY <1>1, <1>2 DEF LoadScanned, KindsAt, Steps
  <2> QED
    BY <1>1, <2>1, GotoKeeps
<1>3. CASE LoadDone
  <2>1. /\ op.todo = {} /\ Goto("quota") /\ op.kind \in KindsAt("quota") /\ "quota" \in Steps
        /\ Orphans = {}
    BY <1>1, <1>3 DEF LoadDone, KindsAt, Steps, ArtifactsInv, Control, Scanning
  <2> QED
    BY <1>1, <2>1, GotoKeeps
<1> QED
  BY <1>2, <1>3

LEMMA LoadOrphanKeeps == ASSUME ArtifactsInv, NEW i \in Ids, LoadOrphan(i) PROVE ArtifactsInv'
<1> USE DEF ArtifactsInv
<1>0. /\ pc = "orphans" /\ op.kind = "open" /\ op.todo = {} /\ content[i] # None /\ entries[i] = None
      /\ UNCHANGED <<clock, maxBytes, metadata, drawn, stored, gone>> /\ faults \in Nat
  BY DEF LoadOrphan, Orphans, Control, KindsAt, Scanning, history, Types
<1>1. i \notin stored
  BY <1>0, NoneAssumption DEF Files
<1>2. CASE /\ content' = [content EXCEPT ![i] = None]
           /\ NoFault /\ UNCHANGED <<index, pc, op>>
  <2>1. /\ content' \in [Ids -> Sizes \cup {None}]
        /\ \A j \in Ids : j # i => content'[j] = content[j]
        /\ content'[i] = None
        /\ UNCHANGED <<entries, usedBytes, pc, op, faults>>
    BY <1>2 DEF Types, index, NoFault
  <2>2. Types'
    BY <1>0, <2>1 DEF Types
  <2>3. Control'
    BY <1>0, <2>1 DEF Control, Scanning
  <2>4. Files'
    BY <1>0, <1>1, <2>1 DEF Files, Types
  <2>5. OrphansExplained'
    BY <1>0, <2>1 DEF OrphansExplained
  <2>6. Quota'
    BY <1>0, <2>1 DEF Quota, UsedBytesExact, Indexed
  <2> QED
    BY <2>2, <2>3, <2>4, <2>5, <2>6
<1>3. CASE Fault /\ Abandon /\ UNCHANGED content
  <2>1. faults' \in Nat
    BY <1>0, <1>3 DEF Fault
  <2>2. /\ content' \in [Ids -> Sizes \cup {None}] /\ metadata' \in [Ids -> Metadata \cup {None}]
        /\ \A j \in Ids \ drawn : content'[j] = None /\ metadata'[j] = None
        /\ \A j \in stored : content'[j] = content[j] /\ metadata'[j] = metadata[j]
        /\ \A j \in gone : content'[j] = None
    BY <1>0, <1>3 DEF Types, Files
  <2> QED
    BY <1>0, <1>3, <2>1, <2>2, AbandonKeeps
<1> QED
  BY <1>2, <1>3 DEF LoadOrphan

LEMMA EmptyIndexExact ==
    ASSUME entries' = [i \in Ids |-> None], usedBytes' = 0
    PROVE  UsedBytesExact'
<1>1. SizeOf(entries') = 0
  BY SizeEmpty
<1> QED
  BY <1>1 DEF UsedBytesExact, Indexed, SizeOf, Held

\* A crash: only the disk and the history survive.
LEMMA CrashKeeps == ASSUME ArtifactsInv, Crash PROVE ArtifactsInv'
<1> USE DEF ArtifactsInv
<1>1. /\ op' \in Operation /\ op'.kind = "none" /\ op'.todo = {}
      /\ pc' = "down" /\ entries' = [i \in Ids |-> None] /\ usedBytes' = 0
      /\ UNCHANGED <<clock, maxBytes, content, metadata, faults, drawn, stored, gone>>
  BY DEF Crash, NoOp, Operation, OpKinds, Steps, disk, history
<1>2. Types'
  BY <1>1 DEF Types, Steps
<1>3. Control'
  BY <1>1 DEF Control, KindsAt
<1>4. Files'
  BY <1>1 DEF Files, Types
<1>5. OrphansExplained'
  BY <1>1 DEF OrphansExplained
<1>6. Quota'
  BY <1>1, EmptyIndexExact DEF Quota, Types
<1> QED
  BY <1>2, <1>3, <1>4, <1>5, <1>6

\* A step that changes nothing but the clock.
LEMMA TimePasses ==
    ASSUME ArtifactsInv, clock' \in Nat,
           UNCHANGED <<maxBytes, disk, index, pc, op, faults, history>>
    PROVE  ArtifactsInv'
<1> USE DEF ArtifactsInv
<1>1. UNCHANGED <<maxBytes, content, metadata, entries, usedBytes, pc, op, faults,
                  drawn, stored, gone>>
  BY DEF disk, index, history
<1>2. Types' /\ Control' /\ Files'
  BY <1>1 DEF Types, Control, Files, Scanning
<1>3. OrphansExplained' /\ Quota'
  BY <1>1 DEF OrphansExplained, Orphans, Scanning, Quota, UsedBytesExact, Indexed
<1> QED
  BY <1>2, <1>3

-----------------------------------------------------------------------------
(* The theorems.                                                           *)

LEMMA InvInit == Init => ArtifactsInv
<1> SUFFICES ASSUME Init PROVE ArtifactsInv
  OBVIOUS
<1>1. /\ op \in Operation /\ op.kind = "none" /\ op.todo = {}
      /\ pc = "down" /\ entries = [i \in Ids |-> None] /\ usedBytes = 0
      /\ maxBytes \in Nat
  BY ArtifactsAssumption DEF Init, NoOp, Operation, OpKinds, Steps
<1>2. Types
  BY <1>1, FS_EmptySet DEF Init, Types, Steps
<1>3. Control /\ Files /\ OrphansExplained
  BY <1>1 DEF Init, Control, KindsAt, Files, OrphansExplained
<1>4. Quota
  BY <1>1, SizeEmpty, ExactMeans DEF Quota
<1> QED
  BY <1>2, <1>3, <1>4 DEF ArtifactsInv

LEMMA InvNext == ArtifactsInv /\ [Next]_vars => ArtifactsInv'
<1> SUFFICES ASSUME ArtifactsInv, [Next]_vars PROVE ArtifactsInv'
  OBVIOUS
<1>1. CASE Step
  <2>1. CASE CleanupExpired \/ MakeRoom \/ EnforceQuota \/ Remove
    BY <2>1, CleanupExpiredKeeps, MakeRoomKeeps, EnforceQuotaKeeps, RemoveKeeps
  <2>2. CASE WriteContent \/ WriteMetadata \/ PutIndex
    BY <2>2, WriteContentKeeps, WriteMetadataKeeps, PutIndexKeeps
  <2>3. CASE \E i \in Ids : LoadEntry(i) \/ LoadStale(i) \/ LoadOrphan(i)
    BY <2>3, LoadEntryKeeps, LoadStaleKeeps, LoadOrphanKeeps
  <2>4. CASE LoadScanned \/ LoadDone
    BY <2>4, LoadMovesKeep
  <2> QED
    BY <1>1, <2>1, <2>2, <2>3, <2>4 DEF Step
<1>2. CASE \E size \in Sizes : PutBegin(size)
  BY <1>2, BeginKeeps, ArtifactsAssumption DEF PutBegin
<1>3. CASE \E i \in Ids : ReadExpired(i) \/ ReadMissing(i) \/ Delete(i)
  BY <1>3, RemovalsKeep, ReadMissingKeeps
<1>4. CASE Cleanup
  BY <1>4, BeginKeeps DEF Cleanup
<1>5. CASE Open \/ Crash
  BY <1>5, OpenKeeps, CrashKeeps
<1>6. CASE Tick
  BY <1>6, TimePasses DEF Tick, ArtifactsInv, Types
<1>7. CASE UNCHANGED vars
  BY <1>7, TimePasses DEF vars, ArtifactsInv, Types
<1> QED
  BY <1>1, <1>2, <1>3, <1>4, <1>5, <1>6, <1>7 DEF Next

\* The inductive invariant holds of every state of the store.
THEOREM ArtifactsInvariant == Spec => []ArtifactsInv
BY InvInit, InvNext, PTL DEF Spec

\* QuotaHeld, about the account kept by Put, removeLocked, Read and load():
\* s.usedBytes is the size of the indexed artifacts at every moment, and no
\* operation ends with more than s.maxBytes of them, whichever file operations
\* fail, whenever the process dies and however the quota changed in between.
THEOREM QuotaAlwaysHeld == Spec => []QuotaHeld
<1>1. ArtifactsInv => QuotaHeld
  BY IdleStore DEF ArtifactsInv, Quota, QuotaHeld
<1> QED
  BY <1>1, ArtifactsInvariant, PTL

\* FilesMatchIndex, about writeAtomic, removeFiles and load(): what Put
\* returned stays whole on the disk, and indexed whenever the store is open,
\* until a removal begins, and a single failed file operation leaves no content
\* that no entry owns.
THEOREM FilesAlwaysMatch == Spec => []FilesMatchIndex
<1>1. ArtifactsInv => ArtifactsTypeOK
  <2> SUFFICES ASSUME ArtifactsInv PROVE ArtifactsTypeOK
    OBVIOUS
  <2>1. usedBytes \in Nat
    <3>1. Index(entries) /\ usedBytes = SizeOf(entries)
      BY IndexOfEntries, ExactMeans DEF ArtifactsInv, Quota
    <3>2. /\ IsFiniteSet(Held(entries))
          /\ \A j \in Held(entries) : [k \in Held(entries) |-> entries[k].size][j] \in Nat
      BY <3>1, SizesAreNumbers DEF Index
    <3> QED
      BY <3>1, <3>2, SumType DEF SizeOf
  <2> QED
    BY <2>1 DEF ArtifactsInv, Types, Operation, ArtifactsTypeOK
<1>2. ArtifactsInv => NoOrphanContent
  BY IdleStore DEF NoOrphanContent
<1>3. ArtifactsInv => StoredIsDurable
  BY IdleStore DEF ArtifactsInv, Files, StoredIsDurable
<1> QED
  BY <1>1, <1>2, <1>3, ArtifactsInvariant, PTL DEF FilesMatchIndex

\* GoneStaysGone, about removeLocked, Read and load(): an artifact that left
\* the index is in no index again, not even the one a restart builds from what
\* its failed removal left on the disk.
THEOREM GoneNeverReturns == Spec => []GoneStaysGone
<1>1. ArtifactsInv => GoneStaysGone
  BY DEF ArtifactsInv, Files, GoneStaysGone
<1> QED
  BY <1>1, ArtifactsInvariant, PTL
=============================================================================
