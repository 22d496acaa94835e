----------------------------- MODULE Artifacts ------------------------------
(***************************************************************************)
(* internal/artifacts/store.go: artifacts as pairs of files, content and   *)
(* metadata, under an in-memory index with a byte quota and a time to      *)
(* live.                                                                   *)
(*                                                                         *)
(* One mutex serialises the operations, so at most one is in progress      *)
(* (pc, op).  It proceeds file operation by file operation: each may fail, *)
(* and the process may die between any two.  A file is written to a        *)
(* temporary name and renamed (writeAtomic), one step here; load() sweeps  *)
(* the temporary names, which nothing else reads.  A rename that happened  *)
(* is taken to survive.  IDs are random and drawn once; MIME type and      *)
(* redaction are left out.                                                 *)
(***************************************************************************)
EXTENDS Naturals, Functions

CONSTANTS
    Ids,                \* artifact IDs, numbers so that they have an order
    Sizes,              \* content sizes
    Quotas,             \* the values of s.maxBytes, which a restart may change
    TTL,                \* s.ttl
    MaxTime,            \* bound: the clock
    MaxFaults,          \* bound: file operations that fail
    MaxCrashes,         \* bound: crashes
    None

ASSUME ArtifactsAssumption ==
    /\ Ids \subseteq Nat /\ Sizes \subseteq Nat
    /\ Quotas \subseteq Nat \ {0} /\ TTL \in Nat \ {0}
    /\ {MaxTime, MaxFaults, MaxCrashes} \subseteq Nat
    /\ None \notin Ids \cup Sizes

Metadata == [size: Sizes, createdAt: Nat, expiresAt: Nat]

ASSUME NoneAssumption == None \notin Metadata

VARIABLES
    clock,
    maxBytes,           \* s.maxBytes of this run of the program
    content,            \* disk: the size of <id>.bin, or None
    metadata,           \* disk: <id>.json, or None
    entries, usedBytes, \* the index
    pc,                 \* the operation in progress, and where it stands
    op,
    faults, crashes,
    drawn,              \* history: IDs the random source gave
    stored,             \* history: IDs Put returned, until a removal begins
    gone                \* history: IDs the index has let go

disk == <<content, metadata>>
index == <<entries, usedBytes>>
history == <<drawn, stored, gone>>
vars == <<clock, maxBytes, disk, index, pc, op, faults, crashes, history>>

\* scan ... orphans: load(); expired, room, content, metadata, index: Put;
\* expired, quota: Cleanup; quota also ends load(); remove: removeFiles after
\* its first file, on the way back to op.then.
Steps == {"down", "scan", "orphans", "quota", "idle", "expired", "room",
          "content", "metadata", "index", "remove"}

NoOp == [kind |-> "none", size |-> 0, id |-> None, now |-> 0, todo |-> {},
         then |-> "idle", error |-> FALSE]

Init ==
    /\ clock = 1 /\ maxBytes \in Quotas
    /\ content = [i \in Ids |-> None] /\ metadata = [i \in Ids |-> None]
    /\ entries = [i \in Ids |-> None] /\ usedBytes = 0
    /\ pc = "down" /\ op = NoOp
    /\ faults = 0 /\ crashes = 0
    /\ drawn = {} /\ stored = {} /\ gone = {}

Indexed == {i \in Ids : entries[i] # None}

-----------------------------------------------------------------------------
(* Failure, and removal of an artifact's two files.                        *)

Fault == faults < MaxFaults /\ faults' = faults + 1
NoFault == UNCHANGED faults

\* An error ends the operation; in load() it ends New, and no store opens.
Abandon ==
    /\ op' = NoOp
    /\ IF op.kind = "open"
       THEN /\ pc' = "down"
            /\ entries' = [i \in Ids |-> None] /\ usedBytes' = 0
       ELSE /\ pc' = "idle"
            /\ UNCHANGED index

\* removeFiles(i), first file: the content.  The second is tried either way.
RemoveContent(i, kind, then) ==
    /\ pc' = "remove"
    /\ stored' = stored \ {i}
    /\ \/ /\ content' = [content EXCEPT ![i] = None] /\ NoFault
          /\ op' = [op EXCEPT !.kind = kind, !.id = i, !.then = then, !.error = FALSE,
                          !.todo = @ \ {i}]
       \/ /\ content[i] # None /\ UNCHANGED content /\ Fault
          /\ op' = [op EXCEPT !.kind = kind, !.id = i, !.then = then, !.error = TRUE,
                          !.todo = @ \ {i}]
    /\ UNCHANGED <<clock, maxBytes, metadata, index, crashes, drawn, gone>>

\* Fault: a removed artifact keeps its bytes.
DropUncounted(i) ==
    /\ entries' = [entries EXCEPT ![i] = None]
    /\ UNCHANGED usedBytes
    /\ gone' = gone \cup {i}

\* Take i out of the index and its size off the account.
Drop(i) ==
    /\ entries' = [entries EXCEPT ![i] = None]
    /\ usedBytes' = IF entries[i] = None THEN usedBytes ELSE usedBytes - entries[i].size
    /\ gone' = gone \cup {i}

\* Fault: the artifact leaves the index whatever became of its files.
RemoveUnchecked ==
    /\ pc = "remove"
    /\ \/ metadata' = [metadata EXCEPT ![op.id] = None] /\ NoFault
       \/ metadata[op.id] # None /\ UNCHANGED metadata /\ Fault
    /\ Drop(op.id)
    /\ pc' = op.then /\ op' = [op EXCEPT !.id = None]
    /\ UNCHANGED <<clock, maxBytes, content, crashes, drawn, stored>>

\* removeFiles, second file, and the rest of removeLocked.
Remove ==
    /\ pc = "remove"
    /\ \/ /\ metadata' = [metadata EXCEPT ![op.id] = None] /\ NoFault
          /\ IF op.error THEN Abandon /\ UNCHANGED gone
             ELSE /\ Drop(op.id)
                  /\ pc' = op.then /\ op' = [op EXCEPT !.id = None]
       \/ /\ metadata[op.id] # None /\ UNCHANGED metadata /\ Fault
          /\ Abandon /\ UNCHANGED gone
    /\ UNCHANGED <<clock, maxBytes, content, crashes, drawn, stored>>

\* oldestIDLocked: by creation time, then by ID.
Oldest ==
    CHOOSE i \in Indexed : \A j \in Indexed :
        \/ entries[i].createdAt < entries[j].createdAt
        \/ entries[i].createdAt = entries[j].createdAt /\ i <= j

-----------------------------------------------------------------------------
(* The loops Put, Cleanup and load() share.                                *)

ExpiredAt(m, now) == now >= m.expiresAt

Goto(step) ==
    /\ pc' = step
    /\ UNCHANGED <<clock, maxBytes, disk, index, op, faults, crashes, history>>

\* Fault: the periodic pass only looks at the quota.
CleanupExpiredNever == pc = "expired" /\ Goto(IF op.kind = "put" THEN "room" ELSE "quota")

\* cleanupExpiredLocked, in the order of a map iteration.
CleanupExpired ==
    /\ pc = "expired"
    /\ \/ \E i \in Indexed :
             ExpiredAt(entries[i], op.now) /\ RemoveContent(i, op.kind, "expired")
       \/ /\ \A i \in Indexed : ~ExpiredAt(entries[i], op.now)
          /\ Goto(IF op.kind = "put" THEN "room" ELSE "quota")

\* makeRoomLocked; it never runs out of entries, a larger artifact is refused.
MakeRoom ==
    /\ pc = "room"
    /\ \/ /\ usedBytes + op.size > maxBytes /\ Indexed # {}
          /\ RemoveContent(Oldest, "put", "room")
       \/ usedBytes + op.size <= maxBytes /\ Goto("content")

\* enforceQuotaLocked
EnforceQuota ==
    /\ pc = "quota"
    /\ \/ usedBytes > maxBytes /\ Indexed # {} /\ RemoveContent(Oldest, op.kind, "quota")
       \/ /\ usedBytes <= maxBytes
          /\ pc' = "idle" /\ op' = NoOp
          /\ UNCHANGED <<clock, maxBytes, disk, index, faults, crashes, history>>

-----------------------------------------------------------------------------
(* Put.                                                                    *)

Begin(kind, size, step) ==
    /\ pc = "idle"
    /\ pc' = step
    /\ op' = [NoOp EXCEPT !.kind = kind, !.size = size, !.now = clock]
    /\ UNCHANGED <<clock, maxBytes, disk, index, faults, crashes, history>>

PutBegin(size) == size <= maxBytes /\ Ids # drawn /\ Begin("put", size, "expired")

WriteContent ==
    /\ pc = "content"
    /\ \/ \E i \in Ids \ drawn :
             /\ drawn' = drawn \cup {i}
             /\ content' = [content EXCEPT ![i] = op.size]
             /\ pc' = "metadata" /\ op' = [op EXCEPT !.id = i, !.now = clock]
             /\ NoFault /\ UNCHANGED index
       \/ Fault /\ Abandon /\ UNCHANGED <<content, drawn>>
    /\ UNCHANGED <<clock, maxBytes, metadata, crashes, stored, gone>>

\* If the metadata cannot be written the content is removed, as far as that
\* goes: the error of that removal is ignored.
WriteMetadata ==
    /\ pc = "metadata"
    /\ \/ /\ metadata' = [metadata EXCEPT ![op.id] =
                   [size |-> op.size, createdAt |-> op.now, expiresAt |-> op.now + TTL]]
          /\ pc' = "index" /\ NoFault /\ UNCHANGED <<content, index, op>>
       \/ /\ Fault /\ Abandon /\ UNCHANGED metadata
          /\ content' = [content EXCEPT ![op.id] = None]
       \/ /\ faults + 2 <= MaxFaults /\ faults' = faults + 2
          /\ Abandon /\ UNCHANGED disk
    /\ UNCHANGED <<clock, maxBytes, crashes, history>>

PutIndex ==
    /\ pc = "index"
    /\ entries' = [entries EXCEPT ![op.id] = metadata[op.id]]
    /\ usedBytes' = usedBytes + op.size
    /\ stored' = stored \cup {op.id}
    /\ pc' = "idle" /\ op' = NoOp
    /\ UNCHANGED <<clock, maxBytes, disk, faults, crashes, drawn, gone>>

-----------------------------------------------------------------------------
(* Read, Delete, Cleanup.                                                  *)

\* Read of an expired artifact removes it; of one without content, forgets
\* it.  Every other Read changes nothing.
ReadExpired(i) ==
    /\ pc = "idle" /\ i \in Indexed
    /\ ExpiredAt(entries[i], clock)
    /\ RemoveContent(i, "read", "idle")

ReadMissing(i) ==
    /\ pc = "idle" /\ i \in Indexed
    /\ ~ExpiredAt(entries[i], clock)
    /\ content[i] = None
    /\ Drop(i)
    /\ UNCHANGED <<clock, maxBytes, disk, pc, op, faults, crashes, drawn, stored>>

Delete(i) == pc = "idle" /\ i \in Indexed /\ RemoveContent(i, "delete", "idle")

\* A tick of RunCleanup.
Cleanup == Begin("cleanup", 0, "expired")

-----------------------------------------------------------------------------
(* New and load().                                                         *)

Open ==
    /\ pc = "down"
    /\ pc' = "scan"
    /\ maxBytes' \in Quotas
    /\ op' = [NoOp EXCEPT !.kind = "open", !.now = clock,
                          !.todo = {i \in Ids : metadata[i] # None}]
    /\ UNCHANGED <<clock, disk, index, faults, crashes, history>>

Whole(i) == ~ExpiredAt(metadata[i], op.now) /\ content[i] = metadata[i].size

\* The first loop: index what is whole and not expired, remove the rest.
LoadEntry(i) ==
    /\ pc = "scan" /\ i \in op.todo /\ Whole(i)
    /\ entries' = [entries EXCEPT ![i] = metadata[i]]
    /\ usedBytes' = usedBytes + metadata[i].size
    /\ op' = [op EXCEPT !.todo = @ \ {i}]
    /\ UNCHANGED <<clock, maxBytes, disk, pc, faults, crashes, history>>

LoadStale(i) ==
    /\ pc = "scan" /\ i \in op.todo /\ ~Whole(i)
    /\ RemoveContent(i, "open", "scan")

LoadScanned == pc = "scan" /\ op.todo = {} /\ Goto("orphans")

\* Fault: the index is not asked.
OrphansAll == {i \in Ids : content[i] # None}

Orphans == {i \in Ids : content[i] # None /\ entries[i] = None}

\* The second loop: content that no entry owns.
LoadOrphan(i) ==
    /\ pc = "orphans" /\ i \in Orphans
    /\ \/ /\ content' = [content EXCEPT ![i] = None]
          /\ NoFault /\ UNCHANGED <<index, pc, op>>
       \/ Fault /\ Abandon /\ UNCHANGED content
    /\ UNCHANGED <<clock, maxBytes, metadata, crashes, history>>

LoadDone == pc = "orphans" /\ Orphans = {} /\ Goto("quota")

Crash ==
    /\ pc # "down" /\ crashes < MaxCrashes
    /\ crashes' = crashes + 1
    /\ pc' = "down" /\ op' = NoOp
    /\ entries' = [i \in Ids |-> None] /\ usedBytes' = 0
    /\ UNCHANGED <<clock, maxBytes, disk, faults, history>>

Tick ==
    /\ clock < MaxTime /\ clock' = clock + 1
    /\ UNCHANGED <<maxBytes, disk, index, pc, op, faults, crashes, history>>

\* The steps of an operation that holds the mutex.
Step ==
    \/ CleanupExpired \/ MakeRoom \/ EnforceQuota \/ Remove
    \/ WriteContent \/ WriteMetadata \/ PutIndex
    \/ \E i \in Ids : LoadEntry(i) \/ LoadStale(i) \/ LoadOrphan(i)
    \/ LoadScanned \/ LoadDone

Next ==
    \/ Step
    \/ \E size \in Sizes : PutBegin(size)
    \/ \E i \in Ids : ReadExpired(i) \/ ReadMissing(i) \/ Delete(i)
    \/ Cleanup \/ Open \/ Crash \/ Tick

Spec == Init /\ [][Next]_vars

\* Operations run to their end, and RunCleanup's ticks get the mutex, which
\* Go hands to waiters in turn.
FairSpec == Spec /\ WF_vars(Step) /\ SF_vars(Cleanup)

-----------------------------------------------------------------------------
(* Properties.                                                             *)

ArtifactsTypeOK ==
    /\ content \in [Ids -> Sizes \cup {None}]
    /\ metadata \in [Ids -> Metadata \cup {None}]
    /\ entries \in [Ids -> Metadata \cup {None}]
    /\ usedBytes \in Nat
    /\ pc \in Steps
    /\ op.id \in Ids \cup {None} /\ op.todo \subseteq Ids

\* The account of used bytes, kept by addition and subtraction over every
\* success, failure and restart, is the size of what is indexed.
UsedBytesExact == usedBytes = SumFunctionOnSet([i \in Indexed |-> entries[i].size], Indexed)

\* The quota holds whenever no operation is in progress, also after failed
\* removals and a start on a directory written before, and by a true account.
QuotaHeld == UsedBytesExact /\ (pc = "idle" => usedBytes <= maxBytes)

\* One failed file operation never leaves content that no entry owns: the disk
\* holds what the quota counts.
NoOrphanContent == pc = "idle" /\ faults <= 1 => Orphans = {}

\* What Put returned survives crashes until something sets out to remove it:
\* both files are whole, and an open store has the artifact in its index.
StoredIsDurable ==
    \A i \in stored :
        /\ metadata[i] # None /\ content[i] = metadata[i].size
        /\ pc = "idle" => entries[i] = metadata[i]

\* What is on the disk and what the index says agree, up to the failures that
\* the next start repairs.
FilesMatchIndex == ArtifactsTypeOK /\ NoOrphanContent /\ StoredIsDurable

\* An artifact that was removed or found missing never comes back, whatever
\* was left of its files when the store is opened again.
GoneStaysGone == \A i \in gone : entries[i] = None

\* An expired artifact leaves an open store without anyone asking for it.
ExpiredIsRemoved ==
    \A i \in Ids :
        (entries[i] # None /\ ExpiredAt(entries[i], clock)) ~> entries[i] = None
=============================================================================
