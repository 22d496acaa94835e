------------------------------ MODULE Registry ------------------------------
(***************************************************************************)
(* internal/registry: the concurrency-safe store of browser connections.   *)
(*                                                                         *)
(* `browsers` is the Go map: a browser has an entry from its first         *)
(* Register until PruneDisconnected drops its offline snapshot.  Every     *)
(* method runs under one mutex and is one action, except Register, which   *)
(* reads the clock before it takes the lock (registry.go:87 and 105): two  *)
(* concurrent registrations may commit in the opposite order.              *)
(*                                                                         *)
(* Left out as data no method decides on: browser info, permissions (they  *)
(* are replaced together with the capabilities), the remote address, the   *)
(* incognito flag, the latency value and the text of the disconnect        *)
(* reason.                                                                 *)
(***************************************************************************)
EXTENDS Protocol

CONSTANTS
    Names,         \* display names, after TrimSpace
    Blank,         \* the empty display name
    DefaultName,   \* the name given to a browser that never sent one
    Never,         \* the nil DisconnectedAt
    MaxTime        \* bound on the clock

ASSUME NamesAssumption == Blank \notin Names /\ DefaultName \in Names
ASSUME TimeAssumption == MaxTime \in Nat /\ Never \notin Nat

VARIABLES
    browsers,      \* Registry.browsers: a partial function of Browsers
    clock,         \* r.now()
    stamp          \* per connection, the time a Register call in progress read

registryVars == <<browsers, clock, stamp>>

Entry == [connected      : BOOLEAN,
          connectionId   : Connections,
          connection     : Connections \cup {None},
          capabilities   : SUBSET Commands,
          displayName    : Names,
          firstSeen      : 0..MaxTime,
          connectedAt    : 0..MaxTime,
          lastSeen       : 0..MaxTime,
          disconnectedAt : 0..MaxTime \cup {Never}]

Put(b, e) == [x \in DOMAIN browsers \cup {b} |->
                 IF x = b THEN e ELSE browsers[x]]

\* The test every update of a live entry starts with: connection c still
\* owns the entry of b.
Owns(b, c) == /\ b \in DOMAIN browsers
              /\ browsers[b].connected
              /\ browsers[b].connectionId = c

RegistryInit == /\ browsers = [b \in {} |-> None]
                /\ clock = 0
                /\ stamp = [c \in Connections |-> Never]

-----------------------------------------------------------------------------
(* Register: the snapshot is stamped first, the map is updated later.      *)

RegisterBegin(c) ==
    /\ stamp[c] = Never
    /\ stamp' = [stamp EXCEPT ![c] = clock]
    /\ UNCHANGED <<browsers, clock>>

\* The entry Register installs: a known browser keeps its first-seen time
\* and, when the registration carries no name, its display name.
NewEntry(b, c, caps, name, now) ==
    LET known == b \in DOMAIN browsers
    IN  [connected      |-> TRUE,
         connectionId   |-> c,
         connection     |-> c,
         capabilities   |-> caps,
         displayName    |-> IF name # Blank THEN name
                            ELSE IF known THEN browsers[b].displayName
                            ELSE DefaultName,
         firstSeen      |-> IF known THEN browsers[b].firstSeen ELSE now,
         connectedAt    |-> now,
         lastSeen       |-> now,
         disconnectedAt |-> Never]

\* What Register returns: the connection the caller has to close.
Replaced(b) == IF b \in DOMAIN browsers THEN browsers[b].connection ELSE None

Register(b, c, caps, name, now) ==
    browsers' = Put(b, NewEntry(b, c, caps, name, now))

RegisterCommit(b, c, caps, name) ==
    /\ stamp[c] # Never
    /\ Register(b, c, caps, name, stamp[c])
    /\ stamp' = [stamp EXCEPT ![c] = Never]
    /\ UNCHANGED clock

-----------------------------------------------------------------------------
(* The other methods.  A call that does not own the entry returns false    *)
(* and changes nothing.                                                    *)

\* Fault: any connection may take the browser offline.
DisconnectByAnyone(b, c) ==
    browsers' = IF b \in DOMAIN browsers /\ browsers[b].connected
                THEN [browsers EXCEPT ![b].connected = FALSE,
                                      ![b].connection = None,
                                      ![b].lastSeen = clock,
                                      ![b].disconnectedAt = clock]
                ELSE browsers

\* Fault: the offline snapshot keeps its connection.
DisconnectKeepsConnection(b, c) ==
    browsers' = IF Owns(b, c)
                THEN [browsers EXCEPT ![b].connected = FALSE,
                                      ![b].lastSeen = clock,
                                      ![b].disconnectedAt = clock]
                ELSE browsers

Disconnect(b, c) ==
    browsers' = IF Owns(b, c)
                THEN [browsers EXCEPT ![b].connected = FALSE,
                                      ![b].connection = None,
                                      ![b].lastSeen = clock,
                                      ![b].disconnectedAt = clock]
                ELSE browsers

\* Touch, and RecordLatency for the clock it refreshes.
Touch(b, c) ==
    browsers' = IF Owns(b, c)
                THEN [browsers EXCEPT ![b].lastSeen = clock]
                ELSE browsers

UpdateCapabilities(b, c, caps) ==
    browsers' = IF Owns(b, c)
                THEN [browsers EXCEPT ![b].capabilities = caps,
                                      ![b].lastSeen = clock]
                ELSE browsers

Rename(b, name) ==
    /\ b \in DOMAIN browsers
    /\ browsers' = [browsers EXCEPT ![b].displayName = name]

\* Offline snapshots that went offline before the cutoff are dropped.
Prunable(cutoff) == {b \in DOMAIN browsers : /\ ~browsers[b].connected
                                             /\ browsers[b].disconnectedAt # Never
                                             /\ browsers[b].disconnectedAt < cutoff}

PruneDisconnected(cutoff) ==
    /\ Prunable(cutoff) # {}
    /\ browsers' = [b \in DOMAIN browsers \ Prunable(cutoff) |-> browsers[b]]

\* Route: the connection a command for b goes to, or the error returned.
Route(b, command) ==
    IF b \notin DOMAIN browsers THEN "BROWSER_NOT_FOUND"
    ELSE IF ~browsers[b].connected \/ browsers[b].connection = None
         THEN "BROWSER_DISCONNECTED"
    ELSE IF command \notin browsers[b].capabilities
         THEN "CAPABILITY_UNAVAILABLE"
    ELSE "ROUTED"

-----------------------------------------------------------------------------
(* The registry on its own, called by connections that may be stale.       *)

Tick == /\ clock < MaxTime
        /\ clock' = clock + 1
        /\ UNCHANGED <<browsers, stamp>>

RegistryNext ==
    \/ Tick
    \/ \E c \in Connections : RegisterBegin(c)
    \/ \E b \in Browsers, c \in Connections, caps \in SUBSET Commands,
          name \in Names \cup {Blank} : RegisterCommit(b, c, caps, name)
    \/ \E b \in Browsers, c \in Connections :
          Disconnect(b, c) /\ UNCHANGED <<clock, stamp>>
    \/ \E b \in Browsers, c \in Connections :
          Touch(b, c) /\ UNCHANGED <<clock, stamp>>
    \/ \E b \in Browsers, c \in Connections, caps \in SUBSET Commands :
          UpdateCapabilities(b, c, caps) /\ UNCHANGED <<clock, stamp>>
    \/ \E b \in Browsers, name \in Names :
          Rename(b, name) /\ UNCHANGED <<clock, stamp>>
    \/ \E cutoff \in 0..MaxTime :
          PruneDisconnected(cutoff) /\ UNCHANGED <<clock, stamp>>

RegistrySpec == RegistryInit /\ [][RegistryNext]_registryVars

-----------------------------------------------------------------------------

\* Every retained entry has the shape of registry.Browser, and the clock and
\* the stamps of registrations in progress stay within the modelled time.
RegistryTypeOK ==
    /\ DOMAIN browsers \subseteq Browsers
    /\ \A b \in DOMAIN browsers : browsers[b] \in Entry
    /\ clock \in 0..MaxTime
    /\ stamp \in [Connections -> 0..MaxTime \cup {Never}]

\* registry.go:139-149, 305: the three ways the code asks whether a browser is
\* online agree, so Route never returns a nil connection and PruneDisconnected
\* never skips an offline snapshot.
SnapshotConsistent ==
    \A b \in DOMAIN browsers :
        /\ browsers[b].connected = (browsers[b].connection # None)
        /\ browsers[b].connected = (browsers[b].disconnectedAt = Never)
        /\ browsers[b].connected => browsers[b].connection = browsers[b].connectionId

=============================================================================
