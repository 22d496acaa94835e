------------------------------ MODULE Pairing -------------------------------
(***************************************************************************)
(* internal/security/pairing/manager.go: the one-time pairing code, the    *)
(* limit on invalid codes and the credential store with its file.          *)
(*                                                                         *)
(* Codes and credentials are the numbers the random source hands out, each *)
(* once; hashing is left out.  A caller stamps its call before it waits    *)
(* for the mutex (Pair, line 215) and writes the file while it holds it;   *)
(* the process can die at any of those steps and start again from the      *)
(* file.  The file is replaced by a rename, so it is the old one or the    *)
(* new one; a rename that happened is taken to survive.  Time 0 is Go's    *)
(* zero time.                                                              *)
(***************************************************************************)
EXTENDS Naturals, FiniteSets, Functions

CONSTANTS
    Browsers,
    Callers,            \* goroutines that pair or revoke
    CodeTTL,            \* m.codeTTL
    AttemptWindow,      \* m.attemptWindow
    MaxAttempts,        \* m.maxAttempts
    MaxTime,            \* bound: the clock
    MaxWait,            \* bound: how long a call waits for the mutex
    MaxCodes,           \* bound: codes generated
    MaxCredentials,     \* bound: credentials generated
    MaxCrashes,         \* bound: crashes
    Nobody

ASSUME PairingAssumption ==
    /\ Nobody \notin Callers
    /\ Nobody \notin Browsers
    /\ CodeTTL \in Nat \ {0}
    /\ AttemptWindow \in Nat \ {0} /\ MaxAttempts \in Nat \ {0}
    /\ MaxTime \in Nat \ {0} /\ MaxCodes \in Nat \ {0}
    /\ MaxWait \in Nat /\ MaxCredentials \in Nat /\ MaxCrashes \in Nat

VARIABLES
    clock,
    mutex,              \* the caller that holds m.mu across its file write
    code, codeExpires,  \* the active code
    attempts,           \* invalid codes: count, windowStart, blockedUntil
    credentials,        \* m.credentials: the credential of a browser, 0 if none
    file,               \* the credential file
    call,               \* where each caller stands
    codes, issued,      \* random source: how many codes and credentials it gave
    crashes,
    redeemed,           \* history: code -> the credentials saved for it
    answered,           \* history: the last credential each browser received
    unanswered,         \* history: browsers whose last saved change was not reported
    revoked,            \* history: credentials a Revoke reported gone
    guesses             \* history: invalid codes compared since the last success
                        \* or start, by the time their call began

memory == <<code, codeExpires, attempts, credentials>>
history == <<redeemed, answered, unanswered, revoked, guesses>>
vars == <<clock, mutex, memory, file, call, codes, issued, crashes, history>>

Attempts(n, start, until) == [count |-> n, windowStart |-> start, blockedUntil |-> until]
NoAttempts == Attempts(0, 0, 0)

At(step, b, c, now, x) ==
    [step |-> step, browser |-> b, code |-> c, now |-> now, credential |-> x]
Idle == At("idle", Nobody, 0, 0, 0)

\* NewManager on a file that is not there yet.
Init ==
    /\ clock = 1 /\ crashes = 0
    /\ mutex = Nobody
    /\ code = 1 /\ codes = 1 /\ codeExpires = 1 + CodeTTL
    /\ attempts = NoAttempts
    /\ credentials = [b \in Browsers |-> 0] /\ file = credentials
    /\ issued = 0
    /\ call = [p \in Callers |-> Idle]
    /\ redeemed = [c \in 1..MaxCodes |-> {}]
    /\ answered = [b \in Browsers |-> 0]
    /\ unanswered = {} /\ revoked = {}
    /\ guesses = [t \in 1..MaxTime |-> 0]

-----------------------------------------------------------------------------
(* Pair.                                                                   *)

\* Pair reads the clock and asks for the mutex.  The browser shows any code
\* that was ever displayed, or one that never was (0).
PairBegin(p, b, c) ==
    /\ call[p].step = "idle"
    /\ call' = [call EXCEPT ![p] = At("pairing", b, c, clock, 0)]
    /\ UNCHANGED <<clock, mutex, memory, file, codes, issued, crashes, history>>

Expired(now) == now >= codeExpires

\* rotateExpiredCodeLocked: the active code once a call stamped now looks.
Rotated(now) == IF Expired(now) THEN codes + 1 ELSE code

Blocked(now) == now < attempts.blockedUntil

\* retryAfterLocked clears a block that is over.
AttemptsAt(now) ==
    IF attempts.blockedUntil # 0 /\ ~Blocked(now) THEN NoAttempts ELSE attempts

\* The count and the start of the window a code compared at now falls in.
Window(now) ==
    LET a == AttemptsAt(now)
    IN  IF a.windowStart = 0 \/ now >= a.windowStart + AttemptWindow
        THEN Attempts(0, now, 0) ELSE a

\* Fault: the block ends with the window it was earned in.
RecordedShort(now) ==
    LET w == Window(now)
    IN  Attempts(w.count + 1, w.windowStart,
                 IF w.count + 1 < MaxAttempts THEN w.blockedUntil
                 ELSE w.windowStart + AttemptWindow)

\* recordInvalidAttemptLocked
Recorded(now) ==
    LET w == Window(now)
    IN  Attempts(w.count + 1, w.windowStart,
                 IF w.count + 1 < MaxAttempts THEN w.blockedUntil ELSE now + AttemptWindow)

Return(p) == call' = [call EXCEPT ![p] = Idle]

\* The mutex is taken, an expired code is replaced.
PairLocked(p) ==
    /\ call[p].step = "pairing" /\ mutex = Nobody
    /\ Expired(call[p].now) => codes < MaxCodes
    /\ code' = Rotated(call[p].now)
    /\ codes' = IF Expired(call[p].now) THEN codes + 1 ELSE codes
    /\ codeExpires' = IF Expired(call[p].now) THEN call[p].now + CodeTTL ELSE codeExpires
    /\ UNCHANGED <<clock, credentials, file, crashes>>

\* Too many invalid codes: this one is not looked at.
PairBlocked(p) ==
    /\ PairLocked(p)
    /\ Blocked(call[p].now)
    /\ Return(p)
    /\ UNCHANGED <<mutex, attempts, issued, history>>

PairInvalid(p) ==
    LET now == call[p].now IN
    /\ PairLocked(p)
    /\ ~Blocked(now)
    /\ call[p].code # Rotated(now)
    /\ attempts' = Recorded(now)
    /\ guesses' = [guesses EXCEPT ![now] = @ + 1]
    /\ Return(p)
    /\ UNCHANGED <<mutex, issued, redeemed, answered, unanswered, revoked>>

\* The code is right: a credential is drawn and the file written.
PairValid(p) ==
    LET now == call[p].now IN
    /\ PairLocked(p)
    /\ ~Blocked(now)
    /\ call[p].code = Rotated(now)
    /\ issued < MaxCredentials /\ codes < MaxCodes
    /\ attempts' = AttemptsAt(now)
    /\ issued' = issued + 1
    /\ mutex' = p
    /\ call' = [call EXCEPT ![p] = At("saving", @.browser, @.code, now, issued + 1)]
    /\ UNCHANGED history

\* Fault: the other browsers are left out of the new file.
PairSaveAlone(p) ==
    /\ call[p].step = "saving"
    /\ file' = [b \in Browsers |-> IF b = call[p].browser THEN call[p].credential ELSE 0]
    /\ call' = [call EXCEPT ![p].step = "saved"]
    /\ redeemed' = [redeemed EXCEPT ![code] = @ \cup {call[p].credential}]
    /\ UNCHANGED <<clock, mutex, memory, codes, issued, crashes,
                   answered, unanswered, revoked, guesses>>

\* atomicWriteFile up to its rename.
PairSave(p) ==
    /\ call[p].step = "saving"
    /\ file' = [credentials EXCEPT ![call[p].browser] = call[p].credential]
    /\ call' = [call EXCEPT ![p].step = "saved"]
    /\ redeemed' = [redeemed EXCEPT ![code] = @ \cup {call[p].credential}]
    /\ UNCHANGED <<clock, mutex, memory, codes, issued, crashes,
                   answered, unanswered, revoked, guesses>>

\* Fault: the code is used up although nothing was saved.
SaveFailsLate(p) ==
    /\ call[p].step = "saving"
    /\ mutex' = Nobody /\ Return(p)
    /\ credentials' = [credentials EXCEPT ![call[p].browser] = call[p].credential]
    /\ UNCHANGED <<clock, code, codeExpires, attempts, file, codes, issued, crashes, history>>

\* The file could not be written: code and credentials are as they were.
PairSaveFails(p) ==
    /\ call[p].step = "saving"
    /\ mutex' = Nobody /\ Return(p)
    /\ UNCHANGED <<clock, memory, file, codes, issued, crashes, history>>

\* Fault: the next code is not made the active one.
PairCommitReplayable(p) ==
    LET b == call[p].browser IN
    /\ call[p].step = "saved"
    /\ credentials' = [credentials EXCEPT ![b] = call[p].credential]
    /\ attempts' = NoAttempts
    /\ mutex' = Nobody /\ Return(p)
    /\ answered' = [answered EXCEPT ![b] = call[p].credential]
    /\ unanswered' = unanswered \ {b}
    /\ UNCHANGED <<clock, code, codeExpires, file, codes, issued, crashes, redeemed,
                   revoked, guesses>>

\* Memory follows the file, the code is rotated, the credential returned.
PairCommit(p) ==
    LET b == call[p].browser IN
    /\ call[p].step = "saved"
    /\ credentials' = [credentials EXCEPT ![b] = call[p].credential]
    /\ codes < MaxCodes
    /\ codes' = codes + 1 /\ code' = codes + 1
    /\ codeExpires' = call[p].now + CodeTTL
    /\ attempts' = NoAttempts
    /\ mutex' = Nobody /\ Return(p)
    /\ answered' = [answered EXCEPT ![b] = call[p].credential]
    /\ unanswered' = unanswered \ {b}
    /\ guesses' = [t \in DOMAIN guesses |-> 0]
    /\ UNCHANGED <<clock, file, issued, crashes, redeemed, revoked>>

-----------------------------------------------------------------------------
(* Revoke, CurrentCode, time, and a crash with the NewManager after it.    *)

RevokeBegin(p, b) ==
    /\ call[p].step = "idle"
    /\ mutex = Nobody
    /\ credentials[b] # 0
    /\ mutex' = p
    /\ call' = [call EXCEPT ![p] = At("revoking", b, 0, 0, 0)]
    /\ UNCHANGED <<clock, memory, file, codes, issued, crashes, history>>

\* Fault: the credential is forgotten in memory only.
RevokeUnsaved(p) ==
    /\ call[p].step = "revoking"
    /\ call' = [call EXCEPT ![p].step = "revoked"]
    /\ UNCHANGED <<clock, mutex, memory, file, codes, issued, crashes, history>>

RevokeSave(p) ==
    /\ call[p].step = "revoking"
    /\ file' = [credentials EXCEPT ![call[p].browser] = 0]
    /\ call' = [call EXCEPT ![p].step = "revoked"]
    /\ UNCHANGED <<clock, mutex, memory, codes, issued, crashes, history>>

RevokeSaveFails(p) ==
    /\ call[p].step = "revoking"
    /\ mutex' = Nobody /\ Return(p)
    /\ UNCHANGED <<clock, memory, file, codes, issued, crashes, history>>

RevokeCommit(p) ==
    LET b == call[p].browser IN
    /\ call[p].step = "revoked"
    /\ credentials' = [credentials EXCEPT ![b] = 0]
    /\ mutex' = Nobody /\ Return(p)
    /\ answered' = [answered EXCEPT ![b] = 0]
    /\ unanswered' = unanswered \ {b}
    /\ revoked' = revoked \cup {credentials[b]}
    /\ UNCHANGED <<clock, code, codeExpires, attempts, file, codes, issued, crashes,
                   redeemed, guesses>>

CurrentCode ==
    /\ mutex = Nobody
    /\ Expired(clock) /\ codes < MaxCodes
    /\ codes' = codes + 1 /\ code' = codes + 1
    /\ codeExpires' = clock + CodeTTL
    /\ UNCHANGED <<clock, mutex, attempts, credentials, file, call, issued, crashes, history>>

Tick ==
    /\ clock < MaxTime
    /\ \A p \in Callers : call[p].step = "pairing" => clock < call[p].now + MaxWait
    /\ clock' = clock + 1
    /\ UNCHANGED <<mutex, memory, file, call, codes, issued, crashes, history>>

\* The process dies wherever it is; load() reads what the file holds.
CrashAndRestart ==
    /\ crashes < MaxCrashes /\ codes < MaxCodes
    /\ crashes' = crashes + 1
    /\ mutex' = Nobody
    /\ call' = [p \in Callers |-> Idle]
    /\ credentials' = file
    /\ codes' = codes + 1 /\ code' = codes + 1
    /\ codeExpires' = clock + CodeTTL
    /\ attempts' = NoAttempts
    /\ unanswered' = unanswered \cup
          {call[p].browser : p \in {q \in Callers : call[q].step \in {"saved", "revoked"}}}
    /\ guesses' = [t \in DOMAIN guesses |-> 0]
    /\ UNCHANGED <<clock, file, issued, redeemed, answered, revoked>>

Pair(p) ==
    \/ \E b \in Browsers, c \in 0..codes : PairBegin(p, b, c)
    \/ PairBlocked(p) \/ PairInvalid(p) \/ PairValid(p)
    \/ PairSave(p) \/ PairSaveFails(p) \/ PairCommit(p)

Revoke(p) ==
    \/ \E b \in Browsers : RevokeBegin(p, b)
    \/ RevokeSave(p) \/ RevokeSaveFails(p) \/ RevokeCommit(p)

Next == (\E p \in Callers : Pair(p) \/ Revoke(p)) \/ CurrentCode \/ Tick \/ CrashAndRestart

Spec == Init /\ [][Next]_vars

-----------------------------------------------------------------------------
(* Properties.                                                             *)

Steps == {"idle", "pairing", "saving", "saved", "revoking", "revoked"}

StoreType ==
    /\ clock \in 1..MaxTime /\ crashes \in 0..MaxCrashes
    /\ mutex \in Callers \cup {Nobody}
    /\ codes \in 1..MaxCodes /\ code \in 1..MaxCodes /\ codeExpires \in Nat
    /\ issued \in 0..MaxCredentials
    /\ credentials \in [Browsers -> 0..MaxCredentials]
    /\ file \in [Browsers -> 0..MaxCredentials]

AttemptsType == attempts \in [count: 0..MaxAttempts, windowStart: Nat, blockedUntil: Nat]

CallType ==
    call \in [Callers -> [step: Steps, browser: Browsers \cup {Nobody}, code: 0..MaxCodes,
                          now: 0..MaxTime, credential: 0..MaxCredentials]]

HistoryType ==
    /\ redeemed \in [1..MaxCodes -> SUBSET (1..MaxCredentials)]
    /\ answered \in [Browsers -> 0..MaxCredentials]
    /\ unanswered \subseteq Browsers
    /\ revoked \subseteq 0..MaxCredentials
    /\ guesses \in [1..MaxTime -> Nat]

PairingTypeOK == StoreType /\ AttemptsType /\ CallType /\ HistoryType

\* A code pairs one browser once: not two that present it together, not one
\* more after a save that failed and was tried again, not across a crash.
OneTimeCode == \A c \in DOMAIN redeemed : \A x, y \in redeemed[c] : x = y

\* Whenever the mutex is free the credentials in use are those in the file: a
\* failed save changes neither, and a crash goes back on neither.
MemoryMatchesFile == mutex = Nobody => credentials = file

\* A credential that a browser received keeps working, through crashes and
\* through changes for other browsers, until a change for that browser is
\* reported, or is saved by a call that died before it could report it.
AnsweredIsDurable ==
    \A b \in Browsers :
        answered[b] # 0 /\ b \notin unanswered => credentials[b] = answered[b]

\* A credential reported revoked never authenticates again, restarts included.
RevokedStaysRevoked ==
    \A b \in Browsers : credentials[b] \notin revoked /\ file[b] \notin revoked

\* Between successes, any window's length of time, wherever it starts, sees at
\* most 2 * MaxAttempts - 2 invalid codes: the limit counts from the first
\* invalid code, so the end of one window and the start of the next can meet.
\* It takes that a call does not wait for the mutex across a tick.
GuessesAreLimited ==
    MaxWait = 0 /\ MaxAttempts > 1 =>
        \A t \in 1..(MaxTime + 1 - AttemptWindow) :
            SumFunctionOnSet(guesses, t..(t + AttemptWindow - 1))
                <= 2 * MaxAttempts - 2
=============================================================================
