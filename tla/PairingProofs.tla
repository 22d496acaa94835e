--------------------------- MODULE PairingProofs ----------------------------
(***************************************************************************)
(* The safety invariants of Pairing, for every number of browsers, callers *)
(* and crashes and every limit.                                            *)
(***************************************************************************)
EXTENDS Pairing, Sums, TLAPS

-----------------------------------------------------------------------------
(* What makes the properties inductive.                                    *)

HolderSteps == {"saving", "saved", "revoking", "revoked"}

\* The mutex is held from the first look at the credentials to the commit.
MutexHeld == \A p \in Callers : call[p].step \in HolderSteps <=> mutex = p

\* What the file owes to the call that holds the mutex.
FileFollows ==
    /\ MemoryMatchesFile
    /\ \A p \in Callers :
        LET b == call[p].browser IN
        /\ call[p].step \in {"saving", "revoking"} => file = credentials
        /\ call[p].step = "saved" => file = [credentials EXCEPT ![b] = call[p].credential]
        /\ call[p].step = "revoked" => file = [credentials EXCEPT ![b] = 0]

\* Credentials are drawn once, so no two browsers share one and a new one was
\* never revoked.
DrawnOnce ==
    /\ \A b \in Browsers : credentials[b] <= issued
    /\ \A b, d \in Browsers : credentials[b] = credentials[d] /\ b # d => credentials[b] = 0
    /\ \A x \in revoked : 0 < x /\ x <= issued
    /\ \A p \in Callers :
        /\ call[p].step \in {"saving", "saved"} =>
              /\ 0 < call[p].credential /\ call[p].credential <= issued
              /\ call[p].credential \notin revoked
              /\ \A b \in Browsers : credentials[b] # call[p].credential
        /\ call[p].step \in {"revoking", "revoked"} => credentials[call[p].browser] # 0

\* The active code is the newest, and unused but for the call that is saving.
CodeUnused ==
    /\ code = codes
    /\ \A c \in 1..MaxCodes :
          redeemed[c] # {} =>
              c < code \/ (c = code /\ \E p \in Callers : call[p].step = "saved")

\* A count that reached the limit comes with a block.
CountBelowLimit == attempts.count < MaxAttempts \/ attempts.blockedUntil # 0

\* A call knows its browser, when it began and what it drew.
CallsStamped ==
    \A p \in Callers : call[p].step # "idle" =>
        /\ call[p].browser \in Browsers
        /\ call[p].step = "pairing" => call[p].now # 0
        /\ call[p].step \in {"saving", "saved"} => call[p].credential # 0

-----------------------------------------------------------------------------
(* Type correctness.                                                       *)

TypeInv == PairingTypeOK /\ CountBelowLimit /\ CallsStamped

\* An invalid code takes the count to the limit at most, and then blocks.
LEMMA RecordedType ==
    ASSUME TypeInv, NEW now \in Nat \ {0}, ~Blocked(now)
    PROVE  /\ Recorded(now) \in [count: 0..MaxAttempts, windowStart: Nat, blockedUntil: Nat]
           /\ Recorded(now).count < MaxAttempts \/ Recorded(now).blockedUntil # 0
<1> USE PairingAssumption
<1>1. /\ AttemptsAt(now) \in [count: 0..MaxAttempts, windowStart: Nat, blockedUntil: Nat]
      /\ AttemptsAt(now).count < MaxAttempts /\ AttemptsAt(now).blockedUntil = 0
  BY DEF TypeInv, PairingTypeOK, AttemptsType, CountBelowLimit, AttemptsAt, NoAttempts, Attempts
<1>2. /\ Window(now) \in [count: 0..MaxAttempts, windowStart: Nat, blockedUntil: Nat]
      /\ Window(now).count < MaxAttempts /\ Window(now).blockedUntil = 0
  BY <1>1 DEF Window, Attempts
<1> QED BY <1>2 DEF Recorded, Attempts

\* The manager's own state.
LEMMA StoreTypeStep ==
    ASSUME StoreType, CallType, CallsStamped, [Next]_vars
    PROVE  StoreType'
<1> USE PairingAssumption DEF StoreType, CallType, CallsStamped, Steps, memory, history
<1>1. ASSUME NEW p \in Callers, NEW b \in Browsers, NEW c \in 0..codes, PairBegin(p, b, c)
      PROVE  StoreType'
  BY <1>1 DEF PairBegin
<1>2. ASSUME NEW p \in Callers, PairBlocked(p)
      PROVE  StoreType'
  BY <1>2 DEF PairBlocked, PairLocked, Expired, Rotated
<1>3. ASSUME NEW p \in Callers, PairInvalid(p)
      PROVE  StoreType'
  BY <1>3 DEF PairInvalid, PairLocked, Expired, Rotated
<1>4. ASSUME NEW p \in Callers, PairValid(p)
      PROVE  StoreType'
  BY <1>4 DEF PairValid, PairLocked, Expired, Rotated
<1>5. ASSUME NEW p \in Callers, PairSave(p)
      PROVE  StoreType'
  BY <1>5 DEF PairSave
<1>6. ASSUME NEW p \in Callers, PairSaveFails(p)
      PROVE  StoreType'
  BY <1>6 DEF PairSaveFails
<1>7. ASSUME NEW p \in Callers, PairCommit(p)
      PROVE  StoreType'
  <2>1. call[p].credential \in 0..MaxCredentials /\ call[p].browser \in Browsers
    BY <1>7 DEF PairCommit
  <2>2. call[p].now + CodeTTL \in Nat
    BY <1>7 DEF PairCommit
  <2>3. credentials' \in [Browsers -> 0..MaxCredentials]
    BY <1>7, <2>1 DEF PairCommit
  <2> QED BY <1>7, <2>2, <2>3 DEF PairCommit
<1>8. ASSUME NEW p \in Callers, NEW b \in Browsers, RevokeBegin(p, b)
      PROVE  StoreType'
  BY <1>8 DEF RevokeBegin
<1>9. ASSUME NEW p \in Callers, RevokeSave(p)
      PROVE  StoreType'
  BY <1>9 DEF RevokeSave
<1>10. ASSUME NEW p \in Callers, RevokeSaveFails(p)
      PROVE  StoreType'
  BY <1>10 DEF RevokeSaveFails
<1>11. ASSUME NEW p \in Callers, RevokeCommit(p)
      PROVE  StoreType'
  BY <1>11 DEF RevokeCommit
<1>12. CASE CurrentCode
  BY <1>12 DEF CurrentCode
<1>13. CASE Tick
  BY <1>13 DEF Tick
<1>14. CASE CrashAndRestart
  BY <1>14 DEF CrashAndRestart
<1>15. CASE UNCHANGED vars
  BY <1>15 DEF vars
<1> QED
  BY <1>1, <1>2, <1>3, <1>4, <1>5, <1>6, <1>7, <1>8,
     <1>9, <1>10, <1>11, <1>12, <1>13, <1>14, <1>15 DEF Next, Pair, Revoke

\* The account of invalid codes.
LEMMA AttemptsTypeStep ==
    ASSUME TypeInv, [Next]_vars
    PROVE  AttemptsType' /\ CountBelowLimit'
<1>a. AttemptsType /\ CountBelowLimit BY DEF TypeInv, PairingTypeOK
<1> USE <1>a, PairingAssumption
     DEF AttemptsType, CountBelowLimit, memory, NoAttempts, Attempts
<1>1. ASSUME NEW p \in Callers, NEW b \in Browsers, NEW c \in 0..codes, PairBegin(p, b, c)
      PROVE  AttemptsType' /\ CountBelowLimit'
  BY <1>1 DEF PairBegin
<1>2. ASSUME NEW p \in Callers, PairBlocked(p)
      PROVE  AttemptsType' /\ CountBelowLimit'
  BY <1>2 DEF PairBlocked, PairLocked, Expired, Rotated
<1>3. ASSUME NEW p \in Callers, PairInvalid(p)
      PROVE  AttemptsType' /\ CountBelowLimit'
  <2>1. call[p].now \in Nat \ {0} /\ ~Blocked(call[p].now)
    BY <1>3 DEF PairInvalid, PairLocked, TypeInv, PairingTypeOK, CallType, CallsStamped
  <2>2. attempts' = Recorded(call[p].now)
    BY <1>3 DEF PairInvalid
  <2> QED BY <2>1, <2>2, RecordedType
<1>4. ASSUME NEW p \in Callers, PairValid(p)
      PROVE  AttemptsType' /\ CountBelowLimit'
  BY <1>4 DEF PairValid, AttemptsAt, TypeInv, PairingTypeOK
<1>5. ASSUME NEW p \in Callers, PairSave(p)
      PROVE  AttemptsType' /\ CountBelowLimit'
  BY <1>5 DEF PairSave
<1>6. ASSUME NEW p \in Callers, PairSaveFails(p)
      PROVE  AttemptsType' /\ CountBelowLimit'
  BY <1>6 DEF PairSaveFails
<1>7. ASSUME NEW p \in Callers, PairCommit(p)
      PROVE  AttemptsType' /\ CountBelowLimit'
  BY <1>7 DEF PairCommit
<1>8. ASSUME NEW p \in Callers, NEW b \in Browsers, RevokeBegin(p, b)
      PROVE  AttemptsType' /\ CountBelowLimit'
  BY <1>8 DEF RevokeBegin
<1>9. ASSUME NEW p \in Callers, RevokeSave(p)
      PROVE  AttemptsType' /\ CountBelowLimit'
  BY <1>9 DEF RevokeSave
<1>10. ASSUME NEW p \in Callers, RevokeSaveFails(p)
      PROVE  AttemptsType' /\ CountBelowLimit'
  BY <1>10 DEF RevokeSaveFails
<1>11. ASSUME NEW p \in Callers, RevokeCommit(p)
      PROVE  AttemptsType' /\ CountBelowLimit'
  BY <1>11 DEF RevokeCommit
<1>12. CASE CurrentCode
  BY <1>12 DEF CurrentCode
<1>13. CASE Tick
  BY <1>13 DEF Tick
<1>14. CASE CrashAndRestart
  BY <1>14 DEF CrashAndRestart
<1>15. CASE UNCHANGED vars
  BY <1>15 DEF vars
<1> QED
  BY <1>1, <1>2, <1>3, <1>4, <1>5, <1>6, <1>7, <1>8,
     <1>9, <1>10, <1>11, <1>12, <1>13, <1>14, <1>15 DEF Next, Pair, Revoke

\* The calls.
LEMMA CallTypeStep ==
    ASSUME StoreType, CallType, CallsStamped, [Next]_vars
    PROVE  CallType' /\ CallsStamped'
<1> USE PairingAssumption
     DEF CallType, CallsStamped, StoreType, Steps, Idle, At, Return, memory, history
<1>1. ASSUME NEW p \in Callers, NEW b \in Browsers, NEW c \in 0..codes, PairBegin(p, b, c)
      PROVE  CallType' /\ CallsStamped'
  BY <1>1 DEF PairBegin
<1>2. ASSUME NEW p \in Callers, PairBlocked(p)
      PROVE  CallType' /\ CallsStamped'
  BY <1>2 DEF PairBlocked, PairLocked, Expired, Rotated
<1>3. ASSUME NEW p \in Callers, PairInvalid(p)
      PROVE  CallType' /\ CallsStamped'
  BY <1>3 DEF PairInvalid, PairLocked, Expired, Rotated
<1>4. ASSUME NEW p \in Callers, PairValid(p)
      PROVE  CallType' /\ CallsStamped'
  BY <1>4 DEF PairValid, PairLocked, Expired, Rotated
<1>5. ASSUME NEW p \in Callers, PairSave(p)
      PROVE  CallType' /\ CallsStamped'
  BY <1>5 DEF PairSave
<1>6. ASSUME NEW p \in Callers, PairSaveFails(p)
      PROVE  CallType' /\ CallsStamped'
  BY <1>6 DEF PairSaveFails
<1>7. ASSUME NEW p \in Callers, PairCommit(p)
      PROVE  CallType' /\ CallsStamped'
  BY <1>7 DEF PairCommit
<1>8. ASSUME NEW p \in Callers, NEW b \in Browsers, RevokeBegin(p, b)
      PROVE  CallType' /\ CallsStamped'
  BY <1>8 DEF RevokeBegin
<1>9. ASSUME NEW p \in Callers, RevokeSave(p)
      PROVE  CallType' /\ CallsStamped'
  BY <1>9 DEF RevokeSave
<1>10. ASSUME NEW p \in Callers, RevokeSaveFails(p)
      PROVE  CallType' /\ CallsStamped'
  BY <1>10 DEF RevokeSaveFails
<1>11. ASSUME NEW p \in Callers, RevokeCommit(p)
      PROVE  CallType' /\ CallsStamped'
  BY <1>11 DEF RevokeCommit
<1>12. CASE CurrentCode
  BY <1>12 DEF CurrentCode
<1>13. CASE Tick
  BY <1>13 DEF Tick
<1>14. CASE CrashAndRestart
  BY <1>14 DEF CrashAndRestart
<1>15. CASE UNCHANGED vars
  BY <1>15 DEF vars
<1> QED
  BY <1>1, <1>2, <1>3, <1>4, <1>5, <1>6, <1>7, <1>8,
     <1>9, <1>10, <1>11, <1>12, <1>13, <1>14, <1>15 DEF Next, Pair, Revoke

\* The history variables.
LEMMA HistoryTypeStep ==
    ASSUME StoreType, CallType, CallsStamped, HistoryType, [Next]_vars
    PROVE  HistoryType'
<1> USE PairingAssumption DEF HistoryType, history
<1>1. ASSUME NEW p \in Callers, NEW b \in Browsers, NEW c \in 0..codes, PairBegin(p, b, c)
      PROVE  HistoryType'
  BY <1>1 DEF PairBegin
<1>2. ASSUME NEW p \in Callers, PairBlocked(p)
      PROVE  HistoryType'
  BY <1>2 DEF PairBlocked, PairLocked, Expired, Rotated
<1>3. ASSUME NEW p \in Callers, PairInvalid(p)
      PROVE  HistoryType'
  <2>1. call[p].now \in 1..MaxTime
    BY <1>3 DEF PairInvalid, PairLocked, CallType, CallsStamped
  <2> QED BY <1>3, <2>1 DEF PairInvalid
<1>4. ASSUME NEW p \in Callers, PairValid(p)
      PROVE  HistoryType'
  BY <1>4 DEF PairValid, PairLocked, Expired, Rotated
<1>5. ASSUME NEW p \in Callers, PairSave(p)
      PROVE  HistoryType'
  <2>1. call[p].credential \in 1..MaxCredentials /\ code \in 1..MaxCodes
    <3>1. call[p].step = "saving" BY <1>5 DEF PairSave
    <3>2. call[p].credential # 0 BY <3>1 DEF CallsStamped
    <3>3. call[p].credential \in 0..MaxCredentials BY DEF CallType
    <3> QED BY <3>2, <3>3 DEF StoreType
  <2> QED BY <1>5, <2>1 DEF PairSave
<1>6. ASSUME NEW p \in Callers, PairSaveFails(p)
      PROVE  HistoryType'
  BY <1>6 DEF PairSaveFails
<1>7. ASSUME NEW p \in Callers, PairCommit(p)
      PROVE  HistoryType'
  <2>1. call[p].credential \in 0..MaxCredentials /\ call[p].browser \in Browsers
    BY <1>7 DEF PairCommit, CallType, CallsStamped
  <2> QED BY <1>7, <2>1 DEF PairCommit
<1>8. ASSUME NEW p \in Callers, NEW b \in Browsers, RevokeBegin(p, b)
      PROVE  HistoryType'
  BY <1>8 DEF RevokeBegin
<1>9. ASSUME NEW p \in Callers, RevokeSave(p)
      PROVE  HistoryType'
  BY <1>9 DEF RevokeSave
<1>10. ASSUME NEW p \in Callers, RevokeSaveFails(p)
      PROVE  HistoryType'
  BY <1>10 DEF RevokeSaveFails
<1>11. ASSUME NEW p \in Callers, RevokeCommit(p)
      PROVE  HistoryType'
  <2>1. /\ call[p].browser \in Browsers /\ credentials[call[p].browser] \in 0..MaxCredentials
        /\ 0 \in 0..MaxCredentials
    BY <1>11 DEF RevokeCommit, CallType, CallsStamped, StoreType
  <2>2. revoked' \subseteq 0..MaxCredentials BY <1>11, <2>1 DEF RevokeCommit
  <2>3. answered' \in [Browsers -> 0..MaxCredentials] BY <1>11, <2>1 DEF RevokeCommit
  <2>4. unanswered' \subseteq Browsers BY <1>11 DEF RevokeCommit
  <2>5. UNCHANGED <<redeemed, guesses>> BY <1>11 DEF RevokeCommit
  <2> QED BY <2>2, <2>3, <2>4, <2>5
<1>12. CASE CurrentCode
  BY <1>12 DEF CurrentCode
<1>13. CASE Tick
  BY <1>13 DEF Tick
<1>14. CASE CrashAndRestart
  <2>1. \A q \in Callers : call[q].step \in {"saved", "revoked"} => call[q].browser \in Browsers
    BY DEF CallsStamped
  <2>2. unanswered' \subseteq Browsers BY <1>14, <2>1 DEF CrashAndRestart
  <2>3. guesses' \in [1..MaxTime -> Nat] BY <1>14 DEF CrashAndRestart
  <2>4. UNCHANGED <<redeemed, answered, revoked>> BY <1>14 DEF CrashAndRestart
  <2> QED BY <2>2, <2>3, <2>4
<1>15. CASE UNCHANGED vars
  BY <1>15 DEF vars
<1> QED
  BY <1>1, <1>2, <1>3, <1>4, <1>5, <1>6, <1>7, <1>8,
     <1>9, <1>10, <1>11, <1>12, <1>13, <1>14, <1>15 DEF Next, Pair, Revoke

-----------------------------------------------------------------------------
(* Safety.                                                                 *)

\* One call at most is past the lock, and none while the mutex is free.
LEMMA OneHolder ==
    ASSUME MutexHeld, NEW p \in Callers, NEW q \in Callers,
           call[p].step \in HolderSteps
    PROVE  /\ mutex = p /\ mutex # Nobody
           /\ call[q].step \in HolderSteps => q = p
BY PairingAssumption DEF MutexHeld, HolderSteps

LEMMA NoHolder ==
    ASSUME MutexHeld, mutex = Nobody, NEW p \in Callers
    PROVE  call[p].step \notin HolderSteps
BY PairingAssumption DEF MutexHeld, HolderSteps

\* The mutex is held exactly from the look at the credentials to the return.
LEMMA MutexHeldStep ==
    ASSUME CallType, MutexHeld,
           [Next]_vars
    PROVE  MutexHeld'
<1> USE PairingAssumption DEF CallType, MutexHeld, HolderSteps, Idle, At, Return
<1>1. ASSUME NEW p \in Callers, NEW b \in Browsers, NEW c \in 0..codes, PairBegin(p, b, c)
      PROVE  MutexHeld'
  BY <1>1 DEF PairBegin
<1>2. ASSUME NEW p \in Callers, PairBlocked(p)
      PROVE  MutexHeld'
  BY <1>2 DEF PairBlocked, PairLocked
<1>3. ASSUME NEW p \in Callers, PairInvalid(p)
      PROVE  MutexHeld'
  BY <1>3 DEF PairInvalid, PairLocked
<1>4. ASSUME NEW p \in Callers, PairValid(p)
      PROVE  MutexHeld'
  BY <1>4 DEF PairValid, PairLocked
<1>5. ASSUME NEW p \in Callers, PairSave(p)
      PROVE  MutexHeld'
  BY <1>5 DEF PairSave
<1>6. ASSUME NEW p \in Callers, PairSaveFails(p)
      PROVE  MutexHeld'
  BY <1>6 DEF PairSaveFails
<1>7. ASSUME NEW p \in Callers, PairCommit(p)
      PROVE  MutexHeld'
  BY <1>7 DEF PairCommit
<1>8. ASSUME NEW p \in Callers, NEW b \in Browsers, RevokeBegin(p, b)
      PROVE  MutexHeld'
  BY <1>8 DEF RevokeBegin
<1>9. ASSUME NEW p \in Callers, RevokeSave(p)
      PROVE  MutexHeld'
  BY <1>9 DEF RevokeSave
<1>10. ASSUME NEW p \in Callers, RevokeSaveFails(p)
      PROVE  MutexHeld'
  BY <1>10 DEF RevokeSaveFails
<1>11. ASSUME NEW p \in Callers, RevokeCommit(p)
      PROVE  MutexHeld'
  BY <1>11 DEF RevokeCommit
<1>12. CASE CurrentCode
  BY <1>12 DEF CurrentCode
<1>13. CASE Tick
  BY <1>13 DEF Tick
<1>14. CASE CrashAndRestart
  BY <1>14 DEF CrashAndRestart
<1>15. CASE UNCHANGED vars
  BY <1>15 DEF vars
<1> QED
  BY <1>1, <1>2, <1>3, <1>4, <1>5, <1>6, <1>7, <1>8,
     <1>9, <1>10, <1>11, <1>12, <1>13, <1>14, <1>15 DEF Next, Pair, Revoke

\* The file stays one step ahead of the credentials in use, for the holder only.
LEMMA FileFollowsStep ==
    ASSUME StoreType, CallType, CallsStamped, MutexHeld, FileFollows,
           [Next]_vars
    PROVE  FileFollows'
<1> USE PairingAssumption, NoHolder, OneHolder
     DEF CallType, HolderSteps, FileFollows, MemoryMatchesFile,
     Idle, At, Return, memory
<1>1. ASSUME NEW p \in Callers, NEW b \in Browsers, NEW c \in 0..codes, PairBegin(p, b, c)
      PROVE  FileFollows'
  BY <1>1 DEF PairBegin
<1>2. ASSUME NEW p \in Callers, PairBlocked(p)
      PROVE  FileFollows'
  BY <1>2 DEF PairBlocked, PairLocked
<1>3. ASSUME NEW p \in Callers, PairInvalid(p)
      PROVE  FileFollows'
  BY <1>3 DEF PairInvalid, PairLocked
<1>4. ASSUME NEW p \in Callers, PairValid(p)
      PROVE  FileFollows'
  BY <1>4 DEF PairValid, PairLocked
<1>5. ASSUME NEW p \in Callers, PairSave(p)
      PROVE  FileFollows'
  BY <1>5 DEF PairSave
<1>6. ASSUME NEW p \in Callers, PairSaveFails(p)
      PROVE  FileFollows'
  BY <1>6 DEF PairSaveFails
<1>7. ASSUME NEW p \in Callers, PairCommit(p)
      PROVE  FileFollows'
  BY <1>7 DEF PairCommit
<1>8. ASSUME NEW p \in Callers, NEW b \in Browsers, RevokeBegin(p, b)
      PROVE  FileFollows'
  BY <1>8 DEF RevokeBegin
<1>9. ASSUME NEW p \in Callers, RevokeSave(p)
      PROVE  FileFollows'
  BY <1>9 DEF RevokeSave
<1>10. ASSUME NEW p \in Callers, RevokeSaveFails(p)
      PROVE  FileFollows'
  BY <1>10 DEF RevokeSaveFails
<1>11. ASSUME NEW p \in Callers, RevokeCommit(p)
      PROVE  FileFollows'
  BY <1>11 DEF RevokeCommit
<1>12. CASE CurrentCode
  BY <1>12 DEF CurrentCode
<1>13. CASE Tick
  BY <1>13 DEF Tick
<1>14. CASE CrashAndRestart
  BY <1>14 DEF CrashAndRestart
<1>15. CASE UNCHANGED vars
  BY <1>15 DEF vars
<1> QED
  BY <1>1, <1>2, <1>3, <1>4, <1>5, <1>6, <1>7, <1>8,
     <1>9, <1>10, <1>11, <1>12, <1>13, <1>14, <1>15 DEF Next, Pair, Revoke

\* A new code is newer than every code that was redeemed.
LEMMA CodeUnusedStep ==
    ASSUME StoreType, CallType, HistoryType, MutexHeld, CodeUnused,
           [Next]_vars
    PROVE  CodeUnused'
<1> USE PairingAssumption, NoHolder, OneHolder
     DEF StoreType, CallType, HolderSteps, CodeUnused, HistoryType,
     Idle, At, Return, memory, history
<1>1. ASSUME NEW p \in Callers, NEW b \in Browsers, NEW c \in 0..codes, PairBegin(p, b, c)
      PROVE  CodeUnused'
  BY <1>1 DEF PairBegin
<1>2. ASSUME NEW p \in Callers, PairBlocked(p)
      PROVE  CodeUnused'
  BY <1>2 DEF PairBlocked, PairLocked, Rotated, Expired
<1>3. ASSUME NEW p \in Callers, PairInvalid(p)
      PROVE  CodeUnused'
  BY <1>3 DEF PairInvalid, PairLocked, Rotated, Expired
<1>4. ASSUME NEW p \in Callers, PairValid(p)
      PROVE  CodeUnused'
  BY <1>4 DEF PairValid, PairLocked, Rotated, Expired
<1>5. ASSUME NEW p \in Callers, PairSave(p)
      PROVE  CodeUnused'
  BY <1>5 DEF PairSave
<1>6. ASSUME NEW p \in Callers, PairSaveFails(p)
      PROVE  CodeUnused'
  BY <1>6 DEF PairSaveFails
<1>7. ASSUME NEW p \in Callers, PairCommit(p)
      PROVE  CodeUnused'
  BY <1>7 DEF PairCommit
<1>8. ASSUME NEW p \in Callers, NEW b \in Browsers, RevokeBegin(p, b)
      PROVE  CodeUnused'
  BY <1>8 DEF RevokeBegin
<1>9. ASSUME NEW p \in Callers, RevokeSave(p)
      PROVE  CodeUnused'
  BY <1>9 DEF RevokeSave
<1>10. ASSUME NEW p \in Callers, RevokeSaveFails(p)
      PROVE  CodeUnused'
  BY <1>10 DEF RevokeSaveFails
<1>11. ASSUME NEW p \in Callers, RevokeCommit(p)
      PROVE  CodeUnused'
  BY <1>11 DEF RevokeCommit
<1>12. CASE CurrentCode
  BY <1>12 DEF CurrentCode
<1>13. CASE Tick
  BY <1>13 DEF Tick
<1>14. CASE CrashAndRestart
  <2>1. \A c \in 1..MaxCodes : redeemed[c] # {} => c <= code
    OBVIOUS
  <2>2. redeemed' = redeemed /\ code' = codes + 1 /\ codes' = codes + 1
    BY <1>14 DEF CrashAndRestart
  <2> QED BY <2>1, <2>2
<1>15. CASE UNCHANGED vars
  BY <1>15 DEF vars
<1> QED
  BY <1>1, <1>2, <1>3, <1>4, <1>5, <1>6, <1>7, <1>8,
     <1>9, <1>10, <1>11, <1>12, <1>13, <1>14, <1>15 DEF Next, Pair, Revoke

\* A redeemed code has no second credential.
LEMMA OneTimeCodeStep ==
    ASSUME StoreType, HistoryType, MutexHeld, CodeUnused, OneTimeCode,
           [Next]_vars
    PROVE  OneTimeCode'
<1> USE DEF OneTimeCode, history
<1>1. ASSUME NEW p \in Callers, NEW b \in Browsers, NEW c \in 0..codes, PairBegin(p, b, c)
      PROVE  OneTimeCode'
  BY <1>1 DEF PairBegin
<1>2. ASSUME NEW p \in Callers, PairBlocked(p)
      PROVE  OneTimeCode'
  BY <1>2 DEF PairBlocked, PairLocked
<1>3. ASSUME NEW p \in Callers, PairInvalid(p)
      PROVE  OneTimeCode'
  BY <1>3 DEF PairInvalid, PairLocked
<1>4. ASSUME NEW p \in Callers, PairValid(p)
      PROVE  OneTimeCode'
  BY <1>4 DEF PairValid, PairLocked
<1>5. ASSUME NEW p \in Callers, PairSave(p)
      PROVE  OneTimeCode'
  <2>1. redeemed[code] = {}
    BY <1>5, OneHolder DEF PairSave, CodeUnused, HolderSteps, StoreType
  <2>2. /\ DOMAIN redeemed' = DOMAIN redeemed
        /\ \A c \in DOMAIN redeemed :
              redeemed'[c] = IF c = code THEN {call[p].credential} ELSE redeemed[c]
    BY <1>5, <2>1 DEF PairSave, HistoryType
  <2> QED BY <2>2
<1>6. ASSUME NEW p \in Callers, PairSaveFails(p)
      PROVE  OneTimeCode'
  BY <1>6 DEF PairSaveFails
<1>7. ASSUME NEW p \in Callers, PairCommit(p)
      PROVE  OneTimeCode'
  BY <1>7 DEF PairCommit
<1>8. ASSUME NEW p \in Callers, NEW b \in Browsers, RevokeBegin(p, b)
      PROVE  OneTimeCode'
  BY <1>8 DEF RevokeBegin
<1>9. ASSUME NEW p \in Callers, RevokeSave(p)
      PROVE  OneTimeCode'
  BY <1>9 DEF RevokeSave
<1>10. ASSUME NEW p \in Callers, RevokeSaveFails(p)
      PROVE  OneTimeCode'
  BY <1>10 DEF RevokeSaveFails
<1>11. ASSUME NEW p \in Callers, RevokeCommit(p)
      PROVE  OneTimeCode'
  BY <1>11 DEF RevokeCommit
<1>12. CASE CurrentCode
  BY <1>12 DEF CurrentCode
<1>13. CASE Tick
  BY <1>13 DEF Tick
<1>14. CASE CrashAndRestart
  BY <1>14 DEF CrashAndRestart
<1>15. CASE UNCHANGED vars
  BY <1>15 DEF vars
<1> QED
  BY <1>1, <1>2, <1>3, <1>4, <1>5, <1>6, <1>7, <1>8,
     <1>9, <1>10, <1>11, <1>12, <1>13, <1>14, <1>15 DEF Next, Pair, Revoke

\* A credential is drawn once.
LEMMA DrawnOnceStep ==
    ASSUME StoreType, CallType, CallsStamped,
           HistoryType, MutexHeld, FileFollows, DrawnOnce,
           [Next]_vars
    PROVE  DrawnOnce'
<1> USE PairingAssumption, NoHolder, OneHolder
     DEF StoreType, CallType, CallsStamped, HolderSteps, DrawnOnce,
     Idle, At, Return, memory, history
<1>1. ASSUME NEW p \in Callers, NEW b \in Browsers, NEW c \in 0..codes, PairBegin(p, b, c)
      PROVE  DrawnOnce'
  BY <1>1 DEF PairBegin
<1>2. ASSUME NEW p \in Callers, PairBlocked(p)
      PROVE  DrawnOnce'
  BY <1>2 DEF PairBlocked, PairLocked
<1>3. ASSUME NEW p \in Callers, PairInvalid(p)
      PROVE  DrawnOnce'
  BY <1>3 DEF PairInvalid, PairLocked
<1>4. ASSUME NEW p \in Callers, PairValid(p)
      PROVE  DrawnOnce'
  <2>1. \A q \in Callers : call[q].step \notin HolderSteps
    BY <1>4 DEF PairValid, PairLocked
  <2>2. /\ UNCHANGED <<credentials, revoked>> /\ issued' = issued + 1
        /\ call'[p].step = "saving" /\ call'[p].credential = issued + 1
        /\ \A q \in Callers : q # p => call'[q] = call[q]
    BY <1>4 DEF PairValid, PairLocked
  <2>3. \A x \in revoked : x <= issued /\ x \in Nat
    BY DEF HistoryType
  <2> QED BY <2>1, <2>2, <2>3
<1>5. ASSUME NEW p \in Callers, PairSave(p)
      PROVE  DrawnOnce'
  BY <1>5 DEF PairSave
<1>6. ASSUME NEW p \in Callers, PairSaveFails(p)
      PROVE  DrawnOnce'
  BY <1>6 DEF PairSaveFails
<1>7. ASSUME NEW p \in Callers, PairCommit(p)
      PROVE  DrawnOnce'
  BY <1>7 DEF PairCommit
<1>8. ASSUME NEW p \in Callers, NEW b \in Browsers, RevokeBegin(p, b)
      PROVE  DrawnOnce'
  BY <1>8 DEF RevokeBegin
<1>9. ASSUME NEW p \in Callers, RevokeSave(p)
      PROVE  DrawnOnce'
  BY <1>9 DEF RevokeSave
<1>10. ASSUME NEW p \in Callers, RevokeSaveFails(p)
      PROVE  DrawnOnce'
  BY <1>10 DEF RevokeSaveFails
<1>11. ASSUME NEW p \in Callers, RevokeCommit(p)
      PROVE  DrawnOnce'
  BY <1>11 DEF RevokeCommit
<1>12. CASE CurrentCode
  BY <1>12 DEF CurrentCode
<1>13. CASE Tick
  BY <1>13 DEF Tick
<1>14. CASE CrashAndRestart
  <2>1. CASE mutex = Nobody
    BY <1>14, <2>1 DEF CrashAndRestart, FileFollows, MemoryMatchesFile
  <2>2. ASSUME NEW p \in Callers, call[p].step \in {"saving", "revoking"}
        PROVE  DrawnOnce'
    BY <1>14, <2>2 DEF CrashAndRestart, FileFollows
  <2>3. ASSUME NEW p \in Callers, call[p].step = "saved"
        PROVE  DrawnOnce'
    BY <1>14, <2>3 DEF CrashAndRestart, FileFollows
  <2>4. ASSUME NEW p \in Callers, call[p].step = "revoked"
        PROVE  DrawnOnce'
    BY <1>14, <2>4 DEF CrashAndRestart, FileFollows
  <2>5. mutex \in Callers => call[mutex].step \in HolderSteps
    BY DEF MutexHeld, HolderSteps
  <2> QED BY <2>1, <2>2, <2>3, <2>4, <2>5 DEF HolderSteps, StoreType
<1>15. CASE UNCHANGED vars
  BY <1>15 DEF vars
<1> QED
  BY <1>1, <1>2, <1>3, <1>4, <1>5, <1>6, <1>7, <1>8,
     <1>9, <1>10, <1>11, <1>12, <1>13, <1>14, <1>15 DEF Next, Pair, Revoke

\* A revoked credential is in neither the store nor the file.
LEMMA RevokedStep ==
    ASSUME StoreType, CallType, CallsStamped,
           MutexHeld, FileFollows, DrawnOnce, RevokedStaysRevoked,
           [Next]_vars
    PROVE  RevokedStaysRevoked'
<1> USE OneHolder
     DEF StoreType, CallType, CallsStamped, HolderSteps, RevokedStaysRevoked, DrawnOnce,
     memory, history
<1>1. ASSUME NEW p \in Callers, NEW b \in Browsers, NEW c \in 0..codes, PairBegin(p, b, c)
      PROVE  RevokedStaysRevoked'
  BY <1>1 DEF PairBegin
<1>2. ASSUME NEW p \in Callers, PairBlocked(p)
      PROVE  RevokedStaysRevoked'
  BY <1>2 DEF PairBlocked, PairLocked
<1>3. ASSUME NEW p \in Callers, PairInvalid(p)
      PROVE  RevokedStaysRevoked'
  BY <1>3 DEF PairInvalid, PairLocked
<1>4. ASSUME NEW p \in Callers, PairValid(p)
      PROVE  RevokedStaysRevoked'
  BY <1>4 DEF PairValid, PairLocked
<1>5. ASSUME NEW p \in Callers, PairSave(p)
      PROVE  RevokedStaysRevoked'
  BY <1>5 DEF PairSave
<1>6. ASSUME NEW p \in Callers, PairSaveFails(p)
      PROVE  RevokedStaysRevoked'
  BY <1>6 DEF PairSaveFails
<1>7. ASSUME NEW p \in Callers, PairCommit(p)
      PROVE  RevokedStaysRevoked'
  BY <1>7 DEF PairCommit
<1>8. ASSUME NEW p \in Callers, NEW b \in Browsers, RevokeBegin(p, b)
      PROVE  RevokedStaysRevoked'
  BY <1>8 DEF RevokeBegin
<1>9. ASSUME NEW p \in Callers, RevokeSave(p)
      PROVE  RevokedStaysRevoked'
  BY <1>9 DEF RevokeSave
<1>10. ASSUME NEW p \in Callers, RevokeSaveFails(p)
      PROVE  RevokedStaysRevoked'
  BY <1>10 DEF RevokeSaveFails
<1>11. ASSUME NEW p \in Callers, RevokeCommit(p)
      PROVE  RevokedStaysRevoked'
  BY <1>11 DEF RevokeCommit, FileFollows
<1>12. CASE CurrentCode
  BY <1>12 DEF CurrentCode
<1>13. CASE Tick
  BY <1>13 DEF Tick
<1>14. CASE CrashAndRestart
  BY <1>14 DEF CrashAndRestart
<1>15. CASE UNCHANGED vars
  BY <1>15 DEF vars
<1> QED
  BY <1>1, <1>2, <1>3, <1>4, <1>5, <1>6, <1>7, <1>8,
     <1>9, <1>10, <1>11, <1>12, <1>13, <1>14, <1>15 DEF Next, Pair, Revoke

\* A credential that was received is in the store.
LEMMA AnsweredStep ==
    ASSUME StoreType, CallType, CallsStamped,
           HistoryType, MutexHeld, FileFollows, AnsweredIsDurable,
           [Next]_vars
    PROVE  AnsweredIsDurable'
<1> USE DEF StoreType, HistoryType, CallsStamped, AnsweredIsDurable,
     memory, history
<1>1. ASSUME NEW p \in Callers, NEW b \in Browsers, NEW c \in 0..codes, PairBegin(p, b, c)
      PROVE  AnsweredIsDurable'
  BY <1>1 DEF PairBegin
<1>2. ASSUME NEW p \in Callers, PairBlocked(p)
      PROVE  AnsweredIsDurable'
  BY <1>2 DEF PairBlocked, PairLocked
<1>3. ASSUME NEW p \in Callers, PairInvalid(p)
      PROVE  AnsweredIsDurable'
  BY <1>3 DEF PairInvalid, PairLocked
<1>4. ASSUME NEW p \in Callers, PairValid(p)
      PROVE  AnsweredIsDurable'
  BY <1>4 DEF PairValid, PairLocked
<1>5. ASSUME NEW p \in Callers, PairSave(p)
      PROVE  AnsweredIsDurable'
  BY <1>5 DEF PairSave
<1>6. ASSUME NEW p \in Callers, PairSaveFails(p)
      PROVE  AnsweredIsDurable'
  BY <1>6 DEF PairSaveFails
<1>7. ASSUME NEW p \in Callers, PairCommit(p)
      PROVE  AnsweredIsDurable'
  BY <1>7 DEF PairCommit
<1>8. ASSUME NEW p \in Callers, NEW b \in Browsers, RevokeBegin(p, b)
      PROVE  AnsweredIsDurable'
  BY <1>8 DEF RevokeBegin
<1>9. ASSUME NEW p \in Callers, RevokeSave(p)
      PROVE  AnsweredIsDurable'
  BY <1>9 DEF RevokeSave
<1>10. ASSUME NEW p \in Callers, RevokeSaveFails(p)
      PROVE  AnsweredIsDurable'
  BY <1>10 DEF RevokeSaveFails
<1>11. ASSUME NEW p \in Callers, RevokeCommit(p)
      PROVE  AnsweredIsDurable'
  BY <1>11 DEF RevokeCommit
<1>12. CASE CurrentCode
  BY <1>12 DEF CurrentCode
<1>13. CASE Tick
  BY <1>13 DEF Tick
<1>14. CASE CrashAndRestart
  <2>1. CASE mutex = Nobody
    BY <1>14, <2>1 DEF CrashAndRestart, FileFollows, MemoryMatchesFile
  <2>2. ASSUME NEW p \in Callers, call[p].step \in {"saving", "revoking"}
        PROVE  AnsweredIsDurable'
    BY <1>14, <2>2 DEF CrashAndRestart, FileFollows
  <2>3. ASSUME NEW p \in Callers, call[p].step = "saved"
        PROVE  AnsweredIsDurable'
    BY <1>14, <2>3 DEF CrashAndRestart, FileFollows
  <2>4. ASSUME NEW p \in Callers, call[p].step = "revoked"
        PROVE  AnsweredIsDurable'
    BY <1>14, <2>4 DEF CrashAndRestart, FileFollows
  <2>5. mutex \in Callers => call[mutex].step \in HolderSteps
    BY DEF MutexHeld, HolderSteps
  <2> QED BY <2>1, <2>2, <2>3, <2>4, <2>5 DEF HolderSteps, StoreType
<1>15. CASE UNCHANGED vars
  BY <1>15 DEF vars
<1> QED
  BY <1>1, <1>2, <1>3, <1>4, <1>5, <1>6, <1>7, <1>8,
     <1>9, <1>10, <1>11, <1>12, <1>13, <1>14, <1>15 DEF Next, Pair, Revoke

-----------------------------------------------------------------------------
(* The limit on invalid codes.                                             *)

Times == 1..MaxTime
Between(from, to) == {t \in Times : from <= t /\ t <= to}
GuessesIn(from, to) == SumFunctionOnSet(guesses, Between(from, to))

\* Without waits for the mutex a call looks at the code at the time it began.
Prompt == \A p \in Callers : call[p].step = "pairing" => call[p].now = clock

\* Nobody guesses in the future.
NoneAhead == \A t \in Times : t > clock => guesses[t] = 0

\* No window is open: the last invalid code is at least a window's length ago.
Fresh ==
    attempts.windowStart = 0 =>
        /\ attempts.count = 0 /\ attempts.blockedUntil = 0
        /\ \A t \in Times : t + AttemptWindow > clock => guesses[t] = 0

\* The window began with an invalid code and counts all those since.  Of the
\* window before, fewer than MaxAttempts were counted, and the first of them
\* lies out of reach of any interval that meets this window.
Open ==
    LET start == attempts.windowStart IN
    start # 0 =>
        /\ start <= clock /\ guesses[start] >= 1
        /\ GuessesIn(start, MaxTime) = attempts.count
        /\ \A t \in Times : t >= start + AttemptWindow => guesses[t] = 0
        /\ GuessesIn(start + 1 - AttemptWindow, start - 1) <= MaxAttempts - 2

\* A block keeps codes from being looked at for a window's length.
BlockHolds ==
    attempts.blockedUntil # 0 =>
        /\ attempts.windowStart # 0
        /\ \A t \in Times : t + AttemptWindow > attempts.blockedUntil => guesses[t] = 0

Interval(t) == GuessesIn(t, t + AttemptWindow - 1)
Limited == \A t \in Times : Interval(t) <= 2 * MaxAttempts - 2

Windows == NoneAhead /\ Fresh /\ Open /\ BlockHolds /\ Limited

\* The history's own type, and that of the account.
LEMMA GuessTypes ==
    ASSUME TypeInv
    PROVE  /\ guesses \in [Times -> Nat] /\ clock \in Times
           /\ attempts.count \in Nat /\ attempts.windowStart \in Nat
           /\ attempts.blockedUntil \in Nat /\ attempts.count <= MaxAttempts
           /\ attempts.blockedUntil = 0 => attempts.count < MaxAttempts
           /\ MaxTime \in Nat /\ AttemptWindow \in Nat \ {0} /\ MaxAttempts \in Nat \ {0}
BY PairingAssumption
   DEF TypeInv, PairingTypeOK, StoreType, AttemptsType, HistoryType, CountBelowLimit, Times

LEMMA BetweenFinite ==
    ASSUME NEW from \in Int, NEW to \in Int
    PROVE  Between(from, to) \in SUBSET Times /\ IsFiniteSet(Between(from, to))
<1>1. IsFiniteSet(Times)
  BY PairingAssumption, FS_Interval DEF Times
<1>2. Between(from, to) \in SUBSET Times
  BY DEF Between
<1> QED
  BY <1>1, <1>2, FS_Subset

\* What one more invalid code at a time does to the number of them in an interval.
LEMMA OneMoreGuess ==
    ASSUME NEW g \in [Times -> Nat], NEW h \in [Times -> Nat], NEW now \in Times,
           h[now] = g[now] + 1, \A t \in Times : t # now => h[t] = g[t]
    PROVE  \A from, to \in Int :
             LET before == SumFunctionOnSet(g, Between(from, to))
                 after  == SumFunctionOnSet(h, Between(from, to))
             IN  /\ before \in Nat /\ after \in Nat
                 /\ from <= now /\ now <= to => after = before + 1
                 /\ ~(from <= now /\ now <= to) => after = before
<1> TAKE from, to \in Int
<1> DEFINE S == Between(from, to)
<1>1. S \in SUBSET Times /\ IsFiniteSet(S)
  BY BetweenFinite
<1>2. now \in S <=> from <= now /\ now <= to
  BY DEF Between
<1> HIDE DEF S
<1>3. \A i \in S : g[i] \in Nat /\ h[i] \in Nat
  BY <1>1
<1>4. SumFunctionOnSet(g, S) \in Nat /\ SumFunctionOnSet(h, S) \in Nat
  BY <1>1, <1>3, SumType
<1>5. /\ now \in S => SumFunctionOnSet(h, S) = SumFunctionOnSet(g, S) + 1
      /\ now \notin S => SumFunctionOnSet(h, S) = SumFunctionOnSet(g, S)
  BY <1>1, SumIncrement
<1> QED
  BY <1>2, <1>4, <1>5 DEF S

\* An interval that meets a window is covered by the window and the time before it
\* that such an interval can reach.
LEMMA CoveredByWindows ==
    ASSUME NEW g \in [Times -> Nat], NEW start \in Times, NEW t \in Times,
           t + AttemptWindow - 1 >= start
    PROVE  SumFunctionOnSet(g, Between(t, t + AttemptWindow - 1)) <=
             SumFunctionOnSet(g, Between(start + 1 - AttemptWindow, start - 1)) +
             SumFunctionOnSet(g, Between(start, MaxTime))
<1> DEFINE S == Between(start + 1 - AttemptWindow, start - 1)
           T == Between(start, MaxTime)
           U == Between(t, t + AttemptWindow - 1)
<1>0. AttemptWindow \in Int /\ MaxTime \in Int /\ start \in Int /\ t \in Int
  BY PairingAssumption DEF Times
<1>1. /\ S \in SUBSET Times /\ IsFiniteSet(S) /\ T \in SUBSET Times /\ IsFiniteSet(T)
      /\ U \in SUBSET Times
  BY <1>0, BetweenFinite
<1>2. S \cap T = {}
  BY <1>0 DEF Between, Times
<1>3. U \in SUBSET (S \cup T)
  BY <1>0 DEF Between, Times
<1> HIDE DEF S, T, U
<1>4. IsFiniteSet(S \cup T) /\ \A i \in S \cup T : g[i] \in Nat
  BY <1>1, FS_Union
<1>5. SumFunctionOnSet(g, S \cup T) = SumFunctionOnSet(g, S) + SumFunctionOnSet(g, T)
  BY <1>1, <1>2, <1>4, SumSplit
<1>6. SumFunctionOnSet(g, U) <= SumFunctionOnSet(g, S \cup T)
  BY <1>3, <1>4, SumMonotone
<1> QED
  BY <1>5, <1>6 DEF S, T, U

\* Time passes, or nothing of the account changes.
LEMMA WindowsAge ==
    ASSUME TypeInv, Windows, guesses' = guesses, attempts' = attempts,
           clock' \in Times, clock <= clock'
    PROVE  Windows'
<1> USE GuessTypes DEF Times
<1>1. NoneAhead'
  BY DEF Windows, NoneAhead
<1>2. Fresh'
  BY DEF Windows, Fresh
<1>3. Open'
  BY DEF Windows, Open, GuessesIn
<1>4. BlockHolds'
  BY DEF Windows, BlockHolds
<1>5. Limited'
  BY DEF Windows, Limited, Interval, GuessesIn
<1> QED
  BY <1>1, <1>2, <1>3, <1>4, <1>5 DEF Windows

\* A success or a restart forgets the account with all invalid codes.
LEMMA WindowsReset ==
    ASSUME attempts' = NoAttempts, guesses' = [t \in Times |-> 0], MaxAttempts > 1
    PROVE  Windows'
<1> USE PairingAssumption
<1>1. \A t \in Times : guesses'[t] = 0
  OBVIOUS
<1>2. attempts'.count = 0 /\ attempts'.windowStart = 0 /\ attempts'.blockedUntil = 0
  BY DEF NoAttempts, Attempts
<1>3. \A t \in Times : SumFunctionOnSet(guesses', Between(t, t + AttemptWindow - 1)) = 0
  <2> TAKE t \in Times
  <2>1. t \in Int /\ t + AttemptWindow - 1 \in Int
    BY DEF Times
  <2>2. /\ Between(t, t + AttemptWindow - 1) \in SUBSET Times
        /\ IsFiniteSet(Between(t, t + AttemptWindow - 1))
    BY <2>1, BetweenFinite
  <2> QED
    BY <1>1, <2>2, SumZero
<1>4. NoneAhead' /\ Fresh' /\ Open' /\ BlockHolds'
  BY <1>1, <1>2 DEF NoneAhead, Fresh, Open, BlockHolds
<1>5. Limited'
  BY <1>3 DEF Limited, Interval, GuessesIn
<1> QED
  BY <1>4, <1>5 DEF Windows

\* A block that is over was earned at least a window's length ago.
LEMMA AccountAt ==
    ASSUME TypeInv, Windows, ~Blocked(clock), attempts' = AttemptsAt(clock),
           guesses' = guesses, clock' = clock
    PROVE  Windows'
<1> USE GuessTypes DEF Times
<1>1. CASE attempts.blockedUntil = 0
  <2>1. attempts' = attempts
    BY <1>1 DEF AttemptsAt
  <2> QED
    BY <2>1, WindowsAge
<1>2. CASE attempts.blockedUntil # 0
  <2>1. attempts' = NoAttempts /\ clock >= attempts.blockedUntil
    BY <1>2 DEF AttemptsAt, Blocked
  <2>2. attempts'.count = 0 /\ attempts'.windowStart = 0 /\ attempts'.blockedUntil = 0
    BY <2>1 DEF NoAttempts, Attempts
  <2>3. \A t \in Times : t + AttemptWindow > clock => guesses[t] = 0
    BY <1>2, <2>1 DEF Windows, BlockHolds
  <2>4. NoneAhead' /\ Fresh' /\ Open' /\ BlockHolds'
    BY <2>2, <2>3 DEF Windows, NoneAhead, Fresh, Open, BlockHolds
  <2>5. Limited'
    BY DEF Windows, Limited, Interval, GuessesIn
  <2> QED
    BY <2>4, <2>5 DEF Windows
<1> QED
  BY <1>1, <1>2

\* An invalid code is counted in a window that began now, or that is still open.
LEMMA GuessCounted ==
    ASSUME TypeInv, Windows, MaxAttempts > 1, NEW start \in Times, NEW n \in Nat,
           start <= clock, clock < start + AttemptWindow, n < MaxAttempts,
           start = clock \/ guesses[start] >= 1,
           GuessesIn(start, MaxTime) = n,
           \A t \in Times : t >= start + AttemptWindow => guesses[t] = 0,
           GuessesIn(start + 1 - AttemptWindow, start - 1) <= MaxAttempts - 2,
           attempts' = Attempts(n + 1, start, IF n + 1 < MaxAttempts THEN 0 ELSE clock + AttemptWindow),
           guesses' = [guesses EXCEPT ![clock] = @ + 1], clock' = clock
    PROVE  Windows'
<1> DEFINE g == guesses
           h == guesses'
           W == AttemptWindow
           Sum(f, from, to) == SumFunctionOnSet(f, Between(from, to))
<1>1. /\ g \in [Times -> Nat] /\ clock \in Times
      /\ MaxTime \in Nat /\ W \in Nat \ {0} /\ MaxAttempts \in Nat \ {0}
  BY GuessTypes
<1>2. h[clock] = g[clock] + 1 /\ h \in [Times -> Nat] /\ \A t \in Times : t # clock => h[t] = g[t]
  BY <1>1
<1>3. /\ attempts'.count = n + 1 /\ attempts'.windowStart = start
      /\ attempts'.blockedUntil = IF n + 1 < MaxAttempts THEN 0 ELSE clock + W
  BY DEF Attempts
<1>4. /\ start \in Nat /\ start # 0 /\ start <= MaxTime /\ clock \in Nat /\ clock <= MaxTime
  BY <1>1 DEF Times
<1>5. \A from, to \in Int :
        /\ Sum(g, from, to) \in Nat /\ Sum(h, from, to) \in Nat
        /\ from <= clock /\ clock <= to => Sum(h, from, to) = Sum(g, from, to) + 1
        /\ ~(from <= clock /\ clock <= to) => Sum(h, from, to) = Sum(g, from, to)
  <2> HIDE DEF g, h
  <2> QED
    BY <1>1, <1>2, OneMoreGuess
<1>6. Sum(g, start, MaxTime) = n /\ Sum(g, start + 1 - W, start - 1) <= MaxAttempts - 2
  BY DEF GuessesIn
<1> HIDE DEF g, h, W, Sum
<1>7. Sum(h, start, MaxTime) = n + 1
  BY <1>1, <1>4, <1>5, <1>6
<1>8. Sum(h, start + 1 - W, start - 1) <= MaxAttempts - 2
  <2>1. start + 1 - W \in Int /\ start - 1 \in Int /\ ~(clock <= start - 1)
    BY <1>1, <1>4
  <2> QED
    BY <2>1, <1>5, <1>6
<1>9. NoneAhead'
  BY <1>1, <1>2, <1>4 DEF Windows, NoneAhead, g, h, Times
<1>10. Fresh'
  BY <1>3, <1>4 DEF Fresh
<1>11. Open'
  <2>1. h[start] >= 1
    BY <1>1, <1>2 DEF g, h
  <2>2. \A t \in Times : t >= start + W => h[t] = 0
    BY <1>1, <1>2, <1>4 DEF g, h, W, Times
  <2> QED
    BY <1>3, <1>7, <1>8, <2>1, <2>2 DEF Open, GuessesIn, h, W, Sum
<1>12. BlockHolds'
  <2>1. \A t \in Times : t + W > clock + W => h[t] = 0
    BY <1>1, <1>2, <1>4 DEF Windows, NoneAhead, g, h, Times
  <2> QED
    BY <1>3, <1>4, <2>1 DEF BlockHolds, h, W
<1>13. Limited'
  <2> SUFFICES ASSUME NEW t \in Times PROVE Sum(h, t, t + W - 1) <= 2 * MaxAttempts - 2
    BY DEF Limited, Interval, GuessesIn, h, W, Sum
  <2>1. t \in Nat /\ t \in Int /\ t + W - 1 \in Int
    BY <1>1 DEF Times
  <2>2. CASE t + W - 1 >= start
    <3>1. Sum(h, t, t + W - 1) <= Sum(h, start + 1 - W, start - 1) + Sum(h, start, MaxTime)
      BY <1>2, <2>2, CoveredByWindows DEF W, Sum
    <3>2. /\ Sum(h, t, t + W - 1) \in Nat /\ Sum(h, start + 1 - W, start - 1) \in Nat
      <4>1. start + 1 - W \in Int /\ start - 1 \in Int
        BY <1>1, <1>4
      <4> QED
        BY <2>1, <4>1, <1>5
    <3> QED
      BY <3>1, <3>2, <1>1, <1>7, <1>8
  <2>3. CASE t + W - 1 < start
    <3>1. ~(clock <= t + W - 1)
      BY <1>1, <1>4, <2>1, <2>3
    <3>2. Sum(h, t, t + W - 1) = Sum(g, t, t + W - 1)
      BY <2>1, <3>1, <1>5
    <3>3. Sum(g, t, t + W - 1) <= 2 * MaxAttempts - 2
      BY DEF Windows, Limited, Interval, GuessesIn, g, W, Sum
    <3> QED
      BY <3>2, <3>3
  <2> QED
    BY <2>1, <2>2, <2>3, <1>1, <1>4
<1> QED
  BY <1>9, <1>10, <1>11, <1>12, <1>13 DEF Windows

\* An invalid code that is looked at: recordInvalidAttemptLocked.
LEMMA GuessRecorded ==
    ASSUME TypeInv, Windows, MaxAttempts > 1, ~Blocked(clock), attempts' = Recorded(clock),
           guesses' = [guesses EXCEPT ![clock] = @ + 1], clock' = clock
    PROVE  Windows'
<1> DEFINE a == AttemptsAt(clock)
           w == Window(clock)
           last == attempts.windowStart
<1>1. /\ guesses \in [Times -> Nat] /\ clock \in Times /\ clock \in Nat /\ clock # 0
      /\ attempts.count \in Nat /\ last \in Nat /\ attempts.blockedUntil \in Nat
      /\ attempts.blockedUntil = 0 => attempts.count < MaxAttempts
      /\ MaxTime \in Nat /\ AttemptWindow \in Nat \ {0} /\ MaxAttempts \in Nat \ {0}
  BY GuessTypes DEF Times
<1>2. attempts' = Attempts(w.count + 1, w.windowStart,
                      IF w.count + 1 < MaxAttempts THEN w.blockedUntil ELSE clock + AttemptWindow)
  BY DEF Recorded
<1>3. CASE last # 0 /\ attempts.blockedUntil = 0 /\ clock < last + AttemptWindow
  <2>1. w = attempts
    BY <1>1, <1>3 DEF Window, AttemptsAt
  <2>2. /\ last \in Times /\ last <= clock /\ guesses[last] >= 1
        /\ GuessesIn(last, MaxTime) = attempts.count
        /\ \A t \in Times : t >= last + AttemptWindow => guesses[t] = 0
        /\ GuessesIn(last + 1 - AttemptWindow, last - 1) <= MaxAttempts - 2
    BY <1>1, <1>3 DEF Windows, Open, Times
  <2>3. attempts' = Attempts(attempts.count + 1, last,
                        IF attempts.count + 1 < MaxAttempts THEN 0 ELSE clock + AttemptWindow)
    BY <1>2, <1>3, <2>1
  <2> HIDE DEF w, last
  <2> QED
    BY <1>1, <1>3, <2>2, <2>3, GuessCounted
<1>4. CASE ~(last # 0 /\ attempts.blockedUntil = 0 /\ clock < last + AttemptWindow)
  <2>1. w = Attempts(0, clock, 0)
    BY <1>1, <1>4 DEF Window, AttemptsAt, NoAttempts, Attempts, Blocked
  <2>2. attempts' = Attempts(0 + 1, clock,
                        IF 0 + 1 < MaxAttempts THEN 0 ELSE clock + AttemptWindow)
    BY <1>2, <2>1 DEF Attempts
  <2>3. /\ \A t \in Times : t >= clock => guesses[t] = 0
        /\ GuessesIn(clock + 1 - AttemptWindow, clock - 1) <= MaxAttempts - 2
    <3> DEFINE from == clock + 1 - AttemptWindow
               to == clock - 1
    <3>0. /\ from \in Int /\ to \in Int
          /\ Between(from, to) \in SUBSET Times /\ IsFiniteSet(Between(from, to))
      BY <1>1, BetweenFinite
    <3>1. CASE last = 0 \/ attempts.blockedUntil # 0
      <4>1. \A t \in Times : t + AttemptWindow > clock => guesses[t] = 0
        <5>1. CASE attempts.blockedUntil # 0
          BY <1>1, <5>1 DEF Windows, BlockHolds, Blocked, Times
        <5>2. CASE last = 0
          BY <5>2 DEF Windows, Fresh
        <5> QED
          BY <3>1, <5>1, <5>2
      <4>2. \A t \in Between(from, to) : guesses[t] = 0
        BY <1>1, <4>1 DEF Between, Times
      <4>3. GuessesIn(from, to) = 0
        BY <3>0, <4>2, SumZero DEF GuessesIn
      <4>4. \A t \in Times : t >= clock => guesses[t] = 0
        BY <1>1, <4>1 DEF Times
      <4> QED
        BY <1>1, <4>3, <4>4
    <3>2. CASE last # 0 /\ attempts.blockedUntil = 0 /\ clock >= last + AttemptWindow
      <4> DEFINE S == Between(last, MaxTime)
      <4>1. /\ guesses[last] >= 1 /\ GuessesIn(last, MaxTime) = attempts.count
            /\ \A t \in Times : t >= last + AttemptWindow => guesses[t] = 0
        BY <3>2 DEF Windows, Open
      <4>2. last \in Int /\ MaxTime \in Int /\ last \in S
        BY <1>1, <3>2 DEF Between, Times
      <4>3. S \in SUBSET Times /\ IsFiniteSet(S)
        BY <4>2, BetweenFinite
      <4>4. Between(from, to) \in SUBSET (S \ {last})
        <5> SUFFICES ASSUME NEW t \in Between(from, to) PROVE t \in S /\ t # last
          OBVIOUS
        <5>1. t \in Times /\ from <= t
          BY DEF Between
        <5>2. last < t /\ t <= MaxTime
          BY <1>1, <3>2, <5>1 DEF Times
        <5> QED
          BY <1>1, <5>1, <5>2 DEF Between, Times
      <4> HIDE DEF S
      <4>5. /\ IsFiniteSet(S \ {last}) /\ \A i \in S : guesses[i] \in Nat
            /\ \A i \in S \ {last} : guesses[i] \in Nat
        BY <1>1, <4>3, FS_Subset
      <4>6. SumFunctionOnSet(guesses, S \ {last}) = SumFunctionOnSet(guesses, S) - guesses[last]
        BY <4>2, <4>3, <4>5, SumRemove
      <4>7. SumFunctionOnSet(guesses, Between(from, to)) <= SumFunctionOnSet(guesses, S \ {last})
        BY <4>4, <4>5, SumMonotone
      <4>8. SumFunctionOnSet(guesses, Between(from, to)) \in Nat
        BY <1>1, <3>0, SumType
      <4>9. SumFunctionOnSet(guesses, S) = attempts.count
        BY <4>1 DEF GuessesIn, S
      <4>10. guesses[last] \in Nat
        BY <4>2, <4>5
      <4>11. GuessesIn(from, to) <= MaxAttempts - 2
        BY <1>1, <3>2, <4>1, <4>6, <4>7, <4>8, <4>9, <4>10 DEF GuessesIn
      <4>12. \A t \in Times : t >= clock => guesses[t] = 0
        BY <1>1, <3>2, <4>1 DEF Times
      <4> QED
        BY <4>11, <4>12
    <3> QED
      BY <1>1, <1>4, <3>1, <3>2
  <2>4. GuessesIn(clock, MaxTime) = 0
    <3>1. clock \in Int /\ MaxTime \in Int
      BY <1>1
    <3>2. IsFiniteSet(Between(clock, MaxTime)) /\ \A t \in Between(clock, MaxTime) : guesses[t] = 0
      BY <3>1, <2>3, BetweenFinite DEF Between
    <3> QED
      BY <3>2, SumZero DEF GuessesIn
  <2>5. \A t \in Times : t >= clock + AttemptWindow => guesses[t] = 0
    BY <1>1, <2>3 DEF Times
  <2>6. clock <= clock /\ clock < clock + AttemptWindow /\ 0 < MaxAttempts /\ 0 \in Nat
    BY <1>1
  <2> QED
    BY <1>1, <2>2, <2>3, <2>4, <2>5, <2>6, GuessCounted
<1> QED
  BY <1>3, <1>4

\* Nobody waits for the mutex across a tick.
LEMMA PromptStep ==
    ASSUME TypeInv, MaxWait = 0, Prompt, [Next]_vars
    PROVE  Prompt'
<1>0. clock \in Nat /\ call \in [Callers -> [step: Steps, browser: Browsers \cup {Nobody},
                code: 0..MaxCodes, now: 0..MaxTime, credential: 0..MaxCredentials]]
  BY PairingAssumption DEF TypeInv, PairingTypeOK, StoreType, CallType
<1>1. ASSUME NEW p \in Callers, Pair(p) \/ Revoke(p) PROVE Prompt'
  BY <1>0, <1>1
     DEF Pair, Revoke, PairBegin, PairBlocked, PairLocked, PairInvalid, PairValid, PairSave,
         PairSaveFails, PairCommit, RevokeBegin, RevokeSave, RevokeSaveFails, RevokeCommit,
         Return, Idle, At, Prompt
<1>2. CASE CurrentCode
  BY <1>2 DEF CurrentCode, Prompt
<1>3. CASE Tick
  BY <1>0, <1>3 DEF Tick, Prompt
<1>4. CASE CrashAndRestart
  BY <1>4 DEF CrashAndRestart, Prompt, Idle, At
<1>5. CASE UNCHANGED vars
  BY <1>5 DEF vars, Prompt
<1> QED
  BY <1>1, <1>2, <1>3, <1>4, <1>5 DEF Next

LEMMA WindowsStep ==
    ASSUME TypeInv, MaxAttempts > 1, Prompt, Windows, [Next]_vars
    PROVE  Windows'
<1>0. clock \in Times /\ clock \in Nat /\ DOMAIN guesses = Times
  BY GuessTypes DEF Times
<1>1. ASSUME guesses' = guesses, attempts' = attempts, clock' = clock PROVE Windows'
  BY <1>0, <1>1, WindowsAge
<1>2. ASSUME NEW p \in Callers, Pair(p) PROVE Windows'
  <2>1. CASE \E b \in Browsers, c \in 0..codes : PairBegin(p, b, c)
    BY <1>1, <2>1 DEF PairBegin, memory, history
  <2>2. CASE PairBlocked(p)
    BY <1>1, <2>2 DEF PairBlocked, PairLocked, history
  <2>3. CASE PairInvalid(p)
    <3>1. call[p].now = clock
      BY <2>3 DEF PairInvalid, PairLocked, Prompt
    <3>2. /\ ~Blocked(clock) /\ attempts' = Recorded(clock) /\ clock' = clock
          /\ guesses' = [guesses EXCEPT ![clock] = @ + 1]
      BY <2>3, <3>1 DEF PairInvalid, PairLocked
    <3> QED
      BY <3>2, GuessRecorded
  <2>4. CASE PairValid(p)
    <3>1. call[p].now = clock
      BY <2>4 DEF PairValid, PairLocked, Prompt
    <3>2. ~Blocked(clock) /\ attempts' = AttemptsAt(clock) /\ clock' = clock /\ guesses' = guesses
      BY <2>4, <3>1 DEF PairValid, PairLocked, history
    <3> QED
      BY <3>2, AccountAt
  <2>5. CASE PairSave(p)
    BY <1>1, <2>5 DEF PairSave, memory
  <2>6. CASE PairSaveFails(p)
    BY <1>1, <2>6 DEF PairSaveFails, memory, history
  <2>7. CASE PairCommit(p)
    BY <1>0, <2>7, WindowsReset DEF PairCommit
  <2> QED
    BY <1>2, <2>1, <2>2, <2>3, <2>4, <2>5, <2>6, <2>7 DEF Pair
<1>3. ASSUME NEW p \in Callers, Revoke(p) PROVE Windows'
  BY <1>1, <1>3 DEF Revoke, RevokeBegin, RevokeSave, RevokeSaveFails, RevokeCommit, memory, history
<1>4. CASE CurrentCode
  BY <1>1, <1>4 DEF CurrentCode, history
<1>5. CASE Tick
  <2>1. guesses' = guesses /\ attempts' = attempts /\ clock' \in Times /\ clock <= clock'
    BY <1>0, <1>5, PairingAssumption DEF Tick, memory, history, Times
  <2> QED
    BY <2>1, WindowsAge
<1>6. CASE CrashAndRestart
  BY <1>0, <1>6, WindowsReset DEF CrashAndRestart
<1>7. CASE UNCHANGED vars
  BY <1>1, <1>7 DEF vars, memory, history
<1> QED
  BY <1>2, <1>3, <1>4, <1>5, <1>6, <1>7 DEF Next

-----------------------------------------------------------------------------
(* The theorems.                                                           *)

PairingInv ==
    /\ TypeInv /\ MutexHeld /\ FileFollows /\ DrawnOnce /\ CodeUnused
    /\ OneTimeCode /\ RevokedStaysRevoked /\ AnsweredIsDurable

LEMMA InitTypes == Init => TypeInv
BY PairingAssumption
   DEF Init, TypeInv, PairingTypeOK, StoreType, AttemptsType, CallType, HistoryType,
       CountBelowLimit, CallsStamped, NoAttempts, Attempts, Idle, At, Steps

LEMMA InitSafe == Init => PairingInv
BY InitTypes, PairingAssumption
   DEF Init, PairingInv, MutexHeld, FileFollows, MemoryMatchesFile, DrawnOnce, CodeUnused,
       OneTimeCode, RevokedStaysRevoked, AnsweredIsDurable, HolderSteps, Idle, At

LEMMA PairingInvAlways == Spec => []PairingInv
<1>1. PairingInv /\ [Next]_vars => PairingInv'
  <2> SUFFICES ASSUME PairingInv, [Next]_vars PROVE PairingInv'
    OBVIOUS
  <2>1. TypeInv /\ StoreType /\ AttemptsType /\ CallType /\ HistoryType /\ CallsStamped
    BY DEF PairingInv, TypeInv, PairingTypeOK
  <2>2. /\ MutexHeld /\ FileFollows /\ DrawnOnce /\ CodeUnused
        /\ OneTimeCode /\ RevokedStaysRevoked /\ AnsweredIsDurable
    BY DEF PairingInv
  <2>3. TypeInv'
    <3>1. StoreType' BY <2>1, StoreTypeStep
    <3>2. AttemptsType' /\ CountBelowLimit' BY <2>1, AttemptsTypeStep
    <3>3. CallType' /\ CallsStamped' BY <2>1, CallTypeStep
    <3>4. HistoryType' BY <2>1, HistoryTypeStep
    <3> QED BY <3>1, <3>2, <3>3, <3>4 DEF TypeInv, PairingTypeOK
  <2>4. MutexHeld' BY <2>1, <2>2, MutexHeldStep
  <2>5. FileFollows' BY <2>1, <2>2, FileFollowsStep
  <2>6. DrawnOnce' BY <2>1, <2>2, DrawnOnceStep
  <2>7. CodeUnused' BY <2>1, <2>2, CodeUnusedStep
  <2>8. OneTimeCode' BY <2>1, <2>2, OneTimeCodeStep
  <2>9. RevokedStaysRevoked' BY <2>1, <2>2, RevokedStep
  <2>10. AnsweredIsDurable' BY <2>1, <2>2, AnsweredStep
  <2> QED BY <2>3, <2>4, <2>5, <2>6, <2>7, <2>8, <2>9, <2>10 DEF PairingInv
<1> QED BY <1>1, InitSafe, PTL DEF Spec

\* Every state of the manager, its file and its callers is well typed.
THEOREM PairingTypeCorrect == Spec => []PairingTypeOK
BY PairingInvAlways, PTL DEF PairingInv, TypeInv

\* A pairing code is redeemed for one credential, whatever callers race for it
\* and wherever a save fails or the process dies (Pair, rotateCodeLocked).
THEOREM CodesAreOneTime == Spec => []OneTimeCode
BY PairingInvAlways, PTL DEF PairingInv

\* Between calls the credentials in use are those in the file.
THEOREM MemoryFollowsFile == Spec => []MemoryMatchesFile
BY PairingInvAlways, PTL DEF PairingInv, FileFollows

\* A credential reported revoked never authenticates again.
THEOREM RevocationIsFinal == Spec => []RevokedStaysRevoked
BY PairingInvAlways, PTL DEF PairingInv

\* A credential a browser received survives crashes and other browsers' calls.
THEOREM CredentialsAreDurable == Spec => []AnsweredIsDurable
BY PairingInvAlways, PTL DEF PairingInv

\* Any window's length of time sees at most 2 * MaxAttempts - 2 invalid codes
\* between successes, for every limit and length, if a call does not wait for
\* the mutex across a tick (recordInvalidAttemptLocked, retryAfterLocked).
THEOREM GuessesStayLimited == Spec => []GuessesAreLimited
<1> DEFINE Inv == TypeInv /\ (MaxWait = 0 /\ MaxAttempts > 1 => Prompt /\ Windows)
<1>1. Init => Inv
  <2> SUFFICES ASSUME Init, MaxWait = 0, MaxAttempts > 1 PROVE Prompt /\ Windows
    BY InitTypes
  <2>1. Prompt
    BY DEF Init, Prompt, Idle, At
  <2>2. /\ attempts.count = 0 /\ attempts.windowStart = 0 /\ attempts.blockedUntil = 0
        /\ \A t \in Times : guesses[t] = 0
    BY DEF Init, NoAttempts, Attempts, Times
  <2>3. \A t \in Times : Interval(t) = 0
    <3> TAKE t \in Times
    <3>1. t \in Int /\ t + AttemptWindow - 1 \in Int
      BY PairingAssumption DEF Times
    <3>2. /\ Between(t, t + AttemptWindow - 1) \in SUBSET Times
          /\ IsFiniteSet(Between(t, t + AttemptWindow - 1))
      BY <3>1, BetweenFinite
    <3> QED
      BY <2>2, <3>2, SumZero DEF Interval, GuessesIn
  <2>4. NoneAhead /\ Fresh /\ Open /\ BlockHolds
    BY <2>2 DEF NoneAhead, Fresh, Open, BlockHolds
  <2>5. Limited
    BY <2>3, PairingAssumption DEF Limited
  <2> QED
    BY <2>1, <2>4, <2>5 DEF Windows
<1>2. PairingInv /\ PairingInv' /\ Inv /\ [Next]_vars => Inv'
  BY PromptStep, WindowsStep DEF PairingInv
<1>3. Inv => GuessesAreLimited
  <2> SUFFICES ASSUME TypeInv, MaxAttempts > 1, Limited, NEW t \in 1..(MaxTime + 1 - AttemptWindow)
               PROVE  SumFunctionOnSet(guesses, t..(t + AttemptWindow - 1)) <= 2 * MaxAttempts - 2
    BY DEF GuessesAreLimited, Windows
  <2>1. t \in Times
    BY PairingAssumption DEF Times
  <2>2. t..(t + AttemptWindow - 1) = Between(t, t + AttemptWindow - 1)
    BY PairingAssumption DEF Between, Times
  <2>3. GuessesIn(t, t + AttemptWindow - 1) <= 2 * MaxAttempts - 2
    BY <2>1 DEF Limited, Interval
  <2> QED
    BY <2>2, <2>3 DEF GuessesIn
<1> QED
  BY <1>1, <1>2, <1>3, PairingInvAlways, PTL DEF Spec
=============================================================================
