--------------------------- MODULE Accounts_proofs ---------------------------
(***************************************************************************)
(* Proofs about Accounts, for any users, tokens and times.  Revocation     *)
(* rests on Expiry <= Retention and on a session being no older than its   *)
(* token; the lockout on the disk counting no less than the history does,  *)
(* but for the users whose last change a failing save has left out.        *)
(***************************************************************************)
EXTENDS Accounts, TLAPS

(* A session is no older than its token; a revoked token is over or on     *)
(* record as revoked.                                                      *)
Matches(t) ==
  /\ issued[t] # NoToken => issued[t].iat <= now
  /\ Known(t) => issued[t] # NoToken /\ issued[t].iat <= sessions[t].created
  /\ t \in revoked => issued[t] # NoToken /\ (InTime(t) => IsRevoked(t))

(* What f knows of the failures of u: as many, and no shorter a lock. *)
Remembers(f, u) ==
  /\ misses[u] <= f[u].count
  /\ now < barred[u] => barred[u] <= f[u].until /\ barred[u] <= now + LockTime

SessionsMatch == \A t \in Tokens : Matches(t)

LocksMatch == \A u \in Users : /\ Remembers(failed, u)
                               /\ u \notin unsaved => Remembers(lockouts, u)

AccountsInv == TypeOK /\ SessionsMatch /\ LocksMatch

LEMMA AccountsInit == Init => AccountsInv
<1> SUFFICES ASSUME Init PROVE AccountsInv
  OBVIOUS
<1>1. NoFailures \in Failures /\ 0 \in Time
  BY AccountsConstants DEF NoFailures, Failures, Time
<1>2. TypeOK
  BY <1>1, AccountsConstants DEF Init, TypeOK
<1>3. SessionsMatch
  BY DEF Init, SessionsMatch, Matches, Known
<1>4. ASSUME NEW u \in Users
      PROVE  misses[u] = 0 /\ barred[u] = 0 /\ now = 0 /\ failed[u].count = 0 /\ lockouts[u].count = 0
  BY DEF Init, NoFailures
<1>5. ASSUME NEW u \in Users PROVE Remembers(failed, u) /\ Remembers(lockouts, u)
  <2>1. /\ misses[u] = 0 /\ barred[u] = 0 /\ now = 0
        /\ failed[u].count = 0 /\ lockouts[u].count = 0
    BY <1>4
  <2> QED  BY <2>1 DEF Remembers
<1> QED  BY <1>2, <1>3, <1>5 DEF AccountsInv, LocksMatch

-----------------------------------------------------------------------------
(* Tokens and sessions. *)

LEMMA KeepsLocks ==
  ASSUME LocksMatch, UNCHANGED <<now, locks>>
  PROVE  LocksMatch'
BY DEF LocksMatch, Remembers, locks

LEMMA KeepsTokens ==
  ASSUME SessionsMatch, UNCHANGED <<now, tokens>>
  PROVE  SessionsMatch'
BY DEF SessionsMatch, Matches, Known, InTime, IsRevoked, tokens

LEMMA UseKeeps ==
  ASSUME AccountsInv, NEW t \in Tokens, Use(t)
  PROVE  AccountsInv'
<1>1. issued[t] \in Token /\ InTime(t) /\ Matches(t)
  BY DEF Use, Accepted, InTime, AccountsInv, TypeOK, SessionsMatch
<1>2. Fresh(issued[t].user) \in Session
  BY <1>1 DEF Fresh, Session, Token, AccountsInv, TypeOK
<1>3. TypeOK'
  BY <1>2 DEF Use, AccountsInv, TypeOK, locks
<1>4. t \notin revoked
  BY <1>1 DEF Use, Accepted, Matches
<1>5. Matches(t)'
  BY <1>1, <1>2, <1>4, AccountsConstants DEF Use, Matches, Known, Fresh, InTime, AccountsInv, TypeOK
<1>6. ASSUME NEW s \in Tokens \ {t} PROVE Matches(s)'
  BY <1>6 DEF Use, Matches, Known, InTime, IsRevoked, AccountsInv, TypeOK, SessionsMatch
<1> QED  BY <1>3, <1>5, <1>6, KeepsLocks DEF Use, AccountsInv, SessionsMatch

LEMMA IssueKeeps ==
  ASSUME AccountsInv, NEW t \in Tokens, NEW u \in Users, now' = now,
         issued[t] = NoToken,
         issued' = [issued EXCEPT ![t] = [user |-> u, iat |-> now]],
         revoked' = revoked,
         sessions' = sessions \/ sessions' = [sessions EXCEPT ![t] = Fresh(u)]
  PROVE  /\ SessionsMatch'
         /\ issued' \in [Tokens -> Token \cup {NoToken}]
         /\ sessions' \in [Tokens -> Session \cup {NoSession}]
<1>1. [user |-> u, iat |-> now] \in Token /\ Fresh(u) \in Session
  BY DEF Token, Fresh, Session, AccountsInv, TypeOK
<1>2. /\ issued' \in [Tokens -> Token \cup {NoToken}]
      /\ sessions' \in [Tokens -> Session \cup {NoSession}]
  BY <1>1 DEF AccountsInv, TypeOK
<1>3. Matches(t)
  BY DEF AccountsInv, SessionsMatch
<1>4. t \notin revoked /\ sessions[t] = NoSession
  BY <1>3 DEF Matches, Known
<1>5. Matches(t)'
  <2>1. issued'[t].iat = now /\ issued'[t] # NoToken /\ now \in Int
    BY <1>1, AccountsConstants DEF AccountsInv, TypeOK, Time
  <2>2. Known(t)' => sessions'[t].created = now
    BY <1>4 DEF Known, Fresh, AccountsInv, TypeOK
  <2> QED  BY <1>4, <2>1, <2>2 DEF Matches
<1>6. ASSUME NEW s \in Tokens \ {t} PROVE Matches(s)'
  BY <1>6 DEF Matches, Known, InTime, IsRevoked, AccountsInv, TypeOK, SessionsMatch
<1> QED  BY <1>2, <1>5, <1>6 DEF SessionsMatch

LEMMA RevokeKeeps ==
  ASSUME AccountsInv, NEW S \in SUBSET Tokens, \A t \in S : Known(t), RevokeAll(S)
  PROVE  AccountsInv'
<1>1. ASSUME NEW t \in S
      PROVE  /\ sessions[t] \in Session /\ sessions'[t] \in Session
             /\ sessions'[t].revoked /\ sessions'[t].created = sessions[t].created
  BY <1>1 DEF RevokeAll, Known, Session, AccountsInv, TypeOK
<1>2. ASSUME NEW t \in Tokens \ S PROVE sessions'[t] = sessions[t]
  BY <1>2 DEF RevokeAll
<1>3. sessions' \in [Tokens -> Session \cup {NoSession}]
  <2>1. sessions' = [t \in Tokens |-> sessions'[t]]
    BY DEF RevokeAll
  <2>2. \A t \in Tokens : sessions'[t] \in Session \cup {NoSession}
    BY <1>1, <1>2 DEF AccountsInv, TypeOK
  <2> QED  BY <2>1, <2>2
<1>4. TypeOK'
  BY <1>3 DEF RevokeAll, AccountsInv, TypeOK, locks
<1>5. ASSUME NEW t \in S PROVE Matches(t)'
  BY <1>1, <1>5, AccountsConstants DEF RevokeAll, Matches, Known, InTime, IsRevoked, AccountsInv, SessionsMatch
<1>6. ASSUME NEW t \in Tokens \ S PROVE Matches(t)'
  BY <1>2, <1>6 DEF RevokeAll, Matches, Known, InTime, IsRevoked, AccountsInv, SessionsMatch
<1> QED  BY <1>4, <1>5, <1>6, KeepsLocks DEF RevokeAll, AccountsInv, SessionsMatch

LEMMA CleanupKeeps == AccountsInv /\ Cleanup => AccountsInv'
<1> SUFFICES ASSUME AccountsInv, Cleanup PROVE AccountsInv'
  OBVIOUS
<1>1. TypeOK'
  BY DEF Cleanup, AccountsInv, TypeOK, locks
<1>2. ASSUME NEW t \in Tokens PROVE Matches(t)'
  <2>1. CASE sessions'[t] = sessions[t]
    BY <2>1 DEF Cleanup, Matches, Known, InTime, IsRevoked, AccountsInv, SessionsMatch
  <2>2. CASE sessions'[t] # sessions[t]
    <3>1. Known(t) /\ now - sessions[t].created > Retention /\ sessions'[t] = NoSession
      BY <2>2 DEF Cleanup
    <3>2. issued[t] \in Token /\ sessions[t] \in Session /\ issued[t].iat <= sessions[t].created
      BY <3>1 DEF Known, AccountsInv, TypeOK, SessionsMatch, Matches
    <3>3. ~InTime(t)
      BY <3>1, <3>2, AccountsConstants DEF InTime, Token, Session, Time, AccountsInv, TypeOK
    <3> QED
      BY <3>1, <3>3 DEF Cleanup, Matches, Known, InTime, IsRevoked, AccountsInv, SessionsMatch
  <2> QED  BY <2>1, <2>2
<1> QED  BY <1>1, <1>2, KeepsLocks DEF Cleanup, AccountsInv, SessionsMatch

-----------------------------------------------------------------------------
(* Lockouts. *)

(* A failure counted on f, which knows what the history does. *)
LEMMA FailKeeps ==
  ASSUME AccountsInv, NEW u \in Users, NEW f \in Failures, NEW row \in 0 .. MaxCount,
         row <= f.count,
         now < barred[u] => barred[u] <= f.until /\ barred[u] <= now + LockTime,
         Fail(u, f, row), now' = now
  PROVE  /\ LocksMatch'
         /\ failed' \in [Users -> Failures] /\ lockouts' \in [Users -> Failures]
         /\ unsaved' \subseteq Users
         /\ misses' \in [Users -> 0 .. MaxCount] /\ barred' \in [Users -> Int]
<1>1. /\ now \in Int /\ LockTime \in Int /\ Threshold \in Int /\ MaxCount \in Nat
      /\ f.count \in 0 .. MaxCount /\ f.until \in Int /\ barred[u] \in Int
  BY AccountsConstants DEF AccountsInv, TypeOK, Time, Failures
<1>2. Another(f) \in Failures
  BY <1>1 DEF Another, Failures, Fail
<1>3. /\ failed' = [failed EXCEPT ![u] = Another(f)]
      /\ \/ lockouts' = failed' /\ unsaved' = {}
         \/ lockouts' = lockouts /\ unsaved' = unsaved \cup {u}
      /\ misses' = [misses EXCEPT ![u] = row + 1] /\ row < MaxCount
      /\ barred' = [barred EXCEPT ![u] = IF row + 1 >= Threshold THEN now + LockTime ELSE barred[u]]
  BY DEF Fail, SetFailures
<1>4. /\ failed' \in [Users -> Failures] /\ lockouts' \in [Users -> Failures]
      /\ unsaved' \subseteq Users
      /\ misses' \in [Users -> 0 .. MaxCount] /\ barred' \in [Users -> Int]
  BY <1>1, <1>2, <1>3 DEF AccountsInv, TypeOK
<1>5. /\ failed'[u] = Another(f) /\ misses'[u] = row + 1
      /\ barred'[u] = IF row + 1 >= Threshold THEN now + LockTime ELSE barred[u]
  BY <1>3 DEF AccountsInv, TypeOK
<1>6. Remembers(failed, u)'
  BY <1>1, <1>5 DEF Remembers, Another
<1>7. ASSUME NEW v \in Users \ {u} PROVE Remembers(failed, v)'
  <2>1. failed'[v] = failed[v] /\ misses'[v] = misses[v] /\ barred'[v] = barred[v]
    BY <1>3, <1>7 DEF AccountsInv, TypeOK
  <2> QED  BY <2>1, <1>7 DEF Remembers, AccountsInv, LocksMatch
<1>8. ASSUME NEW v \in Users, v \notin unsaved' PROVE Remembers(lockouts, v)'
  <2>1. CASE lockouts' = failed'
    BY <1>6, <1>7, <2>1 DEF Remembers
  <2>2. CASE lockouts' = lockouts /\ unsaved' = unsaved \cup {u}
    <3>1. v # u /\ v \notin unsaved
      BY <1>8, <2>2
    <3>2. misses'[v] = misses[v] /\ barred'[v] = barred[v] /\ lockouts'[v] = lockouts[v]
      BY <1>3, <2>2, <3>1 DEF AccountsInv, TypeOK
    <3> QED  BY <3>1, <3>2 DEF Remembers, AccountsInv, LocksMatch
  <2> QED  BY <1>3, <2>1, <2>2
<1> QED  BY <1>4, <1>6, <1>7, <1>8 DEF LocksMatch

(* The entry of u is dropped: from the memory, and perhaps from the disk.  *)
LEMMA ForgiveKeeps ==
  ASSUME AccountsInv, NEW u \in Users, now' = now,
         failed' = [failed EXCEPT ![u] = NoFailures],
         \/ lockouts' = failed' /\ unsaved' = {}
         \/ lockouts' = lockouts /\ (unsaved' = unsaved \/ unsaved' = unsaved \cup {u}),
         misses' = [misses EXCEPT ![u] = 0], barred' = [barred EXCEPT ![u] = 0]
  PROVE  /\ LocksMatch'
         /\ failed' \in [Users -> Failures] /\ lockouts' \in [Users -> Failures]
         /\ unsaved' \subseteq Users
         /\ misses' \in [Users -> 0 .. MaxCount] /\ barred' \in [Users -> Int]
<1>1. now \in Nat /\ 0 \in 0 .. MaxCount /\ NoFailures \in Failures
  BY AccountsConstants DEF AccountsInv, TypeOK, Time, Failures, NoFailures
<1>2. /\ failed' \in [Users -> Failures] /\ lockouts' \in [Users -> Failures]
      /\ unsaved' \subseteq Users
      /\ misses' \in [Users -> 0 .. MaxCount] /\ barred' \in [Users -> Int]
  BY <1>1 DEF AccountsInv, TypeOK
<1>3. misses'[u] = 0 /\ barred'[u] = 0
  BY DEF AccountsInv, TypeOK
<1>4. failed'[u].count \in Nat /\ lockouts'[u].count \in Nat
  BY <1>2, AccountsConstants DEF Failures
<1>5. Remembers(failed, u)' /\ Remembers(lockouts, u)'
  BY <1>1, <1>3, <1>4 DEF Remembers
<1>6. ASSUME NEW v \in Users \ {u}
      PROVE  Remembers(failed, v)' /\ (v \notin unsaved' => Remembers(lockouts, v)')
  <2>1. /\ failed'[v] = failed[v] /\ misses'[v] = misses[v] /\ barred'[v] = barred[v]
        /\ \/ lockouts'[v] = failed[v]
           \/ lockouts'[v] = lockouts[v] /\ (v \in unsaved => v \in unsaved')
    BY <1>6 DEF AccountsInv, TypeOK
  <2> QED  BY <2>1, <1>6 DEF Remembers, AccountsInv, LocksMatch
<1> QED  BY <1>2, <1>5, <1>6 DEF LocksMatch

LEMMA LoginKeeps ==
  ASSUME AccountsInv, NEW u \in Users,
         \/ WrongPassword(u) \/ Unlock(u)
         \/ \E t \in Tokens : Login(u, t)
         \/ \E p \in Temps : LoginPending(u, p)
  PROVE  AccountsInv'
<1>1. CASE WrongPassword(u)
  <2>1. Remembers(failed, u) /\ failed[u] \in Failures /\ misses[u] \in 0 .. MaxCount
    BY DEF AccountsInv, LocksMatch, TypeOK
  <2>2. now \in Nat /\ barred[u] \in Int /\ failed[u].until \in Int /\ NoFailures \in Failures
    BY <2>1, AccountsConstants DEF AccountsInv, TypeOK, Time, Failures, NoFailures
  <2>3. ~(now < barred[u])
    BY <1>1, <2>1, <2>2 DEF WrongPassword, IsLocked, Remembers
  <2> DEFINE f == Counted(u)
             row == IF failed[u].until > 0 THEN 0 ELSE misses[u]
  <2>4. f \in Failures /\ row \in 0 .. MaxCount /\ row <= f.count
    BY <1>1, <2>1, <2>2, AccountsConstants
       DEF WrongPassword, Counted, IsLocked, NoFailures, Remembers, Failures
  <2>5. Fail(u, f, row) /\ UNCHANGED <<now, tokens, pending>>
    BY <1>1 DEF WrongPassword
  <2> HIDE DEF f, row
  <2> QED  BY <2>3, <2>4, <2>5, FailKeeps, KeepsTokens DEF AccountsInv, TypeOK, tokens
<1>2. CASE Unlock(u)
  BY <1>2, ForgiveKeeps, KeepsTokens DEF Unlock, AccountsInv, TypeOK, tokens
<1>3. ASSUME NEW t \in Tokens, Login(u, t) PROVE AccountsInv'
  BY <1>3, ForgiveKeeps, IssueKeeps DEF Login, Succeed, SetFailures, Issue, AccountsInv, TypeOK
<1>4. ASSUME NEW p \in Temps, LoginPending(u, p) PROVE AccountsInv'
  <2>1. [user |-> u, expires |-> now + PendingTtl] \in Pending
    BY AccountsConstants DEF Pending, AccountsInv, TypeOK, Time
  <2> QED
    BY <1>4, <2>1, ForgiveKeeps, KeepsTokens
       DEF LoginPending, Succeed, SetFailures, AccountsInv, TypeOK, tokens
<1> QED  BY <1>1, <1>2, <1>3, <1>4

LEMMA CodeKeeps ==
  ASSUME AccountsInv, NEW p \in Temps,
         TooLate(p) \/ WrongCode(p) \/ \E t \in Tokens : RightCode(p, t)
  PROVE  AccountsInv'
<1>1. pending[p] \in Pending /\ pending' \in [Temps -> Pending \cup {NoPending}] /\ now' = now
  BY DEF TooLate, WrongCode, RightCode, Take, AccountsInv, TypeOK
<1>2. pending[p].user \in Users
  BY <1>1 DEF Pending
<1>3. CASE TooLate(p)
  BY <1>1, <1>3, KeepsTokens, KeepsLocks DEF TooLate, AccountsInv, TypeOK, tokens, locks
<1>4. CASE WrongCode(p)
  <2>1. PICK u \in Users : Fail(u, failed[u], misses[u])
    BY <1>2, <1>4 DEF WrongCode
  <2>2. failed[u] \in Failures /\ misses[u] \in 0 .. MaxCount /\ Remembers(failed, u)
    BY DEF AccountsInv, TypeOK, LocksMatch
  <2> QED
    BY <1>1, <1>4, <2>1, <2>2, FailKeeps, KeepsTokens
       DEF WrongCode, Remembers, AccountsInv, TypeOK, tokens
<1>5. ASSUME NEW t \in Tokens, RightCode(p, t) PROVE AccountsInv'
  BY <1>1, <1>2, <1>5, IssueKeeps, KeepsLocks DEF RightCode, Issue, AccountsInv, TypeOK, locks
<1> QED  BY <1>3, <1>4, <1>5

-----------------------------------------------------------------------------
LEMMA TimeKeeps == AccountsInv /\ (Tick \/ Restart \/ PendingCleanup) => AccountsInv'
<1>1. ASSUME AccountsInv, Tick PROVE AccountsInv'
  <2>1. now \in Nat /\ now' = now + 1 /\ now' \in Time
    BY <1>1, AccountsConstants DEF Tick, AccountsInv, TypeOK, Time
  <2>2. TypeOK'
    BY <1>1, <2>1 DEF Tick, AccountsInv, TypeOK, tokens, locks
  <2>3. ASSUME NEW t \in Tokens PROVE Matches(t)'
    <3>1. Matches(t) /\ (issued[t] # NoToken => issued[t].iat \in Int)
      BY <1>1, AccountsConstants DEF AccountsInv, SessionsMatch, TypeOK, Token, Time
    <3> QED
      BY <1>1, <2>1, <3>1, AccountsConstants DEF Tick, Matches, Known, InTime, IsRevoked, tokens
  <2>4. LocksMatch'
    BY <1>1, <2>1, AccountsConstants DEF Tick, AccountsInv, TypeOK, LocksMatch, Remembers, locks
  <2> QED  BY <2>2, <2>3, <2>4 DEF AccountsInv, SessionsMatch
<1>2. ASSUME AccountsInv, Restart PROVE AccountsInv'
  <2>1. PICK f \in [Users -> Failures], S \in SUBSET Users :
          LoadFailures(f, S) /\ (S = Users \/ (f = lockouts /\ S = unsaved))
    <3>1. [u \in Users |-> NoFailures] \in [Users -> Failures]
      BY AccountsConstants DEF NoFailures, Failures
    <3>2. /\ lockouts \in [Users -> Failures] /\ unsaved \in SUBSET Users
          /\ Users \in SUBSET Users
      BY <1>2 DEF AccountsInv, TypeOK
    <3>3. CASE LoadFailures(lockouts, unsaved)
      BY <3>2, <3>3
    <3>4. CASE LoadFailures([u \in Users |-> NoFailures], Users)
      BY <3>1, <3>2, <3>4
    <3> QED  BY <1>2, <3>3, <3>4 DEF Restart
  <2>2. SessionsMatch'
    BY <1>2 DEF Restart, AccountsInv, SessionsMatch, Matches, Known
  <2>3. /\ misses' \in [Users -> 0 .. MaxCount] /\ barred' \in [Users -> Int]
    <3>1. /\ misses \in [Users -> 0 .. MaxCount] /\ barred \in [Users -> Int]
          /\ 0 \in 0 .. MaxCount /\ 0 \in Int
      BY <1>2, AccountsConstants DEF AccountsInv, TypeOK
    <3> QED  BY <2>1, <3>1 DEF LoadFailures
  <2>4. TypeOK'
    BY <1>2, <2>1, <2>3 DEF Restart, LoadFailures, AccountsInv, TypeOK
  <2>5. ASSUME NEW u \in Users PROVE Remembers(failed, u)' /\ Remembers(lockouts, u)'
    <3>1. /\ now' = now /\ now \in Nat /\ failed' = f /\ lockouts' = lockouts
          /\ f[u].count \in Nat /\ lockouts[u].count \in Nat
      BY <1>2, <2>1, AccountsConstants DEF Restart, LoadFailures, AccountsInv, TypeOK, Time, Failures
    <3>2. CASE u \in S
      <4>1. misses'[u] = 0 /\ barred'[u] = 0
        BY <2>1, <3>2 DEF LoadFailures
      <4> QED  BY <3>1, <4>1 DEF Remembers
    <3>3. CASE u \notin S
      <4>1. /\ misses'[u] = misses[u] /\ barred'[u] = barred[u]
            /\ f = lockouts /\ u \notin unsaved
        BY <2>1, <3>3 DEF LoadFailures
      <4>2. Remembers(lockouts, u)
        BY <1>2, <4>1 DEF AccountsInv, LocksMatch
      <4> QED  BY <3>1, <4>1, <4>2 DEF Remembers
    <3> QED  BY <3>2, <3>3
  <2> QED  BY <2>2, <2>4, <2>5 DEF AccountsInv, LocksMatch
<1>3. ASSUME AccountsInv, PendingCleanup PROVE AccountsInv'
  BY <1>3, KeepsTokens, KeepsLocks DEF PendingCleanup, AccountsInv, TypeOK, tokens, locks
<1> QED  BY <1>1, <1>2, <1>3

LEMMA AccountsStep == AccountsInv /\ [Next]_vars => AccountsInv'
<1> SUFFICES ASSUME AccountsInv, [Next]_vars PROVE AccountsInv'
  OBVIOUS
<1>1. CASE UNCHANGED vars
  BY <1>1, KeepsTokens, KeepsLocks DEF vars, AccountsInv, TypeOK, tokens, locks
<1>2. ASSUME NEW t \in Tokens, Use(t) \/ Revoke(t) PROVE AccountsInv'
  BY <1>2, UseKeeps, RevokeKeeps DEF Revoke
<1>3. ASSUME NEW u \in Users, NEW t \in Tokens, IssueUnregistered(t, u) PROVE AccountsInv'
  BY <1>3, IssueKeeps, KeepsLocks DEF IssueUnregistered, AccountsInv, TypeOK, locks
<1>4. ASSUME NEW u \in Users, DeleteUser(u) PROVE AccountsInv'
  BY <1>4, RevokeKeeps DEF DeleteUser
<1> QED
  BY <1>1, <1>2, <1>3, <1>4, LoginKeeps, CodeKeeps, TimeKeeps, CleanupKeeps DEF Next

(* The tables keep their types, restarts included.                         *)
THEOREM TypeCorrect == Spec => []TypeOK
<1>1. AccountsInv => TypeOK
  BY DEF AccountsInv
<1> QED  BY <1>1, AccountsInit, AccountsStep, PTL DEF Spec

(* A revoked token stays out until its own time is over, as long as the    *)
(* process lives: whatever is cleaned and registered anew.                 *)
THEOREM RevocationHolds == Spec => []RevokedStaysOut
<1>1. AccountsInv => RevokedStaysOut
  BY DEF AccountsInv, TypeOK, SessionsMatch, Matches, RevokedStaysOut, Accepted
<1> QED  BY <1>1, AccountsInit, AccountsStep, PTL DEF Spec

(* A lock lasts its time, through every restart but one that finds it not  *)
(* saved because a save failed, or cannot read the file.                   *)
THEOREM LockoutHolds == Spec => []LockSurvives
<1>1. ASSUME AccountsInv, NEW u \in Users, now < barred[u] PROVE IsLocked(u)
  <2>1. now \in Int /\ barred[u] \in Int /\ failed[u].until \in Int /\ barred[u] <= failed[u].until
    BY <1>1, AccountsConstants DEF AccountsInv, TypeOK, Time, Failures, LocksMatch, Remembers
  <2> QED  BY <1>1, <2>1 DEF IsLocked
<1>2. AccountsInv => LockSurvives
  BY <1>1 DEF LockSurvives
<1> QED  BY <1>2, AccountsInit, AccountsStep, PTL DEF Spec
=============================================================================
