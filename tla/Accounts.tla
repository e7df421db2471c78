------------------------------ MODULE Accounts ------------------------------
(***************************************************************************)
(* Tokens, sessions and lockouts: session_manager.py, the lockout part of  *)
(* security_hardening.py and the login handlers of app.py                  *)
(* (all in src/ankavm/backend).                                            *)
(*                                                                         *)
(* A token (JWT) carries its user and its time and is checked without any  *)
(* record.  What can make it invalid before its time is the session table, *)
(* which is kept in memory, where an unknown token counts as good and is   *)
(* entered at its first use, and which is cleaned by age.  Failed logins   *)
(* are counted in memory and on disk.  A handler runs to its end on the    *)
(* hub; the two cleaning threads hold the lock of what they clean.         *)
(*                                                                         *)
(* Whether a password or a code is right is a choice, and so is whether a  *)
(* user has a second factor.  The lockout file is written atomically; a    *)
(* write that fails is only logged, and a file that cannot be read counts  *)
(* as one without entries.                                                 *)
(***************************************************************************)
EXTENDS Integers

CONSTANTS
  Users, Tokens, Temps,
  MaxTime,      \* the end of time (bound)
  MaxCount,     \* how many failures are counted (bound)
  Expiry,       \* a token's life
  Retention,    \* a session's age at which it is removed
  PendingTtl,   \* the life of a temporary token
  LockTime, Threshold,
  Faults,       \* what may fail: "save" and "load" of the lockout file
  NoToken, NoSession, NoPending

Time     == 0 .. MaxTime
Token    == [user : Users, iat : Time]
Session  == [user : Users, created : Time, revoked : BOOLEAN]
Pending  == [user : Users, expires : Int]
Failures == [count : 0 .. MaxCount, until : Int]

ASSUME AccountsConstants ==
  /\ MaxTime \in Nat /\ MaxCount \in Nat
  /\ Expiry \in Nat /\ Retention \in Nat /\ Expiry <= Retention
  /\ PendingTtl \in Nat /\ LockTime \in Nat /\ Threshold \in Nat \ {0}
  /\ NoToken \notin Token /\ NoSession \notin Session /\ NoPending \notin Pending

VARIABLES
  now,
  issued,    \* the tokens handed out
  sessions,  \* session_manager._sessions
  pending,   \* app._2fa_pending
  failed,    \* security_hardening._failed_logins
  lockouts,  \* lockouts.json
  revoked,   \* history: the tokens revoked since the process started
  unsaved,   \* history: whose last change no save has written
  misses,    \* history: a user's failures in a row, since a restart that lost them
  barred     \* history: until when a user's password must not be tried

vars == <<now, issued, sessions, pending, failed, lockouts, revoked, unsaved, misses, barred>>
tokens == <<issued, sessions, revoked>>
locks == <<failed, lockouts, unsaved, misses, barred>>

NoFailures == [count |-> 0, until |-> 0]

TypeOK ==
  /\ now \in Time
  /\ issued \in [Tokens -> Token \cup {NoToken}]
  /\ sessions \in [Tokens -> Session \cup {NoSession}]
  /\ pending \in [Temps -> Pending \cup {NoPending}]
  /\ failed \in [Users -> Failures] /\ lockouts \in [Users -> Failures]
  /\ revoked \subseteq Tokens /\ unsaved \subseteq Users
  /\ misses \in [Users -> 0 .. MaxCount] /\ barred \in [Users -> Int]

Init ==
  /\ now = 0
  /\ issued = [t \in Tokens |-> NoToken]
  /\ sessions = [t \in Tokens |-> NoSession]
  /\ pending = [p \in Temps |-> NoPending]
  /\ failed = [u \in Users |-> NoFailures]
  /\ lockouts = failed
  /\ revoked = {} /\ unsaved = {}
  /\ misses = [u \in Users |-> 0]
  /\ barred = [u \in Users |-> 0]

-----------------------------------------------------------------------------
(* Tokens and sessions.                                                    *)

Fresh(u) == [user |-> u, created |-> now, revoked |-> FALSE]

Known(t) == sessions[t] # NoSession

InTime(t) == issued[t] # NoToken /\ now < issued[t].iat + Expiry

IsRevoked(t) == Known(t) /\ sessions[t].revoked

Accepted(t) == InTime(t) /\ ~IsRevoked(t)

Issue(t, u) ==
  /\ issued[t] = NoToken
  /\ issued' = [issued EXCEPT ![t] = [user |-> u, iat |-> now]]
  /\ sessions' = [sessions EXCEPT ![t] = Fresh(u)]
  /\ UNCHANGED revoked

(* The recovery and the single-sign-on handlers register no session.       *)
IssueUnregistered(t, u) ==
  /\ issued[t] = NoToken
  /\ issued' = [issued EXCEPT ![t] = [user |-> u, iat |-> now]]
  /\ UNCHANGED <<now, sessions, pending, revoked, locks>>

(* require_auth: an unknown session is registered, a known one touched,    *)
(* which changes only last_seen.                                           *)
Use(t) ==
  /\ Accepted(t) /\ ~Known(t)
  /\ sessions' = [sessions EXCEPT ![t] = Fresh(issued[t].user)]
  /\ UNCHANGED <<now, issued, pending, revoked, locks>>

RevokeAll(S) ==
  /\ sessions' = [t \in Tokens |-> IF t \in S THEN [sessions[t] EXCEPT !.revoked = TRUE]
                                              ELSE sessions[t]]
  /\ revoked' = revoked \cup S
  /\ UNCHANGED <<now, issued, pending, locks>>

(* Logging out, and revoking by an administrator: the session if there is one. *)
Revoke(t) == Known(t) /\ RevokeAll({t})

DeleteUser(u) == RevokeAll({t \in Tokens : Known(t) /\ sessions[t].user = u})

(* Mutant: what is revoked is removed at once. *)
CleanupMut ==
  /\ sessions' = [t \in Tokens |-> IF IsRevoked(t) THEN NoSession ELSE sessions[t]]
  /\ UNCHANGED <<now, issued, pending, revoked, locks>>

Cleanup ==
  /\ sessions' = [t \in Tokens |->
       IF Known(t) /\ now - sessions[t].created > Retention THEN NoSession ELSE sessions[t]]
  /\ UNCHANGED <<now, issued, pending, revoked, locks>>

-----------------------------------------------------------------------------
(* Lockouts.                                                               *)

IsLocked(u) == failed[u].until > now

(* is_account_locked drops the entry of a lock that has ended.             *)
Counted(u) == IF failed[u].until > 0 /\ ~IsLocked(u) THEN NoFailures ELSE failed[u]

Another(f) == [count |-> f.count + 1,
               until |-> IF f.count + 1 >= Threshold THEN now + LockTime ELSE f.until]

(* The whole table is saved with every change but that of an unlock; a     *)
(* save that fails leaves the file as it was.                              *)
SetFailures(u, f) ==
  /\ failed' = [failed EXCEPT ![u] = f]
  /\ \/ lockouts' = failed' /\ unsaved' = {}
     \/ "save" \in Faults /\ UNCHANGED lockouts /\ unsaved' = unsaved \cup {u}

(* Mutant: a failure is saved only when it locks the account. *)
FailMut(u, f, row) ==
  /\ f.count < MaxCount /\ row < MaxCount
  /\ failed' = [failed EXCEPT ![u] = Another(f)]
  /\ lockouts' = IF f.count + 1 >= Threshold THEN failed' ELSE lockouts
  /\ UNCHANGED unsaved
  /\ misses' = [misses EXCEPT ![u] = row + 1]
  /\ barred' = [barred EXCEPT ![u] = IF row + 1 >= Threshold THEN now + LockTime ELSE @]

Fail(u, f, row) ==
  /\ f.count < MaxCount /\ row < MaxCount
  /\ SetFailures(u, Another(f))
  /\ misses' = [misses EXCEPT ![u] = row + 1]
  /\ barred' = [barred EXCEPT ![u] = IF row + 1 >= Threshold THEN now + LockTime ELSE @]

(* The entry is not written to disk: a restart brings the lock back.       *)
Unlock(u) ==
  /\ failed' = [failed EXCEPT ![u] = NoFailures]
  /\ misses' = [misses EXCEPT ![u] = 0]
  /\ barred' = [barred EXCEPT ![u] = 0]
  /\ UNCHANGED <<now, issued, sessions, pending, lockouts, revoked, unsaved>>

-----------------------------------------------------------------------------
(* Logging in, with a password and with a code.                            *)

WrongPassword(u) ==
  /\ ~IsLocked(u)
  /\ Fail(u, Counted(u), IF failed[u].until > 0 THEN 0 ELSE misses[u])
  /\ UNCHANGED <<now, tokens, pending>>

Succeed(u) ==
  /\ ~IsLocked(u)
  /\ SetFailures(u, NoFailures)
  /\ misses' = [misses EXCEPT ![u] = 0]
  /\ barred' = [barred EXCEPT ![u] = 0]

Login(u, t) == Succeed(u) /\ Issue(t, u) /\ UNCHANGED <<now, pending>>

LoginPending(u, p) ==
  /\ Succeed(u)
  /\ pending[p] = NoPending
  /\ pending' = [pending EXCEPT ![p] = [user |-> u, expires |-> now + PendingTtl]]
  /\ UNCHANGED <<now, tokens>>

(* The temporary token is gone whatever the answer is.                     *)
Take(p) ==
  /\ pending[p] # NoPending
  /\ pending' = [pending EXCEPT ![p] = NoPending]
  /\ UNCHANGED now

InTimePending(p) == now <= pending[p].expires

TooLate(p) == Take(p) /\ ~InTimePending(p) /\ UNCHANGED <<tokens, locks>>

RightCode(p, t) ==
  /\ Take(p) /\ InTimePending(p)
  /\ Issue(t, pending[p].user)
  /\ UNCHANGED locks

WrongCode(p) ==
  /\ Take(p) /\ InTimePending(p)
  /\ LET u == pending[p].user IN Fail(u, failed[u], misses[u])
  /\ UNCHANGED tokens

PendingCleanup ==
  /\ pending' = [p \in Temps |->
       IF pending[p] # NoPending /\ pending[p].expires < now THEN NoPending ELSE pending[p]]
  /\ UNCHANGED <<now, tokens, locks>>

-----------------------------------------------------------------------------
Tick ==
  /\ now < MaxTime
  /\ now' = now + 1
  /\ UNCHANGED <<tokens, pending, locks>>

(* Mutant: the counts are restored, the times are not. *)
RestartMut ==
  /\ sessions' = [t \in Tokens |-> NoSession]
  /\ pending' = [p \in Temps |-> NoPending]
  /\ revoked' = {}
  /\ failed' = [u \in Users |-> [count |-> 0]]
  /\ UNCHANGED <<now, issued, lockouts, unsaved, misses, barred>>

(* The table f is loaded, which has lost the failures of the users in S.   *)
LoadFailures(f, S) ==
  /\ failed' = f
  /\ misses' = [u \in Users |-> IF u \in S THEN 0 ELSE misses[u]]
  /\ barred' = [u \in Users |-> IF u \in S THEN 0 ELSE barred[u]]

(* The process is killed and started again.                                *)
Restart ==
  /\ sessions' = [t \in Tokens |-> NoSession]
  /\ pending' = [p \in Temps |-> NoPending]
  /\ revoked' = {} /\ unsaved' = {}
  /\ \/ LoadFailures(lockouts, unsaved)
     \/ "load" \in Faults /\ LoadFailures([u \in Users |-> NoFailures], Users)
  /\ UNCHANGED <<now, issued, lockouts>>

Next ==
  \/ \E t \in Tokens : Use(t) \/ Revoke(t)
  \/ \E u \in Users, t \in Tokens : Login(u, t) \/ IssueUnregistered(t, u)
  \/ \E u \in Users : WrongPassword(u) \/ DeleteUser(u) \/ Unlock(u)
  \/ \E u \in Users, p \in Temps : LoginPending(u, p)
  \/ \E p \in Temps : TooLate(p) \/ WrongCode(p) \/ \E t \in Tokens : RightCode(p, t)
  \/ Cleanup \/ PendingCleanup \/ Tick \/ Restart

Spec == Init /\ [][Next]_vars

-----------------------------------------------------------------------------
(* A token that was revoked is never accepted again while the process      *)
(* lives: neither the cleaning of the table nor the entering of unknown    *)
(* tokens at their first use brings it back before its own time is over.   *)
RevokedStaysOut == \A t \in revoked : ~Accepted(t)

(* After Threshold failures in a row no password is tried until LockTime   *)
(* has passed or the account is unlocked, whenever the process is          *)
(* restarted and whichever failures were wrong codes.  A row begins anew   *)
(* only at a restart that could not read the file, or that came when the   *)
(* user's last change had not been saved because a save had failed: a      *)
(* failing save alone does not open a lock, and the next one makes up      *)
(* for it.                                                                 *)
LockSurvives == \A u \in Users : now < barred[u] => IsLocked(u)
=============================================================================
