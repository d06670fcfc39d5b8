--------------------------- MODULE Authentication ---------------------------
(***************************************************************************)
(* The administrator's password and sessions (AuthService).  Requests      *)
(* overlap: reading the administrator, checking the password and writing   *)
(* are steps apart, and so are loading, touching and deleting a session.   *)
(*                                                                         *)
(* A wrong user name counts as a wrong password; the two counters of       *)
(* failed logins, by address and by address and name, are one.             *)
(***************************************************************************)
EXTENDS Integers, FiniteSets

CONSTANTS
  Passwords, NoPassword,
  Sessions, NoSession,
  Requests,
  MAX_FAILURES,
  MaxEvents

AuthAssumption ==
  /\ NoPassword \notin Passwords /\ NoSession \notin Sessions
  /\ MAX_FAILURES \in Nat \ {0} /\ MaxEvents \in Nat

VARIABLES
  admin,       \* AdminUser, of which there is at most one
  sessions,    \* AdminSession; a cookie names a session for ever
  requests,
  attempts,    \* LoginAttemptService
  overlapped,  \* history: a password was changed between another change's read and write
  events

vars == <<admin, sessions, requests, attempts, overlapped, events>>

-----------------------------------------------------------------------------
NoAdmin == [password |-> NoPassword, version |-> 0]
Unused == [state |-> "unused", version |-> 0, stale |-> FALSE, expired |-> FALSE,
           password |-> NoPassword]  \* history: the one the session was started with
Deleted == [Unused EXCEPT !.state = "deleted"]
NoAttempts == [failures |-> 0, blocked |-> FALSE]
Idle == [op |-> "none", pc |-> "idle", session |-> NoSession, given |-> NoPassword,
         next |-> NoPassword, read |-> NoAdmin]

Happens == events < MaxEvents /\ events' = events + 1

Live(s) == sessions[s].state = "live"
At(r, op, pc) == requests[r].op = op /\ requests[r].pc = pc
Goto(r, pc) == requests' = [requests EXCEPT ![r].pc = pc]
Responds(r) == requests' = [requests EXCEPT ![r] = Idle]

\* recordFailure: from the fifth on, for a minute from the last.
OneFailureMore ==
  LET n == IF attempts.failures < MAX_FAILURES THEN attempts.failures + 1 ELSE attempts.failures
  IN [failures |-> n, blocked |-> n = MAX_FAILURES]

-----------------------------------------------------------------------------
Init ==
  /\ admin = NoAdmin
  /\ sessions = [s \in Sessions |-> Unused]
  /\ requests = [r \in Requests |-> Idle]
  /\ attempts = NoAttempts
  /\ overlapped = FALSE
  /\ events = 0

\* bootstrapAdmin, once the password is hashed: the unique key lets one through.
Bootstrap(r, p) ==
  /\ requests[r].pc = "idle"
  /\ Happens
  /\ admin = NoAdmin
  /\ admin' = [password |-> p, version |-> 1]
  /\ requests' = [requests EXCEPT ![r] =
       [Idle EXCEPT !.op = "bootstrap", !.pc = "start", !.given = p, !.read = admin']]
  /\ UNCHANGED <<sessions, attempts, overlapped>>

\* login: assertLoginAllowed, and the administrator is read.
Login(r, p) ==
  /\ requests[r].pc = "idle"
  /\ Happens
  /\ admin # NoAdmin
  /\ ~attempts.blocked
  /\ requests' = [requests EXCEPT ![r] =
       [Idle EXCEPT !.op = "login", !.pc = "verify", !.given = p, !.read = admin]]
  /\ UNCHANGED <<admin, sessions, attempts, overlapped>>

VerifyLogin(r) ==
  /\ At(r, "login", "verify")
  /\ IF requests[r].given = requests[r].read.password
     THEN attempts' = NoAttempts /\ Goto(r, "start")
     ELSE attempts' = OneFailureMore /\ Responds(r)
  /\ UNCHANGED <<admin, sessions, overlapped, events>>

\* startSession, with the session version that was read.
StartSession(r, s) ==
  /\ requests[r].pc = "start"
  /\ sessions[s] = Unused
  /\ sessions' = [sessions EXCEPT ![s] =
       [Unused EXCEPT !.state = "live", !.version = requests[r].read.version,
                      !.password = requests[r].given]]
  /\ Responds(r)
  /\ UNCHANGED <<admin, attempts, overlapped, events>>

\* resolveRequestAuth of any request with a session's cookie: one that is expired, or
\* of another version, is deleted; one not seen for a while is touched.
LoadSession(r, op, s, given, next) ==
  /\ requests[r].pc = "idle"
  /\ Happens
  /\ Live(s)
  /\ requests' = [requests EXCEPT ![r] =
       [Idle EXCEPT !.op = op, !.session = s, !.given = given, !.next = next,
                    !.pc = IF sessions[s].expired \/ sessions[s].version # admin.version THEN "drop"
                           ELSE IF sessions[s].stale THEN "touch" ELSE "authenticated"]]
  /\ UNCHANGED <<admin, sessions, attempts, overlapped>>

DropSession(r) ==
  /\ requests[r].pc = "drop"
  /\ sessions' = [sessions EXCEPT ![requests[r].session] = Deleted]
  /\ Responds(r)
  /\ UNCHANGED <<admin, attempts, overlapped, events>>

\* touchSessionIfNeeded; the update fails when the session was deleted meanwhile.
TouchSession(r) ==
  LET s == requests[r].session
  IN /\ requests[r].pc = "touch"
     /\ IF Live(s)
        THEN /\ sessions' = [sessions EXCEPT ![s].stale = FALSE, ![s].expired = FALSE]
             /\ Goto(r, "authenticated")
        ELSE Responds(r) /\ UNCHANGED sessions
     /\ UNCHANGED <<admin, attempts, overlapped, events>>

\* A request that needs no more than to be authenticated.
Serve(r) ==
  /\ At(r, "request", "authenticated")
  /\ Responds(r)
  /\ UNCHANGED <<admin, sessions, attempts, overlapped, events>>

Logout(r) ==
  /\ At(r, "logout", "authenticated")
  /\ sessions' = [sessions EXCEPT ![requests[r].session] = Deleted]
  /\ Responds(r)
  /\ UNCHANGED <<admin, attempts, overlapped, events>>

\* changePassword: the administrator is read...
ReadForChange(r) ==
  /\ At(r, "change", "authenticated")
  /\ requests' = [requests EXCEPT ![r].pc = "verify", ![r].read = admin]
  /\ UNCHANGED <<admin, sessions, attempts, overlapped, events>>

\* ...the current password checked...
VerifyChange(r) ==
  /\ At(r, "change", "verify")
  /\ IF requests[r].given = requests[r].read.password /\ requests[r].next # requests[r].given
     THEN Goto(r, "commit") ELSE Responds(r)
  /\ UNCHANGED <<admin, sessions, attempts, overlapped, events>>

\* Fault: the session version stays, for the other sessions are deleted anyway.
CommitChangeSameVersion(r) ==
  LET q == requests[r]
  IN /\ At(r, "change", "commit")
     /\ IF Live(q.session)
        THEN /\ admin' = [admin EXCEPT !.password = q.next]
             /\ sessions' = [s \in Sessions |->
                  IF s = q.session THEN [sessions[s] EXCEPT !.password = q.next]
                  ELSE IF Live(s) THEN Deleted ELSE sessions[s]]
             /\ overlapped' = (overlapped \/ admin # q.read)
        ELSE UNCHANGED <<admin, sessions, overlapped>>
     /\ Responds(r)
     /\ UNCHANGED <<attempts, events>>

\* ...and one transaction stores the new one, carries the session over to the next
\* version and deletes the others.  It rolls back when the session is gone.
CommitChange(r) ==
  LET q == requests[r]
      version == q.read.version + 1
  IN /\ At(r, "change", "commit")
     /\ IF Live(q.session)
        THEN /\ admin' = [password |-> q.next, version |-> version]
             /\ sessions' = [s \in Sessions |->
                  IF s = q.session
                  THEN [state |-> "live", version |-> version, stale |-> FALSE,
                        expired |-> FALSE, password |-> q.next]
                  ELSE IF Live(s) THEN Deleted ELSE sessions[s]]
             /\ overlapped' = (overlapped \/ admin # q.read)
        ELSE UNCHANGED <<admin, sessions, overlapped>>
     /\ Responds(r)
     /\ UNCHANGED <<attempts, events>>

\* A quarter of an hour, or thirty days, since the session was last seen.
TimePasses(s) ==
  /\ Live(s)
  /\ Happens
  /\ sessions' = [sessions EXCEPT ![s].stale = TRUE, ![s].expired = sessions[s].stale]
  /\ UNCHANGED <<admin, requests, attempts, overlapped>>

\* The first login after the cooldown forgets the failures.
CooldownEnds ==
  /\ attempts.blocked
  /\ attempts' = NoAttempts
  /\ UNCHANGED <<admin, sessions, requests, overlapped, events>>

\* Attempts are in memory only.
Restart ==
  /\ Happens
  /\ requests' = [r \in Requests |-> Idle]
  /\ attempts' = NoAttempts
  /\ UNCHANGED <<admin, sessions, overlapped>>

Next ==
  \/ \E r \in Requests :
       \/ \E p \in Passwords : Bootstrap(r, p) \/ Login(r, p)
       \/ VerifyLogin(r) \/ \E s \in Sessions : StartSession(r, s)
       \/ \E s \in Sessions :
            \/ \E op \in {"request", "logout"} : LoadSession(r, op, s, NoPassword, NoPassword)
            \/ \E p, q \in Passwords : LoadSession(r, "change", s, p, q)
       \/ DropSession(r) \/ TouchSession(r) \/ Serve(r) \/ Logout(r)
       \/ ReadForChange(r) \/ VerifyChange(r) \/ CommitChange(r)
  \/ \E s \in Sessions : TimePasses(s)
  \/ CooldownEnds \/ Restart

-----------------------------------------------------------------------------
TypeOK ==
  /\ admin.password \in Passwords \cup {NoPassword} /\ admin.version \in Nat
  /\ \A s \in Sessions :
       /\ sessions[s].state \in {"unused", "live", "deleted"}
       /\ {sessions[s].stale, sessions[s].expired} \subseteq BOOLEAN
       /\ Live(s) => sessions[s].version \in Nat \ {0}
  /\ \A r \in Requests :
       requests[r].pc \in {"start", "verify", "commit", "touch", "drop", "authenticated"}
         => requests[r].op # "none"
  /\ attempts.failures \in 0..MAX_FAILURES
  /\ attempts.blocked <=> attempts.failures = MAX_FAILURES

\* A session that is let in was started with the password in force, or is the one that
\* set it, however logins, logouts and the change overlap: a login that checked the old
\* password and starts its session after the change is not let in.  Two changes that
\* overlap write the same version and are left out.
OldPasswordsOut ==
  ~overlapped =>
    \A s \in Sessions :
      Live(s) /\ sessions[s].version = admin.version => sessions[s].password = admin.password
=============================================================================
