------------------------------ MODULE Pages_proofs ------------------------------
(***************************************************************************)
(* The parts of Pages for every value of their constants.                  *)
(***************************************************************************)
EXTENDS Pages, FiniteSetTheorems, SequenceTheorems, WellFoundedInduction, TLAPS

-----------------------------------------------------------------------------
(* Authentication. *)

AdminType == [password : Passwords \cup {NoPassword}, version : Nat]

SessionType ==
  [state : {"unused", "live", "deleted"}, version : Nat, stale : BOOLEAN, expired : BOOLEAN,
   password : Passwords \cup {NoPassword}]

RequestType ==
  [op : {"none", "bootstrap", "login", "request", "logout", "change"},
   pc : {"idle", "start", "verify", "commit", "touch", "drop", "authenticated"},
   session : Sessions \cup {NoSession},
   given : Passwords \cup {NoPassword}, next : Passwords \cup {NoPassword}, read : AdminType]

\* Only before the bootstrap is the version zero.
AdminOK == admin \in AdminType /\ (admin.version = 0 => admin = Auth!NoAdmin)

SessionOK(x) == x \in SessionType /\ (x.state = "live" => x.version # 0)

\* A request that may start a session has given the password that it has read.
RequestOK(q) ==
  /\ q \in RequestType
  /\ q.pc # "idle" => q.op # "none"
  /\ q.pc # "idle" /\ q.op \in {"request", "logout", "change"} => q.session \in Sessions
  /\ q.pc \in {"touch", "drop"} => q.session \in Sessions
  /\ q.pc = "verify" /\ q.op = "login" => q.read.version # 0
  /\ q.pc = "start" => q.given = q.read.password /\ q.read.version # 0

\* What was read of the administrator is the one in force, or of an earlier version.
Seen(read, a) == read.version <= a.version /\ (read.version = a.version => read = a)

\* A session is of the password in force, or of an earlier version.
Owned(x, a) ==
  x.state = "live" =>
    x.version <= a.version /\ (x.version = a.version => x.password = a.password)

ReadsSeen == \A r \in Requests : Seen(requests[r].read, admin)
SessionsOwned == \A s \in Sessions : Owned(sessions[s], admin)

AttemptsOK ==
  /\ attempts \in [failures : 0..MAX_FAILURES, blocked : BOOLEAN]
  /\ attempts.blocked <=> attempts.failures = MAX_FAILURES

AuthInv ==
  /\ AdminOK
  /\ sessions \in [Sessions -> SessionType] /\ \A s \in Sessions : SessionOK(sessions[s])
  /\ requests \in [Requests -> RequestType] /\ \A r \in Requests : RequestOK(requests[r])
  /\ AttemptsOK
  /\ overlapped \in BOOLEAN
  /\ ~overlapped => ReadsSeen /\ SessionsOwned

LEMMA AuthConstants ==
  NoPassword \notin Passwords /\ NoSession \notin Sessions /\ MAX_FAILURES \in Nat \ {0}
BY PagesAssumption DEF Auth!AuthAssumption

LEMMA AuthImplies == AuthInv => Auth!TypeOK /\ Auth!OldPasswordsOut
<1> SUFFICES ASSUME AuthInv PROVE Auth!TypeOK /\ Auth!OldPasswordsOut
  OBVIOUS
<1>1. Auth!TypeOK
  <2>1. admin.password \in Passwords \cup {NoPassword} /\ admin.version \in Nat
    BY DEF AuthInv, AdminOK, AdminType
  <2>2. ASSUME NEW s \in Sessions
        PROVE  /\ sessions[s].state \in {"unused", "live", "deleted"}
               /\ {sessions[s].stale, sessions[s].expired} \subseteq BOOLEAN
               /\ Auth!Live(s) => sessions[s].version \in Nat \ {0}
    BY DEF AuthInv, SessionOK, SessionType, Auth!Live
  <2>3. ASSUME NEW r \in Requests, requests[r].pc # "idle" PROVE requests[r].op # "none"
    BY <2>3 DEF AuthInv, RequestOK
  <2>4. attempts.failures \in 0..MAX_FAILURES /\ (attempts.blocked <=> attempts.failures = MAX_FAILURES)
    BY DEF AuthInv, AttemptsOK
  <2> QED
    BY <2>1, <2>2, <2>3, <2>4 DEF Auth!TypeOK
<1>2. Auth!OldPasswordsOut
  BY DEF AuthInv, SessionsOwned, Owned, Auth!OldPasswordsOut, Auth!Live
<1> QED
  BY <1>1, <1>2

LEMMA IdleOK == Auth!Idle \in RequestType /\ RequestOK(Auth!Idle)
BY DEF RequestType, RequestOK, Auth!Idle, Auth!NoAdmin, AdminType

LEMMA DeletedOK ==
  /\ Auth!Deleted \in SessionType /\ Auth!Unused \in SessionType
  /\ Auth!Deleted.state = "deleted" /\ Auth!Unused.state = "unused"
BY DEF SessionType, Auth!Deleted, Auth!Unused

LEMMA AuthInit == Auth!Init => AuthInv
<1> SUFFICES ASSUME Auth!Init PROVE AuthInv
  OBVIOUS
<1>1. AdminOK
  BY DEF Auth!Init, Auth!NoAdmin, AdminOK, AdminType
<1>2. \A s \in Sessions : sessions[s] = Auth!Unused
  BY DEF Auth!Init
<1>3. \A r \in Requests : requests[r] = Auth!Idle
  BY DEF Auth!Init
<1>4. AttemptsOK /\ overlapped \in BOOLEAN
  <2>1. attempts = Auth!NoAttempts /\ overlapped = FALSE
    BY DEF Auth!Init
  <2> QED
    <3>1. /\ attempts.failures = 0 /\ attempts.blocked = FALSE
          /\ attempts \in [failures : {0}, blocked : BOOLEAN]
      BY <2>1 DEF Auth!NoAttempts
    <3>2. 0 \in 0..MAX_FAILURES /\ 0 # MAX_FAILURES
      BY AuthConstants
    <3> QED
      BY <2>1, <3>1, <3>2 DEF AttemptsOK
<1>5. sessions \in [Sessions -> SessionType] /\ \A s \in Sessions : SessionOK(sessions[s])
  BY <1>2, DeletedOK DEF Auth!Init, SessionOK
<1>6. requests \in [Requests -> RequestType] /\ \A r \in Requests : RequestOK(requests[r])
  BY <1>3, IdleOK DEF Auth!Init
<1>7. ReadsSeen
  BY <1>3 DEF Auth!Init, Auth!Idle, Auth!NoAdmin, ReadsSeen, Seen
<1>8. SessionsOwned
  BY <1>2, DeletedOK DEF SessionsOwned, Owned
<1> QED
  BY <1>1, <1>4, <1>5, <1>6, <1>7, <1>8 DEF AuthInv

KeepAuth == UNCHANGED <<admin, sessions, requests, attempts, overlapped>>

LEMMA AuthKept == AuthInv /\ KeepAuth => AuthInv'
BY DEF AuthInv, KeepAuth, AdminOK, AttemptsOK, ReadsSeen, SessionsOwned

\* One request goes on while administrator and sessions stay.
LEMMA RequestMoves ==
  ASSUME AuthInv, NEW r \in Requests, NEW q, RequestOK(q), ~overlapped => Seen(q.read, admin),
         requests' = [requests EXCEPT ![r] = q]
  PROVE  /\ requests' \in [Requests -> RequestType]
         /\ \A x \in Requests : RequestOK(requests[x])'
         /\ ~overlapped => \A x \in Requests : Seen(requests'[x].read, admin)
<1>1. \A x \in Requests : requests'[x] = IF x = r THEN q ELSE requests[x]
  BY DEF AuthInv
<1>2. q \in RequestType
  BY DEF RequestOK
<1>3. requests' \in [Requests -> RequestType]
  BY <1>2 DEF AuthInv
<1>4. \A x \in Requests : RequestOK(requests'[x])
  BY <1>1 DEF AuthInv
<1>5. ~overlapped => \A x \in Requests : Seen(requests'[x].read, admin)
  BY <1>1 DEF AuthInv, ReadsSeen
<1> QED
  BY <1>3, <1>4, <1>5 DEF RequestOK

\* Nothing else changes.
LEMMA RequestStep ==
  ASSUME AuthInv, NEW r \in Requests, NEW q, RequestOK(q), ~overlapped => Seen(q.read, admin),
         requests' = [requests EXCEPT ![r] = q], AttemptsOK',
         UNCHANGED <<admin, sessions, overlapped>>
  PROVE  AuthInv'
<1>1. /\ requests' \in [Requests -> RequestType]
      /\ (\A x \in Requests : RequestOK(requests[x]))'
      /\ ~overlapped => ReadsSeen'
  BY RequestMoves DEF ReadsSeen
<1> QED
  BY <1>1 DEF AuthInv, AdminOK, SessionsOwned

\* An answered request, beside a change of one session.
LEMMA SessionStep ==
  ASSUME AuthInv, NEW r \in Requests, NEW q, RequestOK(q), ~overlapped => Seen(q.read, admin),
         requests' = [requests EXCEPT ![r] = q],
         NEW s \in Sessions, NEW x, SessionOK(x), ~overlapped => Owned(x, admin),
         sessions' = [sessions EXCEPT ![s] = x],
         UNCHANGED <<admin, attempts, overlapped>>
  PROVE  AuthInv'
<1>1. /\ requests' \in [Requests -> RequestType]
      /\ (\A y \in Requests : RequestOK(requests[y]))'
      /\ ~overlapped => ReadsSeen'
  BY RequestMoves DEF ReadsSeen
<1>2. \A y \in Sessions : sessions'[y] = IF y = s THEN x ELSE sessions[y]
  BY DEF AuthInv
<1>3. sessions' \in [Sessions -> SessionType] /\ (\A y \in Sessions : SessionOK(sessions[y]))'
  BY <1>2 DEF AuthInv, SessionOK
<1>4. ~overlapped => SessionsOwned'
  BY <1>2 DEF AuthInv, SessionsOwned
<1> QED
  BY <1>1, <1>3, <1>4 DEF AuthInv, AdminOK, AttemptsOK

LEMMA IdleSeen == AuthInv => Seen(Auth!Idle.read, admin)
BY DEF AuthInv, AdminOK, AdminType, Seen, Auth!Idle, Auth!NoAdmin

LEMMA AttemptsKept == AuthInv /\ UNCHANGED attempts => AttemptsOK'
BY DEF AuthInv, AttemptsOK

LEMMA NoAttemptsOK == attempts' = Auth!NoAttempts => AttemptsOK'
BY AuthConstants DEF AttemptsOK, Auth!NoAttempts

LEMMA BootstrapOK ==
  ASSUME AuthInv, NEW r \in Requests, NEW p \in Passwords, Auth!Bootstrap(r, p)
  PROVE  AuthInv'
<1> DEFINE a == [password |-> p, version |-> 1]
           q == [Auth!Idle EXCEPT !.op = "bootstrap", !.pc = "start", !.given = p, !.read = a]
<1>1. /\ requests[r].pc = "idle" /\ admin = Auth!NoAdmin
      /\ admin' = a
      /\ requests' = [requests EXCEPT ![r] = q]
      /\ UNCHANGED <<sessions, attempts, overlapped>>
  BY DEF Auth!Bootstrap
<1>2. q.read = a /\ RequestOK(q)
  <2>1. a \in AdminType
    BY DEF AdminType
  <2>2. q \in RequestType
    BY <2>1 DEF RequestType, Auth!Idle, Auth!NoAdmin
  <2>3. q.pc = "start" /\ q.op = "bootstrap" /\ q.given = p /\ q.read = a
    BY DEF Auth!Idle
  <2> HIDE DEF q
  <2> QED
    BY <2>2, <2>3 DEF RequestOK
<1>3. \A x \in Requests : requests'[x] = IF x = r THEN q ELSE requests[x]
  BY <1>1 DEF AuthInv
<1>4. requests' \in [Requests -> RequestType] /\ (\A x \in Requests : RequestOK(requests[x]))'
  <2> HIDE DEF q
  <2>1. q \in RequestType
    BY <1>2 DEF RequestOK
  <2> QED
    BY <1>1, <1>2, <1>3, <2>1 DEF AuthInv
<1>5. AdminOK'
  BY <1>1 DEF AdminOK, AdminType
<1>6. ~overlapped => ReadsSeen'
  <2> HIDE DEF q
  <2>1. ASSUME ~overlapped, NEW x \in Requests PROVE Seen(requests'[x].read, admin')
    <3>1. CASE x = r
      BY <1>1, <1>2, <1>3, <3>1 DEF Seen
    <3>2. CASE x # r
      <4>1. requests[x].read \in AdminType /\ Seen(requests[x].read, admin)
        BY <2>1 DEF AuthInv, ReadsSeen, RequestType
      <4> QED
        BY <1>1, <1>3, <3>2, <4>1 DEF Seen, AdminType, Auth!NoAdmin
    <3> QED
      BY <3>1, <3>2
  <2> QED
    BY <2>1 DEF ReadsSeen
<1>7. ~overlapped => SessionsOwned'
  <2>1. ASSUME ~overlapped, NEW s \in Sessions PROVE Owned(sessions[s], admin')
    <3>1. SessionOK(sessions[s]) /\ Owned(sessions[s], admin)
      BY <2>1 DEF AuthInv, SessionsOwned
    <3> QED
      BY <1>1, <3>1 DEF Owned, SessionOK, SessionType, Auth!NoAdmin
  <2> QED
    BY <1>1, <2>1 DEF SessionsOwned
<1> QED
  BY <1>1, <1>4, <1>5, <1>6, <1>7, AttemptsKept DEF AuthInv

LEMMA LoginOK ==
  ASSUME AuthInv, NEW r \in Requests, NEW p \in Passwords, Auth!Login(r, p)
  PROVE  AuthInv'
<1> DEFINE q == [Auth!Idle EXCEPT !.op = "login", !.pc = "verify", !.given = p, !.read = admin]
<1>1. /\ admin # Auth!NoAdmin /\ requests' = [requests EXCEPT ![r] = q]
      /\ UNCHANGED <<admin, sessions, attempts, overlapped>>
  BY DEF Auth!Login
<1>2. admin \in AdminType /\ admin.version # 0
  BY <1>1 DEF AuthInv, AdminOK
<1>3. q.read = admin /\ RequestOK(q)
  BY <1>2 DEF RequestOK, RequestType, Auth!Idle
<1>4. Seen(q.read, admin)
  BY <1>2, <1>3 DEF Seen, AdminType
<1> QED
  BY <1>1, <1>3, <1>4, AttemptsKept, RequestStep

LEMMA VerifyLoginOK ==
  ASSUME AuthInv, NEW r \in Requests, Auth!VerifyLogin(r)
  PROVE  AuthInv'
<1>1. RequestOK(requests[r]) /\ (~overlapped => Seen(requests[r].read, admin))
  BY DEF AuthInv, ReadsSeen
<1>2. requests[r].op = "login" /\ requests[r].pc = "verify"
  BY DEF Auth!VerifyLogin, Auth!At
<1>3. CASE requests[r].given = requests[r].read.password
  <2> DEFINE q == [requests[r] EXCEPT !.pc = "start"]
  <2>1. attempts' = Auth!NoAttempts /\ requests' = [requests EXCEPT ![r] = q]
    BY <1>3 DEF Auth!VerifyLogin, Auth!Goto
  <2>2. q.read = requests[r].read /\ RequestOK(q)
    BY <1>1, <1>2, <1>3 DEF RequestOK, RequestType
  <2> QED
    BY <1>1, <2>1, <2>2, NoAttemptsOK, RequestStep DEF Auth!VerifyLogin
<1>4. CASE requests[r].given # requests[r].read.password
  <2>1. attempts' = Auth!OneFailureMore /\ requests' = [requests EXCEPT ![r] = Auth!Idle]
    BY <1>4 DEF Auth!VerifyLogin, Auth!Responds
  <2>2. AttemptsOK'
    <3> DEFINE n == IF attempts.failures < MAX_FAILURES THEN attempts.failures + 1
                    ELSE attempts.failures
    <3>1. attempts' = [failures |-> n, blocked |-> n = MAX_FAILURES]
      BY <2>1 DEF Auth!OneFailureMore
    <3>2. attempts.failures \in 0..MAX_FAILURES
      BY DEF AuthInv, AttemptsOK
    <3>3. n \in 0..MAX_FAILURES
      BY <3>2, AuthConstants
    <3> HIDE DEF n
    <3>4. (n = MAX_FAILURES) \in BOOLEAN
      OBVIOUS
    <3> QED
      BY <3>1, <3>3, <3>4 DEF AttemptsOK
  <2> QED
    BY <2>1, <2>2, IdleOK, IdleSeen, RequestStep DEF Auth!VerifyLogin
<1> QED
  BY <1>3, <1>4

LEMMA StartSessionOK ==
  ASSUME AuthInv, NEW r \in Requests, NEW s \in Sessions, Auth!StartSession(r, s)
  PROVE  AuthInv'
<1> DEFINE v == requests[r]
           x == [Auth!Unused EXCEPT !.state = "live", !.version = v.read.version,
                                    !.password = v.given]
<1>1. /\ v.pc = "start" /\ sessions' = [sessions EXCEPT ![s] = x]
      /\ requests' = [requests EXCEPT ![r] = Auth!Idle]
      /\ UNCHANGED <<admin, attempts, overlapped>>
  BY DEF Auth!StartSession, Auth!Responds
<1>2. /\ v.given = v.read.password /\ v.read.version # 0 /\ v \in RequestType
      /\ ~overlapped => Seen(v.read, admin)
  BY <1>1 DEF AuthInv, RequestOK, ReadsSeen
<1>3. x.version = v.read.version /\ x.password = v.given
  BY DEF Auth!Unused
<1>4. SessionOK(x)
  BY <1>2 DEF SessionOK, SessionType, Auth!Unused, RequestType, AdminType
<1>5. ~overlapped => Owned(x, admin)
  BY <1>2, <1>3 DEF Owned, Seen
<1> HIDE DEF x
<1> QED
  BY <1>1, <1>4, <1>5, IdleOK, IdleSeen, SessionStep

LEMMA LoadSessionOK ==
  ASSUME AuthInv, NEW r \in Requests, NEW op \in {"request", "logout", "change"},
         NEW s \in Sessions, NEW given \in Passwords \cup {NoPassword},
         NEW next \in Passwords \cup {NoPassword}, Auth!LoadSession(r, op, s, given, next)
  PROVE  AuthInv'
<1> DEFINE pc == IF sessions[s].expired \/ sessions[s].version # admin.version THEN "drop"
                 ELSE IF sessions[s].stale THEN "touch" ELSE "authenticated"
           q == [Auth!Idle EXCEPT !.op = op, !.session = s, !.given = given, !.next = next,
                                  !.pc = pc]
<1>1. requests' = [requests EXCEPT ![r] = q] /\ UNCHANGED <<admin, sessions, attempts, overlapped>>
  BY DEF Auth!LoadSession
<1>2. pc \in {"drop", "touch", "authenticated"}
  OBVIOUS
<1>3. q.read = Auth!Idle.read /\ RequestOK(q)
  <2> HIDE DEF pc
  <2> QED
    BY <1>2 DEF RequestOK, RequestType, Auth!Idle, Auth!NoAdmin, AdminType
<1> HIDE DEF q
<1> QED
  BY <1>1, <1>3, IdleSeen, AttemptsKept, RequestStep

LEMMA DropSessionOK ==
  ASSUME AuthInv, NEW r \in Requests,
         Auth!DropSession(r) \/ Auth!Logout(r)
  PROVE  AuthInv'
<1>1. /\ sessions' = [sessions EXCEPT ![requests[r].session] = Auth!Deleted]
      /\ requests' = [requests EXCEPT ![r] = Auth!Idle]
      /\ UNCHANGED <<admin, attempts, overlapped>>
  BY DEF Auth!DropSession, Auth!Logout, Auth!Responds
<1>2. requests[r].session \in Sessions
  BY DEF AuthInv, RequestOK, Auth!DropSession, Auth!Logout, Auth!At
<1>3. SessionOK(Auth!Deleted) /\ Owned(Auth!Deleted, admin)
  BY DeletedOK DEF SessionOK, Owned
<1> QED
  BY <1>1, <1>2, <1>3, IdleOK, IdleSeen, SessionStep

LEMMA TouchSessionOK ==
  ASSUME AuthInv, NEW r \in Requests, Auth!TouchSession(r)
  PROVE  AuthInv'
<1> DEFINE s == requests[r].session
           q == [requests[r] EXCEPT !.pc = "authenticated"]
           x == [sessions[s] EXCEPT !.stale = FALSE, !.expired = FALSE]
<1>1. requests[r].pc = "touch" /\ UNCHANGED <<admin, attempts, overlapped>>
  BY DEF Auth!TouchSession
<1>2. /\ RequestOK(requests[r]) /\ s \in Sessions
      /\ ~overlapped => Seen(requests[r].read, admin)
  BY <1>1 DEF AuthInv, RequestOK, ReadsSeen
<1>3. /\ SessionOK(sessions[s]) /\ (~overlapped => Owned(sessions[s], admin))
      /\ sessions \in [Sessions -> SessionType]
  BY <1>2 DEF AuthInv, SessionsOwned
<1>4. q.read = requests[r].read /\ RequestOK(q)
  BY <1>1, <1>2 DEF RequestOK, RequestType
<1>5. /\ SessionOK(x) /\ x.state = sessions[s].state /\ x.version = sessions[s].version
      /\ x.password = sessions[s].password
  BY <1>3 DEF SessionOK, SessionType
<1>6. ~overlapped => Owned(x, admin)
  BY <1>3, <1>5 DEF Owned
<1>7. CASE Auth!Live(s)
  <2>1. requests' = [requests EXCEPT ![r] = q]
    BY <1>7 DEF Auth!TouchSession, Auth!Goto
  <2>2. sessions' = [sessions EXCEPT ![s] = x]
    BY <1>2, <1>3, <1>7 DEF Auth!TouchSession
  <2> HIDE DEF s, q, x
  <2> QED
    BY <1>1, <1>2, <1>4, <1>5, <1>6, <2>1, <2>2, SessionStep
<1>8. CASE ~Auth!Live(s)
  BY <1>1, <1>8, IdleOK, IdleSeen, AttemptsKept, RequestStep DEF Auth!TouchSession, Auth!Responds
<1> QED
  BY <1>7, <1>8

LEMMA ServeOK ==
  ASSUME AuthInv, NEW r \in Requests, Auth!Serve(r)
  PROVE  AuthInv'
BY IdleOK, IdleSeen, AttemptsKept, RequestStep DEF Auth!Serve, Auth!Responds

LEMMA ReadForChangeOK ==
  ASSUME AuthInv, NEW r \in Requests, Auth!ReadForChange(r)
  PROVE  AuthInv'
<1> DEFINE q == [requests[r] EXCEPT !.pc = "verify", !.read = admin]
<1>1. /\ requests[r].op = "change" /\ requests[r].pc = "authenticated"
      /\ UNCHANGED <<admin, sessions, attempts, overlapped>>
  BY DEF Auth!ReadForChange, Auth!At
<1>2. RequestOK(requests[r]) /\ requests \in [Requests -> RequestType] /\ admin \in AdminType
  BY DEF AuthInv, AdminOK
<1>3. requests' = [requests EXCEPT ![r] = q]
  BY <1>2 DEF Auth!ReadForChange
<1>4. q.read = admin /\ RequestOK(q)
  BY <1>1, <1>2 DEF RequestOK, RequestType
<1>5. Seen(q.read, admin)
  BY <1>2, <1>4 DEF Seen, AdminType
<1> HIDE DEF q
<1> QED
  BY <1>1, <1>3, <1>4, <1>5, AttemptsKept, RequestStep

LEMMA VerifyChangeOK ==
  ASSUME AuthInv, NEW r \in Requests, Auth!VerifyChange(r)
  PROVE  AuthInv'
<1> DEFINE q == [requests[r] EXCEPT !.pc = "commit"]
<1>1. /\ requests[r].op = "change" /\ requests[r].pc = "verify"
      /\ UNCHANGED <<admin, sessions, attempts, overlapped>>
  BY DEF Auth!VerifyChange, Auth!At
<1>2. RequestOK(requests[r]) /\ (~overlapped => Seen(requests[r].read, admin))
  BY DEF AuthInv, ReadsSeen
<1>3. q.read = requests[r].read /\ RequestOK(q)
  BY <1>1, <1>2 DEF RequestOK, RequestType
<1>4. \/ requests' = [requests EXCEPT ![r] = q]
      \/ requests' = [requests EXCEPT ![r] = Auth!Idle]
  BY DEF Auth!VerifyChange, Auth!Goto, Auth!Responds
<1> HIDE DEF q
<1> QED
  BY <1>1, <1>2, <1>3, <1>4, IdleOK, IdleSeen, AttemptsKept, RequestStep

\* A change that nobody overlapped writes the next version: what was read before is of an
\* earlier one, and only the session that made the change is left.
LEMMA CommitChangeOK ==
  ASSUME AuthInv, NEW r \in Requests, Auth!CommitChange(r)
  PROVE  AuthInv'
<1> DEFINE q == requests[r]
           version == q.read.version + 1
           x == [state |-> "live", version |-> version, stale |-> FALSE, expired |-> FALSE,
                 password |-> q.next]
<1>1. /\ q.op = "change" /\ q.pc = "commit" /\ UNCHANGED attempts
      /\ requests' = [requests EXCEPT ![r] = Auth!Idle]
  BY DEF Auth!CommitChange, Auth!At, Auth!Responds
<1>2. q \in RequestType /\ q.read \in AdminType /\ version \in Nat /\ version # 0
  BY DEF AuthInv, RequestType, AdminType
<1>3. CASE ~Auth!Live(q.session)
  BY <1>1, <1>3, IdleOK, IdleSeen, AttemptsKept, RequestStep DEF Auth!CommitChange
<1>4. CASE Auth!Live(q.session)
  <2>1. /\ admin' = [password |-> q.next, version |-> version]
        /\ sessions' = [s \in Sessions |->
             IF s = q.session THEN x ELSE IF Auth!Live(s) THEN Auth!Deleted ELSE sessions[s]]
        /\ overlapped' = (overlapped \/ admin # q.read)
    BY <1>4 DEF Auth!CommitChange
  <2>2. AdminOK'
    BY <1>2, <2>1 DEF AdminOK, AdminType, RequestType
  <2>3. SessionOK(x) /\ x.version = version /\ x.password = q.next
    BY <1>2 DEF SessionOK, SessionType, RequestType
  <2>4. ASSUME NEW s \in Sessions
        PROVE  /\ SessionOK(sessions'[s])
               /\ sessions'[s].state = "live" => sessions'[s] = x
    <3> HIDE DEF x, version, q
    <3> QED
      BY <2>1, <2>3, DeletedOK DEF AuthInv, SessionOK, Auth!Live
  <2>5. sessions' \in [Sessions -> SessionType] /\ (\A s \in Sessions : SessionOK(sessions[s]))'
    BY <2>1, <2>4 DEF SessionOK
  <2>6. \A y \in Requests : requests'[y] = IF y = r THEN Auth!Idle ELSE requests[y]
    BY <1>1 DEF AuthInv
  <2>7. requests' \in [Requests -> RequestType] /\ (\A y \in Requests : RequestOK(requests[y]))'
    BY <1>1, <2>6, IdleOK DEF AuthInv
  <2>8. ASSUME ~overlapped' PROVE ReadsSeen' /\ SessionsOwned'
    <3>1. ~overlapped /\ admin = q.read /\ admin'.version = admin.version + 1
      BY <2>1, <2>8 DEF AuthInv
    <3>2. admin.version \in Nat
      BY DEF AuthInv, AdminOK, AdminType
    <3>3. ASSUME NEW y \in Requests PROVE Seen(requests'[y].read, admin')
      <4>1. requests'[y].read.version \in Nat /\ requests'[y].read.version <= admin.version
        BY <2>6, <3>1, IdleSeen DEF AuthInv, ReadsSeen, Seen, Auth!Idle, Auth!NoAdmin,
           RequestType, AdminType
      <4> QED
        BY <3>1, <3>2, <4>1 DEF Seen
    <3>4. ASSUME NEW s \in Sessions PROVE Owned(sessions'[s], admin')
      BY <1>2, <2>1, <2>3, <2>4 DEF Owned
    <3> QED
      BY <3>3, <3>4 DEF ReadsSeen, SessionsOwned
  <2>9. overlapped' \in BOOLEAN
    BY <2>1 DEF AuthInv
  <2> QED
    BY <1>1, <2>2, <2>5, <2>7, <2>8, <2>9, AttemptsKept DEF AuthInv
<1> QED
  BY <1>3, <1>4

LEMMA TimePassesOK ==
  ASSUME AuthInv, NEW s \in Sessions, Auth!TimePasses(s)
  PROVE  AuthInv'
<1> DEFINE x == [sessions[s] EXCEPT !.stale = TRUE, !.expired = sessions[s].stale]
<1>1. sessions' = [sessions EXCEPT ![s] = x] /\ UNCHANGED <<admin, requests, attempts, overlapped>>
  BY DEF Auth!TimePasses, AuthInv
<1>2. SessionOK(sessions[s]) /\ (~overlapped => Owned(sessions[s], admin))
  BY DEF AuthInv, SessionsOwned
<1>3. /\ SessionOK(x) /\ x.state = sessions[s].state /\ x.version = sessions[s].version
      /\ x.password = sessions[s].password
  BY <1>2 DEF SessionOK, SessionType
<1>4. ~overlapped => Owned(x, admin)
  BY <1>2, <1>3 DEF Owned
<1> HIDE DEF x
<1>5. \A y \in Sessions : sessions'[y] = IF y = s THEN x ELSE sessions[y]
  BY <1>1 DEF AuthInv
<1>6. sessions' \in [Sessions -> SessionType] /\ (\A y \in Sessions : SessionOK(sessions[y]))'
  BY <1>1, <1>3, <1>5 DEF AuthInv, SessionOK
<1>7. ~overlapped => SessionsOwned'
  BY <1>1, <1>4, <1>5 DEF AuthInv, SessionsOwned
<1> QED
  BY <1>1, <1>6, <1>7, AttemptsKept DEF AuthInv, AdminOK, ReadsSeen

LEMMA AuthRestartOK ==
  ASSUME AuthInv, Auth!Restart \/ Auth!CooldownEnds
  PROVE  AuthInv'
<1>1. attempts' = Auth!NoAttempts /\ UNCHANGED <<admin, sessions, overlapped>>
  BY DEF Auth!Restart, Auth!CooldownEnds
<1>2. CASE Auth!CooldownEnds
  BY <1>1, <1>2, NoAttemptsOK DEF AuthInv, AdminOK, ReadsSeen, SessionsOwned, Auth!CooldownEnds
<1>3. CASE Auth!Restart
  <2>1. requests' = [r \in Requests |-> Auth!Idle]
    BY <1>3 DEF Auth!Restart
  <2>2. requests' \in [Requests -> RequestType] /\ (\A y \in Requests : RequestOK(requests[y]))'
    BY <2>1, IdleOK
  <2>3. ReadsSeen'
    BY <1>1, <2>1, IdleSeen DEF ReadsSeen
  <2> QED
    BY <1>1, <2>2, <2>3, NoAttemptsOK DEF AuthInv, AdminOK, SessionsOwned
<1> QED
  BY <1>2, <1>3

LEMMA AuthNext == AuthInv /\ Auth!Next => AuthInv'
<1> SUFFICES ASSUME AuthInv, Auth!Next PROVE AuthInv'
  OBVIOUS
<1>1. ASSUME NEW r \in Requests, NEW s \in Sessions,
             \/ \E op \in {"request", "logout"} : Auth!LoadSession(r, op, s, NoPassword, NoPassword)
             \/ \E p, q \in Passwords : Auth!LoadSession(r, "change", s, p, q)
      PROVE  AuthInv'
  BY <1>1, LoadSessionOK
<1>2. ASSUME NEW r \in Requests,
             \/ \E p \in Passwords : Auth!Bootstrap(r, p) \/ Auth!Login(r, p)
             \/ \E s \in Sessions : Auth!StartSession(r, s)
      PROVE  AuthInv'
  BY <1>2, BootstrapOK, LoginOK, StartSessionOK
<1>3. ASSUME NEW r \in Requests,
             \/ Auth!VerifyLogin(r) \/ Auth!DropSession(r) \/ Auth!TouchSession(r)
             \/ Auth!Serve(r) \/ Auth!Logout(r) \/ Auth!ReadForChange(r)
             \/ Auth!VerifyChange(r) \/ Auth!CommitChange(r)
      PROVE  AuthInv'
  BY <1>3, VerifyLoginOK, DropSessionOK, TouchSessionOK, ServeOK, ReadForChangeOK,
     VerifyChangeOK, CommitChangeOK
<1> QED
  BY <1>1, <1>2, <1>3, TimePassesOK, AuthRestartOK DEF Auth!Next

-----------------------------------------------------------------------------
(* Home rails. *)

HomeRail == Rails!Rails

RailRequestType ==
  [pc : {"idle", "read", "write", "list"}, op : {"none", "read", "update", "create", "delete"},
   rail : HomeRail \cup {NoPlace}, rails : Seq(HomeRail \cup {NoPlace}), last : Int]

\* No rail twice.
Distinct(s) == \A m, n \in DOMAIN s : s[m] = s[n] => m = n

RailRequestOK(q) ==
  /\ q \in RailRequestType
  /\ q.last + 1 \in Nat
  /\ q.pc = "list" => q.op = "delete"
  /\ q.pc = "write" /\ q.op = "update" => q.rails \in Seq(HomeRail \ Hybrid) /\ Distinct(q.rails)

\* The place that a renumbering is about to leave a rail at.
Renumbered(rails, at, x) ==
  IF x \in Rails!Range(rails) \ {NoPlace} THEN Rails!Index(rails, x) ELSE at[x]

Renumbers(q) == q.op = "delete" /\ q.pc = "write"

Fits(rails, at, pairs) ==
  \A p \in pairs : Renumbered(rails, at, p[1]) < Renumbered(rails, at, p[2])

\* What an interrupted deletion will still write is in the order of the arrangement.
RenumberingsFit == \A r \in RailRequests :
  Renumbers(railRequests[r]) => Fits(railRequests[r].rails, place, arranged)

Ordered == \A p \in arranged : place[p[1]] < place[p[2]]

RailsInv ==
  /\ place \in [HomeRail -> Nat \cup {NoPlace}]
  /\ railRequests \in [RailRequests -> RailRequestType]
  /\ \A r \in RailRequests : RailRequestOK(railRequests[r])
  /\ arranged \subseteq Rails!Listed \X Rails!Listed
  /\ crossed \in BOOLEAN
  /\ ~crossed => Ordered /\ RenumberingsFit

LEMMA DefaultRails == DOMAIN Rails!DEFAULT_HOME_RAILS = {1, 2, 3}
BY DEF Rails!DEFAULT_HOME_RAILS

LEMMA RailConstants ==
  /\ IsFiniteSet(HomeRail) /\ NoPlace \notin HomeRail /\ NoPlace \notin Nat
  /\ Rails!Listed = {x \in HomeRail \ Hybrid : place[x] # NoPlace}
  /\ Rails!Persisted = {x \in HomeRail : place[x] # NoPlace}
<1>1. IsFiniteSet(Custom) /\ IsFiniteSet(Hybrid) /\ NoPlace \notin Nat \cup HomeRail
  BY Zenon, PagesAssumption DEF Rails!RailsAssumption, Rails!IsFiniteSet, IsFiniteSet, HomeRail
<1>2. IsFiniteSet(Rails!Range(Rails!DEFAULT_HOME_RAILS))
  <2> DEFINE D == Rails!DEFAULT_HOME_RAILS
  <2>1. DOMAIN D = {1, 2, 3}
    BY DefaultRails
  <2> HIDE DEF D
  <2>2. Rails!Range(D) = {D[1]} \cup ({D[2]} \cup {D[3]})
    BY <2>1 DEF Rails!Range
  <2>3. IsFiniteSet({D[1]}) /\ IsFiniteSet({D[2]} \cup {D[3]})
    BY FS_Singleton, FS_Union, Zenon
  <2>4. IsFiniteSet({D[1]} \cup ({D[2]} \cup {D[3]}))
    BY <2>3, FS_Union, Zenon
  <2>5. IsFiniteSet(Rails!Range(D))
    BY <2>2, <2>4
  <2> QED
    BY <2>5 DEF D
<1>3. IsFiniteSet(HomeRail)
  BY <1>1, <1>2, FS_Union, Zenon DEF Rails!Rails, HomeRail
<1> QED
  BY <1>1, <1>3, Zenon DEF Rails!Listed, Rails!Persisted, HomeRail

\* A finite set of numbers has a greatest element, which Max finds.
LEMMA MaxOfFinite ==
  ASSUME NEW S \in SUBSET Int, IsFiniteSet(S), S # {}
  PROVE  Rails!Max(S) \in S /\ \A y \in S : Rails!Max(S) >= y
<1> DEFINE Above(x) == {y \in S : y > x}
           T == {Above(x) : x \in S}
<1>1. T \subseteq FiniteSubsetsOf(S) /\ T # {}
  <2>1. \A x \in S : Above(x) \in SUBSET S /\ IsFiniteSet(Above(x))
    BY FS_Subset
  <2> QED
    BY <2>1 DEF FiniteSubsetsOf
<1>2. PICK U \in T : \A V \in T : ~ (<<V, U>> \in StrictSubsetOrdering(S))
  <2>1. IsWellFoundedOn(StrictSubsetOrdering(S), FiniteSubsetsOf(S))
    BY FS_StrictSubsetOrderingWellFounded
  <2> HIDE DEF T
  <2> QED
    BY <1>1, <2>1, WFMin
<1>3. PICK x \in S : U = Above(x)
  OBVIOUS
<1>4. ASSUME NEW y \in S, y > x PROVE FALSE
  <2>1. Above(y) \subseteq Above(x) /\ y \in Above(x) /\ y \notin Above(y)
    <3>1. x \in Int /\ y \in Int /\ \A z \in S : z \in Int
      OBVIOUS
    <3>2. \A z \in S : z > y => z > x
      BY <1>4, <3>1
    <3>3. ~ (y > y)
      BY <3>1
    <3> QED
      BY <1>4, <3>2, <3>3
  <2>2. Above(y) \in SUBSET S /\ Above(x) \in SUBSET S /\ Above(y) \in T
    OBVIOUS
  <2> HIDE DEF Above, T
  <2>3. <<Above(y), Above(x)>> \in StrictSubsetOrdering(S)
    BY <2>1, <2>2 DEF StrictSubsetOrdering
  <2> QED
    BY <1>2, <1>3, <2>2, <2>3
<1>5. \A y \in S : x >= y
  BY <1>4
<1>6. Rails!Max(S) = CHOOSE z \in S : \A y \in S : z >= y
  BY Zenon DEF Rails!Max
<1> QED
  BY <1>5, <1>6

\* An order of the listed rails names each of them once.
LEMMA OrderNamesEach ==
  ASSUME RailsInv, NEW s \in Rails!AnyOrders
  PROVE  /\ s \in Seq(HomeRail \ Hybrid) /\ Distinct(s)
         /\ \A x \in Rails!Listed : \E n \in DOMAIN s : s[n] = x
         /\ \A n \in DOMAIN s : s[n] \in Rails!Listed
<1> DEFINE L == Rails!Listed
           k == Cardinality(L)
<1>1. L \subseteq HomeRail \ Hybrid /\ IsFiniteSet(L) /\ k \in Nat
  <2>1. L \in SUBSET HomeRail /\ L \subseteq HomeRail \ Hybrid
    BY RailConstants
  <2> QED
    BY <2>1, RailConstants, FS_Subset, FS_CardinalityType
<1>2. s \in [1..k -> L] /\ \A i, j \in 1..k : i # j => s[i] # s[j]
  <2>1. Rails!Cardinality(L) = k
    BY Zenon DEF Rails!Cardinality, Cardinality
  <2> QED
    BY <2>1, Zenon DEF Rails!AnyOrders, Rails!Injection, Rails!IsInjective
<1> HIDE DEF L, k
<1>3. s \in Seq(HomeRail \ Hybrid) /\ DOMAIN s = 1..k
  BY <1>1, <1>2
<1>4. Distinct(s)
  BY <1>2, <1>3 DEF Distinct
<1>5. \A x \in L : \E n \in 1..k : s[n] = x
  <2>1. s \in Injection(1..k, L)
    BY <1>2 DEF Injection, IsInjective
  <2>2. Cardinality(1..k) = k
    BY <1>1, FS_Interval
  <2>3. s \in Surjection(1..k, L)
    <3>1. Cardinality(1..k) = Cardinality(L)
      BY <2>2 DEF k
    <3> QED
      BY <1>1, <2>1, <3>1, FS_Injection
  <2> QED
    BY <2>3 DEF Surjection
<1> QED
  BY <1>2, <1>3, <1>4, <1>5 DEF L

LEMMA IndexOf ==
  ASSUME NEW s, Distinct(s), NEW n \in DOMAIN s
  PROVE  Rails!Index(s, s[n]) = n - 1
BY DEF Rails!Index, Distinct

LEMMA IndexIsNat ==
  ASSUME NEW s, DOMAIN s \subseteq Nat \ {0}, NEW x \in Rails!Range(s)
  PROVE  Rails!Index(s, x) \in Nat
<1> DEFINE i == CHOOSE n \in DOMAIN s : s[n] = x
<1>1. i \in DOMAIN s
  BY DEF Rails!Range
<1>2. Rails!Index(s, x) = i - 1
  BY Zenon DEF Rails!Index
<1> HIDE DEF i
<1> QED
  BY <1>1, <1>2

LEMMA RailIdle ==
  /\ RailRequestOK(Rails!Idle) /\ Rails!Idle \in RailRequestType
  /\ Rails!Idle.pc = "idle" /\ Rails!Idle.last = 0
BY DEF Rails!Idle, RailRequestOK, RailRequestType

LEMMA RailRequestMoves ==
  ASSUME RailsInv, NEW r \in RailRequests, NEW q, RailRequestOK(q),
         railRequests' = [railRequests EXCEPT ![r] = q]
  PROVE  /\ railRequests' \in [RailRequests -> RailRequestType]
         /\ \A d \in RailRequests : railRequests'[d] = IF d = r THEN q ELSE railRequests[d]
         /\ (\A d \in RailRequests : RailRequestOK(railRequests[d]))'
<1>1. \A d \in RailRequests : railRequests'[d] = IF d = r THEN q ELSE railRequests[d]
  BY DEF RailsInv
<1>2. ASSUME NEW d \in RailRequests PROVE RailRequestOK(railRequests'[d])
  BY <1>1 DEF RailsInv
<1>3. railRequests' \in [RailRequests -> RailRequestType]
  BY DEF RailsInv, RailRequestOK
<1> QED
  BY <1>1, <1>2, <1>3

\* A step that leaves the arranged rails where they are, and may forget some.
LEMMA KeepsArrangement ==
  ASSUME RailsInv, NEW r \in RailRequests, NEW q, RailRequestOK(q),
         railRequests' = [railRequests EXCEPT ![r] = q],
         Renumbers(q) /\ ~crossed => Fits(q.rails, place, arranged),
         place' \in [HomeRail -> Nat \cup {NoPlace}],
         arranged' \subseteq arranged, crossed' = crossed,
         \A p \in arranged' : place'[p[1]] = place[p[1]] /\ place'[p[2]] = place[p[2]]
  PROVE  RailsInv'
<1>1. arranged' \subseteq Rails!Listed' \X Rails!Listed'
  <2>1. ASSUME NEW p \in arranged' PROVE p \in Rails!Listed' \X Rails!Listed'
    <3>1. p \in Rails!Listed \X Rails!Listed
      BY DEF RailsInv
    <3>2. \A x \in {p[1], p[2]} : x \in HomeRail \ Hybrid /\ place'[x] # NoPlace
      BY <3>1, RailConstants
    <3> QED
      BY <3>1, <3>2, Zenon DEF Rails!Listed, Rails!Persisted, HomeRail
  <2> QED
    BY <2>1
<1>2. ASSUME ~crossed' PROVE Ordered'
  BY <1>2 DEF RailsInv, Ordered
<1>3. ASSUME ~crossed' PROVE RenumberingsFit'
  <2>1. ASSUME NEW d \in RailRequests, Renumbers(railRequests'[d])
        PROVE  Fits(railRequests'[d].rails, place', arranged')
    <3> DEFINE rails == railRequests'[d].rails
    <3>1. Fits(rails, place, arranged)
      BY <1>3, <2>1, RailRequestMoves DEF RailsInv, RenumberingsFit
    <3> HIDE DEF rails
    <3>2. ASSUME NEW p \in arranged'
          PROVE  /\ Renumbered(rails, place', p[1]) = Renumbered(rails, place, p[1])
                 /\ Renumbered(rails, place', p[2]) = Renumbered(rails, place, p[2])
      BY Zenon DEF Renumbered
    <3>3. Fits(rails, place', arranged')
      BY <3>1, <3>2 DEF Fits
    <3> QED
      BY <3>3 DEF rails
  <2> QED
    BY <2>1, Zenon DEF RenumberingsFit
<1> QED
  BY <1>1, <1>2, <1>3, RailRequestMoves DEF RailsInv

\* A step that leaves nobody behind who is about to renumber, unless it says so.
LEMMA WritesArrangement ==
  ASSUME RailsInv, NEW r \in RailRequests,
         railRequests' = [railRequests EXCEPT ![r] = Rails!Idle],
         place' \in [HomeRail -> Nat \cup {NoPlace}],
         arranged' \subseteq Rails!Listed' \X Rails!Listed', crossed' \in BOOLEAN,
         ~crossed' => Ordered' /\ ~Rails!Overtaken(r)
  PROVE  RailsInv'
<1>2. ASSUME ~crossed' PROVE RenumberingsFit'
  <2>1. ASSUME NEW d \in RailRequests PROVE ~Renumbers(railRequests'[d])
    BY <1>2, RailIdle, RailRequestMoves DEF Renumbers, Rails!Overtaken
  <2> QED
    BY <2>1 DEF RenumberingsFit
<1> QED
  BY <1>2, RailIdle, RailRequestMoves DEF RailsInv

LEMMA RailsInit == Rails!Init => RailsInv
<1> SUFFICES ASSUME Rails!Init PROVE RailsInv
  OBVIOUS
<1>1. place \in [HomeRail -> Nat \cup {NoPlace}]
  BY DEF Rails!Init, HomeRail
<1>3. railRequests = [r \in RailRequests |-> Rails!Idle] /\ arranged = {} /\ crossed = FALSE
  BY DEF Rails!Init
<1>4. Ordered /\ RenumberingsFit
  BY <1>3, RailIdle DEF Ordered, RenumberingsFit, Renumbers
<1> QED
  BY <1>1, <1>3, <1>4, RailIdle DEF RailsInv

LEMMA EnsureOK ==
  ASSUME RailsInv, NEW r \in RailRequests, NEW op \in {"read", "update", "create", "delete"},
         NEW x \in HomeRail \cup {NoPlace}, Rails!Ensure(r, op, x)
  PROVE  RailsInv'
<1> DEFINE q == [Rails!Idle EXCEPT !.op = op, !.rail = x,
                   !.pc = IF op = "read" THEN "idle" ELSE "read"]
<1>1. railRequests' = [railRequests EXCEPT ![r] = q] /\ UNCHANGED <<arranged, crossed>>
  BY DEF Rails!Ensure
<1>2. RailRequestOK(q) /\ ~Renumbers(q)
  <2>1. q \in RailRequestType
    BY RailIdle DEF RailRequestType
  <2>2. q.pc \in {"idle", "read"} /\ q.last = 0
    BY RailIdle DEF RailRequestType
  <2> HIDE DEF q
  <2> QED
    BY <2>1, <2>2 DEF RailRequestOK, Renumbers
<1>3. place' = Rails!WithDefaults
  BY DEF Rails!Ensure
<1>4. \A y \in HomeRail : place'[y] = place[y] \/ (place[y] = NoPlace /\ place'[y] \in Nat)
  <2>1. ASSUME NEW y \in Rails!Range(Rails!DEFAULT_HOME_RAILS)
        PROVE  Rails!Index(Rails!DEFAULT_HOME_RAILS, y) \in Nat
    <3>1. DOMAIN Rails!DEFAULT_HOME_RAILS \subseteq Nat \ {0}
      BY DefaultRails
    <3> QED
      BY <3>1, IndexIsNat
  <2>2. ASSUME NEW y \in HomeRail
        PROVE  place'[y] = IF place[y] = NoPlace /\ y \in Rails!Range(Rails!DEFAULT_HOME_RAILS)
                           THEN Rails!Index(Rails!DEFAULT_HOME_RAILS, y) ELSE place[y]
    BY <1>3 DEF Rails!WithDefaults, HomeRail
  <2> QED
    BY <2>1, <2>2
<1>5. place' \in [HomeRail -> Nat \cup {NoPlace}]
  <2>1. DOMAIN place' = HomeRail /\ place' = [y \in HomeRail |-> place'[y]]
    BY <1>3 DEF Rails!WithDefaults, HomeRail
  <2> QED
    BY <1>4, <2>1 DEF RailsInv
<1>6. \A p \in arranged : place'[p[1]] = place[p[1]] /\ place'[p[2]] = place[p[2]]
  BY <1>4, RailConstants DEF RailsInv
<1> HIDE DEF q
<1> QED
  BY <1>1, <1>2, <1>5, <1>6, KeepsArrangement

LEMMA ValidateUpdateOK ==
  ASSUME RailsInv, NEW r \in RailRequests, Rails!ValidateUpdate(r)
  PROVE  RailsInv'
<1>1. PICK payload \in Rails!AnyOrders :
        railRequests' = [railRequests EXCEPT ![r].pc = "write", ![r].rails = payload]
  BY DEF Rails!ValidateUpdate
<1> DEFINE q == [railRequests[r] EXCEPT !.pc = "write", !.rails = payload]
<1>2. railRequests' = [railRequests EXCEPT ![r] = q] /\ UNCHANGED <<place, arranged, crossed>>
  BY <1>1 DEF Rails!ValidateUpdate, RailsInv, RailRequestType
<1>3. railRequests[r].op = "update" /\ RailRequestOK(railRequests[r])
  BY DEF Rails!ValidateUpdate, RailsInv
<1>4. payload \in Seq(HomeRail \ Hybrid) /\ Distinct(payload) /\ payload \in Seq(HomeRail \cup {NoPlace})
  <2>1. payload \in Seq(HomeRail \ Hybrid) /\ Distinct(payload)
    BY OrderNamesEach
  <2> QED
    BY <2>1
<1>5. RailRequestOK(q) /\ ~Renumbers(q)
  BY <1>3, <1>4 DEF RailRequestOK, RailRequestType, Renumbers
<1> HIDE DEF q
<1> QED
  BY <1>2, <1>5, KeepsArrangement DEF RailsInv

\* Each rail of a payload is put at its index, in the order of the payload.
LEMMA CommitUpdateOK ==
  ASSUME RailsInv, NEW r \in RailRequests, Rails!CommitUpdate(r)
  PROVE  RailsInv'
<1> DEFINE s == railRequests[r].rails
<1>1. /\ railRequests[r].op = "update" /\ railRequests[r].pc = "write"
      /\ railRequests' = [railRequests EXCEPT ![r] = Rails!Idle]
  BY DEF Rails!CommitUpdate, Rails!Responds
<1>2. s \in Seq(HomeRail \ Hybrid) /\ Distinct(s)
  BY <1>1 DEF RailsInv, RailRequestOK
<1>3. CASE Rails!Range(s) \subseteq Rails!Persisted
  <2>1. /\ place' = [x \in HomeRail |->
             IF x \in Rails!Range(s) THEN Rails!Index(s, x) ELSE place[x]]
        /\ arranged' = Rails!Before(s)
        /\ crossed' = Rails!Overtaken(r)
    BY <1>3 DEF Rails!CommitUpdate, HomeRail
  <2> HIDE DEF s
  <2>2. DOMAIN s \subseteq Nat \ {0}
    BY <1>2
  <2>3. place' \in [HomeRail -> Nat \cup {NoPlace}]
    BY <2>1, <2>2, IndexIsNat DEF RailsInv
  <2>4. ASSUME NEW n \in DOMAIN s
        PROVE  place'[s[n]] = n - 1 /\ s[n] \in Rails!Listed'
    <3>1. s[n] \in Rails!Range(s) /\ s[n] \in HomeRail \ Hybrid
      BY <1>2 DEF Rails!Range
    <3>2. place'[s[n]] = n - 1
      BY <1>2, <2>1, <3>1, IndexOf
    <3>3. n - 1 \in Nat
      BY <2>2
    <3>4. place'[s[n]] # NoPlace
      BY <3>2, <3>3, RailConstants
    <3>5. s[n] \in Rails!Listed'
      BY <3>1, <3>4, Zenon DEF Rails!Listed, Rails!Persisted, HomeRail
    <3> QED
      BY <3>2, <3>5
  <2>5. ASSUME NEW p \in arranged'
        PROVE  \E m, n \in DOMAIN s : m < n /\ p = <<s[m], s[n]>>
    BY <2>1 DEF Rails!Before
  <2>6. arranged' \subseteq Rails!Listed' \X Rails!Listed'
    BY <2>4, <2>5
  <2>7. Ordered'
    <3>1. ASSUME NEW p \in arranged' PROVE place'[p[1]] < place'[p[2]]
      <4>1. PICK m, n \in DOMAIN s : m < n /\ p = <<s[m], s[n]>>
        BY <2>5
      <4> QED
        BY <2>2, <2>4, <4>1
    <3> QED
      BY <3>1 DEF Ordered
  <2>8. crossed' \in BOOLEAN
    BY <2>1 DEF Rails!Overtaken
  <2> QED
    BY <1>1, <2>1, <2>3, <2>6, <2>7, <2>8, WritesArrangement
<1>4. CASE ~ (Rails!Range(s) \subseteq Rails!Persisted)
  <2>1. UNCHANGED <<place, arranged, crossed>>
    BY <1>4 DEF Rails!CommitUpdate
  <2> QED
    BY <1>1, <2>1, RailIdle, KeepsArrangement DEF RailsInv, Renumbers
<1> QED
  BY <1>3, <1>4

LEMMA ReadLastOK ==
  ASSUME RailsInv, NEW r \in RailRequests, Rails!ReadLast(r)
  PROVE  RailsInv'
<1> DEFINE S == {place[x] : x \in Rails!Persisted}
           T == S \cup {-1}
           q == [railRequests[r] EXCEPT !.pc = "write", !.last = Rails!Max(T)]
<1>1. /\ railRequests[r].op = "create" /\ UNCHANGED <<place, arranged, crossed>>
      /\ RailRequestOK(railRequests[r])
  BY DEF Rails!ReadLast, RailsInv
<1>2. railRequests' = [railRequests EXCEPT ![r] = q]
  BY DEF Rails!ReadLast, RailsInv, RailRequestType
<1>3. Rails!Max(T) \in Int /\ Rails!Max(T) + 1 \in Nat
  <2>1. S \in SUBSET Nat
    BY RailConstants DEF RailsInv
  <2>2. IsFiniteSet(Rails!Persisted)
    <3>1. Rails!Persisted \in SUBSET HomeRail
      BY RailConstants
    <3> QED
      BY <3>1, RailConstants, FS_Subset
  <2>3. IsFiniteSet(S)
    <3> DEFINE f == [x \in Rails!Persisted |-> place[x]]
    <3>1. f \in Surjection(Rails!Persisted, S)
      BY DEF Surjection
    <3> HIDE DEF f, S
    <3> QED
      BY <2>2, <3>1, FS_Surjection
  <2> HIDE DEF S
  <2>4. IsFiniteSet(T) /\ T \in SUBSET Int /\ T # {}
    BY <2>1, <2>3, FS_AddElement
  <2>5. Rails!Max(T) \in T
    BY <2>4, MaxOfFinite
  <2>6. \A m \in T : m \in Int /\ m + 1 \in Nat
    BY <2>1
  <2> HIDE DEF T
  <2> QED
    BY <2>5, <2>6
<1> HIDE DEF T
<1>4. RailRequestOK(q) /\ ~Renumbers(q)
  BY <1>1, <1>3 DEF RailRequestOK, RailRequestType, Renumbers
<1> HIDE DEF q
<1> QED
  BY <1>1, <1>2, <1>4, KeepsArrangement DEF RailsInv

LEMMA CreateRailOK ==
  ASSUME RailsInv, NEW r \in RailRequests, NEW x \in Custom, Rails!CreateRail(r, x)
  PROVE  RailsInv'
<1>1. /\ x \notin Rails!Persisted /\ UNCHANGED <<arranged, crossed>>
      /\ place' = [place EXCEPT ![x] = railRequests[r].last + 1]
      /\ railRequests' = [railRequests EXCEPT ![r] = Rails!Idle]
  BY DEF Rails!CreateRail, Rails!Responds
<1>2. x \in HomeRail /\ railRequests[r].last + 1 \in Nat
  BY DEF HomeRail, Rails!Rails, RailsInv, RailRequestOK
<1>3. place' \in [HomeRail -> Nat \cup {NoPlace}]
  BY <1>1, <1>2 DEF RailsInv
<1>4. \A p \in arranged : p[1] # x /\ p[2] # x
  BY <1>1 DEF RailsInv, Rails!Listed
<1>5. \A p \in arranged : place'[p[1]] = place[p[1]] /\ place'[p[2]] = place[p[2]]
  BY <1>1, <1>4, RailConstants DEF RailsInv
<1> QED
  BY <1>1, <1>3, <1>5, RailIdle, KeepsArrangement DEF Renumbers

LEMMA DeleteRailOK ==
  ASSUME RailsInv, NEW r \in RailRequests, Rails!DeleteRail(r)
  PROVE  RailsInv'
<1> DEFINE x == railRequests[r].rail
           q == [railRequests[r] EXCEPT !.pc = "list"]
<1>1. railRequests[r].op = "delete" /\ RailRequestOK(railRequests[r]) /\ crossed' = crossed
  BY DEF Rails!DeleteRail, RailsInv
<1>2. CASE x \in Rails!Persisted
  <2>1. /\ place' = [place EXCEPT ![x] = NoPlace]
        /\ arranged' = {p \in arranged : x \notin {p[1], p[2]}}
        /\ railRequests' = [railRequests EXCEPT ![r] = q]
    BY <1>2 DEF Rails!DeleteRail, Rails!Goto
  <2>2. RailRequestOK(q) /\ ~Renumbers(q)
    BY <1>1 DEF RailRequestOK, RailRequestType, Renumbers
  <2> HIDE DEF q, x
  <2>3. place' \in [HomeRail -> Nat \cup {NoPlace}]
    BY <1>2, <2>1 DEF RailsInv
  <2>4. \A p \in arranged' : place'[p[1]] = place[p[1]] /\ place'[p[2]] = place[p[2]]
    BY <2>1, RailConstants DEF RailsInv
  <2> QED
    BY <1>1, <2>1, <2>2, <2>3, <2>4, KeepsArrangement
<1>3. CASE x \notin Rails!Persisted
  <2>1. railRequests' = [railRequests EXCEPT ![r] = Rails!Idle] /\ UNCHANGED <<place, arranged>>
    BY <1>3 DEF Rails!DeleteRail, Rails!Responds
  <2> QED
    BY <1>1, <2>1, RailIdle, KeepsArrangement DEF RailsInv, Renumbers
<1> QED
  BY <1>2, <1>3

\* A renumbering puts each rail at its index in the list that it was made from.
LEMMA ListRestOK ==
  ASSUME RailsInv, NEW r \in RailRequests, Rails!ListRest(r)
  PROVE  RailsInv'
<1>1. PICK s \in Rails!Listings :
        LET moved == {n \in DOMAIN s : place[s[n]] # n - 1}
        IN railRequests' = [railRequests EXCEPT ![r] =
             IF moved = {} THEN Rails!Idle
             ELSE [@ EXCEPT !.pc = "write", !.rails = [n \in DOMAIN s |->
                     IF n \in moved THEN s[n] ELSE NoPlace]]]
  BY DEF Rails!ListRest
<1> DEFINE moved == {n \in DOMAIN s : place[s[n]] # n - 1}
           t == [n \in DOMAIN s |-> IF n \in moved THEN s[n] ELSE NoPlace]
           q == [railRequests[r] EXCEPT !.pc = "write", !.rails = t]
<1>2. /\ s \in Rails!AnyOrders
      /\ \A m, n \in DOMAIN s : m < n => place[s[m]] <= place[s[n]]
  BY DEF Rails!Listings
<1>3. /\ s \in Seq(HomeRail \ Hybrid) /\ Distinct(s)
      /\ \A x \in Rails!Listed : \E n \in DOMAIN s : s[n] = x
  BY <1>2, OrderNamesEach
<1>4. UNCHANGED <<place, arranged, crossed>> /\ RailRequestOK(railRequests[r])
      /\ railRequests[r].op = "delete"
  BY DEF Rails!ListRest, RailsInv, RailRequestOK
<1>5. ASSUME NEW n \in DOMAIN s PROVE Renumbered(t, place, s[n]) = n - 1
  <2>1. s[n] # NoPlace /\ \A m \in DOMAIN s : s[m] # NoPlace
    BY <1>3, RailConstants
  <2>2. DOMAIN t = DOMAIN s /\ \A m \in DOMAIN s : t[m] = IF m \in moved THEN s[m] ELSE NoPlace
    OBVIOUS
  <2>3. n \in moved <=> place[s[n]] # n - 1
    OBVIOUS
  <2> HIDE DEF t, moved
  <2>4. \A m \in DOMAIN s : t[m] = s[n] <=> m = n /\ n \in moved
    BY <1>3, <2>1, <2>2, Zenon DEF Distinct
  <2>5. CASE n \in moved
    <3>1. s[n] \in Rails!Range(t) \ {NoPlace}
      BY <2>1, <2>2, <2>5, Zenon DEF Rails!Range
    <3>2. (CHOOSE m \in DOMAIN t : t[m] = s[n]) = n
      BY <2>2, <2>4, <2>5
    <3>3. Rails!Index(t, s[n]) = n - 1
      BY <3>2 DEF Rails!Index
    <3> QED
      BY <3>1, <3>3 DEF Renumbered
  <2>6. CASE n \notin moved
    <3>1. s[n] \notin Rails!Range(t)
      BY <2>2, <2>4, <2>6, Zenon DEF Rails!Range
    <3> QED
      BY <2>3, <2>6, <3>1 DEF Renumbered
  <2> QED
    BY <2>5, <2>6
<1>6. ASSUME ~crossed PROVE Fits(t, place, arranged)
  <2>1. ASSUME NEW p \in arranged
        PROVE  Renumbered(t, place, p[1]) < Renumbered(t, place, p[2])
    <3>1. /\ p[1] \in Rails!Listed /\ p[2] \in Rails!Listed
          /\ place[p[1]] < place[p[2]]
      BY <1>6 DEF RailsInv, Ordered
    <3>2. PICK m \in DOMAIN s : s[m] = p[1]
      BY <1>3, <3>1
    <3>3. PICK n \in DOMAIN s : s[n] = p[2]
      BY <1>3, <3>1
    <3>4. place[p[1]] \in Nat /\ place[p[2]] \in Nat /\ m \in Nat /\ n \in Nat
      BY <1>3, <3>1, RailConstants DEF RailsInv
    <3>5. m < n
      <4>1. ~ (n < m)
        BY <1>2, <3>1, <3>2, <3>3, <3>4
      <4>2. n # m
        BY <3>1, <3>2, <3>3, <3>4
      <4> QED
        BY <3>4, <4>1, <4>2
    <3>6. Renumbered(t, place, p[1]) = m - 1 /\ Renumbered(t, place, p[2]) = n - 1
      BY <1>5, <3>2, <3>3
    <3> HIDE DEF t
    <3> QED
      BY <3>4, <3>5, <3>6
  <2> HIDE DEF t
  <2> QED
    BY <2>1 DEF Fits
<1>7. CASE moved = {}
  <2>1. railRequests' = [railRequests EXCEPT ![r] = Rails!Idle]
    BY <1>1, <1>7
  <2> QED
    BY <1>4, <2>1, RailIdle, KeepsArrangement DEF RailsInv, Renumbers
<1>8. CASE moved # {}
  <2>1. railRequests' = [railRequests EXCEPT ![r] = q]
    BY <1>1, <1>8 DEF RailsInv
  <2>2. t \in Seq(HomeRail \cup {NoPlace})
    BY <1>3
  <2> HIDE DEF t, moved
  <2>3. RailRequestOK(q) /\ q.rails = t
    BY <1>4, <2>2 DEF RailRequestOK, RailRequestType
  <2> HIDE DEF q
  <2> QED
    BY <1>4, <1>6, <2>1, <2>3, KeepsArrangement DEF RailsInv
<1> QED
  BY <1>7, <1>8

LEMMA ReindexOK ==
  ASSUME RailsInv, NEW r \in RailRequests, Rails!Reindex(r)
  PROVE  RailsInv'
<1> DEFINE rails == railRequests[r].rails
           moved == Rails!Range(rails) \ {NoPlace}
<1>1. /\ railRequests' = [railRequests EXCEPT ![r] = Rails!Idle]
      /\ UNCHANGED arranged /\ crossed' = (crossed \/ Rails!Overtaken(r))
      /\ Renumbers(railRequests[r]) /\ railRequests[r] \in RailRequestType
  BY DEF Rails!Reindex, Rails!Responds, Renumbers, RailsInv
<1>2. CASE ~ (moved \subseteq Rails!Persisted)
  <2>1. place' = place
    BY <1>2 DEF Rails!Reindex
  <2>2. (arranged \subseteq Rails!Listed \X Rails!Listed)'
    BY <1>1, <2>1 DEF RailsInv, Rails!Listed, Rails!Persisted
  <2>3. ~crossed' => Ordered' /\ ~Rails!Overtaken(r)
    BY <1>1, <2>1 DEF RailsInv, Ordered
  <2>4. crossed' \in BOOLEAN
    BY <1>1 DEF RailsInv, Rails!Overtaken
  <2> QED
    BY <1>1, <2>1, <2>2, <2>3, <2>4, WritesArrangement DEF RailsInv
<1>3. CASE moved \subseteq Rails!Persisted
  <2>1. place' = [x \in HomeRail |-> IF x \in moved THEN Rails!Index(rails, x) ELSE place[x]]
    BY <1>3 DEF Rails!Reindex, HomeRail
  <2>2. DOMAIN rails \subseteq Nat \ {0}
    BY <1>1 DEF RailRequestType
  <2> HIDE DEF rails
  <2>3. \A x \in moved : Rails!Index(rails, x) \in Nat
    BY <2>2, IndexIsNat
  <2>4. place' \in [HomeRail -> Nat \cup {NoPlace}]
    BY <2>1, <2>3 DEF RailsInv
  <2>5. \A x \in HomeRail : place'[x] = Renumbered(rails, place, x)
    BY <2>1, Zenon DEF Renumbered
  <2>6. arranged' \subseteq Rails!Listed' \X Rails!Listed'
    <3>1. \A x \in Rails!Listed : place'[x] # NoPlace
      BY <2>1, <2>3, RailConstants
    <3>2. Rails!Listed \subseteq Rails!Listed'
      BY <3>1, Zenon DEF Rails!Listed, Rails!Persisted
    <3> QED
      BY <1>1, <3>2 DEF RailsInv
  <2>7. ASSUME ~crossed PROVE Ordered'
    <3>1. Fits(rails, place, arranged)
      BY <1>1, <2>7 DEF RailsInv, RenumberingsFit, rails
    <3>2. ASSUME NEW p \in arranged PROVE place'[p[1]] < place'[p[2]]
      <4>1. p[1] \in HomeRail /\ p[2] \in HomeRail
        BY RailConstants DEF RailsInv
      <4> QED
        BY <2>5, <3>1, <4>1 DEF Fits
    <3> QED
      BY <1>1, <3>2 DEF Ordered
  <2>8. crossed' \in BOOLEAN
    BY <1>1 DEF RailsInv, Rails!Overtaken
  <2> QED
    BY <1>1, <2>4, <2>6, <2>7, <2>8, WritesArrangement
<1> QED
  BY <1>2, <1>3

LEMMA RequestFailsOK ==
  ASSUME RailsInv, NEW r \in RailRequests, Rails!RequestFails(r)
  PROVE  RailsInv'
<1>1. /\ railRequests' = [railRequests EXCEPT ![r] = Rails!Idle]
      /\ UNCHANGED <<place, arranged, crossed>>
  BY DEF Rails!RequestFails, Rails!Responds
<1> QED
  BY <1>1, RailIdle, KeepsArrangement DEF RailsInv, Renumbers

LEMMA RailsNext == RailsInv /\ Rails!Next => RailsInv'
<1> SUFFICES ASSUME RailsInv, Rails!Next PROVE RailsInv'
  OBVIOUS
<1>1. PICK r \in RailRequests :
        \/ \E op \in {"read", "update", "create"} : Rails!Ensure(r, op, NoPlace)
        \/ \E x \in (Custom \cup Hybrid) \cap Rails!Persisted : Rails!Ensure(r, "delete", x)
        \/ Rails!ValidateUpdate(r) \/ Rails!CommitUpdate(r) \/ Rails!ReadLast(r)
        \/ \E x \in Custom : Rails!CreateRail(r, x)
        \/ Rails!DeleteRail(r) \/ Rails!ListRest(r) \/ Rails!Reindex(r) \/ Rails!RequestFails(r)
  BY DEF Rails!Next
<1>2. Rails!Persisted \subseteq HomeRail
  BY RailConstants
<1> QED
  BY <1>1, <1>2, EnsureOK, ValidateUpdateOK, CommitUpdateOK, ReadLastOK, CreateRailOK,
     DeleteRailOK, ListRestOK, ReindexOK, RequestFailsOK

LEMMA RailsImplies == RailsInv => Rails!ArrangementKept /\ Rails!TypeOK
<1> SUFFICES ASSUME RailsInv PROVE Rails!ArrangementKept /\ Rails!TypeOK
  OBVIOUS
<1>1. Rails!ArrangementKept
  BY DEF RailsInv, Ordered, Rails!ArrangementKept
<1>2. ASSUME NEW r \in RailRequests
      PROVE  /\ railRequests[r].pc \in {"idle", "read", "write", "list"}
             /\ Rails!Range(railRequests[r].rails) \subseteq HomeRail \cup {NoPlace}
  <2>1. railRequests[r] \in RailRequestType
    BY DEF RailsInv
  <2> QED
    BY <2>1 DEF RailRequestType, Rails!Range
<1>3. \A x \in HomeRail : place[x] \in Nat \cup {NoPlace}
  BY DEF RailsInv
<1> QED
  BY <1>1, <1>2, <1>3 DEF RailsInv, Rails!TypeOK, HomeRail

KeepRails == UNCHANGED <<place, railRequests, arranged, crossed>>

LEMMA RailsKept == RailsInv /\ KeepRails => RailsInv'
<1> SUFFICES ASSUME RailsInv, KeepRails PROVE RailsInv'
  OBVIOUS
<1>1. arranged' \subseteq Rails!Listed' \X Rails!Listed'
  BY DEF RailsInv, KeepRails, Rails!Listed, Rails!Persisted
<1>2. (~crossed => Ordered /\ RenumberingsFit)'
  BY DEF RailsInv, KeepRails, Ordered, RenumberingsFit
<1> QED
  BY <1>1, <1>2 DEF RailsInv, KeepRails

-----------------------------------------------------------------------------
(* Home page. *)

CallType(q) ==
  /\ q = [pc |-> q.pc, op |-> q.op, ok |-> q.ok, rails |-> q.rails, content |-> q.content]
  /\ q.pc \in {"idle", "sent", "answered", "content"} /\ q.ok \in BOOLEAN

Contented == {"load", "save"}

\* Only a load reads, and the server never refuses it; content is asked for with the rails
\* of a load or of a saved order.
CallOK(c, q) ==
  /\ CallType(q)
  /\ q.pc # "idle" => q.op.kind \in {"read", "order", "create", "edit", "delete"}
  /\ c = "load" /\ q.pc # "idle" => q.op.kind = "read"
  /\ c = "load" /\ q.pc = "answered" => q.ok
  /\ q.pc = "content" => c \in Contented
  /\ q.pc # "content" => q.content = <<>>

\* A rail was created, changed or deleted, and the page has yet to load the rails for it.
ToBeLoaded(q) == q.pc = "answered" /\ q.ok

Ordering(q) == q.pc = "content" \/ ToBeLoaded(q)

\* The rails that the page has, or is about to have, are the server's.
RailsCurrent ==
  \/ ToBeLoaded(calls["form"]) \/ ToBeLoaded(calls["delete"])
  \/ /\ calls["load"].pc \in {"answered", "content"} => calls["load"].rails = server.rails
     /\ Ordering(calls["save"]) => calls["save"].rails = server.rails
     /\ ~Home!InFlight("load") /\ ~configError /\ ~Ordering(calls["save"]) =>
          railConfigs = server.rails

\* What is shown is of the rails that the page has.
ItemsComplete ==
  /\ \A c \in Contented : calls[c].pc = "content" => railConfigs = calls[c].rails
  /\ Home!RailsVisible /\ calls["save"].pc # "content" => DOMAIN items = Home!Enabled(railConfigs)

NotOffered(shown) == \A id \in DOMAIN shown : shown[id] # "requestable"

\* A scene that was requested is not offered, nor about to be.
RequestSeen ==
  server.requested /\ requestModal # "accepted" =>
    /\ \A c \in Home!Calls : NotOffered(calls[c].content)
    /\ Home!RailsVisible => NotOffered(items)

HomeSettled ==
  /\ abandoned = {}
  /\ ~ (Home!InFlight("load") /\ Home!InFlight("save"))
  /\ RailsCurrent /\ ItemsComplete /\ RequestSeen

HomeInv ==
  /\ server = [rails |-> server.rails, requested |-> server.requested]
  /\ calls = [c \in Home!Calls |-> calls[c]]
  /\ \A c \in Home!Calls : CallOK(c, calls[c])
  /\ tangled \in BOOLEAN
  /\ ~tangled => HomeSettled

LEMMA CallMoves ==
  ASSUME HomeInv, NEW c \in Home!Calls, NEW q, CallOK(c, q), calls' = [calls EXCEPT ![c] = q]
  PROVE  /\ calls' = [d \in Home!Calls |-> calls'[d]]
         /\ \A d \in Home!Calls : calls'[d] = IF d = c THEN q ELSE calls[d]
         /\ \A d \in Home!Calls : CallOK(d, calls'[d])
<1>1. \A d \in Home!Calls : calls'[d] = IF d = c THEN q ELSE calls[d]
  BY DEF HomeInv
<1>2. \A d \in Home!Calls : CallOK(d, calls'[d])
  BY <1>1, Zenon DEF HomeInv
<1>3. calls' = [d \in Home!Calls |-> calls'[d]]
  BY DEF HomeInv
<1> QED
  BY <1>1, <1>2, <1>3

LEMMA IdleCall ==
  ASSUME NEW c
  PROVE  CallOK(c, Home!Idle) /\ Home!Idle.pc = "idle" /\ Home!Idle.content = <<>>
BY DEF Home!Idle, CallOK, CallType

LEMMA SentCall ==
  ASSUME NEW c, NEW op, op.kind \in {"read", "order", "create", "edit", "delete"},
         c = "load" => op.kind = "read"
  PROVE  /\ CallOK(c, Home!Sent(op)) /\ Home!Sent(op).pc = "sent"
         /\ Home!Sent(op).content = <<>>
<1> DEFINE q == Home!Sent(op)
<1>1. /\ q = [pc |-> "sent", op |-> op, ok |-> FALSE, rails |-> <<>>, content |-> <<>>]
      /\ q.pc = "sent" /\ q.op = op /\ q.ok = FALSE /\ q.rails = <<>> /\ q.content = <<>>
  <2>1. Home!Sent(op) = [Home!Idle EXCEPT !.pc = "sent", !.op = op]
    BY Zenon DEF Home!Sent
  <2>2. Home!Idle = [pc |-> "idle", op |-> [kind |-> "none"], ok |-> FALSE, rails |-> <<>>,
                     content |-> <<>>]
    BY Zenon DEF Home!Idle
  <2> QED
    BY <2>1, <2>2
<1> HIDE DEF q
<1>2. CallOK(c, q) /\ q.pc = "sent" /\ q.content = <<>>
  BY <1>1 DEF CallOK, CallType
<1> QED
  BY <1>2 DEF q

\* A request that is refused leaves the rails; one that reads them is not refused.
LEMMA OutcomesOK ==
  ASSUME NEW op, op.kind \in {"read", "order", "create", "edit", "delete"},
         NEW a \in Home!Outcomes(op)
  PROVE  /\ a.ok \in BOOLEAN
         /\ ~a.ok => a.rails = server.rails
         /\ op.kind = "read" => a.ok /\ a.rails = server.rails
<1> DEFINE Done(r) == {[rails |-> r, ok |-> TRUE]}
           Refused == {[rails |-> server.rails, ok |-> FALSE]}
<1>1. CASE op.kind = "read"
  <2>1. a \in Done(server.rails)
    BY <1>1 DEF Home!Outcomes
  <2>2. a.ok = TRUE /\ a.rails = server.rails
    BY <2>1
  <2> QED
    BY <2>2, Zenon
<1>2. CASE op.kind \in {"order", "edit", "delete"}
  <2>1. (\E r : a \in Done(r)) \/ a \in Refused
    BY <1>2 DEF Home!Outcomes
  <2>2. a.ok = TRUE \/ (a.ok = FALSE /\ a.rails = server.rails)
    BY <2>1
  <2>3. op.kind # "read"
    BY <1>2
  <2> QED
    BY <2>2, <2>3, Zenon
<1>3. CASE op.kind = "create"
  <2>1. \E r : a \in Done(r)
    BY <1>3 DEF Home!Outcomes
  <2>2. a.ok = TRUE
    BY <2>1
  <2>3. op.kind # "read"
    BY <1>3
  <2> QED
    BY <2>2, <2>3, Zenon
<1> QED
  BY <1>1, <1>2, <1>3

LEMMA ReadCall ==
  ASSUME NEW c
  PROVE  /\ CallOK(c, Home!Sent(Home!Read)) /\ Home!Sent(Home!Read).pc = "sent"
         /\ Home!Sent(Home!Read).content = <<>>
<1>1. Home!Read.kind = "read"
  BY DEF Home!Read
<1> QED
  BY <1>1, SentCall

LEMMA EmptyNotOffered == NotOffered(<<>>) /\ DOMAIN <<>> = {}
BY DEF NotOffered

LEMMA HomeInit == Home!Init => HomeInv
<1> SUFFICES ASSUME Home!Init PROVE HomeInv
  OBVIOUS
<1>1. server = [rails |-> server.rails, requested |-> server.requested] /\ ~server.requested
  BY DEF Home!Init
<1>2. calls = [[c \in Home!Calls |-> Home!Idle] EXCEPT !["load"] = Home!Sent(Home!Read)]
  BY DEF Home!Init, Home!LoadHome
<1>3. \A c \in Home!Calls : calls[c] = IF c = "load" THEN Home!Sent(Home!Read) ELSE Home!Idle
  BY <1>2
<1>5. \A c \in Home!Calls : CallOK(c, calls[c])
  BY <1>3, IdleCall, ReadCall
<1>6. Home!InFlight("load") /\ calls["load"].pc = "sent" /\ calls["save"].pc = "idle"
  BY <1>3, IdleCall, ReadCall DEF Home!InFlight, Home!Calls
<1>7. RailsCurrent
  BY <1>6 DEF RailsCurrent, Ordering, ToBeLoaded, Home!InFlight
<1>8. ItemsComplete
  BY <1>6 DEF ItemsComplete, Contented, Home!RailsVisible
<1>9. HomeSettled
  BY <1>1, <1>6, <1>7, <1>8 DEF HomeSettled, RequestSeen, Home!InFlight, Home!Init
<1> QED
  BY <1>1, <1>2, <1>5, <1>9 DEF HomeInv, Home!Init

LEMMA QuietOK ==
  ASSUME HomeInv,
         UNCHANGED <<server, calls, abandoned, railConfigs, configError, items, tangled>>,
         requestModal' # "accepted" => requestModal # "accepted"
  PROVE  HomeInv'
<1>1. RailsCurrent => RailsCurrent'
  BY DEF RailsCurrent, Home!InFlight
<1>2. ItemsComplete => ItemsComplete'
  BY DEF ItemsComplete, Home!RailsVisible, Home!InFlight
<1>3. RequestSeen => RequestSeen'
  BY DEF RequestSeen, Home!RailsVisible, Home!InFlight
<1>4. HomeSettled => HomeSettled'
  BY <1>1, <1>2, <1>3 DEF HomeSettled, Home!InFlight
<1> QED
  BY <1>4 DEF HomeInv

\* After a reload everything is to be read from the server.
LEMMA ReloadsOK ==
  ASSUME HomeInv, NEW others, others = [c \in Home!Calls |-> others[c]],
         \A c \in Home!Calls : CallOK(c, others[c]),
         others["save"] = calls["save"], Home!Reloads(others),
         UNCHANGED <<server, abandoned, requestModal>>
  PROVE  HomeInv'
<1>1. /\ calls' = [others EXCEPT !["load"] = Home!Sent(Home!Read)]
      /\ tangled' = (Home!InFlight("save") \/ abandoned # {})
  BY DEF Home!Reloads, Home!LoadHome
<1>3. /\ calls' = [c \in Home!Calls |-> calls'[c]]
      /\ \A c \in Home!Calls : calls'[c] = IF c = "load" THEN Home!Sent(Home!Read) ELSE others[c]
  BY <1>1
<1>4. \A c \in Home!Calls : CallOK(c, calls'[c])
  BY <1>3, ReadCall
<1>5. ASSUME ~tangled' PROVE HomeSettled'
  <2>1. calls'["load"].pc = "sent" /\ calls'["save"].pc = "idle" /\ abandoned' = {}
    BY <1>1, <1>3, <1>5, ReadCall DEF Home!InFlight, Home!Calls
  <2>2. RailsCurrent'
    BY <2>1 DEF RailsCurrent, Ordering, ToBeLoaded, Home!InFlight
  <2>3. ItemsComplete'
    BY <2>1 DEF ItemsComplete, Contented, Home!RailsVisible, Home!InFlight
  <2>4. \A c \in Home!Calls : calls'[c].content = <<>>
    BY <1>4, <2>1 DEF CallOK, Contented, Home!Calls
  <2>5. RequestSeen'
    BY <2>1, <2>4, EmptyNotOffered DEF RequestSeen, Home!RailsVisible, Home!InFlight
  <2> QED
    BY <2>1, <2>2, <2>3, <2>5 DEF HomeSettled, Home!InFlight
<1> QED
  BY <1>1, <1>3, <1>4, <1>5 DEF HomeInv

LEMMA CallIdles ==
  ASSUME HomeInv, NEW c \in {"form", "delete"}
  PROVE  LET others == [calls EXCEPT ![c] = Home!Idle]
         IN /\ others = [d \in Home!Calls |-> others[d]]
            /\ \A d \in Home!Calls : CallOK(d, others[d])
            /\ others["save"] = calls["save"]
<1> DEFINE others == [calls EXCEPT ![c] = Home!Idle]
<1>1. others = [d \in Home!Calls |-> others[d]]
  BY DEF HomeInv
<1>2. \A d \in Home!Calls : others[d] = IF d = c THEN Home!Idle ELSE calls[d]
  BY DEF HomeInv
<1>3. \A d \in Home!Calls : CallOK(d, others[d])
  BY <1>2, IdleCall, Zenon DEF HomeInv
<1>4. others["save"] = calls["save"]
  BY <1>2 DEF Home!Calls
<1> QED
  BY <1>1, <1>3, <1>4

LEMMA LoadsOK ==
  ASSUME HomeInv, Home!RetryLoad \/ Home!FormAnswered \/ Home!DeleteAnswered
  PROVE  HomeInv'
<1>1. CASE Home!RetryLoad
  BY <1>1, ReloadsOK DEF HomeInv, Home!RetryLoad, Home!Outside
<1>2. CASE Home!FormAnswered
  BY <1>2, CallIdles, ReloadsOK DEF Home!FormAnswered, Home!Outside
<1>3. CASE Home!DeleteAnswered
  BY <1>3, CallIdles, ReloadsOK DEF Home!DeleteAnswered, Home!Outside
<1> QED
  BY <1>1, <1>2, <1>3

LEMMA NgOnDestroyOK ==
  ASSUME HomeInv, Home!NgOnDestroy
  PROVE  HomeInv'
<1>1. /\ calls' = [[c \in Home!Calls |-> Home!Idle] EXCEPT !["load"] = Home!Sent(Home!Read)]
      /\ tangled' = (abandoned' # {}) /\ UNCHANGED server
  BY DEF Home!NgOnDestroy, Home!LoadHome
<1>3. /\ calls' = [c \in Home!Calls |-> calls'[c]]
      /\ \A c \in Home!Calls : calls'[c] = IF c = "load" THEN Home!Sent(Home!Read) ELSE Home!Idle
  BY <1>1
<1>4. \A c \in Home!Calls : CallOK(c, calls'[c]) /\ calls'[c].content = <<>>
  BY <1>3, ReadCall, IdleCall
<1>5. ASSUME ~tangled' PROVE HomeSettled'
  <2>1. calls'["load"].pc = "sent" /\ calls'["save"].pc = "idle" /\ abandoned' = {}
    BY <1>1, <1>3, <1>5, ReadCall, IdleCall DEF Home!Calls
  <2>2. RailsCurrent'
    BY <2>1 DEF RailsCurrent, Ordering, ToBeLoaded, Home!InFlight
  <2>3. ItemsComplete'
    BY <2>1 DEF ItemsComplete, Contented, Home!RailsVisible, Home!InFlight
  <2>4. RequestSeen'
    BY <1>4, <2>1, EmptyNotOffered DEF RequestSeen, Home!RailsVisible, Home!InFlight
  <2> QED
    BY <2>1, <2>2, <2>3, <2>4 DEF HomeSettled, Home!InFlight
<1> QED
  BY <1>1, <1>3, <1>4, <1>5 DEF HomeInv

LEMMA ServerAnswersOK ==
  ASSUME HomeInv, NEW c \in Home!Calls, Home!ServerAnswers(c)
  PROVE  HomeInv'
<1> DEFINE op == calls[c].op
<1>1. PICK a \in Home!Outcomes(op) :
        /\ server' = [server EXCEPT !.rails = a.rails]
        /\ calls' = [calls EXCEPT ![c].pc = "answered", ![c].ok = a.ok, ![c].rails = a.rails]
  BY DEF Home!ServerAnswers
<1> DEFINE q == [calls[c] EXCEPT !.pc = "answered", !.ok = a.ok, !.rails = a.rails]
<1>2. /\ calls[c].pc = "sent" /\ CallOK(c, calls[c])
      /\ UNCHANGED <<railConfigs, configError, items, abandoned, requestModal, tangled>>
  BY DEF Home!ServerAnswers, Home!Page, HomeInv
<1>3. op.kind \in {"read", "order", "create", "edit", "delete"} /\ (c = "load" => op.kind = "read")
  BY <1>2 DEF CallOK
<1>4. /\ a.ok \in BOOLEAN
      /\ ~a.ok => a.rails = server.rails
      /\ op.kind = "read" => a.ok /\ a.rails = server.rails
  BY <1>3, OutcomesOK
<1>5. calls' = [calls EXCEPT ![c] = q]
  BY <1>1 DEF HomeInv
<1>6. /\ server'.rails = a.rails /\ server'.requested = server.requested
      /\ server' = [rails |-> server'.rails, requested |-> server'.requested]
  BY <1>1 DEF HomeInv
<1>7. /\ q.pc = "answered" /\ q.ok = a.ok /\ q.rails = a.rails /\ q.content = calls[c].content
      /\ q.op = calls[c].op
      /\ q = [pc |-> q.pc, op |-> q.op, ok |-> q.ok, rails |-> q.rails, content |-> q.content]
  <2>1. q = [pc |-> "answered", op |-> calls[c].op, ok |-> a.ok, rails |-> a.rails,
             content |-> calls[c].content]
    <3> DEFINE old == calls[c]
    <3>1. old = [pc |-> old.pc, op |-> old.op, ok |-> old.ok, rails |-> old.rails,
                 content |-> old.content]
      BY <1>2 DEF CallOK, CallType
    <3>2. q = [old EXCEPT !.pc = "answered", !.ok = a.ok, !.rails = a.rails]
      OBVIOUS
    <3> HIDE DEF old, q
    <3>3. q = [pc |-> "answered", op |-> old.op, ok |-> a.ok, rails |-> a.rails,
               content |-> old.content]
      BY <3>1, <3>2
    <3> QED
      BY <3>3 DEF old
  <2> HIDE DEF q
  <2> QED
    BY <2>1
<1> HIDE DEF q, op
<1>8. CallOK(c, q) /\ q.content = <<>>
  BY <1>2, <1>3, <1>4, <1>7 DEF CallOK, CallType, op
<1>9. ASSUME ~tangled' PROVE HomeSettled'
  <2>1. HomeSettled
    BY <1>2, <1>9 DEF HomeInv
  <2>2. \A d \in Home!Calls : calls'[d] = IF d = c THEN q ELSE calls[d]
    BY <1>5, <1>8, CallMoves
  <2>3. \A d \in Home!Calls : Home!InFlight(d)' <=> Home!InFlight(d)
    BY <1>2, <1>7, <2>2 DEF Home!InFlight
  <2>4. RailsCurrent'
    <3>1. CASE c = "load"
      <4>1. a.rails = server.rails
        BY <1>3, <1>4, <3>1
      <4> QED
        BY <1>2, <1>6, <1>7, <2>1, <2>2, <2>3, <3>1, <4>1
           DEF HomeSettled, RailsCurrent, Ordering, ToBeLoaded, Home!Calls
    <3>2. CASE c # "load" /\ ~a.ok
      <4>1. server'.rails = server.rails
        BY <1>4, <1>6, <3>2
      <4> QED
        BY <1>2, <1>7, <2>1, <2>2, <2>3, <3>2, <4>1
           DEF HomeSettled, RailsCurrent, Ordering, ToBeLoaded, Home!Calls
    <3>3. CASE c \in {"form", "delete"} /\ a.ok
      BY <1>7, <2>2, <3>3 DEF RailsCurrent, ToBeLoaded, Home!Calls
    <3>4. CASE c = "save" /\ a.ok
      <4>1. calls'["load"].pc = "idle" /\ ToBeLoaded(calls'["save"])
        BY <1>2, <1>7, <2>1, <2>2, <3>4 DEF HomeSettled, ToBeLoaded, Home!InFlight, Home!Calls
      <4> QED
        BY <1>6, <1>7, <2>2, <3>4, <4>1 DEF RailsCurrent, Ordering, Home!Calls
    <3> QED
      BY <3>1, <3>2, <3>3, <3>4 DEF Home!Calls
  <2>5. ItemsComplete'
    <3>1. \A d \in Home!Calls : calls'[d].pc = "content" =>
            calls[d].pc = "content" /\ calls'[d].rails = calls[d].rails
      BY <1>7, <2>2
    <3>2. calls["save"].pc = "content" => calls'["save"].pc = "content"
      BY <1>2, <2>2 DEF Home!Calls
    <3> QED
      BY <1>2, <2>1, <2>3, <3>1, <3>2
         DEF HomeSettled, ItemsComplete, Contented, Home!RailsVisible, Home!Calls
  <2>6. RequestSeen'
    <3>1. \A d \in Home!Calls : calls'[d].content = calls[d].content
      BY <1>7, <2>2
    <3> QED
      BY <1>2, <1>6, <2>1, <2>3, <3>1
         DEF HomeSettled, RequestSeen, Home!RailsVisible, Home!Calls
  <2> QED
    BY <1>2, <2>1, <2>3, <2>4, <2>5, <2>6 DEF HomeSettled, Home!Calls
<1> QED
  BY <1>2, <1>5, <1>6, <1>8, <1>9, CallMoves DEF HomeInv

LEMMA SentOK ==
  ASSUME HomeInv, Home!SaveRails \/ \E enabled \in BOOLEAN : Home!SaveRailForm(enabled)
  PROVE  HomeInv'
<1>1. \E c \in {"save", "form"} : \E op :
        /\ calls' = [calls EXCEPT ![c] = Home!Sent(op)] /\ ~Home!InFlight(c)
        /\ op.kind \in {"order", "create", "edit"}
  <2>1. CASE Home!SaveRails
    <3> DEFINE op == [kind |-> "order", rails |-> draftRails]
    <3>1. op.kind = "order" /\ calls' = [calls EXCEPT !["save"] = Home!Sent(op)]
      BY <2>1 DEF Home!SaveRails
    <3> QED
      BY <2>1, <3>1 DEF Home!SaveRails
  <2>2. ASSUME NEW enabled \in BOOLEAN, Home!SaveRailForm(enabled)
        PROVE  \E op : /\ calls' = [calls EXCEPT !["form"] = Home!Sent(op)]
                       /\ op.kind \in {"create", "edit"} /\ ~Home!InFlight("form")
    <3> DEFINE op == IF railForm = NewRail THEN [kind |-> "create", enabled |-> enabled]
                     ELSE [kind |-> "edit", id |-> railForm, enabled |-> enabled]
    <3>1. op.kind \in {"create", "edit"}
      OBVIOUS
    <3>2. calls' = [calls EXCEPT !["form"] = Home!Sent(op)] /\ ~Home!InFlight("form")
      BY <2>2 DEF Home!SaveRailForm
    <3> HIDE DEF op
    <3> QED
      BY <3>1, <3>2
  <2> QED
    BY <2>1, <2>2
<1>a. PICK c \in {"save", "form"} : \E op :
        /\ calls' = [calls EXCEPT ![c] = Home!Sent(op)] /\ ~Home!InFlight(c)
        /\ op.kind \in {"order", "create", "edit"}
  BY <1>1
<1>b. PICK op :
        /\ calls' = [calls EXCEPT ![c] = Home!Sent(op)] /\ ~Home!InFlight(c)
        /\ op.kind \in {"order", "create", "edit"}
  BY <1>a
<1>2. /\ ~Home!InFlight("load") /\ ~configError
      /\ UNCHANGED <<server, abandoned, railConfigs, configError, items, requestModal, tangled>>
  BY DEF Home!SaveRails, Home!SaveRailForm, Home!EditorVisible, Home!RailsVisible, Home!Outside,
     Home!Page
<1>3. /\ CallOK(c, Home!Sent(op)) /\ Home!Sent(op).pc = "sent" /\ Home!Sent(op).content = <<>>
      /\ c \in Home!Calls
  BY <1>b, SentCall DEF Home!Calls
<1>4. ASSUME ~tangled' PROVE HomeSettled'
  <2>1. HomeSettled
    BY <1>2, <1>4 DEF HomeInv
  <2>2. \A d \in Home!Calls : calls'[d] = IF d = c THEN Home!Sent(op) ELSE calls[d]
    BY <1>b, <1>3, CallMoves
  <2>3. calls'["load"] = calls["load"] /\ calls'["delete"] = calls["delete"]
    BY <1>b, <2>2 DEF Home!Calls
  <2>4. RailsCurrent'
    BY <1>b, <1>2, <1>3, <2>1, <2>2, <2>3
       DEF HomeSettled, RailsCurrent, Ordering, ToBeLoaded, Home!InFlight, Home!Calls
  <2>5. ItemsComplete'
    BY <1>b, <1>2, <1>3, <2>1, <2>2, <2>3
       DEF HomeSettled, ItemsComplete, Contented, Home!RailsVisible, Home!InFlight, Home!Calls
  <2>6. RequestSeen'
    <3>1. \A d \in Home!Calls : calls'[d].content = <<>> \/ calls'[d].content = calls[d].content
      BY <1>3, <2>2
    <3> QED
      BY <1>2, <2>1, <2>3, <3>1, EmptyNotOffered
         DEF HomeSettled, RequestSeen, Home!RailsVisible, Home!InFlight
  <2> QED
    BY <1>2, <2>1, <2>3, <2>4, <2>5, <2>6 DEF HomeSettled, Home!InFlight
<1> QED
  BY <1>b, <1>2, <1>3, <1>4, CallMoves DEF HomeInv

LEMMA DeleteCustomRailOK ==
  ASSUME HomeInv, NEW x \in Custom, Home!DeleteCustomRail(x)
  PROVE  HomeInv'
<1> DEFINE op == [kind |-> "delete", id |-> x]
<1>1. /\ calls' = [calls EXCEPT !["delete"] = Home!Sent(op)]
      /\ tangled' = (tangled \/ Home!InFlight("delete"))
      /\ abandoned' = abandoned \cup {o \in {calls["delete"].op} : calls["delete"].pc = "sent"}
      /\ ~Home!InFlight("load") /\ ~configError
      /\ UNCHANGED <<server, railConfigs, configError, items, requestModal>>
  BY DEF Home!DeleteCustomRail, Home!EditorVisible, Home!RailsVisible, Home!Page
<1>2. /\ CallOK("delete", Home!Sent(op)) /\ Home!Sent(op).pc = "sent"
      /\ Home!Sent(op).content = <<>> /\ "delete" \in Home!Calls
  <2>1. op.kind = "delete"
    OBVIOUS
  <2> HIDE DEF op
  <2> QED
    BY <2>1, SentCall DEF Home!Calls
<1> HIDE DEF op
<1>3. ASSUME ~tangled' PROVE HomeSettled'
  <2>1. HomeSettled /\ calls["delete"].pc = "idle"
    BY <1>1, <1>3 DEF HomeInv, Home!InFlight
  <2>2. \A d \in Home!Calls : calls'[d] = IF d = "delete" THEN Home!Sent(op) ELSE calls[d]
    BY <1>1, <1>2, CallMoves
  <2>3. /\ calls'["load"] = calls["load"] /\ calls'["save"] = calls["save"]
        /\ calls'["form"] = calls["form"] /\ calls'["delete"] = Home!Sent(op)
    BY <2>2 DEF Home!Calls
  <2>4. RailsCurrent'
    BY <1>1, <2>1, <2>3 DEF HomeSettled, RailsCurrent, Ordering, ToBeLoaded, Home!InFlight
  <2>5. ItemsComplete'
    BY <1>1, <2>1, <2>3 DEF HomeSettled, ItemsComplete, Contented, Home!RailsVisible, Home!InFlight
  <2>6. RequestSeen'
    <3>1. \A d \in Home!Calls : calls'[d].content = <<>> \/ calls'[d].content = calls[d].content
      BY <1>2, <2>2
    <3> QED
      BY <1>1, <2>1, <2>3, <3>1, EmptyNotOffered
         DEF HomeSettled, RequestSeen, Home!RailsVisible, Home!InFlight
  <2>7. abandoned' = {}
    BY <1>1, <2>1 DEF HomeSettled
  <2> QED
    BY <2>1, <2>3, <2>4, <2>5, <2>6, <2>7 DEF HomeSettled, Home!InFlight
<1>4. tangled' \in BOOLEAN
  BY <1>1 DEF HomeInv, Home!InFlight
<1> QED
  BY <1>1, <1>2, <1>3, <1>4, CallMoves DEF HomeInv

\* The content of a load or of a saved order is there: shown, unless another one follows.
LEMMA ShownOK ==
  ASSUME HomeInv, NEW c \in Contented, NEW shown, Home!Shown(c, shown),
         DOMAIN shown = Home!Enabled(calls[c].rails),
         server.requested /\ requestModal # "accepted" /\ ~tangled => NotOffered(shown),
         \/ calls[c].pc = "content" /\ railConfigs' = railConfigs
         \/ calls[c].pc = "answered" /\ calls[c].ok /\ railConfigs' = calls[c].rails,
         UNCHANGED <<server, abandoned, configError, requestModal, tangled>>
  PROVE  HomeInv'
<1>1. /\ items' = shown /\ calls' = [calls EXCEPT ![c] = Home!Idle]
      /\ c \in Home!Calls
  BY DEF Home!Shown, Contented, Home!Calls
<1>2. ASSUME ~tangled' PROVE HomeSettled'
  <2>1. HomeSettled
    BY <1>2 DEF HomeInv
  <2>2. \A d \in Home!Calls : calls'[d] = IF d = c THEN Home!Idle ELSE calls[d]
    BY <1>1, IdleCall, CallMoves
  <2>3. /\ Home!Idle.pc = "idle"
        /\ calls["load"].pc = "idle" \/ calls["save"].pc = "idle"
        /\ {"load", "save", "form", "delete"} = Home!Calls
    BY <2>1, IdleCall DEF HomeSettled, Home!InFlight, Home!Calls
  <2>4. /\ calls'["load"].pc = "idle" /\ calls'["save"].pc = "idle"
        /\ calls'["form"] = calls["form"] /\ calls'["delete"] = calls["delete"]
    <3>1. c = "load" \/ c = "save"
      BY DEF Contented
    <3>2. calls[c].pc # "idle"
      OBVIOUS
    <3> QED
      BY <2>2, <2>3, <3>1, <3>2
  <2>5. railConfigs' = calls[c].rails
    BY <2>1 DEF HomeSettled, ItemsComplete
  <2>6. RailsCurrent'
    <3>1. \/ ToBeLoaded(calls["form"]) \/ ToBeLoaded(calls["delete"])
          \/ calls[c].rails = server.rails
      BY <2>1 DEF HomeSettled, RailsCurrent, Contented, Ordering, ToBeLoaded
    <3> QED
      BY <2>4, <2>5, <3>1 DEF RailsCurrent, Ordering, ToBeLoaded
  <2>7. ItemsComplete'
    BY <1>1, <2>4, <2>5 DEF ItemsComplete, Contented
  <2>8. RequestSeen'
    <3>1. \A d \in Home!Calls : calls'[d].content = <<>> \/ calls'[d].content = calls[d].content
      BY <2>2, IdleCall
    <3> QED
      BY <1>1, <1>2, <2>1, <3>1, EmptyNotOffered DEF HomeSettled, RequestSeen
  <2> QED
    BY <2>1, <2>4, <2>6, <2>7, <2>8 DEF HomeSettled, Home!InFlight
<1> QED
  BY <1>1, <1>2, IdleCall, CallMoves DEF HomeInv

LEMMA ContentAnsweredOK ==
  ASSUME HomeInv, NEW c \in Home!Calls, Home!ContentAnswered(c)
  PROVE  HomeInv'
<1>1. /\ calls[c].pc = "content" /\ c \in Contented
      /\ DOMAIN calls[c].content = Home!Enabled(calls[c].rails)
      /\ Home!Shown(c, calls[c].content)
      /\ UNCHANGED <<server, abandoned, railConfigs, configError, requestModal, tangled>>
  BY DEF Home!ContentAnswered, Home!Outside, HomeInv, CallOK
<1>2. server.requested /\ requestModal # "accepted" /\ ~tangled => NotOffered(calls[c].content)
  BY DEF HomeInv, HomeSettled, RequestSeen
<1> QED
  BY <1>1, <1>2, ShownOK

LEMMA RailsAnsweredOK ==
  ASSUME HomeInv, NEW c \in Home!Calls, Home!RailsAnswered(c)
  PROVE  HomeInv'
<1>1. /\ c \in Contented /\ calls[c].pc = "answered" /\ calls[c].ok
      /\ railConfigs' = calls[c].rails
      /\ UNCHANGED <<server, abandoned, configError, requestModal, tangled>>
  BY DEF Home!RailsAnswered, Home!Outside, Contented
<1>2. CASE Home!Enabled(calls[c].rails) = {}
  <2>1. Home!Shown(c, <<>>)
    BY <1>2 DEF Home!RailsAnswered
  <2> QED
    BY <1>1, <1>2, <2>1, EmptyNotOffered, ShownOK
<1>3. CASE Home!Enabled(calls[c].rails) # {}
  <2> DEFINE q == [calls[c] EXCEPT !.pc = "content"]
  <2>1. /\ calls' = [calls EXCEPT ![c] = q]
        /\ items' = IF c = "load" THEN <<>> ELSE items
    BY <1>3 DEF Home!RailsAnswered, HomeInv
  <2>2. CallOK(c, calls[c])
    BY DEF HomeInv
  <2>3. /\ q.pc = "content" /\ q.op = calls[c].op /\ q.ok = calls[c].ok
        /\ q.rails = calls[c].rails /\ q.content = calls[c].content
        /\ q = [pc |-> q.pc, op |-> q.op, ok |-> q.ok, rails |-> q.rails, content |-> q.content]
    BY <2>2 DEF CallOK, CallType
  <2> HIDE DEF q
  <2>4. CallOK(c, q) /\ q.content = <<>>
    BY <1>1, <2>2, <2>3 DEF CallOK, CallType
  <2>5. ASSUME ~tangled' PROVE HomeSettled'
    <3>1. HomeSettled
      BY <1>1, <2>5 DEF HomeInv
    <3>2. \A d \in Home!Calls : calls'[d] = IF d = c THEN q ELSE calls[d]
      BY <2>1, <2>4, CallMoves
    <3>3. \A d \in Home!Calls : Home!InFlight(d)' <=> Home!InFlight(d)
      BY <1>1, <2>3, <3>2 DEF Home!InFlight
    <3>4. \/ c = "load" /\ calls["save"].pc = "idle" /\ calls'["save"].pc = "idle"
             /\ calls'["load"] = q
          \/ c = "save" /\ calls["load"].pc = "idle" /\ calls'["load"].pc = "idle"
             /\ calls'["save"] = q
      BY <1>1, <3>1, <3>2 DEF HomeSettled, Home!InFlight, Contented, Home!Calls
    <3>5. calls'["form"] = calls["form"] /\ calls'["delete"] = calls["delete"]
      BY <1>1, <3>2 DEF Contented, Home!Calls
    <3>6. RailsCurrent'
      BY <1>1, <2>3, <3>1, <3>4, <3>5
         DEF HomeSettled, RailsCurrent, Ordering, ToBeLoaded, Home!InFlight
    <3>7. ItemsComplete'
      BY <1>1, <2>3, <3>4 DEF ItemsComplete, Contented, Home!RailsVisible, Home!InFlight
    <3>8. RequestSeen'
      <4>1. \A d \in Home!Calls : calls'[d].content = <<>> \/ calls'[d].content = calls[d].content
        BY <2>4, <3>2
      <4>2. Home!RailsVisible' => Home!RailsVisible /\ items' = items
        BY <1>1, <2>1, <2>3, <3>4 DEF Home!RailsVisible, Home!InFlight
      <4> QED
        BY <1>1, <3>1, <4>1, <4>2, EmptyNotOffered DEF HomeSettled, RequestSeen
    <3> QED
      BY <1>1, <3>1, <3>3, <3>6, <3>7, <3>8 DEF HomeSettled, Home!Calls
  <2> QED
    BY <1>1, <2>1, <2>4, <2>5, CallMoves DEF HomeInv
<1> QED
  BY <1>2, <1>3

LEMMA LoadSingleRailOK ==
  ASSUME HomeInv, NEW c \in Home!Calls, NEW id, NEW failed \in BOOLEAN,
         Home!LoadSingleRail(c, id, failed)
  PROVE  HomeInv'
<1> DEFINE others == calls[c].content
           shown == IF failed THEN "failed"
                    ELSE IF server.requested THEN "requested" ELSE "requestable"
           more == [x \in DOMAIN others \cup {id} |-> IF x = id THEN shown ELSE others[x]]
           q == [calls[c] EXCEPT !.content = more]
<1>1. /\ calls[c].pc = "content"
      /\ calls' = [calls EXCEPT ![c] = q]
      /\ UNCHANGED <<server, abandoned, railConfigs, configError, items, requestModal, tangled>>
  BY DEF Home!LoadSingleRail, Home!Outside, Home!Page, HomeInv
<1>2. CallOK(c, calls[c])
  BY DEF HomeInv
<1>3. server.requested /\ NotOffered(others) => NotOffered(more)
  BY DEF NotOffered
<1> HIDE DEF more
<1>4. /\ q.pc = calls[c].pc /\ q.op = calls[c].op /\ q.ok = calls[c].ok
      /\ q.rails = calls[c].rails /\ q.content = more
      /\ q = [pc |-> q.pc, op |-> q.op, ok |-> q.ok, rails |-> q.rails, content |-> q.content]
  BY <1>2 DEF CallOK, CallType
<1> HIDE DEF q
<1>5. CallOK(c, q)
  BY <1>1, <1>2, <1>4 DEF CallOK, CallType
<1>6. ASSUME ~tangled' PROVE HomeSettled'
  <2>1. HomeSettled
    BY <1>1, <1>6 DEF HomeInv
  <2>2. \A d \in Home!Calls : calls'[d] = IF d = c THEN q ELSE calls[d]
    BY <1>1, <1>5, CallMoves
  <2>3. \A d \in Home!Calls : /\ calls'[d].pc = calls[d].pc /\ calls'[d].ok = calls[d].ok
                              /\ calls'[d].rails = calls[d].rails
    BY <1>4, <2>2
  <2>4. \A d \in Home!Calls : Home!InFlight(d)' <=> Home!InFlight(d)
    BY <2>3 DEF Home!InFlight
  <2>5. RailsCurrent'
    BY <1>1, <2>1, <2>3, <2>4 DEF HomeSettled, RailsCurrent, Ordering, ToBeLoaded, Home!Calls
  <2>6. ItemsComplete'
    BY <1>1, <2>1, <2>3, <2>4
       DEF HomeSettled, ItemsComplete, Contented, Home!RailsVisible, Home!Calls
  <2>7. RequestSeen'
    <3>1. \A d \in Home!Calls : server.requested /\ NotOffered(calls[d].content)
                                  => NotOffered(calls'[d].content)
      BY <1>3, <1>4, <2>2
    <3> QED
      BY <1>1, <2>1, <2>4, <3>1 DEF HomeSettled, RequestSeen, Home!RailsVisible, Home!Calls
  <2> QED
    BY <1>1, <2>1, <2>4, <2>5, <2>6, <2>7 DEF HomeSettled, Home!Calls
<1> QED
  BY <1>1, <1>5, <1>6, CallMoves DEF HomeInv

LEMMA FailsOK ==
  ASSUME HomeInv, NEW c \in Home!Calls, Home!Fails(c), calls[c].pc \in {"sent", "answered"}
  PROVE  HomeInv'
<1>1. /\ calls' = [calls EXCEPT ![c] = Home!Idle]
      /\ tangled' = (tangled \/ (c # "load" /\ calls[c].ok) \/ abandoned' # {})
      /\ UNCHANGED <<server, items, requestModal>>
      /\ IF c = "load" THEN configError' = TRUE ELSE UNCHANGED <<configError, railConfigs>>
  BY DEF Home!Fails, Home!Outside
<1>2. tangled' \in BOOLEAN
  BY <1>1 DEF HomeInv, CallOK, CallType
<1>3. ASSUME ~tangled' PROVE HomeSettled'
  <2>1. HomeSettled /\ (c # "load" => ~calls[c].ok) /\ abandoned' = {}
    BY <1>1, <1>3 DEF HomeInv
  <2>2. \A d \in Home!Calls : calls'[d] = IF d = c THEN Home!Idle ELSE calls[d]
    BY <1>1, IdleCall, CallMoves
  <2>3. Home!Idle.pc = "idle"
    BY IdleCall
  <2>4. ASSUME NEW d \in Home!Calls PROVE Home!InFlight(d)' => Home!InFlight(d)
    BY <2>2, <2>3 DEF Home!InFlight
  <2>5. \A d \in Home!Calls : calls'[d].content = <<>> \/ calls'[d].content = calls[d].content
    BY <2>2, IdleCall
  <2>6. RailsCurrent'
    BY <1>1, <2>1, <2>2, <2>3
       DEF HomeSettled, RailsCurrent, Ordering, ToBeLoaded, Home!InFlight, Home!Calls
  <2>7. ItemsComplete'
    <3>1. calls[c].pc # "content"
      OBVIOUS
    <3>2. CASE c = "load"
      <4>1. calls["save"].pc # "content" /\ calls'["save"].pc # "content" /\ calls'["load"].pc = "idle"
        BY <2>1, <2>2, <2>3, <3>2 DEF HomeSettled, Home!InFlight, Home!Calls
      <4> QED
        BY <1>1, <3>2, <4>1 DEF ItemsComplete, Contented, Home!RailsVisible
    <3>3. CASE c # "load"
      BY <1>1, <2>1, <2>2, <2>3, <3>1, <3>3
         DEF HomeSettled, ItemsComplete, Contented, Home!RailsVisible, Home!InFlight, Home!Calls
    <3> QED
      BY <3>2, <3>3
  <2>8. RequestSeen'
    <3>1. Home!RailsVisible' => Home!RailsVisible
      BY <1>1, <2>2 DEF Home!RailsVisible, Home!InFlight, Home!Calls
    <3> QED
      BY <1>1, <2>1, <2>5, <3>1, EmptyNotOffered DEF HomeSettled, RequestSeen
  <2> QED
    BY <1>1, <2>1, <2>4, <2>6, <2>7, <2>8 DEF HomeSettled, Home!Calls
<1> QED
  BY <1>1, <1>2, <1>3, IdleCall, CallMoves DEF HomeInv

LEMMA ServerRequestsOK ==
  ASSUME HomeInv, Home!ServerRequests
  PROVE  HomeInv'
<1>1. /\ requestModal' = "accepted" /\ server' = [server EXCEPT !.requested = TRUE]
      /\ UNCHANGED <<calls, abandoned, railConfigs, configError, items, tangled>>
  BY DEF Home!ServerRequests, Home!Page
<1>2. /\ server'.rails = server.rails
      /\ server' = [rails |-> server'.rails, requested |-> server'.requested]
  BY <1>1 DEF HomeInv
<1>3. RailsCurrent => RailsCurrent'
  BY <1>1, <1>2 DEF RailsCurrent, Home!InFlight
<1>4. ItemsComplete => ItemsComplete'
  BY <1>1 DEF ItemsComplete, Home!RailsVisible, Home!InFlight
<1>5. RequestSeen'
  BY <1>1 DEF RequestSeen
<1>6. HomeSettled => HomeSettled'
  BY <1>1, <1>3, <1>4, <1>5 DEF HomeSettled, Home!InFlight
<1> QED
  BY <1>1, <1>2, <1>6 DEF HomeInv

LEMMA OnRequestSubmittedOK ==
  ASSUME HomeInv, Home!OnRequestSubmitted
  PROVE  HomeInv'
<1>1. /\ items' = [id \in DOMAIN items |-> IF items[id] = "failed" THEN "failed" ELSE "requested"]
      /\ tangled' = (tangled \/ \E c \in Home!Calls : "requestable" \in Home!Range(calls[c].content))
      /\ UNCHANGED <<server, calls, abandoned, railConfigs, configError>>
  BY DEF Home!OnRequestSubmitted
<1>2. tangled' \in BOOLEAN
  BY <1>1 DEF HomeInv
<1>3. RailsCurrent => RailsCurrent'
  BY <1>1 DEF RailsCurrent, Home!InFlight
<1>4. DOMAIN items' = DOMAIN items /\ NotOffered(items')
  BY <1>1 DEF NotOffered
<1>5. ItemsComplete => ItemsComplete'
  BY <1>1, <1>4 DEF ItemsComplete, Home!RailsVisible, Home!InFlight
<1>6. ASSUME ~tangled' PROVE HomeSettled'
  <2>1. \A c \in Home!Calls : NotOffered(calls[c].content)
    BY <1>1, <1>6 DEF NotOffered, Home!Range
  <2>2. RequestSeen'
    BY <1>1, <1>4, <2>1 DEF RequestSeen
  <2>3. HomeSettled
    BY <1>1, <1>6 DEF HomeInv
  <2> QED
    BY <1>1, <1>3, <1>5, <2>2, <2>3 DEF HomeSettled, Home!InFlight
<1> QED
  BY <1>1, <1>2, <1>6 DEF HomeInv

\* The page does not learn of a request whose dialog was closed.
LEMMA CloseModalOK ==
  ASSUME HomeInv, Home!CloseModal
  PROVE  HomeInv'
<1>1. /\ tangled' = (tangled \/ requestModal = "accepted" \/ abandoned' # {})
      /\ UNCHANGED <<server, calls, railConfigs, configError, items>>
  BY DEF Home!CloseModal, Home!Page
<1>2. tangled' \in BOOLEAN
  BY <1>1 DEF HomeInv
<1>3. RailsCurrent => RailsCurrent'
  BY <1>1 DEF RailsCurrent, Home!InFlight
<1>4. ItemsComplete => ItemsComplete'
  BY <1>1 DEF ItemsComplete, Home!RailsVisible, Home!InFlight
<1>5. ASSUME ~tangled' PROVE HomeSettled'
  <2>1. HomeSettled /\ requestModal # "accepted" /\ abandoned' = {}
    BY <1>1, <1>5 DEF HomeInv
  <2>2. RequestSeen'
    BY <1>1, <2>1 DEF HomeSettled, RequestSeen, Home!RailsVisible, Home!InFlight
  <2> QED
    BY <1>1, <1>3, <1>4, <2>1, <2>2 DEF HomeSettled, Home!InFlight
<1> QED
  BY <1>1, <1>2, <1>5 DEF HomeInv

LEMMA AbandonedAnsweredOK ==
  ASSUME HomeInv, NEW op \in abandoned, Home!AbandonedAnswered(op)
  PROVE  HomeInv'
<1>1. UNCHANGED <<calls, tangled>>
  BY DEF Home!AbandonedAnswered
<1>2. tangled' = TRUE
  BY <1>1 DEF HomeInv, HomeSettled
<1>3. server' = [rails |-> server'.rails, requested |-> server'.requested]
  <2>1. \/ server' = [server EXCEPT !.requested = TRUE]
        \/ \E a \in Home!Outcomes(op) : server' = [server EXCEPT !.rails = a.rails]
    BY DEF Home!AbandonedAnswered
  <2> QED
    BY <2>1 DEF HomeInv
<1> QED
  BY <1>1, <1>2, <1>3 DEF HomeInv

LEMMA HomeNext == HomeInv /\ Home!Next => HomeInv'
<1> SUFFICES ASSUME HomeInv, Home!Next PROVE HomeInv'
  OBVIOUS
<1>1. ASSUME NEW c \in Home!Calls,
             \/ Home!ServerAnswers(c) \/ Home!RailsAnswered(c) \/ Home!ContentAnswered(c)
             \/ \E id \in Builtin \cup Custom, failed \in BOOLEAN :
                  Home!LoadSingleRail(c, id, failed)
      PROVE  HomeInv'
  BY <1>1, ServerAnswersOK, RailsAnsweredOK, ContentAnsweredOK, LoadSingleRailOK
<1>2. ASSUME NEW c \in Home!Calls, Home!Refused(c) \/ Home!RequestFails(c)
      PROVE  HomeInv'
  BY <1>2, FailsOK DEF Home!Refused, Home!RequestFails
<1>3. CASE Home!OpenEditor \/ Home!CancelEditor \/ Home!EditDraft \/ Home!CloseRailForm
           \/ (\E x \in Custom \cup {NewRail} : Home!OpenRailForm(x))
           \/ Home!OpenRequestModal \/ Home!SubmitRequest
  <2>1. /\ UNCHANGED <<server, calls, abandoned, railConfigs, configError, items, tangled>>
        /\ requestModal' # "accepted" => requestModal # "accepted"
    BY <1>3 DEF Home!OpenEditor, Home!CancelEditor, Home!EditDraft, Home!CloseRailForm,
       Home!OpenRailForm, Home!OpenRequestModal, Home!SubmitRequest, Home!Outside, Home!Page
  <2> QED
    BY <2>1, QuietOK
<1> QED
  BY <1>1, <1>2, <1>3, SentOK, LoadsOK, DeleteCustomRailOK, ServerRequestsOK,
     OnRequestSubmittedOK, CloseModalOK, NgOnDestroyOK, AbandonedAnsweredOK DEF Home!Next

LEMMA HomeImplies == HomeInv => Home!HomeShowsRails
<1> SUFFICES ASSUME HomeInv, ~tangled, Home!RailsVisible
             PROVE  /\ (\A c \in Home!Calls : ~Home!InFlight(c)) =>
                         /\ railConfigs = server.rails
                         /\ DOMAIN items = Home!Enabled(railConfigs)
                    /\ server.requested /\ requestModal # "accepted" =>
                         "requestable" \notin Home!Range(items)
  BY DEF Home!HomeShowsRails
<1>1. RailsCurrent /\ ItemsComplete /\ RequestSeen
  BY DEF HomeInv, HomeSettled
<1>2. ASSUME \A c \in Home!Calls : ~Home!InFlight(c)
      PROVE  railConfigs = server.rails /\ DOMAIN items = Home!Enabled(railConfigs)
  BY <1>1, <1>2 DEF RailsCurrent, ItemsComplete, Ordering, ToBeLoaded, Home!RailsVisible,
     Home!InFlight, Home!Calls
<1>3. ASSUME server.requested /\ requestModal # "accepted"
      PROVE  "requestable" \notin Home!Range(items)
  BY <1>1, <1>3 DEF RequestSeen, NotOffered, Home!Range
<1> QED
  BY <1>2, <1>3

KeepHome == UNCHANGED HomeVars

LEMMA HomeKept == HomeInv /\ KeepHome => HomeInv'
BY QuietOK DEF KeepHome, HomeVars

-----------------------------------------------------------------------------
\* The types of the home page.

HomeRow == [id : Builtin \cup Custom, enabled : BOOLEAN]

\* No rail is listed twice.
RailList(s) ==
  s \in Seq(HomeRow) /\ \A n, m \in 1..Len(s) : s[n].id = s[m].id => n = m

ItemsOK(x) ==
  /\ DOMAIN x \subseteq Builtin \cup Custom
  /\ \A id \in DOMAIN x : x[id] \in {"requestable", "requested", "failed"}

OpTyped(op) ==
  /\ op.kind \in {"read", "order", "create", "edit", "delete", "request"}
  /\ op.kind = "order" => RailList(op.rails)
  /\ op.kind \in {"create", "edit"} => op.enabled \in BOOLEAN

CallTyped(q) ==
  /\ RailList(q.rails) /\ ItemsOK(q.content)
  /\ q.pc # "idle" => OpTyped(q.op)

HomeTypes ==
  /\ RailList(server.rails) /\ RailList(railConfigs) /\ RailList(draftRails)
  /\ Home!Ids(draftRails) = Home!Ids(railConfigs)
  /\ ItemsOK(items)
  /\ railForm \in Custom \cup {NewRail, NoForm}
  /\ \A c \in Home!Calls : CallTyped(calls[c])
  /\ \A op \in abandoned : OpTyped(op)

LEMMA EmptyTyped == RailList(<<>>) /\ ItemsOK(<<>>) /\ Home!Ids(<<>>) = {}
BY DEF RailList, ItemsOK, Home!Ids

LEMMA IdsOf ==
  ASSUME NEW s, RailList(s)
  PROVE  /\ Home!Ids(s) = {s[n].id : n \in 1..Len(s)} /\ Home!Ids(s) \subseteq Builtin \cup Custom
         /\ Home!Enabled(s) \subseteq Builtin \cup Custom
         /\ Len(s) \in Nat /\ DOMAIN s = 1..Len(s) /\ \A n \in 1..Len(s) : s[n] \in HomeRow
<1>1. s \in Seq(HomeRow) /\ Len(s) \in Nat /\ DOMAIN s = 1..Len(s) /\ \A n \in 1..Len(s) : s[n] \in HomeRow
  BY DEF RailList
<1>2. \A n \in 1..Len(s) : s[n].id \in Builtin \cup Custom
  BY <1>1 DEF HomeRow
<1> QED
  BY <1>1, <1>2 DEF Home!Ids, Home!Enabled

\* Rails are listed from rows that are told apart by their ids.
LEMMA ListOfRows ==
  ASSUME NEW k \in Nat, NEW s, s = [n \in 1..k |-> s[n]], \A n \in 1..k : s[n] \in HomeRow,
         \A n, m \in 1..k : s[n].id = s[m].id => n = m
  PROVE  RailList(s) /\ Len(s) = k
<1>1. [n \in 1..k |-> s[n]] \in Seq(HomeRow) /\ Len([n \in 1..k |-> s[n]]) = k
  OBVIOUS
<1>2. s \in Seq(HomeRow) /\ Len(s) = k
  BY <1>1
<1> QED
  BY <1>2 DEF RailList

LEMMA WithTyped ==
  ASSUME NEW s, RailList(s), NEW id, NEW enabled \in BOOLEAN
  PROVE  RailList(Home!With(s, id, enabled))
<1> DEFINE k == Len(s)
           t == Home!With(s, id, enabled)
<1>1. k \in Nat /\ DOMAIN s = 1..k /\ \A n \in 1..k : s[n] \in HomeRow
  BY IdsOf
<1>2. t = [n \in 1..k |-> IF s[n].id = id THEN [s[n] EXCEPT !.enabled = enabled] ELSE s[n]]
  BY <1>1 DEF Home!With
<1> HIDE DEF t
<1>3. ASSUME NEW n \in 1..k PROVE t[n] \in HomeRow /\ t[n].id = s[n].id
  <2>1. t[n] = IF s[n].id = id THEN [s[n] EXCEPT !.enabled = enabled] ELSE s[n]
    BY <1>2
  <2> QED
    BY <1>1, <2>1 DEF HomeRow
<1>4. t = [n \in 1..k |-> t[n]]
  BY <1>2
<1>5. \A n, m \in 1..k : s[n].id = s[m].id => n = m
  BY DEF RailList
<1> HIDE DEF k
<1>6. \A n, m \in 1..k : t[n].id = t[m].id => n = m
  BY <1>3, <1>5
<1> QED
  BY <1>1, <1>3, <1>4, <1>6, ListOfRows DEF t

LEMMA AppendTyped ==
  ASSUME NEW s, RailList(s), NEW x \in Builtin \cup Custom, x \notin Home!Ids(s),
         NEW enabled \in BOOLEAN
  PROVE  RailList(Append(s, [id |-> x, enabled |-> enabled]))
<1> DEFINE row == [id |-> x, enabled |-> enabled]
           t == Append(s, row)
           k == Len(s)
<1>1. k \in Nat /\ s \in Seq(HomeRow) /\ \A n \in 1..k : s[n] \in HomeRow /\ s[n].id # x
  BY IdsOf DEF RailList
<1>2. row \in HomeRow /\ row.id = x
  BY DEF HomeRow
<1> HIDE DEF row
<1>3. t \in Seq(HomeRow) /\ Len(t) = k + 1
      /\ \A n \in 1..k + 1 : t[n] = IF n = k + 1 THEN row ELSE s[n]
  BY <1>1, <1>2
<1> HIDE DEF t, k
<1>4. ASSUME NEW n \in 1..k + 1, NEW m \in 1..k + 1, t[n].id = t[m].id PROVE n = m
  <2>1. CASE n \in 1..k /\ m \in 1..k
    BY <1>1, <1>3, <1>4, <2>1 DEF RailList, k
  <2>2. CASE n = k + 1 /\ m \in 1..k
    BY <1>1, <1>2, <1>3, <1>4, <2>2
  <2>3. CASE n \in 1..k /\ m = k + 1
    BY <1>1, <1>2, <1>3, <1>4, <2>3
  <2> QED
    BY <1>1, <2>1, <2>2, <2>3
<1> QED
  BY <1>3, <1>4 DEF RailList, t, row

LEMMA WithoutTyped ==
  ASSUME NEW s, RailList(s), NEW p \in 1..Len(s)
  PROVE  RailList(Home!Without(s, p))
<1> DEFINE k == Len(s)
           x == SubSeq(s, 1, p - 1)
           y == SubSeq(s, p + 1, k)
           t == Home!Without(s, p)
<1>1. k \in Nat /\ s \in Seq(HomeRow) /\ p \in Nat /\ 1 <= p /\ p <= k
      /\ \A n \in 1..k : s[n] \in HomeRow
  BY IdsOf DEF RailList
<1>2. x \in Seq(HomeRow) /\ Len(x) = p - 1 /\ \A n \in 1..p - 1 : x[n] = s[n]
  BY <1>1
<1>3. y \in Seq(HomeRow) /\ Len(y) = k - p /\ \A n \in 1..k - p : y[n] = s[p + n]
  BY <1>1
<1>4. t = x \o y
  BY DEF Home!Without
<1> HIDE DEF x, y, t
<1>5. /\ t \in Seq(HomeRow) /\ Len(t) = k - 1
      /\ \A n \in 1..k - 1 : t[n] = IF n <= p - 1 THEN x[n] ELSE y[n - (p - 1)]
  <2>1. /\ x \o y \in Seq(HomeRow) /\ Len(x \o y) = Len(x) + Len(y)
        /\ \A n \in 1..Len(x) + Len(y) :
             (x \o y)[n] = IF n <= Len(x) THEN x[n] ELSE y[n - Len(x)]
    BY <1>2, <1>3, ConcatProperties
  <2>2. Len(x) + Len(y) = k - 1
    BY <1>1, <1>2, <1>3
  <2> QED
    BY <1>2, <1>4, <2>1, <2>2
<1> DEFINE at(n) == IF n < p THEN n ELSE n + 1
<1>6. ASSUME NEW n \in 1..k - 1 PROVE t[n] = s[at(n)]
  <2>1. CASE n < p
    <3>1. n \in 1..p - 1 /\ n <= p - 1
      BY <1>1, <2>1
    <3>2. t[n] = x[n]
      BY <1>5, <3>1
    <3> QED
      BY <1>2, <2>1, <3>1, <3>2
  <2>2. CASE ~ (n < p)
    <3>1. n - (p - 1) \in 1..k - p /\ p + (n - (p - 1)) = n + 1
      BY <1>1, <2>2
    <3>2. t[n] = y[n - (p - 1)]
      BY <1>1, <1>5, <2>2
    <3> QED
      BY <1>3, <2>2, <3>1, <3>2
  <2> QED
    BY <2>1, <2>2
<1>7. ASSUME NEW n \in 1..k - 1, NEW m \in 1..k - 1, t[n].id = t[m].id PROVE n = m
  <2>1. at(n) \in 1..k /\ at(m) \in 1..k
    BY <1>1
  <2>2. s[at(n)].id = s[at(m)].id
    BY <1>6, <1>7
  <2> DEFINE a == at(n)
             b == at(m)
  <2>4. a = b
    <3> HIDE DEF a, b
    <3> QED
      BY <2>1, <2>2 DEF RailList, k, a, b
  <2> QED
    BY <1>1, <2>4
<1> QED
  BY <1>5, <1>7 DEF RailList, t

\* Whatever is asked of it, the server has a list of rails.
LEMMA OutcomeTyped ==
  ASSUME RailList(server.rails), NEW op, OpTyped(op), op.kind # "request",
         NEW a \in Home!Outcomes(op)
  PROVE  RailList(a.rails)
<1> DEFINE rails == server.rails
           Done(r) == {[rails |-> r, ok |-> TRUE]}
           Refused == {[rails |-> rails, ok |-> FALSE]}
<1>1. CASE op.kind = "read"
  <2>1. a \in Done(rails)
    BY <1>1 DEF Home!Outcomes
  <2> QED
    BY <2>1
<1>2. CASE op.kind = "order"
  <2>1. a \in Done(op.rails) \/ a \in Refused
    BY <1>2 DEF Home!Outcomes
  <2>2. a.rails = op.rails \/ a.rails = rails
    BY <2>1
  <2> QED
    BY <1>2, <2>2 DEF OpTyped
<1>3. CASE op.kind = "edit"
  <2>1. a \in Done(Home!With(rails, op.id, op.enabled)) \/ a \in Refused
    BY <1>3 DEF Home!Outcomes
  <2>2. a.rails = Home!With(rails, op.id, op.enabled) \/ a.rails = rails
    BY <2>1
  <2> QED
    BY <1>3, <2>2, WithTyped DEF OpTyped
<1>4. CASE op.kind = "delete"
  <2>1. \/ op.id \in Home!Ids(rails) /\ a \in Done(Home!Without(rails, Home!Place(rails, op.id)))
        \/ a \in Refused
    BY <1>4 DEF Home!Outcomes
  <2>2. \/ op.id \in Home!Ids(rails) /\ a.rails = Home!Without(rails, Home!Place(rails, op.id))
        \/ a.rails = rails
    BY <2>1
  <2>3. op.id \in Home!Ids(rails) => Home!Place(rails, op.id) \in 1..Len(rails)
    BY IdsOf DEF Home!Place
  <2> QED
    BY <2>2, <2>3, WithoutTyped
<1>5. CASE op.kind = "create"
  <2>1. PICK x \in Custom \ Home!Ids(rails) :
          a = [rails |-> Append(rails, [id |-> x, enabled |-> op.enabled]), ok |-> TRUE]
    BY <1>5 DEF Home!Outcomes
  <2>2. a.rails = Append(rails, [id |-> x, enabled |-> op.enabled])
    BY <2>1
  <2> QED
    BY <1>5, <2>2, AppendTyped DEF OpTyped
<1> QED
  BY <1>1, <1>2, <1>3, <1>4, <1>5 DEF OpTyped

LEMMA TypedMoves ==
  ASSUME HomeInv, HomeTypes, NEW c \in Home!Calls, NEW q, CallTyped(q),
         calls' = [calls EXCEPT ![c] = q]
  PROVE  \A d \in Home!Calls : CallTyped(calls'[d])
<1>1. \A d \in Home!Calls : calls'[d] = IF d = c THEN q ELSE calls[d]
  BY DEF HomeInv
<1> QED
  BY <1>1, Zenon DEF HomeTypes

LEMMA IdleTyped == CallTyped(Home!Idle)
<1>1. /\ Home!Idle.rails = <<>> /\ Home!Idle.content = <<>> /\ Home!Idle.pc = "idle"
  BY DEF Home!Idle
<1> QED
  BY <1>1, EmptyTyped DEF CallTyped

LEMMA SentTyped ==
  ASSUME NEW op, OpTyped(op)
  PROVE  CallTyped(Home!Sent(op))
<1> DEFINE q == Home!Sent(op)
<1>1. q.op = op /\ q.rails = <<>> /\ q.content = <<>>
  <2>1. Home!Sent(op) = [Home!Idle EXCEPT !.pc = "sent", !.op = op]
    BY Zenon DEF Home!Sent
  <2>2. Home!Idle = [pc |-> "idle", op |-> [kind |-> "none"], ok |-> FALSE, rails |-> <<>>,
                     content |-> <<>>]
    BY Zenon DEF Home!Idle
  <2> QED
    BY <2>1, <2>2
<1> HIDE DEF q
<1>2. CallTyped(q)
  BY <1>1, EmptyTyped DEF CallTyped
<1> QED
  BY <1>2 DEF q

LEMMA ReadTyped == CallTyped(Home!Sent(Home!Read))
<1>1. Home!Read.kind = "read"
  BY DEF Home!Read
<1>2. OpTyped(Home!Read)
  BY <1>1 DEF OpTyped
<1> QED
  BY <1>2, SentTyped

LEMMA ServerAnswersTyped ==
  ASSUME HomeInv, HomeTypes, NEW c \in Home!Calls, Home!ServerAnswers(c)
  PROVE  HomeTypes'
<1> DEFINE op == calls[c].op
<1>1. PICK a \in Home!Outcomes(op) :
        /\ server' = [server EXCEPT !.rails = a.rails]
        /\ calls' = [calls EXCEPT ![c].pc = "answered", ![c].ok = a.ok, ![c].rails = a.rails]
  BY DEF Home!ServerAnswers
<1> DEFINE q == [calls[c] EXCEPT !.pc = "answered", !.ok = a.ok, !.rails = a.rails]
<1>2. /\ calls[c].pc = "sent" /\ CallOK(c, calls[c]) /\ CallTyped(calls[c])
      /\ UNCHANGED <<railConfigs, draftRails, items, railForm, abandoned>>
  BY DEF Home!ServerAnswers, Home!Page, HomeInv, HomeTypes
<1>3. op.kind \in {"read", "order", "create", "edit", "delete"} /\ OpTyped(op)
  BY <1>2 DEF CallOK, CallTyped
<1>4. RailList(a.rails)
  <2>1. op.kind # "request" /\ RailList(server.rails)
    BY <1>3 DEF HomeTypes
  <2> HIDE DEF op
  <2> QED
    BY <1>3, <2>1, OutcomeTyped
<1>5. calls' = [calls EXCEPT ![c] = q]
  BY <1>1 DEF HomeInv
<1>6. server'.rails = a.rails
  BY <1>1 DEF HomeInv
<1>7. q.rails = a.rails /\ q.content = calls[c].content /\ q.op = calls[c].op
  <2> DEFINE old == calls[c]
  <2>1. old = [pc |-> old.pc, op |-> old.op, ok |-> old.ok, rails |-> old.rails,
               content |-> old.content]
    BY <1>2 DEF CallOK, CallType
  <2>2. q = [old EXCEPT !.pc = "answered", !.ok = a.ok, !.rails = a.rails]
    OBVIOUS
  <2> HIDE DEF old, q
  <2>3. q.rails = a.rails /\ q.content = old.content /\ q.op = old.op
    BY <2>1, <2>2
  <2> QED
    BY <2>3 DEF old
<1> HIDE DEF q
<1>8. CallTyped(q)
  BY <1>2, <1>3, <1>4, <1>7 DEF CallTyped
<1>9. \A d \in Home!Calls : CallTyped(calls'[d])
  BY <1>5, <1>8, TypedMoves
<1> QED
  BY <1>2, <1>4, <1>6, <1>9 DEF HomeTypes, Home!Ids

LEMMA RailsAnsweredTyped ==
  ASSUME HomeInv, HomeTypes, NEW c \in Home!Calls, Home!RailsAnswered(c)
  PROVE  HomeTypes'
<1> DEFINE q == [calls[c] EXCEPT !.pc = "content"]
<1>1. /\ CallOK(c, calls[c]) /\ CallTyped(calls[c]) /\ calls[c].pc = "answered"
      /\ railConfigs' = calls[c].rails /\ draftRails' = calls[c].rails
      /\ UNCHANGED <<server, abandoned, railForm>>
      /\ \/ items' = <<>> /\ calls' = [calls EXCEPT ![c] = Home!Idle]
         \/ items' \in {<<>>, items} /\ calls' = [calls EXCEPT ![c] = q]
  BY DEF Home!RailsAnswered, Home!Shown, Home!Outside, HomeInv, HomeTypes
<1>2. CallTyped(q)
  <2>1. q.rails = calls[c].rails /\ q.content = calls[c].content /\ q.op = calls[c].op
    BY <1>1 DEF CallOK, CallType
  <2> HIDE DEF q
  <2> QED
    BY <1>1, <2>1 DEF CallTyped
<1> HIDE DEF q
<1>3. \A d \in Home!Calls : CallTyped(calls'[d])
  BY <1>1, <1>2, IdleTyped, TypedMoves
<1>4. ItemsOK(items')
  BY <1>1, EmptyTyped DEF HomeTypes
<1>5. RailList(railConfigs') /\ RailList(draftRails') /\ draftRails' = railConfigs'
  BY <1>1 DEF CallTyped
<1> QED
  BY <1>1, <1>3, <1>4, <1>5 DEF HomeTypes, Home!Ids

LEMMA ContentAnsweredTyped ==
  ASSUME HomeInv, HomeTypes, NEW c \in Home!Calls, Home!ContentAnswered(c)
  PROVE  HomeTypes'
<1>1. /\ items' = calls[c].content /\ calls' = [calls EXCEPT ![c] = Home!Idle]
      /\ UNCHANGED <<server, railConfigs, draftRails, railForm, abandoned>>
  BY DEF Home!ContentAnswered, Home!Shown, Home!Outside
<1>2. ItemsOK(items')
  BY <1>1 DEF HomeTypes, CallTyped
<1>3. \A d \in Home!Calls : CallTyped(calls'[d])
  BY <1>1, IdleTyped, TypedMoves
<1> QED
  BY <1>1, <1>2, <1>3 DEF HomeTypes, Home!Ids

LEMMA LoadSingleRailTyped ==
  ASSUME HomeInv, HomeTypes, NEW c \in Home!Calls, NEW id, NEW failed \in BOOLEAN,
         Home!LoadSingleRail(c, id, failed)
  PROVE  HomeTypes'
<1> DEFINE others == calls[c].content
           shown == IF failed THEN "failed"
                    ELSE IF server.requested THEN "requested" ELSE "requestable"
           more == [x \in DOMAIN others \cup {id} |-> IF x = id THEN shown ELSE others[x]]
           q == [calls[c] EXCEPT !.content = more]
<1>1. /\ calls' = [calls EXCEPT ![c] = q] /\ id \in Home!Enabled(calls[c].rails)
      /\ UNCHANGED <<server, railConfigs, draftRails, railForm, items, abandoned>>
  BY DEF Home!LoadSingleRail, Home!Outside, Home!Page, HomeInv
<1>2. CallOK(c, calls[c]) /\ CallTyped(calls[c])
  BY DEF HomeInv, HomeTypes
<1>3. id \in Builtin \cup Custom
  BY <1>1, <1>2, IdsOf DEF CallTyped
<1>4. ItemsOK(more)
  <2>1. shown \in {"requestable", "requested", "failed"}
    OBVIOUS
  <2>2. ItemsOK(others)
    BY <1>2 DEF CallTyped
  <2> HIDE DEF shown, others
  <2> QED
    BY <1>3, <2>1, <2>2 DEF ItemsOK
<1> HIDE DEF more
<1>5. q.pc = calls[c].pc /\ q.rails = calls[c].rails /\ q.content = more /\ q.op = calls[c].op
  BY <1>2 DEF CallOK, CallType
<1> HIDE DEF q
<1>6. CallTyped(q)
  BY <1>2, <1>4, <1>5 DEF CallTyped
<1>7. \A d \in Home!Calls : CallTyped(calls'[d])
  BY <1>1, <1>6, TypedMoves
<1> QED
  BY <1>1, <1>7 DEF HomeTypes, Home!Ids

LEMMA FailsTyped ==
  ASSUME HomeInv, HomeTypes, NEW c \in Home!Calls, Home!Refused(c) \/ Home!RequestFails(c)
  PROVE  HomeTypes'
<1>1. /\ calls' = [calls EXCEPT ![c] = Home!Idle]
      /\ UNCHANGED <<server, railForm, items>>
      /\ \/ UNCHANGED <<railConfigs, draftRails>>
         \/ railConfigs' = <<>> /\ draftRails' = <<>>
      /\ \/ UNCHANGED abandoned
         \/ calls[c].pc # "idle" /\ abandoned' = abandoned \cup {calls[c].op}
  BY DEF Home!Refused, Home!RequestFails, Home!Fails
<1>2. \A op \in abandoned' : OpTyped(op)
  BY <1>1 DEF HomeTypes, CallTyped
<1>3. \A d \in Home!Calls : CallTyped(calls'[d])
  BY <1>1, IdleTyped, TypedMoves
<1>4. RailList(railConfigs') /\ RailList(draftRails') /\ Home!Ids(draftRails') = Home!Ids(railConfigs')
  BY <1>1, EmptyTyped DEF HomeTypes
<1> QED
  BY <1>1, <1>2, <1>3, <1>4 DEF HomeTypes, Home!Ids

LEMMA SaveRailsTyped ==
  ASSUME HomeInv, HomeTypes, Home!SaveRails
  PROVE  HomeTypes'
<1> DEFINE op == [kind |-> "order", rails |-> draftRails]
<1>1. /\ calls' = [calls EXCEPT !["save"] = Home!Sent(op)] /\ "save" \in Home!Calls
      /\ UNCHANGED <<server, railConfigs, draftRails, railForm, items, abandoned>>
  BY DEF Home!SaveRails, Home!Outside, Home!Page, Home!Calls
<1>2. op.kind = "order" /\ op.rails = draftRails
  OBVIOUS
<1> HIDE DEF op
<1>3. OpTyped(op)
  BY <1>2 DEF OpTyped, HomeTypes
<1>4. \A d \in Home!Calls : CallTyped(calls'[d])
  BY <1>1, <1>3, SentTyped, TypedMoves
<1> QED
  BY <1>1, <1>4 DEF HomeTypes, Home!Ids

LEMMA SaveRailFormTyped ==
  ASSUME HomeInv, HomeTypes, NEW enabled \in BOOLEAN, Home!SaveRailForm(enabled)
  PROVE  HomeTypes'
<1> DEFINE op == IF railForm = NewRail THEN [kind |-> "create", enabled |-> enabled]
                 ELSE [kind |-> "edit", id |-> railForm, enabled |-> enabled]
<1>1. /\ calls' = [calls EXCEPT !["form"] = Home!Sent(op)] /\ "form" \in Home!Calls
      /\ UNCHANGED <<server, railConfigs, draftRails, railForm, items, abandoned>>
  BY DEF Home!SaveRailForm, Home!Outside, Home!Page, Home!Calls
<1>2. op.kind \in {"create", "edit"} /\ op.enabled = enabled
  OBVIOUS
<1> HIDE DEF op
<1>3. OpTyped(op)
  BY <1>2 DEF OpTyped
<1>4. \A d \in Home!Calls : CallTyped(calls'[d])
  BY <1>1, <1>3, SentTyped, TypedMoves
<1> QED
  BY <1>1, <1>4 DEF HomeTypes, Home!Ids

LEMMA DeleteCustomRailTyped ==
  ASSUME HomeInv, HomeTypes, NEW x \in Custom, Home!DeleteCustomRail(x)
  PROVE  HomeTypes'
<1> DEFINE op == [kind |-> "delete", id |-> x]
<1>1. /\ calls' = [calls EXCEPT !["delete"] = Home!Sent(op)] /\ "delete" \in Home!Calls
      /\ abandoned' = abandoned \cup {o \in {calls["delete"].op} : calls["delete"].pc = "sent"}
      /\ UNCHANGED <<server, railConfigs, draftRails, railForm, items>>
  BY DEF Home!DeleteCustomRail, Home!Page, Home!Calls
<1>2. op.kind = "delete"
  OBVIOUS
<1> HIDE DEF op
<1>3. OpTyped(op)
  BY <1>2 DEF OpTyped
<1>4. \A d \in Home!Calls : CallTyped(calls'[d])
  BY <1>1, <1>3, SentTyped, TypedMoves
<1>5. \A o \in abandoned' : OpTyped(o)
  BY <1>1 DEF HomeTypes, CallTyped
<1> QED
  BY <1>1, <1>4, <1>5 DEF HomeTypes, Home!Ids

LEMMA ReloadsTyped ==
  ASSUME HomeTypes, NEW others, others = [c \in Home!Calls |-> others[c]],
         \A c \in Home!Calls : CallTyped(others[c]),
         Home!Reloads(others), railForm' \in {railForm, NoForm},
         UNCHANGED <<server, abandoned, railConfigs, draftRails, items>>
  PROVE  HomeTypes'
<1>1. calls' = [others EXCEPT !["load"] = Home!Sent(Home!Read)]
  BY DEF Home!Reloads, Home!LoadHome
<1>2. \A c \in Home!Calls : calls'[c] = IF c = "load" THEN Home!Sent(Home!Read) ELSE others[c]
  BY <1>1
<1>3. \A c \in Home!Calls : CallTyped(calls'[c])
  BY <1>2, ReadTyped, Zenon
<1> QED
  BY <1>3 DEF HomeTypes, Home!Ids

LEMMA LoadsTyped ==
  ASSUME HomeInv, HomeTypes, Home!RetryLoad \/ Home!FormAnswered \/ Home!DeleteAnswered
  PROVE  HomeTypes'
<1>1. ASSUME NEW c \in {"form", "delete"}
      PROVE  LET others == [calls EXCEPT ![c] = Home!Idle]
             IN /\ others = [d \in Home!Calls |-> others[d]]
                /\ \A d \in Home!Calls : CallTyped(others[d])
  <2> DEFINE others == [calls EXCEPT ![c] = Home!Idle]
  <2>1. others = [d \in Home!Calls |-> others[d]]
    BY DEF HomeInv
  <2>2. \A d \in Home!Calls : others[d] = IF d = c THEN Home!Idle ELSE calls[d]
    BY DEF HomeInv
  <2> HIDE DEF others
  <2>3. \A d \in Home!Calls : CallTyped(others[d])
    BY <2>2, IdleTyped, Zenon DEF HomeTypes
  <2> QED
    BY <2>1, <2>3 DEF others
<1>2. CASE Home!RetryLoad
  BY <1>2, ReloadsTyped DEF HomeInv, HomeTypes, Home!RetryLoad, Home!Outside
<1>3. CASE Home!FormAnswered
  BY <1>1, <1>3, ReloadsTyped DEF Home!FormAnswered, Home!Outside
<1>4. CASE Home!DeleteAnswered
  BY <1>1, <1>4, ReloadsTyped DEF Home!DeleteAnswered, Home!Outside
<1> QED
  BY <1>2, <1>3, <1>4

LEMMA NgOnDestroyTyped ==
  ASSUME HomeInv, HomeTypes, Home!NgOnDestroy
  PROVE  HomeTypes'
<1> DEFINE left == {calls[c].op : c \in {d \in Home!Calls \ {"load"} : calls[d].pc = "sent"}}
           asked == {[kind |-> "request"] : m \in {requestModal} \cap {"sent"}}
<1>1. /\ calls' = [[c \in Home!Calls |-> Home!Idle] EXCEPT !["load"] = Home!Sent(Home!Read)]
      /\ railConfigs' = <<>> /\ draftRails' = <<>> /\ items' = <<>> /\ railForm' = NoForm
      /\ abandoned' = abandoned \cup (left \cup asked) /\ UNCHANGED server
  BY DEF Home!NgOnDestroy, Home!LoadHome
<1>2. \A c \in Home!Calls : calls'[c] = IF c = "load" THEN Home!Sent(Home!Read) ELSE Home!Idle
  BY <1>1
<1>3. \A c \in Home!Calls : CallTyped(calls'[c])
  BY <1>2, ReadTyped, IdleTyped, Zenon
<1>4. \A op \in left : OpTyped(op)
  BY DEF HomeTypes, CallTyped
<1>5. \A op \in asked : OpTyped(op)
  <2>1. \A op \in asked : op.kind = "request"
    OBVIOUS
  <2> QED
    BY <2>1 DEF OpTyped
<1> HIDE DEF left, asked
<1>6. \A op \in abandoned' : OpTyped(op)
  BY <1>1, <1>4, <1>5 DEF HomeTypes
<1> QED
  BY <1>1, <1>3, <1>6, EmptyTyped DEF HomeTypes, Home!Ids

LEMMA AbandonedAnsweredTyped ==
  ASSUME HomeInv, HomeTypes, NEW op \in abandoned, Home!AbandonedAnswered(op)
  PROVE  HomeTypes'
<1>1. /\ abandoned' = abandoned \ {op}
      /\ UNCHANGED <<calls, railConfigs, draftRails, railForm, items>>
  BY DEF Home!AbandonedAnswered, Home!Page
<1>2. RailList(server'.rails)
  <2>1. CASE op.kind = "request"
    <3>1. server' = [server EXCEPT !.requested = TRUE]
      BY <2>1 DEF Home!AbandonedAnswered
    <3>2. server'.rails = server.rails
      BY <3>1 DEF HomeInv
    <3> QED
      BY <3>2 DEF HomeTypes
  <2>2. CASE op.kind # "request"
    <3>1. PICK a \in Home!Outcomes(op) : server' = [server EXCEPT !.rails = a.rails]
      BY <2>2 DEF Home!AbandonedAnswered
    <3>2. server'.rails = a.rails
      BY <3>1 DEF HomeInv
    <3> QED
      BY <2>2, <3>2, OutcomeTyped DEF HomeTypes
  <2> QED
    BY <2>1, <2>2
<1> QED
  BY <1>1, <1>2 DEF HomeTypes, Home!Ids

LEMMA RequestTyped ==
  ASSUME HomeInv, HomeTypes, Home!ServerRequests \/ Home!OnRequestSubmitted
  PROVE  HomeTypes'
<1>1. CASE Home!ServerRequests
  <2>1. /\ server' = [server EXCEPT !.requested = TRUE]
        /\ UNCHANGED <<calls, abandoned, railConfigs, draftRails, railForm, items>>
    BY <1>1 DEF Home!ServerRequests, Home!Page
  <2>2. server'.rails = server.rails
    BY <2>1 DEF HomeInv
  <2> QED
    BY <2>1, <2>2 DEF HomeTypes, Home!Ids
<1>2. CASE Home!OnRequestSubmitted
  <2>1. /\ items' = [id \in DOMAIN items |-> IF items[id] = "failed" THEN "failed" ELSE "requested"]
        /\ UNCHANGED <<server, calls, abandoned, railConfigs, draftRails, railForm>>
    BY <1>2 DEF Home!OnRequestSubmitted
  <2>2. ItemsOK(items')
    BY <2>1 DEF HomeTypes, ItemsOK
  <2> QED
    BY <2>1, <2>2 DEF HomeTypes, Home!Ids
<1> QED
  BY <1>1, <1>2

LEMMA EditDraftTyped ==
  ASSUME HomeInv, HomeTypes, Home!EditDraft
  PROVE  HomeTypes'
<1> DEFINE s == draftRails
           k == Len(s)
           t == draftRails'
<1>1. UNCHANGED <<server, calls, abandoned, railConfigs, railForm, items>>
  BY DEF Home!EditDraft, Home!Outside
<1>2. /\ k \in Nat /\ DOMAIN s = 1..k /\ \A n \in 1..k : s[n] \in HomeRow
      /\ Home!Ids(s) = {s[n].id : n \in 1..k} /\ s = [n \in 1..k |-> s[n]]
      /\ \A n, m \in 1..k : s[n].id = s[m].id => n = m
  <2>1. RailList(s)
    BY DEF HomeTypes
  <2>2. s \in Seq(HomeRow)
    BY <2>1 DEF RailList
  <2> QED
    BY <2>1, <2>2, IdsOf DEF RailList
<1>3. PICK n \in 1..k :
        \/ t = [s EXCEPT ![n].enabled = ~@]
        \/ n > 1 /\ t = [s EXCEPT ![n] = s[n - 1], ![n - 1] = s[n]]
  BY <1>2 DEF Home!EditDraft
<1>4. RailList(t) /\ Home!Ids(t) = Home!Ids(s)
  <2>1. CASE t = [s EXCEPT ![n].enabled = ~@]
    <3>1. t = [s EXCEPT ![n] = [s[n] EXCEPT !.enabled = ~s[n].enabled]]
      BY <2>1
    <3>2. [s[n] EXCEPT !.enabled = ~s[n].enabled] = [id |-> s[n].id, enabled |-> ~s[n].enabled]
      BY <1>2 DEF HomeRow
    <3>3. t = [m \in 1..k |-> IF m = n THEN [id |-> s[n].id, enabled |-> ~s[n].enabled] ELSE s[m]]
      BY <1>2, <3>1, <3>2
    <3>4. \A m \in 1..k : t[m].id = s[m].id /\ t[m] \in HomeRow
      BY <1>2, <3>3 DEF HomeRow
    <3>5. t = [m \in 1..k |-> t[m]]
      BY <3>3
    <3> HIDE DEF t, k, s
    <3>6. \A m, l \in 1..k : t[m].id = t[l].id => m = l
      BY <1>2, <3>4
    <3>7. RailList(t) /\ Len(t) = k
      BY <1>2, <3>4, <3>5, <3>6, ListOfRows
    <3>8. Home!Ids(t) = {t[m].id : m \in 1..k}
      BY <3>7, IdsOf
    <3> QED
      BY <1>2, <3>4, <3>7, <3>8
  <2>2. CASE n > 1 /\ t = [s EXCEPT ![n] = s[n - 1], ![n - 1] = s[n]]
    <3> DEFINE at(m) == IF m = n THEN n - 1 ELSE IF m = n - 1 THEN n ELSE m
    <3>1. n - 1 \in 1..k /\ n \in 1..k
      BY <1>2, <2>2
    <3>2. t = [m \in 1..k |-> s[at(m)]]
      BY <1>2, <2>2, <3>1
    <3>3. \A m \in 1..k : at(m) \in 1..k /\ at(at(m)) = m
      BY <1>2, <3>1
    <3>4. \A m \in 1..k : t[m] = s[at(m)]
      BY <3>2
    <3>5. t = [m \in 1..k |-> t[m]]
      BY <3>2
    <3> HIDE DEF t, k, s, at
    <3>6. \A m \in 1..k : t[m] \in HomeRow
      BY <1>2, <3>3, <3>4
    <3>7. ASSUME NEW m \in 1..k, NEW l \in 1..k, t[m].id = t[l].id PROVE m = l
      <4>1. s[at(m)].id = s[at(l)].id /\ at(m) \in 1..k /\ at(l) \in 1..k
        BY <3>3, <3>4, <3>7
      <4>2. at(m) = at(l)
        BY <1>2, <4>1
      <4> QED
        BY <3>3, <4>2
    <3>8. RailList(t) /\ Len(t) = k
      BY <1>2, <3>5, <3>6, <3>7, ListOfRows
    <3>9. Home!Ids(t) = {t[m].id : m \in 1..k}
      BY <3>8, IdsOf
    <3>10. {t[m].id : m \in 1..k} = {s[m].id : m \in 1..k}
      <4>1. \A m \in 1..k : t[m].id = s[at(m)].id /\ s[m].id = t[at(m)].id
        BY <3>3, <3>4
      <4> QED
        BY <3>3, <4>1
    <3> QED
      BY <1>2, <3>8, <3>9, <3>10
  <2> QED
    BY <1>3, <2>1, <2>2
<1> QED
  BY <1>1, <1>4 DEF HomeTypes, Home!Ids

LEMMA FormsTyped ==
  ASSUME HomeInv, HomeTypes,
         \/ Home!OpenEditor \/ Home!CancelEditor \/ Home!CloseRailForm
         \/ \E x \in Custom \cup {NewRail} : Home!OpenRailForm(x)
         \/ Home!OpenRequestModal \/ Home!SubmitRequest \/ Home!CloseModal
  PROVE  HomeTypes'
<1>1. /\ UNCHANGED <<server, calls, railConfigs, items>>
      /\ abandoned' \in {abandoned, abandoned \cup {[kind |-> "request"]}}
      /\ draftRails' \in {draftRails, railConfigs}
      /\ railForm' \in Custom \cup {NewRail, NoForm}
  BY DEF Home!OpenEditor, Home!CancelEditor, Home!CloseRailForm, Home!OpenRailForm,
     Home!OpenRequestModal, Home!SubmitRequest, Home!CloseModal, Home!Outside, Home!Page, HomeTypes
<1>2. RailList(draftRails') /\ Home!Ids(draftRails') = Home!Ids(railConfigs)
  BY <1>1 DEF HomeTypes
<1>3. \A op \in abandoned' : OpTyped(op)
  BY <1>1 DEF HomeTypes, OpTyped
<1> QED
  BY <1>1, <1>2, <1>3 DEF HomeTypes, Home!Ids

\* A finite set can be listed.
LEMMA ListedOK ==
  ASSUME NEW S, IsFiniteSet(S)
  PROVE  Cardinality(S) \in Nat /\ Home!Listed(S) \in Injection(1..Cardinality(S), S)
<1> DEFINE k == Cardinality(S)
<1>1. k \in Nat /\ ExistsBijection(1..k, S)
  BY FS_CardinalityType, FS_NatBijection
<1>2. Bijection(1..k, S) # {}
  BY <1>1 DEF ExistsBijection
<1>3. \E order : order \in Injection(1..k, S)
  BY <1>2 DEF Bijection
<1>4. Home!Injection(1..k, S) = Injection(1..k, S)
  BY DEF Home!Injection, Injection, Home!IsInjective, IsInjective
<1>5. Home!Listed(S) = CHOOSE order \in Injection(1..k, S) : TRUE
  BY <1>4, Zenon DEF Home!Listed, Home!Cardinality, Cardinality
<1> QED
  BY <1>1, <1>3, <1>5

LEMMA HomeTypesInit == Home!Init => HomeTypes
<1> SUFFICES ASSUME Home!Init PROVE HomeTypes
  OBVIOUS
<1>1. PICK present \in SUBSET Custom :
        server = [rails |-> Home!Listed({[id |-> x, enabled |-> TRUE] : x \in Builtin \cup present}),
                  requested |-> FALSE]
  BY DEF Home!Init
<1> DEFINE row(x) == [id |-> x, enabled |-> TRUE]
           S == {row(x) : x \in Builtin \cup present}
           s == Home!Listed(S)
           k == Cardinality(S)
<1>2. server.rails = s
  BY <1>1
<1>3. IsFiniteSet(S)
  <2>1. IsFiniteSet(Builtin) /\ IsFiniteSet(Custom)
    BY Zenon, PagesAssumption DEF Home!HomePageAssumption, Home!IsFiniteSet, IsFiniteSet
  <2>2. IsFiniteSet(Builtin \cup present)
    BY <2>1, FS_Subset, FS_Union
  <2> DEFINE f == [x \in Builtin \cup present |-> row(x)]
  <2>3. f \in Surjection(Builtin \cup present, S)
    BY DEF Surjection
  <2> HIDE DEF S, f
  <2> QED
    BY <2>2, <2>3, FS_Surjection
<1>4. k \in Nat /\ s \in Injection(1..k, S)
  <2> HIDE DEF S
  <2> QED
    BY <1>3, ListedOK
<1>5. ASSUME NEW x \in S PROVE x \in HomeRow /\ x = row(x.id)
  <2>1. PICK y \in Builtin \cup present : x = row(y)
    OBVIOUS
  <2>2. x.id = y /\ y \in Builtin \cup Custom
    BY <2>1
  <2> QED
    BY <2>1, <2>2 DEF HomeRow
<1> HIDE DEF S, s, k, row
<1>6. s \in [1..k -> S] /\ \A n, m \in 1..k : s[n] = s[m] => n = m
  BY <1>4 DEF Injection, IsInjective
<1>7. RailList(s)
  <2>1. s = [n \in 1..k |-> s[n]] /\ \A n \in 1..k : s[n] \in HomeRow
    BY <1>5, <1>6
  <2>2. \A n, m \in 1..k : s[n].id = s[m].id => n = m
    BY <1>5, <1>6
  <2> QED
    BY <1>4, <2>1, <2>2, ListOfRows
<1>8. /\ calls = [[c \in Home!Calls |-> Home!Idle] EXCEPT !["load"] = Home!Sent(Home!Read)]
      /\ abandoned = {} /\ railConfigs = <<>> /\ draftRails = <<>> /\ items = <<>>
      /\ railForm = NoForm
  BY DEF Home!Init, Home!LoadHome
<1>9. \A c \in Home!Calls : calls[c] = IF c = "load" THEN Home!Sent(Home!Read) ELSE Home!Idle
  BY <1>8
<1>10. \A c \in Home!Calls : CallTyped(calls[c])
  BY <1>9, ReadTyped, IdleTyped, Zenon
<1> QED
  BY <1>2, <1>7, <1>8, <1>10, EmptyTyped DEF HomeTypes

LEMMA HomeTypesNext == HomeInv /\ HomeTypes /\ Home!Next => HomeTypes'
<1> SUFFICES ASSUME HomeInv, HomeTypes, Home!Next PROVE HomeTypes'
  OBVIOUS
<1>1. ASSUME NEW c \in Home!Calls,
             \/ Home!ServerAnswers(c) \/ Home!RailsAnswered(c) \/ Home!ContentAnswered(c)
             \/ \E id \in Builtin \cup Custom, failed \in BOOLEAN :
                  Home!LoadSingleRail(c, id, failed)
      PROVE  HomeTypes'
  BY <1>1, ServerAnswersTyped, RailsAnsweredTyped, ContentAnsweredTyped, LoadSingleRailTyped
<1>2. ASSUME NEW c \in Home!Calls, Home!Refused(c) \/ Home!RequestFails(c)
      PROVE  HomeTypes'
  BY <1>2, FailsTyped
<1> QED
  BY <1>1, <1>2, EditDraftTyped, FormsTyped, SaveRailsTyped, SaveRailFormTyped, LoadsTyped,
     DeleteCustomRailTyped, RequestTyped, NgOnDestroyTyped, AbandonedAnsweredTyped DEF Home!Next

LEMMA HomeTypesKept == HomeTypes /\ KeepHome => HomeTypes'
BY DEF HomeTypes, Home!Ids, KeepHome, HomeVars

LEMMA HomeTypesImply == HomeTypes => Home!TypeOK
<1> SUFFICES ASSUME HomeTypes PROVE Home!TypeOK
  OBVIOUS
<1>1. ASSUME NEW s, RailList(s)
      PROVE  /\ \A n \in DOMAIN s : s[n].id \in Builtin \cup Custom /\ s[n].enabled \in BOOLEAN
             /\ \A n, m \in DOMAIN s : s[n].id = s[m].id => n = m
  BY <1>1, IdsOf DEF RailList, HomeRow
<1>2. Home!Range(items) \subseteq {"requestable", "requested", "failed"}
  BY DEF HomeTypes, ItemsOK, Home!Range
<1> QED
  BY <1>1, <1>2 DEF HomeTypes, ItemsOK, Home!TypeOK

-----------------------------------------------------------------------------
(* Lists that load more. *)

Feed == INSTANCE FeedControl

\* The shape of a list, and what the control of its one request keeps.
FeedTyped(f, queries) ==
  /\ f = [page |-> f.page, more |-> f.more, items |-> f.items, asked |-> f.asked,
          reload |-> f.reload, error |-> f.error]
  /\ f.asked \in Feed!RequestsFor(queries) \cup {NoRequest}
  /\ Feed!FeedOK(f)
  /\ f.reload => f.page = 0
  /\ f.asked # NoRequest \/ f.page = 0 => f.more

\* At rest a list has a page or says that it failed.
Tells(f) == f.asked = NoRequest => f.page > 0 \/ f.error = "initial"

FeedInv(f, queries) == FeedTyped(f, queries) /\ Tells(f)

\* The request in flight, if its ans will be shown, is one of the queries.
AsksFor(f, queries) == f.asked # NoRequest /\ ~f.asked.stale => f.asked.query \in queries

SameList(f, g) == g.page = f.page /\ g.more = f.more /\ g.items = f.items


\* loadNextPage asks for a page of what the list is for.
LEMMA LoadMore ==
  ASSUME NEW queries, NoRequest \notin Feed!RequestsFor(queries), NEW q \in queries, NEW f,
         FeedTyped(f, queries)
  PROVE  LET g == Feed!LoadNextPage(f, q)
         IN /\ FeedTyped(g, queries) /\ SameList(f, g)
            /\ Tells(f) \/ f.more => Tells(g)
            /\ AsksFor(f, {q}) => AsksFor(g, {q})
            /\ g = f \/ f.asked = NoRequest
<1> DEFINE asked == [query |-> q, page |-> f.page + 1, stale |-> FALSE]
           g == [page |-> f.page, more |-> f.more, items |-> f.items, asked |-> asked,
                 reload |-> f.reload, error |-> "none"]
<1>1. CASE f.asked # NoRequest \/ ~f.more
  BY <1>1 DEF SameList, Tells, Feed!LoadNextPage
<1>2. CASE f.asked = NoRequest /\ f.more
  <2>1. Feed!LoadNextPage(f, q) = g
    BY <1>2 DEF FeedTyped, Feed!LoadNextPage
  <2>2. f.page + 1 \in Nat
    BY DEF FeedTyped, Feed!FeedOK
  <2>3. asked \in Feed!RequestsFor(queries)
    BY <2>2 DEF Feed!RequestsFor
  <2>4. asked # NoRequest
    BY <2>3
  <2>5. f.reload = FALSE
    BY <1>2 DEF FeedTyped, Feed!FeedOK
  <2> HIDE DEF asked
  <2>6. asked.stale = FALSE /\ asked.page = f.page + 1 /\ asked.query = q
    BY DEF asked
  <2>7. FeedTyped(g, queries)
    BY <1>2, <2>3, <2>4, <2>5, <2>6 DEF FeedTyped, Feed!FeedOK
  <2> QED
    BY <1>2, <2>1, <2>4, <2>7, <2>6 DEF SameList, AsksFor, Tells
<1> QED
  BY <1>1, <1>2

\* A list that is started anew is empty, and will ask for nothing but what it is for.
LEMMA ResetFeed ==
  ASSUME NEW queries, NoRequest \notin Feed!RequestsFor(queries), NEW q \in queries, NEW f,
         FeedInv(f, queries) \/ f = Feed!NewFeed
  PROVE  LET g == Feed!ResetFeedAndReload(f, q)
         IN /\ FeedInv(g, queries) /\ AsksFor(g, {q}) /\ g.page = 0 /\ g.items = <<>>
            /\ g.asked # NoRequest /\ (f.asked # NoRequest => g.asked.stale)
<1> DEFINE g == Feed!ResetFeedAndReload(f, q)
<1>3. CASE f.asked = NoRequest
  <2> DEFINE first == [query |-> q, page |-> 1, stale |-> FALSE]
  <2>1. first \in Feed!RequestsFor(queries)
    BY DEF Feed!RequestsFor
  <2>2. first # NoRequest /\ first.page = 1 /\ first.stale = FALSE /\ first.query = q
    BY <2>1
  <2> HIDE DEF first
  <2>3. g = [page |-> 0, more |-> TRUE, items |-> <<>>, asked |-> first, reload |-> FALSE,
             error |-> "none"]
    <3>1. g = Feed!LoadNextPage(Feed!NewFeed, q)
      BY <1>3 DEF Feed!ResetFeedAndReload
    <3>2. Feed!NewFeed.asked = NoRequest /\ Feed!NewFeed.more /\ Feed!NewFeed.page + 1 = 1
      BY DEF Feed!NewFeed
    <3>3. Feed!LoadNextPage(Feed!NewFeed, q) = [Feed!NewFeed EXCEPT !.asked = first, !.error = "none"]
      BY <3>2 DEF Feed!LoadNextPage, first
    <3> QED
      BY <3>1, <3>3 DEF Feed!NewFeed
  <2> HIDE DEF g
  <2>4. FeedInv(g, queries)
    <3>1. /\ g.page = 0 /\ g.more = TRUE /\ g.items = <<>> /\ g.asked = first /\ g.reload = FALSE
          /\ g.error = "none" /\ first.page = 0 + 1
      BY <2>2, <2>3
    <3>2. Feed!FeedOK(g)
      <4>1. g.page \in Nat
        BY <3>1
      <4>2. g.more \in BOOLEAN /\ g.reload \in BOOLEAN
        BY <3>1
      <4>3. g.error \in {"none", "initial", "more"}
        BY <3>1
      <4>4. g.reload => g.asked # NoRequest
        BY <3>1
      <4>5. g.asked.stale <=> g.reload
        BY <3>1, <2>2
      <4>6. g.asked.page = g.page + 1
        BY <3>1, <2>2
      <4> QED
        BY <3>1, <4>1, <4>2, <4>3, <4>4, <4>5, <4>6 DEF Feed!FeedOK
    <3> QED
      BY <3>1, <3>2, <2>1, <2>2, <2>3 DEF FeedInv, FeedTyped, Tells
  <2>5. AsksFor(g, {q}) /\ g.page = 0 /\ g.items = <<>> /\ g.asked # NoRequest
    BY <2>2, <2>3 DEF AsksFor
  <2> QED
    BY <1>3, <2>4, <2>5 DEF g
<1>4. CASE f.asked # NoRequest
  <2>1. f.asked \in Feed!RequestsFor(queries)
    BY <1>4 DEF FeedInv, FeedTyped, Feed!NewFeed
  <2> DEFINE stale == [f.asked EXCEPT !.stale = TRUE]
  <2>3. stale \in Feed!RequestsFor(queries) /\ stale.stale = TRUE
    BY <2>1 DEF Feed!RequestsFor
  <2>4. stale # NoRequest
    BY <2>3
  <2>5. g = [page |-> 0, more |-> TRUE, items |-> <<>>, asked |-> stale, reload |-> TRUE,
             error |-> "none"]
    <3> HIDE DEF stale
    <3>1. g = [Feed!NewFeed EXCEPT !.asked = stale, !.reload = TRUE]
      BY <1>4, Zenon DEF Feed!ResetFeedAndReload, stale
    <3> QED
      BY <3>1 DEF Feed!NewFeed
  <2> HIDE DEF stale
  <2>6. FeedInv(g, queries)
    <3> HIDE DEF g
    <3> QED
      BY <2>5, <2>3, <2>4 DEF FeedInv, FeedTyped, Tells, Feed!FeedOK
  <2>7. AsksFor(g, {q}) /\ g.page = 0 /\ g.items = <<>> /\ g.asked # NoRequest /\ g.asked.stale
    <3> HIDE DEF g
    <3> QED
      BY <2>5, <2>3, <2>4 DEF AsksFor
  <2> QED
    BY <2>6, <2>7
<1> QED
  BY <1>3, <1>4
\* A list whose request has come to its end.
Ended(f) ==
  /\ f = [page |-> f.page, more |-> f.more, items |-> f.items, asked |-> f.asked,
          reload |-> f.reload, error |-> f.error]
  /\ f.page \in Nat /\ f.more \in BOOLEAN /\ f.reload \in BOOLEAN
  /\ f.error \in {"none", "initial", "more"} /\ (f.page = 0 => f.items = <<>>)
  /\ f.asked.stale <=> f.reload
  /\ f.page = 0 => f.more
  /\ IF f.reload THEN f.more /\ f.page = 0 ELSE f.page > 0 \/ f.error = "initial"

LEMMA FinalizeFeed ==
  ASSUME NEW queries, NoRequest \notin Feed!RequestsFor(queries), NEW q \in queries, NEW f, NEW seen,
         Ended(f)
  PROVE  LET g == Feed!Finalize(f, q, seen)
         IN FeedInv(g, queries) /\ AsksFor(g, {q}) /\ SameList(f, g)
<1> DEFINE idle == [page |-> f.page, more |-> f.more, items |-> f.items, asked |-> NoRequest,
                    reload |-> FALSE, error |-> f.error]
           g == Feed!Finalize(f, q, seen)
<1>1. FeedTyped(idle, queries) /\ AsksFor(idle, {q}) /\ SameList(f, idle)
  BY DEF FeedTyped, AsksFor, SameList, Feed!FeedOK, Ended
<1> DEFINE half == [f EXCEPT !.asked = NoRequest]
<1>2. half = [page |-> f.page, more |-> f.more, items |-> f.items, asked |-> NoRequest,
              reload |-> f.reload, error |-> f.error]
  BY DEF Ended
<1>3. CASE f.reload
  <2>1. [half EXCEPT !.reload = FALSE] = idle
    <3> DEFINE no == FALSE
    <3> HIDE DEF half, no
    <3>1. [half EXCEPT !.reload = no]
            = [page |-> f.page, more |-> f.more, items |-> f.items, asked |-> NoRequest,
               reload |-> no, error |-> f.error]
      BY <1>2
    <3> QED
      BY <3>1, Zenon DEF no
  <2>2. g = Feed!LoadNextPage(idle, q)
    BY <1>3, <2>1, Zenon DEF Feed!Finalize, Ended
  <2>3. idle.more
    BY <1>3 DEF Ended
  <2> HIDE DEF idle, g
  <2>4. FeedTyped(g, queries) /\ SameList(idle, g) /\ Tells(g) /\ AsksFor(g, {q})
    BY <1>1, <2>2, <2>3, LoadMore
  <2> QED
    BY <1>1, <2>4 DEF FeedInv, SameList, g
<1>4. CASE ~f.reload
  <2>1. half = idle
    BY <1>2, <1>4 DEF Ended
  <2>2. g = IF seen THEN Feed!LoadNextPage(idle, q) ELSE idle
    BY <1>4, <2>1, Zenon DEF Feed!Finalize, Ended
  <2>3. Tells(idle)
    BY <1>4 DEF Tells, Ended
  <2> HIDE DEF idle, g
  <2>4. FeedTyped(g, queries) /\ SameList(idle, g) /\ Tells(g) /\ AsksFor(g, {q})
    <3>1. CASE seen
      BY <1>1, <2>2, <2>3, <3>1, LoadMore
    <3>2. CASE ~seen
      BY <1>1, <2>2, <2>3, <3>2 DEF SameList
    <3> QED
      BY <3>1, <3>2
  <2> QED
    BY <1>1, <2>4 DEF FeedInv, SameList, g
<1> QED
  BY <1>3, <1>4

\* An answer is shown as the next page of the list, unless the list was started anew.
LEMMA FeedAnswer ==
  ASSUME NEW queries, NoRequest \notin Feed!RequestsFor(queries), NEW q \in queries, NEW f,
         FeedInv(f, queries), f.asked # NoRequest, NEW ans, NEW more \in BOOLEAN, NEW seen
  PROVE  LET g == Feed!Answered(f, ans, more, q, seen)
         IN /\ FeedInv(g, queries) /\ AsksFor(g, {q})
            /\ f.asked.stale => SameList(f, g)
            /\ ~f.asked.stale => /\ g.page = f.page + 1 /\ f.asked.page = f.page + 1
                                 /\ g.more = more
                                 /\ g.items = IF f.page = 0 THEN ans ELSE f.items \o ans
<1> DEFINE g == Feed!Answered(f, ans, more, q, seen)
<1>1. /\ f.page \in Nat /\ f.more \in BOOLEAN /\ f.reload \in BOOLEAN
      /\ f.error \in {"none", "initial", "more"} /\ (f.page = 0 => f.items = <<>>)
      /\ f.asked.stale <=> f.reload
      /\ f.page = 0 => f.more
      /\ f.reload => f.more /\ f.page = 0
      /\ ~f.reload => f.asked.page = f.page + 1
      /\ f = [page |-> f.page, more |-> f.more, items |-> f.items, asked |-> f.asked,
              reload |-> f.reload, error |-> f.error]
  BY DEF FeedInv, FeedTyped, Feed!FeedOK
<1>2. CASE f.asked.stale
  <2>1. g = Feed!Finalize(f, q, seen)
    BY <1>2 DEF Feed!Answered
  <2>2. Ended(f)
    <3>1. f.reload /\ f.more /\ f.page = 0
      BY <1>1, <1>2, Zenon
    <3> QED
      BY <1>1, <3>1, Zenon DEF Ended
  <2> HIDE DEF g
  <2>3. FeedInv(g, queries) /\ AsksFor(g, {q}) /\ SameList(f, g)
    BY <2>1, <2>2, FinalizeFeed
  <2> QED
    BY <1>2, <2>3 DEF g
<1>3. CASE ~f.asked.stale
  <2> DEFINE list == IF f.page = 0 THEN ans ELSE f.items \o ans
             shown == [page |-> f.page + 1, more |-> more, items |-> list, asked |-> f.asked,
                       reload |-> f.reload, error |-> f.error]
  <2>1. g = Feed!Finalize(shown, q, seen)
    <3>1. f.asked.page = 1 <=> f.page = 0
      BY <1>1, <1>3
    <3>2. [f EXCEPT !.page = f.asked.page, !.more = more,
                    !.items = IF f.asked.page = 1 THEN ans ELSE @ \o ans] = shown
      <4> DEFINE f1 == [f EXCEPT !.page = f.asked.page]
                 f2 == [f1 EXCEPT !.more = more]
                 f3 == [f2 EXCEPT !.items = list]
      <4>1. f1 = [page |-> f.page + 1, more |-> f.more, items |-> f.items, asked |-> f.asked,
                  reload |-> f.reload, error |-> f.error]
        BY <1>1, <1>3
      <4> HIDE DEF f1
      <4>2. f2 = [page |-> f.page + 1, more |-> more, items |-> f.items, asked |-> f.asked,
                  reload |-> f.reload, error |-> f.error]
        BY <4>1
      <4> HIDE DEF f2, list
      <4>3. f3 = shown
        BY <4>2
      <4> QED
        BY <3>1, <4>3, <4>2, Zenon DEF f1, f2, list
    <3> QED
      BY <1>3, <3>2, Zenon DEF Feed!Answered
  <2> HIDE DEF g, list
  <2>2. Ended(shown)
    <3>1. /\ shown.page = f.page + 1 /\ shown.more = more /\ shown.asked = f.asked
          /\ shown.reload = f.reload /\ shown.error = f.error
      OBVIOUS
    <3>2. shown = [page |-> shown.page, more |-> shown.more, items |-> shown.items,
                   asked |-> shown.asked, reload |-> shown.reload, error |-> shown.error]
      OBVIOUS
    <3> HIDE DEF shown
    <3>3. shown.page \in Nat /\ shown.page > 0 /\ shown.page # 0
      BY <1>1, <3>1
    <3> QED
      BY <1>1, <1>3, <3>1, <3>2, <3>3, Zenon DEF Ended
  <2>3. shown.page = f.page + 1 /\ shown.more = more /\ shown.items = list
    OBVIOUS
  <2> HIDE DEF shown
  <2>4. FeedInv(g, queries) /\ AsksFor(g, {q}) /\ SameList(shown, g)
    BY <2>1, <2>2, FinalizeFeed
  <2> QED
    BY <1>1, <1>3, <2>3, <2>4 DEF SameList, g, list
<1> QED
  BY <1>2, <1>3

\* A request that fails leaves the list as it is.
LEMMA FeedFailure ==
  ASSUME NEW queries, NoRequest \notin Feed!RequestsFor(queries), NEW q \in queries, NEW f,
         FeedInv(f, queries), f.asked # NoRequest, NEW seen
  PROVE  LET g == Feed!Failed(f, q, seen)
         IN FeedInv(g, queries) /\ AsksFor(g, {q}) /\ SameList(f, g)
<1> DEFINE g == Feed!Failed(f, q, seen)
<1>1. /\ f.page \in Nat /\ f.more \in BOOLEAN /\ f.reload \in BOOLEAN
      /\ f.error \in {"none", "initial", "more"} /\ (f.page = 0 => f.items = <<>>)
      /\ f.asked.stale <=> f.reload
      /\ f.page = 0 => f.more
      /\ f.reload => f.more /\ f.page = 0
      /\ ~f.reload => f.asked.page = f.page + 1
      /\ f = [page |-> f.page, more |-> f.more, items |-> f.items, asked |-> f.asked,
              reload |-> f.reload, error |-> f.error]
  BY DEF FeedInv, FeedTyped, Feed!FeedOK
<1>2. CASE f.asked.stale
  <2>1. g = Feed!Finalize(f, q, seen)
    BY <1>2 DEF Feed!Failed
  <2>2. Ended(f)
    <3>1. f.reload /\ f.more /\ f.page = 0
      BY <1>1, <1>2, Zenon
    <3> QED
      BY <1>1, <3>1, Zenon DEF Ended
  <2> HIDE DEF g
  <2>3. FeedInv(g, queries) /\ AsksFor(g, {q}) /\ SameList(f, g)
    BY <2>1, <2>2, FinalizeFeed
  <2> QED
    BY <1>2, <2>3 DEF g
<1>3. CASE ~f.asked.stale
  <2> DEFINE e == IF f.page = 0 THEN "initial" ELSE "more"
             failed == [page |-> f.page, more |-> f.more, items |-> f.items, asked |-> f.asked,
                        reload |-> f.reload, error |-> e]
  <2>1. g = Feed!Finalize(failed, q, seen)
    <3>1. f.asked.page = 1 <=> f.page = 0
      BY <1>1, <1>3
    <3>2. [f EXCEPT !.error = IF f.asked.page = 1 THEN "initial" ELSE "more"] = failed
      BY <1>1, <3>1
    <3> QED
      BY <1>3, <3>2 DEF Feed!Failed
  <2> HIDE DEF g
  <2>2. Ended(failed)
    <3>1. /\ failed.page = f.page /\ failed.more = f.more /\ failed.items = f.items
          /\ failed.asked = f.asked /\ failed.reload = f.reload
      OBVIOUS
    <3>2. failed = [page |-> failed.page, more |-> failed.more, items |-> failed.items,
                    asked |-> failed.asked, reload |-> failed.reload, error |-> failed.error]
      OBVIOUS
    <3>3. failed.error = e /\ e \in {"none", "initial", "more"} /\ (f.page > 0 \/ e = "initial")
      BY <1>1
    <3> HIDE DEF failed, e
    <3> QED
      BY <1>1, <1>3, <3>1, <3>2, <3>3, Zenon DEF Ended
  <2>3. SameList(f, failed)
    BY DEF SameList
  <2> HIDE DEF failed
  <2>4. FeedInv(g, queries) /\ AsksFor(g, {q}) /\ SameList(failed, g)
    BY <2>1, <2>2, FinalizeFeed
  <2> QED
    BY <2>3, <2>4 DEF SameList, g
<1> QED
  BY <1>2, <1>3

\* The first n of a sequence, and all of it when it is shorter.
FirstOf(s, n) == SubSeq(s, 1, IF n < Len(s) THEN n ELSE Len(s))

\* The list is the first pages of s, and tells whether there is more.
ShowsFirst(f, s, size) ==
  /\ f.items = FirstOf(s, f.page * size)
  /\ f.page > 0 => (f.more <=> f.page * size < Len(s))
  /\ f.page > 1 => (f.page - 1) * size < Len(s)

\* The list is the one of queries that s answers.
ListOf(f, queries, asks, s, size) ==
  FeedInv(f, queries) /\ AsksFor(f, asks) /\ ShowsFirst(f, s, size)

LEMMA EmptyShows ==
  ASSUME NEW f, f.page = 0, f.items = <<>>, NEW S, NEW s \in Seq(S), NEW size \in Nat \ {0}
  PROVE  ShowsFirst(f, s, size)
<1>1. f.page * size = 0 /\ Len(s) \in Nat
  OBVIOUS
<1>2. (IF 0 < Len(s) THEN 0 ELSE Len(s)) = 0
  BY <1>1
<1>3. SubSeq(s, 1, 0) = <<>>
  BY SubSeqEmpty
<1> QED
  BY <1>1, <1>2, <1>3 DEF ShowsFirst, FirstOf

LEMMA SameShows ==
  ASSUME NEW f, NEW g, SameList(f, g), NEW s, NEW size, ShowsFirst(f, s, size)
  PROVE  ShowsFirst(g, s, size)
BY DEF ShowsFirst, SameList

LEMMA PageTimes ==
  ASSUME NEW p \in Nat, NEW size \in Nat \ {0}
  PROVE  /\ p * size \in Nat /\ (p + 1) * size \in Nat
         /\ (p + 1) * size = p * size + size /\ (p + 1) * size > p * size
         /\ (p + 1 - 1) * size = p * size
         /\ p = 0 => p * size = 0
<1>1. p * size \in Nat
  OBVIOUS
<1>2. (p + 1) * size = p * size + size
  OBVIOUS
<1>3. p + 1 - 1 = p
  OBVIOUS
<1> QED
  BY <1>1, <1>2, <1>3

LEMMA EndOfFirst ==
  ASSUME NEW S, NEW s \in Seq(S), NEW n \in Nat, n <= Len(s), NEW k \in Nat, k < n
  PROVE  SubSeq(SubSeq(s, 1, n), k + 1, n) = SubSeq(s, k + 1, n)
<1>1. Len(s) \in Nat
  OBVIOUS
<1>2. 1 \in 1..Len(s) /\ n \in 1..Len(s)
  BY <1>1
<1>3. k + 1 \in 1..n - 1 + 1 /\ n \in 1..n - 1 + 1
  OBVIOUS
<1>4. SubSeq(SubSeq(s, 1, n), k + 1, n) = SubSeq(s, 1 + (k + 1) - 1, 1 + n - 1)
  BY <1>2, <1>3, SubSeqOfSubSeq
<1>5. 1 + (k + 1) - 1 = k + 1 /\ 1 + n - 1 = n
  OBVIOUS
<1> QED
  BY <1>4, <1>5

\* An answer is the next page of what the list shows.
LEMMA NextPage ==
  ASSUME NEW f, NEW g, NEW S, NEW s \in Seq(S), NEW size \in Nat \ {0},
         f.page \in Nat, ShowsFirst(f, s, size), f.more,
         g.page = f.page + 1,
         g.more <=> g.page * size < Len(s),
         NEW ans, ans = SubSeq(FirstOf(s, g.page * size), (g.page - 1) * size + 1,
                               Len(FirstOf(s, g.page * size)))
                  \/ ans = SubSeq(s, (g.page - 1) * size + 1,
                                  IF g.page * size < Len(s) THEN g.page * size ELSE Len(s)),
         g.items = IF f.page = 0 THEN ans ELSE f.items \o ans
  PROVE  ShowsFirst(g, s, size)
<1> DEFINE k == f.page * size
           m == (f.page + 1) * size
           n == IF m < Len(s) THEN m ELSE Len(s)
<1>1. /\ k \in Nat /\ m \in Nat /\ m > k /\ (f.page = 0 => k = 0)
      /\ g.page * size = m /\ (g.page - 1) * size = k
  <2>1. /\ k \in Nat /\ m \in Nat /\ m > k /\ (f.page = 0 => k = 0)
        /\ (f.page + 1 - 1) * size = k
    BY PageTimes, Zenon
  <2>2. g.page = f.page + 1
    OBVIOUS
  <2> HIDE DEF k
  <2>3. (g.page - 1) * size = k
    BY <2>1, <2>2
  <2> QED
    BY <2>1, <2>2, <2>3
<1>2. Len(s) \in Nat /\ n \in Nat /\ n <= Len(s)
  BY <1>1
<1> HIDE DEF k, m
<1>3. f.page > 0 => k < Len(s)
  BY DEF ShowsFirst, k
<1>4. n >= k
  BY <1>1, <1>2, <1>3
<1>5. FirstOf(s, m) = SubSeq(s, 1, n)
  BY DEF FirstOf
<1> HIDE DEF n
<1>6. ans = SubSeq(s, k + 1, n)
  <2>1. CASE ans = SubSeq(s, (g.page - 1) * size + 1,
                          IF g.page * size < Len(s) THEN g.page * size ELSE Len(s))
    BY <2>1, <1>1 DEF n
  <2>2. CASE ans = SubSeq(FirstOf(s, g.page * size), (g.page - 1) * size + 1,
                          Len(FirstOf(s, g.page * size)))
    <3> DEFINE t == SubSeq(s, 1, n)
    <3>1. ans = SubSeq(t, k + 1, Len(t))
      BY <2>2, <1>1, <1>5
    <3>2. t \in Seq(S) /\ Len(t) = n
      <4>1. \A i \in 1..n : s[i] \in S
        BY <1>2
      <4> QED
        BY <4>1, <1>2, SubSeqProperties
    <3>3. CASE k < n
      <4>2. SubSeq(SubSeq(s, 1, n), k + 1, n) = SubSeq(s, k + 1, n)
        BY <1>1, <1>2, <3>3, EndOfFirst
      <4> QED
        BY <3>1, <3>2, <4>2
    <3>4. CASE ~(k < n)
      <4>1. n < k + 1 /\ n \in Int /\ k + 1 \in Int
        BY <3>4, <1>1, <1>2
      <4>2. SubSeq(t, k + 1, n) = <<>> /\ SubSeq(s, k + 1, n) = <<>>
        BY <4>1, SubSeqEmpty
      <4> QED
        BY <3>1, <3>2, <4>2
    <3> QED
      BY <3>3, <3>4
  <2> QED
    BY <2>1, <2>2
<1>7. g.items = SubSeq(s, 1, n)
  <2>1. CASE f.page = 0
    <3>1. k + 1 = 1
      BY <2>1, <1>1
    <3> QED
      BY <2>1, <3>1, <1>6, Zenon
  <2>2. CASE f.page # 0
    <3>1. k < Len(s)
      BY <1>3, <2>2
    <3>2. f.items = SubSeq(s, 1, k)
      BY <3>1 DEF ShowsFirst, FirstOf, k
    <3>3. 1 \in 1..Len(s) + 1 /\ k \in 1 - 1..Len(s) /\ n \in k..Len(s)
      BY <3>1, <1>1, <1>2, <1>4
    <3>4. SubSeq(s, 1, k) \o SubSeq(s, k + 1, n) = SubSeq(s, 1, n)
      BY <3>3, ConcatAdjacentSubSeq
    <3> QED
      BY <2>2, <3>2, <3>4, <1>6
  <2> QED
    BY <2>1, <2>2
<1>8. g.page > 1 => (g.page - 1) * size < Len(s)
  BY <1>1, <1>3
<1> QED
  BY <1>1, <1>5, <1>7, <1>8 DEF ShowsFirst

LEMMA OneOf ==
  ASSUME NEW S, NEW s \in Seq(S), NEW n \in 1..Len(s)
  PROVE  SubSeq(s, n, n) = <<s[n]>>
<1>1. n \in Int /\ \A i \in n..n : s[i] \in S
  OBVIOUS
<1>2. /\ SubSeq(s, n, n) \in Seq(S) /\ Len(SubSeq(s, n, n)) = 1
      /\ \A i \in 1..1 : SubSeq(s, n, n)[i] = s[n + i - 1]
  BY <1>1, SubSeqProperties
<1>3. SubSeq(s, n, n)[1] = s[n]
  <2>1. n + 1 - 1 = n /\ 1 \in 1..1
    OBVIOUS
  <2> QED
    BY <1>2, <2>1
<1>4. <<s[n]>> \in Seq(S) /\ Len(<<s[n]>>) = 1 /\ <<s[n]>>[1] = s[n]
  OBVIOUS
<1> DEFINE t == SubSeq(s, n, n)
           u == <<s[n]>>
<1>5. t \in Seq(S) /\ u \in Seq(S) /\ Len(t) = 1 /\ Len(u) = 1 /\ t[1] = u[1]
  BY <1>2, <1>3, <1>4
<1> HIDE DEF t, u
<1>6. t = u
  BY <1>5, SeqEqual
<1> QED
  BY <1>6 DEF t, u

LEMMA ListReset ==
  ASSUME NEW queries, NoRequest \notin Feed!RequestsFor(queries), NEW f,
         NEW asks, NEW q \in queries \cap asks,
         FeedInv(f, queries) \/ f = Feed!NewFeed,
         NEW S, NEW s \in Seq(S), NEW size \in Nat \ {0}
  PROVE  ListOf(Feed!ResetFeedAndReload(f, q), queries, asks, s, size)
<1> DEFINE g == Feed!ResetFeedAndReload(f, q)
<1>1. FeedInv(g, queries) /\ AsksFor(g, asks) /\ g.page = 0 /\ g.items = <<>>
  BY ResetFeed DEF AsksFor
<1> HIDE DEF g
<1>2. ShowsFirst(g, s, size)
  BY <1>1, EmptyShows
<1> QED
  BY <1>1, <1>2 DEF ListOf, g

LEMMA ListMore ==
  ASSUME NEW queries, NoRequest \notin Feed!RequestsFor(queries), NEW f,
         NEW asks, NEW q \in queries \cap asks,
         NEW s, NEW size, ListOf(f, queries, asks, s, size)
  PROVE  ListOf(Feed!LoadNextPage(f, q), queries, asks, s, size)
<1> DEFINE g == Feed!LoadNextPage(f, q)
<1>1. FeedInv(g, queries) /\ AsksFor(g, asks) /\ SameList(f, g)
  BY LoadMore DEF ListOf, FeedInv, AsksFor
<1> HIDE DEF g
<1>2. ShowsFirst(g, s, size)
  BY <1>1, SameShows DEF ListOf
<1> QED
  BY <1>1, <1>2 DEF ListOf, g

LEMMA ListFailed ==
  ASSUME NEW queries, NoRequest \notin Feed!RequestsFor(queries), NEW f,
         NEW asks, NEW q \in queries \cap asks,
         NEW s, NEW size, ListOf(f, queries, asks, s, size), f.asked # NoRequest, NEW seen
  PROVE  ListOf(Feed!Failed(f, q, seen), queries, asks, s, size)
<1> DEFINE g == Feed!Failed(f, q, seen)
<1>1. FeedInv(g, queries) /\ AsksFor(g, asks) /\ SameList(f, g)
  BY FeedFailure DEF ListOf, AsksFor
<1> HIDE DEF g
<1>2. ShowsFirst(g, s, size)
  BY <1>1, SameShows DEF ListOf
<1> QED
  BY <1>1, <1>2 DEF ListOf, g

\* What the request in flight asks for, when its answer is to be shown.
LEMMA ListAsks ==
  ASSUME NEW queries, NEW asks, NEW f, NEW s, NEW size, ListOf(f, queries, asks, s, size),
         f.asked # NoRequest, ~f.asked.stale
  PROVE  /\ f.asked.query \in asks /\ f.page \in Nat /\ f.asked.page = f.page + 1
         /\ f.page > 0 => f.page * size < Len(s)
BY DEF ListOf, AsksFor, ShowsFirst, FeedInv, FeedTyped, Feed!FeedOK

\* The page of s that was asked for, in either way to cut it out.
IsPage(ans, page, s, size) ==
  \/ ans = SubSeq(FirstOf(s, page * size), (page - 1) * size + 1, Len(FirstOf(s, page * size)))
  \/ ans = SubSeq(s, (page - 1) * size + 1, IF page * size < Len(s) THEN page * size ELSE Len(s))

LEMMA ListAnswered ==
  ASSUME NEW queries, NoRequest \notin Feed!RequestsFor(queries), NEW f,
         NEW asks, NEW q \in queries \cap asks,
         NEW S, NEW s \in Seq(S), NEW size \in Nat \ {0}, ListOf(f, queries, asks, s, size),
         f.asked # NoRequest, NEW ans, NEW more \in BOOLEAN, NEW seen,
         ~f.asked.stale => /\ IsPage(ans, f.asked.page, s, size)
                           /\ more <=> f.asked.page * size < Len(s)
  PROVE  ListOf(Feed!Answered(f, ans, more, q, seen), queries, asks, s, size)
<1> DEFINE g == Feed!Answered(f, ans, more, q, seen)
<1>1. /\ FeedInv(g, queries) /\ AsksFor(g, asks)
      /\ f.asked.stale => SameList(f, g)
      /\ ~f.asked.stale => /\ g.page = f.page + 1 /\ f.asked.page = f.page + 1
                           /\ g.more = more
                           /\ g.items = IF f.page = 0 THEN ans ELSE f.items \o ans
  BY FeedAnswer DEF ListOf, AsksFor
<1> HIDE DEF g
<1>2. ShowsFirst(g, s, size)
  <2>1. CASE f.asked.stale
    BY <1>1, <2>1, SameShows DEF ListOf
  <2>2. CASE ~f.asked.stale
    <3>1. f.page \in Nat /\ f.more /\ ShowsFirst(f, s, size)
      BY <2>2 DEF ListOf, FeedInv, FeedTyped, Feed!FeedOK
    <3>2. g.page = f.page + 1 /\ f.asked.page = g.page /\ (g.more <=> g.page * size < Len(s))
      BY <1>1, <2>2
    <3>3. g.items = IF f.page = 0 THEN ans ELSE f.items \o ans
      BY <1>1, <2>2
    <3>4. \/ ans = SubSeq(FirstOf(s, g.page * size), (g.page - 1) * size + 1,
                          Len(FirstOf(s, g.page * size)))
          \/ ans = SubSeq(s, (g.page - 1) * size + 1,
                          IF g.page * size < Len(s) THEN g.page * size ELSE Len(s))
      BY <2>2, <3>2 DEF IsPage
    <3> QED
      BY <3>1, <3>2, <3>3, <3>4, NextPage
  <2> QED
    BY <2>1, <2>2
<1> QED
  BY <1>1, <1>2 DEF ListOf, g

\* Where a page is represented by what was asked for, the answer is the next page.
LEMMA OnePage ==
  ASSUME NEW queries, NEW q, NEW f, NEW last \in Nat \ {0},
         NEW list \in Seq({[query |-> q, page |-> n] : n \in 1..last}), Len(list) = last,
         \A n \in 1..last : list[n] = [query |-> q, page |-> n],
         ListOf(f, queries, {q}, list, 1), f.asked # NoRequest, ~f.asked.stale
  PROVE  /\ IsPage(<<[query |-> f.asked.query, page |-> f.asked.page]>>, f.asked.page, list, 1)
         /\ f.asked.page < last <=> f.asked.page * 1 < Len(list)
<1>1. /\ f.asked.query = q /\ f.page \in Nat /\ f.asked.page = f.page + 1
      /\ f.page > 0 => f.page * 1 < last
  BY ListAsks
<1>2. PICK n \in Nat : n = f.asked.page
  BY <1>1
<1>3. n \in 1..last /\ n * 1 = n /\ (n - 1) * 1 + 1 = n
  BY <1>1, <1>2
<1>4. (IF n * 1 < Len(list) THEN n * 1 ELSE Len(list)) = n
  BY <1>3
<1> DEFINE ans == <<[query |-> f.asked.query, page |-> f.asked.page]>>
<1>5. ans = SubSeq(list, n, n)
  <2>1. SubSeq(list, n, n) = <<list[n]>>
    BY <1>3, OneOf
  <2>2. list[n] = [query |-> q, page |-> n]
    BY <1>3
  <2> QED
    BY <1>1, <1>2, <2>1, <2>2
<1>6. IsPage(ans, n, list, 1)
  BY <1>3, <1>4, <1>5 DEF IsPage
<1> QED
  BY <1>2, <1>3, <1>6

\* before[x] is what precedes x in a strict total order of F.
Orders(before, F) ==
  /\ before \in [F -> SUBSET F]
  /\ \A x \in F : x \notin before[x]
  /\ \A x, y \in F : x # y => x \in before[y] \/ y \in before[x]
  /\ \A x, y \in F : x \in before[y] => before[x] \subseteq before[y]

\* In a finite set each place is taken by one element.
LEMMA Ranks ==
  ASSUME NEW F, IsFiniteSet(F), NEW before, Orders(before, F)
  PROVE  /\ Cardinality(F) \in Nat
         /\ \A n \in 1..Cardinality(F) : \E x \in F : Cardinality(before[x]) = n - 1
         /\ \A x \in F : Cardinality(before[x]) \in 0..Cardinality(F) - 1
         /\ \A x, y \in F : Cardinality(before[x]) = Cardinality(before[y]) => x = y
<1> DEFINE c == Cardinality(F)
           rank == [x \in F |-> Cardinality(before[x])]
<1>1. c \in Nat
  BY FS_CardinalityType
<1>2. \A x \in F : before[x] \subseteq F /\ IsFiniteSet(before[x]) /\ Cardinality(before[x]) \in Nat
  <2>1. ASSUME NEW x \in F PROVE before[x] \subseteq F
    BY DEF Orders
  <2> QED
    BY <2>1, FS_Subset, FS_CardinalityType
<1>3. ASSUME NEW x \in F, NEW T, IsFiniteSet(T), before[x] \subseteq T, x \in T
      PROVE  Cardinality(before[x]) < Cardinality(T)
  <2>1. x \notin before[x]
    BY DEF Orders
  <2>2. Cardinality(before[x]) <= Cardinality(T) /\ Cardinality(T) # Cardinality(before[x])
    BY <1>3, <2>1, FS_Subset
  <2>3. Cardinality(T) \in Nat /\ Cardinality(before[x]) \in Nat
    BY <1>2, <1>3, FS_CardinalityType
  <2> QED
    BY <2>2, <2>3
<1>4. \A x \in F : Cardinality(before[x]) \in 0..c - 1
  BY <1>1, <1>2, <1>3
<1>5. \A x, y \in F : x # y => Cardinality(before[x]) # Cardinality(before[y])
  <2>1. ASSUME NEW x \in F, NEW y \in F, x \in before[y]
        PROVE  Cardinality(before[x]) < Cardinality(before[y])
    BY <1>2, <1>3, <2>1 DEF Orders
  <2>2. ASSUME NEW x \in F, NEW y \in F, x # y
        PROVE  Cardinality(before[x]) # Cardinality(before[y])
    <3>1. x \in before[y] \/ y \in before[x]
      BY <2>2 DEF Orders
    <3> QED
      BY <1>2, <2>1, <3>1
  <2> QED
    BY <2>2
<1>6. rank \in Injection(F, 0..c - 1)
  <2>1. rank \in [F -> 0..c - 1]
    BY <1>4
  <2>2. \A x, y \in F : rank[x] = rank[y] => x = y
    BY <1>5
  <2> QED
    BY <2>1, <2>2 DEF Injection, IsInjective
<1>7. IsFiniteSet(0..c - 1) /\ Cardinality(0..c - 1) = c
  BY <1>1, FS_Interval
<1>8. rank \in Surjection(F, 0..c - 1)
  BY <1>6, <1>7, FS_Injection
<1>9. ASSUME NEW n \in 1..c PROVE \E x \in F : Cardinality(before[x]) = n - 1
  <2>1. n - 1 \in 0..c - 1
    BY <1>1
  <2>2. \E x \in F : rank[x] = n - 1
    BY <1>8, <2>1 DEF Surjection
  <2> QED
    BY <2>2
<1> QED
  BY <1>1, <1>4, <1>5, <1>9

-----------------------------------------------------------------------------
(* A hybrid rail. *)

\* The i-th smallest number of N.
Nth(N, i) == CHOOSE n \in N : Cardinality({m \in N : m < n}) = i - 1

LEMMA NthOK ==
  ASSUME NEW N, N \subseteq Nat, IsFiniteSet(N)
  PROVE  /\ Cardinality(N) \in Nat
         /\ \A i \in 1..Cardinality(N) :
              Nth(N, i) \in N /\ Cardinality({m \in N : m < Nth(N, i)}) = i - 1
         /\ \A n \in N : \A i \in Int :
              Cardinality({m \in N : m < n}) = i - 1 => i \in 1..Cardinality(N) /\ Nth(N, i) = n
<1> DEFINE before == [n \in N |-> {m \in N : m < n}]
<1>1. Orders(before, N)
  <2>1. before \in [N -> SUBSET N]
    OBVIOUS
  <2>2. \A x \in N : x \notin before[x]
    OBVIOUS
  <2>3. \A x, y \in N : x # y => x \in before[y] \/ y \in before[x]
    OBVIOUS
  <2>4. ASSUME NEW x \in N, NEW y \in N, x \in before[y], NEW z \in before[x]
        PROVE  z \in before[y]
    <3>1. z \in N /\ z < x /\ x < y
      BY <2>4
    <3>2. x \in Int /\ y \in Int /\ z \in Int
      BY <3>1
    <3> QED
      BY <3>1, <3>2
  <2> QED
    BY <2>1, <2>2, <2>3, <2>4 DEF Orders
<1>2. \A n \in N : before[n] = {m \in N : m < n}
  OBVIOUS
<1> HIDE DEF before
<1>3. /\ Cardinality(N) \in Nat
      /\ \A i \in 1..Cardinality(N) : \E n \in N : Cardinality({m \in N : m < n}) = i - 1
      /\ \A n \in N : Cardinality({m \in N : m < n}) \in 0..Cardinality(N) - 1
      /\ \A n, k \in N :
           Cardinality({m \in N : m < n}) = Cardinality({m \in N : m < k}) => n = k
  <2>1. /\ Cardinality(N) \in Nat
        /\ \A i \in 1..Cardinality(N) : \E n \in N : Cardinality(before[n]) = i - 1
        /\ \A n \in N : Cardinality(before[n]) \in 0..Cardinality(N) - 1
        /\ \A n, k \in N : Cardinality(before[n]) = Cardinality(before[k]) => n = k
    BY <1>1, Ranks, Zenon
  <2> QED
    BY <1>2, <2>1, Zenon
<1>4. ASSUME NEW i \in 1..Cardinality(N)
      PROVE  Nth(N, i) \in N /\ Cardinality({m \in N : m < Nth(N, i)}) = i - 1
  <2>1. \E n \in N : Cardinality({m \in N : m < n}) = i - 1
    BY <1>3
  <2> QED
    BY <2>1, Zenon DEF Nth
<1>5. ASSUME NEW n \in N, NEW i \in Int, Cardinality({m \in N : m < n}) = i - 1
      PROVE  i \in 1..Cardinality(N) /\ Nth(N, i) = n
  <2>1. i - 1 \in 0..Cardinality(N) - 1
    BY <1>3, <1>5
  <2>2. i \in 1..Cardinality(N)
    BY <1>3, <2>1
  <2> QED
    BY <1>3, <1>4, <1>5, <2>2, Zenon
<1> QED
  BY <1>3, <1>4, <1>5

\* The numbers of A, up to a, and those of B after them.
Joined(A, a, B) == A \cup {a + k : k \in B}

CountsOn(A, a, B) ==
  /\ Cardinality(A) \in Nat /\ Cardinality(B) \in Nat
  /\ IsFiniteSet(A) /\ IsFiniteSet(B)
  /\ IsFiniteSet(Joined(A, a, B)) /\ Joined(A, a, B) \subseteq Nat
  /\ Cardinality(Joined(A, a, B)) = Cardinality(A) + Cardinality(B)
  /\ \A i \in 1..Cardinality(A) : Nth(Joined(A, a, B), i) = Nth(A, i)
  /\ \A i \in 1..Cardinality(B) : Nth(Joined(A, a, B), Cardinality(A) + i) = a + Nth(B, i)

\* Numbers that follow others are counted after them.
LEMMA NthAppend ==
  ASSUME NEW a \in Nat, NEW b \in Nat, NEW A, A \subseteq 1..a, NEW B, B \subseteq 1..b
  PROVE  CountsOn(A, a, B)
<1> DEFINE F == Joined(A, a, B)
<1>7. F = A \cup {a + k : k \in B}
  BY DEF Joined
<1> HIDE DEF F
<1>1. /\ IsFiniteSet(A) /\ IsFiniteSet(B) /\ Cardinality(A) \in Nat /\ Cardinality(B) \in Nat
      /\ A \subseteq Nat /\ B \subseteq Nat
  <2>1. IsFiniteSet(1..a) /\ IsFiniteSet(1..b)
    BY FS_Interval
  <2> QED
    <3>1. IsFiniteSet(A) /\ IsFiniteSet(B)
      BY <2>1, FS_Subset
    <3>2. Cardinality(A) \in Nat /\ Cardinality(B) \in Nat
      BY <3>1, FS_CardinalityType
    <3>3. A \subseteq Nat /\ B \subseteq Nat
      OBVIOUS
    <3> QED
      BY <3>1, <3>2, <3>3
<1>2. ASSUME NEW C, C \subseteq B
      PROVE  /\ IsFiniteSet(C) /\ IsFiniteSet({a + k : k \in C})
             /\ Cardinality({a + k : k \in C}) = Cardinality(C)
  <2> DEFINE T == {a + k : k \in C}
             f == [k \in C |-> a + k]
  <2>1. IsFiniteSet(C)
    BY <1>1, <1>2, FS_Subset
  <2>2. C \subseteq Int
    BY <1>2
  <2>3. f \in Bijection(C, T)
    <3>1. f \in [C -> T] /\ \A t \in T : \E k \in C : f[k] = t
      OBVIOUS
    <3>2. \A k, l \in C : f[k] = f[l] => k = l
      BY <2>2
    <3> QED
      BY <3>1, <3>2 DEF Bijection, Injection, Surjection, IsInjective
  <2>4. ExistsBijection(C, T)
    BY <2>3 DEF ExistsBijection
  <2> QED
    BY <2>1, <2>4, FS_Bijection
<1>3. ASSUME NEW C, C \subseteq B
      PROVE  /\ IsFiniteSet(A \cup {a + k : k \in C})
             /\ Cardinality(A \cup {a + k : k \in C}) = Cardinality(A) + Cardinality(C)
  <2> DEFINE T == {a + k : k \in C}
  <2>1. A \cap T = {}
    BY <1>1, <1>3
  <2>2. Cardinality({}) = 0
    BY FS_EmptySet
  <2>3. IsFiniteSet(T) /\ Cardinality(T) = Cardinality(C) /\ Cardinality(C) \in Nat
    BY <1>2, <1>3, FS_CardinalityType
  <2> HIDE DEF T
  <2>4. /\ IsFiniteSet(A \cup T)
        /\ Cardinality(A \cup T) = Cardinality(A) + Cardinality(T) - Cardinality(A \cap T)
    BY <1>1, <2>3, FS_Union
  <2>5. IsFiniteSet(A \cup T) /\ Cardinality(A \cup T) = Cardinality(A) + Cardinality(C)
    BY <1>1, <2>1, <2>2, <2>3, <2>4
  <2> QED
    BY <2>5 DEF T
<1>4. IsFiniteSet(F) /\ Cardinality(F) = Cardinality(A) + Cardinality(B) /\ F \subseteq Nat
  <2>1. B \subseteq B
    OBVIOUS
  <2>2. IsFiniteSet(F) /\ Cardinality(F) = Cardinality(A) + Cardinality(B)
    BY <1>3, <1>7, <2>1, Zenon
  <2>3. ASSUME NEW n \in F PROVE n \in Nat
    <3>1. CASE n \in A
      BY <1>1, <3>1
    <3>2. ASSUME NEW k \in B, n = a + k PROVE n \in Nat
      BY <1>1, <3>2
    <3> QED
      BY <1>7, <3>1, <3>2
  <2> QED
    BY <2>2, <2>3
<1>5. ASSUME NEW i \in 1..Cardinality(A) PROVE Nth(F, i) = Nth(A, i)
  <2> DEFINE n == Nth(A, i)
  <2>1. n \in A /\ Cardinality({m \in A : m < n}) = i - 1
    BY <1>1, NthOK
  <2> HIDE DEF n
  <2>2. {m \in F : m < n} = {m \in A : m < n}
    <3>1. n \in 1..a
      BY <2>1
    <3>2. \A k \in B : ~ (a + k < n)
      BY <3>1
    <3> QED
      BY <1>7, <3>2
  <2>3. n \in F /\ Cardinality({m \in F : m < n}) = i - 1 /\ i \in Int
    BY <1>1, <1>7, <2>1, <2>2
  <2> QED
    BY <1>4, <2>3, NthOK DEF n
<1>6. ASSUME NEW i \in 1..Cardinality(B) PROVE Nth(F, Cardinality(A) + i) = a + Nth(B, i)
  <2> DEFINE k == Nth(B, i)
             C == {m \in B : m < k}
  <2>1. k \in B /\ Cardinality(C) = i - 1
    BY <1>1, NthOK
  <2> HIDE DEF k
  <2>2. {m \in F : m < a + k} = A \cup {a + l : l \in C}
    <3>1. k \in Nat \ {0} /\ k \in B
      BY <2>1
    <3>2. \A m \in A : m < a + k
      BY <1>1, <3>1
    <3>3. \A l \in B : a + l < a + k <=> l < k
      BY <1>1, <3>1
    <3> QED
      BY <1>7, <3>2, <3>3
  <2>3. Cardinality({m \in F : m < a + k}) = Cardinality(A) + (i - 1)
    <3>1. C \subseteq B
      OBVIOUS
    <3> HIDE DEF C
    <3>2. Cardinality(A \cup {a + l : l \in C}) = Cardinality(A) + Cardinality(C)
      BY <1>3, <3>1, Zenon
    <3> QED
      BY <2>1, <2>2, <3>2
  <2>4. a + k \in F /\ Cardinality(A) + i \in Int
        /\ Cardinality({m \in F : m < a + k}) = (Cardinality(A) + i) - 1
    BY <1>1, <1>7, <2>1, <2>3
  <2>5. \A n \in F : \A j \in Int :
          Cardinality({m \in F : m < n}) = j - 1 => j \in 1..Cardinality(F) /\ Nth(F, j) = n
    BY <1>4, NthOK
  <2> QED
    BY <2>4, <2>5, Zenon DEF k
<1> QED
  BY <1>1, <1>4, <1>5, <1>6 DEF F, CountsOn

LEMMA KeptIs ==
  ASSUME NEW s, NEW N
  PROVE  Rail!Kept(s, N) = [i \in 1..Cardinality(N) |-> s[Nth(N, i)]]
BY Zenon DEF Rail!Kept, Rail!Cardinality, Cardinality, Nth

Within(s, N, S) == \A n \in N : s[n] \in S

KeptAs(s, N, S) ==
  /\ Rail!Kept(s, N) \in Seq(S) /\ Len(Rail!Kept(s, N)) = Cardinality(N)
  /\ \A i \in 1..Cardinality(N) : Rail!Kept(s, N)[i] = s[Nth(N, i)]

LEMMA KeptOK ==
  ASSUME NEW S, NEW s, NEW N, N \subseteq Nat, IsFiniteSet(N), Within(s, N, S)
  PROVE  KeptAs(s, N, S)
<1> DEFINE k == Cardinality(N)
<1>1. k \in Nat /\ \A i \in 1..k : Nth(N, i) \in N
  BY NthOK
<1>2. Rail!Kept(s, N) = [i \in 1..k |-> s[Nth(N, i)]]
  BY KeptIs
<1> HIDE DEF k
<1>3. \A i \in 1..k : s[Nth(N, i)] \in S
  BY <1>1 DEF Within
<1>4. [i \in 1..k |-> s[Nth(N, i)]] \in Seq(S)
  BY <1>1, <1>3
<1>5. Len([i \in 1..k |-> s[Nth(N, i)]]) = k
  BY <1>1
<1>6. \A i \in 1..k : [i2 \in 1..k |-> s[Nth(N, i2)]][i] = s[Nth(N, i)]
  OBVIOUS
<1> QED
  BY <1>2, <1>4, <1>5, <1>6 DEF k, KeptAs

\* On B, t is what follows the first a of s.
Follows(t, s, a, B) == \A k \in B : t[k] = s[a + k]

Appended(s, A, t, B, a, S) ==
  /\ Rail!Kept(s, A) \in Seq(S) /\ Rail!Kept(t, B) \in Seq(S)
  /\ Rail!Kept(s, Joined(A, a, B)) = Rail!Kept(s, A) \o Rail!Kept(t, B)

\* What is kept of two parts.
LEMMA KeptAppend ==
  ASSUME NEW S, NEW a \in Nat, NEW b \in Nat, NEW A, A \subseteq 1..a, NEW B, B \subseteq 1..b,
         NEW s, NEW t, Within(s, Joined(A, a, B), S), Follows(t, s, a, B)
  PROVE  Appended(s, A, t, B, a, S)
<1> DEFINE F == Joined(A, a, B)
           x == Rail!Kept(s, A)
           y == Rail!Kept(t, B)
           z == Rail!Kept(s, F)
<1>1. /\ Cardinality(A) \in Nat /\ Cardinality(B) \in Nat
      /\ IsFiniteSet(A) /\ IsFiniteSet(B) /\ F \subseteq Nat
      /\ IsFiniteSet(F) /\ Cardinality(F) = Cardinality(A) + Cardinality(B)
      /\ \A i \in 1..Cardinality(A) : Nth(F, i) = Nth(A, i)
      /\ \A i \in 1..Cardinality(B) : Nth(F, Cardinality(A) + i) = a + Nth(B, i)
  <2>1. CountsOn(A, a, B)
    BY NthAppend
  <2> QED
    BY <2>1 DEF CountsOn
<1>2. A \subseteq Nat /\ B \subseteq Nat
  OBVIOUS
<1>3. (\A n \in A : s[n] \in S) /\ (\A k \in B : t[k] \in S)
  BY DEF Follows, Joined, Within
<1>4. /\ x \in Seq(S) /\ Len(x) = Cardinality(A)
      /\ \A i \in 1..Cardinality(A) : x[i] = s[Nth(A, i)]
  <2>1. A \subseteq Nat /\ IsFiniteSet(A) /\ Within(s, A, S)
    BY <1>1, <1>2, <1>3 DEF Within
  <2>2. KeptAs(s, A, S)
    BY <2>1, KeptOK
  <2> QED
    BY <2>2 DEF KeptAs
<1>5. /\ y \in Seq(S) /\ Len(y) = Cardinality(B)
      /\ \A i \in 1..Cardinality(B) : y[i] = t[Nth(B, i)]
  <2>1. B \subseteq Nat /\ IsFiniteSet(B) /\ Within(t, B, S)
    BY <1>1, <1>2, <1>3 DEF Within
  <2>2. KeptAs(t, B, S)
    BY <2>1, KeptOK
  <2> QED
    BY <2>2 DEF KeptAs
<1>6. /\ z \in Seq(S) /\ Len(z) = Cardinality(F)
      /\ \A i \in 1..Cardinality(F) : z[i] = s[Nth(F, i)]
  <2>1. F \subseteq Nat /\ IsFiniteSet(F) /\ Within(s, F, S)
    BY <1>1 DEF Within
  <2>2. KeptAs(s, F, S)
    BY <2>1, KeptOK
  <2> QED
    BY <2>2 DEF KeptAs
<1>7. \A i \in 1..Cardinality(B) : Nth(B, i) \in B
  BY <1>1, <1>2, NthOK
<1> HIDE DEF F, x, y, z
<1>8. /\ x \o y \in Seq(S) /\ Len(x \o y) = Cardinality(F)
      /\ \A i \in 1..Cardinality(F) :
           (x \o y)[i] = IF i <= Cardinality(A) THEN x[i] ELSE y[i - Cardinality(A)]
  <2>1. /\ x \o y \in Seq(S) /\ Len(x \o y) = Len(x) + Len(y)
        /\ \A i \in 1..Len(x) + Len(y) :
             (x \o y)[i] = IF i <= Len(x) THEN x[i] ELSE y[i - Len(x)]
    BY <1>4, <1>5, ConcatProperties
  <2> QED
    BY <1>1, <1>4, <1>5, <2>1
<1>9. ASSUME NEW i \in 1..Cardinality(F) PROVE z[i] = (x \o y)[i]
  <2>1. CASE i <= Cardinality(A)
    <3>1. i \in 1..Cardinality(A)
      BY <1>1, <2>1
    <3> QED
      BY <1>1, <1>4, <1>6, <1>8, <2>1, <3>1
  <2>2. CASE ~ (i <= Cardinality(A))
    <3> DEFINE j == i - Cardinality(A)
    <3>1. j \in 1..Cardinality(B) /\ i = Cardinality(A) + j
      BY <1>1, <2>2
    <3>2. (x \o y)[i] = y[j]
      BY <1>8, <2>2
    <3> HIDE DEF j
    <3>3. z[i] = s[a + Nth(B, j)]
      BY <1>1, <1>6, <3>1
    <3> QED
      BY <1>5, <1>7, <3>1, <3>2, <3>3 DEF Follows
  <2> QED
    BY <2>1, <2>2
<1>10. z = x \o y
  BY <1>6, <1>8, <1>9, SeqEqual
<1> QED
  BY <1>4, <1>5, <1>10 DEF F, x, y, z, Appended

\* The first n of s.
Take(s, n) == SubSeq(s, 1, Rail!Fewer(n, Len(s)))

LEMMA TakeOK ==
  ASSUME NEW S, NEW s \in Seq(S), NEW n \in Nat
  PROVE  /\ Take(s, n) \in Seq(S) /\ Len(Take(s, n)) = Rail!Fewer(n, Len(s))
         /\ Len(Take(s, n)) <= n
         /\ \A i \in 1..Len(Take(s, n)) : Take(s, n)[i] = s[i]
         /\ Len(s) <= n => Take(s, n) = s
<1> DEFINE k == Rail!Fewer(n, Len(s))
<1>1. k \in Nat /\ k <= n /\ k <= Len(s) /\ (Len(s) <= n => k = Len(s))
  BY DEF Rail!Fewer
<1> HIDE DEF k
<1>2. \A i \in 1..k : s[i] \in S
  BY <1>1
<1>3. /\ SubSeq(s, 1, k) \in Seq(S) /\ Len(SubSeq(s, 1, k)) = k
      /\ \A i \in 1..k : SubSeq(s, 1, k)[i] = s[i]
  BY <1>1, <1>2
<1>4. Len(s) <= n => SubSeq(s, 1, k) = s
  BY <1>1
<1> QED
  BY <1>1, <1>3, <1>4 DEF Take, k

LEMMA TakeOfTake ==
  ASSUME NEW S, NEW s \in Seq(S), NEW n \in Nat, NEW m \in Nat, m <= n
  PROVE  Take(Take(s, n), m) = Take(s, m)
<1> DEFINE x == Take(s, n)
           y == Take(x, m)
           z == Take(s, m)
<1>1. x \in Seq(S) /\ Len(x) = Rail!Fewer(n, Len(s)) /\ \A i \in 1..Len(x) : x[i] = s[i]
  BY TakeOK
<1> HIDE DEF x
<1>2. y \in Seq(S) /\ Len(y) = Rail!Fewer(m, Len(x)) /\ \A i \in 1..Len(y) : y[i] = x[i]
  BY <1>1, TakeOK
<1>3. z \in Seq(S) /\ Len(z) = Rail!Fewer(m, Len(s)) /\ \A i \in 1..Len(z) : z[i] = s[i]
  BY TakeOK
<1> HIDE DEF y, z
<1>4. Len(y) = Len(z) /\ Len(y) <= Len(x) /\ Len(y) \in Nat
  BY <1>1, <1>2, <1>3 DEF Rail!Fewer
<1>5. \A i \in 1..Len(y) : y[i] = z[i]
  BY <1>1, <1>2, <1>3, <1>4
<1> QED
  BY <1>2, <1>3, <1>4, <1>5, SeqEqual DEF x, y, z

LEMMA TakeOfAppend ==
  ASSUME NEW S, NEW s \in Seq(S), NEW t \in Seq(S), NEW n \in Nat, n <= Len(s)
  PROVE  Take(s \o t, n) = Take(s, n)
<1> DEFINE x == s \o t
           y == Take(x, n)
           z == Take(s, n)
<1>1. /\ x \in Seq(S) /\ Len(x) = Len(s) + Len(t) /\ Len(s) \in Nat /\ Len(t) \in Nat
      /\ \A i \in 1..Len(s) : x[i] = s[i]
  BY ConcatProperties
<1> HIDE DEF x
<1>2. y \in Seq(S) /\ Len(y) = Rail!Fewer(n, Len(x)) /\ \A i \in 1..Len(y) : y[i] = x[i]
  BY <1>1, TakeOK
<1>3. z \in Seq(S) /\ Len(z) = Rail!Fewer(n, Len(s)) /\ \A i \in 1..Len(z) : z[i] = s[i]
  BY TakeOK
<1> HIDE DEF y, z
<1>4. Len(y) = n /\ Len(z) = n
  BY <1>1, <1>2, <1>3 DEF Rail!Fewer
<1>5. \A i \in 1..n : y[i] = z[i]
  BY <1>1, <1>2, <1>3, <1>4
<1> QED
  BY <1>2, <1>3, <1>4, <1>5, SeqEqual DEF x, y, z

LEMMA HybridConstants ==
  /\ Catalog \in Seq(Rail!Range(Catalog)) /\ NoAnswer \notin BOOLEAN
  /\ Limit \in Nat \ {0} /\ LOOKUP_CONCURRENCY \in Nat \ {0}
  /\ Rail!Target = Limit + 1
  /\ Rail!MaxInspected \in Nat /\ Rail!CandidatePageSize \in Nat \ {0}
<1>1. /\ Catalog \in Seq(Rail!Range(Catalog)) /\ NoAnswer \notin BOOLEAN
      /\ Limit \in Nat \ {0} /\ LOOKUP_CONCURRENCY \in Nat \ {0}
      /\ OVERSCAN_FACTOR \in Nat \ {0} /\ PAGE_SIZE_MAX \in Nat \ {0}
  BY PagesAssumption DEF Rail!HybridAssumption
<1>2. Rail!CandidatePageSize \in Nat \ {0}
  BY <1>1 DEF Rail!CandidatePageSize, Rail!Fewer
<1>3. Rail!MaxInspected \in Nat
  <2>1. Limit * OVERSCAN_FACTOR \in Nat /\ (Limit + 1) * OVERSCAN_FACTOR \in Nat
    BY <1>1
  <2> QED
    BY <2>1 DEF Rail!MaxInspected, Rail!Target, Rail!More
<1> QED
  BY <1>1, <1>2, <1>3 DEF Rail!Target

\* The scene belongs into the rail r, with what st says of the library.
Belongs(st, r, s) ==
  IF r.availability = "IN_LIBRARY"
  THEN st[s] = "favorite" \/ (st[s] = "local" /\ ~r.favoritesOnly)
  ELSE st[s] = "absent"

FirstOnes(st, r, k) == {n \in 1..k : Belongs(st, r, Catalog[n])}

\* Those among the first k of the catalog.
KeptOf(st, r, k) == Rail!Kept(Catalog, FirstOnes(st, r, k))

Inspectable == Rail!Fewer(Rail!MaxInspected, Len(Catalog))

\* Which places of t, the b scenes after the first a, are of scenes that belong into the rail.
Matches(st, r, a, b) == {k \in 1..b : Belongs(st, r, Catalog[a + k])}

Continued(st, r, a, b, t) ==
  /\ KeptOf(st, r, a) \in Seq(Rail!Range(Catalog))
  /\ Rail!Kept(t, Matches(st, r, a, b)) \in Seq(Rail!Range(Catalog))
  /\ KeptOf(st, r, a + b) = KeptOf(st, r, a) \o Rail!Kept(t, Matches(st, r, a, b))

\* What is inspected next belongs behind what was inspected before.
LEMMA KeptFurther ==
  ASSUME NEW st, NEW r, NEW a \in Nat, NEW b \in Nat, a + b <= Len(Catalog), NEW t,
         Follows(t, Catalog, a, 1..b)
  PROVE  Continued(st, r, a, b, t)
<1> DEFINE S == Rail!Range(Catalog)
           A == FirstOnes(st, r, a)
           B == Matches(st, r, a, b)
<1>1. A \subseteq 1..a /\ B \subseteq 1..b /\ Follows(t, Catalog, a, B)
  BY DEF FirstOnes, Matches, Follows
<1>2. FirstOnes(st, r, a + b) = Joined(A, a, B)
  <2>1. ASSUME NEW n \in FirstOnes(st, r, a + b) PROVE n \in Joined(A, a, B)
    <3>1. n \in 1..a + b /\ Belongs(st, r, Catalog[n])
      BY DEF FirstOnes
    <3>2. CASE n <= a
      BY <3>1, <3>2 DEF FirstOnes, Joined
    <3>3. CASE ~ (n <= a)
      <4>1. n - a \in 1..b /\ n = a + (n - a)
        BY <3>1, <3>3
      <4>2. n - a \in B
        BY <3>1, <4>1 DEF Matches
      <4> QED
        BY <4>1, <4>2 DEF Joined
    <3> QED
      BY <3>2, <3>3
  <2>2. ASSUME NEW n \in Joined(A, a, B) PROVE n \in FirstOnes(st, r, a + b)
    <3>1. CASE n \in A
      BY <3>1 DEF FirstOnes
    <3>2. ASSUME NEW k \in B, n = a + k PROVE n \in FirstOnes(st, r, a + b)
      BY <3>2 DEF FirstOnes, Matches
    <3> QED
      BY <3>1, <3>2 DEF Joined
  <2> QED
    BY <2>1, <2>2
<1>3. Within(Catalog, Joined(A, a, B), S)
  <2>1. Catalog \in Seq(S)
    BY HybridConstants
  <2>2. \A n \in FirstOnes(st, r, a + b) : n \in 1..Len(Catalog)
    BY DEF FirstOnes
  <2> QED
    BY <1>2, <2>1, <2>2 DEF Within
<1> HIDE DEF A, B, S
<1>4. Appended(Catalog, A, t, B, a, S)
  BY <1>1, <1>3, KeptAppend
<1> QED
  BY <1>2, <1>4 DEF A, B, S, Appended, Continued, KeptOf

LEMMA KeptNone == ASSUME NEW st, NEW r PROVE KeptOf(st, r, 0) = <<>>
<1>1. FirstOnes(st, r, 0) = {}
  BY DEF FirstOnes
<1>2. Cardinality({}) = 0
  BY FS_EmptySet
<1>3. KeptOf(st, r, 0) = [i \in 1..0 |-> Catalog[Nth({}, i)]]
  BY <1>1, <1>2, KeptIs DEF KeptOf
<1> QED
  BY <1>3

\* What a page of the catalog holds.
LEMMA PageOfCatalog ==
  ASSUME NEW n \in Nat \ {0}, n = 1 \/ (n - 1) * Rail!CandidatePageSize < Len(Catalog)
  PROVE  LET a == (n - 1) * Rail!CandidatePageSize
             page == Rail!CandidatePage(n)
         IN /\ a \in Nat /\ a <= Len(Catalog)
            /\ a + Rail!CandidatePageSize = ((n + 1) - 1) * Rail!CandidatePageSize
            /\ page \in Seq(Rail!Range(Catalog))
            /\ Len(page) = Rail!Fewer(Rail!CandidatePageSize, Len(Catalog) - a)
            /\ Follows(page, Catalog, a, 1..Len(page))
<1> DEFINE P == Rail!CandidatePageSize
           a == (n - 1) * P
           h == Rail!Fewer(n * P, Len(Catalog))
           S == Rail!Range(Catalog)
<1>1. P \in Nat \ {0} /\ Catalog \in Seq(S) /\ Len(Catalog) \in Nat
  BY HybridConstants
<1>2. Rail!CandidatePage(n) = SubSeq(Catalog, a + 1, h)
  BY DEF Rail!CandidatePage
<1> HIDE DEF P, S
<1>3. a \in Nat /\ n * P = a + P /\ ((n + 1) - 1) * P = a + P
  BY <1>1
<1>4. a <= Len(Catalog)
  BY <1>1 DEF P
<1> HIDE DEF a
<1>5. h \in Nat /\ h <= Len(Catalog) /\ a <= h /\ h - a = Rail!Fewer(P, Len(Catalog) - a)
  BY <1>1, <1>3, <1>4 DEF Rail!Fewer
<1> HIDE DEF h
<1>6. \A k \in a + 1..h : Catalog[k] \in S
  BY <1>1, <1>3, <1>5
<1>7. /\ SubSeq(Catalog, a + 1, h) \in Seq(S) /\ Len(SubSeq(Catalog, a + 1, h)) = h - a
      /\ \A k \in 1..h - a : SubSeq(Catalog, a + 1, h)[k] = Catalog[a + k]
  BY <1>1, <1>3, <1>5, <1>6
<1> QED
  BY <1>1, <1>2, <1>3, <1>4, <1>5, <1>7 DEF a, P, S, Follows

Scanned == Rail!Range(Catalog)

ScanType ==
  [page : Nat \ {0}, inspected : Nat, matched : Seq(Scanned), scenes : Seq(Scanned),
   found : Seq(BOOLEAN \cup {NoAnswer}), taken : Nat,
   config : [availability : Rail!LegacyAvailability, favoritesOnly : BOOLEAN]]

ContentType ==
  [pc : {"start", "candidates", "lookups", "statuses", "done"},
   message : {"none", "not configured", "failed"}, items : Seq(Scanned)]

\* A page is read from where the one before it ended.
PageBegins(x) ==
  /\ x.inspected = (x.page - 1) * Rail!CandidatePageSize
  /\ x.page = 1 \/ x.inspected < Len(Catalog)
  /\ Len(x.matched) < Rail!Target

\* The scenes that are looked up, and whether each belongs.
LookupsOK(x, st, r) ==
  /\ Len(x.scenes) = Rail!Fewer(Rail!Fewer(Rail!CandidatePageSize, Len(Catalog) - x.inspected),
                                Rail!MaxInspected - x.inspected)
  /\ Follows(x.scenes, Catalog, x.inspected, 1..Len(x.scenes))
  /\ Len(x.found) = Len(x.scenes)
  /\ \A n \in 1..Len(x.found) :
       x.found[n] # NoAnswer =>
         (x.found[n] = (x.config.availability = "IN_LIBRARY") <=> Belongs(st, r, x.scenes[n]))

\* What the rail shows in the end: the first of all that may be inspected.
Wanted(st, r, n) == Take(KeptOf(st, r, Inspectable), n)

HybridInv ==
  /\ rail \in Rail!Rails /\ ready \in [catalog : BOOLEAN, stash : BOOLEAN]
  /\ stash \in [Scanned -> {"absent", "local", "favorite"}]
  /\ scan \in ScanType /\ content \in ContentType
  /\ scan.config = Rail!Normalize(rail)
  /\ Len(scan.matched) <= Rail!Target /\ scan.inspected <= Inspectable
  /\ scan.taken <= Len(scan.scenes)
  /\ content.pc \in {"candidates", "lookups"} =>
       PageBegins(scan) /\ scan.matched = KeptOf(stash, rail, scan.inspected)
  /\ content.pc = "lookups" => LookupsOK(scan, stash, rail)
  /\ content.pc = "statuses" => scan.matched = Wanted(stash, rail, Rail!Target)
  /\ content.pc = "done" /\ content.message = "none" =>
       content.items = Wanted(stash, rail, Limit)

LEMMA NormalizeOK ==
  ASSUME NEW r \in Rail!Rails
  PROVE  /\ Rail!Normalize(r) \in [availability : Rail!LegacyAvailability, favoritesOnly : BOOLEAN]
         /\ Rail!Normalize(r).availability = "IN_LIBRARY" <=> r.availability = "IN_LIBRARY"
         /\ Rail!Normalize(r).favoritesOnly <=> r.availability = "IN_LIBRARY" /\ r.favoritesOnly
<1>1. /\ r.availability \in {"IN_LIBRARY", "MISSING_FROM_LIBRARY", "unset"}
      /\ r.favoritesOnly \in BOOLEAN
  BY DEF Rail!Rails, Rail!LegacyAvailability
<1> QED
  BY <1>1 DEF Rail!Normalize, Rail!LegacyAvailability

LEMMA InspectableOK ==
  /\ Inspectable \in Nat /\ Inspectable <= Len(Catalog) /\ Inspectable <= Rail!MaxInspected
  /\ Len(Catalog) \in Nat
BY HybridConstants DEF Inspectable, Rail!Fewer

LEMMA NoScanOK ==
  ASSUME rail \in Rail!Rails
  PROVE  LET x == Rail!NoScan
         IN /\ x \in ScanType /\ x.config = Rail!Normalize(rail) /\ Len(x.matched) <= Rail!Target
            /\ x.inspected <= Inspectable /\ x.taken <= Len(x.scenes)
            /\ PageBegins(x) /\ x.matched = KeptOf(stash, rail, x.inspected)
<1>1. Rail!NoScan \in ScanType
  BY NormalizeOK DEF Rail!NoScan, ScanType
<1>2. PageBegins(Rail!NoScan)
  BY HybridConstants DEF Rail!NoScan, PageBegins
<1>3. KeptOf(stash, rail, 0) = <<>>
  BY KeptNone
<1> QED
  BY <1>1, <1>2, <1>3, HybridConstants, InspectableOK DEF Rail!NoScan

LEMMA HybridInit == Rail!Init => HybridInv
<1> SUFFICES ASSUME Rail!Init PROVE HybridInv
  OBVIOUS
<1>1. /\ stash \in [Scanned -> {"absent", "local", "favorite"}] /\ rail \in Rail!Rails
      /\ ready \in [catalog : BOOLEAN, stash : BOOLEAN] /\ scan = Rail!NoScan
      /\ content = [pc |-> "start", message |-> "none", items |-> <<>>]
  BY DEF Rail!Init, Scanned
<1>2. content \in ContentType /\ content.pc = "start"
  BY <1>1 DEF ContentType
<1> QED
  BY <1>1, <1>2, NoScanOK DEF HybridInv

LEMMA HybridKept == HybridInv /\ UNCHANGED <<stash, rail, ready, scan, content>> => HybridInv'
BY DEF HybridInv, LookupsOK, PageBegins, Wanted

LEMMA StartHybrid == HybridInv /\ Rail!StartContent => HybridInv'
<1> SUFFICES ASSUME HybridInv, Rail!StartContent PROVE HybridInv'
  OBVIOUS
<1>1. scan' = Rail!NoScan /\ UNCHANGED <<stash, rail, ready>>
  BY DEF Rail!StartContent
<1>2. /\ content' \in ContentType /\ content'.pc \in {"candidates", "done"}
      /\ content'.pc = "done" => content'.message # "none"
  BY DEF Rail!StartContent, HybridInv, ContentType
<1> QED
  BY <1>1, <1>2, NoScanOK DEF HybridInv, PageBegins

LEMMA FailHybrid == HybridInv /\ Rail!RequestFails => HybridInv'
<1> SUFFICES ASSUME HybridInv, Rail!RequestFails PROVE HybridInv'
  OBVIOUS
<1>1. UNCHANGED <<stash, rail, ready, scan>>
  BY DEF Rail!RequestFails
<1>2. content' \in ContentType /\ content'.pc = "done" /\ content'.message # "none"
  BY DEF Rail!RequestFails, HybridInv, ContentType
<1> QED
  BY <1>1, <1>2 DEF HybridInv

LEMMA ShowHybrid == HybridInv /\ Rail!ShowItems => HybridInv'
<1> SUFFICES ASSUME HybridInv, Rail!ShowItems PROVE HybridInv'
  OBVIOUS
<1>1. UNCHANGED <<stash, rail, ready, scan>> /\ scan.matched \in Seq(Scanned)
  BY DEF Rail!ShowItems, HybridInv, ScanType
<1>2. content' = [pc |-> "done", message |-> "none", items |-> Take(scan.matched, Limit)]
  BY DEF Rail!ShowItems, Take
<1>3. Take(scan.matched, Limit) \in Seq(Scanned)
  BY <1>1, TakeOK, HybridConstants
<1>4. content' \in ContentType
  BY <1>2, <1>3 DEF ContentType
<1>5. Take(scan.matched, Limit) = Wanted(stash, rail, Limit)
  <2>1. scan.matched = Take(KeptOf(stash, rail, Inspectable), Rail!Target)
    BY DEF HybridInv, Wanted, Rail!ShowItems
  <2>2. KeptOf(stash, rail, Inspectable) \in Seq(Scanned)
    <3>1. Inspectable \in Nat /\ 0 \in Nat /\ Inspectable + 0 <= Len(Catalog)
      BY InspectableOK
    <3>2. Follows(<<>>, Catalog, Inspectable, 1..0)
      BY DEF Follows
    <3> QED
      BY <3>1, <3>2, KeptFurther DEF Continued, Scanned
  <2>3. Limit \in Nat /\ Rail!Target \in Nat /\ Limit <= Rail!Target
    BY HybridConstants
  <2> QED
    BY <2>1, <2>2, <2>3, TakeOfTake DEF Wanted
<1> QED
  BY <1>1, <1>2, <1>4, <1>5 DEF HybridInv

\* Whether a scene that is looked up belongs.
LEMMA InLibraryOK ==
  ASSUME HybridInv, NEW s \in Scanned
  PROVE  /\ Rail!InLibrary(s, scan.config) \in BOOLEAN
         /\ Rail!InLibrary(s, scan.config) = (scan.config.availability = "IN_LIBRARY")
              <=> Belongs(stash, rail, s)
<1> DEFINE c == scan.config
<1>1. /\ rail.availability \in {"IN_LIBRARY", "MISSING_FROM_LIBRARY", "unset"}
      /\ c.availability = "IN_LIBRARY" <=> rail.availability = "IN_LIBRARY"
      /\ c.favoritesOnly <=> rail.availability = "IN_LIBRARY" /\ rail.favoritesOnly
  BY NormalizeOK DEF HybridInv, Rail!Rails, Rail!LegacyAvailability
<1>2. stash[s] \in {"absent", "local", "favorite"}
  BY DEF HybridInv
<1>3. Rail!InLibrary(s, c) = IF c.favoritesOnly THEN stash[s] = "favorite" ELSE stash[s] # "absent"
  BY DEF Rail!InLibrary
<1> HIDE DEF c
<1>4. Rail!InLibrary(s, c) \in BOOLEAN
  BY <1>3, Zenon
<1>5. CASE rail.availability = "IN_LIBRARY"
  <2>1. c.availability = "IN_LIBRARY" /\ (c.favoritesOnly <=> rail.favoritesOnly)
    BY <1>1, <1>5
  <2>2. Rail!InLibrary(s, c) <=> Belongs(stash, rail, s)
    BY <1>2, <1>3, <1>5, <2>1 DEF Belongs
  <2> QED
    BY <1>4, <2>1, <2>2, Zenon DEF c
<1>6. CASE rail.availability # "IN_LIBRARY"
  <2>1. c.availability # "IN_LIBRARY" /\ ~c.favoritesOnly
    BY <1>1, <1>6
  <2>2. Rail!InLibrary(s, c) <=> ~Belongs(stash, rail, s)
    BY <1>2, <1>3, <1>6, <2>1 DEF Belongs
  <2> QED
    BY <1>4, <2>1, <2>2, Zenon DEF c
<1> QED
  BY <1>5, <1>6

LEMMA ReadHybrid == HybridInv /\ Rail!ReadCandidates => HybridInv'
<1> SUFFICES ASSUME HybridInv, Rail!ReadCandidates PROVE HybridInv'
  OBVIOUS
<1> DEFINE page == Rail!CandidatePage(scan.page)
           P == Rail!CandidatePageSize
           scenes == Take(page, Rail!MaxInspected - scan.inspected)
           found == [n \in DOMAIN scenes |-> NoAnswer]
           taken == Rail!Fewer(LOOKUP_CONCURRENCY, Len(scenes))
<1>1. /\ content.pc = "candidates" /\ PageBegins(scan) /\ scan \in ScanType
      /\ scan.inspected <= Inspectable
      /\ content' = [content EXCEPT !.pc = "lookups"] /\ UNCHANGED <<stash, rail, ready>>
  BY DEF Rail!ReadCandidates, HybridInv
<1>2. /\ page \in Seq(Scanned) /\ Len(page) = Rail!Fewer(P, Len(Catalog) - scan.inspected)
      /\ Follows(page, Catalog, scan.inspected, 1..Len(page))
  <2>1. scan.page \in Nat \ {0} /\ scan.inspected = (scan.page - 1) * P
        /\ (scan.page = 1 \/ (scan.page - 1) * P < Len(Catalog))
    BY <1>1 DEF PageBegins, ScanType
  <2> QED
    BY <2>1, PageOfCatalog, Zenon DEF Scanned
<1>3. scan.inspected \in Nat /\ Rail!MaxInspected - scan.inspected \in Nat
  BY <1>1, InspectableOK, HybridConstants DEF ScanType
<1> HIDE DEF page
<1>4. /\ scenes \in Seq(Scanned)
      /\ Len(scenes) = Rail!Fewer(Rail!MaxInspected - scan.inspected, Len(page))
      /\ Len(scenes) <= Len(page)
      /\ \A n \in 1..Len(scenes) : scenes[n] = page[n]
  BY <1>2, <1>3, TakeOK DEF Rail!Fewer
<1>5. scan' = [scan EXCEPT !.scenes = scenes, !.found = found, !.taken = taken]
  <2>1. Rail!Fewer(Len(page), Rail!MaxInspected - scan.inspected)
          = Rail!Fewer(Rail!MaxInspected - scan.inspected, Len(page))
    BY <1>2, <1>3 DEF Rail!Fewer
  <2> QED
    BY <2>1 DEF Rail!ReadCandidates, page, Take
<1> HIDE DEF scenes
<1>6. found \in Seq(BOOLEAN \cup {NoAnswer}) /\ Len(found) = Len(scenes)
      /\ \A n \in 1..Len(found) : found[n] = NoAnswer
  BY <1>4
<1>7. taken \in Nat /\ taken <= Len(scenes)
  BY <1>4, HybridConstants DEF Rail!Fewer
<1> HIDE DEF found, taken
<1>8. /\ scan' \in ScanType
      /\ scan'.scenes = scenes /\ scan'.found = found /\ scan'.taken = taken
      /\ scan'.page = scan.page /\ scan'.inspected = scan.inspected
      /\ scan'.matched = scan.matched /\ scan'.config = scan.config
  BY <1>1, <1>4, <1>5, <1>6, <1>7 DEF ScanType
<1>9. content' \in ContentType /\ content'.pc = "lookups"
  BY <1>1 DEF HybridInv, ContentType
<1>10. LookupsOK(scan', stash, rail)
  <2>1. Len(scenes) = Rail!Fewer(Rail!Fewer(P, Len(Catalog) - scan.inspected),
                                 Rail!MaxInspected - scan.inspected)
    BY <1>2, <1>3, <1>4 DEF Rail!Fewer
  <2>2. Follows(scenes, Catalog, scan.inspected, 1..Len(scenes))
    BY <1>2, <1>4 DEF Follows
  <2> QED
    BY <1>6, <1>8, <2>1, <2>2 DEF LookupsOK
<1>11. PageBegins(scan') /\ scan'.matched = KeptOf(stash, rail, scan'.inspected)
  BY <1>1, <1>8 DEF HybridInv, PageBegins
<1> QED
  BY <1>1, <1>7, <1>8, <1>9, <1>10, <1>11 DEF HybridInv

LEMMA Replaced ==
  ASSUME NEW T, NEW f \in Seq(T), NEW n \in 1..Len(f), NEW v \in T
  PROVE  /\ [f EXCEPT ![n] = v] \in Seq(T) /\ Len([f EXCEPT ![n] = v]) = Len(f)
         /\ \A m \in 1..Len(f) : [f EXCEPT ![n] = v][m] = IF m = n THEN v ELSE f[m]
OBVIOUS

LEMMA LookupHybrid ==
  ASSUME NEW n, HybridInv, Rail!LookupAnswers(n)
  PROVE  HybridInv'
<1> DEFINE known == Rail!InLibrary(scan.scenes[n], scan.config)
           found == [scan.found EXCEPT ![n] = known]
           taken == Rail!Fewer(scan.taken + 1, Len(scan.scenes))
<1>1. /\ content.pc = "lookups" /\ n \in 1..scan.taken /\ scan.found[n] = NoAnswer
      /\ scan' = [scan EXCEPT !.found = found, !.taken = taken]
      /\ UNCHANGED <<stash, rail, ready, content>>
  BY DEF Rail!LookupAnswers
<1>2. /\ scan \in ScanType /\ PageBegins(scan) /\ LookupsOK(scan, stash, rail)
      /\ scan.taken \in Nat /\ scan.taken <= Len(scan.scenes) /\ Len(scan.scenes) \in Nat
      /\ scan.found \in Seq(BOOLEAN \cup {NoAnswer}) /\ Len(scan.found) = Len(scan.scenes)
  BY <1>1 DEF HybridInv, ScanType, LookupsOK
<1>3. n \in 1..Len(scan.scenes) /\ scan.scenes[n] \in Scanned
  BY <1>1, <1>2 DEF ScanType
<1>4. /\ known \in BOOLEAN
      /\ known = (scan.config.availability = "IN_LIBRARY")
           <=> Belongs(stash, rail, scan.scenes[n])
  BY <1>3, InLibraryOK
<1> HIDE DEF known
<1>5. found \in Seq(BOOLEAN \cup {NoAnswer}) /\ Len(found) = Len(scan.scenes)
      /\ \A m \in 1..Len(found) : found[m] = IF m = n THEN known ELSE scan.found[m]
  <2>1. known \in BOOLEAN \cup {NoAnswer} /\ n \in 1..Len(scan.found)
    BY <1>2, <1>3, <1>4, Zenon
  <2> QED
    BY <1>2, <2>1, Replaced
<1>6. taken \in Nat /\ taken <= Len(scan.scenes)
  BY <1>2 DEF Rail!Fewer
<1> HIDE DEF found, taken
<1>7. /\ scan' \in ScanType /\ scan'.found = found /\ scan'.taken = taken
      /\ scan'.scenes = scan.scenes
      /\ scan'.page = scan.page /\ scan'.inspected = scan.inspected
      /\ scan'.matched = scan.matched /\ scan'.config = scan.config
  BY <1>1, <1>2, <1>5, <1>6 DEF ScanType
<1>8. ASSUME NEW m \in 1..Len(found), found[m] # NoAnswer
      PROVE  found[m] = (scan.config.availability = "IN_LIBRARY")
               <=> Belongs(stash, rail, scan.scenes[m])
  <2>1. CASE m = n
    <3>1. found[m] = known
      BY <1>5, <2>1
    <3> QED
      BY <1>4, <2>1, <3>1, Zenon
  <2>2. CASE m # n
    <3>1. found[m] = scan.found[m] /\ m \in 1..Len(scan.found)
      BY <1>2, <1>5, <2>2
    <3> QED
      BY <1>2, <1>8, <3>1, Zenon DEF LookupsOK
  <2> QED
    BY <2>1, <2>2
<1>9. LookupsOK(scan', stash, rail)
  <2>1. /\ Len(scan.scenes)
             = Rail!Fewer(Rail!Fewer(Rail!CandidatePageSize, Len(Catalog) - scan.inspected),
                          Rail!MaxInspected - scan.inspected)
        /\ Follows(scan.scenes, Catalog, scan.inspected, 1..Len(scan.scenes))
    BY <1>2 DEF LookupsOK
  <2> QED
    BY <1>5, <1>7, <1>8, <2>1, Zenon DEF LookupsOK
<1>10. PageBegins(scan') /\ scan'.matched = KeptOf(stash, rail, scan'.inspected)
  BY <1>1, <1>2, <1>7 DEF HybridInv, PageBegins
<1> QED
  BY <1>1, <1>6, <1>7, <1>9, <1>10 DEF HybridInv

\* Enough is inspected of the catalog to know the first n that belong.
LEMMA WantedKnown ==
  ASSUME NEW st, NEW r, NEW a \in Nat, a <= Inspectable, NEW n \in Nat,
         a = Inspectable \/ Len(KeptOf(st, r, a)) >= n
  PROVE  Take(KeptOf(st, r, a), n) = Wanted(st, r, n)
<1> DEFINE b == Inspectable - a
           t == [k \in 1..b |-> Catalog[a + k]]
<1>1. CASE a = Inspectable
  BY <1>1 DEF Wanted
<1>2. CASE Len(KeptOf(st, r, a)) >= n
  <2>1. b \in Nat /\ a + b = Inspectable /\ a + b <= Len(Catalog)
    BY InspectableOK
  <2>2. Follows(t, Catalog, a, 1..b)
    BY DEF Follows
  <2> HIDE DEF b, t
  <2>3. Continued(st, r, a, b, t)
    BY <2>1, <2>2, KeptFurther
  <2> DEFINE x == KeptOf(st, r, a)
             y == Rail!Kept(t, Matches(st, r, a, b))
  <2>4. x \in Seq(Scanned) /\ y \in Seq(Scanned) /\ KeptOf(st, r, Inspectable) = x \o y
    BY <2>1, <2>3 DEF Continued, Scanned
  <2>5. n <= Len(x)
    BY <1>2, <2>4
  <2> HIDE DEF x, y
  <2>6. Take(x \o y, n) = Take(x, n)
    BY <2>4, <2>5, TakeOfAppend
  <2> QED
    BY <2>4, <2>6 DEF Wanted, x
<1> QED
  BY <1>1, <1>2

LEMMA EndHybrid == HybridInv /\ Rail!EndPage => HybridInv'
<1> SUFFICES ASSUME HybridInv, Rail!EndPage PROVE HybridInv'
  OBVIOUS
<1> DEFINE P == Rail!CandidatePageSize
           a == scan.inspected
           b == Len(scan.scenes)
           desired == scan.config.availability = "IN_LIBRARY"
           matches == {n \in DOMAIN scan.found : scan.found[n] = desired}
           kept == KeptOf(stash, rail, a + b)
           matched == Take(kept, Rail!Target)
<1>1. /\ content.pc = "lookups" /\ \A n \in DOMAIN scan.found : scan.found[n] # NoAnswer
      /\ scan' = [scan EXCEPT !.inspected = a + b,
                    !.matched = SubSeq(scan.matched \o Rail!Kept(scan.scenes, matches), 1,
                      Rail!Fewer(Len(scan.matched \o Rail!Kept(scan.scenes, matches)), Rail!Target)),
                    !.page = @ + 1]
      /\ content' = IF Len(Rail!CandidatePage(scan.page)) < P \/ ~Rail!Continues(scan')
                    THEN [content EXCEPT !.pc = "statuses"] ELSE [content EXCEPT !.pc = "candidates"]
      /\ UNCHANGED <<stash, rail, ready>>
  BY DEF Rail!EndPage
<1>2. /\ scan \in ScanType /\ PageBegins(scan) /\ LookupsOK(scan, stash, rail)
      /\ scan.matched = KeptOf(stash, rail, a)
      /\ a \in Nat /\ b \in Nat /\ scan.page \in Nat \ {0} /\ scan.found \in Seq(BOOLEAN \cup {NoAnswer})
      /\ a <= Inspectable /\ scan.taken <= b
  BY <1>1 DEF HybridInv, ScanType
<1>3. /\ P \in Nat \ {0} /\ Rail!MaxInspected \in Nat /\ Rail!Target \in Nat \ {0}
      /\ Inspectable = Rail!Fewer(Rail!MaxInspected, Len(Catalog)) /\ Len(Catalog) \in Nat
  BY HybridConstants, InspectableOK DEF Inspectable
<1>4. /\ a <= Len(Catalog) /\ a <= Rail!MaxInspected
      /\ b = Rail!Fewer(Rail!Fewer(P, Len(Catalog) - a), Rail!MaxInspected - a)
      /\ a + b <= Inspectable /\ a + b <= Len(Catalog)
  <2>1. b = Rail!Fewer(Rail!Fewer(P, Len(Catalog) - a), Rail!MaxInspected - a)
    BY <1>2 DEF LookupsOK
  <2> QED
    BY <1>2, <1>3, <2>1 DEF Rail!Fewer
<1>5. matches = Matches(stash, rail, a, b)
  <2>1. DOMAIN scan.found = 1..b
    BY <1>2 DEF LookupsOK
  <2>2. ASSUME NEW n \in 1..b
        PROVE  scan.found[n] = desired <=> Belongs(stash, rail, Catalog[a + n])
    <3>1. scan.scenes[n] = Catalog[a + n]
      BY <1>2, <2>2 DEF LookupsOK, Follows
    <3>2. n \in 1..Len(scan.found) /\ scan.found[n] # NoAnswer
      BY <1>1, <1>2, <2>1, <2>2
    <3> QED
      BY <1>2, <3>1, <3>2, Zenon DEF LookupsOK
  <2> HIDE DEF desired
  <2> QED
    BY <2>1, <2>2, Zenon DEF Matches
<1> HIDE DEF matches
<1>6. /\ kept \in Seq(Scanned) /\ kept = scan.matched \o Rail!Kept(scan.scenes, matches)
  <2>1. Follows(scan.scenes, Catalog, a, 1..b)
    BY <1>2 DEF LookupsOK
  <2>2. Continued(stash, rail, a, b, scan.scenes)
    BY <1>2, <1>4, <2>1, KeptFurther
  <2>3. kept = scan.matched \o Rail!Kept(scan.scenes, matches)
    BY <1>2, <1>5, <2>2 DEF Continued
  <2>4. KeptOf(stash, rail, a) \in Seq(Scanned) /\ Rail!Kept(scan.scenes, matches) \in Seq(Scanned)
    BY <1>5, <2>2 DEF Continued, Scanned
  <2>5. scan.matched \in Seq(Scanned)
    BY <1>2, <2>4
  <2> DEFINE y == Rail!Kept(scan.scenes, matches)
  <2>6. y \in Seq(Scanned)
    BY <2>4
  <2> HIDE DEF y, kept
  <2>7. scan.matched \o y \in Seq(Scanned)
    BY <2>5, <2>6
  <2> QED
    BY <2>3, <2>7 DEF y
<1> HIDE DEF kept
<1>7. /\ matched \in Seq(Scanned) /\ Len(matched) <= Rail!Target
      /\ Len(matched) = Rail!Fewer(Rail!Target, Len(kept)) /\ Len(kept) \in Nat
      /\ Len(kept) <= Rail!Target => matched = kept
  <2>1. kept \in Seq(Scanned) /\ Rail!Target \in Nat
    BY <1>3, <1>6, Zenon
  <2>2. Len(kept) \in Nat
    BY <2>1
  <2> QED
    BY <2>1, <2>2, TakeOK
<1>8. scan' = [scan EXCEPT !.inspected = a + b, !.matched = matched, !.page = scan.page + 1]
  <2>1. Rail!Fewer(Len(kept), Rail!Target) = Rail!Fewer(Rail!Target, Len(kept))
    BY <1>3, <1>7 DEF Rail!Fewer
  <2> QED
    BY <1>1, <1>6, <2>1 DEF Take
<1> HIDE DEF matched
<1>9. /\ scan' \in ScanType
      /\ scan'.page = scan.page + 1 /\ scan'.inspected = a + b /\ scan'.matched = matched
      /\ scan'.scenes = scan.scenes /\ scan'.found = scan.found /\ scan'.taken = scan.taken
      /\ scan'.config = scan.config
  <2>1. a + b \in Nat /\ scan.page + 1 \in Nat \ {0} /\ matched \in Seq(Scanned)
    BY <1>2, <1>7
  <2> HIDE DEF a, b
  <2> QED
    BY <1>2, <1>8, <2>1 DEF ScanType
<1>10. /\ (scan.page - 1) * P = a /\ ((scan.page + 1) - 1) * P = a + P
       /\ Len(Rail!CandidatePage(scan.page)) = Rail!Fewer(P, Len(Catalog) - a)
  <2>1. /\ scan.page \in Nat \ {0} /\ a = (scan.page - 1) * P
        /\ scan.page = 1 \/ (scan.page - 1) * P < Len(Catalog)
    BY <1>2 DEF PageBegins
  <2> QED
    BY <2>1, PageOfCatalog, Zenon
<1>11. Rail!Continues(scan') <=>
         /\ Len(matched) < Rail!Target /\ a + b < Rail!MaxInspected /\ a + P < Len(Catalog)
  <2>1. scan'.page # 1 /\ (scan'.page - 1) * P = a + P
    BY <1>2, <1>9, <1>10
  <2> QED
    BY <1>9, <2>1 DEF Rail!Continues
<1>12. CASE Len(Rail!CandidatePage(scan.page)) < P \/ ~Rail!Continues(scan')
  <2>1. content' \in ContentType /\ content'.pc = "statuses"
    BY <1>1, <1>12 DEF HybridInv, ContentType
  <2>2. a + b = Inspectable \/ Len(kept) >= Rail!Target
    <3> DEFINE L == Len(Catalog)
               M == Rail!MaxInspected
    <3>1. L \in Nat /\ M \in Nat /\ P \in Nat /\ a \in Nat /\ a <= L /\ a <= M
      BY <1>2, <1>3, <1>4
    <3>2. b = Rail!Fewer(Rail!Fewer(P, L - a), M - a) /\ Inspectable = Rail!Fewer(M, L)
      BY <1>3, <1>4
    <3>3. \/ Rail!Fewer(P, L - a) < P \/ Len(matched) >= Rail!Target
          \/ a + b >= M \/ a + P >= L
      <4>1. Len(matched) \in Nat /\ Rail!Target \in Nat /\ a + b \in Nat /\ a + P \in Nat
        BY <1>2, <1>3, <1>7
      <4> QED
        BY <1>10, <1>11, <1>12, <3>1, <4>1
    <3>4. CASE Len(matched) >= Rail!Target
      BY <1>3, <1>7, <3>4 DEF Rail!Fewer
    <3> HIDE DEF L, M, P, a, b
    <3>5. CASE Rail!Fewer(P, L - a) < P \/ a + b >= M \/ a + P >= L
      BY <3>1, <3>2, <3>5 DEF Rail!Fewer
    <3> QED
      BY <3>3, <3>4, <3>5
  <2>3. matched = Wanted(stash, rail, Rail!Target)
    BY <1>2, <1>3, <1>4, <2>2, WantedKnown DEF matched, kept
  <2> QED
    BY <1>1, <1>2, <1>4, <1>7, <1>9, <2>1, <2>3 DEF HybridInv
<1>13. CASE ~(Len(Rail!CandidatePage(scan.page)) < P) /\ Rail!Continues(scan')
  <2>1. content' \in ContentType /\ content'.pc = "candidates"
    BY <1>1, <1>13 DEF HybridInv, ContentType
  <2>2. b = P
    BY <1>2, <1>3, <1>4, <1>10, <1>11, <1>13 DEF Rail!Fewer
  <2>3. matched = kept
    BY <1>3, <1>7, <1>11, <1>13 DEF Rail!Fewer
  <2>4. PageBegins(scan')
    BY <1>9, <1>10, <1>11, <1>13, <2>2 DEF PageBegins
  <2>5. scan'.matched = KeptOf(stash, rail, scan'.inspected)
    BY <1>9, <2>3 DEF kept
  <2> QED
    BY <1>1, <1>2, <1>4, <1>7, <1>9, <2>1, <2>4, <2>5 DEF HybridInv
<1> QED
  BY <1>12, <1>13

LEMMA HybridNext == HybridInv /\ Rail!Next => HybridInv'
<1> SUFFICES ASSUME HybridInv, Rail!Next PROVE HybridInv'
  OBVIOUS
<1>1. CASE \E n \in DOMAIN scan.found : Rail!LookupAnswers(n)
  BY <1>1, LookupHybrid
<1> QED
  BY <1>1, StartHybrid, ReadHybrid, EndHybrid, FailHybrid, ShowHybrid DEF Rail!Next

LEMMA HybridImplies == HybridInv => Rail!TypeOK /\ Rail!RailShowsFirstMatches
<1> SUFFICES ASSUME HybridInv PROVE Rail!TypeOK /\ Rail!RailShowsFirstMatches
  OBVIOUS
<1>1. Rail!TypeOK
  <2>1. /\ rail \in Rail!Rails /\ content \in ContentType /\ scan \in ScanType
        /\ Len(scan.matched) <= Rail!Target /\ scan.inspected <= Inspectable
        /\ scan.taken <= Len(scan.scenes)
    BY DEF HybridInv
  <2>2. scan.inspected \in Nat
    BY <2>1 DEF ScanType
  <2>3. scan.inspected <= Rail!MaxInspected
    BY <2>1, <2>2, InspectableOK, HybridConstants
  <2> QED
    BY <2>1, <2>3 DEF Rail!TypeOK, ContentType
<1>2. ASSUME content.pc = "done" /\ content.message = "none"
      PROVE  Rail!RailShowsFirstMatches
  <2> DEFINE all == KeptOf(stash, rail, Inspectable)
  <2>1. content.items = SubSeq(all, 1, Rail!Fewer(Limit, Len(all)))
    BY <1>2 DEF HybridInv, Wanted, Take
  <2> QED
    BY <2>1 DEF Rail!RailShowsFirstMatches, KeptOf, FirstOnes, Belongs, Inspectable
<1> QED
  BY <1>1, <1>2 DEF Rail!RailShowsFirstMatches

-----------------------------------------------------------------------------
(* The scenes page. *)

\* The filters are where the navigation leads, and what the user chose last.
ScenesAddress ==
  /\ navigation = NoNavigation =>
       url = SceneList!UrlOf(selection) /\ (~overruled => selection = chosen)
  /\ navigation # NoNavigation /\ ~overruled => navigation.params = chosen

ScenesList ==
  LET query == SceneList!Query(selection)
  IN ListOf(feed, SceneList!Queries, {query}, SceneList!TheList(query), 1)

ScenesInv ==
  /\ selection \in SceneList!Selections /\ chosen \in SceneList!Selections
  /\ url \in SceneList!Urls /\ navigation \in SceneList!Urls \cup {NoNavigation}
  /\ intersecting \in BOOLEAN /\ open \in BOOLEAN /\ overruled \in BOOLEAN
  /\ ScenesAddress
  /\ ScenesList

LEMMA ScenesConstants ==
  /\ DefaultFilter \in Filters /\ IsFiniteSet(SceneTags) /\ LastPage \in Nat \ {0}
  /\ NoRequest \notin Feed!RequestsFor(SceneList!Queries) /\ NoNavigation \notin SceneList!Urls
BY Zenon, PagesAssumption DEF SceneList!ScenesPageAssumption, SceneList!IsFiniteSet, IsFiniteSet,
   SceneList!RequestsFor, Feed!RequestsFor

\* The page's lists are those of FeedControl.
LEMMA ScenesFeed ==
  ASSUME NEW f, NEW q, NEW ans, NEW more, NEW seen
  PROVE  /\ SceneList!NewFeed = Feed!NewFeed
         /\ SceneList!LoadNextPage(f, q) = Feed!LoadNextPage(f, q)
         /\ SceneList!ResetFeedAndReload(f, q) = Feed!ResetFeedAndReload(f, q)
         /\ SceneList!Answered(f, ans, more, q, seen) = Feed!Answered(f, ans, more, q, seen)
         /\ SceneList!Failed(f, q, seen) = Feed!Failed(f, q, seen)
         /\ SceneList!FeedOK(f) <=> Feed!FeedOK(f)
BY Zenon DEF SceneList!NewFeed, SceneList!LoadNextPage, SceneList!ResetFeedAndReload,
   SceneList!Answered, SceneList!Failed, SceneList!Finalize, SceneList!FeedOK,
   Feed!NewFeed, Feed!LoadNextPage, Feed!ResetFeedAndReload,
   Feed!Answered, Feed!Failed, Feed!Finalize, Feed!FeedOK

LEMMA TagListsOK ==
  /\ <<>> \in SceneList!TagLists
  /\ \A s \in SceneList!TagLists : SceneList!Range(s) \subseteq SceneTags
<1>1. Cardinality(SceneTags) \in Nat
  BY ScenesConstants, FS_CardinalityType
<1>2. <<>> \in [1..0 -> SceneTags]
  OBVIOUS
<1>3. SceneList!Cardinality(SceneTags) = Cardinality(SceneTags)
  BY Zenon DEF SceneList!Cardinality, Cardinality
<1>6. <<>> \in SceneList!Injection(1..0, SceneTags)
  BY <1>2 DEF SceneList!Injection, SceneList!IsInjective
<1>5. ASSUME NEW s \in SceneList!TagLists PROVE SceneList!Range(s) \subseteq SceneTags
  <2>1. PICK m \in 0..SceneList!Cardinality(SceneTags) : s \in [1..m -> SceneTags]
    BY DEF SceneList!TagLists, SceneList!Injection
  <2> QED
    BY <2>1 DEF SceneList!Range
<1> QED
  BY <1>1, <1>3, <1>6, <1>5 DEF SceneList!TagLists

LEMMA NoneOfNone ==
  ASSUME NEW s \in SceneList!TagLists, NEW t \in SceneList!TagLists,
         SceneList!Range(s) = SceneList!Range(t)
  PROVE  s = <<>> <=> t = <<>>
<1>1. ASSUME NEW x \in SceneList!TagLists PROVE x = <<>> <=> SceneList!Range(x) = {}
  <2>1. PICK m \in 0..SceneList!Cardinality(SceneTags) : x \in [1..m -> SceneTags]
    BY DEF SceneList!TagLists, SceneList!Injection
  <2>2. SceneList!Cardinality(SceneTags) \in Nat
    BY ScenesConstants, FS_CardinalityType, Zenon DEF SceneList!Cardinality, Cardinality
  <2>3. x \in Seq(SceneTags) /\ Len(x) = m
    BY <2>1, <2>2
  <2>4. CASE m = 0
    <3>1. x = <<>> /\ DOMAIN x = {}
      BY <2>1, <2>4
    <3> QED
      BY <3>1 DEF SceneList!Range
  <2>5. CASE m # 0
    <3>1. 1 \in DOMAIN x /\ x # <<>>
      BY <2>1, <2>2, <2>3, <2>5
    <3> QED
      BY <3>1 DEF SceneList!Range
  <2> QED
    BY <2>4, <2>5
<1> QED
  BY <1>1

LEMMA QueryOK ==
  ASSUME NEW s \in SceneList!Selections
  PROVE  SceneList!Query(s) \in SceneList!Queries
<1>1. SceneList!Range(s.tags) \in SUBSET SceneTags
  BY TagListsOK DEF SceneList!Selections
<1> QED
  BY <1>1 DEF SceneList!Query, SceneList!Queries, SceneList!Selections

LEMMA TheListOK ==
  ASSUME NEW q
  PROVE  LET list == SceneList!TheList(q)
         IN /\ list \in Seq({[query |-> q, page |-> n] : n \in 1..LastPage})
            /\ Len(list) = LastPage
            /\ \A n \in 1..LastPage : list[n] = [query |-> q, page |-> n]
BY ScenesConstants DEF SceneList!TheList

\* A list that is started anew is the one of its filters.
LEMMA ScenesReset ==
  ASSUME NEW f, FeedInv(f, SceneList!Queries) \/ f = Feed!NewFeed, NEW s \in SceneList!Selections
  PROVE  LET q == SceneList!Query(s)
         IN ListOf(SceneList!ResetFeedAndReload(f, q), SceneList!Queries, {q},
                   SceneList!TheList(q), 1)
<1> DEFINE q == SceneList!Query(s)
           list == SceneList!TheList(q)
<1>1. q \in SceneList!Queries
  BY QueryOK
<1>2. SceneList!ResetFeedAndReload(f, q) = Feed!ResetFeedAndReload(f, q)
  BY ScenesFeed
<1>3. list \in Seq({[query |-> q, page |-> n] : n \in 1..LastPage})
  BY TheListOK, Zenon
<1> HIDE DEF q, list
<1>4. ListOf(Feed!ResetFeedAndReload(f, q), SceneList!Queries, {q}, list, 1)
  <2>1. q \in SceneList!Queries \cap {q} /\ 1 \in Nat \ {0}
    BY <1>1
  <2>2. PICK S : list \in Seq(S)
    BY <1>3
  <2> QED
    BY <2>1, <2>2, ScenesConstants, ListReset
<1> QED
  BY <1>2, <1>4 DEF q, list

\* A step that leaves the filters and the address alone.
LEMMA ScenesListStep ==
  ASSUME ScenesInv, UNCHANGED <<selection, url, navigation, chosen, overruled>>,
         intersecting' \in BOOLEAN, open' \in BOOLEAN,
         LET q == SceneList!Query(selection)
         IN ListOf(feed', SceneList!Queries, {q}, SceneList!TheList(q), 1)
  PROVE  ScenesInv'
<1>1. ScenesAddress'
  BY DEF ScenesInv, ScenesAddress
<1>2. ScenesList'
  BY DEF ScenesList
<1> QED
  BY <1>1, <1>2 DEF ScenesInv

LEMMA ScenesKept == ScenesInv /\ UNCHANGED <<PageVars, ScenesVars>> => ScenesInv'
BY DEF ScenesInv, ScenesAddress, ScenesList, PageVars, ScenesVars

\* A choice, with the list started anew or one that the choice leaves alone.
LEMMA ChosenOK ==
  ASSUME ScenesInv, NEW s \in SceneList!Selections, SceneList!Chosen(s),
         UNCHANGED <<url, intersecting, open>>,
         \/ feed' = SceneList!ResetFeedAndReload(feed, SceneList!Query(s))
         \/ feed' = feed /\ SceneList!Query(s) = SceneList!Query(selection)
  PROVE  ScenesInv'
<1>1. /\ selection' = s /\ chosen' = s
      /\ navigation' = IF url = SceneList!UrlOf(s) THEN navigation ELSE SceneList!UrlOf(s)
      /\ overruled' = (url = SceneList!UrlOf(s) /\ navigation # NoNavigation)
  BY DEF SceneList!Chosen, SceneList!SyncUrlWithCurrentFilters
<1>2. SceneList!UrlOf(s) \in SceneList!Urls /\ SceneList!UrlOf(s).params = s
  BY DEF SceneList!UrlOf, SceneList!Urls
<1>3. SceneList!UrlOf(s) # NoNavigation
  BY <1>2, ScenesConstants
<1>4. ScenesAddress'
  BY <1>1, <1>2, <1>3 DEF ScenesAddress
<1>5. ScenesList'
  <2>1. CASE feed' = SceneList!ResetFeedAndReload(feed, SceneList!Query(s))
    BY <1>1, <2>1, ScenesReset DEF ScenesInv, ScenesList, ListOf
  <2>2. CASE feed' = feed /\ SceneList!Query(s) = SceneList!Query(selection)
    BY <1>1, <2>2 DEF ScenesInv, ScenesList
  <2> QED
    BY <2>1, <2>2
<1> QED
  BY <1>1, <1>2, <1>4, <1>5 DEF ScenesInv

LEMMA ScenesChoicesOK ==
  ASSUME ScenesInv,
         \/ \E v \in Filters : SceneList!OnFilterChanged(v)
         \/ \E tags \in SceneList!TagLists : SceneList!OnTagSelectionChanged(tags)
         \/ \E mode \in {"OR", "AND"} : SceneList!OnTagMatchModeChanged(mode)
         \/ SceneList!ResetFilters
  PROVE  ScenesInv'
<1>1. ASSUME NEW v \in Filters, SceneList!OnFilterChanged(v) PROVE ScenesInv'
  <2> DEFINE s == [selection EXCEPT !.filter = v]
  <2>1. s \in SceneList!Selections
    BY DEF ScenesInv, SceneList!Selections
  <2>2. /\ SceneList!Chosen(s) /\ feed' = SceneList!ResetFeedAndReload(feed, SceneList!Query(s))
        /\ UNCHANGED <<url, intersecting, open>>
    BY <1>1 DEF SceneList!OnFilterChanged
  <2> HIDE DEF s
  <2> QED
    BY <2>1, <2>2, ChosenOK
<1>2. ASSUME NEW tags \in SceneList!TagLists, SceneList!OnTagSelectionChanged(tags)
      PROVE  ScenesInv'
  <2> DEFINE s == [selection EXCEPT !.tags = tags]
             same == SceneList!Range(tags) = SceneList!Range(selection.tags)
  <2>1. s \in SceneList!Selections
    BY DEF ScenesInv, SceneList!Selections
  <2>2. /\ SceneList!Chosen(s)
        /\ feed' = IF same THEN feed ELSE SceneList!ResetFeedAndReload(feed, SceneList!Query(s))
        /\ UNCHANGED <<url, intersecting, open>>
    BY <1>2 DEF SceneList!OnTagSelectionChanged
  <2>3. same => SceneList!Query(s) = SceneList!Query(selection)
    <3>1. s.filter = selection.filter /\ s.tags = tags /\ s.mode = selection.mode
      BY DEF ScenesInv, SceneList!Selections
    <3>2. ASSUME same PROVE tags = <<>> <=> selection.tags = <<>>
      BY <3>2, NoneOfNone DEF ScenesInv, SceneList!Selections
    <3> QED
      BY <3>1, <3>2 DEF SceneList!Query
  <2> HIDE DEF s
  <2> QED
    BY <2>1, <2>2, <2>3, ChosenOK
<1>3. ASSUME NEW mode \in {"OR", "AND"}, SceneList!OnTagMatchModeChanged(mode) PROVE ScenesInv'
  <2> DEFINE s == [selection EXCEPT !.mode = mode]
  <2>1. s \in SceneList!Selections
    BY DEF ScenesInv, SceneList!Selections
  <2>2. /\ SceneList!Chosen(s)
        /\ feed' = IF s.tags # <<>> THEN SceneList!ResetFeedAndReload(feed, SceneList!Query(s))
                   ELSE feed
        /\ UNCHANGED <<url, intersecting, open>>
    BY <1>3 DEF SceneList!OnTagMatchModeChanged
  <2>3. s.filter = selection.filter /\ s.tags = selection.tags
    BY DEF ScenesInv, SceneList!Selections
  <2>4. s.tags = <<>> => SceneList!Query(s) = SceneList!Query(selection)
    BY <2>3 DEF SceneList!Query
  <2> HIDE DEF s
  <2> QED
    BY <2>1, <2>2, <2>4, ChosenOK
<1>4. CASE SceneList!ResetFilters
  <2>1. SceneList!Default \in SceneList!Selections
    BY TagListsOK, ScenesConstants DEF SceneList!Default, SceneList!Selections
  <2> QED
    BY <1>4, <2>1, ChosenOK DEF SceneList!ResetFilters
<1> QED
  BY <1>1, <1>2, <1>3, <1>4

\* The address is reached.
LEMMA ScenesNavigationOK ==
  ASSUME ScenesInv, SceneList!NavigationEnds
  PROVE  ScenesInv'
<1> DEFINE s == navigation.params
<1>1. /\ navigation # NoNavigation
      /\ url' = navigation /\ selection' = s
      /\ navigation' = IF navigation.legacy THEN SceneList!UrlOf(s) ELSE NoNavigation
      /\ feed' = IF s # selection THEN SceneList!ResetFeedAndReload(feed, SceneList!Query(s))
                 ELSE feed
      /\ UNCHANGED <<intersecting, open, chosen, overruled>>
  BY DEF SceneList!NavigationEnds, SceneList!ReadUrlState
<1>2. /\ navigation \in SceneList!Urls /\ s \in SceneList!Selections
      /\ ~navigation.legacy => navigation = SceneList!UrlOf(s)
  BY <1>1 DEF ScenesInv, SceneList!Urls, SceneList!UrlOf
<1>3. SceneList!UrlOf(s) \in SceneList!Urls /\ SceneList!UrlOf(s).params = s
  BY <1>2 DEF SceneList!UrlOf, SceneList!Urls
<1>4. SceneList!UrlOf(s) # NoNavigation
  BY <1>3, ScenesConstants
<1>5. ~overruled => s = chosen
  BY <1>1 DEF ScenesInv, ScenesAddress
<1>6. ScenesAddress'
  BY <1>1, <1>2, <1>3, <1>4, <1>5 DEF ScenesAddress
<1> HIDE DEF s
<1>7. ScenesList'
  BY <1>1, <1>2, ScenesReset DEF ScenesInv, ScenesList, ListOf
<1> QED
  BY <1>1, <1>2, <1>3, <1>6, <1>7 DEF ScenesInv

LEMMA BrowserNavigatesOK ==
  ASSUME ScenesInv, NEW u \in SceneList!Urls, SceneList!BrowserNavigates(u)
  PROVE  ScenesInv'
<1>1. /\ navigation' = u /\ chosen' = u.params /\ overruled' = FALSE
      /\ UNCHANGED <<feed, selection, url, intersecting, open>>
  BY DEF SceneList!BrowserNavigates, SceneList!ReadUrlState
<1>2. u.params \in SceneList!Selections /\ u # NoNavigation
  BY ScenesConstants DEF SceneList!Urls
<1>3. ScenesAddress'
  BY <1>1, <1>2 DEF ScenesAddress
<1> QED
  BY <1>1, <1>2, <1>3 DEF ScenesInv, ScenesList

LEMMA ScenesAnswersOK ==
  ASSUME ScenesInv, SceneList!FeedAnswers
  PROVE  ScenesInv'
<1> DEFINE q == SceneList!Query(selection)
           asked == feed.asked
           ans == <<[query |-> asked.query, page |-> asked.page]>>
           more == asked.page < LastPage
           list == SceneList!TheList(q)
<1>1. /\ asked # NoRequest
      /\ feed' = Feed!Answered(feed, ans, more, q, intersecting)
      /\ UNCHANGED <<selection, url, navigation, intersecting, open, chosen, overruled>>
  BY ScenesFeed DEF SceneList!FeedAnswers
<1>2. q \in SceneList!Queries
  BY QueryOK DEF ScenesInv
<1>3. ListOf(feed, SceneList!Queries, {q}, list, 1) /\ more \in BOOLEAN
  BY DEF ScenesInv, ScenesList
<1>4. /\ list \in Seq({[query |-> q, page |-> n] : n \in 1..LastPage}) /\ Len(list) = LastPage
      /\ \A n \in 1..LastPage : list[n] = [query |-> q, page |-> n]
  BY TheListOK, Zenon
<1> DEFINE g == Feed!Answered(feed, ans, more, q, intersecting)
<1> HIDE DEF q, list
<1>5. ~asked.stale => IsPage(ans, asked.page, list, 1) /\ (more <=> asked.page * 1 < Len(list))
  BY <1>1, <1>3, <1>4, ScenesConstants, OnePage
<1> HIDE DEF ans, more
<1>6. ListOf(g, SceneList!Queries, {q}, list, 1)
  <2>1. ~feed.asked.stale => /\ IsPage(ans, feed.asked.page, list, 1)
                             /\ more <=> feed.asked.page * 1 < Len(list)
    BY <1>5
  <2>2. feed.asked # NoRequest
    BY <1>1
  <2>3. PICK S : list \in Seq(S)
    BY <1>4
  <2>4. NoRequest \notin Feed!RequestsFor(SceneList!Queries) /\ 1 \in Nat \ {0}
    BY ScenesConstants
  <2> HIDE DEF asked
  <2> QED
    BY <1>2, <1>3, <2>1, <2>2, <2>3, <2>4, ListAnswered
<1> QED
  BY <1>1, <1>6, ScenesListStep DEF ScenesInv, q, list

LEMMA ScenesFailsOK ==
  ASSUME ScenesInv, SceneList!FeedFails
  PROVE  ScenesInv'
<1> DEFINE q == SceneList!Query(selection)
           list == SceneList!TheList(q)
<1>1. /\ feed.asked # NoRequest /\ feed' = Feed!Failed(feed, q, intersecting)
      /\ UNCHANGED <<selection, url, navigation, intersecting, open, chosen, overruled>>
  BY ScenesFeed DEF SceneList!FeedFails
<1>2. q \in SceneList!Queries /\ ListOf(feed, SceneList!Queries, {q}, list, 1)
  BY QueryOK DEF ScenesInv, ScenesList
<1> HIDE DEF q, list
<1>3. ListOf(feed', SceneList!Queries, {q}, list, 1)
  BY <1>1, <1>2, ScenesConstants, ListFailed
<1> QED
  BY <1>1, <1>3, ScenesListStep DEF ScenesInv, q, list

\* More is asked for, or nothing.
LEMMA ScenesMoreOK ==
  ASSUME ScenesInv,
         \/ SceneList!RetryInitialLoad \/ SceneList!RetryLoadMore \/ SceneList!NgOnDestroy
         \/ \E seen \in BOOLEAN : SceneList!Scrolls(seen)
  PROVE  ScenesInv'
<1> DEFINE q == SceneList!Query(selection)
           list == SceneList!TheList(q)
<1>1. /\ UNCHANGED <<selection, url, navigation, chosen, overruled>>
      /\ intersecting' \in BOOLEAN /\ open' \in BOOLEAN
      /\ feed' = Feed!LoadNextPage(feed, q) \/ feed' = feed
  BY ScenesFeed DEF ScenesInv, SceneList!RetryInitialLoad, SceneList!RetryLoadMore,
     SceneList!NgOnDestroy, SceneList!Scrolls
<1>2. q \in SceneList!Queries /\ ListOf(feed, SceneList!Queries, {q}, list, 1)
  BY QueryOK DEF ScenesInv, ScenesList
<1> HIDE DEF q, list
<1>3. ListOf(feed', SceneList!Queries, {q}, list, 1)
  BY <1>1, <1>2, ScenesConstants, ListMore
<1> QED
  BY <1>1, <1>3, ScenesListStep DEF q, list

LEMMA ScenesInit == SceneList!Init => ScenesInv
<1> SUFFICES ASSUME SceneList!Init PROVE ScenesInv
  OBVIOUS
<1>1. /\ url \in SceneList!Urls /\ selection = url.params /\ chosen = selection
      /\ navigation = IF url.legacy THEN SceneList!UrlOf(selection) ELSE NoNavigation
      /\ feed = SceneList!ResetFeedAndReload(Feed!NewFeed, SceneList!Query(selection))
      /\ intersecting = FALSE /\ open = TRUE /\ overruled = FALSE
  BY DEF SceneList!Init, SceneList!ReadUrlState, SceneList!NewFeed, Feed!NewFeed
<1>2. selection \in SceneList!Selections /\ (~url.legacy => url = SceneList!UrlOf(selection))
  BY <1>1 DEF SceneList!Urls, SceneList!UrlOf
<1>3. SceneList!UrlOf(selection) \in SceneList!Urls /\ SceneList!UrlOf(selection).params = selection
  BY <1>2 DEF SceneList!UrlOf, SceneList!Urls
<1>4. ScenesAddress
  BY <1>1, <1>2, <1>3, ScenesConstants DEF ScenesAddress
<1>5. ScenesList
  BY <1>1, <1>2, ScenesReset DEF ScenesList
<1> QED
  BY <1>1, <1>2, <1>3, <1>4, <1>5 DEF ScenesInv

LEMMA ScenesNext == ScenesInv /\ SceneList!Next => ScenesInv'
BY ScenesChoicesOK, ScenesMoreOK, ScenesNavigationOK, BrowserNavigatesOK, ScenesAnswersOK,
   ScenesFailsOK DEF SceneList!Next

LEMMA ScenesImplies == ScenesInv => SceneList!TypeOK /\ SceneList!FeedShowsSelection
<1> SUFFICES ASSUME ScenesInv PROVE SceneList!TypeOK /\ SceneList!FeedShowsSelection
  OBVIOUS
<1> DEFINE list == SceneList!TheList(SceneList!Query(selection))
<1>1. FeedInv(feed, SceneList!Queries) /\ ShowsFirst(feed, list, 1) /\ Len(list) = LastPage
  BY TheListOK DEF ScenesInv, ScenesList, ListOf
<1> HIDE DEF list
<1>2. /\ feed.page \in Nat /\ feed.page * 1 = feed.page
      /\ feed.page > 1 => (feed.page - 1) * 1 = feed.page - 1
  BY <1>1 DEF FeedInv, FeedTyped, Feed!FeedOK
<1>3. feed.items = SubSeq(list, 1, feed.page)
  <2>1. feed.page <= LastPage
    BY <1>1, <1>2, ScenesConstants DEF ShowsFirst
  <2>2. (IF feed.page < Len(list) THEN feed.page ELSE Len(list)) = feed.page
    BY <1>1, <1>2, <2>1, ScenesConstants
  <2> QED
    BY <1>1, <1>2, <2>2 DEF ShowsFirst, FirstOf
<1>4. feed.asked = NoRequest => feed.page > 0 \/ feed.error = "initial"
  BY <1>1 DEF FeedInv, Tells
<1>5. SceneList!FeedOK(feed)
  BY <1>1, ScenesFeed DEF FeedInv, FeedTyped
<1> QED
  BY <1>3, <1>4, <1>5 DEF ScenesInv, ScenesAddress, SceneList!TypeOK,
     SceneList!FeedShowsSelection, list

-----------------------------------------------------------------------------
(* The library page. *)

\* The selections that the library answers alike.
Alike(s) == {o \in Library!Selections : Library!Result(o) = Library!Result(s)}

LibraryList ==
  ~owed => ListOf(feed, Library!Selections, Alike(selection), Library!Result(selection), ListPageSize)

\* The term that waits, or was searched for last, is the one in the box.
TextWaits ==
  owed => IF timer = NoText THEN debounced = Library!Trimmed(selection.text)
          ELSE timer = Library!Trimmed(selection.text)

LibraryInv ==
  /\ selection \in Library!Selections
  /\ url \in Library!Urls /\ navigation \in Library!Urls \cup {NoNavigation}
  /\ {timer, debounced} \subseteq {Library!Trimmed(t) : t \in Library!Texts} \cup {NoText}
  /\ intersecting \in BOOLEAN /\ owed \in BOOLEAN
  /\ FeedInv(feed, Library!Selections)
  /\ LibraryList
  /\ TextWaits

LEMMA LibraryConstants ==
  /\ IsFiniteSet(LibraryTags) /\ IsFiniteSet(DOMAIN LocalScenes) /\ ListPageSize \in Nat \ {0}
  /\ NoRequest \notin Feed!RequestsFor(Library!Selections)
  /\ NoNavigation \notin Library!Urls /\ NoText \notin Library!Texts
  /\ LibraryLinks \subseteq Library!Urls
BY Zenon, PagesAssumption DEF Library!LibraryPageAssumption, Library!LinksAssumption,
   Library!IsFiniteSet, IsFiniteSet, Library!RequestsFor, Feed!RequestsFor

\* The page's lists are those of FeedControl.
LEMMA LibraryFeed ==
  ASSUME NEW f, NEW q, NEW ans, NEW more, NEW seen
  PROVE  /\ Library!NewFeed = Feed!NewFeed
         /\ Library!LoadNextPage(f, q) = Feed!LoadNextPage(f, q)
         /\ Library!ResetFeedAndReload(f, q) = Feed!ResetFeedAndReload(f, q)
         /\ Library!Answered(f, ans, more, q, seen) = Feed!Answered(f, ans, more, q, seen)
         /\ Library!Failed(f, q, seen) = Feed!Failed(f, q, seen)
         /\ Library!FeedOK(f) <=> Feed!FeedOK(f)
BY Zenon DEF Library!NewFeed, Library!LoadNextPage, Library!ResetFeedAndReload,
   Library!Answered, Library!Failed, Library!Finalize, Library!FeedOK,
   Feed!NewFeed, Feed!LoadNextPage, Feed!ResetFeedAndReload,
   Feed!Answered, Feed!Failed, Feed!Finalize, Feed!FeedOK

LEMMA BlankGone ==
  ASSUME NEW w, NEW b, NEW c
  PROVE  [[word |-> w, blank |-> b] EXCEPT !.blank = c] = [word |-> w, blank |-> c]
OBVIOUS

LEMMA TextsOK ==
  ASSUME NEW t \in Library!Texts
  PROVE  /\ Library!Trimmed(t) = [word |-> t.word, blank |-> FALSE]
         /\ Library!Trimmed(t) \in Library!Texts /\ Library!Trimmed(t) # NoText
<1>1. t = [word |-> t.word, blank |-> t.blank] /\ t.word \in Words \cup {""}
  BY DEF Library!Texts
<1>2. Library!Trimmed(t) = [word |-> t.word, blank |-> FALSE]
  <2>1. PICK w, b : t = [word |-> w, blank |-> b]
    BY <1>1
  <2>2. [t EXCEPT !.blank = FALSE] = [word |-> w, blank |-> FALSE]
    BY <2>1, BlankGone, Zenon
  <2>3. t.word = w
    BY <2>1
  <2> QED
    BY <2>2, <2>3 DEF Library!Trimmed
<1>3. [word |-> t.word, blank |-> FALSE] \in Library!Texts
  BY <1>1 DEF Library!Texts
<1> QED
  BY <1>2, <1>3, LibraryConstants

LEMMA LibraryTagLists ==
  ASSUME NEW s \in Library!TagLists, NEW t \in Library!TagLists,
         Library!Range(s) = Library!Range(t)
  PROVE  s = <<>> <=> t = <<>>
<1>1. ASSUME NEW x \in Library!TagLists PROVE x = <<>> <=> Library!Range(x) = {}
  <2>1. PICK m \in 0..Library!Cardinality(LibraryTags) : x \in [1..m -> LibraryTags]
    BY DEF Library!TagLists, Library!Injection
  <2>2. Library!Cardinality(LibraryTags) \in Nat
    BY LibraryConstants, FS_CardinalityType, Zenon DEF Library!Cardinality, Cardinality
  <2>3. x \in Seq(LibraryTags) /\ Len(x) = m
    BY <2>1, <2>2
  <2>4. CASE m = 0
    <3>1. x = <<>> /\ DOMAIN x = {}
      BY <2>1, <2>4
    <3> QED
      BY <3>1 DEF Library!Range
  <2>5. CASE m # 0
    <3>1. 1 \in DOMAIN x /\ x # <<>>
      BY <2>1, <2>2, <2>3, <2>5
    <3> QED
      BY <3>1 DEF Library!Range
  <2> QED
    BY <2>4, <2>5
<1> QED
  BY <1>1

LEMMA NoLibraryTags == <<>> \in Library!TagLists
<1>1. Library!Cardinality(LibraryTags) = Cardinality(LibraryTags) /\ Cardinality(LibraryTags) \in Nat
  BY LibraryConstants, FS_CardinalityType, Zenon DEF Library!Cardinality, Cardinality
<1>2. <<>> \in [1..0 -> LibraryTags]
  OBVIOUS
<1>3. <<>> \in Library!Injection(1..0, LibraryTags)
  BY <1>2 DEF Library!Injection, Library!IsInjective
<1> QED
  BY <1>1, <1>3 DEF Library!TagLists

LEMMA LibraryResult ==
  ASSUME NEW q
  PROVE  \E S : Library!Result(q) \in Seq(S)
<1> DEFINE found == {r \in DOMAIN LocalScenes : Library!Matches(r, q)}
           n == Library!Cardinality(found)
           row(i) == CHOOSE r \in found :
             Library!Cardinality({s \in found : Library!Precedes(q.direction, s, r)}) = i - 1
<1>1. n \in Nat
  <2>1. IsFiniteSet(found)
    BY LibraryConstants, FS_Subset
  <2>2. n = Cardinality(found)
    BY Zenon DEF Library!Cardinality, Cardinality
  <2> QED
    BY <2>1, <2>2, FS_CardinalityType
<1>2. Library!Result(q) = [i \in 1..n |-> row(i)]
  BY Zenon DEF Library!Result, Library!Ordered
<1> HIDE DEF n, row
<1>3. [i \in 1..n |-> row(i)] \in Seq({row(i) : i \in 1..n})
  BY <1>1
<1> QED
  BY <1>2, <1>3

\* Neither the blank after a word, nor the order of the tags, nor the mode without tags
\* changes what the library answers.
LEMMA SameResult ==
  ASSUME NEW s \in Library!Selections, NEW t \in Library!Selections,
         s.text.word = t.text.word, s.direction = t.direction, s.favorites = t.favorites,
         Library!Range(s.tags) = Library!Range(t.tags),
         s.tags = <<>> \/ s.mode = t.mode
  PROVE  Library!Result(s) = Library!Result(t)
<1>1. s.tags = <<>> <=> t.tags = <<>>
  BY LibraryTagLists DEF Library!Selections
<1>2. \A r : Library!Matches(r, s) <=> Library!Matches(r, t)
  BY <1>1 DEF Library!Matches
<1>3. {r \in DOMAIN LocalScenes : Library!Matches(r, s)}
        = {r \in DOMAIN LocalScenes : Library!Matches(r, t)}
  BY <1>2
<1> QED
  BY <1>3 DEF Library!Result

LEMMA UrlOfOK ==
  ASSUME NEW s \in Library!Selections
  PROVE  Library!UrlOf(s) \in Library!Urls
<1> DEFINE trimmed == Library!Trimmed(s.text)
<1>1. trimmed \in Library!Texts /\ trimmed.blank = FALSE
  BY TextsOK DEF Library!Selections
<1> HIDE DEF trimmed
<1>2. [s EXCEPT !.text = trimmed] \in Library!Selections /\ [s EXCEPT !.text = trimmed].text = trimmed
  BY <1>1 DEF Library!Selections
<1>3. Library!UrlOf(s) = [s EXCEPT !.text = trimmed]
  BY DEF Library!UrlOf, trimmed
<1> QED
  BY <1>1, <1>2, <1>3 DEF Library!Urls

AddressTyped ==
  url \in Library!Urls /\ navigation \in Library!Urls \cup {NoNavigation} /\ intersecting \in BOOLEAN

TimerTyped == {timer, debounced} \subseteq {Library!Trimmed(t) : t \in Library!Texts} \cup {NoText}

LEMMA LibraryAlike ==
  ASSUME NEW s \in Library!Selections
  PROVE  s \in Library!Selections \cap Alike(s)
BY DEF Alike

\* The list is started anew for the filters.
LEMMA LibraryResetOK ==
  ASSUME LibraryInv, NEW s \in Library!Selections, selection' = s, Library!Reset(s),
         AddressTyped', TimerTyped'
  PROVE  LibraryInv'
<1>1. feed' = Feed!ResetFeedAndReload(feed, s) /\ owed' = FALSE
  BY LibraryFeed DEF Library!Reset
<1>2. PICK S : Library!Result(s) \in Seq(S)
  BY LibraryResult
<1>3. s \in Library!Selections \cap Alike(s) /\ FeedInv(feed, Library!Selections)
  BY LibraryAlike DEF LibraryInv
<1>4. ListOf(feed', Library!Selections, Alike(s), Library!Result(s), ListPageSize)
  BY <1>1, <1>2, <1>3, LibraryConstants, ListReset
<1>5. LibraryList' /\ TextWaits'
  BY <1>1, <1>4 DEF LibraryList, TextWaits
<1>6. FeedInv(feed', Library!Selections)
  BY <1>4 DEF ListOf
<1> QED
  BY <1>1, <1>5, <1>6 DEF LibraryInv, AddressTyped, TimerTyped

\* The list is left alone: the filters are answered as before, or the text waits.
LEMMA LibraryListStays ==
  ASSUME LibraryInv, NEW s \in Library!Selections, selection' = s, feed' = feed,
         AddressTyped', TimerTyped', owed' \in BOOLEAN, TextWaits',
         ~owed' => ~owed /\ Library!Result(s) = Library!Result(selection)
  PROVE  LibraryInv'
<1>1. LibraryList'
  BY DEF LibraryInv, LibraryList, Alike
<1> QED
  BY <1>1 DEF LibraryInv, AddressTyped, TimerTyped

\* A step of the list under the same filters.
LEMMA LibraryListStep ==
  ASSUME LibraryInv, UNCHANGED <<selection, url, navigation, timer, debounced, owed>>,
         intersecting' \in BOOLEAN, FeedInv(feed', Library!Selections),
         ~owed => ListOf(feed', Library!Selections, Alike(selection), Library!Result(selection),
                         ListPageSize)
  PROVE  LibraryInv'
BY DEF LibraryInv, LibraryList, TextWaits

LEMMA LibraryKept ==
  LibraryInv /\ UNCHANGED <<feed, selection, url, navigation, intersecting, timer, debounced, owed>>
    => LibraryInv'
BY DEF LibraryInv, LibraryList, TextWaits

LEMMA LibraryChosen ==
  ASSUME LibraryInv, NEW s \in Library!Selections, Library!Chosen(s),
         UNCHANGED <<url, intersecting>>
  PROVE  AddressTyped' /\ selection' = s
BY UrlOfOK DEF Library!Chosen, Library!SyncUrlWithCurrentFilters, LibraryInv, AddressTyped

LEMMA OnQueryChangedOK ==
  ASSUME LibraryInv, NEW text \in Library!Texts, Library!OnQueryChanged(text)
  PROVE  LibraryInv'
<1> DEFINE s == [selection EXCEPT !.text = text]
<1>1. /\ s \in Library!Selections /\ s.text = text /\ s.direction = selection.direction
      /\ s.favorites = selection.favorites /\ s.tags = selection.tags /\ s.mode = selection.mode
  BY DEF LibraryInv, Library!Selections
<1>2. /\ Library!Chosen(s) /\ timer' = Library!Trimmed(text)
      /\ owed' = (owed \/ Library!Trimmed(text) # Library!Trimmed(selection.text))
      /\ UNCHANGED <<feed, url, intersecting, debounced>>
  BY DEF Library!OnQueryChanged
<1> HIDE DEF s
<1>3. AddressTyped' /\ selection' = s
  BY <1>1, <1>2, LibraryChosen
<1>4. TimerTyped' /\ owed' \in BOOLEAN
  BY <1>2 DEF LibraryInv, TimerTyped
<1>5. TextWaits'
  BY <1>1, <1>2, <1>3, TextsOK DEF TextWaits
<1>6. ASSUME ~owed' PROVE ~owed /\ Library!Result(s) = Library!Result(selection)
  <2>1. selection.text \in Library!Texts /\ selection \in Library!Selections
    BY DEF LibraryInv, Library!Selections
  <2>2. ~owed /\ Library!Trimmed(text) = Library!Trimmed(selection.text)
    BY <1>2, <1>6
  <2>3. text.word = selection.text.word
    BY <2>1, <2>2, TextsOK
  <2> QED
    BY <1>1, <2>1, <2>2, <2>3, SameResult
<1> QED
  BY <1>1, <1>2, <1>3, <1>4, <1>5, <1>6, LibraryListStays

LEMMA QueryDebouncedOK ==
  ASSUME LibraryInv, Library!QueryDebounced
  PROVE  LibraryInv'
<1>1. /\ timer # NoText /\ timer' = NoText /\ debounced' = timer
      /\ IF timer # debounced THEN Library!Reset(selection) ELSE UNCHANGED <<feed, owed>>
      /\ UNCHANGED <<selection, url, navigation, intersecting>>
  BY DEF Library!QueryDebounced
<1>2. AddressTyped' /\ TimerTyped' /\ selection \in Library!Selections
  BY <1>1 DEF LibraryInv, AddressTyped, TimerTyped
<1>3. CASE timer # debounced
  BY <1>1, <1>2, <1>3, LibraryResetOK
<1>4. CASE timer = debounced
  <2>1. TextWaits'
    BY <1>1, <1>4 DEF LibraryInv, TextWaits
  <2> QED
    BY <1>1, <1>2, <1>4, <2>1, LibraryListStays DEF LibraryInv
<1> QED
  BY <1>3, <1>4

LEMMA LibraryDefault ==
  /\ Library!Default \in Library!Selections /\ Library!Default \in Library!Urls
  /\ Library!Default.text \in {Library!Trimmed(t) : t \in Library!Texts}
<1> DEFINE none == [word |-> "", blank |-> FALSE]
<1>1. none \in Library!Texts /\ none.blank = FALSE /\ none.word = ""
  BY DEF Library!Texts
<1>2. Library!Trimmed(none) = none
  BY <1>1, TextsOK
<1>3. Library!Default.text = none
  BY DEF Library!Default
<1>4. Library!Default \in Library!Selections
  BY <1>1, NoLibraryTags DEF Library!Default, Library!Selections
<1> QED
  BY <1>1, <1>2, <1>3, <1>4 DEF Library!Urls

LEMMA LibraryFiltersOK ==
  ASSUME LibraryInv,
         \/ \E direction \in {"ASC", "DESC"} : Library!OnDirectionChanged(direction)
         \/ \E favorites1 \in BOOLEAN : Library!OnFavoritesChanged(favorites1)
         \/ Library!ResetFilters
  PROVE  LibraryInv'
<1>1. ASSUME NEW s \in Library!Selections, Library!Chosen(s), Library!Reset(s),
             UNCHANGED <<url, intersecting>>, TimerTyped'
      PROVE  LibraryInv'
  BY <1>1, LibraryChosen, LibraryResetOK
<1>2. ASSUME NEW direction \in {"ASC", "DESC"}, Library!OnDirectionChanged(direction)
      PROVE  LibraryInv'
  <2> DEFINE s == [selection EXCEPT !.direction = direction]
  <2>1. s \in Library!Selections
    BY DEF LibraryInv, Library!Selections
  <2>2. /\ Library!Chosen(s) /\ Library!Reset(s)
        /\ UNCHANGED <<url, intersecting, timer, debounced>>
    BY <1>2 DEF Library!OnDirectionChanged
  <2>3. TimerTyped'
    BY <2>2 DEF LibraryInv, TimerTyped
  <2> HIDE DEF s
  <2> QED
    BY <1>1, <2>1, <2>2, <2>3
<1>3. ASSUME NEW x \in BOOLEAN, Library!OnFavoritesChanged(x)
      PROVE  LibraryInv'
  <2> DEFINE s == [selection EXCEPT !.favorites = x]
  <2>1. s \in Library!Selections
    BY DEF LibraryInv, Library!Selections
  <2>2. /\ Library!Chosen(s) /\ Library!Reset(s)
        /\ UNCHANGED <<url, intersecting, timer, debounced>>
    BY <1>3 DEF Library!OnFavoritesChanged
  <2>3. TimerTyped'
    BY <2>2 DEF LibraryInv, TimerTyped
  <2> HIDE DEF s
  <2> QED
    BY <1>1, <2>1, <2>2, <2>3
<1>4. CASE Library!ResetFilters
  <2>1. /\ Library!Default \in Library!Selections
        /\ Library!Default.text \in {Library!Trimmed(t) : t \in Library!Texts}
    BY LibraryDefault
  <2>2. /\ Library!Chosen(Library!Default) /\ Library!Reset(Library!Default)
        /\ timer' = Library!Default.text /\ UNCHANGED <<url, intersecting, debounced>>
    BY <1>4 DEF Library!ResetFilters
  <2>3. TimerTyped'
    BY <2>1, <2>2 DEF LibraryInv, TimerTyped
  <2> QED
    BY <1>1, <2>1, <2>2, <2>3
<1> QED
  BY <1>2, <1>3, <1>4

LEMMA LibraryTagsOK ==
  ASSUME LibraryInv,
         \/ \E tags \in Library!TagLists : Library!OnTagSelectionChanged(tags)
         \/ \E mode \in {"OR", "AND"} : Library!OnTagMatchModeChanged(mode)
  PROVE  LibraryInv'
<1>1. ASSUME NEW s \in Library!Selections, Library!Chosen(s), s.text = selection.text,
             \/ Library!Reset(s)
             \/ UNCHANGED <<feed, owed>> /\ Library!Result(s) = Library!Result(selection),
             UNCHANGED <<url, intersecting, timer, debounced>>
      PROVE  LibraryInv'
  <2>1. AddressTyped' /\ selection' = s /\ TimerTyped'
    BY <1>1, LibraryChosen DEF LibraryInv, TimerTyped
  <2>2. CASE Library!Reset(s)
    BY <1>1, <2>1, <2>2, LibraryResetOK
  <2>3. CASE UNCHANGED <<feed, owed>> /\ Library!Result(s) = Library!Result(selection)
    <3>1. TextWaits' /\ owed' \in BOOLEAN
      BY <1>1, <2>1, <2>3 DEF LibraryInv, TextWaits
    <3> QED
      BY <2>1, <2>3, <3>1, LibraryListStays
  <2> QED
    BY <1>1, <2>2, <2>3
<1>2. ASSUME NEW tags \in Library!TagLists, Library!OnTagSelectionChanged(tags)
      PROVE  LibraryInv'
  <2> DEFINE s == [selection EXCEPT !.tags = tags]
             same == Library!Range(tags) = Library!Range(selection.tags)
  <2>1. /\ s \in Library!Selections /\ s.text = selection.text /\ s.direction = selection.direction
        /\ s.favorites = selection.favorites /\ s.tags = tags /\ s.mode = selection.mode
    BY DEF LibraryInv, Library!Selections
  <2>2. /\ Library!Chosen(s)
        /\ IF same THEN UNCHANGED <<feed, owed>> ELSE Library!Reset(s)
        /\ UNCHANGED <<url, intersecting, timer, debounced>>
    BY <1>2 DEF Library!OnTagSelectionChanged
  <2> HIDE DEF s
  <2>3. same => Library!Result(s) = Library!Result(selection)
    BY <2>1, SameResult DEF LibraryInv
  <2> QED
    BY <1>1, <2>1, <2>2, <2>3
<1>3. ASSUME NEW mode \in {"OR", "AND"}, Library!OnTagMatchModeChanged(mode)
      PROVE  LibraryInv'
  <2> DEFINE s == [selection EXCEPT !.mode = mode]
  <2>1. /\ s \in Library!Selections /\ s.text = selection.text /\ s.direction = selection.direction
        /\ s.favorites = selection.favorites /\ s.tags = selection.tags
    BY DEF LibraryInv, Library!Selections
  <2>2. /\ Library!Chosen(s)
        /\ IF s.tags # <<>> THEN Library!Reset(s) ELSE UNCHANGED <<feed, owed>>
        /\ UNCHANGED <<url, intersecting, timer, debounced>>
    BY <1>3 DEF Library!OnTagMatchModeChanged
  <2> HIDE DEF s
  <2>3. s.tags = <<>> => Library!Result(s) = Library!Result(selection)
    BY <2>1, SameResult DEF LibraryInv
  <2> QED
    BY <1>1, <2>1, <2>2, <2>3
<1> QED
  BY <1>2, <1>3

LEMMA LibraryAddressOK ==
  ASSUME LibraryInv,
         Library!NavigationEnds \/ \E u \in LibraryLinks : Library!BrowserNavigates(u)
  PROVE  LibraryInv'
<1>1. CASE Library!NavigationEnds
  <2>1. /\ navigation # NoNavigation
        /\ url' = navigation /\ selection' = navigation /\ navigation' = NoNavigation
        /\ IF navigation # selection THEN Library!Reset(navigation) ELSE UNCHANGED <<feed, owed>>
        /\ UNCHANGED <<intersecting, timer, debounced>>
    BY <1>1 DEF Library!NavigationEnds
  <2>2. navigation \in Library!Selections /\ AddressTyped' /\ TimerTyped'
    BY <2>1 DEF LibraryInv, Library!Urls, AddressTyped, TimerTyped
  <2>3. CASE navigation # selection
    BY <2>1, <2>2, <2>3, LibraryResetOK
  <2>4. CASE navigation = selection
    <3>1. TextWaits' /\ owed' \in BOOLEAN
      BY <2>1, <2>4 DEF LibraryInv, TextWaits
    <3> QED
      BY <2>1, <2>2, <2>4, <3>1, LibraryListStays
  <2> QED
    BY <2>3, <2>4
<1>2. ASSUME NEW u \in LibraryLinks, Library!BrowserNavigates(u) PROVE LibraryInv'
  BY <1>2, LibraryConstants DEF Library!BrowserNavigates, LibraryInv, LibraryList, TextWaits
<1> QED
  BY <1>1, <1>2

\* More is asked for, or an answer is shown, or it fails.
LEMMA LibraryMoreOK ==
  ASSUME LibraryInv,
         \/ Library!RetryInitialLoad \/ Library!RetryLoadMore
         \/ \E seen \in BOOLEAN : Library!Scrolls(seen)
  PROVE  LibraryInv'
<1>1. /\ UNCHANGED <<selection, url, navigation, timer, debounced, owed>>
      /\ intersecting' \in BOOLEAN
      /\ feed' = Feed!LoadNextPage(feed, selection) \/ feed' = feed
  BY LibraryFeed DEF LibraryInv, Library!RetryInitialLoad, Library!RetryLoadMore, Library!Scrolls
<1>2. selection \in Library!Selections \cap Alike(selection) /\ FeedInv(feed, Library!Selections)
  BY LibraryAlike DEF LibraryInv
<1>3. FeedInv(feed', Library!Selections)
  BY <1>1, <1>2, LibraryConstants, LoadMore DEF FeedInv
<1>4. ~owed => ListOf(feed', Library!Selections, Alike(selection), Library!Result(selection),
                      ListPageSize)
  BY <1>1, <1>2, LibraryConstants, ListMore DEF LibraryInv, LibraryList
<1> QED
  BY <1>1, <1>3, <1>4, LibraryListStep

LEMMA LibraryFailsOK ==
  ASSUME LibraryInv, Library!FeedFails
  PROVE  LibraryInv'
<1>1. /\ UNCHANGED <<selection, url, navigation, intersecting, timer, debounced, owed>>
      /\ feed.asked # NoRequest /\ feed' = Feed!Failed(feed, selection, intersecting)
  BY LibraryFeed DEF Library!FeedFails
<1>2. selection \in Library!Selections \cap Alike(selection) /\ FeedInv(feed, Library!Selections)
  BY LibraryAlike DEF LibraryInv
<1>3. FeedInv(feed', Library!Selections)
  BY <1>1, <1>2, LibraryConstants, FeedFailure
<1>4. ~owed => ListOf(feed', Library!Selections, Alike(selection), Library!Result(selection),
                      ListPageSize)
  BY <1>1, <1>2, LibraryConstants, ListFailed DEF LibraryInv, LibraryList
<1> QED
  BY <1>1, <1>3, <1>4, LibraryListStep DEF LibraryInv

LEMMA LibraryAnswersOK ==
  ASSUME LibraryInv, Library!FeedAnswers
  PROVE  LibraryInv'
<1> DEFINE q == feed.asked.query
           page == feed.asked.page
           ans == Library!PageOf(q, page).items
           more == Library!PageOf(q, page).hasMore
<1>1. /\ UNCHANGED <<selection, url, navigation, intersecting, timer, debounced, owed>>
      /\ feed.asked # NoRequest /\ feed' = Feed!Answered(feed, ans, more, selection, intersecting)
  BY LibraryFeed DEF Library!FeedAnswers
<1>2. selection \in Library!Selections \cap Alike(selection) /\ FeedInv(feed, Library!Selections)
  BY LibraryAlike DEF LibraryInv
<1>3. /\ ans = SubSeq(Library!Result(q), (page - 1) * ListPageSize + 1,
                      IF page * ListPageSize < Len(Library!Result(q)) THEN page * ListPageSize
                      ELSE Len(Library!Result(q)))
      /\ more = (page * ListPageSize < Len(Library!Result(q)))
  BY Zenon DEF Library!PageOf
<1>4. more \in BOOLEAN
  BY <1>3
<1> HIDE DEF ans, more
<1>5. FeedInv(feed', Library!Selections)
  BY <1>1, <1>2, <1>4, LibraryConstants, FeedAnswer
<1>6. ASSUME ~owed
      PROVE  ListOf(feed', Library!Selections, Alike(selection), Library!Result(selection),
                    ListPageSize)
  <2>1. ListOf(feed, Library!Selections, Alike(selection), Library!Result(selection), ListPageSize)
    BY <1>6 DEF LibraryInv, LibraryList
  <2>2. PICK S : Library!Result(selection) \in Seq(S)
    BY LibraryResult
  <2>3. ASSUME ~feed.asked.stale
        PROVE  /\ IsPage(ans, page, Library!Result(selection), ListPageSize)
               /\ more <=> page * ListPageSize < Len(Library!Result(selection))
    <3>1. q \in Alike(selection)
      BY <1>1, <2>1, <2>3, ListAsks
    <3>2. Library!Result(q) = Library!Result(selection)
      BY <3>1 DEF Alike
    <3> QED
      BY <1>3, <3>2, Zenon DEF IsPage
  <2> QED
    BY <1>1, <1>2, <1>4, <2>1, <2>2, <2>3, LibraryConstants, ListAnswered
<1> QED
  BY <1>1, <1>5, <1>6, LibraryListStep DEF LibraryInv

LEMMA LibraryInit == Library!Init => LibraryInv
<1> SUFFICES ASSUME Library!Init PROVE LibraryInv
  OBVIOUS
<1>1. /\ url = Library!Default /\ selection = url /\ navigation = NoNavigation
      /\ feed = Feed!ResetFeedAndReload(Feed!NewFeed, selection)
      /\ intersecting = FALSE /\ timer = NoText /\ debounced = NoText /\ owed = FALSE
  BY LibraryFeed DEF Library!Init
<1>2. selection \in Library!Selections /\ url \in Library!Urls
  BY <1>1, LibraryDefault
<1>3. PICK S : Library!Result(selection) \in Seq(S)
  BY LibraryResult
<1>4. ListOf(feed, Library!Selections, Alike(selection), Library!Result(selection), ListPageSize)
  BY <1>1, <1>2, <1>3, LibraryAlike, LibraryConstants, ListReset
<1> QED
  BY <1>1, <1>2, <1>4 DEF LibraryInv, LibraryList, TextWaits, ListOf

LEMMA LibraryNext == LibraryInv /\ Library!Next => LibraryInv'
BY OnQueryChangedOK, QueryDebouncedOK, LibraryFiltersOK, LibraryTagsOK, LibraryAddressOK,
   LibraryMoreOK, LibraryFailsOK, LibraryAnswersOK DEF Library!Next

LEMMA LibraryImplies == LibraryInv => Library!TypeOK /\ Library!LibraryShowsSelection
<1> SUFFICES ASSUME LibraryInv PROVE Library!TypeOK /\ Library!LibraryShowsSelection
  OBVIOUS
<1>1. Library!FeedOK(feed) /\ (feed.asked = NoRequest => feed.page > 0 \/ feed.error = "initial")
  BY LibraryFeed DEF LibraryInv, FeedInv, FeedTyped, Tells
<1>2. ~owed => ShowsFirst(feed, Library!Result(selection), ListPageSize)
  BY DEF LibraryInv, LibraryList, ListOf
<1>3. Library!TypeOK
  BY <1>1 DEF LibraryInv, Library!TypeOK
<1>4. owed /\ timer = NoText => debounced = Library!Trimmed(selection.text)
  BY DEF LibraryInv, TextWaits
<1>5. Library!LibraryShowsSelection
  BY <1>1, <1>2, <1>4, Zenon DEF Library!LibraryShowsSelection, ShowsFirst, FirstOf
<1> QED
  BY <1>3, <1>5

-----------------------------------------------------------------------------
(* The page of a performer. *)

PerformerQuery == Performer!Query(url.id, selection)

PerformerListInv ==
  /\ selection \in Performer!Selections
  /\ url \in Performer!Urls /\ navigation \in Performer!Urls \cup {NoNavigation}
  /\ intersecting \in BOOLEAN
  /\ ListOf(feed, Performer!Queries, {PerformerQuery}, Performer!TheList(PerformerQuery), 1)

LateFavorites == [id : PerformerIds, to : BOOLEAN]

Favoriting ==
  [pc : {"idle", "sent", "done"}, id : PerformerIds \cup {NoDetails}, to : BOOLEAN,
   late : SUBSET LateFavorites]

DetailsTyped ==
  /\ favorites \subseteq PerformerIds /\ mixed \in BOOLEAN
  /\ details \in Seq([id : PerformerIds, read : BOOLEAN \cup {NoAnswer}])
  /\ performer \in [shown : Performer!Details \cup {NoDetails}, loading : BOOLEAN, error : BOOLEAN]
  /\ favoriting \in Favoriting
  /\ favoriting.pc # "idle" => favoriting.id \in PerformerIds /\ performer.shown # NoDetails
  /\ performer.loading => details # <<>>

\* Unless requests for several performers crossed, the one request in flight is for the
\* details of the performer in the address, or sets that performer's favorite.
DetailsCurrent ==
  /\ Len(details) <= 1
  /\ details # <<>> =>
       /\ performer.loading /\ favoriting.pc = "idle"
       /\ details[1].id = url.id
       /\ details[1].read # NoAnswer => (details[1].read <=> url.id \in favorites)
  /\ favoriting.pc # "idle" => favoriting.id = url.id /\ Performer!DetailsVisible
  /\ Performer!DetailsVisible =>
       /\ performer.shown.id = url.id
       /\ favoriting.pc # "done" => (performer.shown.favorite <=> url.id \in favorites)
       /\ favoriting.pc = "done" => (favoriting.to <=> url.id \in favorites)

DetailsInv == DetailsTyped /\ (~mixed => DetailsCurrent)

PerformerInv == PerformerListInv /\ DetailsInv

LEMMA PerformerConstants ==
  /\ LastPage \in Nat \ {0}
  /\ NoRequest \notin Feed!RequestsFor(Performer!Queries)
  /\ NoNavigation \notin Performer!Urls /\ NoDetails \notin Performer!Details
  /\ PerformerLinks \subseteq Performer!Urls
BY Zenon, PagesAssumption DEF Performer!PerformerPageAssumption, Performer!LinksAssumption,
   Performer!RequestsFor, Feed!RequestsFor

\* The page's lists are those of FeedControl.
LEMMA PerformerFeed ==
  ASSUME NEW f, NEW q, NEW ans, NEW more, NEW seen
  PROVE  /\ Performer!NewFeed = Feed!NewFeed
         /\ Performer!LoadNextPage(f, q) = Feed!LoadNextPage(f, q)
         /\ Performer!ResetFeedAndReload(f, q) = Feed!ResetFeedAndReload(f, q)
         /\ Performer!Answered(f, ans, more, q, seen) = Feed!Answered(f, ans, more, q, seen)
         /\ Performer!Failed(f, q, seen) = Feed!Failed(f, q, seen)
         /\ Performer!FeedOK(f) <=> Feed!FeedOK(f)
BY Zenon DEF Performer!NewFeed, Performer!LoadNextPage, Performer!ResetFeedAndReload,
   Performer!Answered, Performer!Failed, Performer!Finalize, Performer!FeedOK,
   Feed!NewFeed, Feed!LoadNextPage, Feed!ResetFeedAndReload,
   Feed!Answered, Feed!Failed, Feed!Finalize, Feed!FeedOK

LEMMA ListsOK ==
  ASSUME NEW S, NEW s \in Performer!Lists(S)
  PROVE  Performer!Range(s) \in SUBSET S
<1>1. PICK m \in 0..Performer!Cardinality(S) : s \in [1..m -> S]
  BY DEF Performer!Lists, Performer!Injection
<1> QED
  BY <1>1 DEF Performer!Range

LEMMA PerformerQueryOK ==
  ASSUME NEW id \in PerformerIds, NEW s \in Performer!Selections
  PROVE  Performer!Query(id, s) \in Performer!Queries
<1>1. /\ s.filter \in Filters /\ s.studios \in Performer!Lists(Studios)
      /\ s.tags \in Performer!Lists(PerformerTags)
  BY DEF Performer!Selections
<1>2. Performer!Range(s.studios) \in SUBSET Studios /\ Performer!Range(s.tags) \in SUBSET PerformerTags
  BY <1>1, ListsOK
<1> QED
  BY <1>1, <1>2 DEF Performer!Query, Performer!Queries

LEMMA PerformerTheList ==
  ASSUME NEW q
  PROVE  LET list == Performer!TheList(q)
         IN /\ list \in Seq({[query |-> q, page |-> n] : n \in 1..LastPage})
            /\ Len(list) = LastPage
            /\ \A n \in 1..LastPage : list[n] = [query |-> q, page |-> n]
BY PerformerConstants DEF Performer!TheList

LEMMA PerformerReset ==
  ASSUME NEW f, FeedInv(f, Performer!Queries) \/ f = Feed!NewFeed,
         NEW id \in PerformerIds, NEW s \in Performer!Selections
  PROVE  LET q == Performer!Query(id, s)
         IN ListOf(Performer!ResetFeedAndReload(f, q), Performer!Queries, {q},
                   Performer!TheList(q), 1)
<1> DEFINE q == Performer!Query(id, s)
           list == Performer!TheList(q)
<1>1. q \in Performer!Queries \cap {q} /\ 1 \in Nat \ {0}
  BY PerformerQueryOK
<1>2. Performer!ResetFeedAndReload(f, q) = Feed!ResetFeedAndReload(f, q)
  BY PerformerFeed
<1>3. list \in Seq({[query |-> q, page |-> n] : n \in 1..LastPage})
  BY PerformerTheList, Zenon
<1> HIDE DEF q, list
<1>4. PICK S : list \in Seq(S)
  BY <1>3
<1>5. ListOf(Feed!ResetFeedAndReload(f, q), Performer!Queries, {q}, list, 1)
  BY <1>1, <1>4, PerformerConstants, ListReset
<1> QED
  BY <1>2, <1>5 DEF q, list

LEMMA UrlIds ==
  ASSUME NEW u \in Performer!Urls
  PROVE  u.id \in PerformerIds /\ u.params \in Performer!Selections
BY DEF Performer!Urls

\* A step of the list under the same filters and address.
LEMMA PerformerListStep ==
  ASSUME PerformerListInv, UNCHANGED <<selection, url>>,
         navigation' \in Performer!Urls \cup {NoNavigation}, intersecting' \in BOOLEAN,
         \/ feed' = feed
         \/ ListOf(feed', Performer!Queries, {PerformerQuery}, Performer!TheList(PerformerQuery), 1)
  PROVE  PerformerListInv'
BY DEF PerformerListInv, PerformerQuery

LEMMA PerformerFiltersOK ==
  ASSUME PerformerListInv,
         \/ \E v \in Filters : Performer!OnFilterChanged(v)
         \/ \E studios \in Performer!Lists(Studios) : Performer!OnStudioSelectionChanged(studios)
         \/ \E tags \in Performer!Lists(PerformerTags) : Performer!OnTagSelectionChanged(tags)
  PROVE  PerformerListInv' /\ UNCHANGED <<url, favorites, details, performer, favoriting, mixed>>
<1>1. ASSUME NEW s \in Performer!Selections, Performer!Chosen(s), UNCHANGED <<url, intersecting>>,
             \/ Performer!Reset(s)
             \/ feed' = feed /\ Performer!Query(url.id, s) = Performer!Query(url.id, selection)
      PROVE  PerformerListInv'
  <2>1. url.id \in PerformerIds /\ [url EXCEPT !.params = s] \in Performer!Urls
    BY DEF PerformerListInv, Performer!Urls
  <2>2. selection' = s /\ navigation' \in Performer!Urls \cup {NoNavigation}
    BY <1>1, <2>1 DEF PerformerListInv, Performer!Chosen, Performer!SyncUrlWithCurrentFilters
  <2> DEFINE q == Performer!Query(url.id, s)
  <2>3. ListOf(feed', Performer!Queries, {q}, Performer!TheList(q), 1)
    <3>1. CASE Performer!Reset(s)
      BY <2>1, <3>1, PerformerReset DEF PerformerListInv, ListOf, Performer!Reset
    <3>2. CASE feed' = feed /\ Performer!Query(url.id, s) = Performer!Query(url.id, selection)
      BY <3>2 DEF PerformerListInv, PerformerQuery
    <3> QED
      BY <1>1, <3>1, <3>2
  <2> QED
    BY <1>1, <2>2, <2>3 DEF PerformerListInv, PerformerQuery
<1>2. ASSUME NEW v \in Filters, Performer!OnFilterChanged(v)
      PROVE  PerformerListInv' /\ UNCHANGED <<url, favorites, details, performer, favoriting, mixed>>
  <2> DEFINE s == [selection EXCEPT !.filter = v]
  <2>1. s \in Performer!Selections
    BY DEF PerformerListInv, Performer!Selections
  <2>2. /\ Performer!Chosen(s) /\ Performer!Reset(s)
        /\ UNCHANGED <<url, intersecting, favorites, details, performer, favoriting, mixed>>
    BY <1>2 DEF Performer!OnFilterChanged, Performer!DetailVars
  <2> HIDE DEF s
  <2> QED
    BY <1>1, <2>1, <2>2
<1>3. ASSUME NEW studios \in Performer!Lists(Studios), Performer!OnStudioSelectionChanged(studios)
      PROVE  PerformerListInv' /\ UNCHANGED <<url, favorites, details, performer, favoriting, mixed>>
  <2> DEFINE s == [selection EXCEPT !.studios = studios]
  <2>1. s \in Performer!Selections
    BY DEF PerformerListInv, Performer!Selections
  <2>2. /\ Performer!Chosen(s) /\ Performer!Reset(s)
        /\ UNCHANGED <<url, intersecting, favorites, details, performer, favoriting, mixed>>
    BY <1>3 DEF Performer!OnStudioSelectionChanged, Performer!DetailVars
  <2> HIDE DEF s
  <2> QED
    BY <1>1, <2>1, <2>2
<1>4. ASSUME NEW tags \in Performer!Lists(PerformerTags), Performer!OnTagSelectionChanged(tags)
      PROVE  PerformerListInv' /\ UNCHANGED <<url, favorites, details, performer, favoriting, mixed>>
  <2> DEFINE s == [selection EXCEPT !.tags = tags]
             same == Performer!Range(tags) = Performer!Range(selection.tags)
  <2>1. /\ s \in Performer!Selections /\ s.filter = selection.filter
        /\ s.studios = selection.studios /\ s.tags = tags
    BY DEF PerformerListInv, Performer!Selections
  <2>2. /\ Performer!Chosen(s) /\ IF same THEN feed' = feed ELSE Performer!Reset(s)
        /\ UNCHANGED <<url, intersecting, favorites, details, performer, favoriting, mixed>>
    BY <1>4 DEF Performer!OnTagSelectionChanged, Performer!DetailVars
  <2> HIDE DEF s
  <2>3. same => Performer!Query(url.id, s) = Performer!Query(url.id, selection)
    BY <2>1 DEF Performer!Query
  <2> QED
    BY <1>1, <2>1, <2>2, <2>3
<1> QED
  BY <1>2, <1>3, <1>4

\* More is asked for, or an answer is shown, or it fails, or nothing happens to the list.
LEMMA PerformerMoreOK ==
  ASSUME PerformerListInv,
         \/ Performer!Retry \/ (\E seen \in BOOLEAN : Performer!Scrolls(seen))
         \/ (\E u \in PerformerLinks : Performer!BrowserNavigates(u)) \/ Performer!FeedFails
  PROVE  PerformerListInv' /\ UNCHANGED <<url, favorites, details, performer, favoriting, mixed>>
<1> DEFINE q == PerformerQuery
           list == Performer!TheList(q)
<1>1. q = Performer!Query(url.id, selection)
  BY DEF PerformerQuery
<1>2. /\ UNCHANGED <<selection, url, favorites, details, performer, favoriting, mixed>>
      /\ navigation' = navigation \/ navigation' \in PerformerLinks
      /\ intersecting' \in BOOLEAN
      /\ \/ feed' = feed \/ feed' = Feed!LoadNextPage(feed, q)
         \/ feed.asked # NoRequest /\ feed' = Feed!Failed(feed, q, intersecting)
  BY <1>1, PerformerFeed DEF PerformerListInv, Performer!Retry, Performer!Scrolls,
     Performer!BrowserNavigates, Performer!FeedFails, Performer!DetailVars
<1>3. q \in Performer!Queries /\ ListOf(feed, Performer!Queries, {q}, list, 1)
  BY UrlIds, PerformerQueryOK DEF PerformerListInv, PerformerQuery
<1>4. q \in Performer!Queries \cap {q}
  BY <1>3
<1> HIDE DEF q, list
<1>5. feed' = feed \/ ListOf(feed', Performer!Queries, {q}, list, 1)
  <2>1. CASE feed' = Feed!LoadNextPage(feed, q)
    BY <1>3, <1>4, <2>1, PerformerConstants, ListMore
  <2>2. CASE feed.asked # NoRequest /\ feed' = Feed!Failed(feed, q, intersecting)
    BY <1>3, <1>4, <2>2, PerformerConstants, ListFailed
  <2> QED
    BY <1>2, <2>1, <2>2
<1>6. navigation' \in Performer!Urls \cup {NoNavigation}
  BY <1>2, PerformerConstants DEF PerformerListInv
<1> QED
  BY <1>2, <1>5, <1>6, PerformerListStep DEF q, list

LEMMA PerformerAnswersOK ==
  ASSUME PerformerListInv, Performer!FeedAnswers
  PROVE  PerformerListInv' /\ UNCHANGED <<url, favorites, details, performer, favoriting, mixed>>
<1> DEFINE q == PerformerQuery
           asked == feed.asked
           ans == <<[query |-> asked.query, page |-> asked.page]>>
           more == asked.page < LastPage
           list == Performer!TheList(q)
<1>1. /\ asked # NoRequest
      /\ feed' = Feed!Answered(feed, ans, more, q, intersecting)
      /\ UNCHANGED <<selection, url, navigation, intersecting>>
      /\ UNCHANGED <<favorites, details, performer, favoriting, mixed>>
  BY PerformerFeed DEF Performer!FeedAnswers, PerformerQuery, Performer!DetailVars
<1>2. q \in Performer!Queries
  BY UrlIds, PerformerQueryOK DEF PerformerListInv, PerformerQuery
<1>3. ListOf(feed, Performer!Queries, {q}, list, 1) /\ more \in BOOLEAN
  BY DEF PerformerListInv
<1>4. /\ list \in Seq({[query |-> q, page |-> n] : n \in 1..LastPage}) /\ Len(list) = LastPage
      /\ \A n \in 1..LastPage : list[n] = [query |-> q, page |-> n]
  BY PerformerTheList, Zenon
<1> DEFINE g == Feed!Answered(feed, ans, more, q, intersecting)
<1> HIDE DEF q, list
<1>5. ~asked.stale => IsPage(ans, asked.page, list, 1) /\ (more <=> asked.page * 1 < Len(list))
  BY <1>1, <1>3, <1>4, PerformerConstants, OnePage
<1> HIDE DEF ans, more
<1>6. ListOf(g, Performer!Queries, {q}, list, 1)
  <2>1. ~feed.asked.stale => /\ IsPage(ans, feed.asked.page, list, 1)
                             /\ more <=> feed.asked.page * 1 < Len(list)
    BY <1>5
  <2>2. feed.asked # NoRequest
    BY <1>1
  <2>3. PICK S : list \in Seq(S)
    BY <1>4
  <2>4. /\ NoRequest \notin Feed!RequestsFor(Performer!Queries) /\ 1 \in Nat \ {0}
        /\ q \in Performer!Queries \cap {q}
    BY <1>2, PerformerConstants
  <2> HIDE DEF asked
  <2> QED
    BY <1>3, <2>1, <2>2, <2>3, <2>4, ListAnswered
<1> QED
  BY <1>1, <1>6, PerformerListStep DEF PerformerListInv, q, list

LEMMA PerformerListKept ==
  PerformerListInv /\ UNCHANGED <<feed, selection, url, navigation, intersecting>>
    => PerformerListInv'
BY DEF PerformerListInv, PerformerQuery

LEMMA DetailsKept ==
  DetailsInv /\ UNCHANGED <<url, favorites, details, performer, favoriting, mixed>> => DetailsInv'
BY DEF DetailsInv, DetailsTyped, DetailsCurrent, Performer!DetailsVisible

DetailsRequest == [id : PerformerIds, read : BOOLEAN \cup {NoAnswer}]

LEMMA RemoveDetails ==
  ASSUME DetailsTyped, NEW n \in DOMAIN details
  PROVE  /\ Performer!RemoveAt(details, n) \in Seq(DetailsRequest)
         /\ Len(details) <= 1 => n = 1 /\ Performer!RemoveAt(details, n) = <<>>
<1>1. details \in Seq(DetailsRequest) /\ n \in 1..Len(details) /\ Len(details) \in Nat
  BY DEF DetailsTyped, DetailsRequest
<1>2. SubSeq(details, 1, n - 1) \in Seq(DetailsRequest)
  BY <1>1, SubSeqProperties
<1>3. SubSeq(details, n + 1, Len(details)) \in Seq(DetailsRequest)
  BY <1>1, SubSeqProperties
<1>4. Performer!RemoveAt(details, n) \in Seq(DetailsRequest)
  BY <1>2, <1>3 DEF Performer!RemoveAt
<1>5. ASSUME Len(details) <= 1 PROVE n = 1 /\ Performer!RemoveAt(details, n) = <<>>
  <2>1. n = 1 /\ Len(details) = 1
    <3>1. \A i, k \in Int : i \in 1..k /\ k <= 1 => i = 1 /\ k = 1
      OBVIOUS
    <3>2. Len(details) \in Int /\ n \in Int
      BY <1>1
    <3> QED
      BY <1>1, <1>5, <3>1, <3>2, Zenon
  <2>2. SubSeq(details, 1, 0) = <<>> /\ SubSeq(details, 2, 1) = <<>>
    BY SubSeqEmpty
  <2>3. Performer!RemoveAt(details, n) = <<>> \o <<>>
    BY <2>1, <2>2 DEF Performer!RemoveAt
  <2> QED
    BY <2>1, <2>3
<1> QED
  BY <1>4, <1>5

LEMMA CatalogReadsDetailsOK ==
  ASSUME DetailsInv, NEW n \in DOMAIN details, Performer!CatalogReadsDetails(n)
  PROVE  DetailsInv'
<1> DEFINE read == details[n].id \in favorites
           x == [details[n] EXCEPT !.read = read]
<1>1. /\ details' = [details EXCEPT ![n] = x]
      /\ UNCHANGED <<url, favorites, performer, favoriting, mixed>>
  BY DEF Performer!CatalogReadsDetails, Performer!FeedVars
<1>2. details \in Seq(DetailsRequest) /\ n \in 1..Len(details)
  BY DEF DetailsInv, DetailsTyped, DetailsRequest
<1>3. details[n] \in DetailsRequest /\ read \in BOOLEAN
  BY <1>2
<1> HIDE DEF read
<1>4. x \in DetailsRequest /\ x.id = details[n].id /\ x.read = read
  BY <1>3 DEF DetailsRequest
<1> HIDE DEF x
<1>5. details' \in Seq(DetailsRequest) /\ Len(details') = Len(details) /\ details'[n] = x
  BY <1>1, <1>2, <1>4
<1>6. DetailsTyped'
  <2>1. details # <<>> => details' # <<>>
    BY <1>2, <1>5
  <2> QED
    BY <1>1, <1>5, <2>1 DEF DetailsInv, DetailsTyped, DetailsRequest
<1>7. ASSUME ~mixed PROVE DetailsCurrent'
  <2>1. DetailsCurrent
    BY <1>7 DEF DetailsInv
  <2>2. n = 1 /\ details # <<>>
    BY <1>2, <2>1 DEF DetailsCurrent
  <2>3. details'[1].id = url.id /\ (details'[1].read <=> url.id \in favorites)
    BY <1>4, <1>5, <2>1, <2>2 DEF DetailsCurrent, read
  <2> QED
    BY <1>1, <1>5, <2>1, <2>2, <2>3 DEF DetailsCurrent, Performer!DetailsVisible
<1> QED
  BY <1>1, <1>6, <1>7 DEF DetailsInv

LEMMA DetailsAnsweredOK ==
  ASSUME DetailsInv, NEW n \in DOMAIN details, Performer!DetailsAnswered(n)
  PROVE  DetailsInv'
<1> DEFINE shown == [id |-> details[n].id, favorite |-> details[n].read]
<1>1. /\ details[n].read # NoAnswer
      /\ details' = Performer!RemoveAt(details, n)
      /\ performer' = [performer EXCEPT !.loading = FALSE, !.shown = shown]
      /\ UNCHANGED <<url, favorites, favoriting, mixed>>
  BY DEF Performer!DetailsAnswered, Performer!FeedVars
<1>2. details \in Seq(DetailsRequest) /\ n \in 1..Len(details)
  BY DEF DetailsInv, DetailsTyped, DetailsRequest
<1>3. details[n].id \in PerformerIds /\ details[n].read \in BOOLEAN
  <2>1. details[n] \in DetailsRequest
    BY <1>2
  <2> QED
    BY <1>1, <2>1 DEF DetailsRequest
<1>4. shown \in Performer!Details /\ shown.id = details[n].id /\ shown.favorite = details[n].read
  BY <1>3 DEF Performer!Details
<1>5. shown # NoDetails
  BY <1>4, PerformerConstants
<1> HIDE DEF shown
<1>6. /\ performer'.shown = shown /\ performer'.loading = FALSE /\ performer'.error = performer.error
      /\ performer' \in [shown : Performer!Details \cup {NoDetails}, loading : BOOLEAN,
                         error : BOOLEAN]
  BY <1>1, <1>4 DEF DetailsInv, DetailsTyped
<1>7. details' \in Seq(DetailsRequest) /\ (Len(details) <= 1 => n = 1 /\ details' = <<>>)
  BY <1>1, RemoveDetails DEF DetailsInv
<1>8. DetailsTyped'
  BY <1>1, <1>5, <1>6, <1>7 DEF DetailsInv, DetailsTyped, DetailsRequest
<1>9. ASSUME ~mixed PROVE DetailsCurrent'
  <2>1. DetailsCurrent
    BY <1>9 DEF DetailsInv
  <2>2. n = 1 /\ details' = <<>> /\ details # <<>> /\ Len(details') = 0
    BY <1>2, <1>7, <2>1 DEF DetailsCurrent
  <2>3. /\ details[1].id = url.id /\ favoriting.pc = "idle"
        /\ details[1].read <=> url.id \in favorites
    BY <1>1, <2>1, <2>2 DEF DetailsCurrent
  <2>4. shown.id = url.id /\ (shown.favorite <=> url.id \in favorites)
    BY <1>4, <2>2, <2>3
  <2> QED
    BY <1>1, <1>6, <2>2, <2>3, <2>4 DEF DetailsCurrent, Performer!DetailsVisible
<1> QED
  BY <1>1, <1>8, <1>9 DEF DetailsInv

LEMMA DetailsFailOK ==
  ASSUME DetailsInv, NEW n \in DOMAIN details, Performer!DetailsFail(n)
  PROVE  DetailsInv'
<1>1. /\ details' = Performer!RemoveAt(details, n)
      /\ performer' = [performer EXCEPT !.loading = FALSE, !.error = TRUE]
      /\ UNCHANGED <<url, favorites, favoriting, mixed>>
  BY DEF Performer!DetailsFail, Performer!FeedVars
<1>2. details \in Seq(DetailsRequest) /\ n \in 1..Len(details)
  BY DEF DetailsInv, DetailsTyped, DetailsRequest
<1>3. /\ performer'.shown = performer.shown /\ performer'.loading = FALSE /\ performer'.error = TRUE
      /\ performer' \in [shown : Performer!Details \cup {NoDetails}, loading : BOOLEAN,
                         error : BOOLEAN]
  BY <1>1 DEF DetailsInv, DetailsTyped
<1>4. details' \in Seq(DetailsRequest) /\ (Len(details) <= 1 => n = 1 /\ details' = <<>>)
  BY <1>1, RemoveDetails DEF DetailsInv
<1>5. DetailsTyped'
  BY <1>1, <1>3, <1>4 DEF DetailsInv, DetailsTyped, DetailsRequest
<1>6. ASSUME ~mixed PROVE DetailsCurrent'
  <2>1. DetailsCurrent
    BY <1>6 DEF DetailsInv
  <2>2. details' = <<>> /\ details # <<>> /\ Len(details') = 0
    BY <1>2, <1>4, <2>1 DEF DetailsCurrent
  <2>3. favoriting.pc = "idle"
    BY <2>1, <2>2 DEF DetailsCurrent
  <2> QED
    BY <1>1, <1>3, <2>2, <2>3 DEF DetailsCurrent, Performer!DetailsVisible
<1> QED
  BY <1>1, <1>5, <1>6 DEF DetailsInv

\* Details are asked for: with nothing else in flight, all will be of this performer.
LEMMA LoadPerformerOK ==
  ASSUME DetailsInv, NEW id \in PerformerIds, Performer!LoadPerformer(id), url'.id = id,
         mixed' = (details # <<>> \/ favoriting.pc # "idle"),
         UNCHANGED <<favorites, favoriting>>
  PROVE  DetailsInv'
<1> DEFINE x == [id |-> id, read |-> NoAnswer]
<1>1. /\ details' = Append(details, x)
      /\ performer' = [performer EXCEPT !.loading = TRUE, !.error = FALSE]
  BY DEF Performer!LoadPerformer
<1>2. x \in DetailsRequest /\ x.id = id /\ x.read = NoAnswer
  BY DEF DetailsRequest
<1> HIDE DEF x
<1>3. details \in Seq(DetailsRequest)
  BY DEF DetailsInv, DetailsTyped, DetailsRequest
<1>4. /\ details' \in Seq(DetailsRequest) /\ details' # <<>>
      /\ details = <<>> => Len(details') = 1 /\ details'[1] = x
  BY <1>1, <1>2, <1>3
<1>5. /\ performer'.shown = performer.shown /\ performer'.loading = TRUE /\ performer'.error = FALSE
      /\ performer' \in [shown : Performer!Details \cup {NoDetails}, loading : BOOLEAN,
                         error : BOOLEAN]
  BY <1>1 DEF DetailsInv, DetailsTyped
<1>6. DetailsTyped'
  BY <1>4, <1>5 DEF DetailsInv, DetailsTyped, DetailsRequest
<1>7. ASSUME ~mixed' PROVE DetailsCurrent'
  <2>1. details = <<>> /\ favoriting.pc = "idle"
    BY <1>7
  <2> QED
    BY <1>2, <1>4, <1>5, <2>1 DEF DetailsCurrent, Performer!DetailsVisible
<1> QED
  BY <1>6, <1>7 DEF DetailsInv

LEMMA ToggleFavoritePerformerOK ==
  ASSUME DetailsInv, Performer!ToggleFavoritePerformer
  PROVE  DetailsInv'
<1> DEFINE to == ~performer.shown.favorite
           x == [favoriting EXCEPT !.pc = "sent", !.id = performer.shown.id, !.to = to]
<1>1. /\ Performer!DetailsVisible /\ favoriting.pc = "idle" /\ favoriting' = x
      /\ UNCHANGED <<url, favorites, details, performer, mixed>>
  BY DEF Performer!ToggleFavoritePerformer, Performer!FeedVars
<1>2. performer.shown # NoDetails /\ performer.shown \in Performer!Details
  BY <1>1 DEF DetailsInv, DetailsTyped, Performer!DetailsVisible
<1>3. performer.shown.id \in PerformerIds /\ to \in BOOLEAN
  BY <1>2 DEF Performer!Details
<1> HIDE DEF to
<1>4. /\ favoriting' \in Favoriting
      /\ favoriting'.pc = "sent" /\ favoriting'.id = performer.shown.id
  BY <1>1, <1>3 DEF DetailsInv, DetailsTyped, Favoriting
<1> HIDE DEF x
<1>5. DetailsTyped'
  BY <1>1, <1>2, <1>3, <1>4 DEF DetailsInv, DetailsTyped
<1>6. ASSUME ~mixed PROVE DetailsCurrent'
  <2>1. DetailsCurrent
    BY <1>6 DEF DetailsInv
  <2>2. ~performer.loading
    BY <1>1 DEF Performer!DetailsVisible
  <2>3. details = <<>>
    BY <2>1, <2>2 DEF DetailsCurrent
  <2> QED
    BY <1>1, <1>4, <2>1, <2>3 DEF DetailsCurrent, Performer!DetailsVisible
<1> QED
  BY <1>1, <1>5, <1>6 DEF DetailsInv

LEMMA CatalogSetsFavoriteOK ==
  ASSUME DetailsInv, Performer!CatalogSetsFavorite
  PROVE  DetailsInv'
<1>1. /\ favoriting.pc = "sent" /\ favoriting' = [favoriting EXCEPT !.pc = "done"]
      /\ favorites' = IF favoriting.to THEN favorites \cup {favoriting.id}
                      ELSE favorites \ {favoriting.id}
      /\ UNCHANGED <<url, details, performer, mixed>>
  BY DEF Performer!CatalogSetsFavorite, Performer!FavoritesWith, Performer!FeedVars
<1>2. /\ favoriting'.pc = "done" /\ favoriting'.id = favoriting.id /\ favoriting'.to = favoriting.to
      /\ favoriting' \in Favoriting
  BY <1>1 DEF DetailsInv, DetailsTyped, Favoriting
<1>3. favoriting.id \in PerformerIds /\ performer.shown # NoDetails
  BY <1>1 DEF DetailsInv, DetailsTyped
<1>4. favorites' \subseteq PerformerIds /\ (favoriting.id \in favorites' <=> favoriting.to)
  BY <1>1, <1>3 DEF DetailsInv, DetailsTyped
<1>5. DetailsTyped'
  BY <1>1, <1>2, <1>3, <1>4 DEF DetailsInv, DetailsTyped
<1>6. ASSUME ~mixed PROVE DetailsCurrent'
  <2>1. DetailsCurrent
    BY <1>6 DEF DetailsInv
  <2>2. /\ details = <<>> /\ favoriting.id = url.id /\ Performer!DetailsVisible
        /\ performer.shown.id = url.id
    BY <1>1, <2>1 DEF DetailsCurrent
  <2>3. favoriting'.to <=> url.id \in favorites'
    BY <1>2, <1>4, <2>2
  <2> QED
    BY <1>1, <1>2, <2>1, <2>2, <2>3 DEF DetailsCurrent, Performer!DetailsVisible
<1> QED
  BY <1>1, <1>5, <1>6 DEF DetailsInv

LEMMA NoFavoritingOK == Performer!NoFavoriting.pc = "idle" /\ Performer!NoFavoriting \in Favoriting
BY DEF Performer!NoFavoriting, Favoriting

LEMMA EndedOK ==
  ASSUME NEW late \in SUBSET LateFavorites
  PROVE  Performer!Ended(late).pc = "idle" /\ Performer!Ended(late) \in Favoriting
BY DEF Performer!Ended, Performer!NoFavoriting, Favoriting

LEMMA FavoriteAnsweredOK ==
  ASSUME DetailsInv, Performer!FavoriteAnswered
  PROVE  DetailsInv'
<1> DEFINE to == favoriting.to
           shown == [performer.shown EXCEPT !.favorite = to]
<1>1. /\ favoriting.pc = "done" /\ favoriting' = Performer!Ended(favoriting.late)
      /\ performer' = [performer EXCEPT !.shown.favorite = to]
      /\ UNCHANGED <<url, favorites, details, mixed>>
  BY DEF Performer!FavoriteAnswered, Performer!FeedVars
<1>2. /\ performer.shown \in Performer!Details /\ to \in BOOLEAN
      /\ favoriting' \in Favoriting /\ favoriting'.pc = "idle"
  BY <1>1, EndedOK DEF DetailsInv, DetailsTyped, Favoriting
<1>3. performer' = [performer EXCEPT !.shown = shown]
  BY <1>1
<1> HIDE DEF to
<1>4. shown \in Performer!Details /\ shown.id = performer.shown.id /\ shown.favorite = to
  BY <1>2 DEF Performer!Details
<1> HIDE DEF shown
<1>5. /\ performer'.shown = shown /\ performer'.loading = performer.loading
      /\ performer'.error = performer.error
      /\ performer' \in [shown : Performer!Details \cup {NoDetails}, loading : BOOLEAN,
                         error : BOOLEAN]
  BY <1>3, <1>4 DEF DetailsInv, DetailsTyped
<1>6. DetailsTyped'
  BY <1>1, <1>2, <1>5 DEF DetailsInv, DetailsTyped
<1>7. ASSUME ~mixed PROVE DetailsCurrent'
  <2>1. DetailsCurrent
    BY <1>7 DEF DetailsInv
  <2>2. /\ details = <<>> /\ Performer!DetailsVisible /\ performer.shown.id = url.id
        /\ to <=> url.id \in favorites
    BY <1>1, <2>1 DEF DetailsCurrent, to
  <2>3. shown.favorite <=> url.id \in favorites
    BY <1>4, <2>2
  <2> QED
    BY <1>1, <1>2, <1>4, <1>5, <2>1, <2>2, <2>3 DEF DetailsCurrent, Performer!DetailsVisible
<1> QED
  BY <1>1, <1>6, <1>7 DEF DetailsInv

LEMMA FavoriteFailsOK ==
  ASSUME DetailsInv, Performer!FavoriteFails
  PROVE  DetailsInv'
<1>1. PICK late \in SUBSET LateFavorites :
        /\ favoriting.pc # "idle" /\ favoriting' = Performer!Ended(late)
        /\ mixed' = (mixed \/ favoriting.pc = "done")
        /\ UNCHANGED <<url, favorites, details, performer>>
  <2>1. /\ favoriting.late \subseteq LateFavorites
        /\ favoriting.pc = "sent" => [id |-> favoriting.id, to |-> favoriting.to] \in LateFavorites
    BY DEF DetailsInv, DetailsTyped, Favoriting, LateFavorites
  <2>2. /\ favoriting.pc # "idle"
        /\ \/ favoriting' = Performer!Ended(favoriting.late)
           \/ /\ favoriting.pc = "sent"
              /\ favoriting' = Performer!Ended(favoriting.late
                                 \cup {[id |-> favoriting.id, to |-> favoriting.to]})
        /\ mixed' = (mixed \/ favoriting.pc = "done")
        /\ UNCHANGED <<url, favorites, details, performer>>
    BY DEF Performer!FavoriteFails, Performer!FeedVars
  <2> QED
    BY <2>1, <2>2
<1>2. DetailsTyped'
  BY <1>1, EndedOK DEF DetailsInv, DetailsTyped
<1>3. ASSUME ~mixed' PROVE DetailsCurrent'
  <2>1. DetailsCurrent /\ favoriting.pc # "done"
    BY <1>1, <1>3 DEF DetailsInv
  <2> QED
    BY <1>1, <2>1, EndedOK DEF DetailsCurrent, Performer!DetailsVisible
<1> QED
  BY <1>2, <1>3 DEF DetailsInv

LEMMA LateFavoriteOK ==
  ASSUME DetailsInv, NEW f \in favoriting.late, Performer!LateFavorite(f)
  PROVE  DetailsInv'
<1>1. /\ favoriting' = [favoriting EXCEPT !.late = @ \ {f}]
      /\ favorites' = IF f.to THEN favorites \cup {f.id} ELSE favorites \ {f.id}
      /\ mixed' = TRUE
      /\ UNCHANGED <<url, details, performer>>
  BY DEF Performer!LateFavorite, Performer!FavoritesWith, Performer!FeedVars
<1>2. f.id \in PerformerIds /\ favorites' \subseteq PerformerIds
  BY <1>1 DEF DetailsInv, DetailsTyped, Favoriting, LateFavorites
<1>3. /\ favoriting' \in Favoriting /\ favoriting'.pc = favoriting.pc
      /\ favoriting'.id = favoriting.id
  BY <1>1 DEF DetailsInv, DetailsTyped, Favoriting
<1>4. DetailsTyped'
  BY <1>1, <1>2, <1>3 DEF DetailsInv, DetailsTyped
<1> QED
  BY <1>1, <1>4 DEF DetailsInv

LEMMA PerformerNavigationOK ==
  ASSUME PerformerInv, Performer!NavigationEnds
  PROVE  PerformerInv'
<1> DEFINE u == navigation
           q == Performer!Query(u.id, u.params)
           filtered == IF u.params # selection
                       THEN Performer!ResetFeedAndReload(feed, Performer!Query(url.id, u.params))
                       ELSE feed
<1>1. /\ u # NoNavigation /\ url' = u /\ selection' = u.params /\ navigation' = NoNavigation
      /\ feed' = IF u.id # url.id THEN Performer!ResetFeedAndReload(filtered, q) ELSE filtered
      /\ UNCHANGED <<intersecting, favorites, favoriting>>
      /\ IF u.id # url.id
         THEN Performer!LoadPerformer(u.id) /\ mixed' = (details # <<>> \/ favoriting.pc # "idle")
         ELSE UNCHANGED <<details, performer, mixed>>
  BY DEF Performer!NavigationEnds, Performer!ReloadFor
<1>2. u \in Performer!Urls /\ u.id \in PerformerIds /\ u.params \in Performer!Selections
      /\ url.id \in PerformerIds
  BY <1>1, UrlIds DEF PerformerInv, PerformerListInv
<1>3. ListOf(feed, Performer!Queries, {PerformerQuery}, Performer!TheList(PerformerQuery), 1)
  BY DEF PerformerInv, PerformerListInv
<1> DEFINE r == Performer!Query(url.id, u.params)
<1>4. ListOf(filtered, Performer!Queries, {r}, Performer!TheList(r), 1)
  <2>1. CASE u.params # selection
    <3>1. FeedInv(feed, Performer!Queries)
      BY <1>3 DEF ListOf
    <3> HIDE DEF u
    <3> QED
      BY <1>2, <2>1, <3>1, PerformerReset
  <2>2. CASE u.params = selection
    BY <1>3, <2>2 DEF PerformerQuery
  <2> QED
    BY <2>1, <2>2
<1> HIDE DEF filtered, u
<1>5. ListOf(feed', Performer!Queries, {q}, Performer!TheList(q), 1)
  <2>1. CASE u.id # url.id
    BY <1>1, <1>2, <1>4, <2>1, PerformerReset DEF ListOf
  <2>2. CASE u.id = url.id
    BY <1>1, <1>4, <2>2
  <2> QED
    BY <2>1, <2>2
<1>6. PerformerListInv'
  BY <1>1, <1>2, <1>5 DEF PerformerInv, PerformerListInv, PerformerQuery
<1>7. DetailsInv'
  <2>1. CASE u.id # url.id
    BY <1>1, <1>2, <2>1, LoadPerformerOK DEF PerformerInv
  <2>2. CASE u.id = url.id
    <3>1. url'.id = url.id /\ UNCHANGED <<favorites, details, performer, favoriting, mixed>>
      BY <1>1, <2>2
    <3> QED
      BY <3>1 DEF PerformerInv, DetailsInv, DetailsTyped, DetailsCurrent, Performer!DetailsVisible
  <2> QED
    BY <2>1, <2>2
<1> QED
  BY <1>6, <1>7 DEF PerformerInv

LEMMA PerformerInit == Performer!Init => PerformerInv
<1> SUFFICES ASSUME Performer!Init PROVE PerformerInv
  OBVIOUS
<1> DEFINE x == [id |-> url.id, read |-> NoAnswer]
<1>1. /\ url \in PerformerLinks /\ selection = url.params /\ navigation = NoNavigation
      /\ feed = Performer!ResetFeedAndReload(Feed!NewFeed, PerformerQuery)
      /\ intersecting = FALSE
      /\ favorites \in SUBSET PerformerIds
      /\ details = <<x>>
      /\ performer = [shown |-> NoDetails, loading |-> TRUE, error |-> FALSE]
      /\ favoriting = Performer!NoFavoriting /\ mixed = FALSE
  BY PerformerFeed DEF Performer!Init, PerformerQuery
<1>2. url \in Performer!Urls /\ url.id \in PerformerIds /\ selection \in Performer!Selections
  BY <1>1, PerformerConstants, UrlIds
<1>3. ListOf(feed, Performer!Queries, {PerformerQuery}, Performer!TheList(PerformerQuery), 1)
  BY <1>1, <1>2, PerformerReset DEF PerformerQuery
<1>4. PerformerListInv
  BY <1>1, <1>2, <1>3 DEF PerformerListInv
<1>5. x \in DetailsRequest /\ x.id = url.id /\ x.read = NoAnswer
  BY <1>2 DEF DetailsRequest
<1> HIDE DEF x
<1>6. details \in Seq(DetailsRequest) /\ Len(details) = 1 /\ details[1] = x /\ details # <<>>
  BY <1>1, <1>5
<1>7. DetailsTyped
  BY <1>1, <1>6, NoFavoritingOK DEF DetailsTyped, DetailsRequest
<1>8. DetailsCurrent
  <2>1. performer.loading = TRUE
    BY <1>1
  <2> QED
    BY <1>1, <1>5, <1>6, <2>1, NoFavoritingOK DEF DetailsCurrent, Performer!DetailsVisible
<1> QED
  BY <1>4, <1>7, <1>8 DEF PerformerInv, DetailsInv

LEMMA PerformerNext == PerformerInv /\ Performer!Next => PerformerInv'
<1> SUFFICES ASSUME PerformerInv, Performer!Next PROVE PerformerInv'
  OBVIOUS
<1>1. CASE \/ \E v \in Filters : Performer!OnFilterChanged(v)
           \/ \E studios \in Performer!Lists(Studios) : Performer!OnStudioSelectionChanged(studios)
           \/ \E tags \in Performer!Lists(PerformerTags) : Performer!OnTagSelectionChanged(tags)
           \/ Performer!Retry \/ (\E seen \in BOOLEAN : Performer!Scrolls(seen))
           \/ (\E u \in PerformerLinks : Performer!BrowserNavigates(u))
           \/ Performer!FeedAnswers \/ Performer!FeedFails
  BY <1>1, PerformerFiltersOK, PerformerMoreOK, PerformerAnswersOK, DetailsKept DEF PerformerInv
<1>2. CASE \/ \E n \in DOMAIN details : \/ Performer!CatalogReadsDetails(n)
                                        \/ Performer!DetailsAnswered(n) \/ Performer!DetailsFail(n)
           \/ Performer!ToggleFavoritePerformer \/ Performer!CatalogSetsFavorite
           \/ Performer!FavoriteAnswered \/ Performer!FavoriteFails \/ Performer!RetryPerformerLoad
           \/ \E f \in favoriting.late : Performer!LateFavorite(f)
  <2>1. UNCHANGED <<feed, selection, url, navigation, intersecting>>
    BY <1>2 DEF Performer!CatalogReadsDetails, Performer!DetailsAnswered, Performer!DetailsFail,
       Performer!ToggleFavoritePerformer, Performer!CatalogSetsFavorite,
       Performer!FavoriteAnswered, Performer!FavoriteFails, Performer!RetryPerformerLoad,
       Performer!LateFavorite,
       Performer!FeedVars
  <2>2. CASE Performer!RetryPerformerLoad
    <3>1. url.id \in PerformerIds
      BY UrlIds DEF PerformerInv, PerformerListInv
    <3> QED
      BY <2>1, <2>2, <3>1, LoadPerformerOK, PerformerListKept DEF PerformerInv,
         Performer!RetryPerformerLoad
  <2> QED
    BY <1>2, <2>1, <2>2, CatalogReadsDetailsOK, DetailsAnsweredOK, DetailsFailOK,
       ToggleFavoritePerformerOK, CatalogSetsFavoriteOK, FavoriteAnsweredOK, FavoriteFailsOK, LateFavoriteOK,
       PerformerListKept DEF PerformerInv
<1> QED
  BY <1>1, <1>2, PerformerNavigationOK DEF Performer!Next

LEMMA PerformerImplies == PerformerInv => Performer!TypeOK /\ Performer!PerformerShown
<1> SUFFICES ASSUME PerformerInv PROVE Performer!TypeOK /\ Performer!PerformerShown
  OBVIOUS
<1> DEFINE list == Performer!TheList(PerformerQuery)
<1>1. FeedInv(feed, Performer!Queries) /\ ShowsFirst(feed, list, 1) /\ Len(list) = LastPage
  BY PerformerTheList DEF PerformerInv, PerformerListInv, ListOf
<1> HIDE DEF list
<1>2. /\ feed.page \in Nat /\ feed.page * 1 = feed.page
      /\ feed.page > 1 => (feed.page - 1) * 1 = feed.page - 1
  BY <1>1 DEF FeedInv, FeedTyped, Feed!FeedOK
<1>3. feed.items = SubSeq(list, 1, feed.page)
  <2>1. feed.page <= LastPage
    BY <1>1, <1>2, PerformerConstants DEF ShowsFirst
  <2>2. (IF feed.page < Len(list) THEN feed.page ELSE Len(list)) = feed.page
    BY <1>1, <1>2, <2>1, PerformerConstants
  <2> QED
    BY <1>1, <1>2, <2>2 DEF ShowsFirst, FirstOf
<1>4. feed.asked = NoRequest => feed.page > 0 \/ feed.error = "initial"
  BY <1>1 DEF FeedInv, Tells
<1>5. Performer!FeedOK(feed)
  BY <1>1, PerformerFeed DEF FeedInv, FeedTyped
<1>6. Performer!TypeOK
  BY <1>5 DEF PerformerInv, PerformerListInv, DetailsInv, DetailsTyped, Favoriting,
     Performer!TypeOK
<1>7. ASSUME ~mixed, Performer!DetailsVisible
      PROVE  /\ performer.shown.id = url.id
             /\ favoriting.pc = "idle" => (performer.shown.favorite <=> url.id \in favorites)
  BY <1>7 DEF PerformerInv, DetailsInv, DetailsCurrent
<1> QED
  BY <1>3, <1>4, <1>6, <1>7 DEF Performer!PerformerShown, PerformerQuery, list

-----------------------------------------------------------------------------
(* The performers page. *)

LEMMA PerformersConstants ==
  /\ DOMAIN Names \subseteq Nat /\ IsFiniteSet(DOMAIN Names) /\ ListPageSize \in Nat \ {0}
  /\ NoRequest \notin Feed!RequestsFor(PerformerList!Selections)
  /\ NoNavigation \notin PerformerList!Urls /\ PerformersLinks \subseteq PerformerList!Urls
BY Zenon, PagesAssumption DEF PerformerList!PerformersPageAssumption, PerformerList!LinksAssumption,
   PerformerList!IsFiniteSet, IsFiniteSet, PerformerList!RequestsFor, Feed!RequestsFor

\* The page's lists are those of FeedControl.
LEMMA PerformersFeed ==
  ASSUME NEW f, NEW q, NEW ans, NEW more, NEW seen
  PROVE  /\ PerformerList!NewFeed = Feed!NewFeed
         /\ PerformerList!LoadNextPage(f, q) = Feed!LoadNextPage(f, q)
         /\ PerformerList!ResetFeedAndReload(f, q) = Feed!ResetFeedAndReload(f, q)
         /\ PerformerList!Answered(f, ans, more, q, seen) = Feed!Answered(f, ans, more, q, seen)
         /\ PerformerList!Failed(f, q, seen) = Feed!Failed(f, q, seen)
         /\ PerformerList!FeedOK(f) <=> Feed!FeedOK(f)
BY Zenon DEF PerformerList!NewFeed, PerformerList!LoadNextPage, PerformerList!ResetFeedAndReload,
   PerformerList!Answered, PerformerList!Failed, PerformerList!Finalize, PerformerList!FeedOK,
   Feed!NewFeed, Feed!LoadNextPage, Feed!ResetFeedAndReload,
   Feed!Answered, Feed!Failed, Feed!Finalize, Feed!FeedOK

\* A list of the catalog names each of its performers at one place.
LEMMA CatalogOrdered ==
  ASSUME NEW found \in SUBSET (DOMAIN Names), NEW direction
  PROVE  PerformerList!Ordered(found, direction) \in Seq(found)
<1> DEFINE before(p) == {o \in found : IF direction = "ASC" THEN o < p ELSE o > p}
           order == [p \in found |-> before(p)]
           c == Cardinality(found)
           at(n) == CHOOSE p \in found : PerformerList!Cardinality(before(p)) = n - 1
<1>1. IsFiniteSet(found) /\ found \subseteq Nat
  BY PerformersConstants, FS_Subset
<1>2. Orders(order, found)
  <2>1. order \in [found -> SUBSET found]
    OBVIOUS
  <2>2. \A x \in found : x \notin order[x]
    BY <1>1
  <2>3. \A x, y \in found : x # y => x \in order[y] \/ y \in order[x]
    BY <1>1
  <2>4. \A x, y \in found : x \in order[y] => order[x] \subseteq order[y]
    BY <1>1
  <2> QED
    BY <2>1, <2>2, <2>3, <2>4 DEF Orders
<1>3. c \in Nat /\ \A n \in 1..c : \E p \in found : Cardinality(before(p)) = n - 1
  <2> HIDE DEF before
  <2>1. \A p \in found : order[p] = before(p)
    OBVIOUS
  <2> HIDE DEF order
  <2> QED
    BY <1>1, <1>2, <2>1, Ranks
<1>4. \A S : PerformerList!Cardinality(S) = Cardinality(S)
  BY Zenon DEF PerformerList!Cardinality, Cardinality
<1>5. \A n \in 1..c : at(n) \in found
  <2> HIDE DEF before, c
  <2> QED
    BY <1>3, <1>4
<1>6. PerformerList!Ordered(found, direction) = [n \in 1..c |-> at(n)]
  BY <1>4, Zenon DEF PerformerList!Ordered
<1> HIDE DEF c, at
<1> QED
  BY <1>3, <1>5, <1>6

\* What the catalog lists with the favorites F.
FoundIn(q, F) ==
  {p \in DOMAIN Names : (q.text.word # "" => q.text.word \in Names[p])
                        /\ (q.favoritesOnly => p \in F)}

ResultIn(q, F) == PerformerList!Ordered(FoundIn(q, F), q.direction)

MarkedIn(ids, F) == [n \in DOMAIN ids |-> [id |-> ids[n], favorite |-> ids[n] \in F]]

NextIn(q, page, F) ==
  LET ids == FirstOf(ResultIn(q, F), page * ListPageSize)
  IN SubSeq(ids, (page - 1) * ListPageSize + 1, Len(ids))

PageIn(q, page, F) ==
  [items |-> MarkedIn(NextIn(q, page, F), F),
   hasMore |-> page * ListPageSize < Len(ResultIn(q, F))]

LEMMA CatalogIn ==
  ASSUME NEW q, NEW page
  PROVE  /\ PerformerList!Result(q) = ResultIn(q, favorites)
         /\ PerformerList!PageOf(q, page) = PageIn(q, page, favorites)
<1>1. PerformerList!Result(q) = ResultIn(q, favorites)
  BY DEF PerformerList!Result, ResultIn, FoundIn, PerformerList!Performers
<1>2. PerformerList!Upto(q, page * ListPageSize)
        = FirstOf(ResultIn(q, favorites), page * ListPageSize)
  BY <1>1, Zenon DEF PerformerList!Upto, FirstOf
<1>3. PerformerList!PageOf(q, page) = PageIn(q, page, favorites)
  BY <1>1, <1>2, Zenon DEF PerformerList!PageOf, PerformerList!Shown, PageIn, NextIn, MarkedIn
<1> QED
  BY <1>1, <1>3

LEMMA ResultInSeq ==
  ASSUME NEW q, NEW F
  PROVE  ResultIn(q, F) \in Seq(DOMAIN Names)
<1>1. ResultIn(q, F) \in Seq(FoundIn(q, F))
  BY CatalogOrdered DEF FoundIn, ResultIn
<1>2. FoundIn(q, F) \subseteq DOMAIN Names
  BY DEF FoundIn
<1>3. \A s \in Seq(FoundIn(q, F)) : s \in Seq(DOMAIN Names)
  BY <1>2
<1> QED
  BY <1>1, <1>3

\* The favorites make no difference to a list of all performers.
LEMMA ResultOfAll ==
  ASSUME NEW q, ~q.favoritesOnly, NEW F, NEW G
  PROVE  ResultIn(q, F) = ResultIn(q, G)
<1>1. FoundIn(q, F) = FoundIn(q, G)
  BY DEF FoundIn
<1> QED
  BY <1>1 DEF ResultIn

MarkedItem == [id : DOMAIN Names, favorite : BOOLEAN]

\* The performers of a list, without their marks.
Ids(list) == [n \in DOMAIN list |-> list[n].id]

Named(f) == [page |-> f.page, more |-> f.more, items |-> Ids(f.items)]

LEMMA FunctionIsSeq ==
  ASSUME NEW S, NEW k \in Nat, NEW f \in [1..k -> S]
  PROVE  f \in Seq(S) /\ Len(f) = k /\ DOMAIN f = 1..k
OBVIOUS

LEMMA SeqIsFunction ==
  ASSUME NEW S, NEW s \in Seq(S)
  PROVE  Len(s) \in Nat /\ DOMAIN s = 1..Len(s) /\ s \in [1..Len(s) -> S]
OBVIOUS

LEMMA SubSeqIsSeq ==
  ASSUME NEW S, NEW s \in Seq(S), NEW m \in Nat \ {0}, NEW n \in Int, n <= Len(s)
  PROVE  SubSeq(s, m, n) \in Seq(S)
<1>1. \A i \in m..n : s[i] \in S
  OBVIOUS
<1> QED
  BY <1>1, SubSeqProperties

LEMMA IdsSeq ==
  ASSUME NEW s \in Seq(MarkedItem)
  PROVE  /\ Ids(s) \in Seq(DOMAIN Names) /\ Len(Ids(s)) = Len(s)
         /\ \A n \in 1..Len(s) : Ids(s)[n] = s[n].id
<1> DEFINE k == Len(s)
           at(n) == s[n].id
<1>1. k \in Nat /\ DOMAIN s = 1..k /\ s \in [1..k -> MarkedItem]
  BY SeqIsFunction
<1>2. \A n \in 1..k : at(n) \in DOMAIN Names
  BY <1>1 DEF MarkedItem
<1>3. Ids(s) = [n \in 1..k |-> at(n)]
  BY <1>1 DEF Ids
<1>4. \A n \in 1..k : Ids(s)[n] = s[n].id
  BY <1>3
<1> HIDE DEF at, k
<1>5. Ids(s) \in [1..k -> DOMAIN Names]
  BY <1>2, <1>3
<1>6. Ids(s) \in Seq(DOMAIN Names) /\ Len(Ids(s)) = k
  BY <1>1, <1>5, FunctionIsSeq
<1> QED
  BY <1>4, <1>6 DEF k

LEMMA IdsOK ==
  ASSUME NEW s \in Seq(MarkedItem), NEW t \in Seq(MarkedItem)
  PROVE  Ids(s \o t) = Ids(s) \o Ids(t)
<1> DEFINE u == s \o t
           a == Ids(u)
           b == Ids(s) \o Ids(t)
<1>1. /\ Ids(s) \in Seq(DOMAIN Names) /\ Len(Ids(s)) = Len(s)
      /\ \A n \in 1..Len(s) : Ids(s)[n] = s[n].id
  BY IdsSeq
<1>2. /\ Ids(t) \in Seq(DOMAIN Names) /\ Len(Ids(t)) = Len(t)
      /\ \A n \in 1..Len(t) : Ids(t)[n] = t[n].id
  BY IdsSeq
<1>3. /\ u \in Seq(MarkedItem) /\ Len(u) = Len(s) + Len(t)
      /\ \A n \in 1..Len(u) : u[n] = IF n <= Len(s) THEN s[n] ELSE t[n - Len(s)]
  BY ConcatProperties
<1>4. /\ b \in Seq(DOMAIN Names) /\ Len(b) = Len(s) + Len(t)
      /\ \A n \in 1..Len(b) : b[n] = IF n <= Len(s) THEN Ids(s)[n] ELSE Ids(t)[n - Len(s)]
  BY <1>1, <1>2, ConcatProperties
<1>0. Len(s) \in Nat /\ Len(t) \in Nat
  OBVIOUS
<1> HIDE DEF u, b
<1>5. a \in Seq(DOMAIN Names) /\ Len(a) = Len(u) /\ \A n \in 1..Len(u) : a[n] = u[n].id
  BY <1>3, IdsSeq
<1> HIDE DEF a
<1>6. ASSUME NEW n \in 1..Len(a) PROVE a[n] = b[n]
  <2>1. n \in 1..Len(u) /\ n \in 1..Len(b) /\ a[n] = u[n].id
    BY <1>3, <1>4, <1>5
  <2>2. CASE n <= Len(s)
    <3>1. n \in 1..Len(s)
      BY <2>2, <1>0, <2>1
    <3>2. u[n] = s[n] /\ b[n] = Ids(s)[n] /\ Ids(s)[n] = s[n].id
      BY <2>1, <2>2, <3>1, <1>1, <1>3, <1>4
    <3> QED
      BY <2>1, <3>2
  <2>3. CASE ~(n <= Len(s))
    <3>1. n - Len(s) \in 1..Len(t)
      BY <2>1, <2>3, <1>0, <1>3
    <3>2. u[n] = t[n - Len(s)] /\ b[n] = Ids(t)[n - Len(s)]
      BY <2>1, <2>3, <1>3, <1>4
    <3>3. Ids(t)[n - Len(s)] = t[n - Len(s)].id
      BY <3>1, <1>2
    <3> QED
      BY <2>1, <3>2, <3>3
  <2> QED
    BY <2>2, <2>3
<1>7. a = b
  BY <1>3, <1>4, <1>5, <1>6, SeqEqual
<1> QED
  BY <1>7 DEF a, b, u

LEMMA MarkedOK ==
  ASSUME NEW ids \in Seq(DOMAIN Names), NEW F
  PROVE  /\ MarkedIn(ids, F) \in Seq(MarkedItem)
         /\ Ids(MarkedIn(ids, F)) = ids
         /\ \A n \in DOMAIN MarkedIn(ids, F) :
              MarkedIn(ids, F)[n].favorite <=> MarkedIn(ids, F)[n].id \in F
<1> DEFINE k == Len(ids)
           mark(n) == ids[n] \in F
           at(n) == [id |-> ids[n], favorite |-> mark(n)]
           shown == [n \in 1..k |-> at(n)]
<1>0. k \in Nat /\ DOMAIN ids = 1..k /\ ids \in [1..k -> DOMAIN Names]
  BY SeqIsFunction
<1>1. MarkedIn(ids, F) = shown
  BY <1>0 DEF MarkedIn
<1>2. \A n \in 1..k : mark(n) \in BOOLEAN /\ ids[n] \in DOMAIN Names
  BY <1>0
<1>3. \A n \in 1..k : mark(n) <=> ids[n] \in F
  OBVIOUS
<1> HIDE DEF mark, k
<1>4. \A n \in 1..k : at(n) \in MarkedItem /\ at(n).id = ids[n] /\ at(n).favorite = mark(n)
  BY <1>2 DEF MarkedItem
<1> HIDE DEF at
<1>5. shown \in [1..k -> MarkedItem]
  BY <1>4
<1>6. shown \in Seq(MarkedItem) /\ Len(shown) = k /\ DOMAIN shown = 1..k
  BY <1>0, <1>5, FunctionIsSeq
<1>7. Ids(shown) = ids
  <2>1. Ids(shown) = [n \in 1..k |-> ids[n]]
    BY <1>4, <1>6 DEF Ids
  <2> QED
    BY <2>1, <1>0
<1> QED
  BY <1>1, <1>3, <1>4, <1>6, <1>7

LEMMA NextInSeq ==
  ASSUME NEW q, NEW page \in Nat \ {0}, NEW F
  PROVE  NextIn(q, page, F) \in Seq(DOMAIN Names)
<1> DEFINE r == ResultIn(q, F)
           n == page * ListPageSize
           k == (page - 1) * ListPageSize
           ids == FirstOf(r, n)
<1>1. r \in Seq(DOMAIN Names)
  BY ResultInSeq
<1>2. n \in Nat /\ k \in Nat
  <2>1. page - 1 \in Nat /\ ListPageSize \in Nat
    BY PerformersConstants
  <2> QED
    BY <2>1
<1> HIDE DEF r, n, k
<1>3. ids \in Seq(DOMAIN Names)
  <2>1. Len(r) \in Nat
    BY <1>1
  <2>2. PICK m \in Int : m = (IF n < Len(r) THEN n ELSE Len(r)) /\ m <= Len(r)
    BY <1>2, <2>1
  <2> QED
    BY <1>1, <2>2, SubSeqIsSeq DEF FirstOf
<1> HIDE DEF ids
<1>4. SubSeq(ids, k + 1, Len(ids)) \in Seq(DOMAIN Names)
  <2>1. k + 1 \in Nat \ {0} /\ Len(ids) \in Int /\ Len(ids) <= Len(ids)
    BY <1>2, <1>3
  <2> QED
    BY <1>3, <2>1, SubSeqIsSeq
<1> QED
  BY <1>4 DEF NextIn, ids, r, n, k

\* The selections that the catalog answers alike.
CatalogAlike(s) ==
  {o \in PerformerList!Selections :
     o.text.word = s.text.word /\ o.direction = s.direction /\ o.favoritesOnly = s.favoritesOnly}

LEMMA CatalogAlikeOK ==
  ASSUME NEW s \in PerformerList!Selections
  PROVE  /\ s \in CatalogAlike(s)
         /\ \A o \in CatalogAlike(s) : \A F : ResultIn(o, F) = ResultIn(s, F)
<1>1. s \in CatalogAlike(s)
  BY DEF CatalogAlike
<1>2. ASSUME NEW o \in CatalogAlike(s), NEW F PROVE ResultIn(o, F) = ResultIn(s, F)
  <2>1. FoundIn(o, F) = FoundIn(s, F)
    BY DEF FoundIn, CatalogAlike
  <2>2. o.direction = s.direction
    BY DEF CatalogAlike
  <2> QED
    BY <2>1, <2>2 DEF ResultIn
<1> QED
  BY <1>1, <1>2

\* The favorites are set and not shown yet.
Pending == \E p \in DOMAIN Names : toggles[p].pc = "done"

Marked ==
  \A n \in DOMAIN feed.items :
    toggles[feed.items[n].id].pc # "done" =>
      (feed.items[n].favorite <=> feed.items[n].id \in favorites)

PerformersTypes ==
  /\ selection \in PerformerList!Selections
  /\ url \in PerformerList!Urls /\ navigation \in PerformerList!Urls \cup {NoNavigation}
  /\ {timer, debounced} \subseteq PerformerList!Texts \cup {NoText}
  /\ intersecting \in BOOLEAN /\ owed \in BOOLEAN /\ astray \in BOOLEAN

Toggle == [pc : {"idle", "sent", "done"}, to : BOOLEAN, late : SUBSET BOOLEAN]

TogglesInv ==
  /\ favorites \subseteq DOMAIN Names
  /\ toggles \in [DOMAIN Names -> Toggle]

AnswerInv ==
  /\ feed.asked = NoRequest => answer = NoAnswer
  /\ answer # NoAnswer =>
       /\ answer.hasMore \in BOOLEAN
       /\ ~feed.asked.stale =>
            /\ answer.items \in Seq(MarkedItem)
            /\ ~astray => answer = PageIn(feed.asked.query, feed.asked.page, favorites)

\* The list is the one of the filters, unless a favorite that it is about is set and not shown.
PerformersList ==
  /\ FeedInv(feed, PerformerList!Selections) /\ feed.items \in Seq(MarkedItem)
  /\ ~owed => AsksFor(feed, CatalogAlike(selection))
  /\ ~owed /\ ~astray /\ (selection.favoritesOnly => ~Pending) =>
       /\ ShowsFirst(Named(feed), ResultIn(selection, favorites), ListPageSize)
       /\ Marked

PerformersInv == PerformersTypes /\ TogglesInv /\ AnswerInv /\ PerformersList

LEMMA PerformersKept ==
  PerformersInv
    /\ UNCHANGED <<PageVars, TextVars, FavoritesVars, AnswerVars, PerformersVars>> => PerformersInv'
BY DEF PerformersInv, PerformersTypes, TogglesInv, AnswerInv, PerformersList, Pending, Marked,
   PageVars, TextVars, FavoritesVars, AnswerVars, PerformersVars

\* A list that is started anew.
LEMMA PerformersReset ==
  ASSUME PerformersInv, NEW s \in PerformerList!Selections, selection' = s,
         PerformerList!Reset(s), answer' = answer
  PROVE  AnswerInv' /\ PerformersList' /\ owed' = FALSE /\ astray' = FALSE
<1> DEFINE g == Feed!ResetFeedAndReload(feed, s)
<1>1. feed' = g /\ owed' = FALSE /\ astray' = FALSE
  BY PerformersFeed DEF PerformerList!Reset
<1>2. /\ FeedInv(g, PerformerList!Selections) /\ AsksFor(g, {s}) /\ g.page = 0 /\ g.items = <<>>
      /\ g.asked # NoRequest /\ (feed.asked # NoRequest => g.asked.stale)
  BY ResetFeed, PerformersConstants DEF PerformersInv, PerformersList
<1> HIDE DEF g
<1>3. AnswerInv'
  BY <1>1, <1>2 DEF PerformersInv, AnswerInv
<1>4. AsksFor(g, CatalogAlike(s))
  BY <1>2, CatalogAlikeOK DEF AsksFor
<1>5. ShowsFirst(Named(g), ResultIn(s, favorites'), ListPageSize)
  <2>1. Named(g).page = 0 /\ Named(g).items = <<>>
    BY <1>2 DEF Named, Ids
  <2>2. PICK r : r = ResultIn(s, favorites') /\ r \in Seq(DOMAIN Names)
    BY ResultInSeq
  <2> QED
    BY <2>1, <2>2, PerformersConstants, EmptyShows
<1>6. Marked'
  <2>1. DOMAIN g.items = {}
    BY <1>2
  <2> QED
    BY <1>1, <2>1 DEF Marked
<1>7. g.items \in Seq(MarkedItem)
  BY <1>2
<1> QED
  BY <1>1, <1>2, <1>3, <1>4, <1>5, <1>6, <1>7 DEF PerformersList

LEMMA CatalogText ==
  ASSUME NEW t \in PerformerList!Texts
  PROVE  /\ PerformerList!Trimmed(t).word = t.word /\ PerformerList!Trimmed(t).blank = FALSE
         /\ PerformerList!Trimmed(t) \in PerformerList!Texts
<1>1. t = [word |-> t.word, blank |-> t.blank] /\ t.word \in Words \cup {""}
  BY DEF PerformerList!Texts
<1>2. PerformerList!Trimmed(t) = [word |-> t.word, blank |-> FALSE]
  <2>1. \A c : [[word |-> t.word, blank |-> t.blank] EXCEPT !.blank = c] = [word |-> t.word, blank |-> c]
    OBVIOUS
  <2>2. PerformerList!Trimmed(t) = [[word |-> t.word, blank |-> t.blank] EXCEPT !.blank = FALSE]
    BY <1>1, Zenon DEF PerformerList!Trimmed
  <2> QED
    BY <2>1, <2>2, Zenon
<1>3. [word |-> t.word, blank |-> FALSE] \in PerformerList!Texts
  BY <1>1 DEF PerformerList!Texts
<1> QED
  BY <1>2, <1>3

LEMMA CatalogUrl ==
  ASSUME NEW s \in PerformerList!Selections
  PROVE  PerformerList!UrlOf(s) \in PerformerList!Urls
<1>1. s.text \in PerformerList!Texts
  BY DEF PerformerList!Selections
<1> DEFINE t == PerformerList!Trimmed(s.text)
<1>2. t \in PerformerList!Texts /\ t.blank = FALSE
  BY <1>1, CatalogText
<1>3. PerformerList!UrlOf(s) = [s EXCEPT !.text = t]
  BY Zenon DEF PerformerList!UrlOf
<1> HIDE DEF t
<1>4. [s EXCEPT !.text = t] \in PerformerList!Selections /\ [s EXCEPT !.text = t].text = t
  BY <1>2 DEF PerformerList!Selections
<1> QED
  BY <1>2, <1>3, <1>4 DEF PerformerList!Urls

LEMMA CatalogChosen ==
  ASSUME PerformersInv, NEW s \in PerformerList!Selections, PerformerList!Chosen(s)
  PROVE  selection' = s /\ navigation' \in PerformerList!Urls \cup {NoNavigation}
BY CatalogUrl DEF PerformersInv, PerformersTypes, PerformerList!Chosen,
   PerformerList!SyncUrlWithCurrentFilters

LEMMA OnNameFilterChangedOK ==
  ASSUME PerformersInv, NEW text \in PerformerList!Texts, PerformerList!OnNameFilterChanged(text)
  PROVE  PerformersInv'
<1> DEFINE s == [selection EXCEPT !.text = text]
<1>1. /\ PerformerList!Chosen(s) /\ timer' = text
      /\ owed' = (owed \/ PerformerList!Trimmed(text) # PerformerList!Trimmed(selection.text))
      /\ UNCHANGED <<feed, url, intersecting, debounced, favorites, toggles, answer, astray>>
  BY DEF PerformerList!OnNameFilterChanged
<1>2. selection \in PerformerList!Selections /\ selection.text \in PerformerList!Texts
  BY DEF PerformersInv, PerformersTypes, PerformerList!Selections
<1>3. /\ s \in PerformerList!Selections /\ s.text = text
      /\ s.direction = selection.direction /\ s.favoritesOnly = selection.favoritesOnly
  BY <1>2 DEF PerformerList!Selections
<1> HIDE DEF s
<1>4. selection' = s /\ navigation' \in PerformerList!Urls \cup {NoNavigation}
  BY <1>1, <1>3, CatalogChosen
<1>5. PerformersTypes'
  BY <1>1, <1>3, <1>4 DEF PerformersInv, PerformersTypes
<1>6. ASSUME ~owed'
      PROVE  ~owed /\ CatalogAlike(s) = CatalogAlike(selection)
             /\ ResultIn(s, favorites) = ResultIn(selection, favorites)
  <2>1. ~owed /\ PerformerList!Trimmed(text) = PerformerList!Trimmed(selection.text)
    BY <1>1, <1>6
  <2>2. text.word = selection.text.word
    BY <1>2, <2>1, CatalogText
  <2>3. CatalogAlike(s) = CatalogAlike(selection)
    BY <1>3, <2>2 DEF CatalogAlike
  <2>4. s \in CatalogAlike(selection)
    BY <1>3, <2>2 DEF CatalogAlike
  <2> QED
    BY <1>2, <2>1, <2>3, <2>4, CatalogAlikeOK
<1>7. PerformersList'
  BY <1>1, <1>3, <1>4, <1>6 DEF PerformersInv, PerformersList, Pending, Marked
<1>8. TogglesInv' /\ AnswerInv'
  BY <1>1 DEF PerformersInv, TogglesInv, AnswerInv
<1> QED
  BY <1>5, <1>7, <1>8 DEF PerformersInv

LEMMA NameDebouncedOK ==
  ASSUME PerformersInv, PerformerList!NameDebounced
  PROVE  PerformersInv'
<1>1. /\ timer' = NoText /\ debounced' = timer
      /\ UNCHANGED <<answer, selection, url, navigation, intersecting, favorites, toggles>>
      /\ PerformerList!Reset(selection) \/ UNCHANGED <<feed, owed, astray>>
  BY DEF PerformerList!NameDebounced
<1>2. TogglesInv'
  BY <1>1 DEF PerformersInv, TogglesInv
<1>3. CASE PerformerList!Reset(selection)
  <2>1. PICK s \in PerformerList!Selections : s = selection
    BY DEF PerformersInv, PerformersTypes
  <2>2. AnswerInv' /\ PerformersList' /\ owed' = FALSE /\ astray' = FALSE
    BY <1>1, <1>3, <2>1, PerformersReset
  <2>3. PerformersTypes'
    BY <1>1, <2>2 DEF PerformersInv, PerformersTypes
  <2> QED
    BY <1>2, <2>2, <2>3 DEF PerformersInv
<1>4. CASE UNCHANGED <<feed, owed, astray>>
  BY <1>1, <1>4 DEF PerformersInv, PerformersTypes, TogglesInv, AnswerInv, PerformersList,
     Pending, Marked
<1> QED
  BY <1>1, <1>3, <1>4

LEMMA CatalogFiltersOK ==
  ASSUME PerformersInv, NEW s \in PerformerList!Selections, PerformerList!Chosen(s),
         PerformerList!Reset(s),
         UNCHANGED <<answer, url, intersecting, timer, debounced, favorites, toggles>>
  PROVE  PerformersInv'
<1>1. selection' = s /\ navigation' \in PerformerList!Urls \cup {NoNavigation}
  BY CatalogChosen
<1>2. AnswerInv' /\ PerformersList' /\ owed' = FALSE /\ astray' = FALSE
  BY <1>1, PerformersReset
<1>3. PerformersTypes' /\ TogglesInv'
  BY <1>1, <1>2 DEF PerformersInv, PerformersTypes, TogglesInv
<1> QED
  BY <1>2, <1>3 DEF PerformersInv

LEMMA CatalogChoicesOK ==
  ASSUME PerformersInv,
         \/ \E direction \in {"ASC", "DESC"} : PerformerList!OnDirectionChanged(direction)
         \/ PerformerList!OnFavoritesOnlyChanged
  PROVE  PerformersInv'
<1>0. selection \in PerformerList!Selections
  BY DEF PerformersInv, PerformersTypes
<1>1. ASSUME NEW direction \in {"ASC", "DESC"}, PerformerList!OnDirectionChanged(direction)
      PROVE  PerformersInv'
  <2> DEFINE s == [selection EXCEPT !.direction = direction]
  <2>1. s \in PerformerList!Selections
    BY <1>0 DEF PerformerList!Selections
  <2>2. /\ PerformerList!Chosen(s) /\ PerformerList!Reset(s)
        /\ UNCHANGED <<answer, url, intersecting, timer, debounced, favorites, toggles>>
    BY <1>1 DEF PerformerList!OnDirectionChanged
  <2> HIDE DEF s
  <2> QED
    BY <2>1, <2>2, CatalogFiltersOK
<1>2. CASE PerformerList!OnFavoritesOnlyChanged
  <2> DEFINE s == [selection EXCEPT !.favoritesOnly = ~selection.favoritesOnly]
  <2>1. s \in PerformerList!Selections
    BY <1>0 DEF PerformerList!Selections
  <2>2. /\ PerformerList!Chosen(s) /\ PerformerList!Reset(s)
        /\ UNCHANGED <<answer, url, intersecting, timer, debounced, favorites, toggles>>
    BY <1>2 DEF PerformerList!OnFavoritesOnlyChanged
  <2> HIDE DEF s
  <2> QED
    BY <2>1, <2>2, CatalogFiltersOK
<1> QED
  BY <1>1, <1>2

LEMMA CatalogAddressOK ==
  ASSUME PerformersInv,
         \/ \E u \in PerformersLinks : PerformerList!BrowserNavigates(u)
         \/ PerformerList!NavigationEnds
  PROVE  PerformersInv'
<1>1. ASSUME NEW u \in PerformersLinks, PerformerList!BrowserNavigates(u) PROVE PerformersInv'
  <2>1. /\ navigation' = u /\ u \in PerformerList!Urls
        /\ UNCHANGED <<feed, selection, url, intersecting, timer, debounced, owed, favorites,
                       toggles, answer, astray>>
    BY <1>1, PerformersConstants DEF PerformerList!BrowserNavigates
  <2> QED
    BY <2>1 DEF PerformersInv, PerformersTypes, TogglesInv, AnswerInv, PerformersList, Pending, Marked
<1>2. CASE PerformerList!NavigationEnds
  <2>1. /\ navigation # NoNavigation /\ url' = navigation /\ selection' = navigation
        /\ navigation' = NoNavigation
        /\ UNCHANGED <<answer, intersecting, timer, debounced, favorites, toggles>>
        /\ \/ PerformerList!Reset(navigation)
           \/ navigation = selection /\ UNCHANGED <<feed, owed, astray>>
    BY <1>2 DEF PerformerList!NavigationEnds
  <2>2. PICK s \in PerformerList!Urls : s = navigation
    BY <2>1 DEF PerformersInv, PerformersTypes
  <2>3. s \in PerformerList!Selections
    BY DEF PerformerList!Urls
  <2>4. TogglesInv'
    BY <2>1 DEF PerformersInv, TogglesInv
  <2>5. CASE PerformerList!Reset(navigation)
    <3>1. AnswerInv' /\ PerformersList' /\ owed' = FALSE /\ astray' = FALSE
      BY <2>1, <2>2, <2>3, <2>5, PerformersReset
    <3>2. PerformersTypes'
      BY <2>1, <2>2, <2>3, <3>1 DEF PerformersInv, PerformersTypes
    <3> QED
      BY <2>4, <3>1, <3>2 DEF PerformersInv
  <2>6. CASE navigation = selection /\ UNCHANGED <<feed, owed, astray>>
    BY <2>1, <2>2, <2>3, <2>6 DEF PerformersInv, PerformersTypes, TogglesInv, AnswerInv,
       PerformersList, Pending, Marked
  <2> QED
    BY <2>1, <2>5, <2>6
<1> QED
  BY <1>1, <1>2

LEMMA ItemIds ==
  ASSUME NEW s \in Seq(MarkedItem)
  PROVE  \A n \in DOMAIN s : s[n] \in MarkedItem /\ s[n].id \in DOMAIN Names
<1>1. \A n \in DOMAIN s : s[n] \in MarkedItem
  BY SeqIsFunction
<1> QED
  BY <1>1 DEF MarkedItem

\* A favorite is asked for, or not asked for any more before the catalog has set it.
LEMMA SameDone ==
  ASSUME PerformersInv, NEW p \in DOMAIN Names, NEW t \in Toggle, t.pc # "done",
         toggles[p].pc # "done", toggles' = [toggles EXCEPT ![p] = t],
         UNCHANGED <<feed, selection, url, navigation, intersecting, timer, debounced, owed,
                     favorites, answer, astray>>
  PROVE  PerformersInv'
<1>1. TogglesInv'
  BY DEF PerformersInv, TogglesInv
<1>2. \A o \in DOMAIN Names : toggles'[o].pc = "done" <=> toggles[o].pc = "done"
  BY DEF PerformersInv, TogglesInv
<1>3. Pending' <=> Pending
  BY <1>2 DEF Pending
<1>4. \A n \in DOMAIN feed.items : feed.items[n].id \in DOMAIN Names
  BY ItemIds DEF PerformersInv, PerformersList
<1>5. Marked => Marked'
  BY <1>2, <1>4 DEF Marked
<1>6. PerformersList'
  BY <1>3, <1>5 DEF PerformersInv, PerformersList
<1>7. PerformersTypes' /\ AnswerInv'
  BY DEF PerformersInv, PerformersTypes, AnswerInv
<1> QED
  BY <1>1, <1>6, <1>7 DEF PerformersInv

LEMMA TogglePerformerFavoriteOK ==
  ASSUME PerformersInv, NEW n \in DOMAIN feed.items, PerformerList!TogglePerformerFavorite(n)
  PROVE  PerformersInv'
<1> DEFINE p == feed.items[n].id
           on == ~feed.items[n].favorite
           t == [toggles[p] EXCEPT !.pc = "sent", !.to = on]
<1>1. p \in DOMAIN Names
  BY ItemIds DEF PerformersInv, PerformersList
<1>2. toggles' = [toggles EXCEPT ![p] = t] /\ toggles[p].pc = "idle"
  BY DEF PerformerList!TogglePerformerFavorite
<1>3. on \in BOOLEAN
  OBVIOUS
<1>4. UNCHANGED <<feed, selection, url, navigation, intersecting, timer, debounced, owed,
                  favorites, answer, astray>>
  BY DEF PerformerList!TogglePerformerFavorite
<1> HIDE DEF on, p
<1>5. t \in Toggle /\ t.pc # "done"
  BY <1>1, <1>3 DEF PerformersInv, TogglesInv, Toggle
<1> HIDE DEF t
<1>6. toggles[p].pc # "done"
  BY <1>2
<1> QED
  BY <1>1, <1>2, <1>4, <1>5, <1>6, SameDone

LEMMA EndedInList ==
  ASSUME TogglesInv, NEW p \in DOMAIN Names, NEW late \in SUBSET BOOLEAN
  PROVE  \E t \in Toggle : t.pc = "idle" /\ PerformerList!Ended(p, late) = [toggles EXCEPT ![p] = t]
<1> DEFINE t == [PerformerList!NoToggle EXCEPT !.late = late]
<1>1. t \in Toggle /\ t.pc = "idle"
  BY DEF PerformerList!NoToggle, Toggle
<1>2. PerformerList!Ended(p, late) = [toggles EXCEPT ![p] = t]
  BY DEF PerformerList!Ended
<1> HIDE DEF t
<1> QED
  BY <1>1, <1>2

LEMMA FavoriteFailsInList ==
  ASSUME PerformersInv, NEW p \in DOMAIN Names, PerformerList!FavoriteFails(p)
  PROVE  PerformersInv'
<1>1. /\ \/ toggles' = PerformerList!Ended(p, toggles[p].late)
         \/ toggles' = PerformerList!Ended(p, toggles[p].late \cup {toggles[p].to})
      /\ astray' = (astray \/ toggles[p].pc = "done")
      /\ UNCHANGED <<feed, selection, url, navigation, intersecting, timer, debounced, owed,
                     favorites, answer>>
  BY DEF PerformerList!FavoriteFails
<1>2. PICK t \in Toggle : t.pc = "idle" /\ toggles' = [toggles EXCEPT ![p] = t]
  <2>1. TogglesInv /\ toggles[p].late \subseteq BOOLEAN /\ toggles[p].to \in BOOLEAN
    BY DEF PerformersInv, TogglesInv, Toggle
  <2> QED
    BY <1>1, <2>1, EndedInList
<1>3. CASE toggles[p].pc # "done"
  <2>1. astray' = astray
    BY <1>1, <1>3 DEF PerformersInv, PerformersTypes
  <2> QED
    BY <1>1, <1>2, <1>3, <2>1, SameDone
<1>4. CASE toggles[p].pc = "done"
  <2>1. astray' = TRUE
    BY <1>1, <1>4
  <2>2. TogglesInv'
    BY <1>1, <1>2 DEF PerformersInv, TogglesInv
  <2>3. PerformersTypes' /\ AnswerInv' /\ PerformersList'
    BY <1>1, <2>1 DEF PerformersInv, PerformersTypes, AnswerInv, PerformersList
  <2> QED
    BY <2>2, <2>3 DEF PerformersInv
<1> QED
  BY <1>3, <1>4

\* The list does not follow a favorite that comes late.
LEMMA LateFavoriteInList ==
  ASSUME PerformersInv, NEW p \in DOMAIN Names, NEW to \in BOOLEAN,
         PerformerList!LateFavorite(p, to)
  PROVE  PerformersInv'
<1>1. /\ toggles' = [toggles EXCEPT ![p].late = @ \ {to}]
      /\ favorites' = IF to THEN favorites \cup {p} ELSE favorites \ {p}
      /\ astray' = TRUE
      /\ UNCHANGED <<feed, selection, url, navigation, intersecting, timer, debounced, owed, answer>>
  BY DEF PerformerList!LateFavorite, PerformerList!FavoritesWith
<1>2. TogglesInv'
  <2>1. toggles \in [DOMAIN Names -> Toggle] /\ favorites' \subseteq DOMAIN Names
    BY <1>1 DEF PerformersInv, TogglesInv
  <2>2. [toggles[p] EXCEPT !.late = @ \ {to}] \in Toggle
    BY <2>1 DEF Toggle
  <2>3. toggles' = [toggles EXCEPT ![p] = [toggles[p] EXCEPT !.late = @ \ {to}]]
    BY <1>1
  <2> QED
    BY <2>1, <2>2, <2>3 DEF TogglesInv
<1>3. PerformersTypes' /\ AnswerInv' /\ PerformersList'
  BY <1>1 DEF PerformersInv, PerformersTypes, AnswerInv, PerformersList
<1> QED
  BY <1>2, <1>3 DEF PerformersInv

LEMMA CatalogSetsFavoriteInList ==
  ASSUME PerformersInv, NEW p \in DOMAIN Names, PerformerList!CatalogSetsFavorite(p)
  PROVE  PerformersInv'
<1>1. /\ toggles' = [toggles EXCEPT ![p].pc = "done"]
      /\ favorites' = IF toggles[p].to THEN favorites \cup {p} ELSE favorites \ {p}
      /\ astray' = (astray \/ answer # NoAnswer)
      /\ UNCHANGED <<feed, selection, url, navigation, intersecting, timer, debounced, owed, answer>>
  BY DEF PerformerList!CatalogSetsFavorite, PerformerList!FavoritesWith
<1>2. TogglesInv
  BY DEF PerformersInv
<1>3. /\ toggles' \in [DOMAIN Names -> Toggle]
      /\ toggles'[p].pc = "done" /\ toggles'[p].to = toggles[p].to
      /\ \A o \in DOMAIN Names : o # p => toggles'[o] = toggles[o]
  BY <1>1, <1>2 DEF TogglesInv, Toggle
<1>4. /\ favorites' \subseteq DOMAIN Names /\ (p \in favorites' <=> toggles[p].to)
      /\ \A o : o # p => (o \in favorites' <=> o \in favorites)
  BY <1>1, <1>2 DEF TogglesInv
<1>5. TogglesInv'
  BY <1>2, <1>3, <1>4 DEF TogglesInv
<1>6. PerformersTypes'
  BY <1>1 DEF PerformersInv, PerformersTypes
<1>7. AnswerInv'
  <2>1. answer # NoAnswer => astray'
    BY <1>1
  <2> QED
    BY <1>1, <2>1 DEF PerformersInv, AnswerInv
<1>8. ASSUME ~owed', ~astray', selection'.favoritesOnly => ~Pending'
      PROVE  /\ ShowsFirst(Named(feed'), ResultIn(selection', favorites'), ListPageSize)
             /\ Marked'
  <2>1. ~owed /\ ~astray
    BY <1>1, <1>8
  <2>2. Pending'
    BY <1>3 DEF Pending
  <2>3. ~selection.favoritesOnly
    BY <1>1, <1>8, <2>2
  <2>4. ShowsFirst(Named(feed), ResultIn(selection, favorites), ListPageSize) /\ Marked
    BY <2>1, <2>3 DEF PerformersInv, PerformersList
  <2>5. ResultIn(selection, favorites') = ResultIn(selection, favorites)
    BY <2>3, ResultOfAll
  <2>6. Marked'
    <3>1. \A n \in DOMAIN feed.items : feed.items[n].id \in DOMAIN Names
      BY ItemIds DEF PerformersInv, PerformersList
    <3> QED
      BY <1>1, <1>3, <1>4, <2>4, <3>1 DEF Marked
  <2> QED
    BY <1>1, <2>4, <2>5, <2>6
<1>9. PerformersList'
  BY <1>1, <1>8 DEF PerformersInv, PerformersList
<1> QED
  BY <1>5, <1>6, <1>7, <1>9 DEF PerformersInv

\* A list whose items are replaced.
WithItems(f, l) == [f EXCEPT !.items = l]

\* Other items, as many.
LEMMA OtherItems ==
  ASSUME NEW f, NEW queries, FeedInv(f, queries), NEW l, f.page = 0 => l = <<>>,
         NEW g, g = WithItems(f, l)
  PROVE  /\ FeedInv(g, queries) /\ g.items = l
         /\ g.page = f.page /\ g.more = f.more /\ g.asked = f.asked
<1>1. g = [page |-> f.page, more |-> f.more, items |-> l, asked |-> f.asked,
           reload |-> f.reload, error |-> f.error]
  BY DEF FeedInv, FeedTyped, WithItems
<1>2. /\ g.page = f.page /\ g.more = f.more /\ g.items = l /\ g.asked = f.asked
      /\ g.reload = f.reload /\ g.error = f.error
  BY <1>1
<1> QED
  BY <1>1, <1>2, Zenon DEF FeedInv, FeedTyped, Feed!FeedOK, Tells

LEMMA FavoriteAnsweredInList ==
  ASSUME PerformersInv, NEW p \in DOMAIN Names, PerformerList!FavoriteAnswered(p)
  PROVE  PerformersInv'
<1>1. /\ toggles[p].pc = "done" /\ toggles' = PerformerList!Ended(p, toggles[p].late)
      /\ UNCHANGED <<answer, selection, url, navigation, intersecting, timer, debounced, favorites>>
      /\ PerformerList!ShowFavorite(p)
  BY DEF PerformerList!FavoriteAnswered
<1>2. PICK t \in Toggle : t.pc = "idle" /\ toggles' = [toggles EXCEPT ![p] = t]
  <2>1. TogglesInv /\ toggles[p].late \subseteq BOOLEAN
    BY DEF PerformersInv, TogglesInv, Toggle
  <2> QED
    BY <1>1, <2>1, EndedInList
<1>3. TogglesInv'
  BY <1>1, <1>2 DEF PerformersInv, TogglesInv
<1>4. CASE PerformerList!Reset(selection)
  <2>1. PICK s \in PerformerList!Selections : s = selection
    BY DEF PerformersInv, PerformersTypes
  <2>2. AnswerInv' /\ PerformersList' /\ owed' = FALSE /\ astray' = FALSE
    BY <1>1, <1>4, <2>1, PerformersReset
  <2>3. PerformersTypes'
    BY <1>1, <2>2 DEF PerformersInv, PerformersTypes
  <2> QED
    BY <1>3, <2>2, <2>3 DEF PerformersInv
<1>5. CASE PerformerList!MarkItem(p) /\ ~(selection.favoritesOnly /\ ~toggles[p].to)
  <2> DEFINE old == feed.items
             on == toggles[p].to
             at(n) == IF old[n].id = p THEN [old[n] EXCEPT !.favorite = on] ELSE old[n]
             list == [n \in DOMAIN old |-> at(n)]
  <2>1. /\ feed' = [feed EXCEPT !.items = list]
        /\ astray' = (astray \/ (selection.favoritesOnly /\ on) \/ (on # (p \in favorites)))
        /\ owed' = owed
    BY <1>5 DEF PerformerList!MarkItem
  <2>2. on \in BOOLEAN
    BY <1>1 DEF PerformersInv, TogglesInv, Toggle
  <2>3. old \in Seq(MarkedItem) /\ FeedInv(feed, PerformerList!Selections)
    BY DEF PerformersInv, PerformersList
  <2>4. feed.page = 0 => old = <<>>
    BY <2>3 DEF FeedInv, FeedTyped, Feed!FeedOK
  <2>5. PICK k \in Nat : k = Len(old) /\ DOMAIN old = 1..k /\ old \in [1..k -> MarkedItem]
    BY <2>3, SeqIsFunction
  <2>6. feed.page = 0 => list = <<>>
    BY <2>4
  <2> HIDE DEF old, on
  <2>7. \A n \in 1..k :
          /\ at(n) \in MarkedItem /\ at(n).id = old[n].id
          /\ at(n).favorite = IF old[n].id = p THEN on ELSE old[n].favorite
    <3> TAKE n \in 1..k
    <3>1. old[n] \in MarkedItem
      BY <2>5
    <3> QED
      BY <2>2, <3>1 DEF MarkedItem
  <2> HIDE DEF at
  <2>8. list \in [1..k -> MarkedItem] /\ \A n \in 1..k : list[n] = at(n)
    BY <2>5, <2>7
  <2>9. list \in Seq(MarkedItem) /\ DOMAIN list = 1..k
    BY <2>8, FunctionIsSeq
  <2>10. Ids(list) = Ids(old)
    BY <2>5, <2>7, <2>8, <2>9 DEF Ids
  <2> HIDE DEF list
  <2>11. /\ FeedInv(feed', PerformerList!Selections) /\ feed'.items = list
         /\ feed'.page = feed.page /\ feed'.more = feed.more /\ feed'.asked = feed.asked
    <3>1. PICK queries : queries = PerformerList!Selections
      OBVIOUS
    <3>2. PICK f : f = feed
      OBVIOUS
    <3>3. PICK g : g = feed'
      OBVIOUS
    <3>4. FeedInv(f, queries) /\ g = WithItems(f, list) /\ (f.page = 0 => list = <<>>)
      BY <2>1, <2>3, <2>6, <3>1, <3>2, <3>3 DEF WithItems
    <3>5. /\ FeedInv(g, queries) /\ g.items = list
          /\ g.page = f.page /\ g.more = f.more /\ g.asked = f.asked
      BY <3>4, OtherItems
    <3> QED
      BY <3>1, <3>2, <3>3, <3>5
  <2>12. Named(feed') = Named(feed)
    BY <2>10, <2>11, Zenon DEF Named, old
  <2>13. Marked /\ ~astray' => Marked'
    <3> SUFFICES ASSUME Marked, ~astray', NEW n \in 1..k, toggles'[list[n].id].pc # "done"
                 PROVE  list[n].favorite <=> list[n].id \in favorites
      BY <1>1, <2>9, <2>11 DEF Marked
    <3>1. list[n].id = old[n].id /\ old[n].id \in DOMAIN Names
      BY <2>5, <2>7, <2>8 DEF MarkedItem
    <3>2. CASE old[n].id = p
      <4>1. on <=> p \in favorites
        BY <2>1, <2>2
      <4> QED
        BY <2>7, <2>8, <3>1, <3>2, <4>1
    <3>3. CASE old[n].id # p
      <4>1. toggles'[old[n].id] = toggles[old[n].id]
        BY <1>2, <3>1, <3>3 DEF PerformersInv, TogglesInv
      <4>2. list[n].favorite = old[n].favorite
        BY <2>7, <2>8, <3>3
      <4> QED
        BY <2>5, <3>1, <4>1, <4>2 DEF Marked, old
    <3> QED
      BY <3>2, <3>3
  <2>14. ASSUME ~owed', ~astray' PROVE ~owed /\ ~astray /\ ~selection.favoritesOnly
    BY <1>5, <2>1, <2>14 DEF on
  <2>15. PerformersList'
    BY <1>1, <2>1, <2>9, <2>11, <2>12, <2>13, <2>14 DEF PerformersInv, PerformersList, AsksFor
  <2>16. AnswerInv'
    BY <1>1, <2>1, <2>11 DEF PerformersInv, AnswerInv
  <2>17. PerformersTypes'
    BY <1>1, <2>1 DEF PerformersInv, PerformersTypes
  <2> QED
    BY <1>3, <2>15, <2>16, <2>17 DEF PerformersInv
<1> QED
  BY <1>1, <1>4, <1>5 DEF PerformerList!ShowFavorite

\* More is asked for, or nothing, or the request fails: what is shown stays.
LEMMA PerformersMore ==
  ASSUME PerformersInv, FeedInv(feed', PerformerList!Selections), SameList(feed, feed'),
         ~owed => AsksFor(feed', CatalogAlike(selection)),
         intersecting' \in BOOLEAN, AnswerInv',
         UNCHANGED <<selection, url, navigation, timer, debounced, owed, favorites, toggles, astray>>
  PROVE  PerformersInv'
<1>1. feed'.page = feed.page /\ feed'.more = feed.more /\ feed'.items = feed.items
  BY DEF SameList
<1>2. Named(feed') = Named(feed) /\ (Marked => Marked') /\ (Pending' <=> Pending)
  BY <1>1 DEF Named, Marked, Pending
<1>3. PerformersList'
  BY <1>1, <1>2 DEF PerformersInv, PerformersList
<1>4. PerformersTypes' /\ TogglesInv'
  BY DEF PerformersInv, PerformersTypes, TogglesInv
<1> QED
  BY <1>3, <1>4 DEF PerformersInv

LEMMA CatalogMoreOK ==
  ASSUME PerformersInv,
         PerformerList!Retry \/ \E seen \in BOOLEAN : PerformerList!Scrolls(seen)
  PROVE  PerformersInv'
<1>1. /\ UNCHANGED <<selection, url, navigation, timer, debounced, owed, favorites, toggles,
                     answer, astray>>
      /\ intersecting' \in BOOLEAN
      /\ feed' = Feed!LoadNextPage(feed, selection) \/ feed' = feed
  BY PerformersFeed DEF PerformersInv, PerformersTypes, PerformerList!Retry, PerformerList!Scrolls
<1>2. CASE feed' = feed
  BY <1>1, <1>2, PerformersMore DEF PerformersInv, PerformersList, SameList, AnswerInv
<1>3. CASE feed' = Feed!LoadNextPage(feed, selection)
  <2>1. PICK s \in PerformerList!Selections : s = selection
    BY DEF PerformersInv, PerformersTypes
  <2>2. /\ FeedInv(feed', PerformerList!Selections) /\ SameList(feed, feed')
        /\ AsksFor(feed, {s}) => AsksFor(feed', {s})
        /\ feed' = feed \/ feed.asked = NoRequest
    BY <1>3, <2>1, PerformersConstants, LoadMore DEF PerformersInv, PerformersList, FeedInv
  <2>3. AnswerInv'
    BY <1>1, <2>2 DEF PerformersInv, AnswerInv
  <2>4. ~owed => AsksFor(feed', CatalogAlike(selection))
    <3>1. CASE feed' = feed
      BY <3>1 DEF PerformersInv, PerformersList
    <3>2. CASE feed.asked = NoRequest
      BY <2>1, <2>2, <3>2, CatalogAlikeOK DEF AsksFor
    <3> QED
      BY <2>2, <3>1, <3>2
  <2> QED
    BY <1>1, <2>2, <2>3, <2>4, PerformersMore
<1> QED
  BY <1>1, <1>2, <1>3

LEMMA CatalogFailsOK ==
  ASSUME PerformersInv, PerformerList!FeedFails
  PROVE  PerformersInv'
<1>1. /\ UNCHANGED <<selection, url, navigation, intersecting, timer, debounced, owed, favorites,
                     toggles, astray>>
      /\ answer' = NoAnswer /\ feed.asked # NoRequest
      /\ feed' = Feed!Failed(feed, selection, intersecting)
  BY PerformersFeed DEF PerformerList!FeedFails
<1>2. PICK s \in PerformerList!Selections : s = selection
  BY DEF PerformersInv, PerformersTypes
<1>3. FeedInv(feed', PerformerList!Selections) /\ AsksFor(feed', {s}) /\ SameList(feed, feed')
  BY <1>1, <1>2, PerformersConstants, FeedFailure DEF PerformersInv, PerformersList
<1>4. AsksFor(feed', CatalogAlike(selection))
  BY <1>2, <1>3, CatalogAlikeOK DEF AsksFor
<1>5. AnswerInv'
  BY <1>1 DEF AnswerInv
<1> QED
  BY <1>1, <1>3, <1>4, <1>5, PerformersMore DEF PerformersInv, PerformersTypes

LEMMA CatalogReadsPageOK ==
  ASSUME PerformersInv, PerformerList!CatalogReadsPage
  PROVE  PerformersInv'
<1> DEFINE q == feed.asked.query
           page == feed.asked.page
<1>1. /\ feed.asked # NoRequest /\ answer' = PageIn(q, page, favorites)
      /\ UNCHANGED <<feed, selection, url, navigation, intersecting, timer, debounced, owed,
                     favorites, toggles, astray>>
  BY CatalogIn DEF PerformerList!CatalogReadsPage
<1>2. answer'.hasMore \in BOOLEAN
  BY <1>1 DEF PageIn
<1>3. ASSUME ~feed.asked.stale PROVE answer'.items \in Seq(MarkedItem)
  <2>1. page \in Nat \ {0}
    BY <1>1, <1>3 DEF PerformersInv, PerformersList, FeedInv, FeedTyped, Feed!FeedOK
  <2>2. answer'.items = MarkedIn(NextIn(q, page, favorites), favorites)
    BY <1>1 DEF PageIn
  <2>3. NextIn(q, page, favorites) \in Seq(DOMAIN Names)
    BY <2>1, NextInSeq
  <2> QED
    BY <2>2, <2>3, MarkedOK
<1>4. AnswerInv'
  BY <1>1, <1>2, <1>3 DEF AnswerInv
<1>5. PerformersTypes' /\ TogglesInv'
  BY <1>1 DEF PerformersInv, PerformersTypes, TogglesInv
<1>6. PerformersList'
  BY <1>1 DEF PerformersInv, PerformersList, Marked, Pending
<1> QED
  BY <1>4, <1>5, <1>6 DEF PerformersInv

LEMMA CatalogAnswersOK ==
  ASSUME PerformersInv, PerformerList!FeedAnswers
  PROVE  PerformersInv'
<1> DEFINE ans == answer.items
           more == answer.hasMore
<1>1. /\ feed.asked # NoRequest /\ answer # NoAnswer /\ answer' = NoAnswer
      /\ feed' = Feed!Answered(feed, ans, more, selection, intersecting)
      /\ UNCHANGED <<selection, url, navigation, intersecting, timer, debounced, owed, favorites,
                     toggles, astray>>
  BY PerformersFeed DEF PerformerList!FeedAnswers
<1>2. PICK s \in PerformerList!Selections : s = selection
  BY DEF PerformersInv, PerformersTypes
<1>3. /\ more \in BOOLEAN
      /\ ~feed.asked.stale => ans \in Seq(MarkedItem)
      /\ ~feed.asked.stale /\ ~astray =>
            answer = PageIn(feed.asked.query, feed.asked.page, favorites)
  BY <1>1 DEF PerformersInv, AnswerInv
<1> HIDE DEF ans, more
<1>4. /\ FeedInv(feed', PerformerList!Selections) /\ AsksFor(feed', {s})
      /\ feed.asked.stale => SameList(feed, feed')
      /\ ~feed.asked.stale => /\ feed'.page = feed.page + 1 /\ feed.asked.page = feed.page + 1
                              /\ feed'.more = more
                              /\ feed'.items = IF feed.page = 0 THEN ans ELSE feed.items \o ans
  BY <1>1, <1>2, <1>3, PerformersConstants, FeedAnswer DEF PerformersInv, PerformersList
<1>5. AsksFor(feed', CatalogAlike(selection))
  BY <1>2, <1>4, CatalogAlikeOK DEF AsksFor
<1>6. AnswerInv'
  BY <1>1 DEF AnswerInv
<1>7. CASE feed.asked.stale
  BY <1>1, <1>4, <1>5, <1>6, <1>7, PerformersMore DEF PerformersInv, PerformersTypes
<1>8. CASE ~feed.asked.stale
  <2>1. feed.items \in Seq(MarkedItem) /\ ans \in Seq(MarkedItem)
    BY <1>3, <1>8 DEF PerformersInv, PerformersList
  <2>2. feed'.items \in Seq(MarkedItem)
    <3>1. feed.items \o ans \in Seq(MarkedItem)
      BY <2>1, ConcatProperties
    <3> QED
      BY <1>4, <1>8, <2>1, <3>1
  <2>3. Ids(feed'.items) = IF feed.page = 0 THEN Ids(ans) ELSE Ids(feed.items) \o Ids(ans)
    BY <1>4, <1>8, <2>1, IdsOK
  <2>4. ASSUME ~owed, ~astray, selection.favoritesOnly => ~Pending
        PROVE  /\ ShowsFirst(Named(feed'), ResultIn(selection, favorites), ListPageSize)
               /\ Marked'
    <3> DEFINE r == ResultIn(s, favorites)
               page == feed'.page
               next == NextIn(s, page, favorites)
    <3>1. ShowsFirst(Named(feed), r, ListPageSize) /\ Marked
      BY <1>2, <2>4 DEF PerformersInv, PerformersList
    <3>2. feed.page \in Nat /\ feed.more
      BY <1>1, <1>8 DEF PerformersInv, PerformersList, FeedInv, FeedTyped, Feed!FeedOK
    <3>3. page = feed.page + 1 /\ page \in Nat \ {0} /\ feed.asked.page = page
      BY <1>4, <1>8, <3>2
    <3>4. PICK q \in CatalogAlike(s) : q = feed.asked.query
      BY <1>1, <1>2, <1>8, <2>4 DEF PerformersInv, PerformersList, AsksFor
    <3>5. ResultIn(q, favorites) = r
      BY CatalogAlikeOK
    <3>6. answer = PageIn(q, page, favorites)
      BY <1>3, <1>8, <2>4, <3>3, <3>4
    <3>7. ans = MarkedIn(next, favorites) /\ more = (page * ListPageSize < Len(r))
      BY <3>5, <3>6, Zenon DEF PageIn, NextIn, ans, more
    <3>8. next \in Seq(DOMAIN Names)
      BY <3>3, NextInSeq
    <3>9. next = SubSeq(FirstOf(r, page * ListPageSize), (page - 1) * ListPageSize + 1,
                        Len(FirstOf(r, page * ListPageSize)))
      BY DEF NextIn
    <3>10. r \in Seq(DOMAIN Names)
      BY ResultInSeq
    <3> HIDE DEF r, page, next
    <3>11. /\ Ids(ans) = next
           /\ \A n \in DOMAIN ans : ans[n].favorite <=> ans[n].id \in favorites
      BY <3>7, <3>8, MarkedOK
    <3>12. ShowsFirst(Named(feed'), r, ListPageSize)
      <4>1. PICK f : f = Named(feed)
        OBVIOUS
      <4>2. PICK g : g = Named(feed')
        OBVIOUS
      <4>3. /\ f.page = feed.page /\ f.more = feed.more /\ f.items = Ids(feed.items)
            /\ g.page = page /\ g.more = more /\ g.items = Ids(feed'.items)
        BY <1>4, <1>8, <4>1, <4>2 DEF Named, page
      <4>4. g.items = IF f.page = 0 THEN next ELSE f.items \o next
        BY <2>3, <3>11, <4>3
      <4>5. f.page \in Nat /\ ShowsFirst(f, r, ListPageSize) /\ f.more /\ g.page = f.page + 1
        BY <3>1, <3>2, <3>3, <4>1, <4>3
      <4>6. g.more <=> g.page * ListPageSize < Len(r)
        BY <3>7, <4>3
      <4>7. next = SubSeq(FirstOf(r, g.page * ListPageSize), (g.page - 1) * ListPageSize + 1,
                          Len(FirstOf(r, g.page * ListPageSize)))
        BY <3>9, <4>3
      <4>8. PICK size \in Nat \ {0} : size = ListPageSize
        BY PerformersConstants
      <4>9. ShowsFirst(g, r, size)
        BY <3>10, <4>4, <4>5, <4>6, <4>7, <4>8, NextPage
      <4> QED
        BY <4>2, <4>8, <4>9
    <3>13. Marked'
      <4> SUFFICES ASSUME NEW n \in DOMAIN feed'.items, toggles[feed'.items[n].id].pc # "done"
                   PROVE  feed'.items[n].favorite <=> feed'.items[n].id \in favorites
        BY <1>1 DEF Marked
      <4>1. CASE feed.page = 0
        BY <1>4, <1>8, <3>11, <4>1
      <4>2. CASE feed.page # 0
        <5>1. PICK old \in Seq(MarkedItem) : old = feed.items
          BY <2>1
        <5>2. PICK new \in Seq(MarkedItem) : new = ans
          BY <2>1
        <5>3. feed'.items = old \o new /\ n \in 1..Len(old) + Len(new)
          BY <1>4, <1>8, <4>2, <5>1, <5>2
        <5>4. Len(old) \in Nat /\ Len(new) \in Nat /\ DOMAIN old = 1..Len(old)
                /\ DOMAIN new = 1..Len(new)
          OBVIOUS
        <5>5. CASE n <= Len(old)
          <6>1. feed'.items[n] = old[n] /\ n \in DOMAIN old
            BY <5>3, <5>4, <5>5
          <6> QED
            BY <3>1, <5>1, <6>1 DEF Marked
        <5>6. CASE ~(n <= Len(old))
          <6>1. feed'.items[n] = new[n - Len(old)] /\ n - Len(old) \in DOMAIN new
            BY <5>3, <5>4, <5>6
          <6> QED
            BY <3>11, <5>2, <6>1
        <5> QED
          BY <5>5, <5>6
      <4> QED
        BY <4>1, <4>2
    <3> QED
      BY <1>2, <3>12, <3>13 DEF r
  <2>5. PerformersList'
    BY <1>1, <1>4, <1>5, <2>2, <2>4 DEF PerformersList, Pending
  <2>6. PerformersTypes' /\ TogglesInv'
    BY <1>1 DEF PerformersInv, PerformersTypes, TogglesInv
  <2> QED
    BY <1>6, <2>5, <2>6 DEF PerformersInv
<1> QED
  BY <1>7, <1>8

LEMMA PerformersInit == PerformerList!Init => PerformersInv
<1> SUFFICES ASSUME PerformerList!Init PROVE PerformersInv
  OBVIOUS
<1>1. /\ favorites \in SUBSET PerformerList!Performers
      /\ url = PerformerList!Default /\ selection = url /\ navigation = NoNavigation
      /\ feed = Feed!ResetFeedAndReload(Feed!NewFeed, selection)
      /\ intersecting = FALSE /\ timer = NoText /\ debounced = NoText /\ owed = FALSE
      /\ toggles = [p \in PerformerList!Performers |-> PerformerList!NoToggle]
      /\ answer = NoAnswer /\ astray = FALSE
  BY PerformersFeed DEF PerformerList!Init
<1>2. PICK s \in PerformerList!Selections : s = selection
  <2> DEFINE none == [word |-> "", blank |-> FALSE]
  <2>1. none \in PerformerList!Texts
    BY DEF PerformerList!Texts
  <2>2. PerformerList!Default \in PerformerList!Selections
    BY <2>1 DEF PerformerList!Default, PerformerList!Selections
  <2> QED
    BY <1>1, <2>2
<1>3. url \in PerformerList!Urls
  <2>1. ~PerformerList!Default.text.blank
    BY DEF PerformerList!Default
  <2> QED
    BY <1>1, <1>2, <2>1 DEF PerformerList!Urls
<1>4. PerformersTypes
  BY <1>1, <1>2, <1>3 DEF PerformersTypes
<1>5. TogglesInv
  BY <1>1 DEF TogglesInv, Toggle, PerformerList!NoToggle, PerformerList!Performers
<1>6. AnswerInv
  BY <1>1 DEF AnswerInv
<1>7. /\ FeedInv(feed, PerformerList!Selections) /\ AsksFor(feed, {s})
      /\ feed.page = 0 /\ feed.items = <<>>
  BY <1>1, <1>2, PerformersConstants, ResetFeed
<1>8. ShowsFirst(Named(feed), ResultIn(selection, favorites), ListPageSize)
  <2>1. Named(feed).page = 0 /\ Named(feed).items = <<>>
    BY <1>7 DEF Named, Ids
  <2>2. PICK r : r = ResultIn(selection, favorites) /\ r \in Seq(DOMAIN Names)
    BY ResultInSeq
  <2> QED
    BY <2>1, <2>2, PerformersConstants, EmptyShows
<1>9. Marked /\ feed.items \in Seq(MarkedItem)
  <2>1. DOMAIN feed.items = {}
    BY <1>7
  <2> QED
    BY <1>7, <2>1 DEF Marked
<1>10. AsksFor(feed, CatalogAlike(selection))
  BY <1>2, <1>7, CatalogAlikeOK DEF AsksFor
<1>11. PerformersList
  BY <1>7, <1>8, <1>9, <1>10 DEF PerformersList
<1> QED
  BY <1>4, <1>5, <1>6, <1>11 DEF PerformersInv

LEMMA PerformersNext == PerformersInv /\ PerformerList!Next => PerformersInv'
BY OnNameFilterChangedOK, NameDebouncedOK, CatalogChoicesOK, CatalogAddressOK,
   TogglePerformerFavoriteOK, CatalogSetsFavoriteInList, FavoriteAnsweredInList,
   FavoriteFailsInList, LateFavoriteInList, CatalogMoreOK, CatalogReadsPageOK, CatalogAnswersOK,
   CatalogFailsOK
   DEF PerformerList!Next, PerformerList!Performers

LEMMA PerformersImplies ==
  PerformersInv => PerformerList!TypeOK /\ PerformerList!PerformersShowFavorites
<1> SUFFICES ASSUME PerformersInv
             PROVE  PerformerList!TypeOK /\ PerformerList!PerformersShowFavorites
  OBVIOUS
<1>1. PerformerList!TypeOK
  BY PerformersFeed DEF PerformersInv, PerformersTypes, TogglesInv, Toggle, AnswerInv,
     PerformersList, FeedInv, FeedTyped, PerformerList!TypeOK, PerformerList!Performers
<1>2. ASSUME ~owed, ~astray, ~PerformerList!Busy
      PROVE  /\ feed.items = PerformerList!Shown(PerformerList!Upto(selection, feed.page * ListPageSize))
             /\ feed.page > 0 =>
                  (feed.more <=> feed.page * ListPageSize < Len(PerformerList!Result(selection)))
  <2> DEFINE r == ResultIn(selection, favorites)
             ids == FirstOf(r, feed.page * ListPageSize)
  <2>1. \A p \in DOMAIN Names : toggles[p].pc # "done"
    BY <1>2 DEF PerformerList!Busy, PerformerList!Performers
  <2>2. ShowsFirst(Named(feed), r, ListPageSize) /\ Marked
    BY <1>2, <2>1 DEF PerformersInv, PerformersList, Pending
  <2>3. PerformerList!Result(selection) = r
    BY CatalogIn
  <2>4. PerformerList!Shown(PerformerList!Upto(selection, feed.page * ListPageSize))
          = MarkedIn(ids, favorites)
    BY <2>3, Zenon DEF PerformerList!Shown, PerformerList!Upto, MarkedIn, FirstOf
  <2> HIDE DEF r
  <2>5. /\ Ids(feed.items) = ids
        /\ feed.page > 0 => (feed.more <=> feed.page * ListPageSize < Len(r))
    BY <2>2 DEF ShowsFirst, Named
  <2>6. feed.items = MarkedIn(ids, favorites)
    <3>1. PICK list \in Seq(MarkedItem) : list = feed.items
      BY DEF PerformersInv, PerformersList
    <3>2. PICK k \in Nat : k = Len(list) /\ DOMAIN list = 1..k /\ list \in [1..k -> MarkedItem]
      BY SeqIsFunction
    <3>3. Ids(list) = ids
      BY <2>5, <3>1
    <3>4. DOMAIN ids = 1..k /\ \A n \in 1..k : ids[n] = list[n].id
      BY <3>2, <3>3 DEF Ids
    <3> HIDE DEF ids
    <3>5. \A n \in 1..k : list[n] = [id |-> ids[n], favorite |-> ids[n] \in favorites]
      <4> TAKE n \in 1..k
      <4> DEFINE on == ids[n] \in favorites
      <4>1. list[n] \in MarkedItem /\ list[n].id \in DOMAIN Names
        BY <3>2, ItemIds
      <4>2. list[n].favorite <=> on
        BY <2>1, <2>2, <3>1, <3>2, <3>4, <4>1 DEF Marked
      <4>3. list[n].favorite \in BOOLEAN /\ on \in BOOLEAN
        BY <4>1 DEF MarkedItem
      <4>4. list[n].favorite = on
        BY <4>2, <4>3
      <4>5. list[n] = [id |-> list[n].id, favorite |-> list[n].favorite]
        BY <4>1 DEF MarkedItem
      <4> HIDE DEF on
      <4>6. list[n] = [id |-> ids[n], favorite |-> on]
        BY <3>4, <4>4, <4>5
      <4> QED
        BY <4>6 DEF on
    <3> DEFINE at(n) == [id |-> ids[n], favorite |-> ids[n] \in favorites]
    <3>6. MarkedIn(ids, favorites) = [n \in 1..k |-> at(n)]
      BY <3>4 DEF MarkedIn
    <3>7. \A n \in 1..k : list[n] = at(n)
      BY <3>5
    <3> HIDE DEF at
    <3>8. list = [n \in 1..k |-> at(n)]
      BY <3>2, <3>7
    <3> QED
      BY <3>1, <3>6, <3>8
  <2> QED
    BY <2>3, <2>4, <2>5, <2>6
<1> QED
  BY <1>1, <1>2 DEF PerformerList!PerformersShowFavorites

-----------------------------------------------------------------------------
(* The acquisition page. *)

Row == [id : AcquisitionScenes, state : Acquisition!Lifecycles]

\* The rows of the scenes of one lifecycle, or of all that are tracked.
FoundRows(state, selected) ==
  {s \in AcquisitionScenes : IF selected = "ANY" THEN state[s] \in Acquisition!Lifecycles
                             ELSE state[s] = selected}

RowsIn(state, selected) == Acquisition!Ordered(FoundRows(state, selected), state)

CountsIn(state) ==
  [l \in Acquisition!Lifecycles |-> Cardinality({s \in AcquisitionScenes : state[s] = l})]

NextRows(state, selected, page) ==
  LET rows == FirstOf(RowsIn(state, selected), page * ListPageSize)
  IN SubSeq(rows, (page - 1) * ListPageSize + 1, Len(rows))

LifecyclesOf == [AcquisitionScenes -> Acquisition!Lifecycles \cup {"AVAILABLE"}]

LEMMA AcquisitionConstants ==
  /\ AcquisitionScenes \subseteq Nat /\ IsFiniteSet(AcquisitionScenes)
  /\ ListPageSize \in Nat \ {0}
  /\ NoRequest \notin Feed!RequestsFor(Acquisition!Selections)
BY Zenon, PagesAssumption DEF Acquisition!AcquisitionAssumption,
   Acquisition!IsFiniteSet, IsFiniteSet, Acquisition!RequestsFor, Feed!RequestsFor

\* The page's lists are those of FeedControl.
LEMMA AcquisitionFeed ==
  ASSUME NEW f, NEW q, NEW ans, NEW more, NEW seen
  PROVE  /\ Acquisition!NewFeed = Feed!NewFeed
         /\ Acquisition!LoadNextPage(f, q) = Feed!LoadNextPage(f, q)
         /\ Acquisition!ResetFeedAndReload(f, q) = Feed!ResetFeedAndReload(f, q)
         /\ Acquisition!Answered(f, ans, more, q, seen) = Feed!Answered(f, ans, more, q, seen)
         /\ Acquisition!Failed(f, q, seen) = Feed!Failed(f, q, seen)
         /\ Acquisition!FeedOK(f) <=> Feed!FeedOK(f)
BY Zenon DEF Acquisition!NewFeed, Acquisition!LoadNextPage, Acquisition!ResetFeedAndReload,
   Acquisition!Answered, Acquisition!Failed, Acquisition!Finalize, Acquisition!FeedOK,
   Feed!NewFeed, Feed!LoadNextPage, Feed!ResetFeedAndReload,
   Feed!Answered, Feed!Failed, Feed!Finalize, Feed!FeedOK

LEMMA Tracked ==
  /\ Acquisition!Lifecycles = {"FAILED", "DOWNLOADING", "IMPORT_PENDING", "REQUESTED"}
  /\ Acquisition!SortOrder("FAILED") = 1 /\ Acquisition!SortOrder("DOWNLOADING") = 2
  /\ Acquisition!SortOrder("IMPORT_PENDING") = 3 /\ Acquisition!SortOrder("REQUESTED") = 4
<1> DEFINE T == <<"FAILED", "DOWNLOADING", "IMPORT_PENDING", "REQUESTED">>
<1>1. /\ DOMAIN T = 1..4 /\ T[1] = "FAILED" /\ T[2] = "DOWNLOADING" /\ T[3] = "IMPORT_PENDING"
      /\ T[4] = "REQUESTED"
  OBVIOUS
<1>2. \A n : n \in 1..4 <=> n \in {1, 2, 3, 4}
  OBVIOUS
<1>3. Acquisition!Lifecycles = {T[n] : n \in DOMAIN T}
  BY DEF Acquisition!Lifecycles, Acquisition!Tracked, Acquisition!Range
<1>4. \A l : Acquisition!SortOrder(l) = CHOOSE n \in DOMAIN T : T[n] = l
  BY DEF Acquisition!SortOrder, Acquisition!Tracked
<1> HIDE DEF T
<1>5. Acquisition!Lifecycles = {"FAILED", "DOWNLOADING", "IMPORT_PENDING", "REQUESTED"}
  BY <1>1, <1>2, <1>3
<1>6. \A n \in 1..4 : Acquisition!SortOrder(T[n]) = n
  <2> TAKE n \in 1..4
  <2>1. \A m \in 1..4 : T[m] = T[n] => m = n
    BY <1>1, <1>2
  <2> QED
    BY <1>1, <1>4, <2>1
<1>7. 1 \in 1..4 /\ 2 \in 1..4 /\ 3 \in 1..4 /\ 4 \in 1..4
  OBVIOUS
<1> QED
  BY <1>1, <1>5, <1>6, <1>7

LEMMA SortOrders ==
  /\ \A l \in Acquisition!Lifecycles : Acquisition!SortOrder(l) \in 1..4
  /\ \A l, m \in Acquisition!Lifecycles :
       Acquisition!SortOrder(l) = Acquisition!SortOrder(m) => l = m
BY Tracked

\* Each row has its place, and each place a row.
LEMMA RowsOrdered ==
  ASSUME NEW found \in SUBSET AcquisitionScenes, NEW state,
         \A s \in found : state[s] \in Acquisition!Lifecycles
  PROVE  LET rows == Acquisition!Ordered(found, state)
         IN /\ rows \in Seq(Row) /\ Len(rows) = Cardinality(found)
            /\ \A n \in 1..Len(rows) : rows[n].id \in found /\ rows[n].state = state[rows[n].id]
            /\ \A s \in found : \E n \in 1..Len(rows) : rows[n].id = s
            /\ \A m, n \in 1..Len(rows) : rows[m].id = rows[n].id => m = n
<1> DEFINE before(s) == {t \in found : Acquisition!Precedes(state, t, s)}
           order == [s \in found |-> before(s)]
           c == Cardinality(found)
           at(n) == CHOOSE s \in found : Acquisition!Cardinality(before(s)) = n - 1
           row(n) == [id |-> at(n), state |-> state[at(n)]]
           rows == [n \in 1..c |-> row(n)]
<1>1. IsFiniteSet(found) /\ found \subseteq Nat
  BY AcquisitionConstants, FS_Subset
<1>2. Orders(order, found)
  <2> DEFINE key(s) == Acquisition!SortOrder(state[s])
  <2>1. order \in [found -> SUBSET found]
    OBVIOUS
  <2>2. /\ \A s \in found : key(s) \in 1..4
        /\ \A s, t \in found : key(s) = key(t) => state[s] = state[t]
    BY SortOrders
  <2>3. \A s, t \in found : t \in order[s] <=> key(t) < key(s) \/ (state[t] = state[s] /\ t < s)
    BY DEF Acquisition!Precedes
  <2>4. \A s, t \in found : state[s] = state[t] => key(s) = key(t)
    OBVIOUS
  <2> HIDE DEF order, key
  <2>5. \A x \in found : x \notin order[x]
    BY <1>1, <2>2, <2>3
  <2>6. \A x, y \in found : x # y => x \in order[y] \/ y \in order[x]
    BY <1>1, <2>2, <2>3
  <2>7. \A x, y \in found : x \in order[y] => order[x] \subseteq order[y]
    <3> SUFFICES ASSUME NEW x \in found, NEW y \in found, x \in order[y], NEW z \in found,
                        z \in order[x]
                 PROVE  z \in order[y]
      BY <2>1
    <3> QED
      BY <1>1, <2>2, <2>3, <2>4
  <2> QED
    BY <2>1, <2>5, <2>6, <2>7 DEF Orders
<1>3. /\ c \in Nat /\ \A n \in 1..c : \E s \in found : Cardinality(before(s)) = n - 1
      /\ \A s \in found : Cardinality(before(s)) \in 0..c - 1
      /\ \A s, t \in found : Cardinality(before(s)) = Cardinality(before(t)) => s = t
  <2> HIDE DEF before
  <2>1. \A s \in found : order[s] = before(s)
    OBVIOUS
  <2> HIDE DEF order
  <2> QED
    BY <1>1, <1>2, <2>1, Ranks
<1>4. \A S : Acquisition!Cardinality(S) = Cardinality(S)
  BY Zenon DEF Acquisition!Cardinality, Cardinality
<1>5. \A n \in 1..c : at(n) \in found /\ Cardinality(before(at(n))) = n - 1
  <2> HIDE DEF before, c
  <2> QED
    BY <1>3, <1>4
<1>6. Acquisition!Ordered(found, state) = rows
  BY <1>4, Zenon DEF Acquisition!Ordered
<1> HIDE DEF c, at, before
<1>7. \A n \in 1..c : row(n) \in Row /\ row(n).id = at(n) /\ row(n).state = state[at(n)]
  BY <1>5 DEF Row
<1> HIDE DEF row
<1>8. rows \in [1..c -> Row] /\ \A n \in 1..c : rows[n] = row(n)
  BY <1>7
<1>9. rows \in Seq(Row) /\ Len(rows) = c
  BY <1>3, <1>8, FunctionIsSeq
<1> HIDE DEF rows
<1>10. \A n \in 1..c : rows[n].id = at(n) /\ rows[n].state = state[at(n)]
  BY <1>7, <1>8
<1>11. \A s \in found : \E n \in 1..c : at(n) = s
  <2> TAKE s \in found
  <2>1. PICK n \in 1..c : n - 1 = Cardinality(before(s))
    <3>1. PICK k \in 0..c - 1 : k = Cardinality(before(s))
      BY <1>3
    <3>2. k + 1 \in 1..c /\ (k + 1) - 1 = k
      BY <1>3
    <3>3. \E n \in 1..c : n - 1 = k
      BY <3>2
    <3> QED
      BY <3>1, <3>3
  <2> QED
    BY <1>3, <1>5, <2>1
<1>12. \A m, n \in 1..c : at(m) = at(n) => m = n
  <2> TAKE m, n \in 1..c
  <2>1. m - 1 = n - 1 => m = n
    BY <1>3
  <2> QED
    BY <1>5, <2>1
<1> QED
  BY <1>5, <1>6, <1>9, <1>10, <1>11, <1>12 DEF c

Of(state, l) == {s \in AcquisitionScenes : state[s] = l}

LEMMA OfFinite ==
  ASSUME NEW state, NEW l
  PROVE  IsFiniteSet(Of(state, l)) /\ Cardinality(Of(state, l)) \in Nat
<1>1. Of(state, l) \subseteq AcquisitionScenes
  BY DEF Of
<1> QED
  BY <1>1, AcquisitionConstants, FS_Subset, FS_CardinalityType

LEMMA Disjoint ==
  ASSUME NEW S, IsFiniteSet(S), NEW T, IsFiniteSet(T), S \cap T = {}
  PROVE  IsFiniteSet(S \cup T) /\ Cardinality(S \cup T) = Cardinality(S) + Cardinality(T)
<1>1. Cardinality(S) \in Nat /\ Cardinality(T) \in Nat
  BY FS_CardinalityType
<1>2. /\ IsFiniteSet(S \cup T)
      /\ Cardinality(S \cup T) = Cardinality(S) + Cardinality(T) - Cardinality(S \cap T)
  BY FS_Union
<1>3. Cardinality(S \cap T) = 0
  BY FS_EmptySet
<1> QED
  BY <1>1, <1>2, <1>3

\* The summary counts the rows.
LEMMA TotalOK ==
  ASSUME NEW state, NEW selected \in Acquisition!Selections
  PROVE  Acquisition!Total(CountsIn(state), selected) = Cardinality(FoundRows(state, selected))
<1> DEFINE n(l) == Cardinality(Of(state, l))
<1>1. \A l \in Acquisition!Lifecycles : CountsIn(state)[l] = n(l)
  BY DEF CountsIn, Of
<1>2. CASE selected = "ANY"
  <2> DEFINE A == Of(state, "FAILED")
             B == Of(state, "DOWNLOADING")
             C == Of(state, "IMPORT_PENDING")
             D == Of(state, "REQUESTED")
  <2>1. IsFiniteSet(A) /\ IsFiniteSet(B) /\ IsFiniteSet(C) /\ IsFiniteSet(D)
    BY OfFinite
  <2>2. A \cap B = {} /\ (A \cup B) \cap C = {} /\ (A \cup B \cup C) \cap D = {}
    BY DEF Of
  <2>3. FoundRows(state, selected) = A \cup B \cup C \cup D
    BY <1>2, Tracked DEF FoundRows, Of
  <2>4. Acquisition!Total(CountsIn(state), selected)
          = Cardinality(A) + Cardinality(B) + Cardinality(C) + Cardinality(D)
    BY <1>1, <1>2, Tracked DEF Acquisition!Total
  <2>7. Cardinality(A) \in Nat /\ Cardinality(B) \in Nat /\ Cardinality(C) \in Nat /\ Cardinality(D) \in Nat
    BY OfFinite
  <2> HIDE DEF A, B, C, D
  <2>5. IsFiniteSet(A \cup B) /\ Cardinality(A \cup B) = Cardinality(A) + Cardinality(B)
    BY <2>1, <2>2, Disjoint
  <2>6. /\ IsFiniteSet(A \cup B \cup C)
        /\ Cardinality(A \cup B \cup C) = Cardinality(A \cup B) + Cardinality(C)
    BY <2>1, <2>2, <2>5, Disjoint
  <2>8. Cardinality(A \cup B \cup C \cup D) = Cardinality(A \cup B \cup C) + Cardinality(D)
    BY <2>1, <2>2, <2>6, Disjoint
  <2> QED
    BY <2>3, <2>4, <2>5, <2>6, <2>7, <2>8
<1>3. CASE selected # "ANY"
  <2>1. selected \in Acquisition!Lifecycles
    BY <1>3 DEF Acquisition!Selections
  <2>2. FoundRows(state, selected) = Of(state, selected)
    BY <1>3 DEF FoundRows, Of
  <2> QED
    BY <1>1, <1>3, <2>1, <2>2 DEF Acquisition!Total
<1> QED
  BY <1>2, <1>3

LEMMA RowsInOK ==
  ASSUME NEW state, NEW selected \in Acquisition!Selections
  PROVE  LET rows == RowsIn(state, selected)
             found == FoundRows(state, selected)
         IN /\ rows \in Seq(Row) /\ Len(rows) = Cardinality(found) /\ Len(rows) \in Nat
            /\ \A n \in 1..Len(rows) : rows[n].id \in found /\ rows[n].state = state[rows[n].id]
            /\ \A s \in found : \E n \in 1..Len(rows) : rows[n].id = s
            /\ \A m, n \in 1..Len(rows) : rows[m].id = rows[n].id => m = n
            /\ Acquisition!Total(CountsIn(state), selected) = Len(rows)
<1> DEFINE found == FoundRows(state, selected)
           rows == RowsIn(state, selected)
<1>1. found \in SUBSET AcquisitionScenes
  BY DEF FoundRows
<1>2. \A s \in found : state[s] \in Acquisition!Lifecycles
  BY DEF FoundRows, Acquisition!Selections
<1>3. rows = Acquisition!Ordered(found, state)
  BY DEF RowsIn
<1>4. Acquisition!Total(CountsIn(state), selected) = Cardinality(found)
  BY TotalOK
<1> HIDE DEF found, rows
<1>5. /\ rows \in Seq(Row) /\ Len(rows) = Cardinality(found)
      /\ \A n \in 1..Len(rows) : rows[n].id \in found /\ rows[n].state = state[rows[n].id]
      /\ \A s \in found : \E n \in 1..Len(rows) : rows[n].id = s
      /\ \A m, n \in 1..Len(rows) : rows[m].id = rows[n].id => m = n
  <2>1. PICK F : F = found
    OBVIOUS
  <2>2. F \in SUBSET AcquisitionScenes /\ \A s \in F : state[s] \in Acquisition!Lifecycles
    BY <1>1, <1>2, <2>1
  <2>3. LET r == Acquisition!Ordered(F, state)
        IN /\ r \in Seq(Row) /\ Len(r) = Cardinality(F)
           /\ \A n \in 1..Len(r) : r[n].id \in F /\ r[n].state = state[r[n].id]
           /\ \A s \in F : \E n \in 1..Len(r) : r[n].id = s
           /\ \A m, n \in 1..Len(r) : r[m].id = r[n].id => m = n
    BY <2>2, RowsOrdered
  <2>4. rows = Acquisition!Ordered(F, state)
    BY <1>3, <2>1
  <2> QED
    BY <2>1, <2>3, <2>4
<1>6. Len(rows) \in Nat
  BY <1>5
<1> QED
  BY <1>4, <1>5, <1>6 DEF found, rows

\* The rows of a lifecycle among the first m are no more than the summary counts.
LEMMA SectionOK ==
  ASSUME NEW state, NEW selected \in Acquisition!Selections, NEW l \in Acquisition!Lifecycles,
         NEW m \in Nat, m <= Len(RowsIn(state, selected))
  PROVE  LET section == {n \in 1..m : RowsIn(state, selected)[n].state = l}
         IN /\ Cardinality(section) <= CountsIn(state)[l]
            /\ selected \in {l, "ANY"} /\ m = Len(RowsIn(state, selected)) =>
                 Cardinality(section) = CountsIn(state)[l]
<1> DEFINE rows == RowsIn(state, selected)
           section == {n \in 1..m : rows[n].state = l}
           ids == [n \in section |-> rows[n].id]
           all == Of(state, l)
<1>1. /\ Len(rows) \in Nat
      /\ \A n \in 1..Len(rows) : rows[n].id \in FoundRows(state, selected)
                                /\ rows[n].state = state[rows[n].id]
      /\ \A s \in FoundRows(state, selected) : \E n \in 1..Len(rows) : rows[n].id = s
      /\ \A i, n \in 1..Len(rows) : rows[i].id = rows[n].id => i = n
  <2>1. PICK r : r = RowsIn(state, selected)
    OBVIOUS
  <2>2. PICK F : F = FoundRows(state, selected)
    OBVIOUS
  <2>3. /\ Len(r) \in Nat
        /\ \A n \in 1..Len(r) : r[n].id \in F /\ r[n].state = state[r[n].id]
        /\ \A s \in F : \E n \in 1..Len(r) : r[n].id = s
        /\ \A i, n \in 1..Len(r) : r[i].id = r[n].id => i = n
    BY <2>1, <2>2, RowsInOK
  <2> QED
    BY <2>1, <2>2, <2>3
<1>2. CountsIn(state)[l] = Cardinality(all)
  BY DEF CountsIn, Of
<1>3. FoundRows(state, selected) \subseteq AcquisitionScenes
  BY DEF FoundRows
<1> HIDE DEF rows
<1>4. section \subseteq 1..Len(rows) /\ m <= Len(rows)
  BY <1>1 DEF rows
<1>5. \A n \in section : rows[n].id \in all
  BY <1>1, <1>3, <1>4 DEF Of
<1> HIDE DEF all
<1>6. ids \in Injection(section, all)
  <2>1. ids \in [section -> all]
    BY <1>5
  <2>2. \A i, n \in section : ids[i] = ids[n] => i = n
    BY <1>1, <1>4
  <2> QED
    BY <2>1, <2>2 DEF Injection, IsInjective
<1>7. IsFiniteSet(all)
  BY OfFinite DEF all
<1>8. ASSUME selected \in {l, "ANY"}, m = Len(rows)
      PROVE  ids \in Surjection(section, all)
  <2>1. ids \in [section -> all]
    BY <1>5
  <2>2. ASSUME NEW s \in all PROVE \E n \in section : ids[n] = s
    <3>1. s \in FoundRows(state, selected) /\ state[s] = l
      BY <1>8 DEF FoundRows, all, Of
    <3>2. PICK n \in 1..Len(rows) : rows[n].id = s
      BY <1>1, <3>1
    <3>3. n \in section
      BY <1>1, <1>8, <3>1, <3>2
    <3> QED
      BY <3>2, <3>3
  <2> QED
    BY <2>1, <2>2 DEF Surjection
<1> HIDE DEF ids, section
<1>9. /\ Cardinality(section) <= Cardinality(all)
      /\ Cardinality(section) = Cardinality(all) <=> ids \in Surjection(section, all)
  BY <1>6, <1>7, FS_Injection
<1> QED
  BY <1>2, <1>8, <1>9 DEF section, rows

\* What was read for the request in flight, unless the index has changed.
ReadInv ==
  /\ answer = [rows |-> answer.rows, counts |-> answer.counts]
  /\ feed.asked = NoRequest => answer = Acquisition!NothingRead
  /\ answer.counts # NoAnswer => DOMAIN answer.counts = Acquisition!Lifecycles
  /\ feed.asked # NoRequest /\ ~feed.asked.stale /\ ~shifted =>
       /\ answer.rows # NoAnswer =>
            answer.rows = NextRows(lifecycle, feed.asked.query, feed.asked.page)
       /\ answer.counts # NoAnswer => answer.counts = CountsIn(lifecycle)

AcquisitionTypes ==
  /\ selection \in Acquisition!Selections /\ url \in Acquisition!Selections
  /\ navigation \in Acquisition!Selections \cup {NoNavigation}
  /\ intersecting \in BOOLEAN /\ shifted \in BOOLEAN
  /\ lifecycle \in LifecyclesOf

AcquisitionList ==
  /\ FeedInv(feed, Acquisition!Selections) /\ AsksFor(feed, {selection})
  /\ DOMAIN counts = Acquisition!Lifecycles
  /\ ~shifted =>
       /\ ListOf(feed, Acquisition!Selections, {selection}, RowsIn(lifecycle, selection), ListPageSize)
       /\ feed.page > 0 => counts = CountsIn(lifecycle)

AcquisitionInv == AcquisitionTypes /\ ReadInv /\ AcquisitionList

LEMMA NothingRead ==
  /\ Acquisition!NothingRead.rows = NoAnswer /\ Acquisition!NothingRead.counts = NoAnswer
  /\ Acquisition!NothingRead
       = [rows |-> Acquisition!NothingRead.rows, counts |-> Acquisition!NothingRead.counts]
BY DEF Acquisition!NothingRead

LEMMA AcquisitionKept ==
  AcquisitionInv /\ UNCHANGED <<PageVars, AnswerVars, AcquisitionVars>> => AcquisitionInv'
BY DEF AcquisitionInv, AcquisitionTypes, ReadInv, AcquisitionList, PageVars, AnswerVars,
   AcquisitionVars

LEMMA AcquisitionRows ==
  ASSUME NEW selected
  PROVE  Acquisition!Rows(selected) = RowsIn(lifecycle, selected) /\ Acquisition!Counts = CountsIn(lifecycle)
<1>1. Acquisition!Rows(selected) = RowsIn(lifecycle, selected)
  BY DEF Acquisition!Rows, Acquisition!Matches, RowsIn, FoundRows
<1>2. Acquisition!Counts = CountsIn(lifecycle)
  BY Zenon DEF Acquisition!Counts, CountsIn, Acquisition!Cardinality, Cardinality
<1> QED
  BY <1>1, <1>2

LEMMA AcquisitionReset ==
  ASSUME AcquisitionInv, NEW l \in Acquisition!Selections, selection' = l, Acquisition!Reset(l),
         UNCHANGED <<counts, lifecycle, answer>>
  PROVE  ReadInv' /\ AcquisitionList' /\ shifted' = FALSE
<1> DEFINE g == Feed!ResetFeedAndReload(feed, l)
<1>1. feed' = g /\ shifted' = FALSE
  BY AcquisitionFeed DEF Acquisition!Reset
<1>2. /\ FeedInv(g, Acquisition!Selections) /\ AsksFor(g, {l}) /\ g.page = 0 /\ g.items = <<>>
      /\ g.asked # NoRequest /\ (feed.asked # NoRequest => g.asked.stale)
  BY ResetFeed, AcquisitionConstants DEF AcquisitionInv, AcquisitionList
<1> HIDE DEF g
<1>3. ReadInv'
  BY <1>1, <1>2, NothingRead DEF AcquisitionInv, ReadInv
<1>4. ShowsFirst(g, RowsIn(lifecycle, l), ListPageSize)
  <2>1. PICK r : r = RowsIn(lifecycle, l) /\ r \in Seq(Row)
    BY RowsInOK
  <2> QED
    BY <1>2, <2>1, AcquisitionConstants, EmptyShows
<1> QED
  BY <1>1, <1>2, <1>3, <1>4 DEF AcquisitionInv, AcquisitionList, ListOf

\* More is asked for, or nothing, or the request fails: what is shown stays.
LEMMA AcquisitionMore ==
  ASSUME AcquisitionInv, FeedInv(feed', Acquisition!Selections), SameList(feed, feed'),
         AsksFor(feed', {selection}), intersecting' \in BOOLEAN, ReadInv',
         UNCHANGED <<selection, url, navigation, counts, lifecycle, shifted>>
  PROVE  AcquisitionInv'
<1>1. ASSUME ~shifted
      PROVE  /\ ListOf(feed', Acquisition!Selections, {selection}, RowsIn(lifecycle, selection),
                       ListPageSize)
             /\ feed'.page > 0 => counts = CountsIn(lifecycle)
  <2>1. /\ ShowsFirst(feed, RowsIn(lifecycle, selection), ListPageSize)
        /\ feed.page > 0 => counts = CountsIn(lifecycle)
    BY <1>1 DEF AcquisitionInv, AcquisitionList, ListOf
  <2>2. feed'.page = feed.page
    BY DEF SameList
  <2> QED
    BY <2>1, <2>2, SameShows DEF ListOf
<1>2. AcquisitionList'
  BY <1>1 DEF AcquisitionInv, AcquisitionList
<1>3. AcquisitionTypes'
  BY DEF AcquisitionInv, AcquisitionTypes
<1> QED
  BY <1>2, <1>3 DEF AcquisitionInv

LEMMA AcquisitionMoreOK ==
  ASSUME AcquisitionInv,
         Acquisition!Retry \/ \E seen \in BOOLEAN : Acquisition!Scrolls(seen)
  PROVE  AcquisitionInv'
<1>1. /\ UNCHANGED <<selection, url, navigation, counts, lifecycle, shifted, answer>>
      /\ intersecting' \in BOOLEAN
      /\ feed' = Feed!LoadNextPage(feed, selection) \/ feed' = feed
  BY AcquisitionFeed DEF AcquisitionInv, AcquisitionTypes, Acquisition!Retry, Acquisition!Scrolls
<1>2. CASE feed' = feed
  BY <1>1, <1>2 DEF AcquisitionInv, AcquisitionTypes, ReadInv, AcquisitionList
<1>3. CASE feed' = Feed!LoadNextPage(feed, selection)
  <2>1. PICK s \in Acquisition!Selections : s = selection
    BY DEF AcquisitionInv, AcquisitionTypes
  <2>2. /\ FeedInv(feed', Acquisition!Selections) /\ SameList(feed, feed')
        /\ AsksFor(feed', {s})
        /\ feed' = feed \/ feed.asked = NoRequest
    BY <1>3, <2>1, AcquisitionConstants, LoadMore DEF AcquisitionInv, AcquisitionList, FeedInv
  <2>3. ReadInv'
    BY <1>1, <2>2, NothingRead DEF AcquisitionInv, ReadInv
  <2> QED
    BY <1>1, <2>1, <2>2, <2>3, AcquisitionMore
<1> QED
  BY <1>1, <1>2, <1>3

LEMMA AcquisitionFailsOK ==
  ASSUME AcquisitionInv, Acquisition!FeedFails
  PROVE  AcquisitionInv'
<1>1. /\ UNCHANGED <<selection, url, navigation, intersecting, counts, lifecycle, shifted>>
      /\ answer' = Acquisition!NothingRead /\ feed.asked # NoRequest
      /\ feed' = Feed!Failed(feed, selection, intersecting)
  BY AcquisitionFeed DEF Acquisition!FeedFails
<1>2. PICK s \in Acquisition!Selections : s = selection
  BY DEF AcquisitionInv, AcquisitionTypes
<1>3. FeedInv(feed', Acquisition!Selections) /\ AsksFor(feed', {s}) /\ SameList(feed, feed')
  BY <1>1, <1>2, AcquisitionConstants, FeedFailure DEF AcquisitionInv, AcquisitionList
<1>4. ReadInv'
  BY <1>1, NothingRead DEF ReadInv
<1> QED
  BY <1>1, <1>2, <1>3, <1>4, AcquisitionMore DEF AcquisitionInv, AcquisitionTypes

LEMMA AcquisitionAddressOK ==
  ASSUME AcquisitionInv,
         \/ \E l \in Acquisition!Selections :
              Acquisition!SelectLifecycle(l) \/ Acquisition!BrowserNavigates(l)
         \/ Acquisition!NavigationEnds
  PROVE  AcquisitionInv'
<1>1. ASSUME NEW l \in Acquisition!Selections, Acquisition!SelectLifecycle(l) PROVE AcquisitionInv'
  <2>1. /\ selection' = l /\ Acquisition!Reset(l)
        /\ navigation' \in Acquisition!Selections \cup {NoNavigation}
        /\ UNCHANGED <<url, intersecting, counts, lifecycle, answer>>
    BY <1>1 DEF Acquisition!SelectLifecycle, Acquisition!SyncUrlWithCurrentFilter, AcquisitionInv,
       AcquisitionTypes
  <2>2. ReadInv' /\ AcquisitionList' /\ shifted' = FALSE
    BY <2>1, AcquisitionReset
  <2> QED
    BY <2>1, <2>2 DEF AcquisitionInv, AcquisitionTypes
<1>2. ASSUME NEW l \in Acquisition!Selections, Acquisition!BrowserNavigates(l) PROVE AcquisitionInv'
  BY <1>2 DEF Acquisition!BrowserNavigates, AcquisitionInv, AcquisitionTypes, ReadInv, AcquisitionList
<1>3. CASE Acquisition!NavigationEnds
  <2>1. /\ navigation # NoNavigation /\ url' = navigation /\ selection' = navigation
        /\ navigation' = NoNavigation /\ UNCHANGED <<intersecting, counts, lifecycle, answer>>
        /\ \/ Acquisition!Reset(navigation)
           \/ navigation = selection /\ UNCHANGED <<feed, shifted>>
    BY <1>3 DEF Acquisition!NavigationEnds
  <2>2. PICK l \in Acquisition!Selections : l = navigation
    BY <2>1 DEF AcquisitionInv, AcquisitionTypes
  <2>3. CASE Acquisition!Reset(navigation)
    <3>1. ReadInv' /\ AcquisitionList' /\ shifted' = FALSE
      BY <2>1, <2>2, <2>3, AcquisitionReset
    <3> QED
      BY <2>1, <2>2, <3>1 DEF AcquisitionInv, AcquisitionTypes
  <2>4. CASE navigation = selection /\ UNCHANGED <<feed, shifted>>
    BY <2>1, <2>2, <2>4 DEF AcquisitionInv, AcquisitionTypes, ReadInv, AcquisitionList
  <2> QED
    BY <2>1, <2>3, <2>4
<1> QED
  BY <1>1, <1>2, <1>3

LEMMA RowChangesOK ==
  ASSUME AcquisitionInv, NEW s \in AcquisitionScenes,
         NEW l \in Acquisition!Lifecycles \cup {"AVAILABLE"}, Acquisition!RowChanges(s, l)
  PROVE  AcquisitionInv'
<1>1. /\ lifecycle' = [lifecycle EXCEPT ![s] = l] /\ shifted' = TRUE
      /\ UNCHANGED <<feed, selection, url, navigation, intersecting, counts, answer>>
  BY DEF Acquisition!RowChanges
<1>2. lifecycle' \in LifecyclesOf
  BY <1>1 DEF AcquisitionInv, AcquisitionTypes, LifecyclesOf
<1> QED
  BY <1>1, <1>2 DEF AcquisitionInv, AcquisitionTypes, ReadInv, AcquisitionList

LEMMA ReadsOK ==
  ASSUME AcquisitionInv, Acquisition!ReadRows \/ Acquisition!ReadSummary
  PROVE  AcquisitionInv'
<1>1. /\ feed.asked # NoRequest
      /\ UNCHANGED <<feed, selection, url, navigation, intersecting, counts, lifecycle, shifted>>
  BY DEF Acquisition!ReadRows, Acquisition!ReadSummary
<1>2. answer = [rows |-> answer.rows, counts |-> answer.counts]
  BY DEF AcquisitionInv, ReadInv
<1>3. CASE Acquisition!ReadRows
  <2> DEFINE q == feed.asked.query
             page == feed.asked.page
             next == NextRows(lifecycle, q, page)
  <2>1. answer' = [answer EXCEPT !.rows = next]
    <3>1. Acquisition!Rows(q) = RowsIn(lifecycle, q)
      BY AcquisitionRows
    <3>2. Acquisition!Upto(Acquisition!Rows(q), page * ListPageSize)
            = FirstOf(RowsIn(lifecycle, q), page * ListPageSize)
      BY <3>1, Zenon DEF Acquisition!Upto, FirstOf
    <3> QED
      BY <1>3, <3>2, Zenon DEF Acquisition!ReadRows, NextRows
  <2> HIDE DEF next
  <2>2. answer' = [rows |-> next, counts |-> answer.counts]
    BY <1>2, <2>1
  <2>3. ReadInv'
    BY <1>1, <2>2 DEF AcquisitionInv, ReadInv, next
  <2> QED
    BY <1>1, <2>3 DEF AcquisitionInv, AcquisitionTypes, AcquisitionList
<1>4. CASE Acquisition!ReadSummary
  <2> DEFINE read == CountsIn(lifecycle)
  <2>1. answer' = [answer EXCEPT !.counts = read]
    BY <1>4, AcquisitionRows DEF Acquisition!ReadSummary
  <2>2. DOMAIN read = Acquisition!Lifecycles
    BY DEF CountsIn
  <2> HIDE DEF read
  <2>3. answer' = [rows |-> answer.rows, counts |-> read]
    BY <1>2, <2>1
  <2>4. ReadInv'
    BY <1>1, <2>2, <2>3 DEF AcquisitionInv, ReadInv, read
  <2> QED
    BY <1>1, <2>4 DEF AcquisitionInv, AcquisitionTypes, AcquisitionList
<1> QED
  BY <1>3, <1>4

LEMMA AcquisitionAnswersOK ==
  ASSUME AcquisitionInv, Acquisition!FeedAnswers
  PROVE  AcquisitionInv'
<1> DEFINE ans == answer.rows
           asked == feed.asked
           more == asked.page * ListPageSize < Acquisition!Total(answer.counts, asked.query)
<1>1. /\ feed.asked # NoRequest /\ ans # NoAnswer /\ answer.counts # NoAnswer
      /\ answer' = Acquisition!NothingRead
      /\ feed' = Feed!Answered(feed, ans, more, selection, intersecting)
      /\ counts' = IF feed.asked.stale THEN counts ELSE answer.counts
      /\ UNCHANGED <<selection, url, navigation, intersecting, lifecycle, shifted>>
  BY AcquisitionFeed, Zenon DEF Acquisition!FeedAnswers, Acquisition!More
<1>2. PICK s \in Acquisition!Selections : s = selection
  BY DEF AcquisitionInv, AcquisitionTypes
<1>3. more \in BOOLEAN
  OBVIOUS
<1>4. ASSUME ~feed.asked.stale, ~shifted
      PROVE  /\ ans = NextRows(lifecycle, feed.asked.query, feed.asked.page)
             /\ answer.counts = CountsIn(lifecycle)
  BY <1>1, <1>4 DEF AcquisitionInv, ReadInv
<1>5. AsksFor(feed, {s})
  BY <1>2 DEF AcquisitionInv, AcquisitionList
<1>6. ASSUME ~feed.asked.stale, ~shifted
      PROVE  /\ ans = NextRows(lifecycle, s, feed.asked.page)
             /\ more <=> feed.asked.page * ListPageSize < Len(RowsIn(lifecycle, s))
  <2>1. feed.asked.query = s
    BY <1>1, <1>5, <1>6 DEF AsksFor
  <2>2. Acquisition!Total(CountsIn(lifecycle), s) = Len(RowsIn(lifecycle, s))
    BY RowsInOK, Zenon
  <2> QED
    BY <1>4, <1>6, <2>1, <2>2
<1> HIDE DEF ans, more, asked
<1>7. /\ FeedInv(feed', Acquisition!Selections) /\ AsksFor(feed', {s})
      /\ feed.asked.stale => SameList(feed, feed')
      /\ ~feed.asked.stale => feed'.page = feed.page + 1 /\ feed.asked.page = feed.page + 1
  BY <1>1, <1>2, <1>3, AcquisitionConstants, FeedAnswer DEF AcquisitionInv, AcquisitionList
<1>8. ReadInv'
  BY <1>1, NothingRead DEF ReadInv
<1>9. ASSUME ~shifted
      PROVE  /\ ListOf(feed', Acquisition!Selections, {s}, RowsIn(lifecycle, s), ListPageSize)
             /\ feed'.page > 0 => counts' = CountsIn(lifecycle)
  <2>1. /\ ListOf(feed, Acquisition!Selections, {s}, RowsIn(lifecycle, s), ListPageSize)
        /\ feed.page > 0 => counts = CountsIn(lifecycle)
    BY <1>2, <1>9 DEF AcquisitionInv, AcquisitionList
  <2>2. PICK r \in Seq(Row) : r = RowsIn(lifecycle, s)
    BY RowsInOK
  <2>3. ASSUME ~feed.asked.stale
        PROVE  /\ IsPage(ans, feed.asked.page, r, ListPageSize)
               /\ more <=> feed.asked.page * ListPageSize < Len(r)
    BY <1>6, <1>9, <2>2, <2>3 DEF IsPage, NextRows
  <2>4. s \in Acquisition!Selections \cap {s}
    OBVIOUS
  <2>5. ListOf(feed', Acquisition!Selections, {s}, r, ListPageSize)
    BY <1>1, <1>2, <1>3, <2>1, <2>2, <2>3, <2>4, AcquisitionConstants, ListAnswered
  <2>6. feed'.page > 0 => counts' = CountsIn(lifecycle)
    BY <1>1, <1>4, <1>7, <1>9, <2>1 DEF SameList
  <2> QED
    BY <2>2, <2>5, <2>6
<1>10. DOMAIN counts' = Acquisition!Lifecycles
  BY <1>1 DEF AcquisitionInv, AcquisitionList, ReadInv
<1>11. AcquisitionList'
  BY <1>1, <1>2, <1>7, <1>9, <1>10 DEF AcquisitionList
<1> QED
  BY <1>1, <1>8, <1>11 DEF AcquisitionInv, AcquisitionTypes

LEMMA AcquisitionInit == Acquisition!Init => AcquisitionInv
<1> SUFFICES ASSUME Acquisition!Init PROVE AcquisitionInv
  OBVIOUS
<1>1. /\ lifecycle \in [AcquisitionScenes -> {"AVAILABLE", "REQUESTED", "DOWNLOADING", "IMPORT_PENDING"}]
      /\ url \in Acquisition!Selections /\ selection = url /\ navigation = NoNavigation
      /\ feed = Feed!ResetFeedAndReload(Feed!NewFeed, selection)
      /\ intersecting = FALSE /\ counts = [l \in Acquisition!Lifecycles |-> 0]
      /\ answer = Acquisition!NothingRead /\ shifted = FALSE
  BY AcquisitionFeed DEF Acquisition!Init
<1>2. lifecycle \in LifecyclesOf
  BY <1>1, Tracked DEF LifecyclesOf
<1>3. AcquisitionTypes
  BY <1>1, <1>2 DEF AcquisitionTypes
<1>4. ReadInv
  BY <1>1, NothingRead DEF ReadInv
<1>5. PICK s \in Acquisition!Selections : s = selection
  BY <1>1
<1>6. FeedInv(feed, Acquisition!Selections) /\ AsksFor(feed, {s}) /\ feed.page = 0 /\ feed.items = <<>>
  BY <1>1, <1>5, AcquisitionConstants, ResetFeed
<1>7. ShowsFirst(feed, RowsIn(lifecycle, s), ListPageSize)
  <2>1. PICK r \in Seq(Row) : r = RowsIn(lifecycle, s)
    BY RowsInOK
  <2> QED
    BY <1>6, <2>1, AcquisitionConstants, EmptyShows
<1>8. AcquisitionList
  BY <1>1, <1>5, <1>6, <1>7 DEF AcquisitionList, ListOf
<1> QED
  BY <1>3, <1>4, <1>8 DEF AcquisitionInv

LEMMA AcquisitionNext == AcquisitionInv /\ Acquisition!Next => AcquisitionInv'
BY AcquisitionAddressOK, AcquisitionMoreOK, ReadsOK, AcquisitionAnswersOK, AcquisitionFailsOK,
   RowChangesOK DEF Acquisition!Next

LEMMA AcquisitionImplies ==
  AcquisitionInv => Acquisition!TypeOK /\ Acquisition!AcquisitionShowsIndex
<1> SUFFICES ASSUME AcquisitionInv PROVE Acquisition!TypeOK /\ Acquisition!AcquisitionShowsIndex
  OBVIOUS
<1>1. Acquisition!TypeOK
  BY AcquisitionFeed DEF AcquisitionInv, AcquisitionTypes, ReadInv, AcquisitionList, LifecyclesOf,
     FeedInv, FeedTyped, Acquisition!TypeOK
<1>2. ASSUME ~shifted
      PROVE  /\ feed.items = Acquisition!Upto(Acquisition!Rows(selection), feed.page * ListPageSize)
             /\ feed.page > 0 =>
                  /\ feed.more <=> Len(feed.items) < Len(Acquisition!Rows(selection))
                  /\ \A l \in Acquisition!Lifecycles :
                       selection \in {l, "ANY"} =>
                         /\ Acquisition!Cardinality(Acquisition!Section(l)) <= counts[l]
                         /\ ~feed.more => Acquisition!Cardinality(Acquisition!Section(l)) = counts[l]
  <2>1. PICK s \in Acquisition!Selections : s = selection
    BY DEF AcquisitionInv, AcquisitionTypes
  <2> DEFINE rows == RowsIn(lifecycle, s)
             k == feed.page * ListPageSize
             m == IF k < Len(rows) THEN k ELSE Len(rows)
  <2>2. Acquisition!Rows(selection) = rows
    BY <2>1, AcquisitionRows
  <2>3. /\ feed.page \in Nat /\ ShowsFirst(feed, rows, ListPageSize)
        /\ feed.page > 0 => counts = CountsIn(lifecycle)
    BY <1>2, <2>1 DEF AcquisitionInv, AcquisitionList, ListOf, FeedInv, FeedTyped, Feed!FeedOK
  <2>4. rows \in Seq(Row) /\ Len(rows) \in Nat
    BY RowsInOK
  <2>5. k \in Nat
    BY <2>3, AcquisitionConstants
  <2> HIDE DEF rows, k
  <2>6. m \in Nat /\ m <= Len(rows)
    BY <2>4, <2>5
  <2>7. /\ feed.items = SubSeq(rows, 1, m)
        /\ feed.page > 0 => (feed.more <=> k < Len(rows))
    BY <2>3 DEF ShowsFirst, FirstOf, k
  <2>8. feed.items = Acquisition!Upto(Acquisition!Rows(selection), feed.page * ListPageSize)
    BY <2>2, <2>7, Zenon DEF Acquisition!Upto, k
  <2> HIDE DEF m
  <2>9. /\ Len(feed.items) = m /\ DOMAIN feed.items = 1..m
        /\ \A n \in 1..m : feed.items[n] = rows[n]
    BY <2>4, <2>6, <2>7
  <2>10. feed.page > 0 => (feed.more <=> m < Len(rows))
    BY <2>4, <2>5, <2>7 DEF m
  <2>11. ASSUME feed.page > 0, NEW l \in Acquisition!Lifecycles, selection \in {l, "ANY"}
         PROVE  /\ Acquisition!Cardinality(Acquisition!Section(l)) <= counts[l]
                /\ ~feed.more => Acquisition!Cardinality(Acquisition!Section(l)) = counts[l]
    <3> DEFINE section == {n \in 1..m : rows[n].state = l}
    <3>1. Acquisition!Section(l) = section
      BY <2>9 DEF Acquisition!Section
    <3>2. Acquisition!Cardinality(section) = Cardinality(section)
      BY Zenon DEF Acquisition!Cardinality, Cardinality
    <3>3. m <= Len(RowsIn(lifecycle, s)) /\ section = {n \in 1..m : RowsIn(lifecycle, s)[n].state = l}
      BY <2>6 DEF rows
    <3> HIDE DEF section
    <3>4. /\ Cardinality(section) <= CountsIn(lifecycle)[l]
          /\ s \in {l, "ANY"} /\ m = Len(RowsIn(lifecycle, s)) =>
               Cardinality(section) = CountsIn(lifecycle)[l]
      BY <2>6, <3>3, SectionOK
    <3>5. ~feed.more => m = Len(rows)
      BY <2>4, <2>6, <2>10, <2>11
    <3> QED
      BY <2>1, <2>3, <2>11, <3>1, <3>2, <3>4, <3>5 DEF rows
  <2> QED
    BY <2>2, <2>8, <2>9, <2>10, <2>11
<1> QED
  BY <1>1, <1>2 DEF Acquisition!AcquisitionShowsIndex

-----------------------------------------------------------------------------
(* The parts together. *)

Inv ==
  /\ part \in Parts
  /\ part = "auth" => AuthInv
  /\ part = "rails" => RailsInv
  /\ part = "rail" => HybridInv
  /\ part = "scenes" => ScenesInv
  /\ part = "library" => LibraryInv
  /\ part = "performers" => PerformersInv
  /\ part = "performer" => PerformerInv
  /\ part = "acquisition" => AcquisitionInv
  /\ part = "home" => HomeInv /\ HomeTypes

LEMMA InitInv == Init => Inv
BY AuthInit, RailsInit, HybridInit, ScenesInit, LibraryInit, PerformersInit, PerformerInit,
   AcquisitionInit, HomeInit, HomeTypesInit DEF Init, Inv, Parts

\* The steps of the other parts are of behaviours that are theirs alone.
LEMMA NextInv ==
  Inv /\ [Next]_<<part, events, ServerVars, PageVars, ScenesVars, TextVars, ListVars, HomeVars>>
    => Inv'
<1> DEFINE Stutters == UNCHANGED <<ServerVars, PageVars, ScenesVars, TextVars, ListVars, HomeVars>>
<1> SUFFICES ASSUME Inv, Next \/ (UNCHANGED part /\ Stutters)
             PROVE  Inv'
  OBVIOUS
<1>1. part' = part
  BY DEF Next
<1>2. ASSUME part = "auth" PROVE AuthInv'
  <2>1. AuthStep \/ Stutters
    BY <1>2 DEF Next, AuthStep, RailsStep, RailStep, ScenesStep, LibraryStep, PerformersStep,
       PerformerStep, AcquisitionStep, HomeStep
  <2>2. CASE AuthStep
    BY <1>2, <2>2, AuthNext DEF AuthStep, Inv
  <2>3. CASE Stutters
    BY <1>2, <2>3, AuthKept DEF Inv, ServerVars, AuthVars, KeepAuth
  <2> QED
    BY <2>1, <2>2, <2>3
<1>3. ASSUME part = "rails" PROVE RailsInv'
  <2>1. RailsStep \/ Stutters
    BY <1>3 DEF Next, AuthStep, RailsStep, RailStep, ScenesStep, LibraryStep, PerformersStep,
       PerformerStep, AcquisitionStep, HomeStep
  <2>2. CASE RailsStep
    BY <1>3, <2>2, RailsNext DEF RailsStep, Inv
  <2>3. CASE Stutters
    BY <1>3, <2>3, RailsKept DEF Inv, ServerVars, RailsVars, KeepRails
  <2> QED
    BY <2>1, <2>2, <2>3
<1>4. ASSUME part = "scenes" PROVE ScenesInv'
  <2>1. ScenesStep \/ Stutters
    BY <1>4 DEF Next, AuthStep, RailsStep, RailStep, ScenesStep, LibraryStep, PerformersStep,
       PerformerStep, AcquisitionStep, HomeStep
  <2>2. CASE ScenesStep
    BY <1>4, <2>2, ScenesNext DEF ScenesStep, Inv
  <2>3. CASE Stutters
    BY <1>4, <2>3, ScenesKept DEF Inv
  <2> QED
    BY <2>1, <2>2, <2>3
<1>5. ASSUME part = "library" PROVE LibraryInv'
  <2>1. LibraryStep \/ Stutters
    BY <1>5 DEF Next, AuthStep, RailsStep, RailStep, ScenesStep, LibraryStep, PerformersStep,
       PerformerStep, AcquisitionStep, HomeStep
  <2>2. CASE LibraryStep
    BY <1>5, <2>2, LibraryNext DEF LibraryStep, Inv
  <2>3. CASE Stutters
    BY <1>5, <2>3, LibraryKept DEF Inv, PageVars, TextVars
  <2> QED
    BY <2>1, <2>2, <2>3
<1>6. ASSUME part = "performers" PROVE PerformersInv'
  <2>1. PerformersStep \/ Stutters
    BY <1>6 DEF Next, AuthStep, RailsStep, RailStep, ScenesStep, LibraryStep, PerformersStep,
       PerformerStep, AcquisitionStep, HomeStep
  <2>2. CASE PerformersStep
    BY <1>6, <2>2, PerformersNext DEF PerformersStep, Inv
  <2>3. CASE Stutters
    BY <1>6, <2>3, PerformersKept DEF Inv, ListVars
  <2> QED
    BY <2>1, <2>2, <2>3
<1>7. ASSUME part = "performer" PROVE PerformerInv'
  <2>1. PerformerStep \/ Stutters
    BY <1>7 DEF Next, AuthStep, RailsStep, RailStep, ScenesStep, LibraryStep, PerformersStep,
       PerformerStep, AcquisitionStep, HomeStep
  <2>2. CASE PerformerStep
    BY <1>7, <2>2, PerformerNext DEF PerformerStep, Inv
  <2>3. CASE Stutters
    BY <1>7, <2>3, PerformerListKept, DetailsKept DEF Inv, PerformerInv, ListVars, PageVars,
       FavoritesVars, PerformerVars
  <2> QED
    BY <2>1, <2>2, <2>3
<1>8. ASSUME part = "acquisition" PROVE AcquisitionInv'
  <2>1. AcquisitionStep \/ Stutters
    BY <1>8 DEF Next, AuthStep, RailsStep, RailStep, ScenesStep, LibraryStep, PerformersStep,
       PerformerStep, AcquisitionStep, HomeStep
  <2>2. CASE AcquisitionStep
    BY <1>8, <2>2, AcquisitionNext DEF AcquisitionStep, Inv
  <2>3. CASE Stutters
    BY <1>8, <2>3, AcquisitionKept DEF Inv, ListVars
  <2> QED
    BY <2>1, <2>2, <2>3
<1>9. ASSUME part = "home" PROVE HomeInv' /\ HomeTypes'
  <2>1. HomeStep \/ Stutters
    BY <1>9 DEF Next, AuthStep, RailsStep, RailStep, ScenesStep, LibraryStep, PerformersStep,
       PerformerStep, AcquisitionStep, HomeStep
  <2>2. CASE HomeStep
    BY <1>9, <2>2, HomeNext, HomeTypesNext DEF HomeStep, Inv
  <2>3. CASE Stutters
    BY <1>9, <2>3, HomeKept, HomeTypesKept DEF Inv, KeepHome
  <2> QED
    BY <2>1, <2>2, <2>3
<1>10. ASSUME part = "rail" PROVE HybridInv'
  <2>1. RailStep \/ Stutters
    BY <1>10 DEF Next, AuthStep, RailsStep, RailStep, ScenesStep, LibraryStep, PerformersStep,
       PerformerStep, AcquisitionStep, HomeStep
  <2>2. CASE RailStep
    BY <1>10, <2>2, HybridNext DEF RailStep, Inv
  <2>3. CASE Stutters
    BY <1>10, <2>3, HybridKept DEF Inv, ServerVars, RailVars
  <2> QED
    BY <2>1, <2>2, <2>3
<1> QED
  BY <1>1, <1>2, <1>3, <1>4, <1>5, <1>6, <1>7, <1>8, <1>9, <1>10 DEF Inv

LEMMA Invariant == Spec => []Inv
BY InitInv, NextInv, PTL DEF Spec

\* The state of each part stays in its range.
THEOREM TypesAreOK == Spec => []TypeOK
<1>1. Inv => TypeOK
  BY AuthImplies, RailsImplies, HybridImplies, ScenesImplies, LibraryImplies, PerformersImplies,
     PerformerImplies, AcquisitionImplies, HomeTypesImply DEF Inv, TypeOK
<1> QED
  BY <1>1, Invariant, PTL

\* For any number of passwords, sessions and requests that overlap: a session that is let
\* in was started with the password in force, or set it, unless two changes overlapped
\* (AuthService).
THEOREM OldPasswordsAreOut == Spec => []OldPasswordsOut
<1>1. Inv => OldPasswordsOut
  BY AuthImplies DEF Inv, OldPasswordsOut
<1> QED
  BY <1>1, Invariant, PTL

\* For any number of rails and of requests that overlap: the rails keep the order in which
\* they were last arranged, unless an arrangement or a renumbering is saved between another
\* deletion's listing and its renumbering (HomeService).
THEOREM ArrangementIsKept == Spec => []ArrangementKept
<1>1. Inv => ArrangementKept
  BY RailsImplies DEF Inv, ArrangementKept
<1> QED
  BY <1>1, Invariant, PTL

\* For any number of rails: unless answers crossed, the home page at rest shows the server's
\* rails in their order, each that is enabled with its content, and does not offer a scene
\* that was requested from it (HomePageComponent).
THEOREM HomeShowsServer == Spec => []HomeShowsRails
<1>1. Inv => HomeShowsRails
  BY HomeImplies DEF Inv, HomeShowsRails
<1> QED
  BY <1>1, Invariant, PTL

\* For any catalog, limit, page size and number of lookups at once: a hybrid rail shows the
\* first scenes that belong into it, in the order of the catalog, whatever order the lookups
\* answer in (HybridScenesService).
THEOREM RailShowsMatches == Spec => []RailShowsFirstMatches
<1>1. Inv => RailShowsFirstMatches
  BY HybridImplies DEF Inv, RailShowsFirstMatches
<1> QED
  BY <1>1, Invariant, PTL

\* For any filters, scenes, performers, page sizes and lengths of the lists: the lists of the
\* five pages are those of the filters that are selected, page after page, whatever was
\* chosen, scrolled to, navigated to, answered or lost meanwhile; the cases that
\* FeedsShowSelection leaves out are named at the property of each page (ScenesPageComponent,
\* LibraryPageComponent, PerformersPageComponent, PerformerPageComponent,
\* AcquisitionPageComponent).
THEOREM FeedsShowWhatIsSelected == Spec => []FeedsShowSelection
<1>1. Inv => FeedsShowSelection
  BY ScenesImplies, LibraryImplies, PerformersImplies, PerformerImplies, AcquisitionImplies
     DEF Inv, FeedsShowSelection
<1> QED
  BY <1>1, Invariant, PTL
=============================================================================
