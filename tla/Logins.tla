-------------------------------- MODULE Logins --------------------------------
(***************************************************************************)
(* Signing in and being signed in: the login guard (core/login-guard.ts),  *)
(* authenticateStaffUser and authenticateClientContact, the session rows   *)
(* (core/sessions.ts), and what every request makes of them before it is   *)
(* served (web/auth.ts, web/proxy.ts, web/lib/session.ts), with the two    *)
(* commands that take access away: disableStaffUser and                    *)
(* changeClientStatus.                                                     *)
(*                                                                         *)
(* An attempt is one submission of a login form.  Each of its statements   *)
(* commits by itself; what it decides between two of them it decides on    *)
(* the account as it read it at its start.  Its LoginEvent row and its     *)
(* session row carry the attempt's name.  A visit is one request made with *)
(* the cookie an attempt earned.                                           *)
(***************************************************************************)
EXTENDS Integers, FiniteSets, Access, StatusMaps

CONSTANTS
  Staff, Clients,   \* the accounts
  Role,             \* the role of each staff user
  Attempts,         \* login attempts, each of them once
  Casts,            \* which account each attempt may name, None if not made
  Visits,           \* requests of signed-in browsers, each of them once
  MaxFailed,        \* MAX_FAILED_ATTEMPTS
  Window,           \* LOCKOUT_WINDOW_MINUTES, and LOCKOUT_DURATION_MINUTES
  SessionTtl,       \* SESSION_TTL_MS
  Parallel,         \* bound: requests under way at once
  MaxTime,          \* bound: the last instant
  None

Accounts == Staff \cup Clients

ASSUME LoginsAssumption ==
  /\ Staff \cap Clients = {}
  /\ Attempts \cap Visits = {}
  /\ Role \in [Staff -> STAFF_ROLE_KEYS]
  /\ Casts \subseteq [Attempts -> Accounts \cup {None}]
  /\ IsFiniteSet(Attempts)
  /\ MaxFailed \in Nat \ {0} /\ Window \in Nat \ {0} /\ SessionTtl \in Nat
  /\ Parallel \in Nat \ {0} /\ MaxTime \in Nat
  /\ None \notin Attempts \cup Staff \cup Clients

VARIABLES
  by,            \* the account each attempt names
  now,           \* the clock
  status,        \* StaffUser.status
  clientStatus,  \* Client.status
  lockedUntil,   \* lockedUntil of each account, 0 for null
  event,         \* the LoginEvent row of each attempt
  session,       \* the session row of each attempt
  pc,            \* the next step of each attempt and visit
  token,         \* the session token each visit presents
  aim            \* what a visit's open command is about

rows   == <<status, clientStatus, lockedUntil, event, session>>
visits == <<token, aim>>
vars   == <<by, now, status, clientStatus, lockedUntil, event, session,
            pc, token, aim>>

Unrecorded == -1
NoEvent    == [reason |-> "none", at |-> Unrecorded]
NoSession  == [state |-> "none", expires |-> 0]
NoAim      == [target |-> None, to |-> "none", reach |-> {}]

Init ==
  /\ by \in Casts
  /\ now = 0
  /\ status = [s \in Staff |-> "ACTIVE"]
  /\ clientStatus = [c \in Clients |-> "ACTIVE"]
  /\ lockedUntil = [x \in Accounts |-> 0]
  /\ event = [a \in Attempts |-> NoEvent]
  /\ session = [a \in Attempts |-> NoSession]
  /\ pc = [p \in Attempts \cup Visits |-> "idle"]
  /\ token = [v \in Visits |-> None]
  /\ aim = [v \in Visits |-> NoAim]

Goto(p, step) == pc' = [pc EXCEPT ![p] = step]

Resting == {"idle", "over"}

-----------------------------------------------------------------------------
(* authenticateStaffUser, authenticateClientContact *)

\* A staff user by its own status, a contact by its client's.
Open(x) == IF x \in Staff THEN status[x] = "ACTIVE"
           ELSE clientStatus[x] \notin {"SUSPENDED", "CLOSED"}

Locked(x) == lockedUntil[x] > now

UnderWay == {p \in Attempts \cup Visits : pc[p] \notin Resting}

MayBegin(p) == pc[p] = "idle" /\ Cardinality(UnderWay) < Parallel

\* What the rest of the attempt will record is settled once the account is
\* read: the password and the code are checked against that copy.
Decide(a, reason, step) ==
  /\ event' = [event EXCEPT ![a].reason = reason]
  /\ Goto(a, step)
  /\ UNCHANGED <<by, now, status, clientStatus, lockedUntil, session, visits>>

TurnAway(a) ==
  /\ MayBegin(a) /\ by[a] # None
  /\ ~Open(by[a]) \/ Locked(by[a])
  /\ Decide(a, "refused", "record")

Admitted(a) == MayBegin(a) /\ by[a] # None /\ Open(by[a]) /\ ~Locked(by[a])

GuessWrong(a) == Admitted(a) /\ Decide(a, "bad_password", "count")

\* Whether a staff user has a second factor on is left open.  A login without
\* a code is sent back for one and leaves no LoginEvent.
OmitCode(a) == Admitted(a) /\ by[a] \in Staff /\ Decide(a, "none", "over")

\* A wrong code is recorded as a failure, and nothing is counted.
MistypeCode(a) == Admitted(a) /\ by[a] \in Staff /\ Decide(a, "refused", "record")

GuessRight(a) == Admitted(a) /\ Decide(a, "success", "record")

Recorded(a) == event[a].at # Unrecorded

\* Fault: the failures of every account are counted.
Fault_RecentFailures(x) ==
  {a \in Attempts : Recorded(a) /\ event[a].reason # "success"
                    /\ event[a].at >= now - Window}

RecentFailures(x) ==
  {a \in Attempts : by[a] = x /\ Recorded(a) /\ event[a].reason # "success"
                    /\ event[a].at >= now - Window}

\* shouldLockOut: the failure at hand is not recorded yet.
CountFailures(a) ==
  /\ pc[a] = "count"
  /\ Goto(a, IF Cardinality(RecentFailures(by[a])) >= MaxFailed THEN "lock" ELSE "record")
  /\ UNCHANGED <<by, now, rows, visits>>

\* The row of a staff user that an open disableStaffUser has updated.
Held(x) == \E v \in Visits : pc[v] \in {"revoke", "commitDisable"} /\ aim[v].target = x

\* Fault: the lock is a moment long.
Fault_LockAccountBriefly(a) ==
  /\ pc[a] = "lock" /\ ~Held(by[a])
  /\ lockedUntil' = [lockedUntil EXCEPT ![by[a]] = now]
  /\ Goto(a, "record")
  /\ UNCHANGED <<by, now, status, clientStatus, event, session, visits>>

\* Fault: the lock is set to run on from the end of a window.
Fault_LockAccount(a) ==
  /\ pc[a] = "lock" /\ ~Held(by[a])
  /\ lockedUntil' = [lockedUntil EXCEPT ![by[a]] = now + 2 * Window]
  /\ Goto(a, "record")
  /\ UNCHANGED <<by, now, status, clientStatus, event, session, visits>>

LockAccount(a) ==
  /\ pc[a] = "lock" /\ ~Held(by[a])
  /\ lockedUntil' = [lockedUntil EXCEPT ![by[a]] = now + Window]
  /\ Goto(a, "record")
  /\ UNCHANGED <<by, now, status, clientStatus, event, session, visits>>

RecordAttempt(a) ==
  /\ pc[a] = "record"
  /\ event' = [event EXCEPT ![a].at = now]
  /\ Goto(a, IF event[a].reason = "success" THEN "clear" ELSE "over")
  /\ UNCHANGED <<by, now, status, clientStatus, lockedUntil, session, visits>>

\* lastLoginAt, and the lock goes whatever it says by now.
ClearLock(a) ==
  /\ pc[a] = "clear" /\ ~Held(by[a])
  /\ lockedUntil' = [lockedUntil EXCEPT ![by[a]] = 0]
  /\ Goto(a, "session")
  /\ UNCHANGED <<by, now, status, clientStatus, event, session, visits>>

\* createStaffSession, createClientSession.
CreateSession(a) ==
  /\ pc[a] = "session"
  /\ session' = [session EXCEPT ![a] = [state |-> "live", expires |-> now + SessionTtl]]
  /\ Goto(a, "over")
  /\ UNCHANGED <<by, now, status, clientStatus, lockedUntil, event, visits>>

-----------------------------------------------------------------------------
(* One request: proxy.ts resolves the session to admit or redirect, and    *)
(* the page or action resolves it again; each time auth() reads the        *)
(* session row and then the account.                                       *)

ActorType(x) == IF x \in Staff THEN "STAFF" ELSE "CLIENT_CONTACT"
Visitor(v)   == by[token[v]]

\* A browser keeps its cookie until logoutAction drops it, which leaves the
\* session row as it is: then it makes no further visit.
Arrive(v) ==
  /\ MayBegin(v)
  /\ \E a \in Attempts :
       session[a].state # "none" /\ token' = [token EXCEPT ![v] = a]
  /\ Goto(v, "proxySession")
  /\ UNCHANGED <<by, now, rows, aim>>

Usable(a) == session[a].state = "live" /\ session[a].expires >= now

\* Without a session the visitor is redirected to a login page.
Redirect(v) ==
  /\ token' = [token EXCEPT ![v] = None]
  /\ Goto(v, "over")

ReadSession(v) ==
  /\ pc[v] \in {"proxySession", "pageSession"}
  /\ \/ ~Usable(token[v]) /\ Redirect(v)
     \/ /\ Usable(token[v]) /\ UNCHANGED token
        /\ Goto(v, IF pc[v] = "proxySession" THEN "proxyActor" ELSE "pageActor")
  /\ UNCHANGED <<by, now, rows, aim>>

\* Fault: the session row is trusted for a staff user too.
Fault_Loads(x) == TRUE

\* loadStaffActor asks for an ACTIVE staff user; loadClientPortalActor looks
\* at the contact, which nothing disables, and not at its client.
Loads(x) == x \in Staff => status[x] = "ACTIVE"

\* The area visited is the visitor's own or the other one.
LoadActor(v) ==
  /\ pc[v] \in {"proxyActor", "pageActor"}
  /\ \E area \in Areas :
       LET admitted == Loads(Visitor(v)) /\ ActorType(Visitor(v)) = AdmittedTo(area)
       IN \/ ~admitted /\ Redirect(v)
          \/ /\ admitted /\ UNCHANGED token
             /\ Goto(v, IF pc[v] = "proxyActor" THEN "pageSession" ELSE "act")
  /\ UNCHANGED <<by, now, rows, aim>>

\* The permissions requirePermission looks at; contacts hold none.
Permissions(x) == IF x \in Staff THEN DEFAULT_ROLE_PERMISSIONS[Role[x]] ELSE {}

MayRun(v, service) == MayCall(Permissions(Visitor(v)), service)

Finish(v) ==
  /\ token' = [token EXCEPT ![v] = None]
  /\ aim' = [aim EXCEPT ![v] = NoAim]
  /\ Goto(v, "over")

\* The page is shown, the command is another module's, or it is denied.
ServePage(v) ==
  /\ pc[v] = "act"
  /\ Finish(v)
  /\ UNCHANGED <<by, now, rows>>

\* Fault: the right to see clients is enough.
Fault_ReadClient(v) ==
  /\ pc[v] = "act" /\ Visitor(v) \in Staff
  /\ hasPermission(Permissions(Visitor(v)), "clients.read")
  /\ \E c \in Clients, to \in ClientStatuses :
       /\ IsValidClientTransition(clientStatus[c], to)
       /\ aim' = [aim EXCEPT ![v] = [NoAim EXCEPT !.target = c, !.to = to]]
  /\ Goto(v, "commitStatus")
  /\ UNCHANGED <<by, now, rows, token>>

\* changeClientStatus: the unlocked read of the client.
ReadClient(v) ==
  /\ pc[v] = "act" /\ MayRun(v, "changeClientStatus")
  /\ \E c \in Clients, to \in ClientStatuses :
       /\ IsValidClientTransition(clientStatus[c], to)
       /\ aim' = [aim EXCEPT ![v] = [NoAim EXCEPT !.target = c, !.to = to]]
  /\ Goto(v, "commitStatus")
  /\ UNCHANGED <<by, now, rows, token>>

CommitStatus(v) ==
  /\ pc[v] = "commitStatus"
  /\ clientStatus' = [clientStatus EXCEPT ![aim[v].target] = aim[v].to]
  /\ Finish(v)
  /\ UNCHANGED <<by, now, status, lockedUntil, event, session>>

\* disableStaffUser: the update of the row, which stays locked; then the
\* sessions there are when the second statement runs; then the commit.
DisableStaffUser(v) ==
  /\ pc[v] = "act" /\ MayRun(v, "disableStaffUser")
  /\ \E s \in Staff :
       /\ ~Held(s)
       /\ aim' = [aim EXCEPT ![v] = [NoAim EXCEPT !.target = s]]
  /\ Goto(v, "revoke")
  /\ UNCHANGED <<by, now, rows, token>>

LiveSessions(x) == {a \in Attempts : by[a] = x /\ session[a].state = "live"}

RevokeSessions(v) ==
  /\ pc[v] = "revoke"
  /\ aim' = [aim EXCEPT ![v].reach = LiveSessions(aim[v].target)]
  /\ Goto(v, "commitDisable")
  /\ UNCHANGED <<by, now, rows, token>>

CommitDisable(v) ==
  /\ pc[v] = "commitDisable"
  /\ status' = [status EXCEPT ![aim[v].target] = "DISABLED"]
  /\ session' = [a \in Attempts |->
                   IF a \in aim[v].reach THEN [session[a] EXCEPT !.state = "revoked"]
                                         ELSE session[a]]
  /\ Finish(v)
  /\ UNCHANGED <<by, now, clientStatus, lockedUntil, event>>

-----------------------------------------------------------------------------

\* The server crashes or a statement fails: an open transaction is rolled
\* back.  Elsewhere a lost request is one that takes no further step.
Rollback(v) ==
  /\ pc[v] \in {"revoke", "commitDisable"}
  /\ Finish(v)
  /\ UNCHANGED <<by, now, rows>>

Tick ==
  /\ now < MaxTime
  /\ now' = now + 1
  /\ UNCHANGED <<by, rows, pc, visits>>

\* What the two services have in common.
Authenticate(a) ==
  \/ TurnAway(a) \/ GuessWrong(a) \/ GuessRight(a)
  \/ CountFailures(a) \/ LockAccount(a) \/ RecordAttempt(a) \/ ClearLock(a)

authenticateClientContact(a) == by[a] \in Clients /\ Authenticate(a)

authenticateStaffUser(a) ==
  by[a] \in Staff /\ (Authenticate(a) \/ OmitCode(a) \/ MistypeCode(a))

\* The authorize callback that a login form's action reaches by signIn.
authorize(a) ==
  authenticateClientContact(a) \/ authenticateStaffUser(a) \/ CreateSession(a)

proxy(v) ==
  pc[v] \in {"proxySession", "proxyActor"} /\ (ReadSession(v) \/ LoadActor(v))

\* requireStaffActor, requireClientActor.
requireActor(v) ==
  pc[v] \in {"pageSession", "pageActor"} /\ (ReadSession(v) \/ LoadActor(v))

changeClientStatus(v) == ReadClient(v) \/ CommitStatus(v)

disableStaffUser(v) ==
  DisableStaffUser(v) \/ RevokeSessions(v) \/ CommitDisable(v) \/ Rollback(v)

Next ==
  \/ \E a \in Attempts : authorize(a)
  \/ \E v \in Visits : \/ Arrive(v) \/ proxy(v) \/ requireActor(v) \/ ServePage(v)
                       \/ changeClientStatus(v) \/ disableStaffUser(v)
  \/ Tick

Spec == Init /\ [][Next]_vars

-----------------------------------------------------------------------------
(* Properties *)

AttemptSteps == {"count", "lock", "record", "clear", "session"}
VisitSteps   == {"proxySession", "proxyActor", "pageSession", "pageActor",
                 "act", "commitStatus", "revoke", "commitDisable"}

LoginEvents == [reason : {"none", "refused", "bad_password", "success"},
                at : Nat \cup {Unrecorded}]
SessionRows == [state : {"none", "live", "revoked"}, expires : Nat]
Aims        == [target : Accounts \cup {None}, to : ClientStatuses \cup {"none"},
                reach : SUBSET Attempts]

\* Type invariant.
TypeOK ==
  /\ by \in [Attempts -> Accounts \cup {None}]
  /\ now \in 0..MaxTime
  /\ status \in [Staff -> {"ACTIVE", "DISABLED"}]
  /\ clientStatus \in [Clients -> ClientStatuses]
  /\ lockedUntil \in [Accounts -> 0..(MaxTime + Window)]
  /\ event \in [Attempts -> LoginEvents]
  /\ session \in [Attempts -> SessionRows]
  /\ pc \in [Attempts \cup Visits -> Resting \cup AttemptSteps \cup VisitSteps]
  /\ token \in [Visits -> Attempts \cup {None}]
  /\ aim \in [Visits -> Aims]

\* The wrong passwords tried on an account: those on their way to being
\* recorded and those recorded within the window.
Guesses(x) ==
  {a \in Attempts :
     /\ by[a] = x /\ event[a].reason = "bad_password"
     /\ event[a].at > now - Window \/ pc[a] \in {"count", "lock", "record"}}

Successes(x) == {a \in Attempts : by[a] = x /\ Recorded(a) /\ event[a].reason = "success"}

\* Rotating addresses, or trying in parallel, does not buy more than a few
\* guesses per window: failures that overlap are counted before each other is
\* recorded and a login that overlaps a lock lifts it, but both are bounded by
\* how many attempts run side by side (shouldLockOut, lockedUntil: null).
GuessesBounded ==
  \A x \in Accounts :
    Cardinality(Guesses(x)) <=
      MaxFailed + 2 * Parallel - 1 + (Parallel - 1) * Cardinality(Successes(x))

\* Nobody is locked out for failures at another account: a lock answers
\* MaxFailed recorded failures of its own, though it is set two statements
\* after the account was read.
LockedForFailures ==
  \A x \in Accounts :
    lockedUntil[x] # 0 \/ (\E a \in Attempts : by[a] = x /\ pc[a] = "lock") =>
      Cardinality({a \in Attempts : by[a] = x /\ Recorded(a)
                                    /\ event[a].reason # "success"}) >= MaxFailed

Serving == {"act", "commitStatus", "revoke", "commitDisable"}

Quiet(s) == \A v \in Visits : pc[v] \in Serving => by[token[v]] # s

\* Once a staff user is disabled and the requests then being served are over,
\* none is served again, although a login under way during the disabling gets
\* a session that the disabling did not revoke.
DisabledGoesQuiet ==
  [][\A s \in Staff : status[s] = "DISABLED" /\ Quiet(s) => Quiet(s)']_vars

\* The session was given to a staff user whose role has the permission.
Entitled(a, permission) ==
  /\ session[a].state # "none" /\ by[a] \in Staff
  /\ permission \in DEFAULT_ROLE_PERMISSIONS[Role[by[a]]]

\* Whoever else is signed in, a status moves only by the command of a visit
\* made on the session of a staff user whose role allows it, and it is the
\* status of the account that command is about.
CommandsEntitled ==
  [][/\ \A c \in Clients : clientStatus'[c] # clientStatus[c] =>
          \E v \in Visits : /\ pc[v] = "commitStatus" /\ pc'[v] = "over"
                            /\ aim[v].target = c /\ Entitled(token[v], "clients.write")
     /\ \A s \in Staff : status'[s] # status[s] =>
          \E v \in Visits : /\ pc[v] = "commitDisable" /\ pc'[v] = "over"
                            /\ aim[v].target = s /\ Entitled(token[v], "staff.manage")]_vars
=============================================================================
