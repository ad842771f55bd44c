----------------------------- MODULE LoginsProofs -----------------------------
(***************************************************************************)
(* Logins for any number of accounts, attempts and visits, and any size of *)
(* the guard's window.  What a visit may do rests on what it has found out *)
(* on its way there, and only one thing can change under it, the status of *)
(* a staff user, which is asked for at the last step before it is served.  *)
(* What guesses an account takes is a matter of counting sets of attempts, *)
(* between one lock and the next.                                          *)
(***************************************************************************)
EXTENDS Logins, FiniteSetTheorems, TLAPS

\* Sessions belong to accounts, and an attempt that is not over is unrecorded
\* until its last but two steps.
AttemptInv ==
  \A a \in Attempts :
    /\ session[a].state # "none" \/ pc[a] = "session" => by[a] \in Accounts
    /\ pc[a] \in {"idle", "count", "lock", "record"} => ~Recorded(a)

\* What a visit has found out by the step it has come to.
Found(v) ==
  /\ pc[v] \notin Resting => token[v] \in Attempts /\ session[token[v]].state # "none"
  /\ pc[v] = "commitStatus" =>
       /\ Entitled(token[v], "clients.write")
       /\ aim[v].target \in Clients /\ aim[v].to \in ClientStatuses
  /\ pc[v] \in {"revoke", "commitDisable"} =>
       /\ Entitled(token[v], "staff.manage")
       /\ aim[v].target \in Staff
  /\ pc[v] = "commitDisable" => \A a \in aim[v].reach : session[a].state # "none"

VisitInv == \A v \in Visits : Found(v)

LoginsInv == TypeOK /\ AttemptInv /\ VisitInv

\* A step is one attempt's, one visit's or the clock's.
AttemptStep(a) == authorize(a)
VisitStep(v) ==
  \/ Arrive(v) \/ ReadSession(v) \/ LoadActor(v) \/ ServePage(v)
  \/ ReadClient(v) \/ CommitStatus(v)
  \/ DisableStaffUser(v) \/ RevokeSessions(v) \/ CommitDisable(v) \/ Rollback(v)

LEMMA ThreeWays ==
  ASSUME [Next]_vars
  PROVE  \/ \E a \in Attempts : AttemptStep(a)
         \/ \E v \in Visits : VisitStep(v)
         \/ Tick \/ UNCHANGED vars
  BY DEF Next, AttemptStep, VisitStep, proxy, requireActor, changeClientStatus, disableStaffUser

LEMMA LoginsInit == ASSUME Init PROVE LoginsInv
  <1>1. NoEvent \in LoginEvents /\ NoSession \in SessionRows /\ NoAim \in Aims
    BY DEF NoEvent, NoSession, NoAim, LoginEvents, SessionRows, Aims, Unrecorded
  <1>2. TypeOK
    BY <1>1, LoginsAssumption DEF Init, TypeOK, Resting, ClientStatuses
  <1>3. AttemptInv /\ VisitInv
    BY DEF Init, AttemptInv, VisitInv, Found, NoSession, NoEvent, Recorded, Unrecorded, Resting
  <1> QED  BY <1>2, <1>3 DEF LoginsInv

-----------------------------------------------------------------------------

LEMMA TypeAttempt == ASSUME LoginsInv, NEW a \in Attempts, AttemptStep(a) PROVE TypeOK'
  <1> USE LoginsAssumption
      DEF LoginsInv, TypeOK, Goto, rows, visits, Resting, AttemptSteps, Accounts
  <1>1. ASSUME NEW reason \in {"none", "refused", "bad_password", "success"},
               NEW step \in {"record", "count", "over"}, Decide(a, reason, step)
        PROVE  TypeOK'
    <2>1. [event[a] EXCEPT !.reason = reason] \in LoginEvents
      BY DEF LoginEvents
    <2> QED  BY <1>1, <2>1 DEF Decide
  <1>2. CASE CountFailures(a)
    BY <1>2 DEF CountFailures
  <1>3. CASE by[a] \in Accounts /\ LockAccount(a)
    BY <1>3 DEF LockAccount
  <1>4. CASE RecordAttempt(a)
    <2>1. [event[a] EXCEPT !.at = now] \in LoginEvents
      BY DEF LoginEvents
    <2> QED  BY <1>4, <2>1 DEF RecordAttempt
  <1>5. CASE by[a] \in Accounts /\ ClearLock(a)
    BY <1>5 DEF ClearLock
  <1>6. CASE CreateSession(a)
    <2>1. [state |-> "live", expires |-> now + SessionTtl] \in SessionRows
      BY DEF SessionRows
    <2> QED  BY <1>6, <2>1 DEF CreateSession
  <1> QED
    BY <1>1, <1>2, <1>3, <1>4, <1>5, <1>6
    DEF AttemptStep, authorize, authenticateClientContact, authenticateStaffUser, Authenticate,
        TurnAway, GuessWrong, GuessRight, OmitCode, MistypeCode

LEMMA TypeVisit == ASSUME LoginsInv, NEW v \in Visits, VisitStep(v) PROVE TypeOK'
  <1> USE LoginsAssumption DEF LoginsInv, TypeOK, Goto, rows, visits, Resting, VisitSteps
  <1>0. NoAim \in Aims
    BY DEF NoAim, Aims
  <1>1. CASE Arrive(v)
    BY <1>1 DEF Arrive
  <1>2. CASE ReadSession(v)
    BY <1>2 DEF ReadSession, Redirect
  <1>3. CASE LoadActor(v)
    BY <1>3 DEF LoadActor, Redirect
  <1>4. CASE ServePage(v) \/ Rollback(v)
    BY <1>0, <1>4 DEF ServePage, Rollback, Finish
  <1>5. CASE ReadClient(v)
    <2>1. PICK c \in Clients, to \in ClientStatuses :
                 aim' = [aim EXCEPT ![v] = [NoAim EXCEPT !.target = c, !.to = to]]
      BY <1>5 DEF ReadClient
    <2>2. [NoAim EXCEPT !.target = c, !.to = to] \in Aims
      BY DEF NoAim, Aims, Accounts
    <2> QED  BY <1>5, <2>1, <2>2 DEF ReadClient
  <1>6. CASE CommitStatus(v)
    BY <1>0, <1>6 DEF CommitStatus, Finish, VisitInv, Found
  <1>7. CASE DisableStaffUser(v)
    <2>1. PICK s \in Staff : aim' = [aim EXCEPT ![v] = [NoAim EXCEPT !.target = s]]
      BY <1>7 DEF DisableStaffUser
    <2>2. [NoAim EXCEPT !.target = s] \in Aims
      BY DEF NoAim, Aims, Accounts
    <2> QED  BY <1>7, <2>1, <2>2 DEF DisableStaffUser
  <1>8. CASE RevokeSessions(v)
    <2>1. [aim[v] EXCEPT !.reach = LiveSessions(aim[v].target)] \in Aims
      BY DEF LiveSessions, Aims
    <2> QED  BY <1>8, <2>1 DEF RevokeSessions
  <1>9. CASE CommitDisable(v)
    <2>1. ASSUME NEW a \in Attempts
          PROVE  [session[a] EXCEPT !.state = "revoked"] \in SessionRows
      BY DEF SessionRows
    <2>2. session' \in [Attempts -> SessionRows]
      BY <1>9, <2>1 DEF CommitDisable
    <2>3. status' \in [Staff -> {"ACTIVE", "DISABLED"}]
      BY <1>9 DEF CommitDisable, VisitInv, Found
    <2>4. UNCHANGED <<by, now, clientStatus, lockedUntil, event>> /\ Finish(v)
      BY <1>9 DEF CommitDisable
    <2> QED  BY <1>0, <2>2, <2>3, <2>4 DEF Finish
  <1> QED  BY <1>1, <1>2, <1>3, <1>4, <1>5, <1>6, <1>7, <1>8, <1>9 DEF VisitStep

LEMMA TypeNext == ASSUME LoginsInv, [Next]_vars PROVE TypeOK'
  <1>1. CASE Tick
    BY <1>1, LoginsAssumption DEF Tick, LoginsInv, TypeOK, rows, visits
  <1>2. CASE UNCHANGED vars
    BY <1>2 DEF vars, LoginsInv, TypeOK
  <1> QED  BY <1>1, <1>2, ThreeWays, TypeAttempt, TypeVisit

-----------------------------------------------------------------------------
(* What attempts and visits may rely on *)

\* An attempt leaves the visits alone, and sessions stay.
LEMMA AttemptFrame ==
  ASSUME LoginsInv, NEW a \in Attempts, AttemptStep(a)
  PROVE  /\ by' = by /\ token' = token /\ aim' = aim
         /\ status' = status /\ clientStatus' = clientStatus
         /\ \A p \in (Attempts \cup Visits) \ {a} : pc'[p] = pc[p]
         /\ \A b \in Attempts : session[b].state # "none" => session'[b].state # "none"
         /\ \A b \in Attempts \ {a} : session'[b] = session[b] /\ event'[b] = event[b]
  BY LoginsAssumption
  DEF LoginsInv, TypeOK, Goto, rows, visits, AttemptStep, authorize, authenticateClientContact,
      authenticateStaffUser, Authenticate, TurnAway, GuessWrong, GuessRight, OmitCode,
      MistypeCode, Decide, CountFailures, LockAccount, RecordAttempt, ClearLock, CreateSession

\* A visit leaves the attempts and the other visits alone, and sessions stay.
LEMMA VisitFrame ==
  ASSUME LoginsInv, NEW v \in Visits, VisitStep(v)
  PROVE  /\ by' = by /\ event' = event /\ lockedUntil' = lockedUntil /\ now' = now
         /\ \A p \in (Attempts \cup Visits) \ {v} : pc'[p] = pc[p]
         /\ \A w \in Visits \ {v} : token'[w] = token[w] /\ aim'[w] = aim[w]
         /\ \A a \in Attempts : session'[a].state = "none" <=> session[a].state = "none"
  <1> USE DEF LoginsInv, TypeOK, Goto, rows, visits
  <1>1. CASE CommitDisable(v)
    <2>1. ASSUME NEW a \in Attempts
          PROVE  session'[a].state = "none" <=> session[a].state = "none"
      <3>1. session'[a] = IF a \in aim[v].reach THEN [session[a] EXCEPT !.state = "revoked"]
                                                ELSE session[a]
        BY <1>1 DEF CommitDisable
      <3>2. [session[a] EXCEPT !.state = "revoked"].state = "revoked"
        OBVIOUS
      <3>3. a \in aim[v].reach => session[a].state # "none"
        BY <1>1 DEF CommitDisable, VisitInv, Found
      <3> QED  BY <3>1, <3>2, <3>3
    <2> QED  BY <1>1, <2>1 DEF CommitDisable, Finish
  <1>2. CASE Arrive(v) \/ ReadSession(v) \/ LoadActor(v) \/ ServePage(v) \/ Rollback(v)
    BY <1>2 DEF Arrive, ReadSession, LoadActor, ServePage, Rollback, Redirect, Finish
  <1>3. CASE ReadClient(v) \/ CommitStatus(v) \/ DisableStaffUser(v) \/ RevokeSessions(v)
    BY <1>3 DEF ReadClient, CommitStatus, DisableStaffUser, RevokeSessions, Finish
  <1> QED  BY <1>1, <1>2, <1>3 DEF VisitStep

LEMMA AttemptNext == ASSUME LoginsInv, [Next]_vars PROVE AttemptInv'
  <1>1. ASSUME NEW a \in Attempts, AttemptStep(a) PROVE AttemptInv'
    <2> USE DEF LoginsInv, AttemptInv, TypeOK, Recorded
    <2>1. ASSUME NEW b \in Attempts, b # a
          PROVE  /\ session'[b].state # "none" \/ pc'[b] = "session" => by'[b] \in Accounts
                 /\ pc'[b] \in {"idle", "count", "lock", "record"} => event'[b].at = Unrecorded
      BY <1>1, <2>1, AttemptFrame
    <2>2. /\ session'[a].state # "none" \/ pc'[a] = "session" => by'[a] \in Accounts
          /\ pc'[a] \in {"idle", "count", "lock", "record"} => event'[a].at = Unrecorded
      BY <1>1
      DEF LoginEvents, SessionRows, Goto, rows, visits, Accounts, AttemptStep, authorize, authenticateClientContact,
          authenticateStaffUser, Authenticate, TurnAway, GuessWrong, GuessRight, OmitCode,
          MistypeCode, Admitted, MayBegin, Decide, CountFailures, LockAccount, RecordAttempt,
          ClearLock, CreateSession
    <2> QED  BY <2>1, <2>2
  <1>2. ASSUME NEW v \in Visits, VisitStep(v) PROVE AttemptInv'
    BY <1>2, VisitFrame, LoginsAssumption DEF LoginsInv, AttemptInv, Recorded
  <1>3. CASE Tick \/ UNCHANGED vars
    BY <1>3 DEF Tick, vars, rows, LoginsInv, AttemptInv, Recorded
  <1> QED  BY <1>1, <1>2, <1>3, ThreeWays

\* Only staff hold permissions.
LEMMA OnlyStaffRun ==
  ASSUME LoginsInv, NEW v \in Visits, pc[v] \notin Resting,
         NEW service \in {"changeClientStatus", "disableStaffUser"}, MayRun(v, service)
  PROVE  Entitled(token[v], Needs[service])
  <1>1. session[token[v]].state # "none"
    BY DEF LoginsInv, VisitInv, Found
  <1> QED  BY <1>1 DEF MayRun, MayCall, hasPermission, Permissions, Visitor, Entitled

\* What a visit has found out stays true while others move.
LEMMA KeptAlone ==
  ASSUME TypeOK, VisitInv, NEW v \in Visits,
         pc'[v] = pc[v], by' = by, token'[v] = token[v], aim'[v] = aim[v],
         \A a \in Attempts : session[a].state # "none" => session'[a].state # "none"
  PROVE  Found(v)'
  <1>1. aim[v].reach \subseteq Attempts
    BY DEF TypeOK, Aims
  <1>2. Found(v)
    BY DEF VisitInv
  <1>3. ASSUME NEW permission, pc[v] \notin Resting, Entitled(token[v], permission)
        PROVE  Entitled(token[v], permission)'
    BY <1>2, <1>3 DEF Found, Entitled
  <1> QED  BY <1>1, <1>2, <1>3 DEF Found, Resting

LEMMA VisitNext == ASSUME LoginsInv, [Next]_vars PROVE VisitInv'
  <1>1. ASSUME NEW a \in Attempts, AttemptStep(a) PROVE VisitInv'
    <2>1. ASSUME NEW w \in Visits PROVE Found(w)'
      <3>1. pc'[w] = pc[w] /\ by' = by /\ token' = token /\ aim' = aim
        BY <1>1, AttemptFrame, LoginsAssumption
      <3>2. \A b \in Attempts : session[b].state # "none" => session'[b].state # "none"
        BY <1>1, AttemptFrame
      <3> QED  BY <3>1, <3>2, KeptAlone DEF LoginsInv
    <2> QED  BY <2>1 DEF VisitInv
  <1>2. ASSUME NEW v \in Visits, VisitStep(v) PROVE VisitInv'
    <2>1. ASSUME NEW w \in Visits, w # v PROVE Found(w)'
      <3>1. pc'[w] = pc[w] /\ by' = by /\ token'[w] = token[w] /\ aim'[w] = aim[w]
        BY <1>2, <2>1, VisitFrame
      <3>2. \A b \in Attempts : session[b].state # "none" => session'[b].state # "none"
        BY <1>2, VisitFrame
      <3> QED  BY <3>1, <3>2, KeptAlone DEF LoginsInv
    <2>2. Found(v)'
      <3> USE DEF LoginsInv, TypeOK, VisitInv, Found, Goto, rows, visits, Resting, Entitled
      <3>0. \A a \in Attempts : session'[a].state = "none" <=> session[a].state = "none"
        BY <1>2, VisitFrame
      <3>1. CASE Arrive(v)
        BY <3>1 DEF Arrive
      <3>2. CASE ReadSession(v) \/ LoadActor(v)
        BY <3>2 DEF ReadSession, LoadActor, Redirect
      <3>3. CASE ServePage(v) \/ Rollback(v) \/ CommitStatus(v) \/ CommitDisable(v)
        BY <3>3 DEF ServePage, Rollback, CommitStatus, CommitDisable, Finish
      <3>4. CASE ReadClient(v)
        <4>1. Entitled(token[v], "clients.write")
          BY <3>4, OnlyStaffRun DEF ReadClient, Needs
        <4> QED  BY <3>4, <4>1 DEF ReadClient, NoAim, IsValidClientTransition, CLIENT_TRANSITIONS
      <3>5. CASE DisableStaffUser(v)
        <4>1. Entitled(token[v], "staff.manage")
          BY <3>5, OnlyStaffRun DEF DisableStaffUser, Needs
        <4> QED  BY <3>5, <4>1 DEF DisableStaffUser, NoAim
      <3>6. CASE RevokeSessions(v)
        BY <3>0, <3>6 DEF RevokeSessions, LiveSessions
      <3> QED  BY <1>2, <3>1, <3>2, <3>3, <3>4, <3>5, <3>6 DEF VisitStep
    <2> QED  BY <2>1, <2>2 DEF VisitInv
  <1>3. CASE Tick \/ UNCHANGED vars
    <2>1. ASSUME NEW v \in Visits PROVE Found(v)'
      <3>1. UNCHANGED <<pc, by, token, aim, session>>
        BY <1>3 DEF Tick, vars, rows, visits
      <3> QED  BY <3>1, KeptAlone DEF LoginsInv
    <2> QED  BY <2>1 DEF VisitInv
  <1> QED  BY <1>1, <1>2, <1>3, ThreeWays

LEMMA LoginsInvariant == Spec => []LoginsInv
  <1>1. Init => LoginsInv
    BY LoginsInit
  <1>2. LoginsInv /\ [Next]_vars => LoginsInv'
    BY TypeNext, AttemptNext, VisitNext DEF LoginsInv
  <1> QED  BY <1>1, <1>2, PTL DEF Spec

\* Accounts, sessions and requests are well typed.
THEOREM TypeCorrect == Spec => []TypeOK
  <1>1. LoginsInv => TypeOK
    BY DEF LoginsInv
  <1> QED  BY <1>1, LoginsInvariant, PTL

-----------------------------------------------------------------------------
(* Requests after a login *)

\* The command of v, of the given step, is about x and is v's to give.
Commands(v, step, x, permission) ==
  pc[v] = step /\ pc'[v] = "over" /\ aim[v].target = x /\ Entitled(token[v], permission)

\* A status is written by a visit that has found a permission for it.
LEMMA EntitledStep ==
  ASSUME LoginsInv, [Next]_vars
  PROVE  /\ \A c \in Clients : clientStatus'[c] # clientStatus[c] =>
              \E v \in Visits : Commands(v, "commitStatus", c, "clients.write")
         /\ \A s \in Staff : status'[s] # status[s] =>
              \E v \in Visits : Commands(v, "commitDisable", s, "staff.manage")
  <1> USE DEF Commands, LoginsInv, TypeOK, VisitInv, Found, Goto, Finish
  <1>1. CASE \E a \in Attempts : AttemptStep(a)
    BY <1>1, AttemptFrame
  <1>2. ASSUME NEW v \in Visits, VisitStep(v), ~CommitStatus(v), ~CommitDisable(v)
        PROVE  status' = status /\ clientStatus' = clientStatus
    BY <1>2 DEF VisitStep, Arrive, ReadSession, LoadActor, ServePage, ReadClient,
                DisableStaffUser, RevokeSessions, Rollback, rows
  <1>3. ASSUME NEW v \in Visits, CommitStatus(v)
        PROVE  /\ status' = status
               /\ \A c \in Clients : clientStatus'[c] # clientStatus[c] =>
                    Commands(v, "commitStatus", c, "clients.write")
    BY <1>3 DEF CommitStatus
  <1>4. ASSUME NEW v \in Visits, CommitDisable(v)
        PROVE  /\ clientStatus' = clientStatus
               /\ \A s \in Staff : status'[s] # status[s] =>
                    Commands(v, "commitDisable", s, "staff.manage")
    BY <1>4 DEF CommitDisable
  <1>5. CASE Tick \/ UNCHANGED vars
    BY <1>5 DEF Tick, vars, rows
  <1> QED  BY <1>1, <1>2, <1>3, <1>4, <1>5, ThreeWays

\* No status moves but by the command of a visit whose own session is a staff
\* user's with the permission for it, and of the account the command is about,
\* whoever else is signed in and whatever has become of the session since
\* (requirePermission in changeClientStatus and disableStaffUser).
THEOREM OnlyTheEntitled == Spec => CommandsEntitled
  <1>1. LoginsInv /\ [Next]_vars =>
          [/\ \A c \in Clients : clientStatus'[c] # clientStatus[c] =>
                \E v \in Visits : /\ pc[v] = "commitStatus" /\ pc'[v] = "over"
                                  /\ aim[v].target = c /\ Entitled(token[v], "clients.write")
           /\ \A s \in Staff : status'[s] # status[s] =>
                \E v \in Visits : /\ pc[v] = "commitDisable" /\ pc'[v] = "over"
                                  /\ aim[v].target = s /\ Entitled(token[v], "staff.manage")]_vars
    BY EntitledStep DEF Commands
  <1> QED  BY <1>1, LoginsInvariant, PTL DEF Spec, CommandsEntitled

\* A visit is served on only after its account was found ACTIVE.
LEMMA QuietStep ==
  ASSUME LoginsInv, [Next]_vars, NEW s \in Staff, status[s] = "DISABLED", Quiet(s)
  PROVE  Quiet(s)'
  <1>1. ASSUME NEW w \in Visits, pc'[w] = pc[w], token'[w] = token[w], by' = by
        PROVE  pc'[w] \in Serving => by'[token'[w]] # s
    BY <1>1 DEF Quiet
  <1>2. ASSUME NEW a \in Attempts, AttemptStep(a) PROVE Quiet(s)'
    <2>1. \A w \in Visits : pc'[w] = pc[w] /\ token'[w] = token[w] /\ by' = by
      BY <1>2, AttemptFrame, LoginsAssumption
    <2> QED  BY <1>1, <2>1 DEF Quiet
  <1>3. ASSUME NEW v \in Visits, VisitStep(v) PROVE Quiet(s)'
    <2>1. by' = by /\ \A w \in Visits \ {v} : pc'[w] = pc[w] /\ token'[w] = token[w]
      BY <1>3, VisitFrame
    <2>2. pc'[v] \in Serving => by'[token'[v]] # s
      <3> USE DEF Goto, visits, Serving, LoginsInv, TypeOK
      <3>1. CASE LoadActor(v)
        BY <2>1, <3>1 DEF LoadActor, Redirect, Loads, Visitor
      <3>2. CASE Arrive(v) \/ ReadSession(v)
        BY <3>2 DEF Arrive, ReadSession, Redirect
      <3>3. CASE ServePage(v) \/ Rollback(v) \/ CommitStatus(v) \/ CommitDisable(v)
        BY <3>3 DEF ServePage, Rollback, CommitStatus, CommitDisable, Finish
      <3>4. CASE ReadClient(v) \/ DisableStaffUser(v) \/ RevokeSessions(v)
        BY <2>1, <3>4 DEF ReadClient, DisableStaffUser, RevokeSessions, Quiet
      <3> QED  BY <1>3, <3>1, <3>2, <3>3, <3>4 DEF VisitStep
    <2> QED  BY <1>1, <2>1, <2>2 DEF Quiet
  <1>4. CASE Tick \/ UNCHANGED vars
    BY <1>1, <1>4 DEF Tick, vars, visits, Quiet
  <1> QED  BY <1>2, <1>3, <1>4, ThreeWays

\* A disabled staff user is not served again once the requests then being
\* served are over, whatever sessions a login under way leaves behind
\* (disableStaffUser, loadStaffActor).
THEOREM DisabledStaysOut == Spec => DisabledGoesQuiet
  <1>1. LoginsInv /\ [Next]_vars =>
          [\A s \in Staff : status[s] = "DISABLED" /\ Quiet(s) => Quiet(s)']_vars
    BY QuietStep
  <1> QED  BY <1>1, LoginsInvariant, PTL DEF Spec, DisabledGoesQuiet

-----------------------------------------------------------------------------
(* The lock *)

FailuresOf(x) ==
  {a \in Attempts : by[a] = x /\ Recorded(a) /\ event[a].reason # "success"}

\* A failure once recorded is never taken back.
LEMMA FailuresStay ==
  ASSUME LoginsInv, [Next]_vars, NEW x
  PROVE  FailuresOf(x) \subseteq FailuresOf(x)'
  <1> USE DEF FailuresOf, Recorded
  <1>1. ASSUME NEW a \in Attempts, AttemptStep(a)
        PROVE  FailuresOf(x) \subseteq FailuresOf(x)'
    <2>1. by' = by /\ \A b \in Attempts \ {a} : event'[b] = event[b]
      BY <1>1, AttemptFrame
    <2>2. Recorded(a) => Recorded(a)' /\ event'[a].reason = event[a].reason
      BY <1>1
      DEF LoginsInv, TypeOK, LoginEvents, AttemptInv, Unrecorded, Goto, rows, visits, AttemptStep,
          authorize, authenticateClientContact, authenticateStaffUser, Authenticate, TurnAway,
          GuessWrong, GuessRight, OmitCode, MistypeCode, Admitted, MayBegin, Decide,
          CountFailures, LockAccount, RecordAttempt, ClearLock, CreateSession
    <2> QED  BY <2>1, <2>2
  <1>2. ASSUME NEW v \in Visits, VisitStep(v)
        PROVE  FailuresOf(x) \subseteq FailuresOf(x)'
    BY <1>2, VisitFrame
  <1>3. CASE Tick \/ UNCHANGED vars
    BY <1>3 DEF Tick, vars, rows
  <1> QED  BY <1>1, <1>2, <1>3, ThreeWays

\* So their number only grows, and is at least what shouldLockOut counts.
LEMMA FailuresCounted ==
  ASSUME NEW x
  PROVE  /\ IsFiniteSet(FailuresOf(x)) /\ Cardinality(FailuresOf(x)) \in Nat
         /\ \A S \in SUBSET FailuresOf(x) :
              Cardinality(S) \in Nat /\ Cardinality(S) <= Cardinality(FailuresOf(x))
  BY FS_Subset, FS_CardinalityType, LoginsAssumption DEF FailuresOf

LEMMA FailuresGrow ==
  ASSUME LoginsInv, [Next]_vars, NEW x
  PROVE  Cardinality(FailuresOf(x)) <= Cardinality(FailuresOf(x))'
  <1> DEFINE Later == FailuresOf(x)'
  <1>1. FailuresOf(x) \subseteq Later
    BY FailuresStay
  <1>2. IsFiniteSet(Later)
    <2>1. Later \subseteq Attempts
      BY DEF FailuresOf
    <2> QED  BY <2>1, FS_Subset, LoginsAssumption
  <1> HIDE DEF Later
  <1>3. Cardinality(FailuresOf(x)) <= Cardinality(Later)
    BY <1>1, <1>2, FS_Subset
  <1> QED  BY <1>3 DEF Later

\* An account is locked, or about to be.
LockDue(x) == lockedUntil[x] # 0 \/ \E a \in Attempts : by[a] = x /\ pc[a] = "lock"

\* A lock falls due at the count, or was due already.
LEMMA LockStep ==
  ASSUME LoginsInv, [Next]_vars, NEW x \in Accounts, LockDue(x)'
  PROVE  LockDue(x) \/ Cardinality(FailuresOf(x)) >= MaxFailed
  <1> USE DEF LockDue
  <1>1. ASSUME NEW a \in Attempts, AttemptStep(a), ~CountFailures(a)
        PROVE  LockDue(x)
    <2>1. by' = by /\ \A b \in Attempts \ {a} : pc'[b] = pc[b]
      BY <1>1, AttemptFrame
    <2>2. pc'[a] # "lock"
      BY <1>1
      DEF LoginsInv, TypeOK, Goto, AttemptStep, authorize, authenticateClientContact,
          authenticateStaffUser, Authenticate, TurnAway, GuessWrong, GuessRight, OmitCode,
          MistypeCode, Decide, LockAccount, RecordAttempt, ClearLock, CreateSession
    <2>3. lockedUntil'[x] # 0 => lockedUntil[x] # 0 \/ (by[a] = x /\ pc[a] = "lock")
      BY <1>1
      DEF LoginsInv, TypeOK, rows, AttemptStep, authorize, authenticateClientContact,
          authenticateStaffUser, Authenticate, TurnAway, GuessWrong, GuessRight, OmitCode,
          MistypeCode, Decide, LockAccount, RecordAttempt, ClearLock, CreateSession
    <2> QED  BY <2>1, <2>2, <2>3
  <1>2. ASSUME NEW a \in Attempts, CountFailures(a)
        PROVE  LockDue(x) \/ Cardinality(FailuresOf(x)) >= MaxFailed
    <2>1. RecentFailures(by[a]) \subseteq FailuresOf(by[a])
      BY DEF RecentFailures, FailuresOf
    <2>2. /\ Cardinality(RecentFailures(by[a])) \in Nat
          /\ Cardinality(RecentFailures(by[a])) <= Cardinality(FailuresOf(by[a]))
          /\ Cardinality(FailuresOf(by[a])) \in Nat
      BY <2>1, FailuresCounted
    <2>3. pc'[a] = "lock" => Cardinality(RecentFailures(by[a])) >= MaxFailed
      BY <1>2 DEF CountFailures, Goto, LoginsInv, TypeOK
    <2>4. \A b \in Attempts \ {a} : pc'[b] = pc[b]
      BY <1>2 DEF CountFailures, Goto, LoginsInv, TypeOK
    <2>5. by' = by /\ lockedUntil' = lockedUntil
      BY <1>2 DEF CountFailures, rows
    <2>6. CASE pc'[a] = "lock" /\ by[a] = x
      BY <2>2, <2>3, <2>6, LoginsAssumption
    <2> QED  BY <2>4, <2>5, <2>6
  <1>3. ASSUME NEW v \in Visits, VisitStep(v) PROVE LockDue(x)
    BY <1>3, VisitFrame, LoginsAssumption
  <1>4. CASE Tick \/ UNCHANGED vars
    BY <1>4 DEF Tick, vars, rows
  <1> QED  BY <1>1, <1>2, <1>3, <1>4, ThreeWays

\* An account is locked, or about to be, only for MaxFailed failures recorded
\* at that account (shouldLockOut and the update that follows it).
THEOREM LocksAreEarned == Spec => []LockedForFailures
  <1> DEFINE Earned(x) == LockDue(x) => Cardinality(FailuresOf(x)) >= MaxFailed
  <1>1. LockedForFailures <=> \A x \in Accounts : Earned(x)
    BY DEF LockedForFailures, LockDue, FailuresOf
  <1>2. Init => LockedForFailures
    BY <1>1 DEF Init, LockDue
  <1>3. ASSUME LoginsInv, LockedForFailures, [Next]_vars PROVE LockedForFailures'
    <2>1. ASSUME NEW x \in Accounts PROVE Earned(x)'
      <3>1. LockDue(x)' => Cardinality(FailuresOf(x)) >= MaxFailed
        BY <1>1, <1>3, LockStep
      <3>2. Cardinality(FailuresOf(x)) <= Cardinality(FailuresOf(x))'
        BY <1>3, FailuresGrow
      <3>3. Cardinality(FailuresOf(x)) \in Nat /\ MaxFailed \in Nat
        BY FailuresCounted, LoginsAssumption
      <3>4. Cardinality(FailuresOf(x))' \in Nat
        <4>1. FailuresOf(x)' \subseteq Attempts
          BY DEF FailuresOf
        <4>2. IsFiniteSet(FailuresOf(x)')
          BY <4>1, FS_Subset, LoginsAssumption
        <4> QED  BY <4>2, FS_CardinalityType
      <3> QED  BY <3>1, <3>2, <3>3, <3>4
    <2> QED  BY <2>1 DEF LockedForFailures, LockDue, FailuresOf
  <1> QED  BY <1>2, <1>3, LoginsInvariant, PTL DEF Spec

-----------------------------------------------------------------------------
(* How many guesses an account is good for *)

Trying == {"count", "lock", "record"}

\* What an attempt found out stays with it, and its row is in the past.
StepInv ==
  \A a \in Attempts :
    /\ pc[a] \in {"count", "lock"} => event[a].reason = "bad_password"
    /\ pc[a] \in {"clear", "session"} => event[a].reason = "success"
    /\ event[a].reason = "success" => Recorded(a) \/ pc[a] = "record"
    /\ event[a].reason = "bad_password" => Recorded(a) \/ pc[a] \in Trying
    /\ pc[a] = "idle" => event[a].reason = "none"
    /\ event[a].at <= now

RoomInv == IsFiniteSet(UnderWay) /\ Cardinality(UnderWay) <= Parallel

LEMMA StepNext == ASSUME LoginsInv, StepInv, [Next]_vars PROVE StepInv'
  <1> USE DEF StepInv, Recorded, Unrecorded, Trying
  <1>1. ASSUME NEW a \in Attempts, AttemptStep(a) PROVE StepInv'
    <2>1. now' = now
      BY <1>1
      DEF AttemptStep, authorize, authenticateClientContact,
          authenticateStaffUser, Authenticate, TurnAway, GuessWrong, GuessRight, OmitCode,
          MistypeCode, Decide, CountFailures, LockAccount, RecordAttempt, ClearLock, CreateSession
    <2>2. ASSUME NEW b \in Attempts, b # a
          PROVE  pc'[b] = pc[b] /\ event'[b] = event[b]
      BY <1>1, <2>2, AttemptFrame
    <2>3. /\ pc'[a] \in {"count", "lock"} => event'[a].reason = "bad_password"
          /\ pc'[a] \in {"clear", "session"} => event'[a].reason = "success"
          /\ event'[a].reason = "success" => event'[a].at # -1 \/ pc'[a] = "record"
          /\ event'[a].reason = "bad_password" =>
               event'[a].at # -1 \/ pc'[a] \in {"count", "lock", "record"}
          /\ pc'[a] = "idle" => event'[a].reason = "none"
          /\ event'[a].at <= now
      BY <1>1
      DEF LoginsInv, TypeOK, LoginEvents, Goto, rows, visits, AttemptStep, authorize,
          authenticateClientContact, authenticateStaffUser, Authenticate, TurnAway, GuessWrong,
          GuessRight, OmitCode, MistypeCode, Admitted, MayBegin, Decide, CountFailures,
          LockAccount, RecordAttempt, ClearLock, CreateSession
    <2> QED  BY <2>1, <2>2, <2>3
  <1>2. ASSUME NEW v \in Visits, VisitStep(v) PROVE StepInv'
    <2>1. \A a \in Attempts : pc'[a] = pc[a] /\ event'[a] = event[a] /\ now' = now
      BY <1>2, VisitFrame, LoginsAssumption
    <2> QED  BY <2>1
  <1>3. CASE Tick \/ UNCHANGED vars
    BY <1>3 DEF Tick, vars, rows, LoginsInv, TypeOK, LoginEvents
  <1> QED  BY <1>1, <1>2, <1>3, ThreeWays

\* Whoever begins finds room; nobody else joins those under way.
LEMMA RoomNext == ASSUME LoginsInv, RoomInv, [Next]_vars PROVE RoomInv'
  <1> USE DEF Resting
  <1>1. \/ UNCHANGED pc
        \/ \E p \in Attempts \cup Visits :
             /\ MayBegin(p) \/ pc[p] \notin Resting
             /\ \A q \in (Attempts \cup Visits) \ {p} : pc'[q] = pc[q]
    <2>1. ASSUME NEW a \in Attempts, AttemptStep(a) PROVE MayBegin(a) \/ pc[a] \notin Resting
      BY <2>1
      DEF AttemptStep, authorize, authenticateClientContact, authenticateStaffUser, Authenticate,
          TurnAway, GuessWrong, GuessRight, OmitCode, MistypeCode, Admitted, CountFailures,
          LockAccount, RecordAttempt, ClearLock, CreateSession
    <2>2. ASSUME NEW v \in Visits, VisitStep(v) PROVE MayBegin(v) \/ pc[v] \notin Resting
      BY <2>2
      DEF VisitStep, Arrive, ReadSession, LoadActor, ServePage, ReadClient, CommitStatus,
          DisableStaffUser, RevokeSessions, CommitDisable, Rollback
    <2>3. CASE Tick \/ UNCHANGED vars
      BY <2>3 DEF Tick, vars
    <2> QED  BY <2>1, <2>2, <2>3, ThreeWays, AttemptFrame, VisitFrame
  <1>2. CASE UNCHANGED pc
    BY <1>2 DEF RoomInv, UnderWay
  <1>3. ASSUME NEW p \in Attempts \cup Visits,
               MayBegin(p) \/ pc[p] \notin Resting,
               \A q \in (Attempts \cup Visits) \ {p} : pc'[q] = pc[q]
        PROVE  RoomInv'
    <2> DEFINE Now == UnderWay
               Then == UnderWay'
    <2>1. Then \subseteq Now \cup {p}
      BY <1>3 DEF UnderWay
    <2>2. IsFiniteSet(Now) /\ Cardinality(Now) \in Nat /\ Cardinality(Now) <= Parallel
      BY FS_CardinalityType DEF RoomInv
    <2>3. p \notin Now => Cardinality(Now) < Parallel
      BY <1>3 DEF MayBegin, UnderWay
    <2>4. RoomInv' <=> IsFiniteSet(Then) /\ Cardinality(Then) <= Parallel
      BY DEF RoomInv
    <2> HIDE DEF Now, Then
    <2>5. /\ IsFiniteSet(Now \cup {p})
          /\ Cardinality(Now \cup {p}) = IF p \in Now THEN Cardinality(Now) ELSE Cardinality(Now) + 1
      BY <2>2, FS_AddElement
    <2>6. IsFiniteSet(Then) /\ Cardinality(Then) <= Cardinality(Now \cup {p})
      BY <2>1, <2>5, FS_Subset
    <2>7. Cardinality(Then) \in Nat
      BY <2>6, FS_CardinalityType
    <2> QED  BY <2>2, <2>3, <2>4, <2>5, <2>6, <2>7, LoginsAssumption
  <1> QED  BY <1>1, <1>2, <1>3

WrongAt(x) == {a \in Attempts : by[a] = x /\ event[a].reason = "bad_password"}
RightAt(x) == {a \in Attempts : by[a] = x /\ event[a].reason = "success"}

\* The guesses shouldLockOut sees, or is about to see.
Counted(x) ==
  {a \in WrongAt(x) : (Recorded(a) /\ event[a].at > now - Window) \/ pc[a] = "record"}

\* The guesses that are still in the window when a lock runs out.
Left(x) == {a \in WrongAt(x) : event[a].at > lockedUntil[x] - Window \/ pc[a] \in Trying}

\* Logins that will lift a lock, and those that have.
Uncleared(x) == {a \in RightAt(x) : pc[a] \in {"record", "clear"}}
Cleared(x)   == {a \in RightAt(x) : pc[a] \in {"session", "over"}}

Budget(x) == MaxFailed - 1 + Parallel + (Parallel - 1) * Cardinality(Cleared(x))

\* A lock runs out when all but the guesses under way when it was set have
\* left the window.  What it can be lifted by is a login under way, whose place
\* no guess takes.
GuessInv(x) ==
  /\ ~Locked(x) => Cardinality(Counted(x)) <= Budget(x)
  /\ Locked(x) => Cardinality(Left(x)) <= Parallel
  /\ Cardinality(Guesses(x)) <= Budget(x) + Parallel
  /\ Uncleared(x) # {} => Cardinality(Guesses(x)) < Budget(x) + Parallel

LimitInv == LoginsInv /\ StepInv /\ RoomInv

\* Guesses and logins under way only go on.
Onward(x) ==
  /\ Guesses(x)' \subseteq Guesses(x) /\ Uncleared(x)' \subseteq Uncleared(x)
  /\ Cleared(x) \subseteq Cleared(x)'

\* What a step can be for an account: nothing to its lock, a login's first
\* step, a count, a lock, the end of one by a login, the clock's.
Ordinary(x) ==
  /\ Onward(x) /\ Counted(x)' \subseteq Counted(x) /\ Left(x)' \subseteq Left(x)
  /\ lockedUntil'[x] = lockedUntil[x] /\ now' = now
Beginning(x) ==
  /\ ~Locked(x) /\ Counted(x)' \subseteq Counted(x) /\ Cleared(x) \subseteq Cleared(x)'
  /\ lockedUntil'[x] = lockedUntil[x] /\ now' = now
Counting(x) ==
  /\ Onward(x) /\ Left(x)' \subseteq Left(x)
  /\ Cardinality(RecentFailures(x)) < MaxFailed
  /\ Counted(x)' \subseteq RecentFailures(x) \cup UnderWay'
  /\ lockedUntil'[x] = lockedUntil[x] /\ now' = now
Locking(x) ==
  /\ Onward(x) /\ Left(x)' \subseteq UnderWay'
  /\ lockedUntil'[x] = now + Window /\ now' = now
Lifting(x) ==
  /\ Onward(x) /\ Counted(x)' \subseteq Guesses(x)
  /\ \E a \in Uncleared(x) \ Cleared(x) : Cleared(x)' = Cleared(x) \cup {a}
  /\ lockedUntil'[x] = 0 /\ now' = now
Waiting(x) ==
  /\ Onward(x) /\ Counted(x)' \subseteq Counted(x) /\ Left(x)' \subseteq Left(x)
  /\ lockedUntil'[x] = lockedUntil[x] /\ now' = now + 1
  /\ lockedUntil[x] <= now + 1 => Counted(x)' \subseteq Left(x)

\* What is not about an account's own attempts changes nothing for it.
LEMMA Elsewhere ==
  ASSUME LimitInv, NEW x \in Accounts, by' = by, now' = now, lockedUntil'[x] = lockedUntil[x],
         \A b \in Attempts : by[b] = x => pc'[b] = pc[b] /\ event'[b] = event[b]
  PROVE  Ordinary(x)
  BY DEF Ordinary, Onward, Guesses, Uncleared, Cleared, Counted, Left, WrongAt, RightAt, Recorded

\* What the clock does to an account.
LEMMA TickWaits == ASSUME LimitInv, Tick, NEW x \in Accounts PROVE Waiting(x)
  <1>1. /\ by' = by /\ now' = now + 1 /\ lockedUntil' = lockedUntil /\ pc' = pc /\ event' = event
        /\ now \in Int /\ lockedUntil[x] \in Int /\ \A a \in Attempts : event[a].at \in Int
        /\ Window \in Int
    BY LoginsAssumption
    DEF Tick, rows, LimitInv, LoginsInv, TypeOK, LoginEvents, Unrecorded
  <1>2. \A a \in Attempts : event[a].reason = "bad_password" => Recorded(a) \/ pc[a] \in Trying
    BY DEF LimitInv, StepInv
  <1> QED
    BY <1>1, <1>2
    DEF Waiting, Onward, Guesses, Uncleared, Cleared, Counted, Left, WrongAt, RightAt, Recorded, Trying

\* What an attempt does to its own account.
LEMMA AttemptWays ==
  ASSUME LimitInv, NEW a \in Attempts, AttemptStep(a), NEW x \in Accounts, by[a] = x
  PROVE  Ordinary(x) \/ Beginning(x) \/ Counting(x) \/ Locking(x) \/ Lifting(x)
  <1>0. /\ by' = by
        /\ \A b \in Attempts \ {a} : pc'[b] = pc[b] /\ event'[b] = event[b]
        /\ now \in Int /\ lockedUntil[x] \in Int /\ Window \in Int /\ Window > 0
        /\ \A b \in Attempts : event[b].at \in Int /\ event[b].at <= now
    BY AttemptFrame, LoginsAssumption
    DEF LimitInv, LoginsInv, StepInv, TypeOK, LoginEvents, Unrecorded
  <1>1. ASSUME NEW reason, NEW step, Decide(a, reason, step), pc[a] = "idle"
        PROVE  /\ now' = now /\ lockedUntil' = lockedUntil
               /\ event'[a].reason = reason /\ event'[a].at = event[a].at
               /\ pc'[a] = step
               /\ ~Recorded(a) /\ event[a].reason = "none"
    BY <1>1
    DEF Decide, Goto, LimitInv, LoginsInv, AttemptInv, StepInv, TypeOK, LoginEvents
  <1> USE DEF Onward, Guesses, Uncleared, Cleared, Counted, Left, WrongAt, RightAt, Recorded, Trying
  <1>2. CASE TurnAway(a) \/ OmitCode(a) \/ MistypeCode(a)
    <2>1. PICK reason \in {"refused", "none"}, step \in {"record", "over"} :
                 Decide(a, reason, step) /\ pc[a] = "idle"
      BY <1>2 DEF TurnAway, OmitCode, MistypeCode, Admitted, MayBegin
    <2> QED  BY <1>0, <1>1, <2>1 DEF Ordinary
  <1>3. CASE GuessWrong(a)
    <2>1. Decide(a, "bad_password", "count") /\ pc[a] = "idle" /\ ~Locked(x)
      BY <1>3 DEF GuessWrong, Admitted, MayBegin
    <2> QED  BY <1>0, <1>1, <2>1 DEF Beginning
  <1>4. CASE GuessRight(a)
    <2>1. Decide(a, "success", "record") /\ pc[a] = "idle" /\ ~Locked(x)
      BY <1>4 DEF GuessRight, Admitted, MayBegin
    <2> QED  BY <1>0, <1>1, <2>1 DEF Beginning
  <1>5. CASE CountFailures(a)
    <2>1. /\ now' = now /\ lockedUntil' = lockedUntil /\ event' = event /\ pc[a] = "count"
          /\ pc'[a] = IF Cardinality(RecentFailures(x)) >= MaxFailed THEN "lock" ELSE "record"
          /\ event[a].reason = "bad_password"
      BY <1>5 DEF CountFailures, Goto, rows, LimitInv, LoginsInv, TypeOK, StepInv
    <2>2. Cardinality(RecentFailures(x)) \in Nat /\ MaxFailed \in Nat
      BY FS_Subset, FS_CardinalityType, LoginsAssumption DEF RecentFailures
    <2>3. Onward(x) /\ Left(x)' \subseteq Left(x)
      <3>1. pc'[a] \in {"lock", "record"}
        BY <2>1
      <3> QED  BY <1>0, <2>1, <3>1
    <2>4. CASE Cardinality(RecentFailures(x)) >= MaxFailed
      <3>1. Counted(x)' \subseteq Counted(x)
        BY <1>0, <2>1, <2>4
      <3> QED  BY <2>1, <2>3, <3>1 DEF Ordinary
    <2>5. CASE ~(Cardinality(RecentFailures(x)) >= MaxFailed)
      <3>1. Counted(x)' \subseteq RecentFailures(x) \cup UnderWay'
        BY <1>0, <2>1 DEF RecentFailures, UnderWay, Resting
      <3> QED  BY <2>1, <2>2, <2>3, <2>5, <3>1 DEF Counting
    <2> QED  BY <2>4, <2>5
  <1>6. CASE LockAccount(a)
    <2>1. /\ now' = now /\ event' = event /\ pc[a] = "lock" /\ pc'[a] = "record"
          /\ lockedUntil'[x] = now + Window /\ event[a].reason = "bad_password"
      BY <1>6 DEF LockAccount, Goto, LimitInv, LoginsInv, TypeOK, StepInv
    <2>2. Onward(x)
      BY <1>0, <2>1
    <2>3. Left(x)' \subseteq UnderWay'
      <3>1. ASSUME NEW b \in Attempts, b \in Left(x)' PROVE pc'[b] \in Trying
        BY <1>0, <2>1, <3>1
      <3> QED  BY <3>1 DEF UnderWay, Resting
    <2> QED  BY <2>1, <2>2, <2>3 DEF Locking
  <1>7. CASE RecordAttempt(a)
    <2>1. /\ now' = now /\ lockedUntil' = lockedUntil /\ pc[a] = "record"
          /\ event'[a].reason = event[a].reason /\ event'[a].at = now
          /\ pc'[a] = IF event[a].reason = "success" THEN "clear" ELSE "over"
          /\ now # Unrecorded
      BY <1>7 DEF RecordAttempt, Goto, LimitInv, LoginsInv, TypeOK, LoginEvents, Unrecorded
    <2> QED  BY <1>0, <2>1 DEF Ordinary
  <1>8. CASE ClearLock(a)
    <2>1. /\ now' = now /\ event' = event /\ pc[a] = "clear" /\ pc'[a] = "session"
          /\ lockedUntil'[x] = 0 /\ event[a].reason = "success"
      BY <1>8 DEF ClearLock, Goto, LimitInv, LoginsInv, TypeOK, StepInv
    <2>2. Onward(x) /\ Counted(x)' \subseteq Guesses(x)
      BY <1>0, <2>1
    <2>3. a \in Uncleared(x) \ Cleared(x) /\ Cleared(x)' = Cleared(x) \cup {a}
      BY <1>0, <2>1
    <2> QED  BY <2>1, <2>2, <2>3 DEF Lifting
  <1>9. CASE CreateSession(a)
    <2>1. /\ now' = now /\ event' = event /\ pc[a] = "session" /\ pc'[a] = "over"
          /\ lockedUntil' = lockedUntil
      BY <1>9 DEF CreateSession, Goto, LimitInv, LoginsInv, TypeOK
    <2> QED  BY <1>0, <2>1 DEF Ordinary
  <1> QED
    BY <1>2, <1>3, <1>4, <1>5, <1>6, <1>7, <1>8, <1>9
    DEF AttemptStep, authorize, authenticateClientContact, authenticateStaffUser, Authenticate

LEMMA Ways ==
  ASSUME LimitInv, [Next]_vars, NEW x \in Accounts
  PROVE  Ordinary(x) \/ Beginning(x) \/ Counting(x) \/ Locking(x) \/ Lifting(x) \/ Waiting(x)
  <1>1. ASSUME NEW a \in Attempts, AttemptStep(a), by[a] # x PROVE Ordinary(x)
    <2>1. /\ by' = by
          /\ \A b \in Attempts \ {a} : pc'[b] = pc[b] /\ event'[b] = event[b]
      BY <1>1, AttemptFrame DEF LimitInv
    <2>2. now' = now /\ lockedUntil'[x] = lockedUntil[x]
      BY <1>1
      DEF LimitInv, LoginsInv, TypeOK, rows, AttemptStep, authorize, authenticateClientContact,
          authenticateStaffUser, Authenticate, TurnAway, GuessWrong, GuessRight, OmitCode,
          MistypeCode, Decide, CountFailures, LockAccount, RecordAttempt, ClearLock, CreateSession
    <2> QED  BY <1>1, <2>1, <2>2, Elsewhere
  <1>2. ASSUME NEW v \in Visits, VisitStep(v) PROVE Ordinary(x)
    <2>1. /\ by' = by /\ now' = now /\ lockedUntil' = lockedUntil
          /\ \A b \in Attempts : pc'[b] = pc[b] /\ event'[b] = event[b]
      BY <1>2, VisitFrame, LoginsAssumption DEF LimitInv
    <2> QED  BY <2>1, Elsewhere
  <1>3. CASE UNCHANGED vars
    <2>1. UNCHANGED <<by, now, lockedUntil, pc, event>>
      BY <1>3 DEF vars
    <2> QED  BY <2>1, Elsewhere
  <1> QED  BY <1>1, <1>2, <1>3, ThreeWays, AttemptWays, TickWaits

LEMMA Sizes ==
  ASSUME NEW S, S \subseteq Attempts
  PROVE  /\ IsFiniteSet(S) /\ Cardinality(S) \in Nat
         /\ \A T \in SUBSET S : Cardinality(T) \in Nat /\ Cardinality(T) <= Cardinality(S)
  BY FS_Subset, FS_CardinalityType, LoginsAssumption

\* A set that two sets cover is no larger than both.
LEMMA Covered ==
  ASSUME NEW S, NEW T, IsFiniteSet(S), IsFiniteSet(T), NEW G \in SUBSET (S \cup T)
  PROVE  /\ Cardinality(G) \in Nat
         /\ Cardinality(G) <= Cardinality(S) + Cardinality(T)
         /\ \A u \in T \ G : Cardinality(G) < Cardinality(S \ {u}) + Cardinality(T)
  <1>1. ASSUME NEW A, NEW B, IsFiniteSet(A), IsFiniteSet(B), NEW H \in SUBSET (A \cup B)
        PROVE  Cardinality(H) \in Nat /\ Cardinality(H) <= Cardinality(A) + Cardinality(B)
    <2>1. IsFiniteSet(A \cup B) /\ IsFiniteSet(A \cap B)
      BY <1>1, FS_Union, FS_Subset
    <2>2. Cardinality(A \cup B) = Cardinality(A) + Cardinality(B) - Cardinality(A \cap B)
      BY <1>1, FS_Union
    <2>3. IsFiniteSet(H) /\ Cardinality(H) <= Cardinality(A \cup B)
      BY <1>1, <2>1, FS_Subset
    <2>4. /\ Cardinality(A) \in Nat /\ Cardinality(B) \in Nat /\ Cardinality(H) \in Nat
          /\ Cardinality(A \cap B) \in Nat /\ Cardinality(A \cup B) \in Nat
      BY <1>1, <2>1, <2>3, FS_CardinalityType
    <2> QED  BY <2>2, <2>3, <2>4
  <1>2. ASSUME NEW u \in T \ G
        PROVE  Cardinality(G) < Cardinality(S \ {u}) + Cardinality(T)
    <2>1. IsFiniteSet(T \ {u}) /\ Cardinality(T \ {u}) = Cardinality(T) - 1
      BY <1>2, FS_RemoveElement
    <2>2. IsFiniteSet(S \ {u}) /\ G \subseteq (S \ {u}) \cup (T \ {u})
      BY <1>2, FS_Subset
    <2>3. Cardinality(G) <= Cardinality(S \ {u}) + Cardinality(T \ {u})
      BY <1>1, <2>1, <2>2
    <2>4. /\ Cardinality(T) \in Nat /\ Cardinality(S \ {u}) \in Nat /\ Cardinality(G) \in Nat
      BY <1>1, <2>2, FS_CardinalityType
    <2> QED  BY <2>1, <2>3, <2>4
  <1> QED  BY <1>1, <1>2

LEMMA Multiples ==
  ASSUME NEW m \in Nat, NEW n \in Nat, m <= n
  PROVE  /\ (Parallel - 1) * m \in Nat
         /\ (Parallel - 1) * m <= (Parallel - 1) * n
         /\ (Parallel - 1) * (m + 1) = (Parallel - 1) * m + Parallel - 1
  <1>1. PICK p \in Nat : p = Parallel - 1
    BY LoginsAssumption
  <1>2. PICK d \in Nat : n = m + d
    <2>1. n - m \in Nat /\ n = m + (n - m)
      OBVIOUS
    <2> QED  BY <2>1
  <1>3. p * m \in Nat /\ p * d \in Nat /\ p * (m + d) = p * m + p * d /\ p * (m + 1) = p * m + p
    OBVIOUS
  <1> QED  BY <1>1, <1>2, <1>3, LoginsAssumption

\* An account is allowed MaxFailed guesses and some, and every login that
\* lifts a lock allows more.
LEMMA Budgets ==
  ASSUME LimitInv, [Next]_vars, NEW x \in Accounts, Cleared(x) \subseteq Cleared(x)'
  PROVE  /\ Budget(x) \in Nat /\ Budget(x)' \in Nat
         /\ MaxFailed - 1 + Parallel <= Budget(x) /\ Budget(x) <= Budget(x)'
         /\ (\E a \in Cleared(x)' : a \notin Cleared(x)) => Budget(x) + Parallel - 1 <= Budget(x)'
  <1> DEFINE Old == Cleared(x)
             New == Cleared(x)'
  <1>1. Old \subseteq New /\ New \subseteq Attempts
    BY DEF Cleared, RightAt
  <1>2. /\ Budget(x) = MaxFailed - 1 + Parallel + (Parallel - 1) * Cardinality(Old)
        /\ Budget(x)' = MaxFailed - 1 + Parallel + (Parallel - 1) * Cardinality(New)
    BY DEF Budget
  <1> HIDE DEF Old, New
  <1>3. IsFiniteSet(New) /\ Cardinality(New) \in Nat /\ Cardinality(Old) \in Nat
        /\ IsFiniteSet(Old) /\ Cardinality(Old) <= Cardinality(New)
    BY <1>1, Sizes, FS_Subset
  <1>4. (\E a \in New : a \notin Old) => Cardinality(Old) + 1 <= Cardinality(New)
    BY <1>1, <1>3, FS_Subset
  <1>5. /\ (Parallel - 1) * Cardinality(Old) \in Nat
        /\ (Parallel - 1) * Cardinality(Old) <= (Parallel - 1) * Cardinality(New)
        /\ (Parallel - 1) * (Cardinality(Old) + 1) = (Parallel - 1) * Cardinality(Old) + Parallel - 1
        /\ (Parallel - 1) * Cardinality(New) \in Nat
    BY <1>3, Multiples
  <1>6. (\E a \in New : a \notin Old) =>
          (Parallel - 1) * (Cardinality(Old) + 1) <= (Parallel - 1) * Cardinality(New)
    BY <1>3, <1>4, Multiples
  <1>7. (\E a \in New : a \notin Old) => Budget(x) + Parallel - 1 <= Budget(x)'
    BY <1>2, <1>5, <1>6, LoginsAssumption
  <1> QED  BY <1>2, <1>5, <1>7, LoginsAssumption DEF Old, New

\* Unlocked, an account's guesses are counted or under way.
LEMMA Overlap ==
  ASSUME NEW G, NEW C, NEW U, NEW R, NEW b \in Nat,
         IsFiniteSet(C), IsFiniteSet(U), Cardinality(U) <= Parallel, Cardinality(C) <= b,
         G \subseteq C \cup U, R \subseteq U \ G, C \cap R = {}
  PROVE  /\ Cardinality(G) <= b + Parallel
         /\ R # {} => Cardinality(G) < b + Parallel
  <1>1. Cardinality(C) \in Nat /\ Cardinality(U) \in Nat /\ Cardinality(G) \in Nat
    BY Covered, FS_CardinalityType
  <1>2. Cardinality(G) <= Cardinality(C) + Cardinality(U)
    BY Covered
  <1>3. ASSUME NEW u \in R PROVE Cardinality(G) < b + Parallel
    <2>1. C \ {u} = C /\ u \in U \ G
      BY <1>3
    <2>2. Cardinality(G) < Cardinality(C) + Cardinality(U)
      BY <2>1, Covered
    <2> QED  BY <1>1, <2>2, LoginsAssumption
  <1> QED  BY <1>1, <1>2, <1>3, LoginsAssumption

LEMMA GuessNext ==
  ASSUME LimitInv, LimitInv', [Next]_vars, NEW x \in Accounts, GuessInv(x)
  PROVE  GuessInv(x)'
  <1> DEFINE b  == Budget(x)
             b1 == Budget(x)'
             C  == Counted(x)
             C1 == Counted(x)'
             L  == Left(x)
             L1 == Left(x)'
             G  == Guesses(x)
             G1 == Guesses(x)'
             R  == Uncleared(x)
             R1 == Uncleared(x)'
             U1 == UnderWay'
             F  == RecentFailures(x)
  <1>1. /\ ~Locked(x) => Cardinality(C) <= b
        /\ Locked(x) => Cardinality(L) <= Parallel
        /\ Cardinality(G) <= b + Parallel
        /\ R # {} => Cardinality(G) < b + Parallel
    BY DEF GuessInv
  <1>2. SUFFICES /\ ~Locked(x)' => Cardinality(C1) <= b1
                 /\ Locked(x)' => Cardinality(L1) <= Parallel
                 /\ Cardinality(G1) <= b1 + Parallel
                 /\ R1 # {} => Cardinality(G1) < b1 + Parallel
    BY DEF GuessInv
  <1>3. /\ C \subseteq Attempts /\ C1 \subseteq Attempts /\ L \subseteq Attempts
        /\ L1 \subseteq Attempts /\ G \subseteq Attempts /\ G1 \subseteq Attempts
        /\ F \subseteq Attempts
    BY DEF Counted, Left, Guesses, RecentFailures, WrongAt
  <1>4. IsFiniteSet(U1) /\ Cardinality(U1) <= Parallel
    BY DEF LimitInv, RoomInv
  <1>5. G1 \subseteq C1 \cup U1 /\ R1 \subseteq U1 \ G1 /\ C1 \cap R1 = {}
    BY DEF LimitInv, StepInv, Guesses, Counted, Uncleared, WrongAt, RightAt, UnderWay, Trying, Resting
  <1>6. /\ b \in Nat /\ b1 \in Nat /\ MaxFailed - 1 + Parallel <= b /\ b <= b1
        /\ Lifting(x) => b + Parallel - 1 <= b1
    <2>1. Cleared(x) \subseteq Cleared(x)'
      BY Ways DEF Ordinary, Beginning, Counting, Locking, Lifting, Waiting, Onward
    <2> QED  BY <2>1, Budgets DEF Lifting
  <1>7. /\ Locked(x) <=> lockedUntil[x] > now
        /\ Locked(x)' <=> lockedUntil'[x] > now'
        /\ now \in Nat /\ lockedUntil[x] \in Nat
    BY LoginsAssumption DEF Locked, LimitInv, LoginsInv, TypeOK
  <1>8. /\ Ordinary(x) => G1 \subseteq G /\ R1 \subseteq R /\ C1 \subseteq C /\ L1 \subseteq L
        /\ Beginning(x) => ~Locked(x) /\ C1 \subseteq C
        /\ Counting(x) => /\ G1 \subseteq G /\ R1 \subseteq R /\ L1 \subseteq L
                          /\ Cardinality(F) < MaxFailed /\ C1 \subseteq F \cup U1
        /\ Locking(x) => G1 \subseteq G /\ R1 \subseteq R /\ L1 \subseteq U1
        /\ Lifting(x) => R # {} /\ C1 \subseteq G
        /\ Waiting(x) => /\ G1 \subseteq G /\ R1 \subseteq R /\ C1 \subseteq C /\ L1 \subseteq L
                         /\ lockedUntil[x] <= now + 1 => C1 \subseteq L
    BY DEF Ordinary, Beginning, Counting, Locking, Lifting, Waiting, Onward
  <1>9. /\ Ordinary(x) \/ Beginning(x) \/ Counting(x) => (Locked(x)' <=> Locked(x))
        /\ Locking(x) => Locked(x)'
        /\ Lifting(x) => ~Locked(x)'
        /\ Waiting(x) => (Locked(x)' => Locked(x)) /\ (~Locked(x)' => lockedUntil[x] <= now + 1)
    BY <1>7, LoginsAssumption DEF Ordinary, Beginning, Counting, Locking, Lifting, Waiting
  <1>10. Ordinary(x) \/ Beginning(x) \/ Counting(x) \/ Locking(x) \/ Lifting(x) \/ Waiting(x)
    BY Ways
  <1> HIDE DEF b, b1, C, C1, L, L1, G, G1, R, R1, U1, F
  <1>11. /\ Cardinality(C) \in Nat /\ Cardinality(C1) \in Nat /\ Cardinality(L) \in Nat
         /\ Cardinality(L1) \in Nat /\ Cardinality(G) \in Nat /\ Cardinality(G1) \in Nat
         /\ Cardinality(F) \in Nat /\ Cardinality(U1) \in Nat
    BY <1>3, <1>4, Sizes, FS_CardinalityType
  <1>12. /\ C1 \subseteq C => Cardinality(C1) <= Cardinality(C)
         /\ C1 \subseteq L => Cardinality(C1) <= Cardinality(L)
         /\ C1 \subseteq G => Cardinality(C1) <= Cardinality(G)
         /\ L1 \subseteq L => Cardinality(L1) <= Cardinality(L)
         /\ G1 \subseteq G => Cardinality(G1) <= Cardinality(G)
    BY <1>3, Sizes
  <1>13. /\ L1 \subseteq U1 => Cardinality(L1) <= Parallel
         /\ C1 \subseteq F \cup U1 => Cardinality(C1) <= Cardinality(F) + Parallel
    <2>1. IsFiniteSet(F)
      BY <1>3, Sizes
    <2>2. L1 \subseteq U1 => Cardinality(L1) <= Cardinality(U1)
      BY <1>4, FS_Subset
    <2>3. C1 \subseteq F \cup U1 => Cardinality(C1) <= Cardinality(F) + Cardinality(U1)
      BY <1>4, <2>1, Covered
    <2> QED  BY <1>4, <1>11, <2>2, <2>3, LoginsAssumption
  <1>14. ~Locked(x)' => Cardinality(C1) <= b1
    BY <1>1, <1>6, <1>8, <1>9, <1>10, <1>11, <1>12, <1>13, LoginsAssumption
  <1>15. Locked(x)' => Cardinality(L1) <= Parallel
    BY <1>1, <1>8, <1>9, <1>10, <1>11, <1>12, <1>13, LoginsAssumption
  <1>16. CASE Locked(x)'
    <2>1. G1 \subseteq G /\ R1 \subseteq R
      BY <1>8, <1>9, <1>10, <1>16
    <2>2. Cardinality(G1) <= b1 + Parallel
      BY <1>1, <1>6, <1>11, <1>12, <2>1, LoginsAssumption
    <2>3. R1 # {} => Cardinality(G1) < b1 + Parallel
      BY <1>1, <1>6, <1>11, <1>12, <2>1, LoginsAssumption
    <2> QED  BY <1>15, <1>16, <2>2, <2>3
  <1>17. CASE ~Locked(x)'
    <2>1. IsFiniteSet(C1)
      BY <1>3, Sizes
    <2> QED  BY <1>4, <1>5, <1>6, <1>14, <1>17, <2>1, Overlap
  <1> QED  BY <1>16, <1>17

\* However many addresses the guesses come from, and however many of them run
\* side by side, an account takes no more than a fixed number in any window,
\* plus what logins that overlap a lock allow (shouldLockOut counts before the
\* failure at hand is recorded; a login writes lockedUntil: null unseen).
THEOREM GuessesRunOut == Spec => []GuessesBounded
  <1> DEFINE Inv == LimitInv /\ \A x \in Accounts : GuessInv(x)
  <1>1. Init => Inv
    <2> SUFFICES ASSUME Init PROVE Inv
      OBVIOUS
    <2>1. LoginsInv /\ StepInv
      BY LoginsInit DEF Init, StepInv, NoEvent, Unrecorded
    <2>2. UnderWay = {}
      BY DEF Init, UnderWay, Resting
    <2>3. RoomInv
      BY <2>2, FS_EmptySet, LoginsAssumption DEF RoomInv
    <2>4. ASSUME NEW x \in Accounts PROVE GuessInv(x)
      <3>1. /\ Guesses(x) = {} /\ Counted(x) = {} /\ Left(x) = {} /\ Uncleared(x) = {}
            /\ Cleared(x) = {}
        BY DEF Init, Guesses, Counted, Left, Uncleared, Cleared, WrongAt, RightAt, NoEvent
      <3>2. Budget(x) \in Nat
        BY <3>1, FS_EmptySet, Multiples, LoginsAssumption DEF Budget
      <3> QED  BY <3>1, <3>2, FS_EmptySet, LoginsAssumption DEF GuessInv
    <2> QED  BY <2>1, <2>3, <2>4 DEF LimitInv
  <1>2. Inv /\ [Next]_vars => Inv'
    <2>1. LimitInv /\ [Next]_vars => LimitInv'
      BY TypeNext, AttemptNext, VisitNext, StepNext, RoomNext DEF LimitInv, LoginsInv
    <2> QED  BY <2>1, GuessNext
  <1>3. Inv => GuessesBounded
    <2> SUFFICES ASSUME Inv, NEW x \in Accounts
                 PROVE  Cardinality(Guesses(x)) <=
                          MaxFailed + 2 * Parallel - 1 + (Parallel - 1) * Cardinality(Successes(x))
      BY DEF GuessesBounded
    <2>1. Cleared(x) \subseteq Successes(x)
      BY DEF LimitInv, StepInv, Cleared, RightAt, Successes
    <2>2. Successes(x) \subseteq Attempts /\ Guesses(x) \subseteq Attempts
      BY DEF Successes, Guesses
    <2>3. /\ Cardinality(Cleared(x)) \in Nat /\ Cardinality(Successes(x)) \in Nat
          /\ Cardinality(Cleared(x)) <= Cardinality(Successes(x))
          /\ Cardinality(Guesses(x)) \in Nat
      BY <2>1, <2>2, Sizes
    <2>4. /\ (Parallel - 1) * Cardinality(Cleared(x)) \in Nat
          /\ (Parallel - 1) * Cardinality(Successes(x)) \in Nat
          /\ (Parallel - 1) * Cardinality(Cleared(x)) <= (Parallel - 1) * Cardinality(Successes(x))
      BY <2>3, Multiples
    <2>5. Cardinality(Guesses(x)) <= Budget(x) + Parallel
      BY DEF GuessInv
    <2> QED  BY <2>3, <2>4, <2>5, LoginsAssumption DEF Budget
  <1> HIDE DEF Inv
  <1> QED  BY <1>1, <1>2, <1>3, PTL DEF Spec
=============================================================================
