------------------------------ MODULE EmailProofs -----------------------------
(***************************************************************************)
(* What EmailLog may be believed about, for any number of mails, attempts  *)
(* and worker slots, whatever crashes: the row is the last thing written,  *)
(* so what it says of a mail has already happened.  Copies of a mail and   *)
(* stalled jobs are accounted for by what has gone wrong so far.  Jobs use *)
(* up what they have left, and only an interruption loses sight of a mail. *)
(***************************************************************************)
EXTENDS EmailDelivery, TLAPS

Alive == {"waiting", "active", "delayed"}

\* How queue, memory and log of one mail stand to each other.
MailInv(m) ==
  /\ job[m] # "none" <=> pc[m] = "queued"
  /\ pc[m] # "idle" => log[m] # "NONE"
  /\ running[m] # "no" => job[m] = "active"
  /\ running[m] = "sent" \/ update[m] = "SENT" \/ log[m] = "SENT" => mails[m] > 0
  /\ job[m] \in Alive => attempts[m] < MaxAttempts
  /\ update[m] = "FAILED" \/ log[m] = "FAILED" =>
       job[m] = "failed" /\ attempts[m] = MaxAttempts
  /\ job[m] = "none" => attempts[m] = 0
  /\ troubles["workerCrash"] = 0 =>
       stalls[m] = 0 /\ (job[m] = "active" => running[m] # "no")

EmailInv == TypeOK /\ \A m \in Mails : MailInv(m)

LEMMA EmailInit == ASSUME Init PROVE EmailInv
  BY EmailAssumption DEF Init, EmailInv, TypeOK, MailInv, Alive, TroubleKinds

LEMMA TypeNext == ASSUME EmailInv, [Next]_vars PROVE TypeOK'
  <1> USE EmailAssumption DEF EmailInv, TypeOK, MailInv, Alive, TroubleKinds, queue, memory
  <1>1. ASSUME NEW m \in Mails, CreateLog(m) \/ Enqueue(m) \/ WebCrash(m) PROVE TypeOK'
    BY <1>1 DEF CreateLog, Enqueue, WebCrash, Trouble
  <1>2. ASSUME NEW m \in Mails, Process(m) PROVE TypeOK'
    <2>1. CASE Take(m)
      BY <2>1 DEF Take
    <2>2. CASE Send(m)
      BY <2>2 DEF Send
    <2>3. CASE Complete(m)
      BY <2>3 DEF Complete
    <2>4. CASE AttemptFails(m)
      BY <2>4 DEF AttemptFails, Throw, Trouble
    <2>5. CASE Fail(m)
      BY <2>5 DEF Fail
    <2>6. CASE Backoff(m)
      BY <2>6 DEF Backoff
    <2>7. CASE WriteLog(m)
      BY <2>7 DEF WriteLog
    <2>8. CASE Recover(m)
      BY <2>8 DEF Recover
    <2> QED  BY <1>2, <2>1, <2>2, <2>3, <2>4, <2>5, <2>6, <2>7, <2>8 DEF Process
  <1>3. ASSUME NEW m \in Mails, LoseUpdate(m) PROVE TypeOK'
    BY <1>3 DEF LoseUpdate, Trouble
  <1>4. ASSUME WorkerCrash \/ Shutdown \/ Exit \/ Restart PROVE TypeOK'
    BY <1>4 DEF WorkerCrash, Shutdown, Exit, Restart, ForgetMemory, Trouble
  <1>5. CASE UNCHANGED vars
    BY <1>5 DEF vars
  <1> QED  BY <1>1, <1>2, <1>3, <1>4, <1>5 DEF Next, QueueEmail

LEMMA MailNext ==
  ASSUME EmailInv, [Next]_vars, NEW n \in Mails
  PROVE  MailInv(n)'
  <1> USE EmailAssumption DEF EmailInv, TypeOK, MailInv, Alive, TroubleKinds, queue, memory
  <1>1. ASSUME NEW m \in Mails, CreateLog(m) \/ Enqueue(m) \/ WebCrash(m) PROVE MailInv(n)'
    BY <1>1 DEF CreateLog, Enqueue, WebCrash, Trouble
  <1>2. ASSUME NEW m \in Mails, Process(m) PROVE MailInv(n)'
    <2>1. CASE Take(m)
      BY <2>1 DEF Take
    <2>2. CASE Send(m)
      BY <2>2 DEF Send
    <2>3. CASE Complete(m)
      BY <2>3 DEF Complete
    <2>4. CASE AttemptFails(m)
      BY <2>4 DEF AttemptFails, Throw, Trouble
    <2>5. CASE Fail(m)
      <3>1. attempts[m] < MaxAttempts /\ attempts[m] \in Nat /\ MaxAttempts \in Nat
        BY <2>5 DEF Fail
      <3>2. CASE attempts[m] + 1 < MaxAttempts
        BY <2>5, <3>1, <3>2 DEF Fail
      <3>3. CASE ~ attempts[m] + 1 < MaxAttempts
        <4>1. attempts[m] + 1 = MaxAttempts
          BY <3>1, <3>3
        <4>2. /\ job' = [job EXCEPT ![m] = "failed"]
              /\ attempts' = [attempts EXCEPT ![m] = MaxAttempts]
              /\ update' = [update EXCEPT ![m] = "FAILED"]
          BY <2>5, <3>3, <4>1 DEF Fail
        <4> QED  BY <2>5, <4>2 DEF Fail
      <3> QED  BY <3>2, <3>3
    <2>6. CASE Backoff(m)
      BY <2>6 DEF Backoff
    <2>7. CASE WriteLog(m)
      BY <2>7 DEF WriteLog
    <2>8. CASE Recover(m)
      BY <2>8 DEF Recover, Stalled
    <2> QED  BY <1>2, <2>1, <2>2, <2>3, <2>4, <2>5, <2>6, <2>7, <2>8 DEF Process
  <1>3. ASSUME NEW m \in Mails, LoseUpdate(m) PROVE MailInv(n)'
    BY <1>3 DEF LoseUpdate, Trouble
  <1>4. ASSUME WorkerCrash \/ Shutdown \/ Exit \/ Restart PROVE MailInv(n)'
    <2>1. CASE WorkerCrash
      BY <2>1 DEF WorkerCrash, ForgetMemory, Trouble
    <2>2. CASE Exit
      BY <2>2 DEF Exit, ForgetMemory, Running
    <2>3. CASE Shutdown \/ Restart
      BY <2>3 DEF Shutdown, Restart, Trouble
    <2> QED  BY <1>4, <2>1, <2>2, <2>3
  <1>5. CASE UNCHANGED vars
    BY <1>5 DEF vars
  <1> QED  BY <1>1, <1>2, <1>3, <1>4, <1>5 DEF Next, QueueEmail

LEMMA EmailInvariant == Spec => []EmailInv
  <1>1. Init => EmailInv
    BY EmailInit
  <1>2. EmailInv /\ [Next]_vars => EmailInv'
    BY TypeNext, MailNext DEF EmailInv
  <1> QED  BY <1>1, <1>2, PTL DEF Spec

-----------------------------------------------------------------------------

\* The delivery log, the jobs and the attempts counted are well typed.
THEOREM TypeCorrect == Spec => []TypeOK
  <1>1. EmailInv => TypeOK
    BY DEF EmailInv
  <1> QED  BY <1>1, EmailInvariant, PTL

\* A row that says SENT speaks of a mail the provider has accepted (the
\* "completed" handler).
THEOREM SentWasAccepted == Spec => []SentIsTrue
  <1>1. EmailInv => SentIsTrue
    BY DEF EmailInv, MailInv, SentIsTrue
  <1> QED  BY <1>1, EmailInvariant, PTL

\* A row that says FAILED speaks of a job that is not tried again (the early
\* return of the "failed" handler).
THEOREM FailedWasGivenUp == Spec => []FailedIsGivenUp
  <1>1. EmailInv => FailedIsGivenUp
    BY DEF EmailInv, MailInv, FailedIsGivenUp
  <1> QED  BY <1>1, EmailInvariant, PTL

\* No job without its row, even between the two writes of queueEmail.
THEOREM RecordedFirst == Spec => []JobHasRow
  <1>1. EmailInv => JobHasRow
    BY DEF EmailInv, MailInv, JobHasRow
  <1> QED  BY <1>1, EmailInvariant, PTL

\* Unless the worker is killed, its restarts leave no job stalled.
THEOREM RestartsAreGraceful == Spec => []GracefulStop
  <1>1. EmailInv => GracefulStop
    BY DEF EmailInv, MailInv, GracefulStop, Stalled
  <1> QED  BY <1>1, EmailInvariant, PTL

-----------------------------------------------------------------------------

\* A copy that is about to be reported, or has been, is the one that was meant
\* to be sent.
Counted(m) == IF running[m] = "sent" \/ job[m] = "completed" THEN 1 ELSE 0

CopiesInv ==
  \A m \in Mails :
    mails[m] <= troubles["workerCrash"] + troubles["ambiguous"] + Counted(m)

LEMMA CopiesNext ==
  ASSUME EmailInv, CopiesInv, [Next]_vars
  PROVE  CopiesInv'
  <1> SUFFICES ASSUME NEW n \in Mails
               PROVE  (mails[n] <= troubles["workerCrash"] + troubles["ambiguous"] + Counted(n))'
    BY DEF CopiesInv
  <1> DEFINE W == troubles["workerCrash"]
             A == troubles["ambiguous"]
  <1>0. /\ mails[n] \in Nat /\ W \in Nat /\ A \in Nat
        /\ mails[n] <= W + A + Counted(n)
        /\ Counted(n) \in {0, 1}
    BY DEF EmailInv, TypeOK, CopiesInv, TroubleKinds, Counted
  <1>1. ASSUME mails' = mails, W' = W \/ W' = W + 1, A' = A,
               Counted(n)' = Counted(n) \/ W' = W + 1 \/ Counted(n) = 0, Counted(n)' \in {0, 1}
        PROVE  mails[n]' <= W' + A' + Counted(n)'
    BY <1>0, <1>1
  <1>2. Counted(n)' \in {0, 1}
    BY DEF Counted
  <1>3. ASSUME NEW m \in Mails, Send(m) PROVE mails[n]' <= W' + A' + Counted(n)'
    <2>1. running[m] = "sending" /\ job[m] = "active" /\ UNCHANGED <<job, troubles>>
      BY <1>3 DEF Send, queue, EmailInv, MailInv
    <2>2. CASE n = m
      <3>1. Counted(n) = 0 /\ Counted(n)' = 1 /\ mails[n]' = mails[n] + 1
        BY <1>3, <2>1, <2>2 DEF Send, Counted, EmailInv, TypeOK
      <3> QED  BY <1>0, <2>1, <3>1
    <2>3. CASE n # m
      <3>1. Counted(n)' = Counted(n) /\ mails[n]' = mails[n]
        BY <1>3, <2>1, <2>3 DEF Send, Counted, EmailInv, TypeOK
      <3> QED  BY <1>0, <2>1, <3>1
    <2> QED  BY <2>2, <2>3
  <1>4. ASSUME NEW m \in Mails, AttemptFails(m) PROVE mails[n]' <= W' + A' + Counted(n)'
    <2>1. running[m] = "sending" /\ UNCHANGED job
      BY <1>4 DEF AttemptFails, Throw, queue
    <2>2. Counted(n)' = Counted(n)
      BY <1>4, <2>1 DEF AttemptFails, Throw, Counted, EmailInv, TypeOK
    <2>3. \/ mails' = mails /\ troubles' = troubles
          \/ mails[n]' \in {mails[n], mails[n] + 1} /\ W' = W /\ A' = A + 1
      BY <1>4 DEF AttemptFails, Throw, Trouble, EmailInv, TypeOK, TroubleKinds
    <2> QED  BY <1>0, <2>2, <2>3
  <1>5. ASSUME NEW m \in Mails,
               \/ CreateLog(m) \/ Enqueue(m) \/ WebCrash(m) \/ LoseUpdate(m)
               \/ Take(m) \/ Complete(m) \/ Fail(m) \/ Backoff(m) \/ WriteLog(m) \/ Recover(m)
        PROVE  mails[n]' <= W' + A' + Counted(n)'
    <2>1. mails' = mails /\ W' = W /\ A' = A
      BY <1>5 DEF CreateLog, Enqueue, WebCrash, LoseUpdate, Take, Complete, Fail, Backoff,
                  WriteLog, Recover, Trouble, EmailInv, TypeOK, TroubleKinds
    <2>2. Counted(n)' = Counted(n) \/ Counted(n) = 0
      BY <1>5 DEF CreateLog, Enqueue, WebCrash, LoseUpdate, Take, Complete, Fail, Backoff,
                  WriteLog, Recover, Stalled, Counted, queue, memory, EmailInv, MailInv, TypeOK
    <2> QED  BY <1>1, <1>2, <2>1, <2>2
  <1>6. CASE WorkerCrash
    <2>1. mails' = mails /\ W' = W + 1 /\ A' = A
      BY <1>6 DEF WorkerCrash, Trouble, EmailInv, TypeOK, TroubleKinds
    <2> QED  BY <1>1, <1>2, <2>1
  <1>7. CASE Shutdown \/ Exit \/ Restart
    <2>1. mails' = mails /\ W' = W /\ A' = A /\ job' = job
      BY <1>7 DEF Shutdown, Exit, Restart, Trouble, queue, EmailInv, TypeOK, TroubleKinds
    <2>2. running[n]' = running[n]
      BY <1>7 DEF Shutdown, Exit, Restart, ForgetMemory, Running, memory
    <2> QED  BY <1>1, <1>2, <2>1, <2>2 DEF Counted
  <1>8. CASE UNCHANGED vars
    BY <1>0, <1>8 DEF vars, Counted
  <1> QED  BY <1>3, <1>4, <1>5, <1>6, <1>7, <1>8 DEF Next, QueueEmail, Process

\* No mail is sent twice but by a killed worker or an attempt of unknown
\* outcome, and not more often than those happened.
THEOREM CopiesExplained == Spec => []DuplicatesExplained
  <1>1. Init => CopiesInv
    BY DEF Init, CopiesInv, Counted, TroubleKinds
  <1>2. EmailInv /\ CopiesInv /\ [Next]_vars => CopiesInv'
    BY CopiesNext
  <1>3. EmailInv /\ CopiesInv => DuplicatesExplained
    BY DEF EmailInv, TypeOK, CopiesInv, Counted, DuplicatesExplained, TroubleKinds
  <1> QED  BY <1>1, <1>2, <1>3, EmailInvariant, PTL DEF Spec

-----------------------------------------------------------------------------
(* What the two liveness properties rest on.  That every job ends and every *)
(* mail settles needs fairness; that neither runs in circles nor is lost    *)
(* sight of does not.                                                       *)

\* Unless a process stopped or an update was lost, a mail that is QUEUED is
\* being queued, has a job that is not over, or an update that is about to say
\* how it ended: nothing else has to look after it.
NothingForgotten ==
  ~Interrupted =>
    \A m \in Mails :
      log[m] = "QUEUED" => pc[m] = "enqueue" \/ job[m] \in Alive \/ update[m] # "none"

ForgottenInv ==
  /\ worker # "up" => Interrupted
  /\ NothingForgotten

\* What has gone wrong stays on the record.
LEMMA InterruptedForGood == ASSUME TypeOK, [Next]_vars, Interrupted PROVE Interrupted'
  <1>1. ASSUME NEW kind \in TroubleKinds, Trouble(kind) PROVE Interrupted'
    BY <1>1 DEF Trouble, TypeOK, Interrupted, TroubleKinds
  <1>2. CASE troubles' = troubles
    BY <1>2 DEF Interrupted
  <1>3. troubles' = troubles \/ \E kind \in TroubleKinds : Trouble(kind)
    BY DEF Next, QueueEmail, CreateLog, Enqueue, WebCrash, LoseUpdate, Process, Take, Send,
           Complete, AttemptFails, Fail, Backoff, WriteLog, Recover, WorkerCrash, Shutdown,
           Exit, Restart, vars, TroubleKinds
  <1> QED  BY <1>1, <1>2, <1>3

LEMMA ForgottenNext ==
  ASSUME EmailInv, ForgottenInv, [Next]_vars
  PROVE  ForgottenInv'
  <1> SUFFICES ASSUME ~Interrupted' PROVE ForgottenInv'
    BY DEF ForgottenInv, NothingForgotten
  <1> USE DEF ForgottenInv, NothingForgotten, Alive, queue, memory
  <1>1. ~Interrupted /\ worker = "up" /\ troubles["workerCrash"] = 0
    BY InterruptedForGood DEF EmailInv, TypeOK, Interrupted, TroubleKinds
  <1>2. ASSUME NEW kind \in {"webCrash", "workerCrash", "shutdown", "lostUpdate"}
        PROVE  ~Trouble(kind)
    BY DEF Trouble, EmailInv, TypeOK, Interrupted, TroubleKinds
  <1>3. ASSUME NEW m \in Mails, CreateLog(m) \/ Enqueue(m) PROVE ForgottenInv'
    BY <1>1, <1>3 DEF CreateLog, Enqueue, EmailInv, TypeOK
  <1>4. ASSUME NEW m \in Mails, Process(m) PROVE ForgottenInv'
    <2>1. CASE Take(m) \/ Send(m) \/ AttemptFails(m) \/ Backoff(m)
      BY <1>1, <2>1 DEF Take, Send, AttemptFails, Throw, Backoff, EmailInv, TypeOK
    <2>2. CASE Complete(m) \/ Fail(m)
      BY <1>1, <2>2 DEF Complete, Fail, EmailInv, TypeOK
    <2>3. CASE WriteLog(m)
      BY <1>1, <2>3 DEF WriteLog, EmailInv, TypeOK
    <2>4. ~Recover(m)
      BY <1>1 DEF Recover, Stalled, EmailInv, MailInv
    <2> QED  BY <1>4, <2>1, <2>2, <2>3, <2>4 DEF Process
  <1>5. ASSUME NEW m \in Mails PROVE ~WebCrash(m) /\ ~LoseUpdate(m)
    BY <1>2 DEF WebCrash, LoseUpdate
  <1>6. ~WorkerCrash /\ ~Shutdown /\ ~Exit /\ ~Restart
    BY <1>1, <1>2 DEF WorkerCrash, Shutdown, Exit, Restart
  <1>7. CASE UNCHANGED vars
    BY <1>1, <1>7 DEF vars
  <1> QED  BY <1>3, <1>4, <1>5, <1>6, <1>7 DEF Next, QueueEmail

\* No mail drops out of sight by itself: whatever the provider answers and
\* however attempts and handlers interleave, only an interruption can leave a
\* QUEUED row with nobody to change it.
THEOREM MailsLookedAfter == Spec => []NothingForgotten
  <1>1. Init => ForgottenInv
    BY DEF Init, ForgottenInv, NothingForgotten
  <1>2. EmailInv /\ ForgottenInv /\ [Next]_vars => ForgottenInv'
    BY ForgottenNext
  <1>3. ForgottenInv => NothingForgotten
    BY DEF ForgottenInv
  <1> QED  BY <1>1, <1>2, <1>3, EmailInvariant, PTL DEF Spec

LoggedInv ==
  /\ worker # "up" => ReportCutOff
  /\ FinishedIsLogged

LEMMA CutOffForGood == ASSUME TypeOK, [Next]_vars, ReportCutOff PROVE ReportCutOff'
  <1>1. ASSUME NEW kind \in TroubleKinds, Trouble(kind) PROVE ReportCutOff'
    BY <1>1 DEF Trouble, TypeOK, ReportCutOff, TroubleKinds
  <1>2. CASE troubles' = troubles
    BY <1>2 DEF ReportCutOff
  <1>3. troubles' = troubles \/ \E kind \in TroubleKinds : Trouble(kind)
    BY DEF Next, QueueEmail, CreateLog, Enqueue, WebCrash, LoseUpdate, Process, Take, Send,
           Complete, AttemptFails, Fail, Backoff, WriteLog, Recover, WorkerCrash, Shutdown,
           Exit, Restart, vars, TroubleKinds
  <1> QED  BY <1>1, <1>2, <1>3

LEMMA LoggedNext ==
  ASSUME EmailInv, LoggedInv, [Next]_vars
  PROVE  LoggedInv'
  <1> SUFFICES ASSUME ~ReportCutOff' PROVE LoggedInv'
    <2>1. ASSUME ReportCutOff' PROVE LoggedInv'
      BY <2>1 DEF LoggedInv, FinishedIsLogged
    <2> QED  BY <2>1
  <1> USE DEF LoggedInv, FinishedIsLogged, queue, memory
  <1>1. ~ReportCutOff /\ worker = "up" /\ troubles["workerCrash"] = 0
    BY CutOffForGood DEF EmailInv, TypeOK, ReportCutOff, TroubleKinds
  <1>2. ASSUME NEW kind \in {"workerCrash", "shutdown", "lostUpdate"}
        PROVE  ~Trouble(kind)
    BY DEF Trouble, EmailInv, TypeOK, ReportCutOff, TroubleKinds
  <1>3. ASSUME NEW m \in Mails, CreateLog(m) \/ Enqueue(m) \/ WebCrash(m) PROVE LoggedInv'
    BY <1>1, <1>3 DEF CreateLog, Enqueue, WebCrash, EmailInv, MailInv, TypeOK
  <1>4. ASSUME NEW m \in Mails, Process(m) PROVE LoggedInv'
    <2>1. CASE Take(m) \/ Send(m) \/ AttemptFails(m) \/ Backoff(m)
      BY <1>1, <2>1 DEF Take, Send, AttemptFails, Throw, Backoff, EmailInv, TypeOK
    <2>2. CASE Complete(m) \/ Fail(m)
      BY <1>1, <2>2 DEF Complete, Fail, EmailInv, TypeOK
    <2>3. CASE WriteLog(m)
      BY <1>1, <2>3 DEF WriteLog, EmailInv, TypeOK
    <2>4. ~Recover(m)
      BY <1>1 DEF Recover, Stalled, EmailInv, MailInv
    <2> QED  BY <1>4, <2>1, <2>2, <2>3, <2>4 DEF Process
  <1>5. ASSUME NEW m \in Mails PROVE ~LoseUpdate(m)
    BY <1>2 DEF LoseUpdate
  <1>6. ~WorkerCrash /\ ~Shutdown /\ ~Exit /\ ~Restart
    BY <1>1, <1>2 DEF WorkerCrash, Shutdown, Exit, Restart
  <1>7. CASE UNCHANGED vars
    BY <1>1, <1>7 DEF vars
  <1> QED  BY <1>3, <1>4, <1>5, <1>6, <1>7 DEF Next, QueueEmail

\* A job that is over lacks its report only if the worker was stopped or an
\* update failed: no answer of the provider, retry or stop of the web server
\* and no order of handlers and attempts costs it one.
THEOREM EndsAreLogged == Spec => []FinishedIsLogged
  <1>1. Init => LoggedInv
    BY DEF Init, LoggedInv, FinishedIsLogged
  <1>2. EmailInv /\ LoggedInv /\ [Next]_vars => LoggedInv'
    BY LoggedNext
  <1>3. LoggedInv => FinishedIsLogged
    BY DEF LoggedInv
  <1> QED  BY <1>1, <1>2, <1>3, EmailInvariant, PTL DEF Spec

\* How much a job can still go through: attempts and stalls it has left, and
\* within an attempt the way from its delay to its end.
Stage(state) ==
  CASE state = "delayed" -> 3 [] state = "waiting" -> 2 [] state = "active" -> 1 [] OTHER -> 0

Rank(m) == 3 * ((MaxAttempts - attempts[m]) + (MaxStalls - stalls[m])) + Stage(job[m])

\* Whenever the state of a job changes after it was added, it has less to go
\* through than before.
RunsDown ==
  [][\A m \in Mails : job[m] # "none" /\ job'[m] # job[m] => Rank(m)' < Rank(m)]_vars

LEMMA RankStep ==
  ASSUME EmailInv, [Next]_vars, NEW n \in Mails, job[n] # "none", job'[n] # job[n]
  PROVE  Rank(n)' < Rank(n)
  <1> DEFINE A == attempts[n]
             S == stalls[n]
  <1>0. A \in Int /\ S \in Int /\ MaxAttempts \in Int /\ MaxStalls \in Int
    BY EmailAssumption DEF EmailInv, TypeOK
  <1>1. \/ job[n] = "waiting" /\ job'[n] = "active" /\ A' = A /\ S' = S
        \/ job[n] = "delayed" /\ job'[n] = "waiting" /\ A' = A /\ S' = S
        \/ job[n] = "active" /\ job'[n] \in {"completed", "delayed", "failed"}
           /\ A' = A + 1 /\ S' = S
        \/ job[n] = "active" /\ job'[n] = "waiting" /\ A' = A /\ S' = S + 1
        \/ job[n] = "active" /\ job'[n] = "failed" /\ A' = A /\ S' = S
    <2> USE DEF EmailInv, TypeOK, MailInv, queue
    <2>1. ASSUME NEW m \in Mails, CreateLog(m) \/ WebCrash(m) \/ LoseUpdate(m) PROVE FALSE
      BY <2>1 DEF CreateLog, WebCrash, LoseUpdate
    <2>2. ASSUME NEW m \in Mails, Enqueue(m) PROVE FALSE
      BY <2>2 DEF Enqueue
    <2>3. ASSUME NEW m \in Mails, Send(m) \/ AttemptFails(m) \/ WriteLog(m) PROVE FALSE
      BY <2>3 DEF Send, AttemptFails, WriteLog
    <2>4. ASSUME NEW m \in Mails, Take(m) \/ Backoff(m) \/ Complete(m)
          PROVE  \/ job[n] = "waiting" /\ job'[n] = "active" /\ A' = A /\ S' = S
                 \/ job[n] = "delayed" /\ job'[n] = "waiting" /\ A' = A /\ S' = S
                 \/ job[n] = "active" /\ job'[n] = "completed" /\ A' = A + 1 /\ S' = S
      BY <2>4 DEF Take, Backoff, Complete
    <2>5. ASSUME NEW m \in Mails, Fail(m)
          PROVE  job[n] = "active" /\ job'[n] \in {"delayed", "failed"} /\ A' = A + 1 /\ S' = S
      BY <2>5 DEF Fail
    <2>6. ASSUME NEW m \in Mails, Recover(m)
          PROVE  \/ job[n] = "active" /\ job'[n] = "waiting" /\ A' = A /\ S' = S + 1
                 \/ job[n] = "active" /\ job'[n] = "failed" /\ A' = A /\ S' = S
      BY <2>6 DEF Recover, Stalled
    <2>7. ~WorkerCrash /\ ~Shutdown /\ ~Exit /\ ~Restart /\ ~UNCHANGED vars
      BY DEF WorkerCrash, Shutdown, Exit, Restart, vars
    <2> QED  BY <2>1, <2>2, <2>3, <2>4, <2>5, <2>6, <2>7 DEF Next, QueueEmail, Process
  <1> HIDE DEF A, S
  <1>2. Rank(n) = 3 * ((MaxAttempts - A) + (MaxStalls - S)) + Stage(job[n])
        /\ Rank(n)' = 3 * ((MaxAttempts - A') + (MaxStalls - S')) + Stage(job'[n])
    BY DEF Rank, Stage, A, S
  <1>3. /\ Stage("delayed") = 3 /\ Stage("waiting") = 2 /\ Stage("active") = 1
        /\ Stage("completed") = 0 /\ Stage("failed") = 0
    BY DEF Stage
  <1> QED  BY <1>0, <1>1, <1>2, <1>3

\* Jobs do not run in circles: crashes, restarts and retries in any order only
\* use up what a job has left, so it changes state a bounded number of times.
THEOREM JobsRunDown == Spec => [](\A m \in Mails : Rank(m) \in Nat) /\ RunsDown
  <1>1. EmailInv => \A m \in Mails : Rank(m) \in Nat
    BY EmailAssumption DEF EmailInv, TypeOK, Rank, Stage
  <1>2. EmailInv /\ [Next]_vars =>
          [\A m \in Mails : job[m] # "none" /\ job'[m] # job[m] => Rank(m)' < Rank(m)]_vars
    BY RankStep
  <1> QED  BY <1>1, <1>2, EmailInvariant, PTL DEF Spec, RunsDown
=============================================================================
