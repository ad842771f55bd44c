----------------------------- MODULE EmailDelivery ----------------------------
(***************************************************************************)
(* Transactional mail: queueEmail (packages/jobs) writes an EmailLog row in*)
(* PostgreSQL and then adds a job in Redis; the worker (apps/worker) sends *)
(* the mail and, from two event handlers that nobody awaits, updates the   *)
(* row.  Two stores, no transaction over both, and a process that may stop *)
(* between any two steps.                                                  *)
(*                                                                         *)
(* BullMQ is modelled from the options the code gives it: a job is taken   *)
(* by the worker, a failed attempt is retried after a delay until the      *)
(* attempts are used up, and a job whose worker died is put back, or       *)
(* failed for good once it has stalled too often.                          *)
(***************************************************************************)
EXTENDS Integers, FiniteSets

CONSTANTS
  Mails,         \* the mails operations queue
  MaxAttempts,   \* attempts of a job, 5 in the code
  MaxStalls,     \* times a job may be put back, 1 by BullMQ's default
  Concurrency,   \* jobs the worker runs at once, 5 in the code
  MaxTroubles    \* bound on how often each kind of trouble happens, for TLC

TroubleKinds == {"webCrash", "workerCrash", "shutdown", "lostUpdate", "ambiguous"}

ASSUME EmailAssumption ==
  /\ MaxAttempts \in Nat \ {0}
  /\ MaxStalls \in Nat
  /\ Concurrency \in Nat \ {0}
  /\ MaxTroubles \in [TroubleKinds -> Nat]

VARIABLES
  pc,         \* how far queueEmail has come
  log,        \* EmailLog.status
  job,        \* the state of the job in Redis
  attempts,   \* attemptsMade
  stalls,     \* how often the job has been put back
  mails,      \* how often the provider has accepted the mail
  worker,     \* the worker process
  running,    \* the step of each job in the worker's memory
  update,     \* the update of EmailLog each handler has under way
  troubles    \* how often each kind of trouble has happened

queue  == <<job, attempts, stalls>>
memory == <<running, update>>
vars   == <<pc, log, job, attempts, stalls, mails, worker, running, update, troubles>>

Init ==
  /\ pc = [m \in Mails |-> "idle"]
  /\ log = [m \in Mails |-> "NONE"]
  /\ job = [m \in Mails |-> "none"]
  /\ attempts = [m \in Mails |-> 0]
  /\ stalls = [m \in Mails |-> 0]
  /\ mails = [m \in Mails |-> 0]
  /\ worker = "up"
  /\ running = [m \in Mails |-> "no"]
  /\ update = [m \in Mails |-> "none"]
  /\ troubles = [kind \in TroubleKinds |-> 0]

Trouble(kind) ==
  /\ troubles[kind] < MaxTroubles[kind]
  /\ troubles' = [troubles EXCEPT ![kind] = @ + 1]

-----------------------------------------------------------------------------
(* queueEmail *)

CreateLog(m) ==
  /\ pc[m] = "idle"
  /\ log' = [log EXCEPT ![m] = "QUEUED"]
  /\ pc' = [pc EXCEPT ![m] = "enqueue"]
  /\ UNCHANGED <<queue, memory, mails, worker, troubles>>

Enqueue(m) ==
  /\ pc[m] = "enqueue"
  /\ job' = [job EXCEPT ![m] = "waiting"]
  /\ pc' = [pc EXCEPT ![m] = "queued"]
  /\ UNCHANGED <<attempts, stalls, memory, log, mails, worker, troubles>>

\* The web server stops between the two.
WebCrash(m) ==
  /\ Trouble("webCrash")
  /\ pc[m] = "enqueue"
  /\ pc' = [pc EXCEPT ![m] = "failed"]
  /\ UNCHANGED <<queue, memory, log, mails, worker>>

-----------------------------------------------------------------------------
(* The worker *)

Running == {m \in Mails : running[m] # "no"}

Take(m) ==
  /\ worker = "up"
  /\ job[m] = "waiting"
  /\ Cardinality(Running) < Concurrency
  /\ job' = [job EXCEPT ![m] = "active"]
  /\ running' = [running EXCEPT ![m] = "sending"]
  /\ UNCHANGED <<attempts, stalls, update, pc, log, mails, worker, troubles>>

\* Fault: an answer without a message id is taken for an error.
Fault_Send(m) ==
  /\ running[m] = "sending"
  /\ mails' = [mails EXCEPT ![m] = @ + 1]
  /\ running' = [running EXCEPT ![m] = "thrown"]
  /\ UNCHANGED <<queue, update, pc, log, worker, troubles>>

Send(m) ==
  /\ running[m] = "sending"
  /\ mails' = [mails EXCEPT ![m] = @ + 1]
  /\ running' = [running EXCEPT ![m] = "sent"]
  /\ UNCHANGED <<queue, update, pc, log, worker, troubles>>

\* Fault: only failures have a handler.
Fault_Complete(m) ==
  /\ running[m] = "sent"
  /\ job' = [job EXCEPT ![m] = "completed"]
  /\ attempts' = [attempts EXCEPT ![m] = @ + 1]
  /\ running' = [running EXCEPT ![m] = "no"]
  /\ UNCHANGED <<stalls, update, pc, log, mails, worker, troubles>>

\* sendEmail has returned: the job is completed, and the "completed" handler
\* starts its update and returns.
Complete(m) ==
  /\ running[m] = "sent"
  /\ job' = [job EXCEPT ![m] = "completed"]
  /\ attempts' = [attempts EXCEPT ![m] = @ + 1]
  /\ running' = [running EXCEPT ![m] = "no"]
  /\ update' = [update EXCEPT ![m] = "SENT"]
  /\ UNCHANGED <<stalls, pc, log, mails, worker, troubles>>

\* sendEmail throws.  When the connection broke, the provider may have
\* accepted the mail all the same.
Throw(m, accepted) ==
  /\ running[m] = "sending"
  /\ mails' = [mails EXCEPT ![m] = IF accepted THEN @ + 1 ELSE @]
  /\ running' = [running EXCEPT ![m] = "thrown"]

AttemptFails(m) ==
  /\ \/ Throw(m, FALSE) /\ UNCHANGED troubles
     \/ Throw(m, TRUE) /\ Trouble("ambiguous")
  /\ UNCHANGED <<queue, update, pc, log, worker>>

\* Fault: the handler does not look at the number of attempts.
Fault_Fail(m) ==
  /\ running[m] = "thrown"
  /\ attempts' = [attempts EXCEPT ![m] = @ + 1]
  /\ job' = [job EXCEPT ![m] = IF attempts[m] + 1 < MaxAttempts THEN "delayed" ELSE "failed"]
  /\ update' = [update EXCEPT ![m] = "FAILED"]
  /\ running' = [running EXCEPT ![m] = "no"]
  /\ UNCHANGED <<stalls, pc, log, mails, worker, troubles>>

\* Fault: the handler compares attemptsMade <= attempts.
Fault_FailSilently(m) ==
  /\ running[m] = "thrown"
  /\ attempts' = [attempts EXCEPT ![m] = @ + 1]
  /\ job' = [job EXCEPT ![m] = IF attempts[m] + 1 < MaxAttempts THEN "delayed" ELSE "failed"]
  /\ running' = [running EXCEPT ![m] = "no"]
  /\ UNCHANGED <<stalls, update, pc, log, mails, worker, troubles>>

\* Fault: one attempt more than configured.
Fault_FailOnceMore(m) ==
  /\ running[m] = "thrown"
  /\ attempts' = [attempts EXCEPT ![m] = @ + 1]
  /\ job' = [job EXCEPT ![m] = IF attempts[m] < MaxAttempts THEN "delayed" ELSE "failed"]
  /\ running' = [running EXCEPT ![m] = "no"]
  /\ UNCHANGED <<stalls, update, pc, log, mails, worker, troubles>>

\* Fault: the attempts are not limited.
Fault_FailForever(m) ==
  /\ running[m] = "thrown"
  /\ job' = [job EXCEPT ![m] = "delayed"]
  /\ running' = [running EXCEPT ![m] = "no"]
  /\ UNCHANGED <<attempts, stalls, update, pc, log, mails, worker, troubles>>

\* The job is delayed for another attempt, and the "failed" handler returns
\* early; or it fails for good, and the handler starts its update.
Fail(m) ==
  /\ running[m] = "thrown"
  /\ attempts' = [attempts EXCEPT ![m] = @ + 1]
  /\ \/ /\ attempts[m] + 1 < MaxAttempts
        /\ job' = [job EXCEPT ![m] = "delayed"]
        /\ UNCHANGED update
     \/ /\ attempts[m] + 1 >= MaxAttempts
        /\ job' = [job EXCEPT ![m] = "failed"]
        /\ update' = [update EXCEPT ![m] = "FAILED"]
  /\ running' = [running EXCEPT ![m] = "no"]
  /\ UNCHANGED <<stalls, pc, log, mails, worker, troubles>>

Backoff(m) ==
  /\ job[m] = "delayed"
  /\ job' = [job EXCEPT ![m] = "waiting"]
  /\ UNCHANGED <<attempts, stalls, memory, pc, log, mails, worker, troubles>>

WriteLog(m) ==
  /\ update[m] # "none"
  /\ log' = [log EXCEPT ![m] = update[m]]
  /\ update' = [update EXCEPT ![m] = "none"]
  /\ UNCHANGED <<queue, running, pc, mails, worker, troubles>>

\* The update fails; .catch logs the error and forgets it.
LoseUpdate(m) ==
  /\ Trouble("lostUpdate")
  /\ update[m] # "none"
  /\ update' = [update EXCEPT ![m] = "none"]
  /\ UNCHANGED <<queue, running, pc, log, mails, worker>>

-----------------------------------------------------------------------------
(* The worker process *)

ForgetMemory ==
  /\ running' = [m \in Mails |-> "no"]
  /\ update' = [m \in Mails |-> "none"]

WorkerCrash ==
  /\ Trouble("workerCrash")
  /\ worker # "down"
  /\ worker' = "down"
  /\ ForgetMemory
  /\ UNCHANGED <<queue, pc, log, mails>>

\* SIGTERM: emailWorker.close() lets running jobs finish and takes no more.
Shutdown ==
  /\ Trouble("shutdown")
  /\ worker = "up"
  /\ worker' = "closing"
  /\ UNCHANGED <<queue, memory, pc, log, mails>>

\* close() waits for the jobs, not for the updates their handlers started.
Exit ==
  /\ worker = "closing"
  /\ Running = {}
  /\ worker' = "down"
  /\ ForgetMemory
  /\ UNCHANGED <<queue, pc, log, mails, troubles>>

Restart ==
  /\ worker = "down"
  /\ worker' = "up"
  /\ UNCHANGED <<queue, memory, pc, log, mails, troubles>>

\* A job left active by a worker that is gone.
Stalled(m) == worker = "up" /\ job[m] = "active" /\ running[m] = "no"

\* It is put back, or failed for good.  The "failed" handler then takes the
\* attempts that are left for a sign that the job will be retried.
Recover(m) ==
  /\ Stalled(m)
  /\ \/ /\ stalls[m] < MaxStalls
        /\ job' = [job EXCEPT ![m] = "waiting"]
        /\ stalls' = [stalls EXCEPT ![m] = @ + 1]
        /\ UNCHANGED update
     \/ /\ stalls[m] >= MaxStalls
        /\ job' = [job EXCEPT ![m] = "failed"]
        /\ update' = [update EXCEPT ![m] =
                        IF attempts[m] < MaxAttempts THEN @ ELSE "FAILED"]
        /\ UNCHANGED stalls
  /\ UNCHANGED <<attempts, running, pc, log, mails, worker, troubles>>

-----------------------------------------------------------------------------

QueueEmail(m) == CreateLog(m) \/ Enqueue(m)

Process(m) ==
  \/ Take(m) \/ Send(m) \/ Complete(m) \/ AttemptFails(m) \/ Fail(m)
  \/ Backoff(m) \/ WriteLog(m) \/ Recover(m)

Next ==
  \/ \E m \in Mails : QueueEmail(m) \/ Process(m) \/ WebCrash(m) \/ LoseUpdate(m)
  \/ WorkerCrash \/ Shutdown \/ Exit \/ Restart

Spec == Init /\ [][Next]_vars

\* A queueEmail that has begun goes on, the worker and BullMQ run their jobs on,
\* and the platform starts a worker that has stopped again.
FairSpec ==
  /\ Spec
  /\ \A m \in Mails : WF_vars(Enqueue(m)) /\ WF_vars(Process(m))
  /\ WF_vars(Exit \/ Restart)

-----------------------------------------------------------------------------
(* Properties *)

TypeOK ==
  /\ pc \in [Mails -> {"idle", "enqueue", "queued", "failed"}]
  /\ log \in [Mails -> {"NONE", "QUEUED", "SENT", "FAILED"}]
  /\ job \in [Mails -> {"none", "waiting", "active", "delayed", "completed", "failed"}]
  /\ attempts \in [Mails -> 0..MaxAttempts]
  /\ stalls \in [Mails -> 0..MaxStalls]
  /\ mails \in [Mails -> Nat]
  /\ worker \in {"up", "closing", "down"}
  /\ running \in [Mails -> {"no", "sending", "sent", "thrown"}]
  /\ update \in [Mails -> {"none", "SENT", "FAILED"}]
  /\ troubles \in [TroubleKinds -> Nat]

\* EmailLog never claims a mail that no provider accepted.
SentIsTrue == \A m \in Mails : log[m] = "SENT" => mails[m] > 0

\* EmailLog reports a failure only when no attempt is left that might still
\* deliver the mail.
FailedIsGivenUp ==
  \A m \in Mails : log[m] = "FAILED" => job[m] = "failed" /\ attempts[m] = MaxAttempts

\* A job always has its row (queueEmail: a record even if the worker never
\* picks the job up).
JobHasRow == \A m \in Mails : job[m] # "none" => log[m] # "NONE"

\* A worker told to stop finishes what it has begun: unless the process is
\* killed, no restart leaves a job stalled.
GracefulStop ==
  troubles["workerCrash"] = 0 => \A m \in Mails : stalls[m] = 0 /\ ~ Stalled(m)

\* Each copy of a mail beyond the first goes back to a worker killed in the
\* middle of an attempt or to an attempt of unknown outcome; retries, restarts
\* and lost updates of the log send nothing twice.
DuplicatesExplained ==
  \A m \in Mails : mails[m] <= 1 + troubles["workerCrash"] + troubles["ambiguous"]

\* Every job ends, completed or failed, whatever crashes and restarts.
EveryJobEnds ==
  \A m \in Mails : job[m] # "none" ~> job[m] \in {"completed", "failed"}

\* A process that stops, or a lost update, may cost a mail its report.
Interrupted ==
  \E kind \in {"webCrash", "workerCrash", "shutdown", "lostUpdate"} : troubles[kind] > 0

\* Otherwise every queued mail is reported SENT or FAILED, whatever the
\* provider does.
EveryMailSettles ==
  \A m \in Mails : log[m] = "QUEUED" ~> log[m] \in {"SENT", "FAILED"} \/ Interrupted

\* The handlers start their updates and nobody waits for them (email.tsx 41-53,
\* 55-71; index.ts 26): a worker that stops, or an update that fails, costs a
\* job that is over its report.
ReportCutOff ==
  \E kind \in {"workerCrash", "shutdown", "lostUpdate"} : troubles[kind] > 0

\* Nothing else does: a job that is over, with no update of its row still under
\* way, is in the log as SENT or FAILED.
FinishedIsLogged ==
  \A m \in Mails :
    job[m] \in {"completed", "failed"} /\ update[m] = "none" =>
      log[m] \in {"SENT", "FAILED"} \/ ReportCutOff
=============================================================================
