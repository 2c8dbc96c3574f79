----------------------------- MODULE JobSystem -----------------------------
(***************************************************************************)
(* The life of a job across its four actors: the API process that submits  *)
(* and cancels it (apps/jobs/services.py), the Celery broker, the worker   *)
(* processes that run it (apps/jobs/tasks.py, transform_builders.py,       *)
(* processing/pipeline.py) and each worker's Spark JVM, watched by the     *)
(* monitor thread (processing/progress.py).  The row of the job in         *)
(* PostgreSQL is shared by all of them and every statement on it is one    *)
(* step, so anything may happen between two statements.                    *)
(*                                                                         *)
(* Stage names and percentages are the subject of JobProgress.             *)
(***************************************************************************)
EXTENDS Integers

CONSTANTS
    Jobs,        \* job ids
    Workers,     \* worker processes, each with one task slot (--concurrency=1)
    Answers,     \* patterns or specifications a job may be run with
    NoAnswer,    \* no pattern or specification on the row
    NoJob,       \* the task slot is empty
    Kinds,       \* the kinds of job submitted: see JobKinds
    MaxRetries,  \* MAX_TRANSIENT_RETRIES, 3 in the code
    Faults,      \* the environment faults that may happen: see FaultKinds
    MaxFaults    \* bound on how many of them happen

\* "pattern": find and replace with the user's own pattern; "prompt": find and
\* replace with a pattern the LLM writes; "spec": the two transforms whose
\* specification the LLM writes from a sample of the data.
JobKinds == {"pattern", "prompt", "spec"}

\* "crash": a worker process dies.  "redeliver": the broker gives an unacked
\* message to another consumer.  "publish": the broker refuses a message, or the
\* process dies before sending it.  "limit": a time limit no handler records.
FaultKinds == {"crash", "redeliver", "publish", "limit"}

ASSUME JobSystemAssumption ==
    /\ NoJob \notin Jobs
    /\ NoAnswer \notin Answers
    /\ Answers \cap {"absent", "partial"} = {}
    /\ Kinds \subseteq JobKinds
    /\ MaxRetries \in Nat
    /\ Faults \subseteq FaultKinds
    /\ MaxFaults \in Nat

VARIABLES
    \* the job's row (class Job)
    status, kind, flagged, started, answer, error, result,
    \* the broker: messages waiting, by job and retry count; revoked task ids
    queue, revoked,
    \* the API requests in progress for the job
    submit, cancel,
    \* the task a worker runs: its place in run_job, its message, its local values
    pc, job, tries, owned, plan, stats, exc,
    \* the worker's Spark action, the actions its JVM is running, its monitor
    \* thread, and the job's output directory
    act, jvm, monitor, output,
    \* faults so far
    faults

rowVars    == <<status, kind, flagged, started, answer, error, result>>
brokerVars == <<queue, revoked>>
apiVars    == <<submit, cancel>>
taskVars   == <<pc, job, tries, owned, plan, stats, exc>>
sparkVars  == <<act, jvm, monitor, output>>
vars       == <<rowVars, brokerVars, apiVars, taskVars, sparkVars, faults>>

Terminal == {"SUCCESS", "FAILED"}

\* Mutant: a failed job may be run again.
LaxSources == [RUNNING |-> {"QUEUED", "RUNNING", "FAILED"},
               SUCCESS |-> {"RUNNING"},
               FAILED  |-> {"QUEUED", "RUNNING"}]

\* Statuses a job may move from to reach each status (ALLOWED_SOURCE_STATUSES).
Sources == [RUNNING |-> {"QUEUED", "RUNNING"},
            SUCCESS |-> {"RUNNING"},
            FAILED  |-> {"QUEUED", "RUNNING"}]

Tries     == 0..MaxRetries
Acts      == {"source", "sample", "write", "count"}
Failures  == {"cancelled", "timeout", "transient", "permanent"}
Codes     == {"CANCELLED", "TIMEOUT", "OTHER"}
Outputs   == Answers \cup {"absent", "partial"}
SparkWork == [job : Jobs, act : Acts, plan : Answers \cup {NoAnswer}]

\* Places of a task inside the try of run_job, and all of them.
InTry == {"load", "ask", "save", "check", "connect", "launch", "running",
          "sampled", "saved"}
Places == InTry \cup {"idle", "begin", "succeed", "handle", "fail", "retry", "ack"}

RowTypeOK ==
    /\ status \in [Jobs -> {"NONE", "QUEUED", "RUNNING"} \cup Terminal]
    /\ kind \in [Jobs -> JobKinds]
    /\ flagged \in [Jobs -> BOOLEAN]
    /\ started \in [Jobs -> BOOLEAN]
    /\ answer \in [Jobs -> Answers \cup {NoAnswer}]
    /\ error \in [Jobs -> Codes \cup {""}]
    /\ result \in [Jobs -> Outputs]

ApiTypeOK ==
    /\ submit \in [Jobs -> {"new", "created", "done", "lost"}]
    /\ cancel \in [Jobs -> {"idle", "flag", "confirm", "revoke", "accepted", "refused"}]

BrokerTypeOK ==
    /\ queue \in [Jobs -> [Tries -> Nat]]
    /\ revoked \subseteq Jobs
    /\ faults \in 0..MaxFaults

TaskTypeOK ==
    /\ pc \in [Workers -> Places]
    /\ job \in [Workers -> Jobs \cup {NoJob}]
    /\ tries \in [Workers -> Tries]
    /\ owned \in [Workers -> BOOLEAN]
    /\ plan \in [Workers -> Answers \cup {NoAnswer}]
    /\ stats \in [Workers -> Outputs]
    /\ exc \in [Workers -> Failures \cup Codes \cup {"none"}]

SparkTypeOK ==
    /\ act \in [Workers -> Acts]
    /\ jvm \in [Workers -> SUBSET SparkWork]
    /\ monitor \in [Workers -> {"off", "watching", "fired"}]
    /\ output \in [Jobs -> Outputs]

TypeOK == RowTypeOK /\ ApiTypeOK /\ BrokerTypeOK /\ TaskTypeOK /\ SparkTypeOK

Init ==
    /\ status = [j \in Jobs |-> "NONE"]
    /\ kind \in [Jobs -> Kinds]
    /\ flagged = [j \in Jobs |-> FALSE]
    /\ started = [j \in Jobs |-> FALSE]
    /\ answer = [j \in Jobs |-> NoAnswer]
    /\ error = [j \in Jobs |-> ""]
    /\ result = [j \in Jobs |-> "absent"]
    /\ queue = [j \in Jobs |-> [r \in Tries |-> 0]]
    /\ revoked = {}
    /\ submit = [j \in Jobs |-> "new"]
    /\ cancel = [j \in Jobs |-> "idle"]
    /\ pc = [w \in Workers |-> "idle"]
    /\ job = [w \in Workers |-> NoJob]
    /\ tries = [w \in Workers |-> 0]
    /\ owned = [w \in Workers |-> FALSE]
    /\ plan = [w \in Workers |-> NoAnswer]
    /\ stats = [w \in Workers |-> "absent"]
    /\ exc = [w \in Workers |-> "none"]
    /\ act = [w \in Workers |-> "source"]
    /\ jvm = [w \in Workers |-> {}]
    /\ monitor = [w \in Workers |-> "off"]
    /\ output = [j \in Jobs |-> "absent"]
    /\ faults = 0

Fault(f) ==
    /\ f \in Faults
    /\ faults < MaxFaults
    /\ faults' = faults + 1

\* JobQuerySet.transition: the conditional UPDATE of the status.
Allowed(j, target) == status[j] \in Sources[target]
SetStatus(j, target) == status' = [status EXCEPT ![j] = target]

Publish(j, r) == queue' = [queue EXCEPT ![j][r] = @ + 1]
Goto(w, place) == pc' = [pc EXCEPT ![w] = place]

-----------------------------------------------------------------------------
(* The API process *)

\* submit_job up to the commit: the row exists, the message is not sent yet.
CreateJob(j) ==
    /\ submit[j] = "new"
    /\ submit' = [submit EXCEPT ![j] = "created"]
    /\ SetStatus(j, "QUEUED")
    /\ IF kind[j] = "pattern"
         THEN \E a \in Answers : answer' = [answer EXCEPT ![j] = a]
         ELSE UNCHANGED answer
    /\ UNCHANGED <<kind, flagged, started, error, result>>
    /\ UNCHANGED <<brokerVars, cancel, taskVars, sparkVars, faults>>

\* on_commit: apply_async with the job id as task id.
EnqueueJob(j) ==
    /\ submit[j] = "created"
    /\ submit' = [submit EXCEPT ![j] = "done"]
    /\ Publish(j, 0)
    /\ UNCHANGED <<rowVars, revoked, cancel, taskVars, sparkVars, faults>>

\* The broker is down, or the API process dies: the row stays without a message.
EnqueueFails(j) ==
    /\ submit[j] = "created"
    /\ Fault("publish")
    /\ submit' = [submit EXCEPT ![j] = "lost"]
    /\ UNCHANGED <<rowVars, brokerVars, cancel, taskVars, sparkVars>>

\* Mutant: a cancel only flags, whether the job has started or not.
CancelJobByFlag(j) ==
    /\ submit[j] = "done"
    /\ cancel[j] = "idle"
    /\ cancel' = [cancel EXCEPT ![j] = "flag"]
    /\ UNCHANGED <<rowVars, brokerVars, submit, taskVars, sparkVars, faults>>

\* cancel_job, first statement: fail the job if it is still queued.
CancelJob(j) ==
    /\ submit[j] = "done"
    /\ cancel[j] = "idle"
    /\ \/ /\ Allowed(j, "FAILED") /\ status[j] = "QUEUED"
          /\ SetStatus(j, "FAILED")
          /\ error' = [error EXCEPT ![j] = "CANCELLED"]
          /\ flagged' = [flagged EXCEPT ![j] = TRUE]
          /\ cancel' = [cancel EXCEPT ![j] = "revoke"]
       \/ /\ status[j] # "QUEUED"
          /\ cancel' = [cancel EXCEPT ![j] = "flag"]
          /\ UNCHANGED <<status, error, flagged>>
    /\ UNCHANGED <<kind, started, answer, result>>
    /\ UNCHANGED <<brokerVars, submit, taskVars, sparkVars, faults>>

\* request_cancel, the UPDATE: flag the job if it is running.
FlagJob(j) ==
    /\ cancel[j] = "flag"
    /\ cancel' = [cancel EXCEPT ![j] = "confirm"]
    /\ flagged' = [flagged EXCEPT ![j] = @ \/ status[j] = "RUNNING"]
    /\ UNCHANGED <<status, kind, started, answer, error, result>>
    /\ UNCHANGED <<brokerVars, submit, taskVars, sparkVars, faults>>

\* request_cancel, the exists(): the reply is 409 unless the job is running and flagged.
ConfirmFlag(j) ==
    /\ cancel[j] = "confirm"
    /\ cancel' = [cancel EXCEPT ![j] =
           IF status[j] = "RUNNING" /\ flagged[j] THEN "accepted" ELSE "refused"]
    /\ UNCHANGED <<rowVars, brokerVars, submit, taskVars, sparkVars, faults>>

\* revoke_task is best effort: the broadcast may reach no worker.
RevokeJob(j) ==
    /\ cancel[j] = "revoke"
    /\ cancel' = [cancel EXCEPT ![j] = "accepted"]
    /\ revoked' \in {revoked, revoked \cup {j}}
    /\ UNCHANGED <<rowVars, queue, submit, taskVars, sparkVars, faults>>

-----------------------------------------------------------------------------
(* The broker *)

Receive(w, j, r) ==
    /\ pc[w] = "idle"
    /\ queue[j][r] > 0
    /\ queue' = [queue EXCEPT ![j][r] = @ - 1]
    /\ Goto(w, "begin")
    /\ job' = [job EXCEPT ![w] = j]
    /\ tries' = [tries EXCEPT ![w] = r]
    /\ owned' = [owned EXCEPT ![w] = TRUE]
    /\ UNCHANGED <<plan, stats, exc>>
    /\ UNCHANGED <<rowVars, revoked, apiVars, sparkVars, faults>>

\* A worker that knows the task is revoked acks its message without running it.
DropRevoked(j, r) ==
    /\ j \in revoked
    /\ queue[j][r] > 0
    /\ queue' = [queue EXCEPT ![j][r] = @ - 1]
    /\ UNCHANGED <<rowVars, revoked, apiVars, taskVars, sparkVars, faults>>

\* The message outlives the broker's visibility timeout while its task runs on.
Redeliver(w) ==
    /\ pc[w] # "idle"
    /\ owned[w]
    /\ Fault("redeliver")
    /\ Publish(job[w], tries[w])
    /\ owned' = [owned EXCEPT ![w] = FALSE]
    /\ UNCHANGED <<pc, job, tries, plan, stats, exc>>
    /\ UNCHANGED <<rowVars, revoked, apiVars, sparkVars>>

\* The task slot is free again: nothing of the task survives in the process.
Leave(w) ==
    /\ Goto(w, "idle")
    /\ job' = [job EXCEPT ![w] = NoJob]
    /\ tries' = [tries EXCEPT ![w] = 0]
    /\ owned' = [owned EXCEPT ![w] = FALSE]
    /\ plan' = [plan EXCEPT ![w] = NoAnswer]
    /\ stats' = [stats EXCEPT ![w] = "absent"]
    /\ exc' = [exc EXCEPT ![w] = "none"]
    /\ act' = [act EXCEPT ![w] = "source"]
    /\ monitor' = [monitor EXCEPT ![w] = "off"]

\* acks_late: the message is acknowledged when the task has returned.
Ack(w) ==
    /\ pc[w] = "ack"
    /\ Leave(w)
    /\ UNCHANGED <<rowVars, brokerVars, apiVars, jvm, output, faults>>

\* Mutant: the message of a dead worker counts as acknowledged.
CrashLosesMessage(w) ==
    /\ pc[w] # "idle"
    /\ Fault("crash")
    /\ Leave(w)
    /\ jvm' = [jvm EXCEPT ![w] = {}]
    /\ UNCHANGED <<rowVars, brokerVars, apiVars, output>>

\* task_reject_on_worker_lost: the dead worker's message goes back to the queue.
\* Its JVM dies with it.
Crash(w) ==
    /\ pc[w] # "idle"
    /\ Fault("crash")
    /\ IF owned[w] THEN Publish(job[w], tries[w]) ELSE UNCHANGED queue
    /\ Leave(w)
    /\ jvm' = [jvm EXCEPT ![w] = {}]
    /\ UNCHANGED <<rowVars, revoked, apiVars, output>>

\* The hard limit kills the process, or the soft limit strikes where run_job has
\* no handler; Celery then acks the message, and nothing is written to the row.
LimitEscapes(w) ==
    /\ pc[w] # "idle"
    /\ Fault("limit")
    /\ Leave(w)
    /\ \/ jvm' = [jvm EXCEPT ![w] = {}]
       \/ pc[w] \notin InTry /\ UNCHANGED jvm
    /\ UNCHANGED <<rowVars, brokerVars, apiVars, output>>

-----------------------------------------------------------------------------
(* The task: run_job *)

\* The first statement of run_job: a job that may not run is skipped.
Begin(w) ==
    /\ pc[w] = "begin"
    /\ \/ /\ Allowed(job[w], "RUNNING")
          /\ SetStatus(job[w], "RUNNING")
          /\ started' = [started EXCEPT ![job[w]] = TRUE]
          /\ error' = [error EXCEPT ![job[w]] = ""]
          /\ Goto(w, "load")
       \/ /\ ~Allowed(job[w], "RUNNING")
          /\ Goto(w, "ack")
          /\ UNCHANGED <<status, started, error>>
    /\ UNCHANGED <<kind, flagged, answer, result, job, tries, owned, plan, stats, exc>>
    /\ UNCHANGED <<brokerVars, apiVars, sparkVars, faults>>

\* An exception leaves the try of run_job, and the monitor's with block before it.
Raise(w, e) ==
    /\ Goto(w, "handle")
    /\ exc' = [exc EXCEPT ![w] = e]
    /\ monitor' = [monitor EXCEPT ![w] = "off"]

\* Read the row into memory and check the cancel flag.  A find-and-replace job
\* that has a description and no pattern yet asks for one.
LoadJob(w) ==
    /\ pc[w] = "load"
    /\ plan' = [plan EXCEPT ![w] = answer[job[w]]]
    /\ \/ flagged[job[w]] /\ Raise(w, "cancelled")
       \/ /\ ~flagged[job[w]]
          /\ Goto(w, IF kind[job[w]] = "prompt" /\ answer[job[w]] = NoAnswer
                       THEN "ask" ELSE "check")
          /\ UNCHANGED <<exc, monitor>>
    /\ UNCHANGED <<job, tries, owned, stats, act, jvm, output>>
    /\ UNCHANGED <<rowVars, brokerVars, apiVars, faults>>

\* One request to the LLM: an answer, an outage (retryable), or no usable answer.
AskLLM(w) ==
    /\ pc[w] = "ask"
    /\ \/ /\ \E a \in Answers : plan' = [plan EXCEPT ![w] = a]
          /\ Goto(w, "save")
          /\ UNCHANGED <<exc, monitor>>
       \/ /\ \E e \in {"transient", "permanent"} : Raise(w, e)
          /\ UNCHANGED plan
    /\ UNCHANGED <<job, tries, owned, stats, act, jvm, output>>
    /\ UNCHANGED <<rowVars, brokerVars, apiVars, faults>>

\* Save the answer on the row, whatever the row holds by now.
SaveAnswer(w) ==
    /\ pc[w] = "save"
    /\ answer' = [answer EXCEPT ![job[w]] = plan[w]]
    /\ Goto(w, IF kind[job[w]] = "spec" THEN "saved" ELSE "check")
    /\ UNCHANGED <<status, kind, flagged, started, error, result>>
    /\ UNCHANGED <<job, tries, owned, plan, stats, exc>>
    /\ UNCHANGED <<brokerVars, apiVars, sparkVars, faults>>

\* raise_if_cancel_requested between the stages, and where the run goes on.
AfterCheck == [check |-> "connect", sampled |-> "ask", saved |-> "launch"]

\* Mutant: the flag is left to the monitor thread.
SkipCancelCheck(w) ==
    /\ pc[w] \in DOMAIN AfterCheck
    /\ Goto(w, AfterCheck[pc[w]])
    /\ act' = [act EXCEPT ![w] = IF pc[w] = "saved" THEN "write" ELSE @]
    /\ UNCHANGED <<job, tries, owned, plan, stats, exc, monitor, jvm, output>>
    /\ UNCHANGED <<rowVars, brokerVars, apiVars, faults>>

CheckCancel(w) ==
    /\ pc[w] \in DOMAIN AfterCheck
    /\ \/ flagged[job[w]] /\ Raise(w, "cancelled") /\ UNCHANGED act
       \/ /\ ~flagged[job[w]]
          /\ Goto(w, AfterCheck[pc[w]])
          /\ act' = [act EXCEPT ![w] = IF pc[w] = "saved" THEN "write" ELSE @]
          /\ UNCHANGED <<exc, monitor>>
    /\ UNCHANGED <<job, tries, owned, plan, stats, jvm, output>>
    /\ UNCHANGED <<rowVars, brokerVars, apiVars, faults>>

\* _run_spark up to the first Spark action: the connection may have expired;
\* otherwise the monitor thread starts and the source is read.
Connect(w) ==
    /\ pc[w] = "connect"
    /\ \/ Raise(w, "permanent") /\ UNCHANGED act
       \/ /\ Goto(w, "launch")
          /\ act' = [act EXCEPT ![w] = "source"]
          /\ monitor' = [monitor EXCEPT ![w] = "watching"]
          /\ UNCHANGED exc
    /\ UNCHANGED <<job, tries, owned, plan, stats, jvm, output>>
    /\ UNCHANGED <<rowVars, brokerVars, apiVars, faults>>

\* The run succeeded: save the row as finished.  This statement follows the try.
Succeed(w) ==
    /\ pc[w] = "succeed"
    /\ Goto(w, "ack")
    /\ IF Allowed(job[w], "SUCCESS")
         THEN /\ SetStatus(job[w], "SUCCESS")
              /\ result' = [result EXCEPT ![job[w]] = stats[w]]
         ELSE UNCHANGED <<status, result>>
    /\ UNCHANGED <<kind, flagged, started, answer, error>>
    /\ UNCHANGED <<job, tries, owned, plan, stats, exc>>
    /\ UNCHANGED <<brokerVars, apiVars, sparkVars, faults>>

\* Mutant: the exception itself is recorded, not its error code.
SettleUncoded(w, code) == Goto(w, "fail") /\ UNCHANGED exc

\* _handle_failure: decide the error code, or to retry.  A failure of a flagged job
\* is the cancellation taking effect; only the TIMEOUT branch stops Spark.
Settle(w, code) == Goto(w, "fail") /\ exc' = [exc EXCEPT ![w] = code]

SparkOf(w) == {x \in jvm[w] : x.job = job[w]}
\* Mutant: the task gives up and leaves Spark running.
KeepSpark(w) == UNCHANGED jvm

StopSpark(w) == jvm' = [jvm EXCEPT ![w] = @ \ SparkOf(w)]

HandleFailure(w) ==
    LET cancelled == exc[w] = "cancelled" \/ flagged[job[w]]
    IN  /\ pc[w] = "handle"
        /\ \/ cancelled /\ Settle(w, "CANCELLED") /\ UNCHANGED jvm
           \/ ~cancelled /\ exc[w] = "timeout" /\ Settle(w, "TIMEOUT") /\ StopSpark(w)
           \/ /\ ~cancelled /\ exc[w] = "transient" /\ tries[w] < MaxRetries
              /\ Goto(w, "retry")
              /\ UNCHANGED <<exc, jvm>>
           \/ /\ ~cancelled
              /\ exc[w] = "permanent" \/ (exc[w] = "transient" /\ tries[w] >= MaxRetries)
              /\ Settle(w, "OTHER") /\ UNCHANGED jvm
        /\ UNCHANGED <<job, tries, owned, plan, stats, act, monitor, output>>
        /\ UNCHANGED <<rowVars, brokerVars, apiVars, faults>>

\* _fail: record the code, if the job may still fail.
RecordFailure(w) ==
    /\ pc[w] = "fail"
    /\ Goto(w, "ack")
    /\ IF Allowed(job[w], "FAILED")
         THEN /\ SetStatus(job[w], "FAILED")
              /\ error' = [error EXCEPT ![job[w]] = exc[w]]
         ELSE UNCHANGED <<status, error>>
    /\ UNCHANGED <<kind, flagged, started, answer, result>>
    /\ UNCHANGED <<job, tries, owned, plan, stats, exc>>
    /\ UNCHANGED <<brokerVars, apiVars, sparkVars, faults>>

\* Mutant: the task ends as if its retry had been sent.
RetryNotSent(w) ==
    /\ pc[w] = "retry"
    /\ Goto(w, "ack")
    /\ UNCHANGED <<job, tries, owned, plan, stats, exc>>
    /\ UNCHANGED <<rowVars, brokerVars, apiVars, sparkVars, faults>>

\* task.retry publishes the next attempt; this one is acked afterwards.
PublishRetry(w) ==
    /\ pc[w] = "retry"
    /\ Publish(job[w], tries[w] + 1)
    /\ Goto(w, "ack")
    /\ UNCHANGED <<job, tries, owned, plan, stats, exc>>
    /\ UNCHANGED <<rowVars, revoked, apiVars, sparkVars, faults>>

\* If the retry cannot be published, Celery rejects the message without requeueing.
RetryFails(w) ==
    /\ pc[w] = "retry"
    /\ Fault("publish")
    /\ Goto(w, "ack")
    /\ UNCHANGED <<job, tries, owned, plan, stats, exc>>
    /\ UNCHANGED <<rowVars, brokerVars, apiVars, sparkVars>>

-----------------------------------------------------------------------------
(* Spark: run_transform, one Spark action after the other *)

Writers(j) == {v \in Workers : \E x \in jvm[v] : x.job = j /\ x.act = "write"}

\* The call the worker is waiting for, and what it turns into on success.
Call(w) == [job |-> job[w], act |-> act[w], plan |-> plan[w]]

\* An action starts; a write in overwrite mode first removes the old output.
LaunchSpark(w) ==
    /\ pc[w] = "launch"
    /\ Goto(w, "running")
    /\ jvm' = [jvm EXCEPT ![w] = @ \cup {Call(w)}]
    /\ output' = [output EXCEPT ![job[w]] = IF act[w] = "write" THEN "partial" ELSE @]
    /\ UNCHANGED <<job, tries, owned, plan, stats, exc, act, monitor>>
    /\ UNCHANGED <<rowVars, brokerVars, apiVars, faults>>

\* A finished write leaves its rows, unless another run was writing there too.
Finish(w, x) ==
    /\ jvm' = [jvm EXCEPT ![w] = @ \ {x}]
    /\ IF x.act # "write" THEN UNCHANGED output
       ELSE \E o \in {x.plan} \cup (IF Writers(x.job) = {w} THEN {} ELSE {"partial"}) :
              output' = [output EXCEPT ![x.job] = o]

\* Mutant: the output is counted before it is written.
CountBeforeWrite(w) ==
    CASE act[w] = "source" ->
           IF kind[job[w]] = "spec" /\ plan[w] = NoAnswer THEN "sample" ELSE "count"
      [] OTHER -> act[w]

\* Mutant: a saved specification does not spare the sample.
SampleAgain(w) ==
    CASE act[w] = "source" -> IF kind[job[w]] = "spec" THEN "sample" ELSE "write"
      [] act[w] = "write" -> "count"
      [] OTHER -> act[w]

\* The action after each: reading the source (and, without a specification yet, a
\* sample of it), then writing, then counting.
NextAct(w) ==
    CASE act[w] = "source" ->
           IF kind[job[w]] = "spec" /\ plan[w] = NoAnswer THEN "sample" ELSE "write"
      [] act[w] = "write" -> "count"
      [] OTHER -> act[w]

\* The call returns.  The sample goes to the LLM; counting reads what the output
\* directory holds now; the last action ends the monitor's with block.
SparkReturns(w) ==
    /\ pc[w] = "running"
    /\ Call(w) \in jvm[w]
    /\ Finish(w, Call(w))
    /\ act' = [act EXCEPT ![w] = NextAct(w)]
    /\ Goto(w, CASE act[w] = "sample" -> "sampled"
                 [] act[w] = "count"  -> "succeed"
                 [] OTHER             -> "launch")
    /\ stats' = [stats EXCEPT ![w] = IF act[w] = "count" THEN output[job[w]] ELSE @]
    /\ monitor' = [monitor EXCEPT ![w] = IF act[w] = "count" THEN "off" ELSE @]
    /\ UNCHANGED <<job, tries, owned, plan, exc>>
    /\ UNCHANGED <<rowVars, brokerVars, apiVars, faults>>

\* The call fails.  A storage outage is retryable, except while counting, where no
\* handler translates it.
SparkFails(w) ==
    /\ pc[w] = "running"
    /\ jvm' = [jvm EXCEPT ![w] = @ \ {Call(w)}]
    /\ \E e \in {"permanent"} \cup (IF act[w] = "count" THEN {} ELSE {"transient"}) :
         Raise(w, e)
    /\ UNCHANGED <<job, tries, owned, plan, stats, act, output>>
    /\ UNCHANGED <<rowVars, brokerVars, apiVars, faults>>

\* A Spark action nobody waits for any more runs to its end.
OrphanEnds(w) ==
    /\ \E x \in jvm[w] : ~(pc[w] = "running" /\ x = Call(w)) /\ Finish(w, x)
    /\ UNCHANGED <<act, monitor, taskVars>>
    /\ UNCHANGED <<rowVars, brokerVars, apiVars, faults>>

\* SparkJobMonitor._tick sees the flag: it cancels the job's group, once.  Spark
\* fails the call that was active; if none was, there is nothing to cancel.
MonitorCancels(w) ==
    /\ monitor[w] = "watching"
    /\ flagged[job[w]]
    /\ StopSpark(w)
    /\ \/ pc[w] = "running" /\ Raise(w, "permanent")
       \/ /\ pc[w] # "running"
          /\ monitor' = [monitor EXCEPT ![w] = "fired"]
          /\ UNCHANGED <<pc, exc>>
    /\ UNCHANGED <<job, tries, owned, plan, stats, act, output>>
    /\ UNCHANGED <<rowVars, brokerVars, apiVars, faults>>

\* SoftTimeLimitExceeded is raised in the task; Spark knows nothing of it.
SoftTimeLimit(w) ==
    /\ pc[w] \in InTry
    /\ Raise(w, "timeout")
    /\ UNCHANGED <<job, tries, owned, plan, stats, act, jvm, output>>
    /\ UNCHANGED <<rowVars, brokerVars, apiVars, faults>>

-----------------------------------------------------------------------------
ApiStep(j) ==
    \/ CreateJob(j) \/ EnqueueJob(j) \/ EnqueueFails(j)
    \/ CancelJob(j) \/ FlagJob(j) \/ ConfirmFlag(j) \/ RevokeJob(j)

\* The steps a running task takes by itself.
TaskStep(w) ==
    \/ Begin(w) \/ LoadJob(w) \/ AskLLM(w) \/ SaveAnswer(w) \/ CheckCancel(w)
    \/ Connect(w) \/ LaunchSpark(w) \/ Succeed(w)
    \/ HandleFailure(w) \/ RecordFailure(w) \/ PublishRetry(w) \/ RetryFails(w)
    \/ Ack(w)

\* The ways a call into Spark ends.
SparkStep(w) == SparkReturns(w) \/ SparkFails(w) \/ MonitorCancels(w) \/ SoftTimeLimit(w)

WorkerStep(w) ==
    \/ TaskStep(w) \/ SparkStep(w) \/ OrphanEnds(w)
    \/ Redeliver(w) \/ Crash(w) \/ LimitEscapes(w)

ReceiveJob(j) == \E w \in Workers, r \in Tries : Receive(w, j, r)

Next ==
    \/ \E j \in Jobs : ApiStep(j) \/ ReceiveJob(j)
    \/ \E j \in Jobs, r \in Tries : DropRevoked(j, r)
    \/ \E w \in Workers : WorkerStep(w)

Spec == Init /\ [][Next]_vars

\* A submit request in progress ends, a free worker takes the messages in turn
\* (Redis lists are FIFO), a task goes on, and a Spark call ends or is timed out.
Fairness ==
    /\ \A j \in Jobs : WF_vars(EnqueueJob(j)) /\ SF_vars(ReceiveJob(j))
    /\ \A w \in Workers : WF_vars(TaskStep(w)) /\ WF_vars(SparkStep(w))

FairSpec == Spec /\ Fairness

-----------------------------------------------------------------------------
(* Properties that hold for any number of workers and any of the faults *)

SparkWorksOn(j) == \E w \in Workers : \E x \in jvm[w] : x.job = j

InFlight(j) ==
    \/ \E r \in Tries : queue[j][r] > 0
    \/ \E w \in Workers : job[w] = j /\ owned[w] /\ pc[w] \notin {"idle", "ack"}

\* acks_late with task_reject_on_worker_lost: while a submitted job is unfinished, some
\* message for it is waiting or is held, unacknowledged, by a worker that has not
\* finished with it.  Crashes, redeliveries, retries, cancels and revocations lose none.
NoJobStranded ==
    \A j \in Jobs : submit[j] = "done" /\ status[j] \notin Terminal => InFlight(j)

\* The conditional UPDATE of transition: a late, repeated or concurrent run never
\* touches the status, error code or counts of a job that has finished.
FinishedStays ==
    [][\A j \in Jobs : status[j] \in Terminal =>
          UNCHANGED <<status[j], error[j], result[j]>>]_vars

\* cancel_job of a queued job: although its message may still arrive, any number of times,
\* no run of it starts, it has no Spark action and leaves no output.
CancelledInQueueNeverRuns ==
    [][\A j \in Jobs : status[j] = "FAILED" /\ ~started[j] =>
          ~started'[j] /\ output'[j] = "absent" /\ ~SparkWorksOn(j)']_vars

\* The run has passed the last check before Spark and may still succeed.
PastSparkCheck(w) ==
    \/ pc[w] \in {"connect", "launch", "running", "sampled", "saved", "succeed"}
    \/ pc[w] \in {"ask", "save"} /\ kind[job[w]] = "spec"

Quiet(j) == ~SparkWorksOn(j) /\ \A w \in Workers : job[w] = j => ~PastSparkCheck(w)

\* cancel_job of a running job, between two runs or early in one: from then on no retry,
\* redelivery or restart of the job reaches Spark again, so it can not succeed either.
CancelStopsLaterRuns ==
    [][\A j \in Jobs : flagged[j] /\ Quiet(j) => Quiet(j)']_vars

\* A cancel is refused (409) only to a job that is finished by then.
RefusedIsFinished ==
    \A j \in Jobs : cancel[j] = "refused" => status[j] \in Terminal

-----------------------------------------------------------------------------
(* Properties that hold while one run of a job is in progress at a time *)

\* collect_stats and the overwriting write: the rows, the counts and the pattern or
\* specification shown for a SUCCESS job belong together and nothing is writing there.
OutputMatchesRow ==
    \A j \in Jobs : status[j] = "SUCCESS" =>
        /\ output[j] = result[j]
        /\ result[j] = answer[j]
        /\ Writers(j) = {}

\* "a retried job never calls the LLM twice" (_resolve_pattern, _generate_spec): once an
\* answer is saved, no run asks or saves again, whatever failed or crashed after it.
AsksOnlyWithoutAnswer ==
    \A w \in Workers : pc[w] \in {"ask", "save"} => answer[job[w]] = NoAnswer

\* _handle_failure and run_transform: once a job that nobody cancelled has finished, for
\* whatever reason, no Spark work of it is left in any worker.
NoOrphanWork ==
    \A j \in Jobs : status[j] \in Terminal /\ ~flagged[j] =>
        ~SparkWorksOn(j)

\* The job as its client sees it implements the contract of the API.
Contract == INSTANCE JobContract WITH
    state   <- status,
    wanted  <- flagged,
    visible <- [j \in Jobs |-> IF status[j] = "SUCCESS" THEN output[j] ELSE NoAnswer]

ImplementsContract == Contract!Spec

\* Every job whose message was sent finishes: no lost wake-up between cancel, retry,
\* crash and redelivery leaves it QUEUED or RUNNING for ever.
EventuallyFinished ==
    \A j \in Jobs : submit[j] = "done" ~> status[j] \in Terminal

-----------------------------------------------------------------------------
(* What the documentation says and the code does not do *)

\* "A running job is flagged, and the worker stops its Spark work within a few seconds"
\* (cancel_job, README "Cancellation"): once the monitor has acted on the flag, the run
\* starts no further Spark action.
CancelledRunLaunchesNothing ==
    \A w \in Workers : monitor[w] = "fired" => pc[w] # "running"
=============================================================================
