---------------------------- MODULE JobRunProofs ----------------------------
(***************************************************************************)
(* What holds of JobSystem while a job has one run at a time: the row, the *)
(* output and Spark belong together, and the job keeps the API's contract. *)
(***************************************************************************)
EXTENDS JobSystemProofs

\* The places of a run: from the first statement to the acknowledgement.
Within == Places \ {"idle", "begin", "ack"}

\* No two workers are in a run of one job.
OneRunAtATime ==
    \A v, w \in Workers : v # w /\ pc[v] \in Within /\ pc[w] \in Within => job[v] # job[w]

\* Soft limits strike where run_job handles them, and no hard limit kills the process.
LimitsHandled == "limit" \notin Faults

\* What a run has in memory is what the row says, and it asks only if that is nothing.
Answered(w) ==
    /\ pc[w] \in Within => status[job[w]] = "RUNNING"
    /\ pc[w] \in InTry \ {"load", "save"} => plan[w] = answer[job[w]]
    /\ pc[w] \in {"ask", "save", "sampled"} => answer[job[w]] = NoAnswer
    /\ pc[w] \in {"launch", "running"} /\ act[w] = "sample" => plan[w] = NoAnswer

\* What a run has written is still there, and what it has counted is that.
Written(w) ==
    /\ pc[w] \in {"launch", "running"} /\ act[w] = "count" =>
         plan[w] \in Answers /\ output[job[w]] = plan[w]
    /\ pc[w] = "succeed" =>
         /\ plan[w] \in Answers /\ plan[w] = answer[job[w]]
         /\ stats[w] = plan[w] /\ output[job[w]] = plan[w]

\* A Spark action is waited for, about to be stopped, or left over from a cancelled job.
Accounted(w, x) ==
    \/ pc[w] = "running" /\ x = Call(w)
    \/ pc[w] = "handle" /\ exc[w] = "timeout" /\ job[w] = x.job
    \/ flagged[x.job] /\ (status[x.job] = "FAILED" \/ (pc[w] = "fail" /\ job[w] = x.job))

\* All of this, of worker w.
RunOK(w) == Answered(w) /\ Written(w) /\ \A x \in jvm[w] : Accounted(w, x)

\* What a SUCCESS job shows belongs together.
DoneOK(j) ==
    status[j] = "SUCCESS" =>
        output[j] = result[j] /\ result[j] = answer[j] /\ answer[j] \in Answers

RunInv == TypeInv /\ (\A w \in Workers : RunOK(w)) /\ (\A j \in Jobs : DoneOK(j))

-----------------------------------------------------------------------------
(* Workers that a step leaves alone *)

\* The step leaves the task of w where it is, and starts no Spark action for it.
Still(w) ==
    /\ UNCHANGED <<pc[w], job[w], plan[w], stats[w], exc[w], act[w]>>
    /\ jvm'[w] \subseteq jvm[w]

\* The steps that move the task of w or reach into its JVM.
Moves(w) ==
    \/ \E j \in Jobs, r \in Tries : Receive(w, j, r)
    \/ TaskStep(w) \/ SparkStep(w) \/ Crash(w) \/ LimitEscapes(w)

LEMMA StillOthers ==
  ASSUME TypeInv, NEW u \in Workers, NEW w \in Workers, Moves(u), w # u
  PROVE  Still(w)
<1> USE DEF Still
<1>0. TaskTypeOK /\ SparkTypeOK
  BY DEF TypeInv, TypeOK
<1> USE <1>0 DEF TaskTypeOK, SparkTypeOK, Goto
<1>1. ASSUME NEW j \in Jobs, NEW r \in Tries, Receive(u, j, r) PROVE Still(w)
  BY <1>1 DEF Receive, sparkVars
<1>2. ASSUME Begin(u) PROVE Still(w)
  BY <1>2 DEF Begin, sparkVars
<1>3. ASSUME LoadJob(u) PROVE Still(w)
  BY <1>3 DEF LoadJob, Raise
<1>4. ASSUME AskLLM(u) PROVE Still(w)
  BY <1>4 DEF AskLLM, Raise
<1>5. ASSUME SaveAnswer(u) PROVE Still(w)
  BY <1>5 DEF SaveAnswer, sparkVars
<1>6. ASSUME CheckCancel(u) PROVE Still(w)
  BY <1>6 DEF CheckCancel, Raise
<1>7. ASSUME Connect(u) PROVE Still(w)
  BY <1>7 DEF Connect, Raise
<1>8. ASSUME LaunchSpark(u) PROVE Still(w)
  BY <1>8 DEF LaunchSpark
<1>9. ASSUME Succeed(u) PROVE Still(w)
  BY <1>9 DEF Succeed, sparkVars
<1>10. ASSUME HandleFailure(u) PROVE Still(w)
  BY <1>10 DEF HandleFailure, Settle, StopSpark
<1>11. ASSUME RecordFailure(u) PROVE Still(w)
  BY <1>11 DEF RecordFailure, sparkVars
<1>12. ASSUME PublishRetry(u) PROVE Still(w)
  BY <1>12 DEF PublishRetry, sparkVars
<1>13. ASSUME RetryFails(u) PROVE Still(w)
  BY <1>13 DEF RetryFails, sparkVars
<1>14. ASSUME Ack(u) PROVE Still(w)
  BY <1>14 DEF Ack, Leave
<1>15. ASSUME SparkReturns(u) PROVE Still(w)
  BY <1>15 DEF SparkReturns, Finish
<1>16. ASSUME SparkFails(u) PROVE Still(w)
  BY <1>16 DEF SparkFails, Raise
<1>17. ASSUME MonitorCancels(u) PROVE Still(w)
  BY <1>17 DEF MonitorCancels, StopSpark, Raise
<1>18. ASSUME SoftTimeLimit(u) PROVE Still(w)
  BY <1>18 DEF SoftTimeLimit, Raise
<1>19. ASSUME Crash(u) PROVE Still(w)
  BY <1>19 DEF Crash, Leave
<1>20. ASSUME LimitEscapes(u) PROVE Still(w)
  BY <1>20 DEF LimitEscapes, Leave
<1> QED
  BY <1>1, <1>2, <1>3, <1>4, <1>5, <1>6, <1>7, <1>8, <1>9, <1>10, <1>11, <1>12, <1>13, <1>14,
     <1>15, <1>16, <1>17, <1>18, <1>19, <1>20 DEF Moves, TaskStep, SparkStep

LEMMA MovesOrStill ==
  ASSUME TypeInv, [Next]_vars, NEW w \in Workers
  PROVE  Moves(w) \/ Still(w)
<1>0. TaskTypeOK /\ SparkTypeOK
  BY DEF TypeInv, TypeOK
<1>1. ASSUME NEW j \in Jobs, ApiStep(j) PROVE Still(w)
  BY <1>1 DEF ApiStep, CreateJob, CancelJob, FlagJob, EnqueueJob, EnqueueFails, ConfirmFlag,
     RevokeJob, taskVars, sparkVars, Still
<1>2. ASSUME NEW j \in Jobs, NEW r \in Tries, DropRevoked(j, r) PROVE Still(w)
  BY <1>2 DEF DropRevoked, taskVars, sparkVars, Still
<1>3. CASE UNCHANGED vars
  BY <1>3 DEF vars, taskVars, sparkVars, Still
<1>4. ASSUME NEW u \in Workers, Redeliver(u) PROVE Still(w)
  BY <1>4 DEF Redeliver, sparkVars, Still
<1>5. ASSUME NEW u \in Workers, OrphanEnds(u) PROVE Still(w)
  <2>1. UNCHANGED <<pc, job, plan, stats, exc, act>>
    BY <1>5 DEF OrphanEnds, taskVars
  <2>2. PICK x \in jvm[u] : jvm' = [jvm EXCEPT ![u] = @ \ {x}]
    BY <1>5 DEF OrphanEnds, Finish
  <2>3. jvm'[w] \subseteq jvm[w]
    BY <1>0, <2>2 DEF SparkTypeOK
  <2> QED
    BY <2>1, <2>3 DEF Still
<1>6. ASSUME NEW u \in Workers, Moves(u) PROVE Moves(w) \/ Still(w)
  BY <1>6, StillOthers
<1> QED
  BY <1>1, <1>2, <1>3, <1>4, <1>5, <1>6 DEF Next, WorkerStep, ReceiveJob, Moves

-----------------------------------------------------------------------------
(* What a step does to the row and the output of a job *)

LEMMA AnswerKept ==
  ASSUME TypeInv, [Next]_vars, NEW j \in Jobs, answer'[j] # answer[j]
  PROVE  status[j] = "NONE" \/ \E u \in Workers : SaveAnswer(u) /\ job[u] = j
<1>0. RowTypeOK
  BY DEF TypeInv, TypeOK
<1>1. CASE UNCHANGED rowVars
  BY <1>1 DEF rowVars
<1>2. ASSUME NEW i \in Jobs, CreateJob(i) PROVE status[j] = "NONE"
  BY <1>0, <1>2 DEF CreateJob, RowTypeOK, TypeInv, RowOK, Stored
<1>3. ASSUME NEW i \in Jobs, CancelJob(i) \/ FlagJob(i) PROVE FALSE
  BY <1>3 DEF CancelJob, FlagJob
<1>4. ASSUME NEW u \in Workers, SaveAnswer(u) PROVE job[u] = j
  BY <1>0, <1>4 DEF SaveAnswer, RowTypeOK
<1>5. ASSUME NEW u \in Workers, Begin(u) \/ Succeed(u) \/ RecordFailure(u) PROVE FALSE
  BY <1>5 DEF Begin, Succeed, RecordFailure
<1> QED
  BY <1>1, <1>2, <1>3, <1>4, <1>5, RowSteps DEF RowStep

LEMMA StatusKept ==
  ASSUME TypeInv, [Next]_vars, NEW j \in Jobs, status[j] = "RUNNING", status'[j] # "RUNNING"
  PROVE  \E u \in Workers : (Succeed(u) \/ RecordFailure(u)) /\ job[u] = j
<1>0. RowTypeOK
  BY DEF TypeInv, TypeOK
<1>1. CASE UNCHANGED rowVars
  BY <1>1 DEF rowVars
<1>2. ASSUME NEW i \in Jobs, CreateJob(i) PROVE FALSE
  BY <1>0, <1>2 DEF CreateJob, SetStatus, RowTypeOK, TypeInv, RowOK, Stored
<1>3. ASSUME NEW i \in Jobs, CancelJob(i) PROVE FALSE
  BY <1>0, <1>3 DEF CancelJob, SetStatus, RowTypeOK
<1>4. ASSUME NEW i \in Jobs, FlagJob(i) PROVE FALSE
  BY <1>4 DEF FlagJob
<1>5. ASSUME NEW u \in Workers, Begin(u) PROVE FALSE
  BY <1>0, <1>5 DEF Begin, SetStatus, RowTypeOK
<1>6. ASSUME NEW u \in Workers, SaveAnswer(u) PROVE FALSE
  BY <1>6 DEF SaveAnswer
<1>7. ASSUME NEW u \in Workers, Succeed(u) PROVE job[u] = j
  BY <1>0, <1>7 DEF Succeed, SetStatus, RowTypeOK
<1>8. ASSUME NEW u \in Workers, RecordFailure(u) PROVE job[u] = j
  BY <1>0, <1>8 DEF RecordFailure, SetStatus, RowTypeOK
<1> QED
  BY <1>1, <1>2, <1>3, <1>4, <1>5, <1>6, <1>7, <1>8, RowSteps DEF RowStep

\* An output changes where its run launches or ends a call, or where a left-over ends.
LEMMA OutputKept ==
  ASSUME RunInv, [Next]_vars, NEW j \in Jobs, output'[j] # output[j], status[j] # "FAILED"
  PROVE  \E u \in Workers :
           /\ job[u] = j
           /\ \/ LaunchSpark(u) /\ act[u] = "write"
              \/ SparkReturns(u) /\ act[u] = "write"
              \/ pc[u] \in {"handle", "fail"}
<1>0. SparkTypeOK
  BY DEF RunInv, TypeInv, TypeOK
<1>1. CASE UNCHANGED <<jvm, output>>
  BY <1>1
<1>2. ASSUME NEW u \in Workers, LaunchSpark(u) PROVE job[u] = j /\ act[u] = "write"
  BY <1>0, <1>2 DEF LaunchSpark, SparkTypeOK
<1>3. ASSUME NEW u \in Workers, SparkReturns(u) PROVE job[u] = j /\ act[u] = "write"
  <2>1. Finish(u, Call(u))
    BY <1>3 DEF SparkReturns
  <2>2. Call(u).act = act[u] /\ Call(u).job = job[u]
    BY DEF Call
  <2>3. act[u] = "write"
    BY <2>1, <2>2 DEF Finish
  <2>4. \E o : output' = [output EXCEPT ![job[u]] = o]
    BY <2>1, <2>2, <2>3 DEF Finish
  <2> QED
    BY <1>0, <2>3, <2>4 DEF SparkTypeOK
<1>4. ASSUME NEW u \in Workers, OrphanEnds(u)
      PROVE  job[u] = j /\ pc[u] \in {"handle", "fail"}
  <2>1. PICK x \in jvm[u] : ~(pc[u] = "running" /\ x = Call(u)) /\ Finish(u, x)
    BY <1>4 DEF OrphanEnds
  <2>2. x.job = j
    <3>1. \E o : output' = [output EXCEPT ![x.job] = o]
      BY <2>1 DEF Finish
    <3> QED
      BY <1>0, <3>1 DEF SparkTypeOK
  <2>3. Accounted(u, x)
    BY DEF RunInv, RunOK
  <2> QED
    BY <2>1, <2>2, <2>3 DEF Accounted
<1>5. ASSUME NEW u \in Workers,
             Crash(u) \/ LimitEscapes(u) \/ HandleFailure(u) \/ SparkFails(u) \/ MonitorCancels(u)
      PROVE  FALSE
  BY <1>5 DEF Crash, LimitEscapes, HandleFailure, SparkFails, MonitorCancels
<1> QED
  BY <1>1, <1>2, <1>3, <1>4, <1>5, JvmMoves DEF JvmMove

LEMMA StillSteps ==
  ASSUME RunInv, OneRunAtATime, [Next]_vars, NEW w \in Workers, Still(w)
  PROVE  RunOK(w)'
<1>0. TypeInv /\ RunOK(w) /\ TaskTypeOK /\ SparkTypeOK
  BY DEF RunInv, TypeInv, TypeOK
<1>1. pc'[w] = pc[w] /\ job'[w] = job[w] /\ plan'[w] = plan[w] /\ stats'[w] = stats[w]
        /\ exc'[w] = exc[w] /\ act'[w] = act[w] /\ jvm'[w] \subseteq jvm[w]
  BY DEF Still
<1>2. \A u \in Workers : u # w /\ pc[u] \in Within /\ pc[w] \in Within => job[u] # job[w]
  BY DEF OneRunAtATime
<1>3. ASSUME pc[w] \in Within
      PROVE  /\ job[w] \in Jobs
             /\ status[job[w]] = "RUNNING" /\ status'[job[w]] = "RUNNING"
             /\ answer'[job[w]] = answer[job[w]]
             /\ pc[w] \notin {"handle", "fail"} => output'[job[w]] = output[job[w]]
  <2>1. job[w] \in Jobs /\ status[job[w]] = "RUNNING"
    BY <1>0, <1>3, Busy DEF RunOK, Answered, Within
  <2>2. ASSUME NEW u \in Workers, job[u] = job[w], u # w PROVE pc[u] \notin Within
    BY <1>2, <1>3, <2>2
  <2>3. ASSUME NEW u \in Workers, job[u] = job[w], Succeed(u) \/ RecordFailure(u) PROVE FALSE
    <3>1. pc[u] \in Within /\ pc'[u] # pc[u]
      BY <1>0, <2>3 DEF Succeed, RecordFailure, Goto, TaskTypeOK, Within, Places
    <3> QED
      BY <2>2, <2>3, <3>1, <1>1
  <2>4. ASSUME NEW u \in Workers, job[u] = job[w], SaveAnswer(u) PROVE FALSE
    <3>1. pc[u] \in Within /\ pc'[u] # pc[u]
      BY <1>0, <2>4 DEF SaveAnswer, Goto, TaskTypeOK, Within, Places, InTry
    <3> QED
      BY <2>2, <2>4, <3>1, <1>1
  <2>5. ASSUME NEW u \in Workers, job[u] = job[w], LaunchSpark(u) \/ SparkReturns(u) PROVE FALSE
    <3>1. pc[u] \in Within
      BY <2>5 DEF LaunchSpark, SparkReturns, Within, Places, InTry
    <3>2. pc'[u] # pc[u]
      BY <1>0, <2>5 DEF LaunchSpark, SparkReturns, Goto, TaskTypeOK
    <3> QED
      BY <2>2, <2>5, <3>1, <3>2, <1>1
  <2>6. status'[job[w]] = "RUNNING"
    BY <1>0, <2>1, <2>3, StatusKept
  <2>7. answer'[job[w]] = answer[job[w]]
    BY <1>0, <2>1, <2>4, AnswerKept
  <2>8. ASSUME pc[w] \notin {"handle", "fail"} PROVE output'[job[w]] = output[job[w]]
    <3>1. ASSUME NEW u \in Workers, job[u] = job[w], pc[u] \in {"handle", "fail"} PROVE FALSE
      BY <2>2, <2>8, <3>1 DEF Within, Places
    <3> QED
      BY <2>1, <2>5, <3>1, OutputKept
  <2> QED
    BY <2>1, <2>6, <2>7, <2>8
<1>4. Answered(w)'
  BY <1>0, <1>1, <1>3 DEF RunOK, Answered, Within, Places, InTry
<1>5. Written(w)'
  BY <1>0, <1>1, <1>3 DEF RunOK, Written, Within, Places, InTry
<1>6. ASSUME NEW x \in jvm'[w] PROVE Accounted(w, x)'
  <2>1. Accounted(w, x) /\ x.job \in Jobs
    BY <1>0, <1>1 DEF RunOK, SparkTypeOK, SparkWork
  <2>2. RowMoves(x.job)
    BY <1>0, <2>1, Lifecycle
  <2>3. Call(w)' = Call(w)
    BY <1>1 DEF Call
  <2> QED
    BY <1>1, <2>1, <2>2, <2>3 DEF Accounted, RowMoves, Terminal
<1> QED
  BY <1>4, <1>5, <1>6 DEF RunOK

-----------------------------------------------------------------------------
(* The worker whose task moves *)

\* An action that the run does not wait for is left over from a cancelled job, and stays so.
LEMMA LeftOver ==
  ASSUME RunInv, [Next]_vars, NEW w \in Workers, NEW x \in jvm[w],
         ~(pc[w] = "running" /\ x = Call(w)),
         pc[w] \in {"handle", "fail"} => x.job # job[w]
  PROVE  Accounted(w, x)'
<1>1. TypeInv /\ Accounted(w, x) /\ x.job \in Jobs
  BY DEF RunInv, RunOK, TypeInv, TypeOK, SparkTypeOK, SparkWork
<1>2. flagged[x.job] /\ status[x.job] = "FAILED"
  BY <1>1 DEF Accounted
<1>3. flagged'[x.job] /\ status'[x.job] = "FAILED"
  BY <1>1, <1>2, Lifecycle DEF RowMoves, Terminal
<1> QED
  BY <1>3 DEF Accounted

\* A task that is in no run has nothing to keep.
LEMMA Outside ==
  ASSUME NEW w \in Workers, pc'[w] \in {"idle", "begin", "ack"}
  PROVE  Answered(w)' /\ Written(w)'
  BY DEF Answered, Written, Within, InTry

\* On its way out of the try a run has nothing to keep but its job.
LEMMA WayOut ==
  ASSUME NEW w \in Workers, pc'[w] \in {"handle", "fail", "retry"}, status'[job'[w]] = "RUNNING"
  PROVE  Answered(w)' /\ Written(w)'
  BY DEF Answered, Written, Within, InTry

\* No other worker writes where a run does.
LEMMA OnlyWriter ==
  ASSUME RunInv, OneRunAtATime, NEW w \in Workers, pc[w] \in Within, NEW v \in Writers(job[w])
  PROVE  v = w
<1> SUFFICES ASSUME v # w PROVE FALSE
  OBVIOUS
<1>1. PICK x \in jvm[v] : x.job = job[w]
  BY DEF Writers
<1>2. v \in Workers /\ Accounted(v, x) /\ status[job[w]] = "RUNNING"
  BY DEF RunInv, RunOK, Answered, Writers
<1>3. job[v] # job[w] \/ pc[v] \notin Within
  BY <1>2 DEF OneRunAtATime
<1>4. {"running", "handle", "fail"} \subseteq Within
  BY DEF Within, Places, InTry
<1> QED
  BY <1>1, <1>2, <1>3, <1>4 DEF Accounted, Call

LEMMA MoverSteps ==
  ASSUME RunInv, OneRunAtATime, LimitsHandled, [Next]_vars, NEW w \in Workers, Moves(w)
  PROVE  RunOK(w)'
<1>0. TypeInv /\ Held(w) /\ Answered(w) /\ Written(w) /\ TaskTypeOK /\ SparkTypeOK /\ RowTypeOK
        /\ \A x \in jvm[w] : Accounted(w, x)
  BY DEF RunInv, RunOK, TypeInv, TypeOK, TaskOK
<1>a. ASSUME pc[w] \in Within PROVE job[w] \in Jobs /\ status[job[w]] = "RUNNING"
  BY <1>0, <1>a, Busy DEF Answered, Within
<1>b. ASSUME pc[w] \notin {"running", "handle", "fail"}, NEW x \in jvm[w]
      PROVE  Accounted(w, x)'
  BY <1>b, LeftOver
<1>1. ASSUME NEW j \in Jobs, NEW r \in Tries, Receive(w, j, r) PROVE RunOK(w)'
  <2>1. pc'[w] = "begin" /\ pc[w] = "idle" /\ jvm' = jvm
    BY <1>0, <1>1 DEF Receive, Goto, TaskTypeOK, sparkVars
  <2> QED
    BY <1>b, <2>1, Outside DEF RunOK
<1>2. ASSUME Begin(w) PROVE RunOK(w)'
  <2>1. pc[w] = "begin" /\ jvm' = jvm /\ job' = job /\ job[w] \in Jobs
    BY <1>0, <1>2, Busy DEF Begin, sparkVars
  <2>2. pc'[w] = "ack" \/ (pc'[w] = "load" /\ status'[job[w]] = "RUNNING")
    <3>1. CASE Goto(w, "ack")
      BY <1>0, <3>1 DEF Goto, TaskTypeOK
    <3>2. CASE SetStatus(job[w], "RUNNING") /\ Goto(w, "load")
      BY <1>0, <2>1, <3>2 DEF SetStatus, Goto, TaskTypeOK, RowTypeOK
    <3> QED
      BY <1>2, <3>1, <3>2 DEF Begin
  <2>3. Answered(w)' /\ Written(w)'
    BY <2>1, <2>2, Outside DEF Answered, Written
  <2> QED
    BY <1>b, <2>1, <2>3 DEF RunOK
<1>3. ASSUME LoadJob(w) PROVE RunOK(w)'
  <2>1. /\ pc[w] = "load" /\ jvm' = jvm /\ job' = job /\ UNCHANGED <<status, answer>>
        /\ job[w] \in Jobs /\ status[job[w]] = "RUNNING" /\ plan'[w] = answer[job[w]]
    BY <1>0, <1>3, <1>a DEF LoadJob, rowVars, TaskTypeOK, Within, Places, InTry
  <2>2. \/ pc'[w] = "handle" \/ pc'[w] = "check"
        \/ pc'[w] = "ask" /\ answer[job[w]] = NoAnswer
    BY <1>0, <1>3 DEF LoadJob, Raise, Goto, TaskTypeOK
  <2>3. Answered(w)' /\ Written(w)'
    BY <2>1, <2>2, WayOut DEF Answered, Written
  <2> QED
    BY <1>b, <2>1, <2>3 DEF RunOK
<1>4. ASSUME AskLLM(w) PROVE RunOK(w)'
  <2>1. /\ pc[w] = "ask" /\ jvm' = jvm /\ job' = job /\ UNCHANGED <<status, answer>>
        /\ job[w] \in Jobs /\ status[job[w]] = "RUNNING" /\ answer[job[w]] = NoAnswer
    BY <1>0, <1>4, <1>a DEF AskLLM, rowVars, Answered, Within, Places, InTry
  <2>2. pc'[w] \in {"handle", "save"}
    BY <1>0, <1>4 DEF AskLLM, Raise, Goto, TaskTypeOK
  <2>3. Answered(w)' /\ Written(w)'
    BY <2>1, <2>2, WayOut DEF Answered, Written, InTry
  <2> QED
    BY <1>b, <2>1, <2>3 DEF RunOK
<1>5. ASSUME SaveAnswer(w) PROVE RunOK(w)'
  <2>1. /\ pc[w] = "save" /\ jvm' = jvm /\ job' = job /\ status' = status /\ plan' = plan
        /\ job[w] \in Jobs /\ status[job[w]] = "RUNNING"
    BY <1>0, <1>5, <1>a DEF SaveAnswer, sparkVars, Within, Places, InTry
  <2>2. pc'[w] \in {"saved", "check"} /\ answer'[job[w]] = plan[w]
    BY <1>0, <1>5, <2>1 DEF SaveAnswer, Goto, TaskTypeOK, RowTypeOK
  <2>3. Answered(w)' /\ Written(w)'
    BY <2>1, <2>2 DEF Answered, Written, InTry
  <2> QED
    BY <1>b, <2>1, <2>3 DEF RunOK
<1>6. ASSUME CheckCancel(w) PROVE RunOK(w)'
  <2>1. /\ pc[w] \in {"check", "sampled", "saved"} /\ jvm' = jvm /\ job' = job /\ plan' = plan
        /\ UNCHANGED <<status, answer>>
    BY <1>6 DEF CheckCancel, AfterCheck, rowVars
  <2>2. job[w] \in Jobs /\ status[job[w]] = "RUNNING"
    BY <2>1, <1>a DEF Within, Places, InTry
  <2>3. \/ pc'[w] = "handle"
        \/ pc[w] = "check" /\ pc'[w] = "connect"
        \/ pc[w] = "sampled" /\ pc'[w] = "ask"
        \/ pc[w] = "saved" /\ pc'[w] = "launch" /\ act'[w] = "write"
    BY <1>0, <1>6 DEF CheckCancel, AfterCheck, Raise, Goto, TaskTypeOK, SparkTypeOK
  <2>4. pc[w] = "sampled" => answer[job[w]] = NoAnswer
    BY <1>0 DEF Answered
  <2>5. plan[w] = answer[job[w]]
    BY <1>0, <2>1 DEF Answered, InTry
  <2>6. Answered(w)' /\ Written(w)'
    BY <2>1, <2>2, <2>3, <2>4, <2>5, WayOut DEF Answered, Written
  <2> QED
    BY <1>b, <2>1, <2>6 DEF RunOK
<1>7. ASSUME Connect(w) PROVE RunOK(w)'
  <2>1. /\ pc[w] = "connect" /\ jvm' = jvm /\ job' = job /\ plan' = plan
        /\ UNCHANGED <<status, answer>>
        /\ job[w] \in Jobs /\ status[job[w]] = "RUNNING" /\ plan[w] = answer[job[w]]
    BY <1>0, <1>7, <1>a DEF Connect, rowVars, Answered, Within, Places, InTry
  <2>2. pc'[w] = "handle" \/ (pc'[w] = "launch" /\ act'[w] = "source")
    BY <1>0, <1>7 DEF Connect, Raise, Goto, TaskTypeOK, SparkTypeOK
  <2>3. Answered(w)' /\ Written(w)'
    BY <2>1, <2>2, WayOut DEF Answered, Written
  <2> QED
    BY <1>b, <2>1, <2>3 DEF RunOK
<1>8. ASSUME LaunchSpark(w) PROVE RunOK(w)'
  <2>1. /\ pc[w] = "launch" /\ UNCHANGED <<job, plan, act, status, answer>>
        /\ job[w] \in Jobs /\ status[job[w]] = "RUNNING" /\ plan[w] = answer[job[w]]
    BY <1>0, <1>8, <1>a DEF LaunchSpark, rowVars, Answered, Within, Places, InTry
  <2>2. pc'[w] = "running" /\ jvm'[w] = jvm[w] \cup {Call(w)}
    BY <1>0, <1>8 DEF LaunchSpark, Goto, TaskTypeOK, SparkTypeOK
  <2>3. act[w] = "count" => output'[job[w]] = output[job[w]]
    BY <1>0, <1>8, <2>1 DEF LaunchSpark, SparkTypeOK
  <2>4. Answered(w)' /\ Written(w)'
    BY <1>0, <2>1, <2>2, <2>3 DEF Answered, Written
  <2>5. Call(w)' = Call(w)
    BY <2>1 DEF Call
  <2>6. ASSUME NEW x \in jvm'[w] PROVE Accounted(w, x)'
    BY <1>b, <2>1, <2>2, <2>5 DEF Accounted
  <2> QED
    BY <2>4, <2>6 DEF RunOK
<1>9. ASSUME SparkReturns(w) PROVE RunOK(w)'
  <2>1. /\ pc[w] = "running" /\ UNCHANGED <<job, plan, status, answer>>
        /\ job[w] \in Jobs /\ status[job[w]] = "RUNNING" /\ plan[w] = answer[job[w]]
    BY <1>0, <1>9, <1>a DEF SparkReturns, rowVars, Answered, Within, Places, InTry
  <2>2. jvm'[w] = jvm[w] \ {Call(w)}
    BY <1>0, <1>9 DEF SparkReturns, Finish, SparkTypeOK
  <2>3. act[w] \in Acts /\ act'[w] = NextAct(w)
    BY <1>0, <1>9 DEF SparkReturns, SparkTypeOK
  <2>4. ASSUME act[w] = "source" PROVE Answered(w)' /\ Written(w)'
    <3>1. pc'[w] = "launch"
      BY <1>0, <1>9, <2>4 DEF SparkReturns, Goto, TaskTypeOK
    <3>2. act'[w] = "write" \/ (act'[w] = "sample" /\ plan[w] = NoAnswer)
      BY <2>3, <2>4 DEF NextAct
    <3> QED
      BY <2>1, <3>1, <3>2 DEF Answered, Written
  <2>5. ASSUME act[w] = "sample" PROVE Answered(w)' /\ Written(w)'
    <3>1. pc'[w] = "sampled" /\ plan[w] = NoAnswer
      BY <1>0, <1>9, <2>1, <2>5 DEF SparkReturns, Goto, TaskTypeOK, Answered
    <3> QED
      BY <2>1, <3>1 DEF Answered, Written
  <2>6. ASSUME act[w] = "write" PROVE Answered(w)' /\ Written(w)'
    <3>1. pc'[w] = "launch" /\ act'[w] = "count" /\ plan[w] \in Answers
      BY <1>0, <1>9, <2>1, <2>3, <2>6 DEF SparkReturns, Goto, TaskTypeOK, NextAct, Held
    <3>2. Writers(job[w]) = {w}
      <4>1. Call(w) \in jvm[w] /\ Call(w).job = job[w] /\ Call(w).act = "write"
        BY <1>9, <2>6 DEF SparkReturns, Call
      <4>2. w \in Writers(job[w])
        BY <4>1 DEF Writers
      <4>3. pc[w] \in Within
        BY <2>1 DEF Within, Places, InTry
      <4> QED
        BY <4>2, <4>3, OnlyWriter
    <3>3. output'[job[w]] = plan[w]
      <4>1. Finish(w, Call(w)) /\ Call(w).act = "write" /\ Call(w).plan = plan[w]
              /\ Call(w).job = job[w]
        BY <1>9, <2>6 DEF SparkReturns, Call
      <4>2. output' = [output EXCEPT ![job[w]] = plan[w]]
        BY <3>2, <4>1 DEF Finish
      <4> QED
        BY <1>0, <2>1, <4>2 DEF SparkTypeOK
    <3> QED
      BY <2>1, <3>1, <3>3 DEF Answered, Written
  <2>7. ASSUME act[w] = "count" PROVE Answered(w)' /\ Written(w)'
    <3>1. pc'[w] = "succeed" /\ stats'[w] = output[job[w]]
      BY <1>0, <1>9, <2>7 DEF SparkReturns, Goto, TaskTypeOK
    <3>2. output' = output
      BY <1>9, <2>7 DEF SparkReturns, Finish, Call
    <3>3. plan[w] \in Answers /\ output[job[w]] = plan[w]
      BY <1>0, <2>1, <2>7 DEF Written
    <3> QED
      BY <2>1, <3>1, <3>2, <3>3 DEF Answered, Written, InTry
  <2>8. Answered(w)' /\ Written(w)'
    BY <2>3, <2>4, <2>5, <2>6, <2>7 DEF Acts
  <2>9. ASSUME NEW x \in jvm'[w] PROVE Accounted(w, x)'
    BY <2>1, <2>2, LeftOver
  <2> QED
    BY <2>8, <2>9 DEF RunOK
<1>10. ASSUME SparkFails(w) PROVE RunOK(w)'
  <2>1. /\ pc[w] = "running" /\ job' = job /\ status' = status
        /\ status[job[w]] = "RUNNING"
    BY <1>10, <1>a DEF SparkFails, rowVars, Within, Places, InTry
  <2>2. pc'[w] = "handle" /\ jvm'[w] = jvm[w] \ {Call(w)}
    BY <1>0, <1>10 DEF SparkFails, Raise, Goto, TaskTypeOK, SparkTypeOK
  <2> QED
    BY <2>1, <2>2, WayOut, LeftOver DEF RunOK
<1>11. ASSUME MonitorCancels(w) PROVE RunOK(w)'
  <2>1. jvm'[w] = jvm[w] \ SparkOf(w) /\ UNCHANGED <<job, plan, stats, act, status>>
    BY <1>0, <1>11 DEF MonitorCancels, StopSpark, SparkTypeOK, rowVars
  <2>2. CASE pc[w] = "running" /\ Raise(w, "permanent")
    <3>1. pc'[w] = "handle" /\ status[job[w]] = "RUNNING"
      BY <1>0, <2>2, <1>a DEF Raise, Goto, TaskTypeOK, Within, Places, InTry
    <3>2. ASSUME NEW x \in jvm'[w] PROVE Accounted(w, x)'
      <4>1. x \in jvm[w] /\ x.job # job[w]
        BY <2>1 DEF SparkOf
      <4> QED
        BY <4>1, LeftOver DEF Call
    <3> QED
      BY <2>1, <3>1, <3>2, WayOut DEF RunOK
  <2>3. CASE UNCHANGED <<pc, exc>>
    <3>1. Still(w)
      BY <2>1, <2>3 DEF Still
    <3> QED
      BY <3>1, StillSteps
  <2> QED
    BY <1>11, <2>2, <2>3 DEF MonitorCancels
<1>12. ASSUME SoftTimeLimit(w) PROVE RunOK(w)'
  <2>1. /\ pc[w] \in InTry /\ job' = job /\ jvm' = jvm /\ status' = status
        /\ status[job[w]] = "RUNNING"
    BY <1>12, <1>a DEF SoftTimeLimit, rowVars, Within, Places, InTry
  <2>2. pc'[w] = "handle" /\ exc'[w] = "timeout"
    BY <1>0, <1>12 DEF SoftTimeLimit, Raise, Goto, TaskTypeOK
  <2>3. ASSUME NEW x \in jvm'[w] PROVE Accounted(w, x)'
    <3>1. CASE x = Call(w)
      BY <2>1, <2>2, <3>1 DEF Accounted, Call
    <3>2. CASE x # Call(w)
      BY <2>1, <3>2, LeftOver DEF InTry
    <3> QED
      BY <3>1, <3>2
  <2> QED
    BY <2>1, <2>2, <2>3, WayOut DEF RunOK
<1>13. ASSUME HandleFailure(w) PROVE RunOK(w)'
  <2>1. /\ pc[w] = "handle" /\ UNCHANGED <<job, status, flagged>>
        /\ job[w] \in Jobs /\ status[job[w]] = "RUNNING"
    BY <1>13, <1>a DEF HandleFailure, rowVars, Within, Places, InTry
  <2>2. pc'[w] \in {"fail", "retry"}
    BY <1>0, <1>13 DEF HandleFailure, Settle, Goto, TaskTypeOK
  <2>3. ASSUME NEW x \in jvm'[w] PROVE Accounted(w, x)'
    <3>1. CASE x \in jvm[w] /\ x.job # job[w]
      BY <2>1, <3>1, LeftOver
    <3>2. CASE x.job = job[w]
      <4>1. \/ x \in jvm[w] /\ exc[w] # "timeout"
            \/ flagged[job[w]] /\ pc'[w] = "fail"
        <5>1. CASE StopSpark(w)
          BY <1>0, <3>2, <5>1 DEF StopSpark, SparkOf, SparkTypeOK
        <5>2. CASE ~StopSpark(w) /\ jvm' = jvm
          BY <1>0, <1>13, <5>2 DEF HandleFailure, Settle, Goto, TaskTypeOK
        <5> QED
          BY <1>13, <5>1, <5>2 DEF HandleFailure
      <4>2. CASE flagged[job[w]] /\ pc'[w] = "fail"
        BY <2>1, <3>2, <4>2 DEF Accounted
      <4>3. CASE x \in jvm[w] /\ exc[w] # "timeout"
        BY <1>0, <2>1, <3>2, <4>3 DEF Accounted
      <4> QED
        BY <4>1, <4>2, <4>3
    <3>3. x \in jvm[w]
      BY <1>0, <1>13 DEF HandleFailure, StopSpark, SparkTypeOK
    <3> QED
      BY <3>1, <3>2, <3>3
  <2> QED
    BY <2>1, <2>2, <2>3, WayOut DEF RunOK
<1>14. ASSUME RecordFailure(w) PROVE RunOK(w)'
  <2>1. /\ pc[w] = "fail" /\ UNCHANGED <<job, jvm, flagged>>
        /\ job[w] \in Jobs /\ status[job[w]] = "RUNNING"
    BY <1>14, <1>a DEF RecordFailure, sparkVars, Within, Places, InTry
  <2>2. pc'[w] = "ack" /\ status'[job[w]] = "FAILED"
    BY <1>0, <1>14, <2>1 DEF RecordFailure, Goto, Allowed, Sources, SetStatus, TaskTypeOK,
       RowTypeOK
  <2>3. ASSUME NEW x \in jvm'[w] PROVE Accounted(w, x)'
    <3>1. CASE x.job = job[w]
      BY <1>0, <2>1, <2>2, <3>1 DEF Accounted
    <3>2. CASE x.job # job[w]
      BY <2>1, <3>2, LeftOver
    <3> QED
      BY <3>1, <3>2
  <2> QED
    BY <2>2, <2>3, Outside DEF RunOK
<1>15. ASSUME Succeed(w) \/ PublishRetry(w) \/ RetryFails(w) PROVE RunOK(w)'
  <2>1. pc[w] \in {"succeed", "retry"} /\ jvm' = jvm /\ pc'[w] = "ack"
    BY <1>0, <1>15 DEF Succeed, PublishRetry, RetryFails, Goto, TaskTypeOK, sparkVars
  <2> QED
    BY <1>b, <2>1, Outside DEF RunOK
<1>16. ASSUME Ack(w) PROVE RunOK(w)'
  <2>1. pc[w] = "ack" /\ jvm' = jvm /\ pc'[w] = "idle"
    BY <1>0, <1>16 DEF Ack, Leave, Goto, TaskTypeOK
  <2> QED
    BY <1>b, <2>1, Outside DEF RunOK
<1>17. ASSUME Crash(w) PROVE RunOK(w)'
  <2>1. jvm'[w] = {} /\ pc'[w] = "idle"
    BY <1>0, <1>17 DEF Crash, Leave, Goto, TaskTypeOK, SparkTypeOK
  <2> QED
    BY <2>1, Outside DEF RunOK
<1>18. ~LimitEscapes(w)
  BY DEF LimitEscapes, Fault, LimitsHandled
<1> QED
  BY <1>1, <1>2, <1>3, <1>4, <1>5, <1>6, <1>7, <1>8, <1>9, <1>10, <1>11, <1>12, <1>13, <1>14,
     <1>15, <1>16, <1>17, <1>18 DEF Moves, TaskStep, SparkStep

-----------------------------------------------------------------------------
(* Finished jobs *)

LEMMA InRun ==
  ASSUME RunInv, NEW u \in Workers, pc[u] \in Within
  PROVE  job[u] \in Jobs /\ status[job[u]] = "RUNNING"
<1>1. TypeInv /\ Answered(u)
  BY DEF RunInv, RunOK
<1> QED
  BY <1>1, Busy DEF Answered, Within

\* Only the end of its run makes a job a success.
LEMMA Succeeds ==
  ASSUME TypeInv, [Next]_vars, NEW j \in Jobs, status[j] # "SUCCESS", status'[j] = "SUCCESS"
  PROVE  \E u \in Workers : Succeed(u) /\ job[u] = j
<1>0. RowTypeOK
  BY DEF TypeInv, TypeOK
<1>1. CASE UNCHANGED rowVars
  BY <1>1 DEF rowVars
<1>2. ASSUME NEW i \in Jobs, CreateJob(i) \/ CancelJob(i) PROVE FALSE
  BY <1>0, <1>2 DEF CreateJob, CancelJob, SetStatus, RowTypeOK
<1>3. ASSUME NEW i \in Jobs, FlagJob(i) PROVE FALSE
  BY <1>3 DEF FlagJob
<1>4. ASSUME NEW u \in Workers, Begin(u) \/ RecordFailure(u) PROVE FALSE
  BY <1>0, <1>4 DEF Begin, RecordFailure, SetStatus, RowTypeOK
<1>5. ASSUME NEW u \in Workers, SaveAnswer(u) PROVE FALSE
  BY <1>5 DEF SaveAnswer
<1>6. ASSUME NEW u \in Workers, Succeed(u) PROVE job[u] = j
  BY <1>0, <1>6 DEF Succeed, SetStatus, RowTypeOK
<1> QED
  BY <1>1, <1>2, <1>3, <1>4, <1>5, <1>6, RowSteps DEF RowStep

\* Nothing is written for a finished job, in its row or in its output.
LEMMA DoneStays ==
  ASSUME RunInv, [Next]_vars, NEW j \in Jobs, status[j] = "SUCCESS"
  PROVE  UNCHANGED <<status[j], result[j], answer[j], output[j]>>
<1>1. UNCHANGED <<status[j], result[j]>>
  BY Lifecycle DEF RunInv, RowMoves, Terminal
<1>2. ASSUME NEW u \in Workers, job[u] = j PROVE pc[u] \notin Within
  BY <1>2, InRun
<1>3. answer'[j] = answer[j]
  <2>1. ASSUME NEW u \in Workers, job[u] = j PROVE ~SaveAnswer(u)
    BY <1>2, <2>1 DEF SaveAnswer, Within, Places, InTry
  <2> QED
    BY <2>1, AnswerKept DEF RunInv
<1>4. output'[j] = output[j]
  <2>1. ASSUME NEW u \in Workers, job[u] = j
        PROVE  ~LaunchSpark(u) /\ ~SparkReturns(u) /\ pc[u] \notin {"handle", "fail"}
    BY <1>2, <2>1 DEF LaunchSpark, SparkReturns, Within, Places, InTry
  <2> QED
    BY <2>1, OutputKept
<1> QED
  BY <1>1, <1>3, <1>4

\* A run that succeeds leaves in the row what it wrote and counted.
LEMMA SucceedWrites ==
  ASSUME RunInv, NEW u \in Workers, Succeed(u)
  PROVE  /\ job[u] \in Jobs /\ status[job[u]] = "RUNNING" /\ plan[u] \in Answers
         /\ status' = [status EXCEPT ![job[u]] = "SUCCESS"]
         /\ UNCHANGED <<answer, output, flagged>>
         /\ result'[job[u]] = plan[u] /\ answer[job[u]] = plan[u] /\ output[job[u]] = plan[u]
<1>1. RowTypeOK /\ Written(u) /\ pc[u] = "succeed"
  BY DEF RunInv, RunOK, TypeInv, TypeOK, Succeed
<1>2. job[u] \in Jobs /\ status[job[u]] = "RUNNING"
  BY <1>1, InRun DEF Within, Places
<1>3. /\ plan[u] \in Answers /\ plan[u] = answer[job[u]]
      /\ stats[u] = plan[u] /\ output[job[u]] = plan[u]
  BY <1>1 DEF Written
<1>4. Allowed(job[u], "SUCCESS")
  BY <1>2 DEF Allowed, Sources
<1>5. /\ status' = [status EXCEPT ![job[u]] = "SUCCESS"]
      /\ result'[job[u]] = stats[u] /\ UNCHANGED <<answer, output, flagged>>
  BY <1>1, <1>2, <1>4 DEF Succeed, SetStatus, RowTypeOK, sparkVars
<1> QED
  BY <1>2, <1>3, <1>5

LEMMA DoneSteps ==
  ASSUME RunInv, [Next]_vars, NEW j \in Jobs
  PROVE  DoneOK(j)'
<1>1. CASE status[j] = "SUCCESS"
  BY <1>1, DoneStays DEF RunInv, DoneOK
<1>2. CASE status[j] # "SUCCESS" /\ status'[j] = "SUCCESS"
  <2>1. PICK u \in Workers : Succeed(u) /\ job[u] = j
    BY <1>2, Succeeds DEF RunInv
  <2> QED
    BY <2>1, SucceedWrites DEF DoneOK
<1> QED
  BY <1>1, <1>2 DEF DoneOK

LEMMA InitialRuns == Init => RunInv
<1> SUFFICES ASSUME Init PROVE RunInv
  OBVIOUS
<1>1. TypeInv
  BY InitTypeInv
<1>2. ASSUME NEW w \in Workers PROVE RunOK(w)
  <2>1. pc[w] = "idle" /\ jvm[w] = {}
    BY DEF Init
  <2> QED
    BY <2>1 DEF RunOK, Answered, Written, Within, InTry
<1>3. ASSUME NEW j \in Jobs PROVE DoneOK(j)
  BY DEF Init, DoneOK
<1> QED
  BY <1>1, <1>2, <1>3 DEF RunInv

LEMMA RunInvSteps ==
  ASSUME LimitsHandled, RunInv, OneRunAtATime, [Next]_vars
  PROVE  RunInv'
<1>1. TypeInv'
  BY NextTypes DEF RunInv
<1>2. ASSUME NEW w \in Workers PROVE RunOK(w)'
  BY MovesOrStill, MoverSteps, StillSteps DEF RunInv
<1>3. ASSUME NEW j \in Jobs PROVE DoneOK(j)'
  BY DoneSteps
<1> QED
  BY <1>1, <1>2, <1>3 DEF RunInv

-----------------------------------------------------------------------------
(* The theorems *)

\* collect_stats and the overwriting write: while a job has one run at a time, the output,
\* the counts and the answer of a SUCCESS job belong together, and nobody writes there.
THEOREM RowAndOutputMatch ==
  ASSUME LimitsHandled
  PROVE  Spec /\ []OneRunAtATime => []OutputMatchesRow
<1>1. RunInv => OutputMatchesRow
  <2> SUFFICES ASSUME RunInv, NEW j \in Jobs, status[j] = "SUCCESS"
               PROVE  output[j] = result[j] /\ result[j] = answer[j] /\ Writers(j) = {}
    BY DEF OutputMatchesRow
  <2>1. output[j] = result[j] /\ result[j] = answer[j]
    BY DEF RunInv, DoneOK
  <2>2. ASSUME NEW v \in Writers(j) PROVE FALSE
    <3>1. PICK x \in jvm[v] : x.job = j
      BY DEF Writers
    <3>2. v \in Workers /\ Accounted(v, x)
      BY DEF RunInv, RunOK, Writers
    <3>3. {"running", "handle", "fail"} \subseteq Within
      BY DEF Within, Places, InTry
    <3> QED
      BY <3>1, <3>2, <3>3, InRun DEF Accounted, Call
  <2> QED
    BY <2>1, <2>2
<1> QED
  BY <1>1, InitialRuns, RunInvSteps, PTL DEF Spec

\* "a retried job never calls the LLM twice": no run asks for an answer that the row has.
THEOREM NeverAskedTwice ==
  ASSUME LimitsHandled
  PROVE  Spec /\ []OneRunAtATime => []AsksOnlyWithoutAnswer
<1>1. RunInv => AsksOnlyWithoutAnswer
  BY DEF RunInv, RunOK, Answered, AsksOnlyWithoutAnswer
<1> QED
  BY <1>1, InitialRuns, RunInvSteps, PTL DEF Spec

\* _handle_failure and run_transform: a finished job that nobody cancelled leaves no work
\* in any worker's Spark.
THEOREM NothingLeftInSpark ==
  ASSUME LimitsHandled
  PROVE  Spec /\ []OneRunAtATime => []NoOrphanWork
<1>1. RunInv => NoOrphanWork
  <2> SUFFICES ASSUME RunInv, NEW j \in Jobs, status[j] \in Terminal, ~flagged[j],
                      NEW w \in Workers, NEW x \in jvm[w], x.job = j
               PROVE  FALSE
    BY DEF NoOrphanWork, SparkWorksOn
  <2>1. Accounted(w, x)
    BY DEF RunInv, RunOK
  <2>2. {"running", "handle"} \subseteq Within
    BY DEF Within, Places, InTry
  <2> QED
    BY <2>1, <2>2, InRun DEF Accounted, Call, Terminal
<1> QED
  BY <1>1, InitialRuns, RunInvSteps, PTL DEF Spec

-----------------------------------------------------------------------------
(* The contract of the API *)

\* What a client can see of a job changes with its row only.
LEMMA VisibleKept ==
  ASSUME RunInv, [Next]_vars, \A j \in Jobs : status'[j] = "SUCCESS" => status[j] = "SUCCESS"
  PROVE  [j \in Jobs |-> IF status[j] = "SUCCESS" THEN output[j] ELSE NoAnswer]'
           = [j \in Jobs |-> IF status[j] = "SUCCESS" THEN output[j] ELSE NoAnswer]
<1>1. ASSUME NEW j \in Jobs
      PROVE  (IF status'[j] = "SUCCESS" THEN output'[j] ELSE NoAnswer)
               = (IF status[j] = "SUCCESS" THEN output[j] ELSE NoAnswer)
  BY DoneStays
<1> QED
  BY <1>1

\* Each step of the system is a step of the contract, or one its client does not see.
LEMMA ContractSteps ==
  ASSUME RunInv, OneRunAtATime, [Next]_vars
  PROVE  [Contract!Next]_(Contract!vars)
<1>0. TypeInv /\ RowTypeOK
  BY DEF RunInv, TypeInv, TypeOK
<1>1. ASSUME UNCHANGED <<status, flagged>> PROVE UNCHANGED Contract!vars
  BY <1>1, VisibleKept DEF Contract!vars
<1>2. ASSUME NEW j \in Jobs, CreateJob(j) PROVE Contract!Next
  <2>1. /\ status[j] = "NONE" /\ status' = [status EXCEPT ![j] = "QUEUED"] /\ flagged' = flagged
    BY <1>0, <1>2 DEF CreateJob, SetStatus, TypeInv, RowOK, Stored
  <2>2. \A i \in Jobs : status'[i] = "SUCCESS" => status[i] = "SUCCESS"
    BY <1>0, <2>1 DEF RowTypeOK
  <2>3. Contract!Submit(j)
    BY <2>1, <2>2, VisibleKept DEF Contract!Submit, Contract!Move
  <2> QED
    BY <2>3 DEF Contract!Next
<1>3. ASSUME NEW j \in Jobs, CancelJob(j), status[j] = "QUEUED" PROVE Contract!Next
  <2>1. /\ status' = [status EXCEPT ![j] = "FAILED"]
        /\ flagged' = [flagged EXCEPT ![j] = TRUE]
    BY <1>3 DEF CancelJob, SetStatus
  <2>2. \A i \in Jobs : status'[i] = "SUCCESS" => status[i] = "SUCCESS"
    BY <1>0, <2>1 DEF RowTypeOK
  <2>3. Contract!CancelQueued(j)
    BY <1>3, <2>1, <2>2, VisibleKept DEF Contract!CancelQueued, Contract!Move
  <2> QED
    BY <2>3 DEF Contract!Next
<1>4. ASSUME NEW j \in Jobs, CancelJob(j), status[j] # "QUEUED" PROVE UNCHANGED <<status, flagged>>
  BY <1>4 DEF CancelJob
<1>5. ASSUME NEW j \in Jobs, FlagJob(j) PROVE Contract!Next \/ UNCHANGED Contract!vars
  <2>1. status' = status /\ flagged' = [flagged EXCEPT ![j] = @ \/ status[j] = "RUNNING"]
    BY <1>5 DEF FlagJob
  <2>2. CASE status[j] = "RUNNING"
    <3>1. flagged' = [flagged EXCEPT ![j] = TRUE]
      BY <2>1, <2>2
    <3>2. Contract!Flag(j)
      BY <2>1, <2>2, <3>1, VisibleKept DEF Contract!Flag
    <3> QED
      BY <3>2 DEF Contract!Next
  <2>3. CASE status[j] # "RUNNING"
    <3>1. flagged[j] \in BOOLEAN
      BY <1>0 DEF RowTypeOK
    <3>2. flagged' = flagged
      BY <1>0, <2>1, <2>3, <3>1 DEF RowTypeOK
    <3> QED
      BY <1>1, <2>1, <3>2
  <2> QED
    BY <2>2, <2>3
<1>6. ASSUME NEW w \in Workers, Begin(w) PROVE Contract!Next \/ UNCHANGED Contract!vars
  <2>1. job[w] \in Jobs /\ flagged' = flagged
    BY <1>0, <1>6, Busy DEF Begin
  <2>2. CASE UNCHANGED status
    BY <1>1, <2>1, <2>2
  <2>3. CASE Allowed(job[w], "RUNNING") /\ SetStatus(job[w], "RUNNING")
    <3>1. \A i \in Jobs : status'[i] = "SUCCESS" => status[i] = "SUCCESS"
      BY <1>0, <2>1, <2>3 DEF SetStatus, RowTypeOK
    <3>2. CASE status[job[w]] = "QUEUED"
      <4>1. Contract!Start(job[w])
        BY <2>1, <2>3, <3>1, <3>2, VisibleKept DEF Contract!Start, Contract!Move, SetStatus
      <4> QED
        BY <2>1, <4>1 DEF Contract!Next
    <3>3. CASE status[job[w]] = "RUNNING"
      <4>1. status' = status
        BY <1>0, <2>3, <3>3 DEF SetStatus, RowTypeOK
      <4> QED
        BY <1>1, <2>1, <4>1
    <3> QED
      BY <2>3, <3>2, <3>3 DEF Allowed, Sources
  <2> QED
    BY <1>6, <2>2, <2>3 DEF Begin
<1>7. ASSUME NEW w \in Workers, SaveAnswer(w) PROVE UNCHANGED <<status, flagged>>
  BY <1>7 DEF SaveAnswer
<1>8. ASSUME NEW w \in Workers, Succeed(w) PROVE Contract!Next
  <2>1. PICK j \in Jobs : j = job[w]
    BY <1>8, SucceedWrites
  <2>2. /\ status[j] = "RUNNING" /\ plan[w] \in Answers
        /\ status' = [status EXCEPT ![j] = "SUCCESS"]
        /\ UNCHANGED <<output, flagged>> /\ output[j] = plan[w]
    BY <1>8, <2>1, SucceedWrites
  <2>3. \A i \in Jobs : status'[i] = IF i = j THEN "SUCCESS" ELSE status[i]
    BY <1>0, <2>2 DEF RowTypeOK
  <2>4. [i \in Jobs |-> IF status[i] = "SUCCESS" THEN output[i] ELSE NoAnswer]'
          = [[i \in Jobs |-> IF status[i] = "SUCCESS" THEN output[i] ELSE NoAnswer]
               EXCEPT ![j] = plan[w]]
    BY <2>2, <2>3
  <2>5. Contract!Succeed(j)
    BY <2>2, <2>4 DEF Contract!Succeed, Contract!Move
  <2> QED
    BY <2>5 DEF Contract!Next
<1>9. ASSUME NEW w \in Workers, RecordFailure(w) PROVE Contract!Next
  <2>1. job[w] \in Jobs /\ status[job[w]] = "RUNNING" /\ flagged' = flagged
    BY <1>9, InRun DEF RecordFailure, Within, Places
  <2>2. status' = [status EXCEPT ![job[w]] = "FAILED"]
    BY <1>9, <2>1 DEF RecordFailure, Allowed, Sources, SetStatus
  <2>3. \A i \in Jobs : status'[i] = "SUCCESS" => status[i] = "SUCCESS"
    BY <1>0, <2>1, <2>2 DEF RowTypeOK
  <2>4. Contract!Fail(job[w])
    BY <2>1, <2>2, <2>3, VisibleKept DEF Contract!Fail, Contract!Move
  <2> QED
    BY <2>1, <2>4 DEF Contract!Next
<1>10. CASE UNCHANGED rowVars
  BY <1>1, <1>10 DEF rowVars
<1> QED
  BY <1>1, <1>2, <1>3, <1>4, <1>5, <1>6, <1>7, <1>8, <1>9, <1>10, RowSteps DEF RowStep

\* README "How a job runs": to the client of the API the system is the contract, and a
\* result appears once and never changes.
THEOREM KeepsContract ==
  ASSUME LimitsHandled
  PROVE  Spec /\ []OneRunAtATime => ImplementsContract
<1>1. Init => Contract!Init
  <2> SUFFICES ASSUME Init PROVE Contract!Init
    OBVIOUS
  <2>1. \A j \in Jobs : status[j] = "NONE"
    BY DEF Init
  <2>2. [j \in Jobs |-> IF status[j] = "SUCCESS" THEN output[j] ELSE NoAnswer]
          = [j \in Jobs |-> NoAnswer]
    BY <2>1
  <2> QED
    BY <2>2 DEF Init, Contract!Init
<1> QED
  BY <1>1, InitialRuns, RunInvSteps, ContractSteps, PTL DEF Spec, ImplementsContract,
     Contract!Spec

\* "a finished job's result never changes" (JobContract): once a job is SUCCESS no step of
\* any worker touches its status, counts, answer or rows, late runs and retries included.
ResultsStay ==
    [][\A j \in Jobs : status[j] = "SUCCESS" =>
          UNCHANGED <<status[j], result[j], answer[j], output[j]>>]_vars

THEOREM ResultsNeverChange ==
  ASSUME LimitsHandled
  PROVE  Spec /\ []OneRunAtATime => ResultsStay
<1>1. RunInv /\ [Next]_vars =>
        [\A j \in Jobs : status[j] = "SUCCESS" =>
            UNCHANGED <<status[j], result[j], answer[j], output[j]>>]_vars
  BY DoneStays
<1> QED
  BY <1>1, InitialRuns, RunInvSteps, PTL DEF Spec, ResultsStay

-----------------------------------------------------------------------------
(* When a job has one run at a time *)

\* There is one worker process.
OneWorker == \A v, w \in Workers : v = w

\* No message is given out a second time.
NoRepeats == Faults \cap {"crash", "redeliver"} = {}

\* The worker has a message of the job, and has not finished with it.
Holds(w, j) == job[w] = j /\ pc[w] \notin {"idle", "ack"}

\* A job has at most one message, waiting or held.
OneMessage(j) ==
    /\ submit[j] # "done" =>
         (\A r \in Tries : queue[j][r] = 0) /\ (\A w \in Workers : ~Holds(w, j))
    /\ \A r \in Tries : queue[j][r] <= 1
    /\ \A r, s \in Tries : queue[j][r] > 0 /\ queue[j][s] > 0 => r = s
    /\ \A r \in Tries, w \in Workers : queue[j][r] > 0 => ~Holds(w, j)
    /\ \A v, w \in Workers : Holds(v, j) /\ Holds(w, j) => v = w

MessageInv == \A j \in Jobs : OneMessage(j)

\* The steps that send, take or drop a message, and those of submit_job.
BrokerMove ==
    \/ \E j \in Jobs : CreateJob(j) \/ EnqueueJob(j) \/ EnqueueFails(j)
    \/ \E j \in Jobs, r \in Tries : DropRevoked(j, r)
    \/ \E w \in Workers, j \in Jobs, r \in Tries : Receive(w, j, r)
    \/ \E w \in Workers : PublishRetry(w)

LEMMA BrokerMoves ==
  ASSUME NoRepeats, [Next]_vars
  PROVE  BrokerMove \/ UNCHANGED <<queue, submit>>
<1>1. ASSUME NEW j \in Jobs, ApiStep(j) PROVE BrokerMove \/ UNCHANGED <<queue, submit>>
  BY <1>1 DEF ApiStep, BrokerMove, CancelJob, FlagJob, ConfirmFlag, RevokeJob, brokerVars
<1>2. ASSUME NEW w \in Workers, WorkerStep(w) PROVE BrokerMove \/ UNCHANGED <<queue, submit>>
  <2>1. ASSUME TaskStep(w) PROVE BrokerMove \/ UNCHANGED <<queue, submit>>
    BY <2>1 DEF TaskStep, BrokerMove, Begin, LoadJob, AskLLM, SaveAnswer, CheckCancel, Connect,
       LaunchSpark, Succeed, HandleFailure, RecordFailure, RetryFails, Ack, brokerVars, apiVars
  <2>2. ASSUME SparkStep(w) PROVE UNCHANGED <<queue, submit>>
    BY <2>2 DEF SparkStep, SparkReturns, SparkFails, MonitorCancels, SoftTimeLimit, brokerVars,
       apiVars
  <2>3. ASSUME OrphanEnds(w) \/ LimitEscapes(w) PROVE UNCHANGED <<queue, submit>>
    BY <2>3 DEF OrphanEnds, LimitEscapes, brokerVars, apiVars
  <2>4. ~Redeliver(w) /\ ~Crash(w)
    BY DEF Redeliver, Crash, Fault, NoRepeats
  <2> QED
    BY <1>2, <2>1, <2>2, <2>3, <2>4 DEF WorkerStep
<1>3. CASE UNCHANGED vars
  BY <1>3 DEF vars, brokerVars, apiVars
<1> QED
  BY <1>1, <1>2, <1>3 DEF Next, BrokerMove, ReceiveJob

\* A worker comes to hold a message by receiving it.
LEMMA HeldByReceipt ==
  ASSUME TypeInv, [Next]_vars, NEW w \in Workers, NEW j \in Jobs, Holds(w, j)', ~Holds(w, j)
  PROVE  \E r \in Tries : Receive(w, j, r)
<1>0. TaskTypeOK
  BY DEF TypeInv, TypeOK
<1>1. ~Still(w)
  BY DEF Still, Holds
<1>2. CASE pc'[w] # "begin"
  BY <1>2, RunSteps DEF RunMoves, Holds
<1>3. CASE pc'[w] = "begin"
  <2>1. ASSUME NEW i \in Jobs, NEW r \in Tries, Receive(w, i, r) PROVE i = j
    BY <1>0, <2>1 DEF Receive, Holds, TaskTypeOK
  <2>2. ASSUME TaskStep(w) PROVE FALSE
    <3>1. ASSUME Begin(w) \/ LoadJob(w) \/ AskLLM(w) \/ Connect(w) PROVE FALSE
      BY <1>0, <1>3, <3>1 DEF Begin, LoadJob, AskLLM, Connect, Raise, Goto, TaskTypeOK
    <3>2. ASSUME SaveAnswer(w) \/ LaunchSpark(w) \/ Succeed(w) \/ RecordFailure(w) PROVE FALSE
      BY <1>0, <1>3, <3>2 DEF SaveAnswer, LaunchSpark, Succeed, RecordFailure, Goto, TaskTypeOK
    <3>3. ASSUME CheckCancel(w) PROVE FALSE
      BY <1>0, <1>3, <3>3 DEF CheckCancel, AfterCheck, Raise, Goto, TaskTypeOK
    <3>4. ASSUME HandleFailure(w) \/ PublishRetry(w) \/ RetryFails(w) PROVE FALSE
      BY <1>0, <1>3, <3>4 DEF HandleFailure, Settle, PublishRetry, RetryFails, Goto, TaskTypeOK
    <3>5. ASSUME Ack(w) PROVE FALSE
      BY <1>0, <1>3, <3>5 DEF Ack, Leave, Goto, TaskTypeOK
    <3> QED
      BY <2>2, <3>1, <3>2, <3>3, <3>4, <3>5 DEF TaskStep
  <2>3. ASSUME SparkReturns(w) \/ SparkFails(w) \/ SoftTimeLimit(w) PROVE FALSE
    BY <1>0, <1>3, <2>3 DEF SparkReturns, SparkFails, SoftTimeLimit, Raise, Goto, TaskTypeOK
  <2>4. ASSUME MonitorCancels(w) PROVE FALSE
    BY <1>0, <1>3, <2>4 DEF MonitorCancels, Raise, Goto, TaskTypeOK, Holds
  <2>5. ASSUME Crash(w) \/ LimitEscapes(w) PROVE FALSE
    BY <1>0, <1>3, <2>5 DEF Crash, LimitEscapes, Leave, Goto, TaskTypeOK
  <2> QED
    BY <1>1, <2>1, <2>2, <2>3, <2>4, <2>5, MovesOrStill DEF Moves, SparkStep
<1> QED
  BY <1>2, <1>3

LEMMA MessageSteps ==
  ASSUME NoRepeats, TypeInv, MessageInv, [Next]_vars, NEW j \in Jobs
  PROVE  OneMessage(j)'
<1>0. OneMessage(j) /\ TaskTypeOK /\ BrokerTypeOK /\ ApiTypeOK
  BY DEF MessageInv, TypeInv, TypeOK
<1>q. \A r \in Tries : queue[j][r] \in Nat
  BY <1>0 DEF BrokerTypeOK
<1>k. ASSUME queue'[j] = queue[j], submit'[j] = "done" => submit[j] = "done",
             \A r \in Tries, w \in Workers : ~Receive(w, j, r),
             submit[j] = "done" => submit'[j] = "done"
      PROVE  OneMessage(j)'
  <2>1. \A w \in Workers : Holds(w, j)' => Holds(w, j)
    BY <1>k, HeldByReceipt
  <2> QED
    BY <1>0, <1>k, <2>1 DEF OneMessage
<1>r. ASSUME NEW w \in Workers, NEW i \in Jobs, NEW r \in Tries, Receive(w, i, r), i # j
      PROVE  \A v \in Workers, s \in Tries : ~Receive(v, j, s)
  <2>1. job'[w] = i /\ pc'[w] # pc[w]
    BY <1>0, <1>r DEF Receive, Goto, TaskTypeOK
  <2>2. ASSUME NEW v \in Workers, NEW s \in Tries, Receive(v, j, s) PROVE FALSE
    BY <1>0, <1>r, <2>1, <2>2 DEF Receive, Goto, TaskTypeOK
  <2> QED
    BY <2>2
<1>1. ASSUME NEW i \in Jobs, CreateJob(i) \/ EnqueueFails(i) PROVE OneMessage(j)'
  <2>1. queue' = queue /\ pc' = pc
    BY <1>1 DEF CreateJob, EnqueueFails, brokerVars, taskVars
  <2>2. submit'[j] = "done" <=> submit[j] = "done"
    BY <1>0, <1>1 DEF CreateJob, EnqueueFails, ApiTypeOK
  <2>3. \A r \in Tries, w \in Workers : ~Receive(w, j, r)
    BY <1>0, <2>1 DEF Receive, Goto, TaskTypeOK
  <2> QED
    BY <1>k, <2>1, <2>2, <2>3
<1>2. ASSUME NEW i \in Jobs, EnqueueJob(i) PROVE OneMessage(j)'
  <2>1. pc' = pc /\ job' = job
    BY <1>2 DEF EnqueueJob, taskVars
  <2>2. CASE i # j
    <3>1. queue'[j] = queue[j] /\ submit'[j] = submit[j]
      BY <1>0, <1>2, <2>2 DEF EnqueueJob, Publish, BrokerTypeOK, ApiTypeOK
    <3>2. \A r \in Tries, w \in Workers : ~Receive(w, j, r)
      BY <1>0, <2>1 DEF Receive, Goto, TaskTypeOK
    <3> QED
      BY <1>k, <3>1, <3>2
  <2>3. CASE i = j
    <3>1. (\A r \in Tries : queue[j][r] = 0) /\ (\A w \in Workers : ~Holds(w, j))
      BY <1>0, <1>2, <2>3 DEF EnqueueJob, OneMessage
    <3>2. \A r \in Tries : queue'[j][r] = IF r = 0 THEN 1 ELSE 0
      BY <1>0, <1>2, <2>3, <3>1 DEF EnqueueJob, Publish, BrokerTypeOK
    <3>3. submit'[j] = "done"
      BY <1>0, <1>2, <2>3 DEF EnqueueJob, ApiTypeOK
    <3>4. \A w \in Workers : ~Holds(w, j)'
      BY <2>1, <3>1 DEF Holds
    <3>5. \A r \in Tries : queue'[j][r] <= 1 /\ (queue'[j][r] > 0 => r = 0)
      BY <3>2
    <3> QED
      BY <3>3, <3>4, <3>5 DEF OneMessage
  <2> QED
    BY <2>2, <2>3
<1>3. ASSUME NEW i \in Jobs, NEW r \in Tries, DropRevoked(i, r) PROVE OneMessage(j)'
  <2>1. pc' = pc /\ job' = job /\ submit' = submit
    BY <1>3 DEF DropRevoked, taskVars, apiVars
  <2>2. \A s \in Tries : queue'[j][s] <= queue[j][s]
    BY <1>0, <1>3, <1>q DEF DropRevoked, BrokerTypeOK
  <2>3. \A s \in Tries : queue'[j][s] \in Nat
    BY <1>0, <1>3, <1>q DEF DropRevoked, BrokerTypeOK
  <2>4. \A w \in Workers : Holds(w, j)' <=> Holds(w, j)
    BY <2>1 DEF Holds
  <2>5. \A s \in Tries : /\ queue'[j][s] > 0 => queue[j][s] > 0
                         /\ queue[j][s] <= 1 => queue'[j][s] <= 1
                         /\ queue[j][s] = 0 => queue'[j][s] = 0
    BY <1>q, <2>2, <2>3
  <2> QED
    BY <1>0, <2>1, <2>4, <2>5 DEF OneMessage
<1>4. ASSUME NEW w \in Workers, NEW i \in Jobs, NEW r \in Tries, Receive(w, i, r)
      PROVE  OneMessage(j)'
  <2>1. submit' = submit
    BY <1>4 DEF Receive, apiVars
  <2>2. CASE i # j
    <3>1. queue'[j] = queue[j]
      BY <1>0, <1>4, <2>2 DEF Receive, BrokerTypeOK
    <3> QED
      BY <1>k, <1>r, <1>4, <2>1, <2>2, <3>1
  <2>3. CASE i = j
    <3>1. queue[j][r] > 0 /\ submit[j] = "done" /\ \A v \in Workers : ~Holds(v, j)
      BY <1>0, <1>4, <2>3, <1>q DEF Receive, OneMessage
    <3>2. \A s \in Tries : s # r => queue[j][s] = 0
      BY <1>0, <3>1, <1>q DEF OneMessage
    <3>3. queue[j][r] = 1
      BY <1>0, <3>1, <1>q DEF OneMessage
    <3>4. \A s \in Tries : queue'[j][s] = 0
      BY <1>0, <1>4, <2>3, <3>2, <3>3 DEF Receive, BrokerTypeOK
    <3>5. \A v \in Workers : v # w => pc'[v] = pc[v] /\ job'[v] = job[v]
      BY <1>0, <1>4 DEF Receive, Goto, TaskTypeOK
    <3>6. \A v \in Workers : Holds(v, j)' => v = w
      BY <3>1, <3>5 DEF Holds
    <3>7. \A s \in Tries : queue'[j][s] <= 1 /\ ~(queue'[j][s] > 0)
      BY <3>4
    <3> QED
      BY <2>1, <3>1, <3>6, <3>7 DEF OneMessage
  <2> QED
    BY <2>2, <2>3
<1>5. ASSUME NEW w \in Workers, PublishRetry(w) PROVE OneMessage(j)'
  <2>1. /\ pc[w] = "retry" /\ pc'[w] = "ack" /\ job' = job /\ submit' = submit
        /\ job[w] \in Jobs
        /\ \A v \in Workers : v # w => pc'[v] = pc[v]
    BY <1>0, <1>5, Busy DEF PublishRetry, Goto, TaskTypeOK, apiVars
  <2>2. \A v \in Workers, s \in Tries : ~Receive(v, j, s)
    BY <1>0, <2>1 DEF Receive, Goto, TaskTypeOK
  <2>3. CASE job[w] # j
    <3>1. queue'[j] = queue[j]
      BY <1>0, <1>5, <2>1, <2>3 DEF PublishRetry, Publish, BrokerTypeOK
    <3> QED
      BY <1>k, <2>1, <2>2, <3>1
  <2>4. CASE job[w] = j
    <3>1. Holds(w, j)
      BY <2>1, <2>4 DEF Holds
    <3>2. submit[j] = "done" /\ \A s \in Tries : queue[j][s] = 0
      BY <1>0, <1>q, <3>1 DEF OneMessage
    <3>3. \A s \in Tries : queue'[j][s] = IF s = tries[w] + 1 THEN 1 ELSE 0
      BY <1>0, <1>5, <2>4, <3>2 DEF PublishRetry, Publish, BrokerTypeOK
    <3>4. \A s \in Tries : queue'[j][s] <= 1 /\ (queue'[j][s] > 0 => s = tries[w] + 1)
      BY <3>3
    <3>5. \A v \in Workers : ~Holds(v, j)'
      BY <1>0, <2>1, <3>1 DEF OneMessage, Holds
    <3> QED
      BY <2>1, <3>2, <3>4, <3>5 DEF OneMessage
  <2> QED
    BY <2>3, <2>4
<1>6. CASE UNCHANGED <<queue, submit>>
  <2>1. \A v \in Workers, s \in Tries : ~Receive(v, j, s)
    BY <1>0, <1>6 DEF Receive, BrokerTypeOK
  <2> QED
    BY <1>k, <1>6, <2>1
<1> QED
  BY <1>1, <1>2, <1>3, <1>4, <1>5, <1>6, BrokerMoves DEF BrokerMove

\* A job has one run at a time where there is one worker, or where no crash and no
\* visibility timeout gives its message out again.
THEOREM RunsTakeTurns ==
  ASSUME OneWorker \/ NoRepeats
  PROVE  Spec => []OneRunAtATime
<1>1. CASE OneWorker
  <2>1. OneRunAtATime
    BY <1>1 DEF OneWorker, OneRunAtATime
  <2> QED
    BY <2>1, PTL
<1>2. CASE NoRepeats
  <2>1. Init => TypeInv /\ MessageInv
    <3> SUFFICES ASSUME Init PROVE TypeInv /\ MessageInv
      OBVIOUS
    <3>1. ASSUME NEW j \in Jobs PROVE OneMessage(j)
      <4>1. submit[j] = "new" /\ \A r \in Tries : queue[j][r] = 0
        BY DEF Init
      <4>2. \A w \in Workers : pc[w] = "idle"
        BY DEF Init
      <4>3. \A r \in Tries : queue[j][r] <= 1 /\ ~(queue[j][r] > 0)
        BY <4>1
      <4> QED
        BY <4>1, <4>2, <4>3 DEF OneMessage, Holds
    <3> QED
      BY <3>1, InitTypeInv DEF MessageInv
  <2>2. TypeInv /\ MessageInv /\ [Next]_vars => (TypeInv /\ MessageInv)'
    BY <1>2, NextTypes, MessageSteps DEF MessageInv
  <2>3. TypeInv /\ MessageInv => OneRunAtATime
    <3> SUFFICES ASSUME TypeInv, MessageInv, NEW v \in Workers, NEW w \in Workers, v # w,
                        pc[v] \in Within, pc[w] \in Within, job[v] = job[w]
                 PROVE  FALSE
      BY DEF OneRunAtATime
    <3>1. job[v] \in Jobs /\ pc[v] \notin {"idle", "ack"} /\ pc[w] \notin {"idle", "ack"}
      BY Busy DEF Within
    <3>2. OneMessage(job[v])
      BY <3>1 DEF MessageInv
    <3> QED
      BY <3>1, <3>2 DEF OneMessage, Holds
  <2> QED
    BY <2>1, <2>2, <2>3, PTL DEF Spec
<1> QED
  BY <1>1, <1>2

\* A deployment whose worker has one slot, or whose broker and processes do not fail,
\* keeps all of this: nothing is asked of the behaviour any more.
THEOREM OneRunSystem ==
  ASSUME LimitsHandled, OneWorker \/ NoRepeats
  PROVE  Spec => /\ [](OutputMatchesRow /\ AsksOnlyWithoutAnswer /\ NoOrphanWork)
                 /\ ResultsStay
                 /\ ImplementsContract
BY RunsTakeTurns, RowAndOutputMatch, NeverAskedTwice, NothingLeftInSpark, ResultsNeverChange,
   KeepsContract, PTL
=============================================================================
