-------------------------- MODULE JobSystemProofs --------------------------
(* What holds of JobSystem for every set of jobs and workers and every retry limit. *)
EXTENDS JobSystem, TLAPS

\* What a task holds at each place of run_job, needed to type what it writes.
Held(w) ==
    /\ pc[w] # "idle" => job[w] \in Jobs /\ status[job[w]] # "NONE"
    /\ pc[w] = "fail" => exc[w] \in Codes
    /\ pc[w] \in {"save", "saved"} => plan[w] \in Answers
    /\ pc[w] \in {"check", "connect", "launch", "running"} /\ kind[job[w]] # "spec"
         => plan[w] \in Answers
    /\ pc[w] \in {"launch", "running"} /\ act[w] = "write" => plan[w] \in Answers
    /\ \A x \in jvm[w] : x.act = "write" => x.plan \in Answers
    /\ monitor[w] # "off" => pc[w] # "idle"

TaskOK == \A w \in Workers : Held(w)

\* A user's own pattern is on the row from the start; only stored jobs have messages.
Stored(j) ==
    /\ kind[j] = "pattern" /\ status[j] # "NONE" => answer[j] \in Answers
    /\ status[j] = "NONE" <=> submit[j] = "new"
    /\ \A r \in Tries : queue[j][r] > 0 => status[j] # "NONE"

RowOK == \A j \in Jobs : Stored(j)

TypeInv == TypeOK /\ TaskOK /\ RowOK

LEMMA Bounds == MaxFaults \in Nat /\ MaxRetries \in Nat
  BY JobSystemAssumption

LEMMA FaultTypes ==
  ASSUME faults \in 0..MaxFaults, NEW f, Fault(f)
  PROVE  faults' \in 0..MaxFaults
  BY Bounds DEF Fault

LEMMA InitTypeInv == Init => TypeInv
<1> SUFFICES ASSUME Init PROVE TypeInv
  OBVIOUS
<1>1. RowTypeOK
  <2>1. kind \in [Jobs -> JobKinds]
    BY JobSystemAssumption DEF Init
  <2> QED
    BY <2>1 DEF Init, RowTypeOK, Outputs
<1>2. ApiTypeOK
  BY DEF Init, ApiTypeOK
<1>3. BrokerTypeOK
  <2>1. faults \in 0..MaxFaults
    <3>1. faults = 0
      BY DEF Init
    <3> QED
      BY <3>1, Bounds
  <2> QED
    BY <2>1 DEF Init, BrokerTypeOK
<1>4. TaskTypeOK
  <2>1. 0 \in Tries
    BY JobSystemAssumption DEF Tries
  <2> QED
    BY <2>1 DEF Init, TaskTypeOK, Places, Outputs
<1>5. SparkTypeOK
  BY DEF Init, SparkTypeOK, Acts, Outputs
<1>6. TaskOK
  BY DEF Init, TaskOK, Held
<1>7. RowOK
  <2>1. \A j \in Jobs, r \in Tries : queue[j][r] = 0
    BY DEF Init
  <2>2. \A j \in Jobs : status[j] = "NONE" /\ submit[j] = "new"
    BY DEF Init
  <2>3. \A j \in Jobs, r \in Tries : ~(queue[j][r] > 0)
    BY <2>1
  <2> QED
    BY <2>2, <2>3, ZenonT(20) DEF RowOK, Stored
<1> QED
  BY <1>1, <1>2, <1>3, <1>4, <1>5, <1>6, <1>7 DEF TypeInv, TypeOK

\* What an action leaves alone stays typed.
LEMMA Frame ==
  ASSUME TypeInv
  PROVE  /\ UNCHANGED rowVars => RowTypeOK'
         /\ UNCHANGED apiVars => ApiTypeOK'
         /\ UNCHANGED <<brokerVars, faults>> => BrokerTypeOK'
         /\ UNCHANGED taskVars => TaskTypeOK'
         /\ UNCHANGED sparkVars => SparkTypeOK'
         /\ UNCHANGED <<status, kind, pc, job, plan, exc, act, jvm, monitor>> => TaskOK'
         /\ UNCHANGED <<status, kind, answer, queue, submit>> => RowOK'
<1> USE DEF TypeInv, TypeOK
<1>1. UNCHANGED rowVars => RowTypeOK'
  BY DEF RowTypeOK, rowVars
<1>2. UNCHANGED apiVars => ApiTypeOK'
  BY DEF ApiTypeOK, apiVars
<1>3. UNCHANGED <<brokerVars, faults>> => BrokerTypeOK'
  BY DEF BrokerTypeOK, brokerVars
<1>4. UNCHANGED taskVars => TaskTypeOK'
  BY DEF TaskTypeOK, taskVars
<1>5. UNCHANGED sparkVars => SparkTypeOK'
  BY DEF SparkTypeOK, sparkVars
<1>6. UNCHANGED <<status, kind, pc, job, plan, exc, act, jvm, monitor>> => TaskOK'
  BY DEF TaskOK, Held
<1>7. UNCHANGED <<status, kind, answer, queue, submit>> => RowOK'
  BY DEF RowOK, Stored
<1> QED
  BY <1>1, <1>2, <1>3, <1>4, <1>5, <1>6, <1>7

\* A task that an action leaves alone still holds what its place needs.
LEMMA Others ==
  ASSUME TypeInv, NEW v \in Workers, UNCHANGED <<kind, pc[v], job[v], plan[v], exc[v], act[v], jvm[v],
                                     monitor[v]>>,
         \A j \in Jobs : status[j] # "NONE" => status'[j] # "NONE"
  PROVE  Held(v)'
  BY DEF TypeInv, TaskOK, Held

\* A task on its way to _handle_failure needs no more than its job.
LEMMA Raised ==
  ASSUME TypeInv, NEW w \in Workers, pc[w] # "idle", pc'[w] = "handle", UNCHANGED <<status, kind, job>>,
         jvm'[w] \subseteq jvm[w]
  PROVE  Held(w)'
<1>1. Held(w)
  BY DEF TypeInv, TaskOK
<1>2. job'[w] \in Jobs /\ status'[job'[w]] # "NONE"
  BY <1>1 DEF Held
<1>3. \A x \in jvm'[w] : x.act = "write" => x.plan \in Answers
  BY <1>1 DEF Held
<1> QED
  BY <1>2, <1>3 DEF Held

\* A change of a stored job's status leaves the rest of its row as good as it was.
LEMMA StoredStays ==
  ASSUME TypeInv, NEW i \in Jobs, UNCHANGED <<kind, answer, queue, submit>>,
         status'[i] # "NONE" <=> status[i] # "NONE"
  PROVE  Stored(i)'
  BY DEF TypeInv, RowOK, Stored

LEMMA Busy ==
  ASSUME TypeInv, NEW w \in Workers, pc[w] # "idle"
  PROVE  /\ job[w] \in Jobs
         /\ status[job[w]] \in {"QUEUED", "RUNNING"} \cup Terminal
         /\ answer[job[w]] \in Answers \cup {NoAnswer}
         /\ kind[job[w]] \in JobKinds
         /\ kind[job[w]] = "pattern" => answer[job[w]] \in Answers
         /\ output[job[w]] \in Outputs
         /\ tries[w] \in Tries
<1>1. job[w] \in Jobs /\ status[job[w]] # "NONE"
  BY DEF TypeInv, TaskOK, Held
<1>2. RowTypeOK /\ TaskTypeOK /\ SparkTypeOK
  BY DEF TypeInv, TypeOK
<1>3. status[job[w]] \in {"QUEUED", "RUNNING"} \cup Terminal
  BY <1>1, <1>2 DEF RowTypeOK
<1>4. answer[job[w]] \in Answers \cup {NoAnswer} /\ kind[job[w]] \in JobKinds
  BY <1>1, <1>2 DEF RowTypeOK
<1>5. kind[job[w]] = "pattern" => answer[job[w]] \in Answers
  BY <1>1 DEF TypeInv, RowOK, Stored
<1>6. output[job[w]] \in Outputs
  BY <1>1, <1>2 DEF SparkTypeOK
<1>7. tries[w] \in Tries
  BY <1>2 DEF TaskTypeOK
<1> QED
  BY <1>1, <1>3, <1>4, <1>5, <1>6, <1>7

LEMMA PublishTypes ==
  ASSUME BrokerTypeOK, NEW j \in Jobs, NEW r, Publish(j, r)
  PROVE  queue' \in [Jobs -> [Tries -> Nat]]
<1>1. queue[j] \in [Tries -> Nat]
  BY DEF BrokerTypeOK
<1>2. [queue[j] EXCEPT ![r] = @ + 1] \in [Tries -> Nat]
  <2>1. CASE r \in Tries
    BY <1>1, <2>1
  <2>2. CASE r \notin Tries
    BY <1>1, <2>2
  <2> QED
    BY <2>1, <2>2
<1> QED
  BY <1>2 DEF BrokerTypeOK, Publish

LEMMA CreateJobTypes ==
  ASSUME TypeInv, NEW j \in Jobs, CreateJob(j)
  PROVE  TypeInv'
<1> USE DEF CreateJob
<1>1. TypeOK
  BY DEF TypeInv
<1>2. RowTypeOK'
  BY <1>1 DEF TypeOK, RowTypeOK, TaskTypeOK, SetStatus
<1>3. ApiTypeOK'
  BY <1>1 DEF TypeOK, ApiTypeOK, SetStatus
<1>4. TaskOK'
  <2>1. ASSUME NEW v \in Workers PROVE Held(v)'
    BY <1>1, Others DEF TypeOK, RowTypeOK, SetStatus, rowVars, taskVars, sparkVars
  <2> QED
    BY <2>1 DEF TaskOK
<1>5. RowOK'
  <2>1. ASSUME NEW i \in Jobs PROVE Stored(i)'
    BY <1>1 DEF TypeInv, RowOK, Stored, TypeOK, RowTypeOK, ApiTypeOK, BrokerTypeOK,
       SetStatus, rowVars, apiVars, brokerVars
  <2> QED
    BY <2>1 DEF RowOK
<1> QED
  BY Frame, <1>2, <1>3, <1>4, <1>5 DEF TypeInv, TypeOK, rowVars, brokerVars, apiVars,
     taskVars, sparkVars

LEMMA PublishWhere ==
  ASSUME BrokerTypeOK, NEW j \in Jobs, NEW r, Publish(j, r), NEW i \in Jobs, NEW t \in Tries,
         queue'[i][t] > 0
  PROVE  i = j \/ queue[i][t] > 0
  BY DEF BrokerTypeOK, Publish

LEMMA EnqueueJobTypes ==
  ASSUME TypeInv, NEW j \in Jobs, EnqueueJob(j)
  PROVE  TypeInv'
<1> USE DEF EnqueueJob
<1>1. TypeOK
  BY DEF TypeInv
<1>2. ApiTypeOK'
  BY <1>1 DEF TypeOK, ApiTypeOK, Publish
<1>3. BrokerTypeOK'
  BY <1>1, PublishTypes DEF TypeOK, BrokerTypeOK, brokerVars
<1>4. RowOK'
  <2>1. ASSUME NEW i \in Jobs PROVE Stored(i)'
    BY <1>1 DEF TypeInv, RowOK, Stored, TypeOK, RowTypeOK, ApiTypeOK, BrokerTypeOK, Publish,
       rowVars, apiVars, brokerVars
  <2> QED
    BY <2>1 DEF RowOK
<1> QED
  BY Frame, <1>2, <1>3, <1>4 DEF TypeInv, TypeOK, rowVars, brokerVars, apiVars, taskVars,
     sparkVars

LEMMA EnqueueFailsTypes ==
  ASSUME TypeInv, NEW j \in Jobs, EnqueueFails(j)
  PROVE  TypeInv'
<1> USE DEF EnqueueFails
<1>1. TypeOK
  BY DEF TypeInv
<1>2. ApiTypeOK'
  BY <1>1 DEF TypeOK, ApiTypeOK, Fault
<1>3. BrokerTypeOK'
  BY <1>1, FaultTypes DEF TypeOK, BrokerTypeOK, brokerVars
<1>4. RowOK'
  <2>1. ASSUME NEW i \in Jobs PROVE Stored(i)'
    BY <1>1 DEF TypeInv, RowOK, Stored, TypeOK, RowTypeOK, ApiTypeOK, BrokerTypeOK, Fault,
       rowVars, apiVars, brokerVars
  <2> QED
    BY <2>1 DEF RowOK
<1> QED
  BY Frame, <1>2, <1>3, <1>4 DEF TypeInv, TypeOK, rowVars, brokerVars, apiVars, taskVars,
     sparkVars

LEMMA CancelJobTypes ==
  ASSUME TypeInv, NEW j \in Jobs, CancelJob(j)
  PROVE  TypeInv'
<1> USE DEF CancelJob
<1>1. TypeOK
  BY DEF TypeInv
<1>2. RowTypeOK'
  BY <1>1 DEF TypeOK, RowTypeOK, Terminal, Codes, SetStatus, Allowed, Sources
<1>3. ApiTypeOK'
  BY <1>1 DEF TypeOK, ApiTypeOK, SetStatus, Allowed, Sources
<1>4. TaskOK'
  <2>1. ASSUME NEW v \in Workers PROVE Held(v)'
    BY <1>1, Others DEF TypeOK, RowTypeOK, SetStatus, Allowed, Sources, rowVars, taskVars,
       sparkVars
  <2> QED
    BY <2>1 DEF TaskOK
<1>5. RowOK'
  <2>1. ASSUME NEW i \in Jobs PROVE Stored(i)'
    BY <1>1 DEF TypeInv, RowOK, Stored, TypeOK, RowTypeOK, ApiTypeOK, BrokerTypeOK,
       SetStatus, Allowed, Sources, rowVars, apiVars, brokerVars
  <2> QED
    BY <2>1 DEF RowOK
<1> QED
  BY Frame, <1>2, <1>3, <1>4, <1>5 DEF TypeInv, TypeOK, rowVars, brokerVars, apiVars,
     taskVars, sparkVars

LEMMA FlagJobTypes ==
  ASSUME TypeInv, NEW j \in Jobs, FlagJob(j)
  PROVE  TypeInv'
<1> USE DEF FlagJob
<1>1. TypeOK
  BY DEF TypeInv
<1>2. RowTypeOK'
  BY <1>1 DEF TypeOK, RowTypeOK, TaskTypeOK
<1>3. ApiTypeOK'
  BY <1>1 DEF TypeOK, ApiTypeOK
<1> QED
  BY Frame, <1>2, <1>3 DEF TypeInv, TypeOK, rowVars, brokerVars, apiVars, taskVars, sparkVars

LEMMA ConfirmFlagTypes ==
  ASSUME TypeInv, NEW j \in Jobs, ConfirmFlag(j)
  PROVE  TypeInv'
<1> USE DEF ConfirmFlag
<1>1. TypeOK
  BY DEF TypeInv
<1>2. ApiTypeOK'
  BY <1>1 DEF TypeOK, ApiTypeOK
<1> QED
  BY Frame, <1>2 DEF TypeInv, TypeOK, rowVars, brokerVars, apiVars, taskVars, sparkVars

LEMMA RevokeJobTypes ==
  ASSUME TypeInv, NEW j \in Jobs, RevokeJob(j)
  PROVE  TypeInv'
<1> USE DEF RevokeJob
<1>1. TypeOK
  BY DEF TypeInv
<1>2. ApiTypeOK'
  BY <1>1 DEF TypeOK, ApiTypeOK
<1>3. BrokerTypeOK'
  BY <1>1 DEF TypeOK, BrokerTypeOK, brokerVars
<1> QED
  BY Frame, <1>2, <1>3 DEF TypeInv, TypeOK, rowVars, brokerVars, apiVars, taskVars, sparkVars

LEMMA ReceiveTypes ==
  ASSUME TypeInv, NEW w \in Workers, NEW j \in Jobs, NEW r \in Tries, Receive(w, j, r)
  PROVE  TypeInv'
<1> USE DEF Receive
<1>1. TypeOK /\ Held(w)
  BY DEF TypeInv, TaskOK
<1>2. BrokerTypeOK'
  BY <1>1 DEF TypeOK, BrokerTypeOK, brokerVars, Goto
<1>3. TaskTypeOK'
  BY <1>1 DEF TypeOK, TaskTypeOK, Places, Goto
<1>4. TaskOK'
  <2>1. ASSUME NEW v \in Workers, v # w PROVE Held(v)'
    <3>1. UNCHANGED <<kind, pc[v], job[v], plan[v], exc[v], act[v], jvm[v], monitor[v]>>
      BY <2>1, <1>1 DEF TypeOK, TaskTypeOK, SparkTypeOK, Goto, rowVars, taskVars, sparkVars
    <3>2. \A i \in Jobs : status[i] # "NONE" => status'[i] # "NONE"
      BY <1>1 DEF TypeOK, RowTypeOK, rowVars
    <3> QED
      BY <3>1, <3>2, Others
  <2>2. Held(w)'
    BY <1>1 DEF TypeInv, RowOK, Stored, TypeOK, TaskTypeOK, Held, Goto, rowVars, sparkVars
  <2> QED
    BY <2>1, <2>2 DEF TaskOK
<1>5. RowOK'
  <2>1. ASSUME NEW i \in Jobs PROVE Stored(i)'
    BY <1>1 DEF TypeInv, RowOK, Stored, TypeOK, RowTypeOK, ApiTypeOK, BrokerTypeOK, Goto,
       rowVars, apiVars, brokerVars
  <2> QED
    BY <2>1 DEF RowOK
<1> QED
  BY Frame, <1>2, <1>3, <1>4, <1>5 DEF TypeInv, TypeOK, rowVars, brokerVars, apiVars,
     taskVars, sparkVars

LEMMA DropRevokedTypes ==
  ASSUME TypeInv, NEW j \in Jobs, NEW r \in Tries, DropRevoked(j, r)
  PROVE  TypeInv'
<1> USE DEF DropRevoked
<1>1. TypeOK
  BY DEF TypeInv
<1>2. BrokerTypeOK'
  BY <1>1 DEF TypeOK, BrokerTypeOK, brokerVars
<1>3. RowOK'
  <2>1. ASSUME NEW i \in Jobs PROVE Stored(i)'
    BY <1>1 DEF TypeInv, RowOK, Stored, TypeOK, RowTypeOK, ApiTypeOK, BrokerTypeOK, rowVars,
       apiVars, brokerVars
  <2> QED
    BY <2>1 DEF RowOK
<1> QED
  BY Frame, <1>2, <1>3 DEF TypeInv, TypeOK, rowVars, brokerVars, apiVars, taskVars, sparkVars

LEMMA RedeliverTypes ==
  ASSUME TypeInv, NEW w \in Workers, Redeliver(w)
  PROVE  TypeInv'
<1> USE DEF Redeliver
<1>1. TypeOK /\ Held(w)
  BY DEF TypeInv, TaskOK
<1>2. pc[w] # "idle"
  OBVIOUS
<1>3. BrokerTypeOK'
  BY <1>1, <1>2, Busy, PublishTypes, FaultTypes DEF TypeOK, BrokerTypeOK, brokerVars
<1>4. TaskTypeOK'
  BY <1>1, <1>2, Busy DEF TypeOK, TaskTypeOK, Places, InTry, Fault, Publish
<1>5. RowOK'
  <2>1. ASSUME NEW i \in Jobs PROVE Stored(i)'
    <3>1. \A t \in Tries : queue'[i][t] > 0 => i = job[w] \/ queue[i][t] > 0
      BY <1>1, <1>2, Busy, PublishWhere DEF TypeOK
    <3>2. UNCHANGED <<status, kind, answer, submit>>
      BY DEF rowVars, apiVars
    <3>3. job[w] \in Jobs /\ status[job[w]] # "NONE"
      BY <1>1, <1>2 DEF Held
    <3> QED
      BY <3>1, <3>2, <3>3 DEF TypeInv, RowOK, Stored
  <2> QED
    BY <2>1 DEF RowOK
<1> QED
  BY Frame, <1>3, <1>4, <1>5 DEF TypeInv, TypeOK, rowVars, brokerVars, apiVars, taskVars,
     sparkVars

LEMMA AckTypes ==
  ASSUME TypeInv, NEW w \in Workers, Ack(w)
  PROVE  TypeInv'
<1> USE DEF Ack
<1>1. TypeOK /\ Held(w)
  BY DEF TypeInv, TaskOK
<1>2. pc[w] # "idle"
  OBVIOUS
<1>3. TaskTypeOK'
  BY <1>1, JobSystemAssumption DEF TypeOK, TaskTypeOK, Places, InTry, Tries, Outputs, Leave,
     Goto
<1>4. SparkTypeOK'
  BY <1>1, <1>2, Busy DEF TypeOK, SparkTypeOK, Acts, Leave, Goto
<1>5. TaskOK'
  <2>1. ASSUME NEW v \in Workers, v # w PROVE Held(v)'
    <3>1. UNCHANGED <<kind, pc[v], job[v], plan[v], exc[v], act[v], jvm[v], monitor[v]>>
      BY <2>1, <1>1 DEF TypeOK, TaskTypeOK, SparkTypeOK, Leave, Goto, rowVars, taskVars,
         sparkVars
    <3>2. \A i \in Jobs : status[i] # "NONE" => status'[i] # "NONE"
      BY <1>1 DEF TypeOK, RowTypeOK, rowVars
    <3> QED
      BY <3>1, <3>2, Others
  <2>2. Held(w)'
    BY <1>1, <1>2, Busy DEF TypeOK, RowTypeOK, TaskTypeOK, SparkTypeOK, Held, Leave, Goto,
       rowVars, taskVars, sparkVars
  <2> QED
    BY <2>1, <2>2 DEF TaskOK
<1> QED
  BY Frame, <1>3, <1>4, <1>5 DEF TypeInv, TypeOK, rowVars, brokerVars, apiVars, taskVars,
     sparkVars

LEMMA CrashTypes ==
  ASSUME TypeInv, NEW w \in Workers, Crash(w)
  PROVE  TypeInv'
<1> USE DEF Crash
<1>1. TypeOK /\ Held(w)
  BY DEF TypeInv, TaskOK
<1>2. pc[w] # "idle"
  OBVIOUS
<1>3. BrokerTypeOK'
  BY <1>1, <1>2, Busy, PublishTypes, FaultTypes DEF TypeOK, BrokerTypeOK, brokerVars, Leave,
     Goto, Fault
<1>4. TaskTypeOK'
  BY <1>1, JobSystemAssumption DEF TypeOK, TaskTypeOK, Places, InTry, Tries, Outputs, Leave,
     Goto, Fault, Publish
<1>5. SparkTypeOK'
  BY <1>1, <1>2, Busy DEF TypeOK, SparkTypeOK, Acts, Leave, Goto, Fault, Publish
<1>6. TaskOK'
  <2>1. ASSUME NEW v \in Workers, v # w PROVE Held(v)'
    <3>1. UNCHANGED <<kind, pc[v], job[v], plan[v], exc[v], act[v], jvm[v], monitor[v]>>
      BY <2>1, <1>1 DEF TypeOK, TaskTypeOK, SparkTypeOK, Leave, Goto, Fault, Publish,
         rowVars, taskVars, sparkVars
    <3>2. \A i \in Jobs : status[i] # "NONE" => status'[i] # "NONE"
      BY <1>1 DEF TypeOK, RowTypeOK, rowVars
    <3> QED
      BY <3>1, <3>2, Others
  <2>2. Held(w)'
    BY <1>1, <1>2, Busy DEF TypeOK, RowTypeOK, TaskTypeOK, SparkTypeOK, Held, Leave, Goto,
       Fault, Publish, rowVars, taskVars, sparkVars
  <2> QED
    BY <2>1, <2>2 DEF TaskOK
<1>7. RowOK'
  <2>1. ASSUME NEW i \in Jobs PROVE Stored(i)'
    <3>1. \A t \in Tries : queue'[i][t] > 0 => i = job[w] \/ queue[i][t] > 0
      <4>1. CASE owned[w]
        BY <4>1, <1>1, <1>2, Busy, PublishWhere DEF TypeOK
      <4>2. CASE ~owned[w]
        BY <4>2
      <4> QED
        BY <4>1, <4>2
    <3>2. UNCHANGED <<status, kind, answer, submit>>
      BY DEF rowVars, apiVars
    <3>3. job[w] \in Jobs /\ status[job[w]] # "NONE"
      BY <1>1, <1>2 DEF Held
    <3> QED
      BY <3>1, <3>2, <3>3 DEF TypeInv, RowOK, Stored
  <2> QED
    BY <2>1 DEF RowOK
<1> QED
  BY Frame, <1>3, <1>4, <1>5, <1>6, <1>7 DEF TypeInv, TypeOK, rowVars, brokerVars, apiVars,
     taskVars, sparkVars

LEMMA LimitEscapesTypes ==
  ASSUME TypeInv, NEW w \in Workers, LimitEscapes(w)
  PROVE  TypeInv'
<1> USE DEF LimitEscapes
<1>1. TypeOK /\ Held(w)
  BY DEF TypeInv, TaskOK
<1>2. pc[w] # "idle"
  OBVIOUS
<1>3. BrokerTypeOK'
  BY <1>1, <1>2, Busy, FaultTypes DEF TypeOK, BrokerTypeOK, brokerVars, Leave, Goto, Fault
<1>4. TaskTypeOK'
  BY <1>1, JobSystemAssumption DEF TypeOK, TaskTypeOK, Places, InTry, Tries, Outputs, Leave,
     Goto, Fault
<1>5. SparkTypeOK'
  BY <1>1, <1>2, Busy DEF TypeOK, SparkTypeOK, Acts, Leave, Goto, Fault
<1>6. TaskOK'
  <2>1. ASSUME NEW v \in Workers, v # w PROVE Held(v)'
    <3>1. UNCHANGED <<kind, pc[v], job[v], plan[v], exc[v], act[v], jvm[v], monitor[v]>>
      BY <2>1, <1>1 DEF TypeOK, TaskTypeOK, SparkTypeOK, Leave, Goto, Fault, rowVars,
         taskVars, sparkVars
    <3>2. \A i \in Jobs : status[i] # "NONE" => status'[i] # "NONE"
      BY <1>1 DEF TypeOK, RowTypeOK, rowVars
    <3> QED
      BY <3>1, <3>2, Others
  <2>2. Held(w)'
    BY <1>1, <1>2, Busy DEF TypeOK, RowTypeOK, TaskTypeOK, SparkTypeOK, Held, Leave, Goto,
       Fault, rowVars, taskVars, sparkVars
  <2> QED
    BY <2>1, <2>2 DEF TaskOK
<1> QED
  BY Frame, <1>3, <1>4, <1>5, <1>6 DEF TypeInv, TypeOK, rowVars, brokerVars, apiVars,
     taskVars, sparkVars

LEMMA BeginTypes ==
  ASSUME TypeInv, NEW w \in Workers, Begin(w)
  PROVE  TypeInv'
<1> USE DEF Begin
<1>1. TypeOK /\ Held(w)
  BY DEF TypeInv, TaskOK
<1>2. pc[w] # "idle"
  OBVIOUS
<1>3. RowTypeOK'
  BY <1>1, <1>2, Busy DEF TypeOK, RowTypeOK, TaskTypeOK, Goto, SetStatus, Allowed, Sources, Held
<1>4. TaskTypeOK'
  BY <1>1, <1>2, Busy DEF TypeOK, TaskTypeOK, Places, InTry, Goto, SetStatus, Allowed, Sources
<1>5. TaskOK'
  <2>1. ASSUME NEW v \in Workers, v # w PROVE Held(v)'
    <3>1. UNCHANGED <<kind, pc[v], job[v], plan[v], exc[v], act[v], jvm[v], monitor[v]>>
      BY <2>1, <1>1 DEF TypeOK, TaskTypeOK, SparkTypeOK, Goto, rowVars, taskVars, sparkVars
    <3>2. \A i \in Jobs : status[i] # "NONE" => status'[i] # "NONE"
      BY <1>1 DEF TypeOK, RowTypeOK, SetStatus, rowVars
    <3> QED
      BY <3>1, <3>2, Others
  <2>2. Held(w)'
    <3>1. status'[job[w]] # "NONE" /\ job'[w] = job[w] /\ job[w] \in Jobs
      BY <1>1, <1>2, Busy DEF TypeOK, RowTypeOK, SetStatus, Terminal
    <3>2. pc'[w] \in {"load", "ack"}
      BY <1>1 DEF TypeOK, TaskTypeOK, Goto
    <3> QED
      BY <3>1, <3>2, <1>1 DEF Held, sparkVars
  <2> QED
    BY <2>1, <2>2 DEF TaskOK
<1>6. RowOK'
  <2>1. ASSUME NEW i \in Jobs PROVE Stored(i)'
    <3>1. UNCHANGED <<kind, answer, queue, submit>>
      BY DEF brokerVars, apiVars
    <3>2. status'[i] # "NONE" <=> status[i] # "NONE"
      BY <1>1, <1>2, Busy DEF TypeOK, RowTypeOK, SetStatus, Terminal
    <3> QED
      BY <3>1, <3>2, StoredStays
  <2> QED
    BY <2>1 DEF RowOK
<1> QED
  BY Frame, <1>3, <1>4, <1>5, <1>6 DEF TypeInv, TypeOK, rowVars, brokerVars, apiVars,
     taskVars, sparkVars

LEMMA LoadJobTypes ==
  ASSUME TypeInv, NEW w \in Workers, LoadJob(w)
  PROVE  TypeInv'
<1> USE DEF LoadJob
<1>1. TypeOK /\ Held(w)
  BY DEF TypeInv, TaskOK
<1>2. pc[w] # "idle"
  OBVIOUS
<1>3. TaskTypeOK'
  BY <1>1, <1>2, Busy DEF TypeOK, TaskTypeOK, Places, InTry, Failures, Goto, Raise
<1>4. SparkTypeOK'
  BY <1>1, <1>2, Busy DEF TypeOK, SparkTypeOK, Goto, Raise
<1>5. TaskOK'
  <2>1. ASSUME NEW v \in Workers, v # w PROVE Held(v)'
    <3>1. UNCHANGED <<kind, pc[v], job[v], plan[v], exc[v], act[v], jvm[v], monitor[v]>>
      BY <2>1, <1>1 DEF TypeOK, TaskTypeOK, SparkTypeOK, Goto, Raise, rowVars, taskVars,
         sparkVars
    <3>2. \A i \in Jobs : status[i] # "NONE" => status'[i] # "NONE"
      BY <1>1 DEF TypeOK, RowTypeOK, rowVars
    <3> QED
      BY <3>1, <3>2, Others
  <2>2. Held(w)'
    BY <1>1, <1>2, Busy DEF TypeOK, TaskTypeOK, Held, Goto, Raise, rowVars, JobKinds,
       SparkTypeOK
  <2> QED
    BY <2>1, <2>2 DEF TaskOK
<1> QED
  BY Frame, <1>3, <1>4, <1>5 DEF TypeInv, TypeOK, rowVars, brokerVars, apiVars, taskVars,
     sparkVars

LEMMA AskLLMTypes ==
  ASSUME TypeInv, NEW w \in Workers, AskLLM(w)
  PROVE  TypeInv'
<1> USE DEF AskLLM
<1>1. TypeOK /\ Held(w)
  BY DEF TypeInv, TaskOK
<1>2. pc[w] # "idle"
  OBVIOUS
<1>3. TaskTypeOK'
  BY <1>1, <1>2, Busy DEF TypeOK, TaskTypeOK, Places, InTry, Failures, Goto, Raise
<1>4. SparkTypeOK'
  BY <1>1, <1>2, Busy DEF TypeOK, SparkTypeOK, Goto, Raise
<1>5. TaskOK'
  <2>1. ASSUME NEW v \in Workers, v # w PROVE Held(v)'
    <3>1. UNCHANGED <<kind, pc[v], job[v], plan[v], exc[v], act[v], jvm[v], monitor[v]>>
      BY <2>1, <1>1 DEF TypeOK, TaskTypeOK, SparkTypeOK, Goto, Raise, rowVars, taskVars,
         sparkVars
    <3>2. \A i \in Jobs : status[i] # "NONE" => status'[i] # "NONE"
      BY <1>1 DEF TypeOK, RowTypeOK, rowVars
    <3> QED
      BY <3>1, <3>2, Others
  <2>2. Held(w)'
    <3>1. UNCHANGED <<status, kind, job, jvm>>
      BY DEF rowVars
    <3>2. CASE \E e \in {"transient", "permanent"} : Raise(w, e)
      <4>1. pc'[w] = "handle"
        BY <3>2, <1>1 DEF TypeOK, TaskTypeOK, Goto, Raise
      <4> QED
        BY <4>1, <3>1, <1>2, Raised
    <3>3. CASE Goto(w, "save") /\ \E a \in Answers : plan' = [plan EXCEPT ![w] = a]
      <4>1. pc'[w] = "save" /\ plan'[w] \in Answers
        BY <3>3, <1>1 DEF TypeOK, TaskTypeOK, Goto
      <4> QED
        BY <4>1, <3>1, <1>1, <1>2 DEF Held
    <3> QED
      BY <3>2, <3>3
  <2> QED
    BY <2>1, <2>2 DEF TaskOK
<1> QED
  BY Frame, <1>3, <1>4, <1>5 DEF TypeInv, TypeOK, rowVars, brokerVars, apiVars, taskVars,
     sparkVars

LEMMA SaveAnswerTypes ==
  ASSUME TypeInv, NEW w \in Workers, SaveAnswer(w)
  PROVE  TypeInv'
<1> USE DEF SaveAnswer
<1>1. TypeOK /\ Held(w)
  BY DEF TypeInv, TaskOK
<1>2. pc[w] # "idle"
  OBVIOUS
<1>3. RowTypeOK'
  BY <1>1, <1>2, Busy DEF TypeOK, RowTypeOK, TaskTypeOK, Goto, Held
<1>4. TaskTypeOK'
  BY <1>1, <1>2, Busy DEF TypeOK, TaskTypeOK, Places, InTry, Goto
<1>5. TaskOK'
  <2>1. ASSUME NEW v \in Workers, v # w PROVE Held(v)'
    <3>1. UNCHANGED <<kind, pc[v], job[v], plan[v], exc[v], act[v], jvm[v], monitor[v]>>
      BY <2>1, <1>1 DEF TypeOK, TaskTypeOK, SparkTypeOK, Goto, rowVars, taskVars, sparkVars
    <3>2. \A i \in Jobs : status[i] # "NONE" => status'[i] # "NONE"
      BY <1>1 DEF TypeOK, RowTypeOK, rowVars
    <3> QED
      BY <3>1, <3>2, Others
  <2>2. Held(w)'
    BY <1>1, <1>2, Busy DEF TypeOK, RowTypeOK, TaskTypeOK, SparkTypeOK, Held, Goto, rowVars,
       taskVars, sparkVars
  <2> QED
    BY <2>1, <2>2 DEF TaskOK
<1>6. RowOK'
  <2>1. ASSUME NEW i \in Jobs PROVE Stored(i)'
    BY <1>1, <1>2, Busy DEF TypeInv, RowOK, Stored, Held, TaskTypeOK, TypeOK, RowTypeOK,
       ApiTypeOK, BrokerTypeOK, Goto, rowVars, apiVars, brokerVars
  <2> QED
    BY <2>1 DEF RowOK
<1> QED
  BY Frame, <1>3, <1>4, <1>5, <1>6 DEF TypeInv, TypeOK, rowVars, brokerVars, apiVars,
     taskVars, sparkVars

LEMMA CheckCancelTypes ==
  ASSUME TypeInv, NEW w \in Workers, CheckCancel(w)
  PROVE  TypeInv'
<1> USE DEF CheckCancel
<1>1. TypeOK /\ Held(w)
  BY DEF TypeInv, TaskOK
<1>2. pc[w] # "idle"
  BY DEF AfterCheck
<1>3. TaskTypeOK'
  BY <1>1, <1>2, Busy DEF TypeOK, TaskTypeOK, Places, InTry, Failures, Goto, Raise, AfterCheck
<1>4. SparkTypeOK'
  BY <1>1, <1>2, Busy DEF TypeOK, SparkTypeOK, Acts, Goto, Raise, AfterCheck
<1>5. TaskOK'
  <2>1. ASSUME NEW v \in Workers, v # w PROVE Held(v)'
    <3>1. UNCHANGED <<kind, pc[v], job[v], plan[v], exc[v], act[v], jvm[v], monitor[v]>>
      BY <2>1, <1>1 DEF TypeOK, TaskTypeOK, SparkTypeOK, Goto, Raise, AfterCheck, rowVars,
         taskVars, sparkVars
    <3>2. \A i \in Jobs : status[i] # "NONE" => status'[i] # "NONE"
      BY <1>1 DEF TypeOK, RowTypeOK, rowVars
    <3> QED
      BY <3>1, <3>2, Others
  <2>2. Held(w)'
    <3>1. CASE pc[w] = "check"
      BY <3>1, <1>1 DEF TypeOK, TaskTypeOK, SparkTypeOK, Held, Goto, Raise, AfterCheck, rowVars
    <3>2. CASE pc[w] = "sampled"
      BY <3>2, <1>1 DEF TypeOK, TaskTypeOK, SparkTypeOK, Held, Goto, Raise, AfterCheck, rowVars
    <3>3. CASE pc[w] = "saved"
      BY <3>3, <1>1 DEF TypeOK, TaskTypeOK, SparkTypeOK, Held, Goto, Raise, AfterCheck, rowVars
    <3> QED
      BY <3>1, <3>2, <3>3 DEF AfterCheck
  <2> QED
    BY <2>1, <2>2 DEF TaskOK
<1> QED
  BY Frame, <1>3, <1>4, <1>5 DEF TypeInv, TypeOK, rowVars, brokerVars, apiVars, taskVars,
     sparkVars

LEMMA ConnectTypes ==
  ASSUME TypeInv, NEW w \in Workers, Connect(w)
  PROVE  TypeInv'
<1> USE DEF Connect
<1>1. TypeOK /\ Held(w)
  BY DEF TypeInv, TaskOK
<1>2. pc[w] # "idle"
  OBVIOUS
<1>3. TaskTypeOK'
  BY <1>1, <1>2, Busy DEF TypeOK, TaskTypeOK, Places, InTry, Failures, Goto, Raise
<1>4. SparkTypeOK'
  BY <1>1, <1>2, Busy DEF TypeOK, SparkTypeOK, Acts, Goto, Raise
<1>5. TaskOK'
  <2>1. ASSUME NEW v \in Workers, v # w PROVE Held(v)'
    <3>1. UNCHANGED <<kind, pc[v], job[v], plan[v], exc[v], act[v], jvm[v], monitor[v]>>
      BY <2>1, <1>1 DEF TypeOK, TaskTypeOK, SparkTypeOK, Goto, Raise, rowVars, taskVars,
         sparkVars
    <3>2. \A i \in Jobs : status[i] # "NONE" => status'[i] # "NONE"
      BY <1>1 DEF TypeOK, RowTypeOK, rowVars
    <3> QED
      BY <3>1, <3>2, Others
  <2>2. Held(w)'
    BY <1>1 DEF TypeOK, TaskTypeOK, SparkTypeOK, Held, Goto, Raise, rowVars
  <2> QED
    BY <2>1, <2>2 DEF TaskOK
<1> QED
  BY Frame, <1>3, <1>4, <1>5 DEF TypeInv, TypeOK, rowVars, brokerVars, apiVars, taskVars,
     sparkVars

LEMMA SucceedTypes ==
  ASSUME TypeInv, NEW w \in Workers, Succeed(w)
  PROVE  TypeInv'
<1> USE DEF Succeed
<1>1. TypeOK /\ Held(w)
  BY DEF TypeInv, TaskOK
<1>2. pc[w] # "idle"
  OBVIOUS
<1>3. RowTypeOK'
  <2>1. status' \in [Jobs -> {"NONE", "QUEUED", "RUNNING"} \cup Terminal]
    BY <1>1 DEF TypeOK, RowTypeOK, Terminal, SetStatus
  <2>2. result' \in [Jobs -> Outputs]
    BY <1>1 DEF TypeOK, RowTypeOK, TaskTypeOK
  <2> QED
    BY <2>1, <2>2, <1>1 DEF TypeOK, RowTypeOK
<1>4. TaskTypeOK'
  BY <1>1, <1>2, Busy DEF TypeOK, TaskTypeOK, Places, InTry, Goto, SetStatus, Allowed, Sources
<1>5. TaskOK'
  <2>1. ASSUME NEW v \in Workers, v # w PROVE Held(v)'
    <3>1. UNCHANGED <<kind, pc[v], job[v], plan[v], exc[v], act[v], jvm[v], monitor[v]>>
      BY <2>1, <1>1 DEF TypeOK, TaskTypeOK, SparkTypeOK, Goto, rowVars, taskVars, sparkVars
    <3>2. \A i \in Jobs : status[i] # "NONE" => status'[i] # "NONE"
      BY <1>1 DEF TypeOK, RowTypeOK, SetStatus, rowVars
    <3> QED
      BY <3>1, <3>2, Others
  <2>2. Held(w)'
    BY <1>1, <1>2, Busy DEF TypeOK, RowTypeOK, TaskTypeOK, SparkTypeOK, Held, Goto,
       SetStatus, Allowed, Sources, rowVars, taskVars, sparkVars
  <2> QED
    BY <2>1, <2>2 DEF TaskOK
<1>6. RowOK'
  <2>1. ASSUME NEW i \in Jobs PROVE Stored(i)'
    <3>1. UNCHANGED <<kind, answer, queue, submit>>
      BY DEF brokerVars, apiVars
    <3>2. status'[i] # "NONE" <=> status[i] # "NONE"
      BY <1>1, <1>2, Busy DEF TypeOK, RowTypeOK, SetStatus, Terminal
    <3> QED
      BY <3>1, <3>2, StoredStays
  <2> QED
    BY <2>1 DEF RowOK
<1> QED
  BY Frame, <1>3, <1>4, <1>5, <1>6 DEF TypeInv, TypeOK, rowVars, brokerVars, apiVars,
     taskVars, sparkVars

LEMMA HandleFailureTypes ==
  ASSUME TypeInv, NEW w \in Workers, HandleFailure(w)
  PROVE  TypeInv'
<1> USE DEF HandleFailure
<1>1. TypeOK /\ Held(w)
  BY DEF TypeInv, TaskOK
<1>2. pc[w] # "idle"
  OBVIOUS
<1>3. TaskTypeOK'
  BY <1>1, <1>2, Busy DEF TypeOK, TaskTypeOK, Places, InTry, Codes, Goto, Settle, StopSpark,
     SparkOf
<1>4. SparkTypeOK'
  BY <1>1, <1>2, Busy DEF TypeOK, SparkTypeOK, Goto, Settle, StopSpark, SparkOf
<1>5. TaskOK'
  <2>1. ASSUME NEW v \in Workers, v # w PROVE Held(v)'
    <3>1. UNCHANGED <<kind, pc[v], job[v], plan[v], exc[v], act[v], jvm[v], monitor[v]>>
      BY <2>1, <1>1 DEF TypeOK, TaskTypeOK, SparkTypeOK, Goto, Settle, StopSpark, SparkOf,
         rowVars, taskVars, sparkVars
    <3>2. \A i \in Jobs : status[i] # "NONE" => status'[i] # "NONE"
      BY <1>1 DEF TypeOK, RowTypeOK, rowVars
    <3> QED
      BY <3>1, <3>2, Others
  <2>2. Held(w)'
    BY <1>1 DEF TypeOK, TaskTypeOK, SparkTypeOK, Held, Goto, Settle, StopSpark, SparkOf,
       Codes, rowVars
  <2> QED
    BY <2>1, <2>2 DEF TaskOK
<1> QED
  BY Frame, <1>3, <1>4, <1>5 DEF TypeInv, TypeOK, rowVars, brokerVars, apiVars, taskVars,
     sparkVars

LEMMA RecordFailureTypes ==
  ASSUME TypeInv, NEW w \in Workers, RecordFailure(w)
  PROVE  TypeInv'
<1> USE DEF RecordFailure
<1>1. TypeOK /\ Held(w)
  BY DEF TypeInv, TaskOK
<1>2. pc[w] # "idle"
  OBVIOUS
<1>3. RowTypeOK'
  BY <1>1, <1>2, Busy DEF TypeOK, RowTypeOK, TaskTypeOK, Terminal, Goto, SetStatus, Allowed,
     Sources, Held
<1>4. TaskTypeOK'
  BY <1>1, <1>2, Busy DEF TypeOK, TaskTypeOK, Places, InTry, Goto, SetStatus, Allowed, Sources
<1>5. TaskOK'
  <2>1. ASSUME NEW v \in Workers, v # w PROVE Held(v)'
    <3>1. UNCHANGED <<kind, pc[v], job[v], plan[v], exc[v], act[v], jvm[v], monitor[v]>>
      BY <2>1, <1>1 DEF TypeOK, TaskTypeOK, SparkTypeOK, Goto, rowVars, taskVars, sparkVars
    <3>2. \A i \in Jobs : status[i] # "NONE" => status'[i] # "NONE"
      BY <1>1 DEF TypeOK, RowTypeOK, SetStatus, rowVars
    <3> QED
      BY <3>1, <3>2, Others
  <2>2. Held(w)'
    BY <1>1, <1>2, Busy DEF TypeOK, RowTypeOK, TaskTypeOK, SparkTypeOK, Held, Goto,
       SetStatus, Allowed, Sources, rowVars, taskVars, sparkVars
  <2> QED
    BY <2>1, <2>2 DEF TaskOK
<1>6. RowOK'
  <2>1. ASSUME NEW i \in Jobs PROVE Stored(i)'
    <3>1. UNCHANGED <<kind, answer, queue, submit>>
      BY DEF brokerVars, apiVars
    <3>2. status'[i] # "NONE" <=> status[i] # "NONE"
      BY <1>1, <1>2, Busy DEF TypeOK, RowTypeOK, SetStatus, Terminal
    <3> QED
      BY <3>1, <3>2, StoredStays
  <2> QED
    BY <2>1 DEF RowOK
<1> QED
  BY Frame, <1>3, <1>4, <1>5, <1>6 DEF TypeInv, TypeOK, rowVars, brokerVars, apiVars,
     taskVars, sparkVars

LEMMA PublishRetryTypes ==
  ASSUME TypeInv, NEW w \in Workers, PublishRetry(w)
  PROVE  TypeInv'
<1> USE DEF PublishRetry
<1>1. TypeOK /\ Held(w)
  BY DEF TypeInv, TaskOK
<1>2. pc[w] # "idle"
  OBVIOUS
<1>3. BrokerTypeOK'
  BY <1>1, <1>2, Busy, PublishTypes DEF TypeOK, BrokerTypeOK, brokerVars, Goto
<1>4. TaskTypeOK'
  BY <1>1, <1>2, Busy DEF TypeOK, TaskTypeOK, Places, InTry, Goto, Publish
<1>5. TaskOK'
  <2>1. ASSUME NEW v \in Workers, v # w PROVE Held(v)'
    <3>1. UNCHANGED <<kind, pc[v], job[v], plan[v], exc[v], act[v], jvm[v], monitor[v]>>
      BY <2>1, <1>1 DEF TypeOK, TaskTypeOK, SparkTypeOK, Goto, Publish, rowVars, taskVars,
         sparkVars
    <3>2. \A i \in Jobs : status[i] # "NONE" => status'[i] # "NONE"
      BY <1>1 DEF TypeOK, RowTypeOK, rowVars
    <3> QED
      BY <3>1, <3>2, Others
  <2>2. Held(w)'
    BY <1>1, <1>2, Busy DEF TypeOK, RowTypeOK, TaskTypeOK, SparkTypeOK, Held, Goto, Publish,
       rowVars, taskVars, sparkVars
  <2> QED
    BY <2>1, <2>2 DEF TaskOK
<1>6. RowOK'
  <2>1. ASSUME NEW i \in Jobs PROVE Stored(i)'
    <3>1. \A t \in Tries : queue'[i][t] > 0 => i = job[w] \/ queue[i][t] > 0
      BY <1>1, <1>2, Busy, PublishWhere DEF TypeOK
    <3>2. UNCHANGED <<status, kind, answer, submit>>
      BY DEF rowVars, apiVars
    <3>3. job[w] \in Jobs /\ status[job[w]] # "NONE"
      BY <1>1, <1>2 DEF Held
    <3> QED
      BY <3>1, <3>2, <3>3 DEF TypeInv, RowOK, Stored
  <2> QED
    BY <2>1 DEF RowOK
<1> QED
  BY Frame, <1>3, <1>4, <1>5, <1>6 DEF TypeInv, TypeOK, rowVars, brokerVars, apiVars,
     taskVars, sparkVars

LEMMA RetryFailsTypes ==
  ASSUME TypeInv, NEW w \in Workers, RetryFails(w)
  PROVE  TypeInv'
<1> USE DEF RetryFails
<1>1. TypeOK /\ Held(w)
  BY DEF TypeInv, TaskOK
<1>2. pc[w] # "idle"
  OBVIOUS
<1>3. BrokerTypeOK'
  BY <1>1, <1>2, Busy, FaultTypes DEF TypeOK, BrokerTypeOK, brokerVars, Goto, Fault
<1>4. TaskTypeOK'
  BY <1>1, <1>2, Busy DEF TypeOK, TaskTypeOK, Places, InTry, Goto, Fault
<1>5. TaskOK'
  <2>1. ASSUME NEW v \in Workers, v # w PROVE Held(v)'
    <3>1. UNCHANGED <<kind, pc[v], job[v], plan[v], exc[v], act[v], jvm[v], monitor[v]>>
      BY <2>1, <1>1 DEF TypeOK, TaskTypeOK, SparkTypeOK, Goto, Fault, rowVars, taskVars,
         sparkVars
    <3>2. \A i \in Jobs : status[i] # "NONE" => status'[i] # "NONE"
      BY <1>1 DEF TypeOK, RowTypeOK, rowVars
    <3> QED
      BY <3>1, <3>2, Others
  <2>2. Held(w)'
    BY <1>1, <1>2, Busy DEF TypeOK, RowTypeOK, TaskTypeOK, SparkTypeOK, Held, Goto, Fault,
       rowVars, taskVars, sparkVars
  <2> QED
    BY <2>1, <2>2 DEF TaskOK
<1> QED
  BY Frame, <1>3, <1>4, <1>5 DEF TypeInv, TypeOK, rowVars, brokerVars, apiVars, taskVars,
     sparkVars

LEMMA LaunchSparkTypes ==
  ASSUME TypeInv, NEW w \in Workers, LaunchSpark(w)
  PROVE  TypeInv'
<1> USE DEF LaunchSpark
<1>1. TypeOK /\ Held(w)
  BY DEF TypeInv, TaskOK
<1>2. pc[w] # "idle"
  OBVIOUS
<1>3. TaskTypeOK'
  BY <1>1, <1>2, Busy DEF TypeOK, TaskTypeOK, Places, InTry, Goto, Call
<1>4. SparkTypeOK'
  BY <1>1, <1>2, Busy DEF TypeOK, SparkTypeOK, TaskTypeOK, SparkWork, Outputs, Goto, Call
<1>5. TaskOK'
  <2>1. ASSUME NEW v \in Workers, v # w PROVE Held(v)'
    <3>1. UNCHANGED <<kind, pc[v], job[v], plan[v], exc[v], act[v], jvm[v], monitor[v]>>
      BY <2>1, <1>1 DEF TypeOK, TaskTypeOK, SparkTypeOK, Goto, Call, rowVars, taskVars,
         sparkVars
    <3>2. \A i \in Jobs : status[i] # "NONE" => status'[i] # "NONE"
      BY <1>1 DEF TypeOK, RowTypeOK, rowVars
    <3> QED
      BY <3>1, <3>2, Others
  <2>2. Held(w)'
    <3>1. \A x \in jvm'[w] : x.act = "write" => x.plan \in Answers
      BY <1>1 DEF TypeOK, SparkTypeOK, Held, Call
    <3> QED
      BY <3>1, <1>1 DEF TypeOK, TaskTypeOK, Held, Goto, rowVars
  <2> QED
    BY <2>1, <2>2 DEF TaskOK
<1> QED
  BY Frame, <1>3, <1>4, <1>5 DEF TypeInv, TypeOK, rowVars, brokerVars, apiVars, taskVars,
     sparkVars

LEMMA SparkReturnsTypes ==
  ASSUME TypeInv, NEW w \in Workers, SparkReturns(w)
  PROVE  TypeInv'
<1> USE DEF SparkReturns
<1>1. TypeOK /\ Held(w)
  BY DEF TypeInv, TaskOK
<1>2. pc[w] # "idle"
  OBVIOUS
<1>3. TaskTypeOK'
  BY <1>1, <1>2, Busy DEF TypeOK, TaskTypeOK, Places, InTry, Goto, Call, Finish, NextAct
<1>4. SparkTypeOK'
  BY <1>1, <1>2, Busy DEF TypeOK, SparkTypeOK, Acts, SparkWork, Outputs, TaskTypeOK, Held,
     Goto, Call, Finish, NextAct
<1>5. TaskOK'
  <2>1. ASSUME NEW v \in Workers, v # w PROVE Held(v)'
    <3>1. UNCHANGED <<kind, pc[v], job[v], plan[v], exc[v], act[v], jvm[v], monitor[v]>>
      BY <2>1, <1>1 DEF TypeOK, TaskTypeOK, SparkTypeOK, Goto, Call, Finish, NextAct,
         rowVars, taskVars, sparkVars
    <3>2. \A i \in Jobs : status[i] # "NONE" => status'[i] # "NONE"
      BY <1>1 DEF TypeOK, RowTypeOK, rowVars
    <3> QED
      BY <3>1, <3>2, Others
  <2>2. Held(w)'
    BY <1>1, <1>2, Busy DEF TypeOK, RowTypeOK, TaskTypeOK, SparkTypeOK, Held, Goto, Call,
       Finish, NextAct, rowVars, taskVars, sparkVars
  <2> QED
    BY <2>1, <2>2 DEF TaskOK
<1> QED
  BY Frame, <1>3, <1>4, <1>5 DEF TypeInv, TypeOK, rowVars, brokerVars, apiVars, taskVars,
     sparkVars

LEMMA SparkFailsTypes ==
  ASSUME TypeInv, NEW w \in Workers, SparkFails(w)
  PROVE  TypeInv'
<1> USE DEF SparkFails
<1>1. TypeOK /\ Held(w)
  BY DEF TypeInv, TaskOK
<1>2. pc[w] # "idle"
  OBVIOUS
<1>3. TaskTypeOK'
  BY <1>1, <1>2, Busy DEF TypeOK, TaskTypeOK, Places, InTry, Failures, Goto, Raise, Call
<1>4. SparkTypeOK'
  BY <1>1, <1>2, Busy DEF TypeOK, SparkTypeOK, Goto, Raise, Call
<1>5. TaskOK'
  <2>1. ASSUME NEW v \in Workers, v # w PROVE Held(v)'
    <3>1. UNCHANGED <<kind, pc[v], job[v], plan[v], exc[v], act[v], jvm[v], monitor[v]>>
      BY <2>1, <1>1 DEF TypeOK, TaskTypeOK, SparkTypeOK, Goto, Raise, Call, rowVars,
         taskVars, sparkVars
    <3>2. \A i \in Jobs : status[i] # "NONE" => status'[i] # "NONE"
      BY <1>1 DEF TypeOK, RowTypeOK, rowVars
    <3> QED
      BY <3>1, <3>2, Others
  <2>2. Held(w)'
    <3>1. pc'[w] = "handle"
      BY <1>1 DEF TypeOK, TaskTypeOK, Goto, Raise
    <3>2. jvm'[w] \subseteq jvm[w] /\ UNCHANGED <<status, kind, job>>
      BY <1>1 DEF TypeOK, SparkTypeOK, rowVars
    <3> QED
      BY <3>1, <3>2, <1>2, Raised
  <2> QED
    BY <2>1, <2>2 DEF TaskOK
<1> QED
  BY Frame, <1>3, <1>4, <1>5 DEF TypeInv, TypeOK, rowVars, brokerVars, apiVars, taskVars,
     sparkVars

LEMMA OrphanEndsTypes ==
  ASSUME TypeInv, NEW w \in Workers, OrphanEnds(w)
  PROVE  TypeInv'
<1> USE DEF OrphanEnds
<1>1. TypeOK /\ Held(w)
  BY DEF TypeInv, TaskOK
<1>2. SparkTypeOK'
  BY <1>1 DEF TypeOK, SparkTypeOK, Acts, SparkWork, Outputs, TaskTypeOK, Held, Finish, Call
<1>3. TaskOK'
  <2>1. ASSUME NEW v \in Workers, v # w PROVE Held(v)'
    <3>1. UNCHANGED <<kind, pc[v], job[v], plan[v], exc[v], act[v], jvm[v], monitor[v]>>
      BY <2>1, <1>1 DEF TypeOK, TaskTypeOK, SparkTypeOK, Finish, Call, rowVars, taskVars,
         sparkVars
    <3>2. \A i \in Jobs : status[i] # "NONE" => status'[i] # "NONE"
      BY <1>1 DEF TypeOK, RowTypeOK, rowVars
    <3> QED
      BY <3>1, <3>2, Others
  <2>2. Held(w)'
    <3>1. UNCHANGED <<kind, status, pc, job, plan, exc, act, monitor>>
      BY DEF rowVars, taskVars
    <3>2. jvm'[w] \subseteq jvm[w]
      BY <1>1 DEF TypeOK, SparkTypeOK, Finish
    <3> QED
      BY <3>1, <3>2, <1>1 DEF Held
  <2> QED
    BY <2>1, <2>2 DEF TaskOK
<1> QED
  BY Frame, <1>2, <1>3 DEF TypeInv, TypeOK, rowVars, brokerVars, apiVars, taskVars, sparkVars

LEMMA MonitorCancelsTypes ==
  ASSUME TypeInv, NEW w \in Workers, MonitorCancels(w)
  PROVE  TypeInv'
<1> USE DEF MonitorCancels
<1>1. TypeOK /\ Held(w)
  BY DEF TypeInv, TaskOK
<1>2. pc[w] # "idle"
  BY <1>1 DEF Held
<1>3. TaskTypeOK'
  BY <1>1, <1>2, Busy DEF TypeOK, TaskTypeOK, Places, InTry, Failures, Goto, Raise,
     StopSpark, SparkOf
<1>4. SparkTypeOK'
  BY <1>1, <1>2, Busy DEF TypeOK, SparkTypeOK, Goto, Raise, StopSpark, SparkOf
<1>5. TaskOK'
  <2>1. ASSUME NEW v \in Workers, v # w PROVE Held(v)'
    <3>1. UNCHANGED <<kind, pc[v], job[v], plan[v], exc[v], act[v], jvm[v], monitor[v]>>
      BY <2>1, <1>1 DEF TypeOK, TaskTypeOK, SparkTypeOK, Goto, Raise, StopSpark, SparkOf,
         rowVars, taskVars, sparkVars
    <3>2. \A i \in Jobs : status[i] # "NONE" => status'[i] # "NONE"
      BY <1>1 DEF TypeOK, RowTypeOK, rowVars
    <3> QED
      BY <3>1, <3>2, Others
  <2>2. Held(w)'
    <3>1. jvm'[w] \subseteq jvm[w] /\ UNCHANGED <<status, kind, job, plan, act>>
      BY <1>1 DEF TypeOK, SparkTypeOK, StopSpark, SparkOf, rowVars
    <3>2. CASE Raise(w, "permanent")
      <4>1. pc'[w] = "handle"
        BY <3>2, <1>1 DEF TypeOK, TaskTypeOK, Goto, Raise
      <4> QED
        BY <4>1, <3>1, <1>2, Raised
    <3>3. CASE UNCHANGED <<pc, exc>>
      BY <3>1, <3>3, <1>1, <1>2 DEF Held
    <3> QED
      BY <3>2, <3>3
  <2> QED
    BY <2>1, <2>2 DEF TaskOK
<1> QED
  BY Frame, <1>3, <1>4, <1>5 DEF TypeInv, TypeOK, rowVars, brokerVars, apiVars, taskVars,
     sparkVars

LEMMA SoftTimeLimitTypes ==
  ASSUME TypeInv, NEW w \in Workers, SoftTimeLimit(w)
  PROVE  TypeInv'
<1> USE DEF SoftTimeLimit
<1>1. TypeOK /\ Held(w)
  BY DEF TypeInv, TaskOK
<1>2. pc[w] # "idle"
  BY DEF InTry
<1>3. TaskTypeOK'
  BY <1>1, <1>2, Busy DEF TypeOK, TaskTypeOK, Places, InTry, Failures, Raise, Goto
<1>4. SparkTypeOK'
  BY <1>1, <1>2, Busy DEF TypeOK, SparkTypeOK, Raise, Goto
<1>5. TaskOK'
  <2>1. ASSUME NEW v \in Workers, v # w PROVE Held(v)'
    <3>1. UNCHANGED <<kind, pc[v], job[v], plan[v], exc[v], act[v], jvm[v], monitor[v]>>
      BY <2>1, <1>1 DEF TypeOK, TaskTypeOK, SparkTypeOK, Raise, Goto, rowVars, taskVars,
         sparkVars
    <3>2. \A i \in Jobs : status[i] # "NONE" => status'[i] # "NONE"
      BY <1>1 DEF TypeOK, RowTypeOK, rowVars
    <3> QED
      BY <3>1, <3>2, Others
  <2>2. Held(w)'
    <3>1. pc'[w] = "handle"
      BY <1>1 DEF TypeOK, TaskTypeOK, Goto, Raise
    <3>2. jvm'[w] \subseteq jvm[w] /\ UNCHANGED <<status, kind, job>>
      BY DEF rowVars
    <3> QED
      BY <3>1, <3>2, <1>2, Raised
  <2> QED
    BY <2>1, <2>2 DEF TaskOK
<1> QED
  BY Frame, <1>3, <1>4, <1>5 DEF TypeInv, TypeOK, rowVars, brokerVars, apiVars, taskVars,
     sparkVars

LEMMA NextTypes ==
  ASSUME TypeInv, [Next]_vars
  PROVE  TypeInv'
<1>1. CASE UNCHANGED vars
  BY <1>1, Frame DEF TypeInv, TypeOK, vars, rowVars, brokerVars, apiVars, taskVars, sparkVars
<1>2. ASSUME NEW j \in Jobs, ApiStep(j) PROVE TypeInv'
  BY <1>2, CreateJobTypes, EnqueueJobTypes, EnqueueFailsTypes, CancelJobTypes, FlagJobTypes,
     ConfirmFlagTypes, RevokeJobTypes DEF ApiStep
<1>3. ASSUME NEW j \in Jobs, ReceiveJob(j) PROVE TypeInv'
  BY <1>3, ReceiveTypes DEF ReceiveJob
<1>4. ASSUME NEW w \in Workers, TaskStep(w) PROVE TypeInv'
  BY <1>4, BeginTypes, LoadJobTypes, AskLLMTypes, SaveAnswerTypes, CheckCancelTypes,
     ConnectTypes, LaunchSparkTypes, SucceedTypes, HandleFailureTypes, RecordFailureTypes,
     PublishRetryTypes, RetryFailsTypes, AckTypes
     DEF TaskStep
<1>5. ASSUME NEW w \in Workers, SparkStep(w) PROVE TypeInv'
  BY <1>5, SparkReturnsTypes, SparkFailsTypes, MonitorCancelsTypes, SoftTimeLimitTypes DEF
     SparkStep
<1>6. ASSUME NEW w \in Workers, WorkerStep(w) PROVE TypeInv'
  BY <1>4, <1>5, <1>6, OrphanEndsTypes, RedeliverTypes, CrashTypes, LimitEscapesTypes DEF
     WorkerStep
<1> QED
  BY <1>1, <1>2, <1>3, <1>6, DropRevokedTypes DEF Next

\* Every value stays in the set its code gives it, for any jobs, workers and faults.
THEOREM TypeCorrect == Spec => []TypeOK
<1>1. Spec => []TypeInv
  BY InitTypeInv, NextTypes, PTL DEF Spec
<1>2. TypeInv => TypeOK
  BY DEF TypeInv
<1> QED
  BY <1>1, <1>2, PTL

-----------------------------------------------------------------------------
(* The life cycle of a job's row, its messages and its cancellation.  The argument *)
(* rests on TypeInv and on Lifecycle: what any step may do to one row.             *)

\* The steps that write the row of some job.
RowStep ==
    \/ \E j \in Jobs : CreateJob(j) \/ CancelJob(j) \/ FlagJob(j)
    \/ \E w \in Workers : Begin(w) \/ SaveAnswer(w) \/ Succeed(w) \/ RecordFailure(w)

LEMMA RowSteps ==
  ASSUME [Next]_vars
  PROVE  RowStep \/ UNCHANGED rowVars
<1>1. ASSUME NEW j \in Jobs, ApiStep(j) PROVE RowStep \/ UNCHANGED rowVars
  BY <1>1 DEF ApiStep, RowStep, EnqueueJob, EnqueueFails, ConfirmFlag, RevokeJob
<1>2. ASSUME NEW w \in Workers, TaskStep(w) PROVE RowStep \/ UNCHANGED rowVars
  BY <1>2 DEF TaskStep, RowStep, LoadJob, AskLLM, CheckCancel, Connect, LaunchSpark,
     HandleFailure, PublishRetry, RetryFails, Ack
<1>3. ASSUME NEW w \in Workers, SparkStep(w) PROVE UNCHANGED rowVars
  BY <1>3 DEF SparkStep, SparkReturns, SparkFails, MonitorCancels, SoftTimeLimit
<1>4. ASSUME NEW w \in Workers, WorkerStep(w) PROVE RowStep \/ UNCHANGED rowVars
  BY <1>2, <1>3, <1>4 DEF WorkerStep, OrphanEnds, Redeliver, Crash, LimitEscapes
<1>5. ASSUME NEW j \in Jobs, NEW r \in Tries, DropRevoked(j, r) PROVE UNCHANGED rowVars
  BY <1>5 DEF DropRevoked
<1>6. ASSUME NEW j \in Jobs, ReceiveJob(j) PROVE UNCHANGED rowVars
  BY <1>6 DEF ReceiveJob, Receive
<1>7. CASE UNCHANGED vars
  BY <1>7 DEF vars, rowVars
<1> QED
  BY <1>1, <1>4, <1>5, <1>6, <1>7 DEF Next

\* A run has started: from here the job only moves on to an end.
Going == {"RUNNING"} \cup Terminal

\* What a step may do to the row of job i.
RowMoves(i) ==
    /\ status[i] \in Terminal => UNCHANGED <<status[i], error[i], result[i]>>
    /\ status[i] \in Going => status'[i] \in Going
    /\ status[i] # "NONE" => status'[i] # "NONE"
    /\ status[i] # "QUEUED" /\ status[i] # "NONE" => status'[i] # "QUEUED"
    /\ flagged[i] => flagged'[i]
    /\ kind'[i] = kind[i]
    /\ started[i] => started'[i]
    /\ status[i] = "FAILED" /\ ~started[i] => ~started'[i]

LEMMA Lifecycle ==
  ASSUME TypeInv, [Next]_vars, NEW i \in Jobs
  PROVE  RowMoves(i)
<1> USE DEF RowMoves, Going, Terminal
<1>0. RowTypeOK
  BY DEF TypeInv, TypeOK
<1>1. ASSUME NEW j \in Jobs, CreateJob(j) PROVE RowMoves(i)
  BY <1>0, <1>1 DEF CreateJob, RowTypeOK, SetStatus, TypeInv, RowOK, Stored
<1>2. ASSUME NEW j \in Jobs, CancelJob(j) PROVE RowMoves(i)
  BY <1>0, <1>2 DEF CancelJob, RowTypeOK, SetStatus
<1>3. ASSUME NEW j \in Jobs, FlagJob(j) PROVE RowMoves(i)
  BY <1>0, <1>3 DEF FlagJob, RowTypeOK
<1>4. ASSUME NEW w \in Workers, Begin(w) PROVE RowMoves(i)
  <2>1. job[w] \in Jobs
    BY <1>4, Busy DEF Begin
  <2>2. UNCHANGED <<result, flagged, kind>>
    BY <1>4 DEF Begin
  <2>3. CASE UNCHANGED <<status, started, error>>
    BY <2>2, <2>3
  <2>4. CASE Allowed(job[w], "RUNNING") /\ SetStatus(job[w], "RUNNING")
    <3>1. status[job[w]] \in {"QUEUED", "RUNNING"}
      BY <2>4 DEF Allowed, Sources
    <3>2. status' = [status EXCEPT ![job[w]] = "RUNNING"]
      BY <2>4 DEF SetStatus
    <3>3. status[i] \in Terminal => error'[i] = error[i]
      BY <1>0, <1>4, <2>1, <2>4, <3>1 DEF Begin, RowTypeOK
    <3>4. started[i] => started'[i]
      BY <1>0, <1>4, <2>1 DEF Begin, RowTypeOK
    <3>5. i # job[w] => UNCHANGED <<status[i], started[i]>>
      BY <1>0, <1>4, <2>1, <3>2 DEF Begin, RowTypeOK
    <3>6. status'[job[w]] = "RUNNING"
      BY <1>0, <2>1, <3>2 DEF RowTypeOK
    <3> QED
      BY <2>2, <3>1, <3>3, <3>4, <3>5, <3>6
  <2> QED
    BY <1>4, <2>3, <2>4 DEF Begin
<1>5. ASSUME NEW w \in Workers, SaveAnswer(w) PROVE RowMoves(i)
  BY <1>0, <1>5, Busy DEF SaveAnswer, RowTypeOK
<1>6. ASSUME NEW w \in Workers, Succeed(w) PROVE RowMoves(i)
  BY <1>0, <1>6, Busy DEF Succeed, RowTypeOK, SetStatus, Allowed, Sources
<1>7. ASSUME NEW w \in Workers, RecordFailure(w) PROVE RowMoves(i)
  BY <1>0, <1>7, Busy DEF RecordFailure, RowTypeOK, SetStatus, Allowed, Sources
<1>8. CASE UNCHANGED rowVars
  BY <1>8 DEF rowVars
<1> QED
  BY <1>1, <1>2, <1>3, <1>4, <1>5, <1>6, <1>7, <1>8, RowSteps DEF RowStep

\* The status, error code and counts of a finished job never change again, whatever runs,
\* retries, redelivered messages and cancels of it are still under way.
THEOREM FinishedForGood == Spec => FinishedStays
<1>1. Spec => []TypeInv
  BY InitTypeInv, NextTypes, PTL DEF Spec
<1>2. TypeInv /\ [Next]_vars =>
        [\A j \in Jobs : status[j] \in Terminal =>
            UNCHANGED <<status[j], error[j], result[j]>>]_vars
  BY Lifecycle DEF RowMoves
<1> QED
  BY <1>1, <1>2, PTL DEF Spec, FinishedStays

\* The steps that move a task in run_job.
TaskMove ==
    \/ \E w \in Workers, j \in Jobs, r \in Tries : Receive(w, j, r)
    \/ \E w \in Workers : TaskStep(w) \/ SparkStep(w) \/ Crash(w) \/ LimitEscapes(w)

LEMMA TaskMoves ==
  ASSUME [Next]_vars
  PROVE  TaskMove \/ UNCHANGED <<pc, job, tries, kind>>
<1>1. ASSUME NEW j \in Jobs, ApiStep(j) PROVE UNCHANGED <<pc, job, tries, kind>>
  BY <1>1 DEF ApiStep, CreateJob, CancelJob, FlagJob, EnqueueJob, EnqueueFails, ConfirmFlag,
     RevokeJob, taskVars, rowVars
<1>2. ASSUME NEW w \in Workers, WorkerStep(w) PROVE TaskMove \/ UNCHANGED <<pc, job, tries, kind>>
  BY <1>2 DEF WorkerStep, TaskMove, OrphanEnds, Redeliver, taskVars, rowVars
<1>3. ASSUME NEW j \in Jobs, NEW r \in Tries, DropRevoked(j, r)
      PROVE  UNCHANGED <<pc, job, tries, kind>>
  BY <1>3 DEF DropRevoked, taskVars, rowVars
<1>4. CASE UNCHANGED vars
  BY <1>4 DEF vars, taskVars, rowVars
<1> QED
  BY <1>1, <1>2, <1>3, <1>4 DEF Next, TaskMove, ReceiveJob

\* What a step may do to the place of worker v's task.
RunMoves(v) ==
    /\ pc'[v] # "idle" => job'[v] = job[v] \/ pc'[v] = "begin"
    /\ pc'[v] \notin {"idle", "begin", "ack"} =>
         /\ job'[v] = job[v]
         /\ pc[v] \notin {"idle", "ack"}
         /\ pc[v] = "begin" => status'[job[v]] = "RUNNING" /\ started'[job[v]]
    /\ PastSparkCheck(v)' => PastSparkCheck(v) \/ ~flagged[job[v]]
    /\ pc'[v] = "retry" /\ pc[v] # "retry" => tries'[v] < MaxRetries
    /\ pc'[v] = "retry" => tries'[v] = tries[v]

LEMMA RunSteps ==
  ASSUME TypeInv, [Next]_vars, NEW v \in Workers
  PROVE  RunMoves(v)
<1> USE DEF RunMoves
<1>0. TypeOK /\ Held(v)
  BY DEF TypeInv, TaskOK
<1>1. CASE UNCHANGED <<pc, job, tries, kind>>
  BY <1>1, <1>0, Lifecycle DEF PastSparkCheck, RowMoves, TypeOK, Held
<1>2. ASSUME NEW w \in Workers, NEW j \in Jobs, NEW r \in Tries, Receive(w, j, r) PROVE RunMoves(v)
  BY <1>0, <1>2 DEF Receive, Goto, PastSparkCheck, TypeOK, TaskTypeOK, rowVars, taskVars
<1>3. ASSUME NEW w \in Workers, Ack(w) PROVE RunMoves(v)
  BY <1>0, <1>3 DEF Ack, Leave, Goto, PastSparkCheck, TypeOK, TaskTypeOK, rowVars, taskVars
<1>4. ASSUME NEW w \in Workers, Crash(w) PROVE RunMoves(v)
  BY <1>0, <1>4 DEF Crash, Leave, Goto, PastSparkCheck, TypeOK, TaskTypeOK, rowVars, taskVars
<1>5. ASSUME NEW w \in Workers, LimitEscapes(w) PROVE RunMoves(v)
  BY <1>0, <1>5 DEF LimitEscapes, Leave, Goto, PastSparkCheck, TypeOK, TaskTypeOK, rowVars,
     taskVars
<1>6. ASSUME NEW w \in Workers, Begin(w) PROVE RunMoves(v)
  <2>1. job' = job /\ kind' = kind
    BY <1>6 DEF Begin
  <2>2. pc'[w] = "ack" \/ (pc'[w] = "load" /\ status'[job[w]] = "RUNNING" /\ started'[job[w]])
    <3>1. job[w] \in Jobs
      BY <1>6, Busy DEF Begin
    <3>2. CASE Goto(w, "ack")
      BY <1>0, <3>2 DEF Goto, TypeOK, TaskTypeOK
    <3>3. CASE /\ SetStatus(job[w], "RUNNING") /\ Goto(w, "load")
               /\ started' = [started EXCEPT ![job[w]] = TRUE]
      BY <1>0, <3>1, <3>3 DEF SetStatus, Goto, TypeOK, TaskTypeOK, RowTypeOK
    <3> QED
      BY <1>6, <3>2, <3>3 DEF Begin
  <2>3. pc[w] = "begin" /\ (v # w => pc'[v] = pc[v])
    BY <1>0, <1>6 DEF Begin, Goto, TypeOK, TaskTypeOK
  <2>4. tries' = tries
    BY <1>6 DEF Begin
  <2> QED
    BY <2>1, <2>2, <2>3, <2>4 DEF PastSparkCheck
<1>7. ASSUME NEW w \in Workers, LoadJob(w) PROVE RunMoves(v)
  BY <1>0, <1>7 DEF LoadJob, Goto, Raise, PastSparkCheck, TypeOK, TaskTypeOK, rowVars, taskVars
<1>8. ASSUME NEW w \in Workers, AskLLM(w) PROVE RunMoves(v)
  BY <1>0, <1>8 DEF AskLLM, Goto, Raise, PastSparkCheck, TypeOK, TaskTypeOK, rowVars, taskVars
<1>9. ASSUME NEW w \in Workers, SaveAnswer(w) PROVE RunMoves(v)
  BY <1>0, <1>9 DEF SaveAnswer, Goto, PastSparkCheck, TypeOK, TaskTypeOK, rowVars, taskVars
<1>10. ASSUME NEW w \in Workers, CheckCancel(w) PROVE RunMoves(v)
  BY <1>0, <1>10 DEF CheckCancel, Goto, Raise, AfterCheck, PastSparkCheck, TypeOK,
     TaskTypeOK, rowVars, taskVars
<1>11. ASSUME NEW w \in Workers, Connect(w) PROVE RunMoves(v)
  BY <1>0, <1>11 DEF Connect, Goto, Raise, PastSparkCheck, TypeOK, TaskTypeOK, rowVars, taskVars
<1>12. ASSUME NEW w \in Workers, Succeed(w) PROVE RunMoves(v)
  BY <1>0, <1>12 DEF Succeed, Goto, PastSparkCheck, TypeOK, TaskTypeOK, rowVars, taskVars
<1>13. ASSUME NEW w \in Workers, HandleFailure(w) PROVE RunMoves(v)
  BY <1>0, <1>13 DEF HandleFailure, Goto, Settle, PastSparkCheck, TypeOK, TaskTypeOK,
     rowVars, taskVars
<1>14. ASSUME NEW w \in Workers, RecordFailure(w) PROVE RunMoves(v)
  BY <1>0, <1>14 DEF RecordFailure, Goto, PastSparkCheck, TypeOK, TaskTypeOK, rowVars, taskVars
<1>15. ASSUME NEW w \in Workers, PublishRetry(w) PROVE RunMoves(v)
  BY <1>0, <1>15 DEF PublishRetry, Goto, PastSparkCheck, TypeOK, TaskTypeOK, rowVars, taskVars
<1>16. ASSUME NEW w \in Workers, RetryFails(w) PROVE RunMoves(v)
  BY <1>0, <1>16 DEF RetryFails, Goto, PastSparkCheck, TypeOK, TaskTypeOK, rowVars, taskVars
<1>17. ASSUME NEW w \in Workers, LaunchSpark(w) PROVE RunMoves(v)
  BY <1>0, <1>17 DEF LaunchSpark, Goto, PastSparkCheck, TypeOK, TaskTypeOK, rowVars, taskVars
<1>18. ASSUME NEW w \in Workers, SparkReturns(w) PROVE RunMoves(v)
  BY <1>0, <1>18 DEF SparkReturns, Goto, PastSparkCheck, TypeOK, TaskTypeOK, rowVars, taskVars
<1>19. ASSUME NEW w \in Workers, SparkFails(w) PROVE RunMoves(v)
  BY <1>0, <1>19 DEF SparkFails, Goto, Raise, PastSparkCheck, TypeOK, TaskTypeOK, rowVars,
     taskVars
<1>20. ASSUME NEW w \in Workers, MonitorCancels(w) PROVE RunMoves(v)
  BY <1>0, <1>20 DEF MonitorCancels, Goto, Raise, Held, SparkTypeOK, PastSparkCheck, TypeOK,
     TaskTypeOK, rowVars, taskVars
<1>21. ASSUME NEW w \in Workers, SoftTimeLimit(w) PROVE RunMoves(v)
  BY <1>0, <1>21 DEF SoftTimeLimit, Raise, Goto, InTry, PastSparkCheck, TypeOK, TaskTypeOK,
     rowVars, taskVars
<1> QED
  BY <1>1, <1>2, <1>3, <1>4, <1>5, <1>6, <1>7, <1>8, <1>9, <1>10, <1>11, <1>12, <1>13,
     <1>14, <1>15, <1>16, <1>17, <1>18, <1>19, <1>20, <1>21, TaskMoves DEF TaskMove,
     TaskStep, SparkStep

\* The steps that reach into a JVM or an output directory.
JvmMove ==
    \E w \in Workers :
        \/ Crash(w) \/ LimitEscapes(w) \/ HandleFailure(w) \/ LaunchSpark(w)
        \/ SparkReturns(w) \/ SparkFails(w) \/ OrphanEnds(w) \/ MonitorCancels(w)

LEMMA JvmMoves ==
  ASSUME [Next]_vars
  PROVE  JvmMove \/ UNCHANGED <<jvm, output>>
<1>1. ASSUME NEW j \in Jobs, ApiStep(j) PROVE UNCHANGED <<jvm, output>>
  BY <1>1 DEF ApiStep, CreateJob, CancelJob, FlagJob, EnqueueJob, EnqueueFails, ConfirmFlag,
     RevokeJob, sparkVars
<1>2. ASSUME NEW w \in Workers, WorkerStep(w) PROVE JvmMove \/ UNCHANGED <<jvm, output>>
  BY <1>2 DEF WorkerStep, TaskStep, SparkStep, JvmMove, Begin, LoadJob, AskLLM, SaveAnswer,
     CheckCancel, Connect, Succeed, RecordFailure, PublishRetry, RetryFails, Ack, SoftTimeLimit,
     Redeliver, sparkVars
<1>3. ASSUME NEW j \in Jobs, NEW r \in Tries, DropRevoked(j, r) PROVE UNCHANGED <<jvm, output>>
  BY <1>3 DEF DropRevoked, sparkVars
<1>4. ASSUME NEW j \in Jobs, ReceiveJob(j) PROVE UNCHANGED <<jvm, output>>
  BY <1>4 DEF ReceiveJob, Receive, sparkVars
<1>5. CASE UNCHANGED vars
  BY <1>5 DEF vars, sparkVars
<1> QED
  BY <1>1, <1>2, <1>3, <1>4, <1>5 DEF Next

\* A run of job i is in Spark, or a JVM still works for it.
MayWork(i) ==
    \/ SparkWorksOn(i)
    \/ \E w \in Workers : job[w] = i /\ pc[w] \in {"launch", "running"}

\* Spark works for a job, and its output changes, only through such a run.
LEMMA SparkSteps ==
  ASSUME TypeInv, [Next]_vars, NEW i \in Jobs, ~MayWork(i)
  PROVE  ~SparkWorksOn(i)' /\ output'[i] = output[i]
<1> USE DEF MayWork, SparkWorksOn
<1>0. SparkTypeOK
  BY DEF TypeInv, TypeOK
<1>1. CASE UNCHANGED <<jvm, output>>
  BY <1>1
<1>2. ASSUME NEW w \in Workers, Crash(w) PROVE ~SparkWorksOn(i)' /\ output'[i] = output[i]
  BY <1>0, <1>2 DEF Crash, SparkTypeOK, SparkWork
<1>3. ASSUME NEW w \in Workers, LimitEscapes(w) PROVE ~SparkWorksOn(i)' /\ output'[i] = output[i]
  BY <1>0, <1>3 DEF LimitEscapes, SparkTypeOK, SparkWork
<1>4. ASSUME NEW w \in Workers, HandleFailure(w) PROVE ~SparkWorksOn(i)' /\ output'[i] = output[i]
  BY <1>0, <1>4 DEF HandleFailure, StopSpark, SparkOf, SparkTypeOK, SparkWork
<1>5. ASSUME NEW w \in Workers, LaunchSpark(w) PROVE ~SparkWorksOn(i)' /\ output'[i] = output[i]
  BY <1>0, <1>5 DEF LaunchSpark, Call, SparkTypeOK, SparkWork
<1>6. ASSUME NEW w \in Workers, SparkReturns(w) PROVE ~SparkWorksOn(i)' /\ output'[i] = output[i]
  BY <1>0, <1>6 DEF SparkReturns, Call, Finish, SparkTypeOK, SparkWork
<1>7. ASSUME NEW w \in Workers, SparkFails(w) PROVE ~SparkWorksOn(i)' /\ output'[i] = output[i]
  BY <1>0, <1>7 DEF SparkFails, Call, SparkTypeOK, SparkWork
<1>8. ASSUME NEW w \in Workers, OrphanEnds(w) PROVE ~SparkWorksOn(i)' /\ output'[i] = output[i]
  BY <1>0, <1>8 DEF OrphanEnds, Finish, Call, SparkTypeOK, SparkWork
<1>9. ASSUME NEW w \in Workers, MonitorCancels(w) PROVE ~SparkWorksOn(i)' /\ output'[i] = output[i]
  BY <1>0, <1>9 DEF MonitorCancels, StopSpark, SparkOf, SparkTypeOK, SparkWork
<1> QED
  BY <1>1, <1>2, <1>3, <1>4, <1>5, <1>6, <1>7, <1>8, <1>9, JvmMoves DEF JvmMove

\* Once a flagged job is between two runs, or early in one, no run of it gets to Spark.
THEOREM CancelStops == Spec => CancelStopsLaterRuns
<1>1. Spec => []TypeInv
  BY InitTypeInv, NextTypes, PTL DEF Spec
<1>2. ASSUME TypeInv, [Next]_vars, NEW j \in Jobs, flagged[j], Quiet(j)
      PROVE  Quiet(j)'
  <2>1. ~MayWork(j)
    BY <1>2 DEF Quiet, MayWork, PastSparkCheck
  <2>2. ~SparkWorksOn(j)'
    BY <1>2, <2>1, SparkSteps
  <2>3. ASSUME NEW v \in Workers, job'[v] = j, PastSparkCheck(v)' PROVE FALSE
    <3>1. RunMoves(v)
      BY <1>2, RunSteps
    <3>2. pc'[v] \notin {"idle", "begin", "ack"}
      BY <2>3 DEF PastSparkCheck
    <3>3. job[v] = j
      BY <3>1, <3>2, <2>3 DEF RunMoves
    <3> QED
      BY <3>1, <3>3, <2>3, <1>2 DEF RunMoves, Quiet
  <2> QED
    BY <2>2, <2>3 DEF Quiet
<1>3. TypeInv /\ [Next]_vars => [\A j \in Jobs : flagged[j] /\ Quiet(j) => Quiet(j)']_vars
  BY <1>2
<1> QED
  BY <1>1, <1>3, PTL DEF Spec, CancelStopsLaterRuns

\* A job that has not started: its messages may be about, but no run of it got anywhere.
Fresh(i) ==
    /\ output[i] = "absent"
    /\ ~SparkWorksOn(i)
    /\ \A w \in Workers : job[w] = i => pc[w] \in {"idle", "begin", "ack"}

FreshInv == \A i \in Jobs : ~started[i] => Fresh(i)

LEMMA FreshSteps ==
  ASSUME TypeInv, FreshInv, [Next]_vars
  PROVE  FreshInv'
<1> SUFFICES ASSUME NEW i \in Jobs, ~started'[i] PROVE Fresh(i)'
  BY DEF FreshInv
<1>1. ~started[i] /\ Fresh(i)
  BY Lifecycle DEF RowMoves, FreshInv
<1>2. ~SparkWorksOn(i)' /\ output'[i] = "absent"
  BY <1>1, SparkSteps DEF Fresh, MayWork
<1>3. ASSUME NEW w \in Workers, job'[w] = i PROVE pc'[w] \in {"idle", "begin", "ack"}
  <2>1. RunMoves(w)
    BY RunSteps
  <2> QED
    BY <2>1, <1>1, <1>3 DEF RunMoves, Fresh
<1> QED
  BY <1>2, <1>3 DEF Fresh

\* A job cancelled before any run of it started stays untouched for ever.
THEOREM CancelledInQueue == Spec => CancelledInQueueNeverRuns
<1>1. Init => TypeInv /\ FreshInv
  <2> SUFFICES ASSUME Init PROVE TypeInv /\ FreshInv
    OBVIOUS
  <2>1. \A i \in Jobs : output[i] = "absent"
    BY DEF Init
  <2>2. \A w \in Workers : pc[w] = "idle" /\ jvm[w] = {}
    BY DEF Init
  <2> QED
    BY <2>1, <2>2, InitTypeInv DEF FreshInv, Fresh, SparkWorksOn
<1>2. TypeInv /\ FreshInv /\ [Next]_vars => (TypeInv /\ FreshInv)'
  BY NextTypes, FreshSteps
<1>3. TypeInv /\ FreshInv /\ [Next]_vars =>
        [\A j \in Jobs : status[j] = "FAILED" /\ ~started[j] =>
            ~started'[j] /\ output'[j] = "absent" /\ ~SparkWorksOn(j)']_vars
  <2> SUFFICES ASSUME TypeInv, FreshInv, [Next]_vars, NEW j \in Jobs, status[j] = "FAILED",
                      ~started[j]
               PROVE  ~started'[j] /\ output'[j] = "absent" /\ ~SparkWorksOn(j)'
    OBVIOUS
  <2>1. ~started'[j]
    BY Lifecycle DEF RowMoves
  <2> QED
    BY <2>1, FreshSteps DEF FreshInv, Fresh
<1> QED
  BY <1>1, <1>2, <1>3, PTL DEF Spec, CancelledInQueueNeverRuns

\* What the place of a cancel request says about the job it is for.
CancelOK(i) ==
    /\ cancel[i] = "flag" => status[i] \in Going
    /\ cancel[i] = "confirm" => status[i] \in Terminal \/ (status[i] = "RUNNING" /\ flagged[i])
    /\ cancel[i] = "refused" => status[i] \in Terminal
    /\ cancel[i] = "revoke" \/ i \in revoked => status[i] = "FAILED"

CancelInv == \A i \in Jobs : CancelOK(i)

\* The steps of cancel_job.
CancelMove == \E j \in Jobs : CancelJob(j) \/ FlagJob(j) \/ ConfirmFlag(j) \/ RevokeJob(j)

LEMMA CancelMoves ==
  ASSUME [Next]_vars
  PROVE  CancelMove \/ UNCHANGED <<cancel, revoked>>
<1>1. ASSUME NEW j \in Jobs, ApiStep(j) PROVE CancelMove \/ UNCHANGED <<cancel, revoked>>
  BY <1>1 DEF ApiStep, CancelMove, CreateJob, EnqueueJob, EnqueueFails, brokerVars
<1>2. ASSUME NEW w \in Workers, WorkerStep(w) PROVE UNCHANGED <<cancel, revoked>>
  <2>1. ASSUME TaskStep(w) PROVE UNCHANGED <<cancel, revoked>>
    BY <2>1 DEF TaskStep, Begin, LoadJob, AskLLM, SaveAnswer, CheckCancel, Connect, LaunchSpark,
       Succeed, HandleFailure, RecordFailure, PublishRetry, RetryFails, Ack, brokerVars, apiVars
  <2>2. ASSUME SparkStep(w) PROVE UNCHANGED <<cancel, revoked>>
    BY <2>2 DEF SparkStep, SparkReturns, SparkFails, MonitorCancels, SoftTimeLimit, brokerVars,
       apiVars
  <2> QED
    BY <1>2, <2>1, <2>2 DEF WorkerStep, OrphanEnds, Redeliver, Crash, LimitEscapes, brokerVars,
       apiVars
<1>3. ASSUME NEW j \in Jobs, NEW r \in Tries, DropRevoked(j, r) PROVE UNCHANGED <<cancel, revoked>>
  BY <1>3 DEF DropRevoked, apiVars
<1>4. ASSUME NEW j \in Jobs, ReceiveJob(j) PROVE UNCHANGED <<cancel, revoked>>
  BY <1>4 DEF ReceiveJob, Receive, apiVars
<1>5. CASE UNCHANGED vars
  BY <1>5 DEF vars, brokerVars, apiVars
<1> QED
  BY <1>1, <1>2, <1>3, <1>4, <1>5 DEF Next

LEMMA CancelSteps ==
  ASSUME TypeInv, CancelInv, [Next]_vars
  PROVE  CancelInv'
<1> SUFFICES ASSUME NEW i \in Jobs PROVE CancelOK(i)'
  BY DEF CancelInv
<1>0. CancelOK(i) /\ RowMoves(i) /\ Stored(i) /\ RowTypeOK /\ ApiTypeOK
  BY Lifecycle DEF CancelInv, TypeInv, TypeOK, RowOK
<1>1. CASE UNCHANGED <<cancel, revoked>>
  <2>1. status[i] \in Going => status'[i] \in Going
    BY <1>0 DEF RowMoves
  <2>2. status[i] \in Terminal => status'[i] = status[i]
    BY <1>0 DEF RowMoves
  <2>3. flagged[i] => flagged'[i]
    BY <1>0 DEF RowMoves
  <2> QED
    BY <1>0, <1>1, <2>1, <2>2, <2>3 DEF CancelOK, Going, Terminal
<1>2. ASSUME NEW j \in Jobs, CancelJob(j) PROVE CancelOK(i)'
  <2>1. status[j] # "NONE" /\ UNCHANGED revoked
    BY <1>2 DEF CancelJob, brokerVars, TypeInv, RowOK, Stored
  <2>2. i # j => UNCHANGED <<status[i], flagged[i], cancel[i]>>
    BY <1>0, <1>2 DEF CancelJob, SetStatus, RowTypeOK, ApiTypeOK
  <2>3. CASE status[j] = "QUEUED"
    <3>1. status'[j] = "FAILED" /\ cancel'[j] = "revoke"
      BY <1>0, <1>2, <2>3 DEF CancelJob, SetStatus, RowTypeOK, ApiTypeOK
    <3> QED
      BY <1>0, <2>1, <2>2, <3>1 DEF CancelOK
  <2>4. CASE status[j] # "QUEUED"
    <3>1. UNCHANGED <<status, flagged>> /\ cancel'[j] = "flag" /\ cancel[j] = "idle"
      BY <1>0, <1>2, <2>4 DEF CancelJob, ApiTypeOK
    <3>2. status[j] \in Going
      BY <1>0, <2>1, <2>4 DEF Going, Terminal, RowTypeOK
    <3> QED
      BY <1>0, <2>1, <2>2, <3>1, <3>2 DEF CancelOK
  <2> QED
    BY <2>3, <2>4
<1>3. ASSUME NEW j \in Jobs, FlagJob(j) PROVE CancelOK(i)'
  BY <1>0, <1>3 DEF FlagJob, CancelOK, Going, Terminal, RowTypeOK, ApiTypeOK, brokerVars
<1>4. ASSUME NEW j \in Jobs, ConfirmFlag(j) PROVE CancelOK(i)'
  BY <1>0, <1>4 DEF ConfirmFlag, CancelOK, Going, Terminal, RowTypeOK, ApiTypeOK, brokerVars,
     rowVars
<1>5. ASSUME NEW j \in Jobs, RevokeJob(j) PROVE CancelOK(i)'
  BY <1>0, <1>5 DEF RevokeJob, CancelOK, Going, Terminal, RowTypeOK, ApiTypeOK, rowVars
<1> QED
  BY <1>1, <1>2, <1>3, <1>4, <1>5, CancelMoves DEF CancelMove

LEMMA CancelInvariant == Spec => [](TypeInv /\ CancelInv)
<1>1. Init => TypeInv /\ CancelInv
  <2> SUFFICES ASSUME Init PROVE TypeInv /\ CancelInv
    OBVIOUS
  <2>1. \A i \in Jobs : cancel[i] = "idle" /\ i \notin revoked
    BY DEF Init
  <2> QED
    BY <2>1, InitTypeInv DEF CancelInv, CancelOK
<1>2. TypeInv /\ CancelInv /\ [Next]_vars => (TypeInv /\ CancelInv)'
  BY NextTypes, CancelSteps
<1> QED
  BY <1>1, <1>2, PTL DEF Spec

\* A cancel is refused only to a job that has finished, whoever finished it meanwhile.
THEOREM RefusedOnlyWhenFinished == Spec => []RefusedIsFinished
<1>1. CancelInv => RefusedIsFinished
  BY DEF CancelInv, CancelOK, RefusedIsFinished
<1> QED
  BY <1>1, CancelInvariant, PTL

-----------------------------------------------------------------------------
(* No submitted job is lost, however workers crash and messages are repeated, as   *)
(* long as messages can be published and no time limit strikes outside a handler.  *)

\* A task past its first statement works on a job whose run has started, and retries
\* only while retries are left.
RunningOK ==
    \A w \in Workers :
        /\ pc[w] \notin {"idle", "begin", "ack"} => status[job[w]] \in Going
        /\ pc[w] = "retry" => tries[w] < MaxRetries

DeliveryInv == TypeInv /\ CancelInv /\ RunningOK /\ NoJobStranded

NoLoss == Faults \cap {"publish", "limit"} = {}

LEMMA RunningSteps ==
  ASSUME TypeInv, RunningOK, [Next]_vars
  PROVE  RunningOK'
<1> SUFFICES ASSUME NEW w \in Workers
             PROVE  /\ pc'[w] \notin {"idle", "begin", "ack"} => status'[job'[w]] \in Going
                    /\ pc'[w] = "retry" => tries'[w] < MaxRetries
  BY DEF RunningOK
<1>1. RunMoves(w)
  BY RunSteps
<1>2. ASSUME pc'[w] \notin {"idle", "begin", "ack"} PROVE status'[job'[w]] \in Going
  <2>1. job'[w] = job[w] /\ pc[w] \notin {"idle", "ack"}
    BY <1>1, <1>2 DEF RunMoves
  <2>2. job[w] \in Jobs
    BY <2>1, Busy
  <2>3. CASE pc[w] = "begin"
    BY <1>1, <1>2, <2>1, <2>3 DEF RunMoves, Going
  <2>4. CASE pc[w] # "begin"
    BY <2>1, <2>2, <2>4, Lifecycle DEF RunningOK, RowMoves
  <2> QED
    BY <2>3, <2>4
<1>3. ASSUME pc'[w] = "retry" PROVE tries'[w] < MaxRetries
  BY <1>1, <1>3 DEF RunMoves, RunningOK
<1> QED
  BY <1>2, <1>3

\* A step that moves no message and finishes no task leaves every job in flight.
Carries(i) ==
    /\ UNCHANGED <<queue, job, owned>>
    /\ \A w \in Workers : pc'[w] \in {"idle", "ack"} => pc'[w] = pc[w]
    /\ submit'[i] = "done" => submit[i] = "done"

LEMMA CarrySteps ==
  ASSUME NEW i \in Jobs, InFlight(i), Carries(i)
  PROVE  InFlight(i)'
  BY DEF InFlight, Carries

\* The steps that move messages or finish tasks.
Delivers ==
    \/ \E j \in Jobs : EnqueueJob(j) \/ ReceiveJob(j)
    \/ \E j \in Jobs, r \in Tries : DropRevoked(j, r)
    \/ \E w \in Workers :
         \/ Redeliver(w) \/ Ack(w) \/ Crash(w) \/ Begin(w)
         \/ Succeed(w) \/ RecordFailure(w) \/ PublishRetry(w)

LEMMA OtherSteps ==
  ASSUME TypeInv, NoLoss, [Next]_vars, NEW i \in Jobs
  PROVE  Delivers \/ Carries(i)
<1> USE DEF Carries
<1>0. TaskTypeOK /\ ApiTypeOK
  BY DEF TypeInv, TypeOK
<1>1. CASE UNCHANGED vars
  BY <1>1 DEF vars, taskVars, apiVars, brokerVars
<1>2. ASSUME NEW j \in Jobs, CreateJob(j) PROVE Carries(i)
  BY <1>0, <1>2 DEF CreateJob, TaskTypeOK, ApiTypeOK, taskVars, apiVars, brokerVars
<1>3. ASSUME NEW j \in Jobs, EnqueueFails(j) PROVE Carries(i)
  BY <1>0, <1>3 DEF EnqueueFails, TaskTypeOK, ApiTypeOK, taskVars, apiVars, brokerVars
<1>4. ASSUME NEW j \in Jobs, CancelJob(j) PROVE Carries(i)
  BY <1>0, <1>4 DEF CancelJob, TaskTypeOK, ApiTypeOK, taskVars, apiVars, brokerVars
<1>5. ASSUME NEW j \in Jobs, FlagJob(j) PROVE Carries(i)
  BY <1>0, <1>5 DEF FlagJob, TaskTypeOK, ApiTypeOK, taskVars, apiVars, brokerVars
<1>6. ASSUME NEW j \in Jobs, ConfirmFlag(j) PROVE Carries(i)
  BY <1>0, <1>6 DEF ConfirmFlag, TaskTypeOK, ApiTypeOK, taskVars, apiVars, brokerVars
<1>7. ASSUME NEW j \in Jobs, RevokeJob(j) PROVE Carries(i)
  BY <1>0, <1>7 DEF RevokeJob, TaskTypeOK, ApiTypeOK, taskVars, apiVars, brokerVars
<1>8. ASSUME NEW w \in Workers, LoadJob(w) PROVE Carries(i)
  BY <1>0, <1>8 DEF LoadJob, Goto, Raise, TaskTypeOK, ApiTypeOK, taskVars, apiVars, brokerVars
<1>9. ASSUME NEW w \in Workers, AskLLM(w) PROVE Carries(i)
  BY <1>0, <1>9 DEF AskLLM, Goto, Raise, TaskTypeOK, ApiTypeOK, taskVars, apiVars, brokerVars
<1>10. ASSUME NEW w \in Workers, SaveAnswer(w) PROVE Carries(i)
  BY <1>0, <1>10 DEF SaveAnswer, Goto, TaskTypeOK, ApiTypeOK, taskVars, apiVars, brokerVars
<1>11. ASSUME NEW w \in Workers, CheckCancel(w) PROVE Carries(i)
  BY <1>0, <1>11 DEF CheckCancel, Goto, Raise, AfterCheck, TaskTypeOK, ApiTypeOK, taskVars,
     apiVars, brokerVars
<1>12. ASSUME NEW w \in Workers, Connect(w) PROVE Carries(i)
  BY <1>0, <1>12 DEF Connect, Goto, Raise, TaskTypeOK, ApiTypeOK, taskVars, apiVars, brokerVars
<1>13. ASSUME NEW w \in Workers, HandleFailure(w) PROVE Carries(i)
  BY <1>0, <1>13 DEF HandleFailure, Goto, Settle, TaskTypeOK, ApiTypeOK, taskVars, apiVars,
     brokerVars
<1>14. ASSUME NEW w \in Workers, LaunchSpark(w) PROVE Carries(i)
  BY <1>0, <1>14 DEF LaunchSpark, Goto, TaskTypeOK, ApiTypeOK, taskVars, apiVars, brokerVars
<1>15. ASSUME NEW w \in Workers, SparkReturns(w) PROVE Carries(i)
  BY <1>0, <1>15 DEF SparkReturns, Goto, TaskTypeOK, ApiTypeOK, taskVars, apiVars, brokerVars
<1>16. ASSUME NEW w \in Workers, SparkFails(w) PROVE Carries(i)
  BY <1>0, <1>16 DEF SparkFails, Goto, Raise, TaskTypeOK, ApiTypeOK, taskVars, apiVars,
     brokerVars
<1>17. ASSUME NEW w \in Workers, OrphanEnds(w) PROVE Carries(i)
  BY <1>0, <1>17 DEF OrphanEnds, TaskTypeOK, ApiTypeOK, taskVars, apiVars, brokerVars
<1>18. ASSUME NEW w \in Workers, MonitorCancels(w) PROVE Carries(i)
  BY <1>0, <1>18 DEF MonitorCancels, Goto, Raise, TaskTypeOK, ApiTypeOK, taskVars, apiVars,
     brokerVars
<1>19. ASSUME NEW w \in Workers, SoftTimeLimit(w) PROVE Carries(i)
  BY <1>0, <1>19 DEF SoftTimeLimit, Raise, Goto, TaskTypeOK, ApiTypeOK, taskVars, apiVars,
     brokerVars
<1>20. \A w \in Workers : ~LimitEscapes(w) /\ ~RetryFails(w)
  BY DEF LimitEscapes, RetryFails, Fault, NoLoss
<1> QED
  BY <1>1, <1>2, <1>3, <1>4, <1>5, <1>6, <1>7, <1>8, <1>9, <1>10, <1>11, <1>12, <1>13,
     <1>14, <1>15, <1>16, <1>17, <1>18, <1>19, <1>20
     DEF Next, ApiStep, WorkerStep, TaskStep, SparkStep, Delivers

LEMMA DeliverySteps ==
  ASSUME DeliveryInv, NoLoss, [Next]_vars
  PROVE  NoJobStranded'
<1> SUFFICES ASSUME NEW i \in Jobs, submit'[i] = "done", status'[i] \notin Terminal
             PROVE  InFlight(i)'
  BY DEF NoJobStranded
<1>0. TypeInv /\ BrokerTypeOK /\ TaskTypeOK /\ ApiTypeOK /\ RowTypeOK /\ RowMoves(i)
  BY Lifecycle DEF DeliveryInv, TypeInv, TypeOK
<1>a. status[i] \notin Terminal
  BY <1>0 DEF RowMoves
<1>b. submit[i] = "done" => InFlight(i)
  BY <1>a DEF DeliveryInv, NoJobStranded
<1>c. ASSUME NEW w \in Workers, pc[w] \notin {"idle", "begin", "ack"}
      PROVE  job[w] \in Jobs /\ status[job[w]] \in Going
  BY <1>c, <1>0, Busy DEF DeliveryInv, RunningOK
<1>1. CASE Carries(i)
  BY <1>1, <1>b, CarrySteps DEF Carries
<1>2. ASSUME NEW j \in Jobs, EnqueueJob(j) PROVE InFlight(i)'
  <2>1. CASE i = j
    <3>1. 0 \in Tries
      BY Bounds DEF Tries
    <3>2. queue'[i][0] > 0
      BY <1>0, <1>2, <2>1, <3>1 DEF EnqueueJob, Publish, BrokerTypeOK
    <3> QED
      BY <3>1, <3>2 DEF InFlight
  <2>2. CASE i # j
    <3>1. submit[i] = "done"
      BY <1>0, <1>2, <2>2 DEF EnqueueJob, ApiTypeOK
    <3>2. queue'[i] = queue[i]
      BY <1>0, <1>2, <2>2 DEF EnqueueJob, Publish, BrokerTypeOK
    <3>3. UNCHANGED <<pc, job, owned>>
      BY <1>2 DEF EnqueueJob, taskVars
    <3> QED
      BY <1>b, <3>1, <3>2, <3>3 DEF InFlight
  <2> QED
    BY <2>1, <2>2
<1>3. ASSUME NEW w \in Workers, NEW j \in Jobs, NEW r \in Tries, Receive(w, j, r)
      PROVE  InFlight(i)'
  <2>0. submit[i] = "done"
    BY <1>3 DEF Receive, apiVars
  <2>1. CASE i = j
    BY <1>0, <1>3, <2>1 DEF Receive, Goto, TaskTypeOK, InFlight
  <2>2. CASE i # j
    <3>1. queue'[i] = queue[i]
      BY <1>0, <1>3, <2>2 DEF Receive, BrokerTypeOK
    <3>2. \A v \in Workers : v # w => pc'[v] = pc[v] /\ job'[v] = job[v] /\ owned'[v] = owned[v]
      BY <1>0, <1>3 DEF Receive, Goto, TaskTypeOK
    <3>3. pc[w] = "idle"
      BY <1>3 DEF Receive
    <3> QED
      BY <1>b, <2>0, <3>1, <3>2, <3>3 DEF InFlight
  <2> QED
    BY <2>1, <2>2
<1>4. ASSUME NEW j \in Jobs, NEW r \in Tries, DropRevoked(j, r) PROVE InFlight(i)'
  <2>1. i # j
    BY <1>4, <1>a DEF DropRevoked, DeliveryInv, CancelInv, CancelOK, Terminal
  <2> QED
    BY <1>0, <1>4, <1>b, <2>1 DEF DropRevoked, BrokerTypeOK, InFlight, apiVars, taskVars
<1>5. ASSUME NEW w \in Workers, NEW r \in Tries, Publish(job[w], r), job[w] = i
      PROVE  InFlight(i)'
  BY <1>0, <1>5 DEF Publish, BrokerTypeOK, InFlight
<1>6. ASSUME NEW w \in Workers, NEW r \in Tries, Publish(job[w], r), job[w] # i, job[w] \in Jobs,
             UNCHANGED submit,
             \A v \in Workers : v # w => pc'[v] = pc[v] /\ job'[v] = job[v] /\ owned'[v] = owned[v]
      PROVE  InFlight(i)'
  BY <1>0, <1>6, <1>b DEF Publish, BrokerTypeOK, InFlight
<1>7. ASSUME NEW w \in Workers, Redeliver(w) PROVE InFlight(i)'
  <2>1. job[w] \in Jobs /\ tries[w] \in Tries
    BY <1>0, <1>7, Busy DEF Redeliver
  <2> QED
    BY <1>0, <1>5, <1>6, <1>7, <2>1 DEF Redeliver, TaskTypeOK, apiVars
<1>8. ASSUME NEW w \in Workers, Ack(w) PROVE InFlight(i)'
  BY <1>0, <1>8, <1>b DEF Ack, Leave, Goto, InFlight, TaskTypeOK, brokerVars, apiVars
<1>9. ASSUME NEW w \in Workers, Crash(w) PROVE InFlight(i)'
  <2>1. job[w] \in Jobs /\ tries[w] \in Tries
    BY <1>0, <1>9, Busy DEF Crash
  <2>2. CASE owned[w]
    BY <1>0, <1>5, <1>6, <1>9, <2>1, <2>2 DEF Crash, Leave, Goto, TaskTypeOK, apiVars
  <2>3. CASE ~owned[w]
    BY <1>0, <1>9, <1>b, <2>3 DEF Crash, Leave, Goto, TaskTypeOK, InFlight, apiVars
  <2> QED
    BY <2>2, <2>3
<1>10. ASSUME NEW w \in Workers, UNCHANGED <<queue, job, owned, submit>>, job[w] # i,
              \A v \in Workers : v # w => pc'[v] = pc[v]
       PROVE  InFlight(i)'
  BY <1>10, <1>b DEF InFlight
<1>11. ASSUME NEW w \in Workers, Begin(w) PROVE InFlight(i)'
  <2>1. CASE Allowed(job[w], "RUNNING")
    BY <1>0, <1>11, <1>b, <2>1, CarrySteps DEF Begin, Goto, TaskTypeOK, Carries, brokerVars,
       apiVars
  <2>2. CASE ~Allowed(job[w], "RUNNING")
    <3>1. status[job[w]] \in Terminal
      BY <1>0, <1>11, <2>2, Busy DEF Begin, Allowed, Sources
    <3> QED
      BY <1>0, <1>10, <1>11, <1>a, <3>1 DEF Begin, Goto, TaskTypeOK, brokerVars, apiVars
  <2> QED
    BY <2>1, <2>2
<1>12. ASSUME NEW w \in Workers, Succeed(w) PROVE InFlight(i)'
  <2>1. status'[job[w]] \in Terminal
    BY <1>0, <1>c, <1>12 DEF Succeed, Allowed, Sources, SetStatus, Going, Terminal, RowTypeOK
  <2> QED
    BY <1>0, <1>10, <1>12, <2>1 DEF Succeed, Goto, TaskTypeOK, brokerVars, apiVars
<1>13. ASSUME NEW w \in Workers, RecordFailure(w) PROVE InFlight(i)'
  <2>1. status'[job[w]] \in Terminal
    BY <1>0, <1>c, <1>13 DEF RecordFailure, Allowed, Sources, SetStatus, Going, Terminal,
       RowTypeOK
  <2> QED
    BY <1>0, <1>10, <1>13, <2>1 DEF RecordFailure, Goto, TaskTypeOK, brokerVars, apiVars
<1>14. ASSUME NEW w \in Workers, PublishRetry(w) PROVE InFlight(i)'
  <2>1. job[w] \in Jobs /\ tries[w] + 1 \in Tries
    BY <1>0, <1>14, <1>c, Bounds DEF PublishRetry, DeliveryInv, RunningOK, TaskTypeOK, Tries
  <2> QED
    BY <1>0, <1>5, <1>6, <1>14, <2>1 DEF PublishRetry, Goto, TaskTypeOK, apiVars
<1> QED
  BY <1>0, <1>1, <1>2, <1>3, <1>4, <1>7, <1>8, <1>9, <1>11, <1>12, <1>13, <1>14, OtherSteps
     DEF Delivers, ReceiveJob

\* While messages can be published and limits are handled, every submitted job is finished,
\* waiting as a message, or held unacknowledged by a worker that is not done with it.
THEOREM NoJobLost ==
  ASSUME NoLoss
  PROVE  Spec => []NoJobStranded
<1>1. Init => DeliveryInv
  <2> SUFFICES ASSUME Init PROVE DeliveryInv
    OBVIOUS
  <2>1. TypeInv
    BY InitTypeInv
  <2>2. CancelInv
    BY DEF Init, CancelInv, CancelOK
  <2>3. \A w \in Workers : pc[w] = "idle"
    BY DEF Init
  <2>4. \A j \in Jobs : submit[j] = "new"
    BY DEF Init
  <2>5. NoJobStranded
    BY <2>4 DEF NoJobStranded
  <2>6. RunningOK
    BY <2>3 DEF RunningOK, Going
  <2> QED
    BY <2>1, <2>2, <2>5, <2>6 DEF DeliveryInv
<1>2. DeliveryInv /\ [Next]_vars => DeliveryInv'
  BY NextTypes, CancelSteps, RunningSteps, DeliverySteps DEF DeliveryInv
<1>3. DeliveryInv => NoJobStranded
  BY DEF DeliveryInv
<1> QED
  BY <1>1, <1>2, <1>3, PTL DEF Spec
=============================================================================
