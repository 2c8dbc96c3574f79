---------------------------- MODULE JobProgress ----------------------------
(***************************************************************************)
(* The progress bar of one job (processing/progress.py): the task thread   *)
(* enters stages, a monitor thread polls Spark and turns the share of      *)
(* completed Spark tasks into a percentage, and both write the job's row   *)
(* through one ProgressTracker per run.  The runs of the job follow each   *)
(* other in one worker process, whose Spark context remembers the Spark    *)
(* jobs of earlier runs, because a run's job group is the id of the job.   *)
(* Cancellation is the subject of JobSystem.                               *)
(***************************************************************************)
EXTENDS Integers, Sequences

CONSTANTS
    Kinds,        \* kinds of job, of "pattern", "prompt" and "spec"
    SparkTasks,   \* how many Spark tasks each action has
    MaxRuns,      \* bound on the runs of the job
    JoinTimesOut  \* may the monitor thread outlive its run by a tick

Acts == {"source", "sample", "write", "count"}

ASSUME ProgressAssumption ==
    /\ Kinds \subseteq {"pattern", "prompt", "spec"}
    /\ SparkTasks \in [Acts -> Nat \ {0}]
    /\ MaxRuns \in Nat
    /\ JoinTimesOut \in BOOLEAN

VARIABLES
    kind,          \* the kind of the job; "pattern" too once an answer is saved
    row,           \* the row: status, stage and progress
    outlived,      \* history: did the monitor thread of some run outlive it
    run, at, task, \* the last run, its place in Script and what it is doing
    stage, percent, lock,   \* the tracker of each run
    mon, seen,     \* the monitor thread of each run and the tasks it counted
    past, now      \* Spark tasks of the group's earlier actions and of the current one

rowVars     == <<kind, row, outlived>>
taskVars    == <<run, at, task>>
trackerVars == <<stage, percent, lock>>
monVars     == <<mon, seen>>
sparkVars   == <<past, now>>
vars == <<rowVars, taskVars, trackerVars, monVars, sparkVars>>

Runs == 1..MaxRuns

\* STAGE_RANGES: where the bar stands at the start and at the end of each stage.
Range == [GENERATING_REGEX |-> <<0, 5>>,
          LOADING          |-> <<5, 8>>,
          GENERATING_SPEC  |-> <<8, 10>>,
          TRANSFORMING     |-> <<10, 90>>,
          FINALIZING       |-> <<90, 99>>]

Stages == DOMAIN Range

\* The stages a run enters and the Spark actions it runs, in order (run_job,
\* run_transform, builder_for); "monitor" starts the monitor thread.  The first is also what
\* a run does that finds an answer of the LLM saved: it neither samples nor asks.
Script ==
    [pattern |-> <<"monitor", "LOADING", "source",
                   "TRANSFORMING", "write", "FINALIZING", "count">>,
     prompt  |-> <<"GENERATING_REGEX", "monitor", "LOADING", "source",
                   "TRANSFORMING", "write", "FINALIZING", "count">>,
     spec    |-> <<"monitor", "LOADING", "source", "sample", "GENERATING_SPEC",
                   "TRANSFORMING", "write", "FINALIZING", "count">>]

\* What the next run does: a run that is past its question has saved the answer (the pattern
\* or the specification), one that has just entered the stage may have.
NextKinds ==
    LET asked == {p \in 1..(at - 1) : Script[kind][p] \in {"GENERATING_REGEX", "GENERATING_SPEC"}}
    IN  IF asked = {} THEN {kind}
        ELSE {"pattern"} \cup {k \in {kind} : at - 1 \in asked}

\* What the task thread does next.
Step == IF at <= Len(Script[kind]) THEN Script[kind][at] ELSE "end"

Terminal == {"SUCCESS", "FAILED"}
NoTasks  == [done |-> 0, total |-> 0]
Counts   == [done : Nat, total : Nat]

TypeOK ==
    /\ kind \in Kinds \cup {"pattern"}
    /\ row \in [status : {"QUEUED", "RUNNING"} \cup Terminal,
                stage : Stages \cup {""}, progress : 0..100]
    /\ outlived \in BOOLEAN
    /\ run \in 0..MaxRuns
    /\ at \in 1..10
    /\ task \in {"off", "next", "emit", "spark", "leave", "failed"}
    /\ stage \in [Runs -> Stages \cup {""}]
    /\ percent \in [Runs -> 0..100]
    /\ lock \in [Runs -> {"free", "task", "monitor"}]
    /\ mon \in [Runs -> {"off", "wait", "tick", "report", "emit"}]
    /\ seen \in [Runs -> Counts]
    /\ past \in Counts /\ now \in Counts

Init ==
    /\ kind \in Kinds
    /\ row = [status |-> "QUEUED", stage |-> "", progress |-> 0]
    /\ outlived = FALSE
    /\ run = 0 /\ at = 1 /\ task = "off"
    /\ stage = [r \in Runs |-> ""]
    /\ percent = [r \in Runs |-> 0]
    /\ lock = [r \in Runs |-> "free"]
    /\ mon = [r \in Runs |-> "off"]
    /\ seen = [r \in Runs |-> NoTasks]
    /\ past = NoTasks /\ now = NoTasks

\* Mutant: the row is updated whatever its status.
UpdateAnyRow(s, p) == row' = [row EXCEPT !.stage = s, !.progress = p]

\* Mutant: a fraction is written without the stage it belongs to.
UpdateProgressOnly(s, p) ==
    row' = IF row.status = "RUNNING" THEN [row EXCEPT !.progress = p] ELSE row

\* JobQuerySet.update_progress: only a running job's bar moves.
UpdateRow(s, p) ==
    row' = IF row.status = "RUNNING"
             THEN [row EXCEPT !.stage = s, !.progress = p] ELSE row

Max2(a, b) == IF a >= b THEN a ELSE b

-----------------------------------------------------------------------------
(* The task thread *)

\* transition to RUNNING resets the bar; the run gets a tracker of its own.
StartRun ==
    /\ task = "off"
    /\ run < MaxRuns
    /\ row.status \notin Terminal
    /\ kind' \in NextKinds
    /\ run' = run + 1 /\ at' = 1 /\ task' = "next"
    /\ row' = [status |-> "RUNNING", stage |-> "", progress |-> 0]
    /\ UNCHANGED <<outlived, trackerVars, monVars, sparkVars>>

StartMonitor ==
    /\ task = "next" /\ Step = "monitor"
    /\ mon' = [mon EXCEPT ![run] = "wait"]
    /\ at' = at + 1
    /\ UNCHANGED <<rowVars, run, task, trackerVars, seen, sparkVars>>

\* The percentage a stage is entered with.
EntryPercent(s) == Max2(percent[run], Range[s][1])

\* enter_stage takes the tracker's lock and moves the tracker.
EnterStage ==
    /\ task = "next" /\ Step \in Stages
    /\ lock[run] = "free"
    /\ lock' = [lock EXCEPT ![run] = "task"]
    /\ stage' = [stage EXCEPT ![run] = Step]
    /\ percent' = [percent EXCEPT ![run] = EntryPercent(Step)]
    /\ task' = "emit"
    /\ UNCHANGED <<rowVars, run, at, monVars, sparkVars>>

\* ... and writes the row before it gives the lock back.
EmitStage ==
    /\ task = "emit"
    /\ UpdateRow(stage[run], percent[run])
    /\ lock' = [lock EXCEPT ![run] = "free"]
    /\ at' = at + 1 /\ task' = "next"
    /\ UNCHANGED <<kind, outlived, run, stage, percent, monVars, sparkVars>>

LaunchSpark ==
    /\ task = "next" /\ Step \in Acts
    /\ now' = [done |-> 0, total |-> SparkTasks[Step]]
    /\ task' = "spark"
    /\ UNCHANGED <<rowVars, run, at, trackerVars, monVars, past>>

TaskCompletes ==
    /\ now.done < now.total
    /\ now' = [now EXCEPT !.done = @ + 1]
    /\ UNCHANGED <<rowVars, taskVars, trackerVars, monVars, past>>

\* The group of the job keeps every action it ran, finished or not.
Retire ==
    /\ past' = [done |-> past.done + now.done, total |-> past.total + now.total]
    /\ now' = NoTasks

SparkReturns ==
    /\ task = "spark" /\ now.done = now.total
    /\ Retire
    /\ at' = at + 1 /\ task' = "next"
    /\ UNCHANGED <<rowVars, run, trackerVars, monVars>>

\* An exception anywhere in the try of run_job; inside enter_stage it releases the lock.
Raise ==
    /\ task \in {"next", "emit", "spark"} /\ Step # "end"
    /\ task' = "failed"
    /\ lock' = [lock EXCEPT ![run] = IF task = "emit" THEN "free" ELSE @]
    /\ Retire
    /\ UNCHANGED <<rowVars, run, at, stage, percent, monVars>>

LeaveTry ==
    /\ task = "next" /\ Step = "end"
    /\ task' = "leave"
    /\ UNCHANGED <<rowVars, run, at, trackerVars, monVars, sparkVars>>

\* SparkJobMonitor.__exit__ waits for the thread, five ticks at most; then the run is
\* recorded, or left RUNNING for a retry.
EndRun ==
    /\ task \in {"leave", "failed"}
    /\ mon[run] = "off" \/ JoinTimesOut
    /\ outlived' = (outlived \/ mon[run] # "off")
    /\ IF task = "leave"
         THEN row' = [row EXCEPT !.status = "SUCCESS", !.progress = 100]
         ELSE row' \in {row, [row EXCEPT !.status = "FAILED"]}
    /\ task' = "off"
    /\ UNCHANGED <<kind, run, at, trackerVars, monVars, sparkVars>>

\* The worker process dies: its threads and its Spark context are gone.
Crash ==
    /\ task # "off"
    /\ task' = "off"
    /\ mon' = [r \in Runs |-> "off"]
    /\ seen' = [r \in Runs |-> NoTasks]
    /\ lock' = [r \in Runs |-> "free"]
    /\ past' = NoTasks /\ now' = NoTasks
    /\ UNCHANGED <<rowVars, run, at, stage, percent>>

-----------------------------------------------------------------------------
(* The monitor thread of run r *)

Ends(r) == r # run \/ task \in {"off", "leave", "failed"}

\* The wait for the stop event times out: a tick begins.
Wake(r) ==
    /\ mon[r] = "wait"
    /\ ~Ends(r)
    /\ mon' = [mon EXCEPT ![r] = "tick"]
    /\ UNCHANGED <<rowVars, taskVars, trackerVars, seen, sparkVars>>

\* SparkJobMonitor.fraction counts the tasks of the whole group: None before its first
\* Spark job.  An error is ignored until the next tick.
Tick(r) ==
    /\ mon[r] = "tick"
    /\ \/ /\ past.total + now.total > 0
          /\ seen' = [seen EXCEPT ![r] = [done  |-> past.done + now.done,
                                          total |-> past.total + now.total]]
          /\ mon' = [mon EXCEPT ![r] = "report"]
       \/ /\ mon' = [mon EXCEPT ![r] = "wait"]
          /\ UNCHANGED seen
    /\ UNCHANGED <<rowVars, taskVars, trackerVars, sparkVars>>

\* Mutant: a fraction is taken of the whole bar.
PercentOfBar(s, count) == (100 * count.done) \div count.total

\* Mutant: the end of a stage is taken for its width.
PercentPastEnd(s, count) == Range[s][1] + (Range[s][2] * count.done) \div count.total

\* The percentage of a stage after a fraction of its tasks.
PercentOf(s, count) ==
    Range[s][1] + ((Range[s][2] - Range[s][1]) * count.done) \div count.total

\* Mutant: every report is taken, lower ones too.
AnyPercent(r, p) == TRUE

\* Reports that are not higher than the bar are dropped.
Higher(r, p) == p > percent[r]

\* update_fraction under the lock: a higher percentage moves the tracker, unless the
\* last write was less than a second ago.
Report(r) ==
    /\ mon[r] = "report"
    /\ lock[r] = "free"
    /\ \/ /\ stage[r] # ""
          /\ Higher(r, PercentOf(stage[r], seen[r]))
          /\ lock' = [lock EXCEPT ![r] = "monitor"]
          /\ percent' = [percent EXCEPT ![r] = PercentOf(stage[r], seen[r])]
          /\ mon' = [mon EXCEPT ![r] = "emit"]
       \/ /\ mon' = [mon EXCEPT ![r] = "wait"]
          /\ UNCHANGED <<lock, percent>>
    /\ seen' = [seen EXCEPT ![r] = NoTasks]
    /\ UNCHANGED <<rowVars, taskVars, stage, sparkVars>>

\* Mutant: the lock is not given back when the row cannot be written.
EmitKeepsLock(r) ==
    /\ mon[r] = "emit"
    /\ \/ UpdateRow(stage[r], percent[r]) /\ lock' = [lock EXCEPT ![r] = "free"]
       \/ UNCHANGED <<row, lock>>
    /\ mon' = [mon EXCEPT ![r] = "wait"]
    /\ UNCHANGED <<kind, outlived, taskVars, stage, percent, seen, sparkVars>>

\* ... and the row is written before the lock is released; a database error is ignored.
EmitFraction(r) ==
    /\ mon[r] = "emit"
    /\ UpdateRow(stage[r], percent[r]) \/ UNCHANGED row
    /\ lock' = [lock EXCEPT ![r] = "free"]
    /\ mon' = [mon EXCEPT ![r] = "wait"]
    /\ UNCHANGED <<kind, outlived, taskVars, stage, percent, seen, sparkVars>>

\* The thread sees the stop event after the tick it is in.
MonitorStops(r) ==
    /\ mon[r] = "wait"
    /\ Ends(r)
    /\ mon' = [mon EXCEPT ![r] = "off"]
    /\ UNCHANGED <<rowVars, taskVars, trackerVars, seen, sparkVars>>

-----------------------------------------------------------------------------
TaskStep ==
    \/ StartMonitor \/ EnterStage \/ EmitStage \/ LaunchSpark \/ SparkReturns
    \/ LeaveTry \/ EndRun

MonitorStep(r) == Tick(r) \/ Report(r) \/ EmitFraction(r) \/ MonitorStops(r)

Next ==
    \/ StartRun \/ TaskStep \/ TaskCompletes \/ Raise \/ Crash
    \/ \E r \in Runs : Wake(r) \/ MonitorStep(r)

Spec == Init /\ [][Next]_vars

-----------------------------------------------------------------------------
(* Properties *)

\* "a percentage that only grows" (ProgressTracker): whatever the monitor reports, in
\* whichever stage it arrives, the bar of a run never moves back; the row's bar does not
\* either, unless a monitor whose join timed out has written for an earlier run.
BarOnlyGrows ==
    [][/\ \A r \in Runs : percent'[r] >= percent[r]
       /\ run' = run /\ ~outlived => row'.progress >= row.progress]_vars

\* STAGE_RANGES: the stage and the percentage a client reads together always match, even if
\* the fraction was measured in an earlier stage or by an earlier run.
BarWithinStage ==
    row.status = "RUNNING" /\ row.stage # "" =>
        row.progress >= Range[row.stage][1] /\ row.progress <= Range[row.stage][2]

\* A late tick of a monitor that outlives its run never moves the bar of a finished job, so
\* that only success shows 100.
FinishedBarStays ==
    [][row.status \in Terminal => UNCHANGED row]_vars

\* "emitting under the lock keeps writes in order": between two writes the row shows the
\* stage the task is in, and never more than the tracker of the only run that writes.
RowFollowsTracker ==
    run > 0 /\ row.status = "RUNNING" /\ task \notin {"off", "failed"}
        /\ lock[run] = "free" /\ ~outlived =>
        row.stage = stage[run] /\ row.progress <= percent[run]

\* Neither the tracker's lock nor the join of the monitor thread holds a run up: in the
\* middle of a run one of the two threads or Spark can always go on, without a new tick.
NobodyWaitsForEver ==
    task # "off" =>
        \/ ENABLED TaskStep
        \/ ENABLED TaskCompletes
        \/ \E r \in Runs : ENABLED MonitorStep(r)
=============================================================================
