------------------------- MODULE JobProgressProofs -------------------------
(***************************************************************************)
(* The progress bar, for every kind of job, number of Spark tasks and      *)
(* number of runs: the tracker keeps a percentage of its stage, the stages *)
(* that are still to come lie above it, and the row is written from the    *)
(* tracker alone, under its lock.                                          *)
(***************************************************************************)
EXTENDS JobProgress, TLAPS

\* A thread that is in a step of the script has not reached its end.
InScript == task \in {"emit", "spark"} => at <= Len(Script[kind])

\* Spark does not complete more tasks than it has, and a fraction has a total.
CountsOK ==
    /\ past.done <= past.total /\ now.done <= now.total
    /\ \A r \in Runs : mon[r] = "report" =>
          seen[r].total > 0 /\ seen[r].done <= seen[r].total

\* A tracker is between the ends of its stage.
TrackerOK ==
    \A r \in Runs : IF stage[r] = "" THEN percent[r] = 0
                    ELSE percent[r] \in Range[stage[r]][1]..Range[stage[r]][2]

\* Where the task thread will be next.
Ahead == IF task = "emit" THEN at + 1 ELSE at

\* Every stage that is still to come begins where the present one ends, or above.
StagesRise ==
    /\ \A r \in Runs : r > run => stage[r] = ""
    /\ task \notin {"off", "leave", "failed"} =>
         \A p \in Ahead..Len(Script[kind]) :
            Script[kind][p] \in Stages /\ stage[run] # "" =>
               Range[stage[run]][2] <= Range[Script[kind][p]][1]

\* A run is in progress on a row that is RUNNING.
RunsRow == task # "off" => run > 0 /\ row.status = "RUNNING"

TypeInv == TypeOK /\ InScript /\ CountsOK /\ RunsRow

StageInv == TrackerOK /\ StagesRise

\* A run starts its monitor once, and no run that has not begun has one.
MonitorOK ==
    /\ \A r \in Runs : r > run => mon[r] = "off"
    /\ task # "off" => \A p \in at..Len(Script[kind]) :
                          Script[kind][p] = "monitor" => mon[run] = "off"

\* The lock is with the thread that is about to write.
LockOK ==
    \A r \in Runs : /\ lock[r] = "monitor" <=> mon[r] = "emit"
                    /\ lock[r] = "task" <=> r = run /\ task = "emit"

\* Unless a monitor has outlived its run, the run in progress has the only one.
Alone == ~outlived => \A r \in Runs : mon[r] # "off" => r = run /\ task # "off"

\* The row is not ahead of the tracker, and shows its stage outside of enter_stage.
RowOK ==
    run > 0 /\ row.status = "RUNNING" /\ ~outlived =>
        /\ row.progress <= percent[run]
        /\ task \notin {"off", "failed", "emit"} => row.stage = stage[run]

RowInv == MonitorOK /\ LockOK /\ Alone /\ RowOK

-----------------------------------------------------------------------------
(* The script and the stages *)

\* A job has at most nine steps, each with a name, and each stage begins where those before
\* it have ended.
LEMMA ScriptRises ==
  ASSUME NEW k \in {"pattern", "prompt", "spec"}
  PROVE  /\ Len(Script[k]) \in 0..9
         /\ \A p \in 1..Len(Script[k]) : Script[k][p] \in {"monitor"} \cup Acts \cup Stages
         /\ \A p, q \in 1..Len(Script[k]) :
              p < q /\ Script[k][p] \in Stages /\ Script[k][q] \in Stages
                => Range[Script[k][p]][2] <= Range[Script[k][q]][1]
         /\ \A p, q \in 1..Len(Script[k]) :
              Script[k][p] = "monitor" /\ Script[k][q] = "monitor" => p = q
<1>1. ASSUME k = "pattern"
      PROVE  /\ Len(Script[k]) = 7 
             /\ Script[k][1] = "monitor" /\ Script[k][2] = "LOADING" /\ Script[k][3] = "source"
             /\ Script[k][4] = "TRANSFORMING" /\ Script[k][5] = "write"
             /\ Script[k][6] = "FINALIZING" /\ Script[k][7] = "count"
  BY <1>1 DEF Script
<1>2. ASSUME k = "prompt"
      PROVE  /\ Len(Script[k]) = 8 /\ Script[k][1] = "GENERATING_REGEX"
             /\ Script[k][2] = "monitor" /\ Script[k][3] = "LOADING" /\ Script[k][4] = "source"
             /\ Script[k][5] = "TRANSFORMING" /\ Script[k][6] = "write"
             /\ Script[k][7] = "FINALIZING" /\ Script[k][8] = "count"
  BY <1>2 DEF Script
<1>3. ASSUME k = "spec"
      PROVE  /\ Len(Script[k]) = 9
             /\ Script[k][1] = "monitor" /\ Script[k][2] = "LOADING" /\ Script[k][3] = "source"
             /\ Script[k][4] = "sample" /\ Script[k][5] = "GENERATING_SPEC" 
             /\ Script[k][6] = "TRANSFORMING" /\ Script[k][7] = "write"
             /\ Script[k][8] = "FINALIZING" /\ Script[k][9] = "count"
  BY <1>3 DEF Script
<1>4. /\ Range["GENERATING_REGEX"][1] = 0 /\ Range["GENERATING_REGEX"][2] = 5
      /\ Range["LOADING"][1] = 5 /\ Range["LOADING"][2] = 8
      /\ Range["GENERATING_SPEC"][1] = 8 /\ Range["GENERATING_SPEC"][2] = 10
      /\ Range["TRANSFORMING"][1] = 10 /\ Range["TRANSFORMING"][2] = 90
      /\ Range["FINALIZING"][1] = 90 /\ Range["FINALIZING"][2] = 99
  BY DEF Range
<1>5. CASE k = "pattern"
  <2>1. ASSUME NEW p \in 1..7
        PROVE  /\ Script[k][p] \in {"monitor"} \cup Acts \cup Stages
               /\ Script[k][p] = "monitor" => p = 1
               /\ Script[k][p] \in Stages =>
                   \/ p = 2 /\ Script[k][p] = "LOADING"
                   \/ p = 4 /\ Script[k][p] = "TRANSFORMING"
                   \/ p = 6 /\ Script[k][p] = "FINALIZING"
    <3>1. p = 1 \/ p = 2 \/ p = 3 \/ p = 4 \/ p = 5 \/ p = 6 \/ p = 7
      OBVIOUS
    <3> QED
      BY <1>1, <1>5, <3>1 DEF Acts, Stages, Range
  <2>2. Len(Script[k]) = 7
    BY <1>1, <1>5
  <2>3. ASSUME NEW p \in 1..7, NEW q \in 1..7, p < q,
               Script[k][p] \in Stages, Script[k][q] \in Stages
        PROVE  Range[Script[k][p]][2] <= Range[Script[k][q]][1]
    BY <1>4, <2>1, <2>3
  <2> QED
    BY <2>1, <2>2, <2>3
<1>6. CASE k = "prompt"
  <2>1. ASSUME NEW p \in 1..8
        PROVE  /\ Script[k][p] \in {"monitor"} \cup Acts \cup Stages
               /\ Script[k][p] = "monitor" => p = 2
               /\ Script[k][p] \in Stages =>
                   \/ p = 1 /\ Script[k][p] = "GENERATING_REGEX"
                   \/ p = 3 /\ Script[k][p] = "LOADING"
                   \/ p = 5 /\ Script[k][p] = "TRANSFORMING"
                   \/ p = 7 /\ Script[k][p] = "FINALIZING"
    <3>1. p = 1 \/ p = 2 \/ p = 3 \/ p = 4 \/ p = 5 \/ p = 6 \/ p = 7 \/ p = 8
      OBVIOUS
    <3> QED
      BY <1>2, <1>6, <3>1 DEF Acts, Stages, Range
  <2>2. Len(Script[k]) = 8
    BY <1>2, <1>6
  <2>3. ASSUME NEW p \in 1..8, NEW q \in 1..8, p < q,
               Script[k][p] \in Stages, Script[k][q] \in Stages
        PROVE  Range[Script[k][p]][2] <= Range[Script[k][q]][1]
    BY <1>4, <2>1, <2>3
  <2> QED
    BY <2>1, <2>2, <2>3
<1>7. CASE k = "spec"
  <2>1. ASSUME NEW p \in 1..9
        PROVE  /\ Script[k][p] \in {"monitor"} \cup Acts \cup Stages
               /\ Script[k][p] = "monitor" => p = 1
               /\ Script[k][p] \in Stages =>
                   \/ p = 2 /\ Script[k][p] = "LOADING"
                   \/ p = 5 /\ Script[k][p] = "GENERATING_SPEC"
                   \/ p = 6 /\ Script[k][p] = "TRANSFORMING"
                   \/ p = 8 /\ Script[k][p] = "FINALIZING"
    <3>1. p = 1 \/ p = 2 \/ p = 3 \/ p = 4 \/ p = 5 \/ p = 6 \/ p = 7 \/ p = 8 \/ p = 9
      OBVIOUS
    <3> QED
      BY <1>3, <1>7, <3>1 DEF Acts, Stages, Range
  <2>2. Len(Script[k]) = 9
    BY <1>3, <1>7
  <2>3. ASSUME NEW p \in 1..9, NEW q \in 1..9, p < q,
               Script[k][p] \in Stages, Script[k][q] \in Stages
        PROVE  Range[Script[k][p]][2] <= Range[Script[k][q]][1]
    BY <1>4, <2>1, <2>3
  <2> QED
    BY <2>1, <2>2, <2>3
<1> QED
  BY <1>5, <1>6, <1>7

\* The ends of a stage are percentages.
LEMMA RangeIs ==
  ASSUME NEW s \in Stages
  PROVE  /\ Range[s][1] \in 0..100 /\ Range[s][2] \in 0..100
         /\ Range[s][1] <= Range[s][2]
<1>1. \/ s = "GENERATING_REGEX" \/ s = "LOADING" \/ s = "GENERATING_SPEC"
      \/ s = "TRANSFORMING" \/ s = "FINALIZING"
  BY DEF Stages, Range
<1> QED
  BY <1>1 DEF Range

LEMMA NextPlace ==
  ASSUME NEW n \in 0..9, NEW i \in 1..10, i <= n
  PROVE  i + 1 \in 1..10
OBVIOUS

LEMMA Between ==
  ASSUME NEW a \in 0..100, NEW b \in 0..100, NEW c \in a..b
  PROVE  c \in 0..100
OBVIOUS

\* A fraction of a stage's tasks is a percentage between the ends of the stage.
LEMMA PercentInStage ==
  ASSUME NEW s \in Stages, NEW count \in Counts, count.total > 0, count.done <= count.total
  PROVE  PercentOf(s, count) \in Range[s][1]..Range[s][2]
<1> DEFINE width == Range[s][2] - Range[s][1]
           done  == count.done
           total == count.total
           q     == (width * done) \div total
           r     == (width * done) % total
<1>0. /\ Range[s][1] \in Int /\ Range[s][2] \in Int
      /\ Range[s][1] <= Range[s][2]
  <2>1. Range[s][1] \in 0..100 /\ Range[s][2] \in 0..100 /\ Range[s][1] <= Range[s][2]
    BY RangeIs
  <2> QED
    BY <2>1
<1>1. width \in Nat
  BY <1>0
<1>2. done \in Nat /\ total \in Nat \ {0} /\ done <= total
  BY DEF Counts
<1> HIDE DEF width, done, total
<1>3. width * done \in Nat /\ width * done <= width * total
  BY <1>1, <1>2
<1>4. q \in Nat /\ r \in Nat /\ width * done = total * q + r
  BY <1>1, <1>2, <1>3
<1> HIDE DEF q, r
<1>5. q <= width
  <2>1. ASSUME q > width PROVE FALSE
    <3>1. total * q >= total * (width + 1)
      BY <1>1, <1>2, <1>4, <2>1
    <3>2. total * (width + 1) = width * total + total
      BY <1>1, <1>2
    <3> QED
      BY <1>1, <1>2, <1>3, <1>4, <3>1, <3>2
  <2> QED
    BY <1>1, <1>4, <2>1
<1>6. PercentOf(s, count) = Range[s][1] + q
  BY DEF PercentOf, q, width, done, total
<1> QED
  BY <1>0, <1>4, <1>5, <1>6 DEF width

-----------------------------------------------------------------------------
(* Types *)

RowType == [status : {"QUEUED", "RUNNING"} \cup Terminal,
            stage : Stages \cup {""}, progress : 0..100]

LEMMA RowWritten ==
  ASSUME row \in RowType, NEW s \in Stages \cup {""}, NEW p \in 0..100, UpdateRow(s, p)
  PROVE  row' \in RowType /\ row'.status = row.status
         /\ (row.status = "RUNNING" => row'.stage = s /\ row'.progress = p)
         /\ (row.status # "RUNNING" => row' = row)
BY DEF UpdateRow, RowType

LEMMA Retired ==
  ASSUME TypeOK, CountsOK, Retire
  PROVE  /\ past' \in Counts /\ now' \in Counts
         /\ past'.done <= past'.total /\ now'.done <= now'.total
<1>1. /\ past.done \in Nat /\ past.total \in Nat /\ now.done \in Nat /\ now.total \in Nat
      /\ past.done <= past.total /\ now.done <= now.total
  BY DEF TypeOK, CountsOK, Counts
<1> QED
  BY <1>1 DEF Retire, Counts, NoTasks

LEMMA TypeSteps ==
  ASSUME TypeInv, [Next]_vars
  PROVE  TypeInv'
<1> USE DEF TypeInv
<1>0. kind \in {"pattern", "prompt", "spec"}
  BY ProgressAssumption DEF TypeOK
<1>a. /\ Step # "end" => at <= Len(Script[kind]) /\ at + 1 \in 1..10
      /\ task \in {"emit", "spark"} => at + 1 \in 1..10
  <2>1. Len(Script[kind]) \in 0..9
    BY <1>0, ScriptRises
  <2>2. at \in 1..10
    BY DEF TypeOK
  <2>3. at <= Len(Script[kind]) => at + 1 \in 1..10
    BY <2>1, <2>2, NextPlace
  <2> QED
    BY <2>3 DEF Step, InScript
<1>b. /\ Step \in Stages \cup Acts \/ Step = "monitor" => Step # "end"
      /\ task \in {"emit", "spark"} => at <= Len(Script[kind])
  BY DEF InScript, Stages, Range, Acts
<1>c. MaxRuns \in Nat /\ run \in 0..MaxRuns /\ at \in 1..10
  BY ProgressAssumption DEF TypeOK
<1>1. CASE StartRun
  <2>1. run + 1 \in 0..MaxRuns /\ run + 1 > 0
    <3>1. run < MaxRuns
      BY <1>1 DEF StartRun
    <3> QED
      BY <1>c, <3>1
  <2>2. row' \in RowType /\ row'.status = "RUNNING"
    <3>1. row' = [status |-> "RUNNING", stage |-> "", progress |-> 0]
      BY <1>1 DEF StartRun
    <3>2. 0 \in 0..100
      OBVIOUS
    <3> QED
      BY <3>1, <3>2 DEF RowType
  <2>3. 1 \in 1..10
    OBVIOUS
  <2>4. kind' \in Kinds \cup {"pattern"}
    <3>1. kind' \in NextKinds
      BY <1>1 DEF StartRun
    <3> QED
      BY <3>1 DEF NextKinds, TypeOK
  <2>10. TypeOK'
    BY <1>1, <2>1, <2>2, <2>3, <2>4
       DEF StartRun, TypeOK, RowType, trackerVars, monVars, sparkVars
  <2>11. InScript'
    BY <1>1, <1>c DEF StartRun, InScript, trackerVars, monVars, sparkVars
  <2>12. CountsOK'
    BY <1>1, <1>c DEF StartRun, CountsOK, trackerVars, monVars, sparkVars
  <2>13. RunsRow'
    BY <1>1, <2>1, <2>2 DEF StartRun, RunsRow
  <2> QED
    BY <2>10, <2>11, <2>12, <2>13
<1>2. CASE StartMonitor
  <2>10. TypeOK'
    BY <1>2, <1>a, <1>b, <1>c DEF StartMonitor, TypeOK, rowVars, trackerVars, sparkVars, Runs
  <2>11. InScript'
    BY <1>2, <1>a, <1>b, <1>c DEF StartMonitor, InScript, rowVars, trackerVars, sparkVars, Runs
  <2>12. CountsOK'
    BY <1>2, <1>a, <1>b, <1>c DEF StartMonitor, CountsOK, rowVars, trackerVars, sparkVars, Runs
  <2>13. RunsRow'
    BY <1>2, <1>a, <1>b, <1>c DEF StartMonitor, RunsRow, TypeOK, rowVars, trackerVars,
       sparkVars, Runs
  <2> QED
    BY <2>10, <2>11, <2>12, <2>13
<1>3. CASE EnterStage
  <2>2. run \in Runs /\ Step \in Stages
    BY <1>3, <1>c DEF EnterStage, RunsRow, Runs
  <2>3. Range[Step][1] \in 0..100
    BY <2>2, RangeIs
  <2>1. EntryPercent(Step) \in 0..100
    BY <2>2, <2>3 DEF EntryPercent, Max2, TypeOK
  <2> QED
    BY <1>3, <1>a, <1>b, <1>c, <2>1
       DEF EnterStage, TypeOK, InScript, CountsOK, RunsRow, rowVars, monVars, sparkVars, Runs
<1>4. CASE EmitStage
  <2>1. run \in Runs
    BY <1>4, <1>c DEF EmitStage, RunsRow, Runs
  <2>2. row' \in RowType /\ row'.status = row.status
    BY <1>4, <2>1, RowWritten DEF EmitStage, TypeOK, RowType
  <2>10. TypeOK'
    BY <1>4, <1>a, <1>b, <1>c, <2>1, <2>2 DEF EmitStage, TypeOK, monVars, sparkVars, RowType
  <2>11. InScript'
    BY <1>4, <1>a, <1>b, <1>c, <2>1, <2>2 DEF EmitStage, InScript, monVars, sparkVars, RowType
  <2>12. CountsOK'
    BY <1>4, <1>a, <1>b, <1>c, <2>1, <2>2 DEF EmitStage, CountsOK, monVars, sparkVars, RowType
  <2>13. RunsRow'
    BY <1>4, <1>a, <1>b, <1>c, <2>1, <2>2 DEF EmitStage, RunsRow, TypeOK, monVars,
       sparkVars, RowType
  <2> QED
    BY <2>10, <2>11, <2>12, <2>13
<1>5. CASE LaunchSpark
  <2>1. SparkTasks[Step] \in Nat
    BY <1>5, ProgressAssumption DEF LaunchSpark
  <2>2. now' = [done |-> 0, total |-> SparkTasks[Step]] /\ now' \in Counts
    BY <1>5, <2>1 DEF LaunchSpark, Counts
  <2>10. TypeOK'
    BY <1>5, <1>a, <1>b, <1>c, <2>1, <2>2 DEF LaunchSpark, TypeOK, rowVars, trackerVars, monVars
  <2>11. InScript'
    BY <1>5, <1>a, <1>b, <1>c, <2>1, <2>2 DEF LaunchSpark, InScript, rowVars, trackerVars,
       monVars
  <2>12. CountsOK'
    BY <1>5, <1>a, <1>b, <1>c, <2>1, <2>2 DEF LaunchSpark, CountsOK, rowVars, trackerVars,
       monVars
  <2>13. RunsRow'
    BY <1>5, <1>a, <1>b, <1>c, <2>1, <2>2 DEF LaunchSpark, RunsRow, TypeOK, rowVars,
       trackerVars, monVars
  <2> QED
    BY <2>10, <2>11, <2>12, <2>13
<1>6. CASE TaskCompletes
  <2>1. now.done \in Nat /\ now.total \in Nat
    BY DEF TypeOK, Counts
  <2>3. now' = [done |-> now.done + 1, total |-> now.total] /\ now.done + 1 <= now.total
    <3>1. now = [done |-> now.done, total |-> now.total]
      BY DEF TypeOK, Counts
    <3>2. now' = [now EXCEPT !.done = @ + 1] /\ now.done < now.total
      BY <1>6 DEF TaskCompletes
    <3> QED
      BY <2>1, <3>1, <3>2
  <2>2. now' \in Counts /\ now'.done <= now'.total
    BY <2>1, <2>3 DEF Counts
  <2>10. TypeOK'
    BY <1>6, <2>2 DEF TaskCompletes, TypeOK, rowVars, taskVars, trackerVars, monVars
  <2>11. InScript'
    BY <1>6, <2>2 DEF TaskCompletes, InScript, rowVars, taskVars, trackerVars, monVars
  <2>12. CountsOK'
    BY <1>6, <2>2 DEF TaskCompletes, CountsOK, rowVars, taskVars, trackerVars, monVars
  <2>13. RunsRow'
    BY <1>6, <2>2 DEF TaskCompletes, RunsRow, TypeOK, rowVars, taskVars, trackerVars, monVars
  <2> QED
    BY <2>10, <2>11, <2>12, <2>13
<1>7. CASE SparkReturns
  <2>1. Retire
    BY <1>7 DEF SparkReturns
  <2>2. /\ past' \in Counts /\ now' \in Counts
        /\ past'.done <= past'.total /\ now'.done <= now'.total
    BY <2>1, Retired
  <2>10. TypeOK'
    BY <1>7, <1>a, <1>b, <1>c, <2>2 DEF SparkReturns, TypeOK, rowVars, trackerVars, monVars
  <2>11. InScript'
    BY <1>7, <1>a, <1>b, <1>c, <2>2 DEF SparkReturns, InScript, rowVars, trackerVars, monVars
  <2>12. CountsOK'
    BY <1>7, <1>a, <1>b, <1>c, <2>2 DEF SparkReturns, CountsOK, rowVars, trackerVars, monVars
  <2>13. RunsRow'
    BY <1>7, <1>a, <1>b, <1>c, <2>2 DEF SparkReturns, RunsRow, TypeOK, rowVars, trackerVars,
       monVars
  <2> QED
    BY <2>10, <2>11, <2>12, <2>13
<1>8. CASE Raise
  <2>1. Retire
    BY <1>8 DEF Raise
  <2> QED
    BY <1>8, <1>c, <2>1, Retired
       DEF Raise, TypeOK, InScript, CountsOK, RunsRow, rowVars, monVars
<1>9. CASE LeaveTry
  BY <1>9 DEF LeaveTry, TypeOK, InScript, CountsOK, RunsRow,
              rowVars, trackerVars, monVars, sparkVars
<1>10. CASE EndRun
  <2>0. row \in RowType
    BY DEF TypeOK, RowType
  <2>2. [row EXCEPT !.status = "SUCCESS", !.progress = 100] \in RowType
    <3>1. 100 \in 0..100
      OBVIOUS
    <3> QED
      BY <2>0, <3>1 DEF RowType, Terminal
  <2>3. [row EXCEPT !.status = "FAILED"] \in RowType
    BY <2>0 DEF RowType, Terminal
  <2>1. row' \in RowType
    BY <1>10, <2>0, <2>2, <2>3 DEF EndRun
  <2>10. TypeOK'
    BY <1>10, <2>1 DEF EndRun, TypeOK, RowType, trackerVars, monVars, sparkVars
  <2>11. InScript'
    BY <1>10, <2>1 DEF EndRun, InScript, RowType, trackerVars, monVars, sparkVars
  <2>12. CountsOK'
    BY <1>10, <2>1 DEF EndRun, CountsOK, RowType, trackerVars, monVars, sparkVars
  <2>13. RunsRow'
    BY <1>10, <2>1 DEF EndRun, RunsRow, TypeOK, RowType, trackerVars, monVars, sparkVars
  <2> QED
    BY <2>10, <2>11, <2>12, <2>13
<1>11. CASE Crash
  <2>1. NoTasks \in Counts /\ NoTasks.done <= NoTasks.total
    BY DEF NoTasks, Counts
  <2>3. mon' \in [Runs -> {"off", "wait", "tick", "report", "emit"}]
    BY <1>11 DEF Crash
  <2>4. lock' \in [Runs -> {"free", "task", "monitor"}]
    BY <1>11 DEF Crash
  <2>5. seen' \in [Runs -> Counts] /\ past' \in Counts /\ now' \in Counts
    BY <1>11, <2>1 DEF Crash
  <2>10. TypeOK'
    BY <1>11, <2>3, <2>4, <2>5 DEF Crash, TypeOK, rowVars
  <2>11. InScript'
    BY <1>11, <2>1 DEF Crash, InScript, rowVars
  <2>12. CountsOK'
    BY <1>11, <2>1 DEF Crash, CountsOK, rowVars
  <2>13. RunsRow'
    BY <1>11, <2>1 DEF Crash, RunsRow, TypeOK, rowVars
  <2> QED
    BY <2>10, <2>11, <2>12, <2>13
<1>12. ASSUME NEW r \in Runs, Wake(r) PROVE TypeInv'
  BY <1>12 DEF Wake, TypeOK, InScript, CountsOK, RunsRow, rowVars, taskVars, trackerVars,
     sparkVars
<1>13. ASSUME NEW r \in Runs, Tick(r) PROVE TypeInv'
  <2>1. /\ past.done \in Nat /\ past.total \in Nat /\ now.done \in Nat /\ now.total \in Nat
        /\ past.done <= past.total /\ now.done <= now.total
    BY DEF TypeOK, CountsOK, Counts
  <2> DEFINE all == [done |-> past.done + now.done, total |-> past.total + now.total]
  <2>2. all \in Counts /\ all.done <= all.total /\ all.total = past.total + now.total
    BY <2>1 DEF Counts
  <2>3. \/ all.total > 0 /\ seen' = [seen EXCEPT ![r] = all] /\ mon' = [mon EXCEPT ![r] = "report"]
        \/ mon' = [mon EXCEPT ![r] = "wait"] /\ UNCHANGED seen
    BY <1>13, <2>2 DEF Tick
  <2>4. UNCHANGED <<rowVars, taskVars, trackerVars, sparkVars>>
    BY <1>13 DEF Tick
  <2> HIDE DEF all
  <2>10. TypeOK'
    <3>1. mon' \in [Runs -> {"off", "wait", "tick", "report", "emit"}]
      BY <2>3 DEF TypeOK
    <3>2. seen' \in [Runs -> Counts]
      BY <2>2, <2>3 DEF TypeOK
    <3> QED
      BY <2>4, <3>1, <3>2 DEF TypeOK, rowVars, taskVars, trackerVars, sparkVars
  <2>11. InScript'
    BY <1>13, <2>2, <2>3 DEF Tick, InScript, rowVars, taskVars, trackerVars, sparkVars
  <2>12. CountsOK'
    BY <2>2, <2>3, <2>4 DEF CountsOK, TypeOK, Counts, rowVars, taskVars, trackerVars, sparkVars
  <2>13. RunsRow'
    BY <1>13, <2>2, <2>3 DEF Tick, RunsRow, TypeOK, rowVars, taskVars, trackerVars, sparkVars
  <2> QED
    BY <2>10, <2>11, <2>12, <2>13
<1>14. ASSUME NEW r \in Runs, Report(r) PROVE TypeInv'
  <2>1. stage[r] # "" => PercentOf(stage[r], seen[r]) \in 0..100
    <3> SUFFICES ASSUME stage[r] # "" PROVE PercentOf(stage[r], seen[r]) \in 0..100
      OBVIOUS
    <3>1. stage[r] \in Stages /\ seen[r] \in Counts
      BY DEF TypeOK
    <3>2. seen[r].total > 0 /\ seen[r].done <= seen[r].total
      BY <1>14 DEF Report, CountsOK
    <3> QED
      <4>1. PercentOf(stage[r], seen[r]) \in Range[stage[r]][1]..Range[stage[r]][2]
        BY <3>1, <3>2, PercentInStage
      <4>2. Range[stage[r]][1] \in 0..100 /\ Range[stage[r]][2] \in 0..100
        BY <3>1, RangeIs
      <4> QED
        BY <4>1, <4>2, Between
  <2>2. percent' \in [Runs -> 0..100]
    BY <1>14, <2>1 DEF Report, TypeOK
  <2>3. UNCHANGED <<rowVars, taskVars, stage, sparkVars>>
    BY <1>14 DEF Report
  <2>4. /\ seen' = [seen EXCEPT ![r] = NoTasks]
        /\ \/ mon' = [mon EXCEPT ![r] = "emit"] /\ lock' = [lock EXCEPT ![r] = "monitor"]
           \/ mon' = [mon EXCEPT ![r] = "wait"] /\ UNCHANGED lock
    BY <1>14 DEF Report
  <2>5. TypeOK'
    <3>1. mon' \in [Runs -> {"off", "wait", "tick", "report", "emit"}]
      BY <2>4 DEF TypeOK
    <3>2. seen' \in [Runs -> Counts]
      BY <2>4 DEF TypeOK, NoTasks, Counts
    <3> QED
      BY <2>2, <2>3, <2>4, <3>1, <3>2 DEF TypeOK, rowVars, taskVars, sparkVars
  <2>6. InScript'
    BY <2>3 DEF InScript, rowVars, taskVars
  <2>7. CountsOK'
    <3>1. ASSUME NEW q \in Runs, mon'[q] = "report"
          PROVE  seen'[q].total > 0 /\ seen'[q].done <= seen'[q].total
      <4>1. q # r /\ mon'[q] = mon[q] /\ seen'[q] = seen[q]
        BY <2>4, <3>1 DEF TypeOK
      <4> QED
        BY <3>1, <4>1 DEF CountsOK
    <3> QED
      BY <2>3, <3>1 DEF CountsOK, sparkVars
  <2>8. RunsRow'
    BY <2>3 DEF RunsRow, rowVars, taskVars
  <2> QED
    BY <2>5, <2>6, <2>7, <2>8
<1>15. ASSUME NEW r \in Runs, EmitFraction(r) PROVE TypeInv'
  <2>1. row' \in RowType /\ row'.status = row.status
    BY <1>15, RowWritten DEF EmitFraction, TypeOK, RowType
  <2> QED
    BY <1>15, <2>1 DEF EmitFraction, TypeOK, InScript, CountsOK, RunsRow, RowType,
                       taskVars, sparkVars
<1>16. ASSUME NEW r \in Runs, MonitorStops(r) PROVE TypeInv'
  BY <1>16 DEF MonitorStops, TypeOK, InScript, CountsOK, RunsRow,
               rowVars, taskVars, trackerVars, sparkVars
<1>17. CASE UNCHANGED vars
  BY <1>17 DEF vars, rowVars, taskVars, trackerVars, monVars, sparkVars,
               TypeOK, InScript, CountsOK, RunsRow
<1> QED
  BY <1>1, <1>2, <1>3, <1>4, <1>5, <1>6, <1>7, <1>8, <1>9, <1>10, <1>11, <1>12, <1>13, <1>14,
     <1>15, <1>16, <1>17 DEF Next, TaskStep, MonitorStep

-----------------------------------------------------------------------------
(* The tracker and the stages to come *)

\* The script of the job has its stages in order.
LEMMA ScriptOfJob ==
  ASSUME TypeOK
  PROVE  /\ Len(Script[kind]) \in 0..9 /\ Len(Script[kind]) \in Int
         /\ \A p \in 1..Len(Script[kind]) :
              Script[kind][p] \in {"monitor"} \cup Acts \cup Stages
         /\ \A p, q \in 1..Len(Script[kind]) :
              p < q /\ Script[kind][p] \in Stages /\ Script[kind][q] \in Stages
                => Range[Script[kind][p]][2] <= Range[Script[kind][q]][1]
         /\ \A p, q \in 1..Len(Script[kind]) :
              Script[kind][p] = "monitor" /\ Script[kind][q] = "monitor" => p = q
<1>1. kind \in {"pattern", "prompt", "spec"}
  BY ProgressAssumption DEF TypeOK
<1>2. Len(Script[kind]) \in 0..9
  BY <1>1, ScriptRises
<1>3. Len(Script[kind]) \in Int
  BY <1>2
<1> QED
  BY <1>1, <1>2, <1>3, ScriptRises

LEMMA Below ==
  ASSUME NEW a \in 0..100, NEW b \in 0..100, NEW c \in 0..100, NEW x \in a..b, b <= c
  PROVE  x <= c
OBVIOUS

LEMMA Later ==
  ASSUME NEW a \in Int, NEW b \in Int, NEW n \in Int, a <= b, NEW p \in b..n
  PROVE  p \in a..n
OBVIOUS

LEMMA StagesLeft ==
  ASSUME TypeOK, TypeOK', StagesRise, UNCHANGED <<kind, stage, run>>,
         task' \in {"off", "leave", "failed"}
           \/ (task \notin {"off", "leave", "failed"} /\ Ahead' >= Ahead)
  PROVE  StagesRise'
<1>1. Ahead \in Int /\ Ahead' \in Int
  <2>0. at \in 1..10 /\ at' \in 1..10
    BY DEF TypeOK
  <2>1. at \in Int /\ at' \in Int
    BY <2>0
  <2> QED
    BY <2>1 DEF Ahead
<1>2. ASSUME task' \notin {"off", "leave", "failed"}, NEW p \in Ahead'..Len(Script[kind]),
             Script[kind][p] \in Stages, stage[run] # ""
      PROVE  Range[stage[run]][2] <= Range[Script[kind][p]][1]
  <2>1. Len(Script[kind]) \in Int
    BY ScriptOfJob
  <2>3. Ahead' >= Ahead
    BY <1>2
  <2>2. p \in Ahead..Len(Script[kind])
    BY <1>1, <1>2, <2>1, <2>3, Later
  <2> QED
    BY <1>2, <2>2 DEF StagesRise
<1> QED
  BY <1>2 DEF StagesRise

\* A stage is entered in the middle of a run.
LEMMA StageEntered ==
  ASSUME TypeOK, TypeOK', InScript, RunsRow, TrackerOK, StagesRise, EnterStage
  PROVE  TrackerOK' /\ StagesRise'
<1>1. /\ run \in Runs /\ Step \in Stages /\ task = "next" /\ task' = "emit"
      /\ stage' = [stage EXCEPT ![run] = Step]
      /\ percent' = [percent EXCEPT ![run] = EntryPercent(Step)]
      /\ UNCHANGED <<kind, run, at>>
  <2>1. run > 0 /\ run \in 0..MaxRuns /\ MaxRuns \in Nat
    BY ProgressAssumption DEF EnterStage, RunsRow, TypeOK
  <2>2. run \in Runs
    BY <2>1 DEF Runs
  <2> QED
    BY <2>2 DEF EnterStage, rowVars
<1>2. at \in 1..10 /\ Len(Script[kind]) \in 0..9
  BY ScriptOfJob DEF TypeOK
<1>3. at <= Len(Script[kind]) /\ Step = Script[kind][at]
  BY <1>1 DEF Step, Stages, Range
<1>4. at \in 1..Len(Script[kind])
  BY <1>2, <1>3
<1>5. EntryPercent(Step) \in Range[Step][1]..Range[Step][2]
  <2>1. Range[Step][1] \in 0..100 /\ Range[Step][2] \in 0..100 /\ Range[Step][1] <= Range[Step][2]
    BY <1>1, RangeIs
  <2>2. percent[run] \in 0..100
    BY <1>1 DEF TypeOK
  <2>3. percent[run] <= Range[Step][1]
    <3>1. CASE stage[run] = ""
      <4>1. percent[run] = 0
        BY <1>1, <3>1 DEF TrackerOK
      <4> QED
        BY <2>1, <4>1
    <3>2. CASE stage[run] # ""
      <4>1. stage[run] \in Stages
        BY <1>1, <3>2 DEF TypeOK
      <4>2. Range[stage[run]][1] \in 0..100 /\ Range[stage[run]][2] \in 0..100
        BY <4>1, RangeIs
      <4>3. percent[run] \in Range[stage[run]][1]..Range[stage[run]][2]
        BY <1>1, <3>2 DEF TrackerOK
      <4>4. at \in Ahead..Len(Script[kind])
        BY <1>1, <1>2, <1>4 DEF Ahead
      <4>5. Range[stage[run]][2] <= Range[Step][1]
        BY <1>1, <1>3, <3>2, <4>4 DEF StagesRise
      <4> QED
        BY <2>1, <2>2, <4>2, <4>3, <4>5, Below
    <3> QED
      BY <3>1, <3>2
  <2>4. EntryPercent(Step) = Range[Step][1]
    <3>1. percent[run] \in Int /\ Range[Step][1] \in Int
      BY <2>1, <2>2
    <3> QED
      BY <2>3, <3>1 DEF EntryPercent, Max2
  <2> QED
    BY <2>1, <2>4
<1>6. TrackerOK'
  <2>1. Step # "" /\ run \in Runs
    BY <1>1 DEF Stages, Range
  <2>2. stage'[run] = Step /\ percent'[run] = EntryPercent(Step)
    BY <1>1 DEF TypeOK
  <2>3. \A r \in Runs \ {run} : stage'[r] = stage[r] /\ percent'[r] = percent[r]
    BY <1>1 DEF TypeOK
  <2>4. ASSUME NEW r \in Runs
        PROVE  IF stage'[r] = "" THEN percent'[r] = 0
               ELSE percent'[r] \in Range[stage'[r]][1]..Range[stage'[r]][2]
    <3>1. CASE r = run
      BY <1>5, <2>1, <2>2, <3>1
    <3>2. CASE r # run
      BY <2>3, <3>2 DEF TrackerOK
    <3> QED
      BY <3>1, <3>2
  <2> QED
    BY <2>4 DEF TrackerOK
<1>7. ASSUME NEW r \in Runs, r > run' PROVE stage'[r] = ""
  <2>1. r # run
    BY <1>1, <1>7 DEF Runs
  <2> QED
    BY <1>1, <1>7, <2>1 DEF StagesRise, TypeOK
<1>8. ASSUME NEW p \in (at + 1)..Len(Script[kind]), Script[kind][p] \in Stages
      PROVE  Range[Step][2] <= Range[Script[kind][p]][1]
  <2>1. p \in 1..Len(Script[kind]) /\ at < p
    BY <1>2, <1>8
  <2> QED
    BY <1>1, <1>3, <1>4, <1>8, <2>1, ScriptOfJob
<1>9. Ahead' = at + 1 /\ stage'[run'] = Step /\ kind' = kind
  BY <1>1 DEF Ahead, TypeOK
<1> QED
  BY <1>6, <1>7, <1>8, <1>9 DEF StagesRise

LEMMA StageSteps ==
  ASSUME TypeInv, TrackerOK, StagesRise, [Next]_vars
  PROVE  TrackerOK' /\ StagesRise'
<1>0. /\ TypeOK /\ InScript /\ CountsOK /\ RunsRow /\ TypeOK'
      /\ at \in Int
  <2>1. TypeOK /\ InScript /\ CountsOK /\ RunsRow /\ TypeOK'
    BY TypeSteps DEF TypeInv
  <2>3. at \in 1..10
    BY <2>1 DEF TypeOK
  <2>2. at \in Int
    BY <2>3
  <2> QED
    BY <2>1, <2>2
<1>a. ASSUME UNCHANGED <<stage, percent>> PROVE TrackerOK'
  BY <1>a DEF TrackerOK
<1>1. CASE StartRun
  <2>1. /\ run' = run + 1 /\ run + 1 \in Runs /\ UNCHANGED <<stage, percent>>
        /\ run \in Int
    <3>1. run \in 0..MaxRuns /\ MaxRuns \in Nat /\ run < MaxRuns
      BY <1>0, <1>1, ProgressAssumption DEF StartRun, TypeOK
    <3>2. run + 1 \in Runs /\ run \in Int
      BY <3>1 DEF Runs
    <3> QED
      BY <1>1, <3>2 DEF StartRun, trackerVars
  <2>4. \A r \in Runs : r > run + 1 => r > run
    BY <2>1 DEF Runs
  <2>2. \A r \in Runs : r > run' => stage'[r] = ""
    BY <2>1, <2>4 DEF StagesRise
  <2>5. run + 1 > run
    BY <2>1
  <2>3. stage'[run'] = ""
    BY <2>1, <2>5 DEF StagesRise
  <2> QED
    BY <1>a, <2>1, <2>2, <2>3 DEF StagesRise
<1>2. CASE StartMonitor \/ SparkReturns
  <2>1. /\ at' = at + 1 /\ task \in {"next", "spark"} /\ task' = "next"
        /\ UNCHANGED <<kind, stage, percent, run>>
    BY <1>2 DEF StartMonitor, SparkReturns, rowVars, trackerVars
  <2>2. Ahead' >= Ahead
    BY <1>0, <2>1 DEF Ahead
  <2> QED
    BY <1>0, <1>a, <2>1, <2>2, StagesLeft
<1>3. CASE EnterStage
  BY <1>0, <1>3, StageEntered
<1>4. CASE EmitStage
  <2>1. /\ at' = at + 1 /\ task = "emit" /\ task' = "next"
        /\ UNCHANGED <<kind, stage, percent, run>>
    BY <1>4 DEF EmitStage
  <2>2. Ahead' >= Ahead
    BY <1>0, <2>1 DEF Ahead
  <2> QED
    BY <1>0, <1>a, <2>1, <2>2, StagesLeft
<1>5. CASE LaunchSpark
  <2>1. /\ at' = at /\ task = "next" /\ task' = "spark"
        /\ UNCHANGED <<kind, stage, percent, run>>
    BY <1>5 DEF LaunchSpark, rowVars, trackerVars
  <2>2. Ahead' >= Ahead
    BY <1>0, <2>1 DEF Ahead
  <2> QED
    BY <1>0, <1>a, <2>1, <2>2, StagesLeft
<1>6. CASE Raise \/ LeaveTry \/ EndRun \/ Crash
  <2>1. task' \in {"off", "leave", "failed"} /\ UNCHANGED <<kind, stage, percent, run>>
    BY <1>6 DEF Raise, LeaveTry, EndRun, Crash, rowVars, trackerVars
  <2>2. TrackerOK'
    BY <1>a, <2>1
  <2>3. StagesRise'
    <3>1. kind' = kind /\ stage' = stage /\ run' = run
      BY <2>1
    <3>2. ~(task' \notin {"off", "leave", "failed"})
      BY <2>1
    <3>3. \A r \in Runs : r > run' => stage'[r] = ""
      BY <3>1 DEF StagesRise
    <3> QED
      BY <3>2, <3>3 DEF StagesRise
  <2> QED
    BY <2>2, <2>3
<1>7. ASSUME UNCHANGED <<kind, stage, run, at, task>> PROVE StagesRise'
  <2>1. Ahead' >= Ahead
    BY <1>0, <1>7 DEF Ahead
  <2> QED
    BY <1>0, <1>7, <2>1, StagesLeft
<1>8. CASE TaskCompletes
  BY <1>8, <1>a, <1>7 DEF TaskCompletes, rowVars, taskVars, trackerVars
<1>9. ASSUME NEW r \in Runs, Wake(r) \/ Tick(r) \/ MonitorStops(r) \/ EmitFraction(r)
      PROVE  TrackerOK' /\ StagesRise'
  BY <1>9, <1>a, <1>7 DEF Wake, Tick, MonitorStops, EmitFraction, rowVars, taskVars, trackerVars
<1>10. ASSUME NEW r \in Runs, Report(r) PROVE TrackerOK' /\ StagesRise'
  <2>1. StagesRise'
    BY <1>10, <1>7 DEF Report, rowVars, taskVars
  <2>4. stage' = stage
    BY <1>10 DEF Report
  <2>2. CASE percent' = percent
    BY <1>a, <2>1, <2>2, <2>4
  <2>3. CASE /\ stage[r] # "" /\ stage' = stage
             /\ percent' = [percent EXCEPT ![r] = PercentOf(stage[r], seen[r])]
    <3>1. stage[r] \in Stages /\ seen[r] \in Counts
      BY <1>0, <2>3 DEF TypeOK
    <3>2. seen[r].total > 0 /\ seen[r].done <= seen[r].total
      BY <1>0, <1>10 DEF Report, CountsOK
    <3>3. PercentOf(stage[r], seen[r]) \in Range[stage[r]][1]..Range[stage[r]][2]
      BY <3>1, <3>2, PercentInStage
    <3> QED
      BY <1>0, <2>1, <2>3, <3>3 DEF TrackerOK, TypeOK
  <2> QED
    BY <1>10, <2>2, <2>3 DEF Report
<1>11. CASE UNCHANGED vars
  BY <1>11, <1>a, <1>7 DEF vars, rowVars, taskVars, trackerVars
<1> QED
  BY <1>1, <1>2, <1>3, <1>4, <1>5, <1>6, <1>8, <1>9, <1>10, <1>11 DEF Next, TaskStep,
     MonitorStep

-----------------------------------------------------------------------------
(* The row *)

\* What a tracker writes is a percentage of its stage.
LEMMA BarWritten ==
  ASSUME TypeOK, TrackerOK, BarWithinStage, NEW r \in Runs, UpdateRow(stage[r], percent[r])
  PROVE  BarWithinStage'
<1>1. row \in RowType /\ stage[r] \in Stages \cup {""} /\ percent[r] \in 0..100
  BY DEF TypeOK, RowType
<1>2. CASE row.status = "RUNNING"
  <2>1. row'.stage = stage[r] /\ row'.progress = percent[r]
    BY <1>1, <1>2, RowWritten
  <2>2. ASSUME stage[r] # ""
        PROVE  percent[r] >= Range[stage[r]][1] /\ percent[r] <= Range[stage[r]][2]
    <3>1. Range[stage[r]][1] \in 0..100 /\ Range[stage[r]][2] \in 0..100
      BY <1>1, <2>2, RangeIs
    <3>2. percent[r] \in Range[stage[r]][1]..Range[stage[r]][2]
      BY <2>2 DEF TrackerOK
    <3> QED
      BY <3>1, <3>2
  <2> QED
    BY <2>1, <2>2 DEF BarWithinStage
<1>3. CASE row.status # "RUNNING"
  BY <1>1, <1>3, RowWritten DEF BarWithinStage
<1> QED
  BY <1>2, <1>3

LEMMA BarSteps ==
  ASSUME TypeInv, StageInv, BarWithinStage, [Next]_vars
  PROVE  BarWithinStage'
<1>0. TypeOK /\ RunsRow /\ TrackerOK /\ (task # "off" => run \in Runs)
  <2>1. TypeOK /\ RunsRow /\ TrackerOK
    BY DEF TypeInv, StageInv
  <2>2. run \in 0..MaxRuns /\ MaxRuns \in Nat
    BY <2>1, ProgressAssumption DEF TypeOK
  <2>3. run > 0 => run \in Runs
    BY <2>2 DEF Runs
  <2> QED
    BY <2>1, <2>3 DEF RunsRow
<1>1. CASE row' = row
  BY <1>1 DEF BarWithinStage
<1>2. CASE StartRun
  BY <1>2 DEF StartRun, BarWithinStage
<1>3. CASE EmitStage
  <2>1. run \in Runs /\ UpdateRow(stage[run], percent[run])
    BY <1>0, <1>3 DEF EmitStage
  <2> QED
    BY <1>0, <2>1, BarWritten
<1>4. CASE EndRun
  <2>1. row' = row \/ row'.status = "SUCCESS" \/ row'.status = "FAILED"
    BY <1>0, <1>4 DEF EndRun, TypeOK
  <2> QED
    BY <1>1, <2>1 DEF BarWithinStage
<1>5. ASSUME NEW r \in Runs, EmitFraction(r) PROVE BarWithinStage'
  BY <1>0, <1>1, <1>5, BarWritten DEF EmitFraction
<1>6. CASE \/ StartMonitor \/ EnterStage \/ LaunchSpark \/ SparkReturns \/ LeaveTry
           \/ TaskCompletes \/ Raise \/ Crash \/ UNCHANGED vars
  BY <1>1, <1>6 DEF StartMonitor, EnterStage, LaunchSpark, SparkReturns, LeaveTry,
                    TaskCompletes, Raise, Crash, vars, rowVars
<1>7. ASSUME NEW r \in Runs, Wake(r) \/ Tick(r) \/ Report(r) \/ MonitorStops(r)
      PROVE  BarWithinStage'
  BY <1>1, <1>7 DEF Wake, Tick, Report, MonitorStops, rowVars
<1> QED
  BY <1>2, <1>3, <1>4, <1>5, <1>6, <1>7 DEF Next, TaskStep, MonitorStep

\* The place of the task thread.
LEMMA RunOfTask ==
  ASSUME TypeInv
  PROVE  /\ TypeOK /\ RunsRow /\ MaxRuns \in Nat /\ run \in Int /\ at \in Int
         /\ at \in 1..10 /\ run \in 0..MaxRuns
         /\ task # "off" => run \in Runs /\ row.status = "RUNNING"
<1>1. TypeOK /\ RunsRow /\ MaxRuns \in Nat
  BY ProgressAssumption DEF TypeInv
<1>2. run \in 0..MaxRuns /\ at \in 1..10
  BY <1>1 DEF TypeOK
<1>3. run \in Int /\ at \in Int /\ (run > 0 => run \in Runs)
  BY <1>1, <1>2 DEF Runs
<1> QED
  BY <1>1, <1>2, <1>3 DEF RunsRow

\* Every step of a monitor begins and ends in a run whose monitor is at work.
LEMMA MonitorSteps ==
  ASSUME TypeInv, MonitorOK, Alone, [Next]_vars
  PROVE  MonitorOK' /\ Alone'
<1>0. /\ TypeOK /\ RunsRow /\ run \in Int /\ at \in 1..10
      /\ task # "off" => run \in Runs /\ row.status = "RUNNING"
  BY RunOfTask
<1>1. CASE StartRun
  <2>1. /\ run' = run + 1 /\ task = "off" /\ UNCHANGED <<mon, outlived>>
    BY <1>1 DEF StartRun, monVars
  <2>2. \A r \in Runs : r >= run + 1 => mon[r] = "off"
    BY <1>0, <2>1 DEF MonitorOK, Runs
  <2>3. run + 1 \in Runs
    <3>1. run \in 0..MaxRuns /\ MaxRuns \in Nat /\ run < MaxRuns
      BY <1>1, RunOfTask DEF StartRun
    <3> QED
      BY <3>1 DEF Runs
  <2>4. \A r \in Runs : r > run + 1 => r >= run + 1
    BY <1>0 DEF Runs
  <2>5. MonitorOK'
    BY <1>0, <2>1, <2>2, <2>3, <2>4 DEF MonitorOK
  <2>6. Alone'
    BY <2>1 DEF Alone
  <2> QED
    BY <2>5, <2>6
<1>2. CASE StartMonitor
  <2>1. /\ run \in Runs /\ task = "next" /\ task' = "next" /\ at' = at + 1
        /\ mon' = [mon EXCEPT ![run] = "wait"] /\ UNCHANGED <<kind, run, outlived>>
    BY <1>0, <1>2 DEF StartMonitor, rowVars
  <2>2. at \in 1..Len(Script[kind]) /\ Script[kind][at] = "monitor"
    <3>1. at <= Len(Script[kind]) /\ Script[kind][at] = "monitor"
      BY <1>2 DEF StartMonitor, Step
    <3>2. Len(Script[kind]) \in Int
      BY <1>0, ScriptOfJob
    <3> QED
      BY <1>0, <3>1, <3>2
  <2>3. \A p \in (at + 1)..Len(Script[kind]) : Script[kind][p] # "monitor"
    <3>1. SUFFICES ASSUME NEW p \in (at + 1)..Len(Script[kind]), Script[kind][p] = "monitor"
                   PROVE  FALSE
      OBVIOUS
    <3>2. Len(Script[kind]) \in Int
      BY <1>0, ScriptOfJob
    <3>3. p \in 1..Len(Script[kind]) /\ p # at
      BY <1>0, <3>2
    <3> QED
      BY <1>0, <2>2, <3>1, <3>3, ScriptOfJob
  <2>4. \A r \in Runs : r > run => mon'[r] = "off"
    <3>1. \A r \in Runs : r > run => r # run
      BY <1>0 DEF Runs
    <3> QED
      BY <1>0, <2>1, <3>1 DEF MonitorOK, TypeOK
  <2>5. MonitorOK'
    BY <2>1, <2>3, <2>4 DEF MonitorOK
  <2>6. Alone'
    BY <1>0, <2>1 DEF Alone, TypeOK
  <2> QED
    BY <2>5, <2>6
<1>3. ASSUME UNCHANGED <<kind, run, outlived, mon>>, task # "off" => task' # "off",
             at' = at \/ at' = at + 1, task' # "off" => task # "off"
      PROVE  MonitorOK' /\ Alone'
  <2>1. MonitorOK'
    <3>1. ASSUME task # "off", NEW p \in at'..Len(Script[kind]), Script[kind][p] = "monitor"
          PROVE  mon[run] = "off"
      <4>1. Len(Script[kind]) \in Int
        BY <1>0, ScriptOfJob
      <4>2. p \in at..Len(Script[kind])
        BY <1>0, <1>3, <3>1, <4>1
      <4> QED
        BY <3>1, <4>2 DEF MonitorOK
    <3> QED
      BY <1>3, <3>1 DEF MonitorOK
  <2>2. Alone'
    BY <1>3 DEF Alone
  <2> QED
    BY <2>1, <2>2
<1>4. CASE EnterStage \/ EmitStage \/ LaunchSpark \/ SparkReturns \/ LeaveTry \/ Raise
           \/ TaskCompletes \/ UNCHANGED vars
  BY <1>3, <1>4 DEF EnterStage, EmitStage, LaunchSpark, SparkReturns, LeaveTry, Raise,
                    TaskCompletes, vars, rowVars, taskVars, monVars
<1>5. CASE EndRun
  <2>1. /\ task' = "off" /\ UNCHANGED <<run, mon>> /\ run \in Runs
        /\ outlived' = (outlived \/ mon[run] # "off")
    BY <1>0, <1>5 DEF EndRun, monVars
  <2>2. MonitorOK'
    BY <2>1 DEF MonitorOK
  <2>3. Alone'
    BY <2>1 DEF Alone
  <2> QED
    BY <2>2, <2>3
<1>6. CASE Crash
  BY <1>6 DEF Crash, MonitorOK, Alone, rowVars
<1>7. ASSUME NEW r \in Runs, mon[r] # "off", UNCHANGED <<kind, run, outlived, at, task>>,
             \A q \in Runs \ {r} : mon'[q] = mon[q]
      PROVE  MonitorOK' /\ Alone'
  <2>1. ~outlived => r = run /\ task # "off"
    BY <1>7 DEF Alone
  <2>2. r = run /\ task # "off" =>
          \A p \in at..Len(Script[kind]) : Script[kind][p] # "monitor"
    BY <1>7 DEF MonitorOK
  <2>3. \A q \in Runs : q > run => mon'[q] = "off"
    BY <1>7 DEF MonitorOK
  <2>4. MonitorOK'
    BY <1>0, <1>7, <2>2, <2>3 DEF MonitorOK
  <2>5. Alone'
    BY <1>7, <2>1 DEF Alone
  <2> QED
    BY <2>4, <2>5
<1>8. ASSUME NEW r \in Runs, Wake(r) \/ Tick(r) \/ Report(r) \/ EmitFraction(r) \/ MonitorStops(r)
      PROVE  MonitorOK' /\ Alone'
  <2>1. /\ mon[r] # "off" /\ UNCHANGED <<kind, run, outlived, at, task>>
    BY <1>8 DEF Wake, Tick, Report, EmitFraction, MonitorStops, rowVars, taskVars
  <2>2. \A q \in Runs \ {r} : mon'[q] = mon[q]
    BY <1>0, <1>8 DEF Wake, Tick, Report, EmitFraction, MonitorStops, TypeOK
  <2> QED
    BY <1>7, <2>1, <2>2
<1> QED
  BY <1>1, <1>2, <1>4, <1>5, <1>6, <1>8 DEF Next, TaskStep, MonitorStep

\* The lock is always with the one thread that writes.
LEMMA LockSteps ==
  ASSUME TypeInv, MonitorOK, LockOK, [Next]_vars
  PROVE  LockOK'
<1>0. /\ TypeOK /\ run \in Int /\ at \in 1..10
      /\ task # "off" => run \in Runs
  BY RunOfTask
<1>1. CASE StartRun
  BY <1>1 DEF StartRun, LockOK, trackerVars, monVars
<1>2. CASE StartMonitor
  <2>1. at \in at..Len(Script[kind]) /\ Script[kind][at] = "monitor"
    <3>1. at <= Len(Script[kind]) /\ Script[kind][at] = "monitor"
      BY <1>2 DEF StartMonitor, Step
    <3>2. Len(Script[kind]) \in Int
      BY <1>0, ScriptOfJob
    <3> QED
      BY <1>0, <3>1, <3>2
  <2>2. mon[run] = "off"
    BY <1>2, <2>1 DEF StartMonitor, MonitorOK
  <2> QED
    BY <1>0, <1>2, <2>2 DEF StartMonitor, LockOK, TypeOK, trackerVars
<1>3. CASE EnterStage
  BY <1>0, <1>3 DEF EnterStage, LockOK, TypeOK, monVars
<1>4. CASE EmitStage
  BY <1>0, <1>4 DEF EmitStage, LockOK, TypeOK, monVars
<1>5. CASE LaunchSpark \/ SparkReturns \/ LeaveTry \/ EndRun
  BY <1>5 DEF LaunchSpark, SparkReturns, LeaveTry, EndRun, LockOK, trackerVars, monVars
<1>6. CASE Raise
  BY <1>0, <1>6 DEF Raise, LockOK, TypeOK, monVars
<1>7. CASE TaskCompletes \/ UNCHANGED vars
  BY <1>7 DEF TaskCompletes, LockOK, vars, taskVars, trackerVars, monVars
<1>8. CASE Crash
  BY <1>8 DEF Crash, LockOK
<1>9. ASSUME NEW r \in Runs, Wake(r) \/ Tick(r) \/ MonitorStops(r) PROVE LockOK'
  BY <1>0, <1>9 DEF Wake, Tick, MonitorStops, LockOK, TypeOK, taskVars, trackerVars
<1>10. ASSUME NEW r \in Runs, Report(r) PROVE LockOK'
  <2>1. /\ mon[r] = "report" /\ lock[r] = "free" /\ UNCHANGED <<run, task>>
        /\ \/ lock' = [lock EXCEPT ![r] = "monitor"] /\ mon' = [mon EXCEPT ![r] = "emit"]
           \/ lock' = lock /\ mon' = [mon EXCEPT ![r] = "wait"]
    BY <1>10 DEF Report, taskVars
  <2>2. lock \in [Runs -> {"free", "task", "monitor"}] /\ DOMAIN mon = Runs
    BY <1>0 DEF TypeOK
  <2>3. CASE lock' = lock /\ mon' = [mon EXCEPT ![r] = "wait"]
    BY <2>1, <2>2, <2>3 DEF LockOK
  <2>4. CASE lock' = [lock EXCEPT ![r] = "monitor"] /\ mon' = [mon EXCEPT ![r] = "emit"]
    BY <2>1, <2>2, <2>4 DEF LockOK
  <2> QED
    BY <2>1, <2>3, <2>4
<1>11. ASSUME NEW r \in Runs, EmitFraction(r) PROVE LockOK'
  BY <1>0, <1>11 DEF EmitFraction, LockOK, TypeOK, taskVars
<1> QED
  BY <1>1, <1>2, <1>3, <1>4, <1>5, <1>6, <1>7, <1>8, <1>9, <1>10, <1>11
     DEF Next, TaskStep, MonitorStep

\* A percentage only grows within a run.
PercentGrows == \A r \in Runs : percent'[r] >= percent[r]

LEMMA PercentSteps ==
  ASSUME TypeInv, [Next]_vars
  PROVE  PercentGrows
<1>0. /\ TypeOK /\ \A r \in Runs : percent[r] \in Int
      /\ task # "off" => run \in Runs
  <2>1. TypeOK /\ (task # "off" => run \in Runs)
    BY RunOfTask
  <2>2. ASSUME NEW r \in Runs PROVE percent[r] \in Int
    <3>1. percent[r] \in 0..100
      BY <2>1 DEF TypeOK
    <3> QED
      BY <3>1
  <2> QED
    BY <2>1, <2>2
<1>1. ASSUME percent' = percent PROVE PercentGrows
  BY <1>0, <1>1 DEF PercentGrows
<1>2. ASSUME NEW r \in Runs, NEW p, p >= percent[r], percent' = [percent EXCEPT ![r] = p]
      PROVE  PercentGrows
  <2>1. \A q \in Runs : percent'[q] = IF q = r THEN p ELSE percent[q]
    BY <1>0, <1>2 DEF TypeOK
  <2> QED
    BY <1>0, <1>2, <2>1 DEF PercentGrows
<1>3. CASE EnterStage
  <2>1. run \in Runs /\ Step \in Stages
        /\ percent' = [percent EXCEPT ![run] = EntryPercent(Step)]
    BY <1>0, <1>3 DEF EnterStage
  <2>2. percent[run] \in 0..100 /\ Range[Step][1] \in 0..100
    BY <1>0, <2>1, RangeIs DEF TypeOK
  <2>3. percent[run] \in Int /\ Range[Step][1] \in Int
    BY <2>2
  <2>4. EntryPercent(Step) >= percent[run]
    BY <2>3 DEF EntryPercent, Max2
  <2> QED
    BY <1>2, <2>1, <2>4
<1>4. ASSUME NEW r \in Runs, Report(r) PROVE PercentGrows
  <2>1. CASE UNCHANGED <<lock, percent>>
    BY <1>1, <2>1
  <2>2. CASE /\ stage[r] # "" /\ Higher(r, PercentOf(stage[r], seen[r]))
             /\ percent' = [percent EXCEPT ![r] = PercentOf(stage[r], seen[r])]
    <3>1. stage[r] \in Stages /\ seen[r] \in Counts
      BY <1>0, <2>2 DEF TypeOK
    <3>2. seen[r].total > 0 /\ seen[r].done <= seen[r].total
      BY <1>4 DEF TypeInv, Report, CountsOK
    <3>3. PercentOf(stage[r], seen[r]) \in Range[stage[r]][1]..Range[stage[r]][2]
      BY <3>1, <3>2, PercentInStage
    <3>4. Range[stage[r]][1] \in 0..100 /\ Range[stage[r]][2] \in 0..100
      BY <3>1, RangeIs
    <3>5. PercentOf(stage[r], seen[r]) \in 0..100
      BY <3>3, <3>4, Between
    <3>6. PercentOf(stage[r], seen[r]) \in Int
      BY <3>5
    <3>7. PercentOf(stage[r], seen[r]) >= percent[r]
      <4>1. PercentOf(stage[r], seen[r]) > percent[r] /\ percent[r] \in Int
        BY <1>0, <2>2 DEF Higher
      <4> QED
        BY <3>6, <4>1
    <3> QED
      BY <1>2, <2>2, <3>7
  <2> QED
    BY <1>4, <2>1, <2>2 DEF Report
<1>5. ASSUME NEW r \in Runs, Wake(r) \/ Tick(r) \/ EmitFraction(r) \/ MonitorStops(r)
      PROVE  PercentGrows
  BY <1>1, <1>5 DEF Wake, Tick, EmitFraction, MonitorStops, trackerVars
<1>6. CASE \/ StartRun \/ StartMonitor \/ EmitStage \/ LaunchSpark \/ SparkReturns \/ LeaveTry
           \/ EndRun \/ TaskCompletes \/ Raise \/ Crash \/ UNCHANGED vars
  BY <1>1, <1>6 DEF StartRun, StartMonitor, EmitStage, LaunchSpark, SparkReturns, LeaveTry,
                    EndRun, TaskCompletes, Raise, Crash, vars, trackerVars
<1> QED
  BY <1>3, <1>4, <1>5, <1>6 DEF Next, TaskStep, MonitorStep

\* What the only run that writes has written is not ahead of its tracker.
RowGrows == run' = run /\ ~outlived => row'.progress >= row.progress

LEMMA RowSteps ==
  ASSUME TypeInv, StageInv, RowInv, [Next]_vars
  PROVE  RowOK' /\ RowGrows
<1>0. /\ TypeOK /\ RunsRow /\ TrackerOK /\ StagesRise /\ Alone /\ RowOK /\ PercentGrows
      /\ run \in Int /\ row \in RowType
      /\ task # "off" => run \in Runs /\ row.status = "RUNNING"
  BY RunOfTask, PercentSteps DEF TypeInv, StageInv, RowInv, TypeOK, RowType
<1>i. run \in Int /\ run + 1 # run
  BY <1>0
<1>n. /\ row.progress \in Int /\ row.progress \in 0..100
      /\ \A r \in Runs : percent[r] \in Int /\ percent'[r] \in Int
  <2>1. row.progress \in 0..100
    BY <1>0 DEF RowType
  <2>2. TypeOK'
    BY TypeSteps DEF TypeInv
  <2>3. \A r \in Runs : percent[r] \in 0..100 /\ percent'[r] \in 0..100
    BY <1>0, <2>2 DEF TypeOK
  <2> QED
    BY <2>1, <2>3
<1>g. CASE UNCHANGED <<row, run, outlived>>
  <2>1. ASSUME run > 0 PROVE percent'[run] >= percent[run] /\ run \in Runs
    <3>1. run \in Runs
      BY <1>0, <2>1, RunOfTask DEF Runs
    <3> QED
      BY <1>0, <3>1 DEF PercentGrows
  <2>2. RowGrows
    BY <1>g, <1>n DEF RowGrows
  <2>3. run > 0 /\ row.status = "RUNNING" /\ ~outlived => row.progress <= percent'[run]
    BY <1>0, <1>n, <2>1 DEF RowOK
  <2>4. CASE task' \in {"off", "failed", "emit"}
    BY <1>g, <2>2, <2>3, <2>4 DEF RowOK
  <2>5. CASE task \notin {"off", "failed", "emit"} /\ stage' = stage
    BY <1>0, <1>g, <2>2, <2>3, <2>5 DEF RowOK
  <2>6. CASE task' = task /\ stage' = stage
    BY <2>4, <2>5, <2>6
  <2>7. \/ task' \in {"off", "failed", "emit"}
        \/ task \notin {"off", "failed", "emit"} /\ stage' = stage
        \/ task' = task /\ stage' = stage
        \/ StartRun \/ EmitStage \/ EndRun
    BY DEF Next, TaskStep, MonitorStep, StartMonitor, EnterStage, LaunchSpark, SparkReturns,
           LeaveTry, Raise, Crash, TaskCompletes, Wake, Tick, Report, EmitFraction, MonitorStops,
           vars, taskVars, trackerVars
  <2>8. StartRun => FALSE
    BY <1>i, <1>g DEF StartRun
  <2>9. CASE EmitStage
    <3>1. run \in Runs /\ row.status = "RUNNING" /\ UpdateRow(stage[run], percent[run])
          /\ UNCHANGED <<stage, percent>>
      BY <1>0, <2>9 DEF EmitStage
    <3>2. stage[run] \in Stages \cup {""} /\ percent[run] \in 0..100
      BY <1>0, <3>1 DEF TypeOK
    <3>3. row'.stage = stage[run] /\ row'.progress = percent[run]
      BY <1>0, <3>1, <3>2, RowWritten
    <3> QED
      BY <1>g, <1>n, <2>2, <3>1, <3>3 DEF RowOK
  <2>10. CASE EndRun
    BY <2>4, <2>10 DEF EndRun
  <2> QED
    BY <2>4, <2>5, <2>6, <2>7, <2>8, <2>9, <2>10
<1>w. ASSUME run \in Runs, ~outlived => row.progress <= percent[run],
             UpdateRow(stage[run], percent[run]), UNCHANGED <<run, outlived, stage, percent>>
      PROVE  RowOK' /\ RowGrows
  <2>1. stage[run] \in Stages \cup {""} /\ percent[run] \in 0..100
    BY <1>0, <1>w DEF TypeOK
  <2>2. /\ row'.status = row.status
        /\ row.status = "RUNNING" => row'.stage = stage[run] /\ row'.progress = percent[run]
        /\ row.status # "RUNNING" => row' = row
    <3>1. row \in RowType
      BY <1>0
    <3> QED
      BY <1>w, <2>1, <3>1, RowWritten
  <2> QED
    BY <1>n, <1>w, <2>2 DEF RowOK, RowGrows
<1>1. CASE StartRun
  <2>1. /\ run' = run + 1 /\ row' = [status |-> "RUNNING", stage |-> "", progress |-> 0]
        /\ UNCHANGED <<stage, percent>>
    BY <1>1 DEF StartRun, trackerVars
  <2>2. run + 1 \in Runs /\ run + 1 > run
    <3>1. run \in 0..MaxRuns /\ MaxRuns \in Nat /\ run < MaxRuns
      BY <1>1, RunOfTask DEF StartRun
    <3> QED
      BY <3>1 DEF Runs
  <2>3. stage[run + 1] = "" /\ percent[run + 1] = 0
    BY <1>0, <2>2 DEF StagesRise, TrackerOK
  <2>4. run' # run
    BY <1>i, <2>1
  <2> QED
    <3>1. row'.progress = 0 /\ row'.stage = "" /\ stage'[run'] = "" /\ percent'[run'] = 0
      BY <2>1, <2>3
    <3>5. 0 <= 0
      OBVIOUS
    <3>2. row'.progress <= percent'[run'] /\ row'.stage = stage'[run']
      BY <3>1, <3>5
    <3>3. RowOK'
      BY <3>2 DEF RowOK
    <3>4. RowGrows
      BY <2>4 DEF RowGrows
    <3> QED
      BY <3>3, <3>4
<1>2. CASE EmitStage
  <2>1. /\ run \in Runs /\ UpdateRow(stage[run], percent[run])
        /\ UNCHANGED <<run, outlived, stage, percent>>
    BY <1>0, <1>2 DEF EmitStage
  <2>2. ~outlived => row.progress <= percent[run]
    BY <1>0, <1>2 DEF RowOK, EmitStage, RunsRow
  <2> QED
    BY <1>w, <2>1, <2>2
<1>3. CASE EndRun
  <2>1. /\ run' = run /\ (~outlived' => ~outlived) /\ task' = "off" /\ percent' = percent
        /\ \/ row' = row
           \/ row'.status # "RUNNING" /\ row'.progress = row.progress
           \/ row'.status # "RUNNING" /\ row'.progress = 100
    BY <1>0, <1>3 DEF EndRun, trackerVars, RowType
  <2>2. row'.progress >= row.progress
    BY <1>n, <2>1
  <2>3. row' = row /\ run > 0 /\ row.status = "RUNNING" /\ ~outlived'
          => row.progress <= percent[run]
    BY <1>0, <2>1 DEF RowOK
  <2> QED
    BY <2>1, <2>2, <2>3 DEF RowOK, RowGrows
<1>4. ASSUME NEW r \in Runs, EmitFraction(r) PROVE RowOK' /\ RowGrows
  <2>1. /\ mon[r] # "off" /\ UNCHANGED <<run, outlived, task, stage, percent>>
        /\ UpdateRow(stage[r], percent[r]) \/ UNCHANGED row
    BY <1>4 DEF EmitFraction, taskVars
  <2>2. CASE UNCHANGED row
    BY <1>g, <2>1, <2>2
  <2>3. CASE outlived
    BY <2>1, <2>3 DEF RowOK, RowGrows
  <2>4. CASE ~outlived /\ UpdateRow(stage[r], percent[r])
    <3>1. r = run /\ task # "off"
      BY <1>0, <2>1, <2>4 DEF Alone
    <3>2. row.progress <= percent[run]
      BY <1>0, <2>4, <3>1 DEF RowOK, RunsRow
    <3> QED
      BY <1>0, <1>w, <2>1, <2>4, <3>1, <3>2
  <2> QED
    BY <2>1, <2>2, <2>3, <2>4
<1>5. CASE \/ StartMonitor \/ EnterStage \/ LaunchSpark \/ SparkReturns \/ LeaveTry
           \/ TaskCompletes \/ Raise \/ Crash \/ UNCHANGED vars
  BY <1>5, <1>g DEF StartMonitor, EnterStage, LaunchSpark, SparkReturns, LeaveTry,
                    TaskCompletes, Raise, Crash, vars, rowVars, taskVars
<1>6. ASSUME NEW r \in Runs, Wake(r) \/ Tick(r) \/ Report(r) \/ MonitorStops(r)
      PROVE  RowOK' /\ RowGrows
  BY <1>6, <1>g DEF Wake, Tick, Report, MonitorStops, rowVars, taskVars
<1> QED
  BY <1>1, <1>2, <1>3, <1>4, <1>5, <1>6 DEF Next, TaskStep, MonitorStep

\* A row is only written while it is RUNNING.
LEMMA FinishedSteps ==
  ASSUME TypeInv, [Next]_vars, row.status \in Terminal
  PROVE  UNCHANGED row
<1>1. task = "off" /\ row.status # "RUNNING"
  BY DEF TypeInv, RunsRow, Terminal
<1> QED
  BY <1>1 DEF Next, TaskStep, MonitorStep, StartRun, StartMonitor, EnterStage, EmitStage,
     LaunchSpark, SparkReturns, LeaveTry, EndRun, Raise, Crash, TaskCompletes, Wake, Tick, Report,
     EmitFraction, MonitorStops, UpdateRow, vars, rowVars

-----------------------------------------------------------------------------
(* The theorems *)

LEMMA InitialBar == Init => TypeInv /\ StageInv /\ RowInv /\ BarWithinStage
<1> SUFFICES ASSUME Init PROVE TypeInv /\ StageInv /\ RowInv /\ BarWithinStage
  OBVIOUS
<1>0. MaxRuns \in Nat /\ NoTasks \in Counts /\ NoTasks.done <= NoTasks.total
  BY ProgressAssumption DEF NoTasks, Counts
<1>1. TypeOK
  <2>1. 0 \in 0..MaxRuns /\ 1 \in 1..10 /\ 0 \in 0..100
    BY <1>0
  <2> QED
    BY <1>0, <2>1 DEF Init, TypeOK
<1>2. InScript /\ RunsRow
  BY DEF Init, InScript, RunsRow
<1>3. CountsOK
  BY <1>0 DEF Init, CountsOK
<1>4. StageInv
  BY DEF Init, StageInv, TrackerOK, StagesRise
<1>5. RowInv
  BY DEF Init, RowInv, MonitorOK, LockOK, Alone, RowOK
<1>6. BarWithinStage
  BY DEF Init, BarWithinStage
<1> QED
  BY <1>1, <1>2, <1>3, <1>4, <1>5, <1>6 DEF TypeInv

LEMMA BarInvSteps ==
  TypeInv /\ StageInv /\ RowInv /\ BarWithinStage /\ [Next]_vars
    => (TypeInv /\ StageInv /\ RowInv /\ BarWithinStage)'
<1> SUFFICES ASSUME TypeInv, StageInv, RowInv, BarWithinStage, [Next]_vars
             PROVE  TypeInv' /\ StageInv' /\ RowInv' /\ BarWithinStage'
  OBVIOUS
<1>1. TypeInv' /\ BarWithinStage'
  BY TypeSteps, BarSteps
<1>2. StageInv'
  BY StageSteps DEF StageInv
<1>3. MonitorOK' /\ Alone' /\ LockOK'
  BY MonitorSteps, LockSteps DEF RowInv
<1>4. RowOK'
  BY RowSteps
<1> QED
  BY <1>1, <1>2, <1>3, <1>4 DEF RowInv

\* The state of the progress bar has its types: among them, a percentage is one.
THEOREM BarTypes == Spec => []TypeOK
<1>1. TypeInv => TypeOK
  BY DEF TypeInv
<1> QED
  BY <1>1, InitialBar, BarInvSteps, PTL DEF Spec

\* The stage and the percentage of a running row always match.
THEOREM StageAndBarMatch == Spec => []BarWithinStage
BY InitialBar, BarInvSteps, PTL DEF Spec

\* The row follows the tracker of the run that writes it.
THEOREM RowIsOfTracker == Spec => []RowFollowsTracker
<1>1. TypeInv /\ RowInv => RowFollowsTracker
  BY RunOfTask DEF RowInv, LockOK, RowOK, RowFollowsTracker
<1> QED
  BY <1>1, InitialBar, BarInvSteps, PTL DEF Spec

\* A percentage only grows.
THEOREM BarGrows == Spec => BarOnlyGrows
<1>1. TypeInv /\ StageInv /\ RowInv /\ [Next]_vars
        => [/\ \A r \in Runs : percent'[r] >= percent[r]
            /\ run' = run /\ ~outlived => row'.progress >= row.progress]_vars
  BY PercentSteps, RowSteps DEF PercentGrows, RowGrows
<1> QED
  BY <1>1, InitialBar, BarInvSteps, PTL DEF Spec, BarOnlyGrows

\* A finished job keeps its row, whatever monitors are still at work.
THEOREM FinishedRowStays == Spec => FinishedBarStays
<1>1. TypeInv /\ [Next]_vars => [row.status \in Terminal => UNCHANGED row]_vars
  BY FinishedSteps
<1> QED
  BY <1>1, InitialBar, BarInvSteps, PTL DEF Spec, FinishedBarStays

-----------------------------------------------------------------------------
(* Waiting for each other *)

\* What the steps of the task thread, Spark and a monitor thread wait for: the guards of
\* TaskStep, TaskCompletes and MonitorStep.
TaskGoesOn ==
    \/ task = "next" /\ Step \in {"monitor", "end"} \cup Acts
    \/ task = "next" /\ Step \in Stages /\ lock[run] = "free"
    \/ task = "emit"
    \/ task = "spark" /\ now.done = now.total
    \/ task \in {"leave", "failed"} /\ (mon[run] = "off" \/ JoinTimesOut)

SparkGoesOn == now.done < now.total

MonitorGoesOn(r) ==
    \/ mon[r] \in {"tick", "emit"}
    \/ mon[r] = "report" /\ lock[r] = "free"
    \/ mon[r] = "wait" /\ Ends(r)

\* Neither the lock of the tracker nor the join of the monitor ties the threads of a run
\* up: in the middle of a run one of them, or Spark, does not wait for another
\* (NobodyWaitsForEver with the guards of the steps in the place of ENABLED).
THEOREM SomebodyGoesOn ==
  Spec => [](task # "off" => TaskGoesOn \/ SparkGoesOn \/ \E r \in Runs : MonitorGoesOn(r))
<1>1. TypeInv /\ RowInv =>
        (task # "off" => TaskGoesOn \/ SparkGoesOn \/ \E r \in Runs : MonitorGoesOn(r))
  <2> SUFFICES ASSUME TypeInv, RowInv, task # "off"
               PROVE  TaskGoesOn \/ SparkGoesOn \/ MonitorGoesOn(run)
    BY RunOfTask
  <2>0. /\ TypeOK /\ run \in Runs /\ LockOK /\ at \in 1..10
        /\ task \in {"next", "emit", "spark", "leave", "failed"}
        /\ mon[run] \in {"off", "wait", "tick", "report", "emit"}
        /\ lock[run] \in {"free", "task", "monitor"}
    BY RunOfTask DEF RowInv, TypeOK
  <2>1. ASSUME lock[run] # "free", task # "emit" PROVE mon[run] = "emit"
    BY <2>0, <2>1 DEF LockOK
  <2>2. CASE task = "next"
    <3>1. Step \in {"monitor", "end"} \cup Acts \cup Stages
      <4>1. at <= Len(Script[kind]) => at \in 1..Len(Script[kind])
        BY <2>0, ScriptOfJob
      <4> QED
        BY <2>0, <4>1, ScriptOfJob DEF Step
    <3>2. CASE Step \in Stages
      BY <2>1, <2>2, <3>2 DEF TaskGoesOn, MonitorGoesOn
    <3> QED
      BY <2>2, <3>1, <3>2 DEF TaskGoesOn
  <2>3. CASE task = "spark"
    <3>1. now.done \in Nat /\ now.total \in Nat /\ now.done <= now.total
      BY <2>0 DEF TypeInv, CountsOK, TypeOK, Counts
    <3> QED
      BY <2>3, <3>1 DEF TaskGoesOn, SparkGoesOn
  <2>4. CASE task \in {"leave", "failed"}
    <3>1. mon[run] = "report" => lock[run] = "free"
      BY <2>1, <2>4
    <3>2. Ends(run)
      BY <2>4 DEF Ends
    <3> QED
      BY <2>0, <2>4, <3>1, <3>2 DEF TaskGoesOn, MonitorGoesOn
  <2> QED
    BY <2>0, <2>2, <2>3, <2>4 DEF TaskGoesOn
<1> QED
  BY <1>1, InitialBar, BarInvSteps, PTL DEF Spec
=============================================================================
