# Rhombus AI: verification of the job system

The repository is a web application that transforms columns of a CSV or Excel file with an
expression or a specification that a language model writes. A Django API accepts jobs, Celery
workers run them on Spark, a row in PostgreSQL records them, and a React client polls that row.
This project models what the application's correctness rests on: the life of a job across the
API, the broker, the workers and Spark; the progress bar it shows on the way; the language model's
answers with their cache; the connection settings that the jobs of a worker share; the way of a
request from its validation to a rewritten row, with the check of its regex; and the page in the
browser, with the job it polls, the results it turns the pages of and the files it lists.

Paths below are relative to `src/`; `jobs/` stands for `backend/apps/jobs/`, and `processing/`
for `backend/processing/`.

## The system

| Component | State | Operations | Speaks to |
|---|---|---|---|
| API (`jobs/services.py`, `views.py`, `serializers.py`) | the job's row | submit, cancel, read job, read results | row, broker, result pages |
| Row (`jobs/models.py`) | status, stage and progress, cancel flag, pattern or specification, counts, error | `transition`, `update_progress`, `request_cancel`: single conditional UPDATEs | everybody |
| Broker (Celery on Redis, `config/settings.py` 71-83) | waiting messages, revoked ids | publish, deliver, redeliver, acknowledge late, requeue on worker loss | API, workers |
| Task (`jobs/tasks.py`, `transform_builders.py`) | place in `run_job`, attempt number, answer in memory | run, retry, fail, succeed | row, broker, LLM, Spark |
| Spark run (`processing/pipeline.py`, readers, writers) | actions of the job group, output directory | read, sample, write, count | storage |
| Monitor and tracker (`processing/progress.py`) | stage, percentage, lock, thread | tick, cancel the group, report, emit | Spark, row |
| Spark session (`processing/spark_session.py`) | live Hadoop configuration of a worker | create once, apply a job's connection | Spark |
| LLM service (`backend/apps/llm/`) | cache of answers | look up, ask, interpret, store | Redis, Ollama |
| Files (`backend/apps/files/`) | connections with a time to live | connect, list, preview | Redis, S3 |
| Result pages (`jobs/results.py`) | none | read a page of the output | output directory |
| Transforms, specifications, regex safety (`processing/`) | none | pure functions | |
| Client (`frontend/src/`) | query cache, selected job | submit, poll, cancel, page | API |

What is hard in it, and what makes each part correct:

- **Row, API and task move one row concurrently.** Every statement is atomic, no sequence of
  statements is: `cancel_job` is three of them. A finished job must stay as it is, a cancel may be
  refused only to a finished job, and a cancelled job must not start.
- **At-least-once delivery.** A message is acknowledged after the run, comes back after a crash,
  and may come back while the first run goes on. No job may be lost, and a repeated run must not
  spoil what is recorded.
- **Retries publish a new message before the old one is acknowledged.**
- **Cancellation is cooperative**: a flag, checks between stages, and a monitor thread that stops
  Spark once. What can a cancel be too late for?
- **Time limits are exceptions** that strike anywhere in the task, or end it without any handler.
- **The output directory is overwritten and read back**: rows, counts and answer must match.
- **Two threads drive one progress bar**, under a lock, with the database written inside it.
- **Cached answers outlive the question, the release and the validation they came from.** A key must
  hold everything that shapes an answer, and an old answer must pass today's rules.
- **The jobs of a worker share one Spark session** whose settings each job changes in place; a job
  must read with its own, after any other and after one that was stopped in the middle of them.
- **A request is checked in three processes at three times.** The serializer, `validate_source` and
  the builders of the worker each look at a part; in between, the file may be replaced, the
  connection may expire, and a retry starts from what an earlier run has saved.
- **A regex goes through two engines.** Python checks it, Java runs it: a structural analysis has to
  find what backtracks, and a replacement has to say the same to both.
- **Rules, formats and masks have an order**, and nulls must not count as changed.
- **Answers reach the client out of order**: polls, submissions, cancels and pages cross, and one
  panel serves every job that comes into it.
- **Pages are cut from ids with gaps, and from lists that are filtered** while files come and go.

The full list, line by line, is `hazards` in `PROJECT.json`.

## Modules

| Module | Models |
|---|---|
| `JobContract` | what a client of the API is promised, and what `WebClient` builds on: one lifecycle per job, a cancel that only running and queued jobs take note of, results that appear once and never change |
| `JobSystem` | rows, API requests, broker, tasks, each worker's JVM and monitor, output directories, and the faults |
| `JobProgress` | one job's tracker, monitor thread, Spark task counts and bar, over consecutive runs in a worker process |
| `LlmService` | the cache of answers, concurrent calls of the use cases, releases that follow each other |
| `SparkSettings` | a worker's live Hadoop configuration over the jobs it runs |
| `Submission` | one job from its form to a rewritten row: validation, preview, row, runs and retries, over a file that is replaced and a connection that expires; the verdict on a pattern is a parameter; uses `Transforms` |
| `RegexSafety` | the structural check of a pattern and, as a reference, the words a pattern matches; operators, and functions on the elements of a tree |
| `CheckedPatterns` | what the structural check promises of the pattern being written; `Submission` with `RegexSafety` |
| `Transforms` | the three transformations on a row, specifications and replacements; operators only |
| `WebClient` | the page in the browser over the jobs of `JobContract`, with the table of `ResultPages` |
| `ResultPages` | the two queries of a page of results; operators only |
| `FileListing` | the paged file list of a bucket: browser, `list_files` and S3 |
| `MCJobSystem`, `MCJobProgress`, `MCLlmService`, `MCSubmission` | values and symmetry for TLC; the other modules need none |
| `JobSystemProofs` | type correctness of `JobSystem`, with what a task holds at each place; finished rows, refused and accepted cancels, no job is lost |
| `JobRunProofs` | a job with one run at a time: its row, output and Spark work, and the contract of the API |
| `JobProgressProofs` | the bar: its stage, its row, its growth, and that its threads do not tie each other up |
| `SubmissionProofs` | a job from its form to its row, with the lemmas on `Transforms` it rests on; what the structural check promises of any pattern |
| `WebClientProofs` | what the panel and the table show; uses lemmas on `ResultPages` proved there |
| `FileListingProofs` | order, fullness and completeness of the file list |
| `LlmServiceProofs` | what a caller is given and what the cache holds |
| `SparkSettingsProofs` | a job reads with its own settings |

### JobSystem

The variables follow the code's own division. `status`, `kind`, `flagged`
(`cancel_requested_at`), `started` (`started_at`), `answer` (`pattern` or `transform_spec`),
`error` and `result` (the counts) are columns of the row. `queue[j][r]` counts the waiting messages
of job `j` with retry count `r`; `revoked` is what the workers remember. `submit` and `cancel` are
the places of the API requests. A worker has `pc`, `job`, `tries` (`task.request.retries`), `owned`
(its message is unacknowledged and not redelivered), `plan` (the answer in memory), `stats` and
`exc`. `jvm` holds the Spark actions the worker's JVM is running, waited for or not, `act` the
action the task is at, `monitor` the thread, and `output` the job's directory.

Data is abstracted to what can be told apart: an output is the answer it was written with,
`"partial"` or `"absent"`; the counts are the output they were taken of. Three kinds of job stand
for the ways an answer is found: the user's own pattern, a pattern from the LLM before the data is
read, a specification from the LLM after a sample of it.

Each place of `run_job` between two database statements, LLM calls or Spark calls is a step:

    begin -> load -> [ask -> save] -> check -> connect -> launch/running (source)
          -> [launch/running (sample) -> sampled -> ask -> save -> saved]
          -> launch/running (write) -> launch/running (count) -> succeed -> ack
    any of these up to the last Spark call -> handle -> fail or retry -> ack

`MonitorCancels` is `SparkJobMonitor._tick`, `SoftTimeLimit` the exception Celery raises in the
task, `OrphanEnds` an action nobody waits for. The environment's faults are enabled by the constant
`Faults` and counted against `MaxFaults`: `crash` (the process and its JVM die), `redeliver` (the
broker's visibility timeout, which the settings leave at its default of an hour), `publish` (a
message cannot be sent), `limit` (the hard limit, or a soft limit outside the `try` of `run_job`).

### JobProgress

A run that finds the answer of the LLM saved does not enter the stage in which it is asked: `NextKinds` says
which script the next run follows, after how far the last one came.
`StartRun` to `EndRun` are the task thread, `Wake` to `MonitorStops` the monitor thread of each run.
`enter_stage` and `update_fraction` are two steps each, because the row is written while the lock is
held. `past` and `now` are the Spark tasks of the job group: the status tracker remembers the
group's earlier actions, and the group's name is the id of the job, so also those of an earlier run
in the same process. The clock is left out: whether a second has passed since the last write is a
choice, and so is whether the join of a monitor thread times out. `outlived` is history: a monitor
thread has outlived its run. `BarOnlyGrows` and `RowFollowsTracker` speak of a run's own tracker in
any case, and of the row as long as no such thread is left. The percentage is computed in integers
where the code truncates a float product.

### LlmService

`_complete` is taken apart where it waits: `Lookup`, `Request`, `Interpret`, `Store`, each of one
caller, with the others in between. An entry is the suggestion (`says`), the inputs it answers
(`about`, which no code sees: it is what the properties compare) and the schema it was dumped from.
A key is the tuple of its parts, since the hash is taken to be injective; `Words` stands for
`normalize_description`, and a sample set does not tell the order of its columns, as `_fingerprint`
sorts them. A release has a prompt with its model, a schema and the suggestions its validation
accepts. Errors are of two classes, `retryable` (`LLMUnavailable`) and `permanent` (all others).
Redis is free to fail in any lookup or store and to drop an entry at any time. `JobSystem` sees a
call as one step with an answer, an outage or a refusal.

### SparkSettings

`Built` is `build_spark_conf`, `Applied` what `apply_s3_credentials` makes of one setting:
set what is built, unset keys and endpoint without a value, leave the rest. Keys are a pair that is
there or not, as every condition on them in the code. Users enter keys; the deployment's own
connection, the demo, may have none. `StoppedHalfway` is a time limit in the middle of the settings:
any subset of them is made, which includes every prefix of the code's order. What Hadoop does with
the configuration, and whether it reads it again for a bucket it has open, is outside the repository
and the model.

### Submission, Transforms and RegexSafety

`Submission` follows one job through `JobCreateSerializer`, `submit_job`, `run_job` and the builders:

    writing -> form -> refused
                    -> queued -> [resolve] -> load -> build [-> build] -> write -> done
    a transient failure in resolve, load, build or write -> queued

`ReplaceFile` and `ConnectionExpires` strike between any two of these steps. What a pattern is has
been reduced to what the checks say of it (`PatternKinds`), except while it is being written: there it
is whatever the constant operator `Verdict` judges. `MCSubmission` makes it the tree that Python's parser
gives `regex_safety.py`, and the verdict the one of `RegexSafety`. "none" stands for the empty pattern and
for an empty error code. A file is
what two readers make of it: `header`, the names Spark takes from it, and `columns`, those of the preview, if it
can be read cheaply. The two parse a file each in its own way (`csv.reader` in `files/services.py` 133,
Spark's reader without `multiLine` in `processing/readers.py` 18-26, openpyxl and spark-excel), so they
may differ. A header may repeat a name, with its case changed too, which the preview accepts
and Spark renames (`SparkColumns`; names are compared without case, as `spark.sql.caseSensitive` is not set in
`processing/spark_session.py`), and may hold the name of the column the output adds. The sample of
`_generate_spec` is the first look at the data, so `GenerateSpec` may fail on the source or the
storage as `Load` may. Four variables are history
or outcome of the run: `found`, `applied`, `asked`, `output`.

`Transforms` has a row as a function of its columns. A rule is a function whose domain is the set of
values its pattern matches, since the functions of Spark that match and replace are external; what is
modelled is which rule wins, which columns are rewritten, what counts as matched and what a null
does. For masks a text is a sequence of words of a kind, and `Finds` says which kinds a mask takes
for its own, with the overlap the code guards against: the digits of a card as a phone number.
Replacements are read character by character, since their properties are about single digits:
`ValidReplacement` is the code's check, `JavaReading` what `Matcher.appendReplacement` makes of a
replacement, modelled as external.

`RegexSafety` is the analysis of `regex_safety.py` on the parser's tree, operator for function. What the
code computes by recursion over the tree is a function on the set `Elements` of all elements that occur,
and `Depth` says how deep the tree of each is, so that an element is deeper than those inside it
(`RegexAssumption`, which a finite tree satisfies). A
back-reference is there as any character, as in the code; conditional groups are refused before.
The flags of a pattern are not part of the tree, and the analysis does not see them, although `with_inline_flags`
writes `(?i)` in front of a proposed pattern before it is validated (`regex_safety.py` 104-113,
`llm/service.py` 88-97). What a pattern matches depends on them: `Fold` is what Java compares of a
character, its lower case under `(?i)` and itself without, and `Chars` gives the characters that a character of the
pattern stands for. The run `submit` has the alphabet `a`, `A`, `1` and space under `(?i)`; the proofs are for any
`Fold` that keeps a character in its categories, as both cases of a letter are. With `(?i)` for
a part of a pattern only, `(?i:...)`, fewer texts match than with it for all. `(?m)` and `(?s)` change
what anchors and the dot match, which are "may hold" and any character here.
The transcription was compared with the Python functions `_nullable` and `_find_backtracking_risk` on
684 patterns built from the elements of `MCSubmission`, with equal verdicts on all. `Words` and `Cuts`
are the reference the properties compare it with: what a pattern matches, up to a length.

### WebClient and ResultPages

The variables are the component state and the query cache: `form` and `creating` (the submission, which
outlives the form it came from), `shown` (`jobId` of `App`), `data` and `fetches` (the query of each job;
the query library keeps at most one fetch of a query under way), `cancel` (the mutation of the panel,
with the job it was sent for) and `table`. Every answer is a snapshot taken when the server serves the
request, shown when it arrives, which may be never (`PollFails`, `CancelFails`, `SubmitFails`,
`PageFails`). `Cancelled` writes into the data of the job that is shown when the answer arrives, as
`onSuccess` does. The constant `SwitchWhileCancelling` tells whether another job may come into the panel
before: the run `client` excludes it, the run `wrong_job` shows what follows from it.

`ResultPages` takes the row ids of the output as a set with gaps, and finds a page with the two queries
of `read_results_page`: the ends of the range first, then the range.

### FileListing

A load is a sequence of calls of `list_files`, one for each page, and a call is a loop of `ListObjects`,
one turn for each answer of S3. S3 may return fewer keys than it is asked for. `Reload` reads all pages
that were there again, from the first on, and replaces the list when it is done; `LoadMore` takes
the place of a reload. `Put` and `Delete` come between any two turns. `steady` and `renewed` are
history: the objects that were there the whole time, of which `NothingSkipped` speaks.

Operators whose comment starts with "Mutant" are faulty variants of the definition that follows
them. No specification uses them; put in its place, each breaks the property `PROJECT.json` names
under `mutants`.

## Runs

| Run | Question | Bounds |
|---|---|---|
| `one_worker` | Do rows, counts and answer of a SUCCESS job belong together, is the LLM spared once it has answered, is Spark left clean, is no job without a message, does each finish, is the API's contract kept? | 1 job, 1 worker, 2 answers, all kinds, 2 retries, 2 crashes or redeliveries |
| `all_faults` | Can any fault change a finished row, refuse a live job's cancel, or let a cancelled job go on? | 1 job, 2 workers, the kinds that ask the LLM, 1 retry, one fault of any kind |
| `bar` | Does the bar of a run only grow, match its stage and follow the tracker, what does a thread do whose join timed out, and can everybody wait for ever? | the kinds that ask the LLM, 2 runs, 2 tasks in the write, 1 in each other action |
| `cache` | Can overlapping calls, a failing Redis or a change of release give a caller the wrong answer, or a refused one, or cache it? | 2 callers, 4 questions of which 2 differ in samples and 2 in spaces, 2 suggestions, 3 releases |
| `jobs` | Does a job ever read with settings another job left? | 2 key pairs, 2 endpoints (one without TLS), 1 region, each also absent |
| `submit` | Does the check of a pattern agree with the texts it matches under `(?i)`? Is anything asked, looked up or run that was not checked, whenever the file changes? What happens to a row? | bodies of up to 3 elements of 16, and repeated groups of up to 2; words of up to 4 of 4 characters, 2 of them cases of a letter; every request; 18 files, the two readers agreeing or not; 1 replacement of the file; 2 attempts; replacements of 3 characters, patterns with 1 or 11 groups; all rows of 2 columns over 5 values |
| `client` | Is the panel ever ahead of the server, does it settle on the outcome, does the table show the rows of its page? | 2 jobs, rows 0, 1 and 8, page sizes 2 and 3, no other job in the panel during a cancel |
| `browse` | Are files listed in order, once, without gaps, in full pages, whatever changes meanwhile, and does a listing end? | 6 keys, 3 of them supported, pages of 2, any bucket, 2 changes of it |
| `cancel_missed`, `crash_overlap`, `chain`, `wrong_job` | each finds the behaviour of one finding | 1 job, 1 or 2 workers; for `chain` 1 key pair, 1 endpoint, 1 region; for `wrong_job` 2 jobs, rows as in `client` |

One job is enough for most questions because jobs share nothing but workers: rows, messages and
output directories are per job, and a worker's JVM is stopped by job group. Two workers are the
least at which two runs of one job overlap, and three runs of a job would need three messages of it
at once. Two answers are the least that tell an old one from a new one. One or two faults suffice
for each hazard listed, and the proofs are for any number of jobs, workers, retries and faults.

The three releases of `cache` are one that accepts everything, one that shares its schema and refuses
more, and one with another schema: the ways in which an entry can be out of date. Two callers are the
least that overlap; a question touches one entry only. In `jobs` two keys and two endpoints tell the
settings of two jobs apart, and one region tells a value from none.

In `submit` three elements are the least with a repeat between two neighbours, of which one may separate
it from the next iteration, and four characters the least that two iterations of two can share in two
ways. Eleven groups are the least with which two digits can be a reference. One replacement of the
file falls before the run, within it or between two attempts; two attempts are the least at which the
second starts from what the first has saved. In `client` the ids leave a gap within a page, a page of
two does not hold all rows and a page of three does. In `browse` a page ends within what S3 returns, at
its end and behind unsupported keys, and a page of two needs a second one; two changes are a file that
goes and one that comes.

`IterationsAreCutOneWay` is stated of bodies with at most one repeat and else single characters and
optional parts, in which an optional part shares no character with another part, and beside a repeat
single characters share one with the repeat only (`Separable`). Of others the structural check alone does
not say that much: with two repeats in a body each may be separated by the other's neighbour, a separator
whose characters come up elsewhere need not be the end of an iteration, and what remains is left to the
timed probes of `validate_pattern`, which the model has as a choice of their outcome. The header of
`regex_safety.py` says that they are there for it.

`AlternativesAreDisjoint` and `IterationsAreCutOneWay` ask that under `(?i)` the alternatives begin with, or the body
consumes, each letter in one case only (`OneCase`); without the flag every pattern does. With both cases
`_CharSet.overlaps` takes for different what Java takes for the same (see Findings). TLC finds both properties violated without the condition.
`ColumnsFoundUpFrontStay` asks that the columns the preview shows of those the request names are columns to Spark, too;
TLC finds it violated without the condition, even where both readers take the same names from the file.

`NobodyWaitsForEver` uses ENABLED in place of a liveness property: nothing in the model of the bar can
go on for ever except the monitor's ticks, so a run that has not ended and in which the task, Spark or
a thread in the middle of a tick can take a step is one that ends.

The type invariants of `LlmService`, `SparkSettings`, `Submission`, `WebClient` and `FileListing` hold in
these configurations too (add `INVARIANT TypeOK`, or `ClientTypeOK`); the runs list the properties that say
more, and the types are proved.

`OutputMatchesRow`, `AsksOnlyWithoutAnswer`, `NoOrphanWork` and `ImplementsContract` are checked
with one worker. With more they fail when a message is given out again: `crash_overlap` shows how, and it
is what the code does.
In that run a crash after `task.retry` leaves both the retry and the redelivered message.

`NoOrphanWork` speaks of jobs nobody cancelled. For a cancelled one it does not hold: when the soft
limit strikes after the request and before the monitor's tick, `_handle_failure` takes its first
branch (`jobs/tasks.py` 104), which does not stop Spark, although README.md 236 says that hitting
the limit does.

Deadlock is not checked where a job ends and the system may rest (`JobSystem`, `JobProgress`,
`Submission`, `WebClient`); `EventuallyFinished`, `SettlesOnOutcome` and `NobodyWaitsForEver` say that it does not rest too early.

**Fairness.** `JobSystem`: a request that has committed its row goes on to publish; a message is
received infinitely often possible, once (Redis lists are FIFO, and a worker takes the next message
when its slot is free, so no job is passed over for ever); a task goes on; a Spark call returns,
fails, is cancelled or is ended by the soft time limit, which every call is under. No fairness is
assumed of clients, of revocations, of Spark actions nobody waits for or of faults. `WebClient`: the
page is visible, so the timer of `refetchInterval` goes off (WF of `Poll`), and a network that fails does
not fail every time (SF of `ServePoll` and `Polled`: TanStack Query goes on polling after a failure).
None of users and none of jobs. `FileListing`: the server goes on with a request it has begun (WF of
`ListObjects`). The other modules state no fairness.

## Findings

- `cancel_missed`: the monitor cancels the job group once. If no action is active at that moment
  the run goes on, past its last check of the flag, and may read, write and succeed.
- `crash_overlap`: two messages for one job after a crash at the wrong moment, two runs, one output
  directory; a SUCCESS job whose rows are being removed.
- `chain`: after a job with keys, a job of a deployment without keys has the provider of static keys
  and no keys. `apply_s3_credentials` unsets the keys and not the provider; region and TLS stay from
  the job before too, though only the provider contradicts the comments of the code.
- `wrong_job`: the answer of a cancel is written into the data of the job that came into the panel in the
  meantime. If it says FAILED, the new job's polling stops while the job runs.

Behaviours met while modelling, for which there is no run:

- `request_cancel` is two statements: a run that fails as cancelled between them makes the API answer 409
  to a cancel that did stop the job.
- On entering TRANSFORMING every Spark task of the group may be complete, and the bar is at 90 before the
  pass over the data starts. It never moves back, and stays in its stage's range.
- In a column of names and phones only the names are masked (`mask_pii.py`, `elif PERSON_NAME`), while the
  module says values are masked wherever they appear. `MasksLeaveNothing` leaves such columns out.
- `(?i)(?:a+A)+` passes the structural check and cuts `aaaa` in two ways under `(?i)`: `_CharSet.overlaps` takes `a`
  and `A` for different characters, while `(?:a+a)+` is refused. `(?i)(?:a|Ab)+` passes too, though its second
  alternative begins with the first. Only the timed probes are left for such patterns; the "Known limitation" of
  `regex_safety.py` is about merged alternatives.
- With the header `x,X` the preview shows `x`, Spark renames both columns (it compares names without case), and the
  run of a request for `x` ends with COLUMN_NOT_FOUND, although `validate_source` is to "Reject missing files and
  unknown columns up front" (`jobs/services.py` 63). The same goes for a name that repeats as it is.
- A header with `__matched` in it passes the preview, and the run ends at the write.
- A header with a quoted line break is one line to the preview and two to Spark, whose reader is not told
  to read quoted line breaks (`processing/readers.py` 18-26): a column may be there for one of them only.
- `validate_replacement` accepts digits other than ASCII behind a dollar, which Java does not take for a
  reference. The digits of the model are ASCII.
- `_nullable_element` takes a back-reference for a character, though one to an empty group is empty.
- `_risk_in_repeated_body` asks of a separator that the repeat cannot consume its characters, and not that
  the other parts of the body cannot. Where they can, some bodies it lets pass may be cut in two ways, though the
  header of `regex_safety.py` lists such groups among what is refused; the attempt to prove
  `IterationsAreCutOneWay` of them showed it. `Separable` leaves them out, and the timed probes are there for them.

## Proofs

TLAPS proves, for every value of the constants that satisfies their module's assumption:

| Theorem | Says | Assumes |
|---|---|---|
| `TypeCorrect` | `Spec => []TypeOK` | |
| `FinishedForGood` | `Spec => FinishedStays` | |
| `CancelStops` | `Spec => CancelStopsLaterRuns` | |
| `CancelledInQueue` | `Spec => CancelledInQueueNeverRuns` | |
| `RefusedOnlyWhenFinished` | `Spec => []RefusedIsFinished` | |
| `NoJobLost` | `Spec => []NoJobStranded` | `NoLoss`: no `publish` and no `limit` faults |
| `RunsTakeTurns` | `Spec => []OneRunAtATime` | `OneWorker \/ NoRepeats`: one worker, or no `crash` and no `redeliver` faults |
| `RowAndOutputMatch` | `Spec /\ []OneRunAtATime => []OutputMatchesRow` | `LimitsHandled`: no `limit` faults |
| `NeverAskedTwice` | `Spec /\ []OneRunAtATime => []AsksOnlyWithoutAnswer` | `LimitsHandled` |
| `NothingLeftInSpark` | `Spec /\ []OneRunAtATime => []NoOrphanWork` | `LimitsHandled` |
| `KeepsContract` | `Spec /\ []OneRunAtATime => ImplementsContract` | `LimitsHandled` |
| `ResultsNeverChange` | `Spec /\ []OneRunAtATime => ResultsStay` | `LimitsHandled` |
| `OneRunSystem` | `Spec => [](OutputMatchesRow /\ AsksOnlyWithoutAnswer /\ NoOrphanWork) /\ ResultsStay /\ ImplementsContract` | `LimitsHandled` and `OneWorker \/ NoRepeats` |
| `BarTypes` | `Spec => []TypeOK` | |
| `StageAndBarMatch` | `Spec => []BarWithinStage` | |
| `RowIsOfTracker` | `Spec => []RowFollowsTracker` | |
| `BarGrows` | `Spec => BarOnlyGrows` | |
| `FinishedRowStays` | `Spec => FinishedBarStays` | |
| `SomebodyGoesOn` | `Spec => []`(in the middle of a run a guard holds: `TaskGoesOn`, `SparkGoesOn` or `MonitorGoesOn`) | |
| `ServiceTypes` | `Spec => []TypeOK` | |
| `AnswersFit` | `Spec => []AnswerFitsQuestion` | |
| `AnswersPass` | `Spec => []AnswerPassesOwnRules` | |
| `OnlyAcceptedCached` | `Spec => []CacheHoldsAcceptedOnly` | |
| `SettingsTypes` | `Spec => []TypeOK` | |
| `OwnSettings` | `Spec => []ReadsAsItself` | |
| `ClientKeepsContract` | `ClientSpec => Spec` (of `JobContract`) | |
| `ClientTypes` | `ClientSpec => []ClientTypeOK` | |
| `EveryRowOnOnePage` | for any row ids, page and size: every row on one page, under its number, in order | |
| `ScreenIsRight` | `ClientSpec => []ScreenShowsItsRows` | |
| `TableStaysInResults` | `ClientSpec => []NeverBehindTheEnd` | |
| `PanelNeverAhead` | `ClientSpec => []NeverAhead` | `NoSwitch`: no other job comes into the panel during a cancel |
| `OnlyCancelled` | `ClientSpec => OnlyCancelPutsBack` | `NoSwitch` |
| `SubmissionTypes` | `Spec => []TypeOK` | |
| `AskedWithSomething` | `Spec => []NeverAskedForNothing` | |
| `CheckedBeforeRun` | `Spec => []OnlyCheckedPatternsRun` | |
| `ColumnsStay` | `Spec => []ColumnsFoundUpFrontStay` | |
| `ColumnsLookedUp` | `Spec => []NoColumnIsIgnored` | |
| `ReplacementsAreRead` | `Spec => []ReplacementsReadAlike` | |
| `UnmatchedStays` | `Spec => []UnmatchedRowIsUnchanged` | |
| `NothingIsLeft` | `Spec => []MasksLeaveNothing` | |
| `EmptyTextIsFound` | `Spec => []EmptyIsFound` | |
| `AlternativesToldApart` | `Spec => []AlternativesAreDisjoint` | |
| `IterationsCutOneWay` | `Spec => []IterationsAreCutOneWay` | |
| `ListTypes` | `Spec => []TypeOK` | |
| `ListInOrder` | `Spec => []InOrderOnce` | |
| `PagesAreFull` | `Spec => []OnlyLastPageShort` | |
| `NoFileSkipped` | `Spec => []NothingSkipped` | |

`TypeOK` is not inductive: `RecordFailure` writes `exc` into the row, `Finish` the plan of a Spark
action into the output. `TypeInv` adds what a task holds at each place (`Held`: in `fail` an error
code, in `save` an answer, in a write action an answer) and which rows are stored (`Stored`: a
message exists only for a stored job, a user's own pattern is there from the start). Each action
keeps it, one lemma per group of actions.

The lifecycle theorems go through two descriptions of a step. `RowMoves(j)` is what any step can do
to a row: a finished row stays, a flag is never taken back, `started` never either, and a message
comes from a job that was there. `RunMoves(w)` is what any step can do to a task: it enters a run only
through `Begin`, and it passes the last check before Spark only if the flag was not set. `Lifecycle`
and `RunSteps` prove these once, action by action; the theorems follow without looking at actions
again. `CancelInv` says what each
place of `cancel_job` knows of the row: a request past the first statement works on a job that has
left the queue, after the UPDATE the job is flagged or finished, and a revoked job is failed.

`NoJobStranded` needs `RunningOK`: a task past its first statement works on a job that is RUNNING or
finished, and retries only while retries are left. Most steps carry the messages and tasks on
(`Carries`); the ten that move a message or end a task are the cases of `DeliverySteps`. A
message is dropped only when its job is finished: revoked, not allowed to run, succeeded or failed,
or followed by its retry. The hypothesis `NoLoss` is needed: with a `publish` fault a retry is lost,
with a `limit` fault a task, and the code has nothing that finds such a job again.

The theorems of `LlmService` share `ServiceInv`. `Sound(k)` says that the entry under `k` answers every
question with that key and was accepted by a release with its schema; `Holds(c)` says what a caller
has in hand at each place of `_complete`. `AnswerFitsQuestion` alone is not inductive: a lookup
gives what some other caller stored. The lemma `KeyMeaning`, that equal keys come from equal inputs,
is what makes a stored entry `Sound` for every question that can find it. `OwnSettings` needs that a
job that may read is there, and `AppliedSettings`: for any configuration left behind, what
`apply_s3_credentials` makes of keys, endpoint and region depends on the job alone.

`JobRunProofs` proves what `JobSystem` promises while a job has one run at a time, which is how its
properties are headed. `OneRunAtATime` is a hypothesis on the behaviour; `RunsTakeTurns` says when it
holds, and `crash_overlap` shows a behaviour in which it does not. `RunInv` says three things of each
worker. `Answered`: what a run has in memory is what the row says, and a run that asks has found
nothing there. `Written`: behind the write, the output is the plan of the run, and the counts are too.
`Accounted`: an action in a worker's Spark is the one the task waits for, or the task is about to stop it
(a soft limit in `_handle_failure`), or its job was cancelled and has failed or is about to. The last case is
why `NoOrphanWork` leaves cancelled jobs out, and `LimitsHandled` is needed because a limit outside the
`try` leaves Spark running with nobody to stop it. A step moves one worker at most (`MovesOrStill`). For
the others, `StillSteps` shows that the row and the output of their job stay as they are, since whoever
writes them is in a run of that job. From `DoneStays`, that nothing is written for a finished
job, come `DoneOK` and the fact that a client sees a change only where the row changes;
`ContractSteps` maps each statement on the row to its step of `JobContract`. `RunsTakeTurns` without
crashes rests on `OneMessage`: a job has at most one message, waiting or held.

In `JobProgress` the script of a kind of job is a sequence of stages, and `StagesRise` says that each of
those still to come begins where the present one ends, or above. With `TrackerOK`, that the percentage is
within its stage, entering a stage never lowers the bar. `BarWithinStage` of the row needs `RowOK`: the
row was written from the tracker of the present run, or by a monitor thread that outlived its run, whose
stage and percentage match too. `LockOK` ties the lock to the thread that is about to write, and `Alone`
says that without such a thread the monitors of earlier runs are off. The arithmetic of
`PercentOf` needs `CountsOK`, that Spark completes no more tasks than it has.

`WebClient` is proved for any set of row ids: `Position` is a bijection to `1..TotalRows`, so the two
queries of a page give `Slice`, the rows of its positions. What the client does is a step of the
contract or none, so its server is the one of `JobContract`. `NeverAhead` is inductive only with every
snapshot under way: `AnswersInv` says that each is of its job and `Behind` the server, `OrderInv` that the
fetch of a job that is not cancelled is not behind what is shown. `NoSwitch` cannot be left out:
`wrong_job` shows why.

In `FileListing` the invariant `ListInv` describes the list shown, the list a reload builds up and the call
under way alike: pages follow each other (`InOrder`), each begins behind the cursor of the one before,
and between its cursor and the next lie all the files that were there the whole time (`Complete`). A turn of
the loop takes the first keys behind `call.after`, so the lemmas are about finite sets of numbers: each has a
first and a last element, and the first `n` of them lie below the rest.

`SubmissionProofs` asks four things of the constants (`SubmissionAssumption`): the structural check says
"nullable", "risky" or "fine" of a pattern that compiles, no rule or format matches a null, a normalization has
a list of rules or formats, a masking names kinds of `PiiType`. The first two are what `validate_pattern` and
Spark's functions do, the others the shape of the dataclasses of `specs.py`. The invariant `Inv` has these parts
beside the properties. `PatternOK`: the form of an accepted job has what its builder needs, and past `resolve`
the pattern of a find and replace is "fine". `SpecOK`: a saved specification was accepted, and was made after all
requested columns were found. That is why neither a retry nor a masking of some of the columns lets one go
unnoticed. `ColumnsOK`: a file the API looked into, and that is still there, shows the preview the columns asked for; a run
that has loaded it has those Spark makes of it. `SavedPatterns`: the rules of a saved specification were checked.
`RowIsLast`: nothing follows the row, so the properties of the output are about the one step that writes it.

They come down to lemmas about the operators of `Transforms`. A cell that does not count as matched keeps its
value (`ReplacedCell`, `RuledCell`, `DateCell`, `MaskedCell`), and so does the row (`KeptRow`). `MaskedWord`
gives what the three masks make of a word, and `NoWordIsLeft` follows kind by kind. `FirstFit` and `Number`
need that every set of naturals has a least element (`Smallest`, from the library's well-founded relations):
`FirstFitFits` names the first rule that fits, `NumberExists` shows that the recursive equation of `Number` has a
solution. With `OneDigit`, a valid reference ends with its first digit (`LastIsFirst`), so both readings of a
valid replacement solve the same equation (`SameStep`) and are equal, with no induction over the text.

The theorems on the structural check are about every pattern over any set of elements, alphabet and length of
words. Beside `RegexAssumption` they need `PatternAssumption`, that patterns are made of these elements.
A function that is defined by recursion has its equation in TLA+ only if some function has it.
`RecursionExists` shows that one does when a value depends on values of lower rank only (`GoesByRank`): it is
built up from partial solutions, which agree where they overlap. The rank is the depth of an element
(`NullableEquation`, `FirstEquation`, `ConsumedEquation`, `WordsEquation`, `UnwrappedEquation`) or the number of
places behind one in a sequence (`JoinedEquation`). From these, `TreeInduction` takes a fact from the elements
inside to the one around them; like every induction here it is an argument about a least counterexample
(`Smallest`), since the library's induction rules cannot be used.

- `EmptyTextIsFound`: a word of a sequence is empty if all its parts are (`EmptyJoined`), and an element has the
  empty word if and only if `_nullable_element` says so (`EmptyOfElement`).
- `AlternativesToldApart`: a text that is not empty starts like a text of the first part that is not empty
  (`FirstJoined`), so with a character of `First` (`FirstOfElement`); sets that do not overlap have no
  character in common (`DisjointChars`): two written characters that are alike would be one (`OneCase`), and
  one that is alike to a character of a category is in the category (`AlikeInCategory`).
- `IterationsCutOneWay`: a text that is matched by a sequence has a place for each of its elements
  (`PartsOfJoined`), and an element covers characters of `ConsumedOf` only (`MadeOfElement`). The rest is about
  positions (`Iteration`, `Iterated`). Take the first place where an iteration of one cut ends and none of the
  other (`NoFirstDifference`). Both have begun at the same place, and the separator, whose characters no other element
  can cover, falls on the same place in both. Behind it there are single characters and parts that share
  nothing with others, so the two part ways in such a part, which could go on where the shorter
  iteration ends (`PartGoesOn`). But there the next iteration begins, and before it comes to that part again it has to
  cover a required character. A separator before the repeat is the same argument from the right
  (`OneCutFromRight`), on the mirrored text.

`ResultsNeverChange` is `DoneStays` as a property of the behaviour: with one run at a time, a run that could still
touch the row or the output of a job has not seen it succeed. `OneRunSystem` puts the theorems on runs together. The deployment has
`--concurrency=1` (README.md 151), which is `OneWorker` as long as one such worker is started.

`SomebodyGoesOn` is `NobodyWaitsForEver` with the guards of the steps written out. The steps of a run are those of its
script (`ScriptOfJob`), so the task has its next one unless it waits for Spark, for the lock or for the join;
an action with tasks left is Spark's turn, the holder of the lock is in the middle of a write (`LockOK`), and a
monitor that is joined has been told to stop.

`EveryRowOnOnePage` is about `ResultPages` alone: `Position` numbers the rows without gaps, whatever gaps the
ids have, and the quotient of a number by the size is its page (`PagesApart`, `PageOfNumber`). A size that is left
out or too large is what `Size` makes of it.

Only model-checked, as both are beyond the prover:

- liveness: `EventuallyFinished`, `SettlesOnOutcome`, `ListingEnds`;
- `NobodyWaitsForEver`, which is stated with ENABLED; `SomebodyGoesOn` is its form without.

## Not modelled, and the plan

Not modelled, by component:

- *Jobs*: the wording of errors; the matching of texts of the JVM's exceptions by which some errors
  are told apart (only the code and whether it is transient matter here); the number of
  crashes a job may cause, which nothing in the code limits.
- *Files*: the encryption of connections, the demo bucket and its seeding script, the parsing of a
  preview (its outcome is the header or "cannot be read").
- *Transforms*: Spark's functions, the letters of date formats, the content of masks.
- *Regex safety*: the detectors of constructs Java does not have (one verdict, "malformed") and the timed
  probes (a choice).
- *LLM*: the wording of prompts. *Spark session*: the settings that are the same for all jobs.
- *Client*: connection form, column picker, layout.
- *Health and warm-up*: each request reads and reports; nothing is kept between two.

What happens inside Spark, Celery, Redis, S3, TanStack Query and the browser is modelled from how the code
uses and configures them, and marked external in `PROJECT.json`.

Every invariant and every action property of the runs is proved, `NobodyWaitsForEver` with guards for
ENABLED. What could be added is a wider class of bodies for
`IterationsAreCutOneWay` (several repeats with a separator each), and the timed probes, which would need a
model of what the engine does on a text.

## Running

    tlc -config JobSystem_one_worker.cfg MCJobSystem.tla
    tlc -config JobProgress_bar.cfg MCJobProgress.tla
    tlc -config LlmService_cache.cfg MCLlmService.tla
    tlc -config SparkSettings_jobs.cfg SparkSettings.tla
    tlc -config Submission_submit.cfg MCSubmission.tla
    tlc -config WebClient_client.cfg WebClient.tla
    tlc -config FileListing_browse.cfg FileListing.tla
    tlapm JobRunProofs.tla
    tlapm SubmissionProofs.tla

Each run takes two minutes at most, and so does each proof module.
