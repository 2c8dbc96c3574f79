----------------------------- MODULE WebClient -----------------------------
(***************************************************************************)
(* The page in the browser (src/frontend/src): a form that submits jobs, a *)
(* panel that polls the job it shows and may cancel it, and the table of   *)
(* its results.  It talks to the jobs of JobContract, which go on by       *)
(* themselves.  Every answer is a snapshot of the moment the server gave   *)
(* it; it may be shown later than a newer one.                             *)
(*                                                                         *)
(* The query library keeps one entry of data for each job and at most one  *)
(* fetch under way for it, whoever asks.                                   *)
(***************************************************************************)
EXTENDS JobContract, ResultPages

CONSTANTS
    NoJob,                \* the panel shows no job yet
    NoData,               \* nothing has come yet
    Asked,                \* a request is on its way to the server
    Refused,              \* an answer without a job in it
    PageSizes,            \* PAGE_SIZES of the results table
    FirstSize,            \* the one it starts with
    SwitchWhileCancelling \* may another job come into the panel while a cancel is unanswered

\* What an answer says of a job.
View == [job : Jobs, state : {"QUEUED", "RUNNING"} \cup Finished, wanted : BOOLEAN]

ASSUME WebClientAssumption ==
    /\ NoJob \notin Jobs
    /\ PageSizes \subseteq Nat \ {0} /\ FirstSize \in PageSizes
    /\ SwitchWhileCancelling \in BOOLEAN
    /\ {NoData, Asked, Refused} \cap View = {}
    /\ NoData # Asked /\ NoData # Refused /\ Asked # Refused

VARIABLES
    form,      \* no form, a form that is ready, or the job whose submission it waits for
    creating,  \* submissions under way: of no job, to the server or back from it
    shown,     \* App's jobId
    data,      \* the query data of each job
    fetches,   \* the fetches of a job under way: asked, or the snapshot coming back
    cancel,    \* the cancel of the panel: the job it was sent for and the answer
    table      \* the results table

pageVars   == <<form, creating, shown>>
clientVars == <<form, creating, shown, data, fetches, cancel, table>>
allVars    == <<vars, clientVars>>

Snapshot(j) == [job |-> j, state |-> state[j], wanted |-> wanted[j]]

NoCancel == [of |-> NoJob, reply |-> NoData]
Pages    == (1..(TotalRows + 1)) \X PageSizes
NoTable  == [at |-> <<1, FirstSize>>, fetching |-> FALSE, last |-> NoData, loaded |-> {}]

ClientTypeOK ==
    /\ form \in Jobs \cup {"none", "ready"}
    /\ creating \in [Jobs -> {"no", "asked", "answered"}]
    /\ shown \in Jobs \cup {NoJob}
    /\ data \in [Jobs -> View \cup {NoData}]
    /\ fetches \in [Jobs -> SUBSET (View \cup {Asked})]
    /\ cancel \in [of : Jobs \cup {NoJob}, reply : View \cup {NoData, Asked, Refused}]
    /\ table \in [at : Pages, fetching : BOOLEAN, last : Pages \cup {NoData},
                  loaded : SUBSET Pages]

ClientInit ==
    /\ Init
    /\ form = "none"
    /\ creating = [j \in Jobs |-> "no"]
    /\ shown = NoJob
    /\ data = [j \in Jobs |-> NoData]
    /\ fetches = [j \in Jobs |-> {}]
    /\ cancel = NoCancel
    /\ table = NoTable

-----------------------------------------------------------------------------
(* Connection, file and form *)

\* A connection is made and a file chosen: the form appears.
ChooseFile ==
    /\ form = "none"
    /\ form' = "ready"
    /\ UNCHANGED <<vars, creating, shown, data, fetches, cancel, table>>

\* disconnect takes the form away, and with it the knowledge of a submission under way; the
\* job panel stays.
Disconnect ==
    /\ form # "none"
    /\ form' = "none"
    /\ UNCHANGED <<vars, creating, shown, data, fetches, cancel, table>>

SubmitForm(j) ==
    /\ form = "ready"
    /\ state[j] = "NONE" /\ creating[j] = "no"
    /\ form' = j
    /\ creating' = [creating EXCEPT ![j] = "asked"]
    /\ UNCHANGED <<vars, shown, data, fetches, cancel, table>>

\* JobCreateView: the job exists from here on.
ServeSubmit(j) ==
    /\ creating[j] = "asked"
    /\ Submit(j)
    /\ creating' = [creating EXCEPT ![j] = "answered"]
    /\ UNCHANGED <<form, shown, data, fetches, cancel, table>>

\* The submission is answered: the query data is seeded and the panel turns to the job.  A
\* form that has gone since does not keep that from happening.
Submitted(j) ==
    /\ creating[j] = "answered"
    /\ cancel.of = NoJob \/ SwitchWhileCancelling
    /\ data' = [data EXCEPT ![j] = [job |-> j, state |-> "QUEUED", wanted |-> FALSE]]
    /\ shown' = j
    /\ table' = NoTable
    /\ form' = IF form = j THEN "ready" ELSE form
    /\ creating' = [creating EXCEPT ![j] = "no"]
    /\ UNCHANGED <<vars, fetches, cancel>>

\* The submission fails, or its answer is lost.
SubmitFails(j) ==
    /\ creating[j] # "no"
    /\ form' = IF form = j THEN "ready" ELSE form
    /\ creating' = [creating EXCEPT ![j] = "no"]
    /\ UNCHANGED <<vars, shown, data, fetches, cancel, table>>

-----------------------------------------------------------------------------
(* The job panel *)

IsTerminal(view) == view # NoData /\ view.state \in Finished

\* Mutant: a poll is sent at every interval, whatever is under way.
PollAnyway(j) ==
    /\ shown = j /\ ~IsTerminal(data[j])
    /\ Asked \notin fetches[j]
    /\ fetches' = [fetches EXCEPT ![j] = @ \cup {Asked}]
    /\ UNCHANGED <<vars, pageVars, data, cancel, table>>

\* Mutant: polling stops when the job is about to be cancelled.
PollUnlessWanted(j) ==
    /\ shown = j /\ ~IsTerminal(data[j]) /\ ~(data[j] # NoData /\ data[j].wanted)
    /\ fetches[j] = {}
    /\ fetches' = [fetches EXCEPT ![j] = {Asked}]
    /\ UNCHANGED <<vars, pageVars, data, cancel, table>>

\* refetchInterval: a poll of the job in the panel until its data is terminal.
Poll(j) ==
    /\ shown = j /\ ~IsTerminal(data[j])
    /\ fetches[j] = {}
    /\ fetches' = [fetches EXCEPT ![j] = {Asked}]
    /\ UNCHANGED <<vars, pageVars, data, cancel, table>>

\* The query is fetched once more when the network is back, terminal or not.
Reconnect(j) ==
    /\ shown = j
    /\ fetches[j] = {}
    /\ fetches' = [fetches EXCEPT ![j] = {Asked}]
    /\ UNCHANGED <<vars, pageVars, data, cancel, table>>

\* JobDetailView.
ServePoll(j) ==
    /\ Asked \in fetches[j]
    /\ fetches' = [fetches EXCEPT ![j] = (@ \ {Asked}) \cup {Snapshot(j)}]
    /\ UNCHANGED <<vars, pageVars, data, cancel, table>>

\* The table is there while the data says SUCCESS; it starts anew each time it appears.
TableUnder(view) ==
    IF view.state = "SUCCESS" /\ data[shown] # NoData /\ data[shown].state = "SUCCESS"
      THEN table ELSE NoTable

\* Data arrives for a job, be it a poll's or a cancel's.
SetData(j, view) ==
    /\ data' = [data EXCEPT ![j] = view]
    /\ table' = IF shown = j THEN TableUnder(view) ELSE table

Polled(j) ==
    /\ \E view \in fetches[j] \cap View :
         /\ fetches' = [fetches EXCEPT ![j] = @ \ {view}]
         /\ SetData(j, view)
    /\ UNCHANGED <<vars, pageVars, cancel>>

\* The request or its answer is lost: the data stays as it is.
PollFails(j) ==
    /\ \E f \in fetches[j] : fetches' = [fetches EXCEPT ![j] = @ \ {f}]
    /\ UNCHANGED <<vars, pageVars, data, cancel, table>>

\* Mutant: the panel shows the outcome it expects of a cancel before the server has answered.
CancelOptimistically ==
    /\ shown # NoJob /\ data[shown] # NoData
    /\ ~IsTerminal(data[shown]) /\ ~data[shown].wanted /\ cancel.of = NoJob
    /\ cancel' = [of |-> shown, reply |-> Asked]
    /\ SetData(shown, [data[shown] EXCEPT !.state = "FAILED"])
    /\ UNCHANGED <<vars, pageVars, fetches>>

\* The cancel button: disabled while a cancel is under way or known to be recorded.
PressCancel ==
    /\ shown # NoJob /\ data[shown] # NoData
    /\ ~IsTerminal(data[shown]) /\ ~data[shown].wanted /\ cancel.of = NoJob
    /\ cancel' = [of |-> shown, reply |-> Asked]
    /\ UNCHANGED <<vars, pageVars, data, fetches, table>>

\* JobCancelView: a queued job is cancelled, a running one is flagged, again if need be,
\* and a finished one is left alone.  The job is read again for the answer.  That these are
\* several statements is the subject of JobSystem.
ServeCancel ==
    /\ cancel.reply = Asked
    /\ LET j == cancel.of IN
         \/ /\ CancelQueued(j) \/ Flag(j)
            /\ cancel' = [cancel EXCEPT
                   !.reply = [job |-> j, state |-> state'[j], wanted |-> wanted'[j]]]
         \/ /\ state[j] \in Finished
            /\ cancel' = [cancel EXCEPT !.reply = Refused]
            /\ UNCHANGED vars
    /\ UNCHANGED <<pageVars, data, fetches, table>>

\* onSuccess writes the answer into the data of the job the panel shows now: an observer
\* passes its latest options on to a mutation that is still pending.
Cancelled ==
    /\ cancel.reply \in View
    /\ SetData(shown, cancel.reply)
    /\ cancel' = NoCancel
    /\ UNCHANGED <<vars, pageVars, fetches>>

\* The cancel is refused, or the request or its answer is lost: an alert, and no new data.
CancelFails ==
    /\ cancel.of # NoJob
    /\ cancel' = NoCancel
    /\ UNCHANGED <<vars, pageVars, data, fetches, table>>

-----------------------------------------------------------------------------
(* The results table *)

TableOn == shown # NoJob /\ data[shown] # NoData /\ data[shown].state = "SUCCESS"

\* What is on the screen: the page asked for, or the last one until it has come.
OnScreen == IF table.at \in table.loaded THEN table.at ELSE table.last
Results  == ReadPage(OnScreen[1], OnScreen[2])

\* A page is fetched when it is first asked for, and again whenever the table turns to it.
Goto(at) == table' = [table EXCEPT !.at = at, !.fetching = TRUE, !.last = OnScreen]

\* Mutant: the page is kept when the rows per page change.
ChooseSizeOnly(size) ==
    /\ TableOn /\ OnScreen # NoData
    /\ Goto(<<table.at[1], size>>)
    /\ UNCHANGED <<vars, pageVars, data, fetches, cancel>>

ChooseSize(size) ==
    /\ TableOn /\ OnScreen # NoData
    /\ size # table.at[2]
    /\ Goto(<<1, size>>)
    /\ UNCHANGED <<vars, pageVars, data, fetches, cancel>>

NextPage ==
    /\ TableOn /\ OnScreen # NoData
    /\ ~table.fetching /\ table.at[1] < Results.pages
    /\ Goto(<<table.at[1] + 1, table.at[2]>>)
    /\ UNCHANGED <<vars, pageVars, data, fetches, cancel>>

PreviousPage ==
    /\ TableOn /\ OnScreen # NoData
    /\ ~table.fetching /\ table.at[1] > 1
    /\ Goto(<<table.at[1] - 1, table.at[2]>>)
    /\ UNCHANGED <<vars, pageVars, data, fetches, cancel>>

\* The first page is asked for as soon as the table appears.
OpenTable ==
    /\ TableOn /\ OnScreen = NoData /\ ~table.fetching
    /\ table' = [table EXCEPT !.fetching = TRUE]
    /\ UNCHANGED <<vars, pageVars, data, fetches, cancel>>

\* get_job_results: the page comes, of a job that has succeeded.
PageComes ==
    /\ TableOn /\ table.fetching /\ state[shown] = "SUCCESS"
    /\ table' = [table EXCEPT !.fetching = FALSE, !.loaded = @ \cup {table.at}]
    /\ UNCHANGED <<vars, pageVars, data, fetches, cancel>>

\* It does not: without a page of its own the table is an error message until it is
\* fetched again.
PageFails ==
    /\ TableOn /\ table.fetching
    /\ table' = [table EXCEPT !.fetching = FALSE,
                              !.last = IF table.at \in table.loaded THEN @ ELSE NoData]
    /\ UNCHANGED <<vars, pageVars, data, fetches, cancel>>

-----------------------------------------------------------------------------
JobStep(j) ==
    /\ Start(j) \/ Fail(j) \/ Succeed(j)
    /\ UNCHANGED clientVars

PollStep(j) == Poll(j) \/ ServePoll(j) \/ Polled(j)
TableStep ==
    \/ OpenTable \/ PageComes \/ PageFails \/ NextPage \/ PreviousPage
    \/ \E size \in PageSizes : ChooseSize(size)

ClientNext ==
    \/ ChooseFile \/ Disconnect
    \/ \E j \in Jobs :
         \/ SubmitForm(j) \/ ServeSubmit(j) \/ Submitted(j) \/ SubmitFails(j)
         \/ PollStep(j) \/ Reconnect(j) \/ PollFails(j)
         \/ JobStep(j)
    \/ PressCancel \/ ServeCancel \/ Cancelled \/ CancelFails
    \/ TableStep

ClientSpec == ClientInit /\ [][ClientNext]_allVars

\* The page is visible, so its timer goes on, and a network that fails does not fail every
\* time.
ClientFairness ==
    \A j \in Jobs : WF_allVars(Poll(j)) /\ SF_allVars(ServePoll(j)) /\ SF_allVars(Polled(j))

FairClientSpec == ClientSpec /\ ClientFairness

-----------------------------------------------------------------------------
Rank(s) == CASE s = "QUEUED" -> 1 [] s = "RUNNING" -> 2 [] OTHER -> 3

\* Whatever the order in which polls, cancels and submissions are answered, the panel says
\* of a job what has been true of it: it is never ahead of the server, a recorded cancel is
\* recorded, and an outcome is the job's outcome, so that polling may stop there (useJob)
\* and its results may be asked for (App).
NeverAhead ==
    \A j \in Jobs : data[j] # NoData =>
        /\ data[j].job = j
        /\ data[j].wanted => wanted[j]
        /\ Rank(data[j].state) <= Rank(state[j])
        /\ data[j].state \in Finished => data[j].state = state[j]

\* useJob: polls of a job are never shown out of order; only a cancel, whose answer may cross
\* a poll's, can put the panel back.
OnlyCancelPutsBack ==
    [][\A j \in Jobs : data[j] # NoData /\ ~wanted[j] =>
          Rank(data'[j].state) >= Rank(data[j].state)]_allVars

\* Polling with its seed, its failures and the cancel's answer in between: in the end the
\* panel shows the outcome of a job that has one.
SettlesOnOutcome ==
    <>[](shown # NoJob /\ state[shown] \in Finished => data[shown].state = state[shown])

\* read_results_page and the table's buttons: the rows on the screen are those of that page
\* of the source, under their own numbers, whatever gaps the row ids have; all pages but the
\* last are full.
ScreenShowsItsRows ==
    TableOn /\ OnScreen # NoData =>
        Results.rows = {[number |-> Position(i), id |-> i] :
                          i \in {r \in RowIds : (Position(r) - 1) \div Results.size
                                                  = Results.page - 1}}

\* The table never gets behind the end of the results: from every page that shows rows, the
\* buttons and the choice of a size lead to pages that show rows.
NeverBehindTheEnd ==
    TableOn => table.at[1] <= TotalPages(Size(table.at[2]))

\* "Fetch a job and keep polling (with backoff) until it reaches a terminal status"
\* (useJob.ts): the job whose polling has stopped has a terminal status.
PollsUntilTerminal ==
    shown # NoJob /\ IsTerminal(data[shown]) => state[shown] \in Finished
=============================================================================
