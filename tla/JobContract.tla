---------------------------- MODULE JobContract ----------------------------
(***************************************************************************)
(* What the job API promises its client, whatever the queue, the workers   *)
(* and Spark do behind it (README.md "How a job runs", models.py 24-31).   *)
(* A job has one lifecycle, finishes once, and a finished job's result     *)
(* never changes again.                                                    *)
(***************************************************************************)
CONSTANTS Jobs,      \* job ids
          Answers,   \* results a job may compute (one per pattern or specification)
          NoAnswer   \* no result to read yet

VARIABLES state,     \* the status a GET of the job shows
          wanted,    \* a cancel of this job is recorded
          visible    \* what a GET of the job's results reads

vars == <<state, wanted, visible>>

Finished == {"SUCCESS", "FAILED"}

Init ==
    /\ state = [j \in Jobs |-> "NONE"]
    /\ wanted = [j \in Jobs |-> FALSE]
    /\ visible = [j \in Jobs |-> NoAnswer]

Move(j, from, to) ==
    /\ state[j] = from
    /\ state' = [state EXCEPT ![j] = to]

Submit(j) == Move(j, "NONE", "QUEUED") /\ UNCHANGED <<wanted, visible>>

Start(j) == Move(j, "QUEUED", "RUNNING") /\ UNCHANGED <<wanted, visible>>

\* A running job only takes note of the cancel; it stops by failing later.
Flag(j) ==
    /\ state[j] = "RUNNING"
    /\ wanted' = [wanted EXCEPT ![j] = TRUE]
    /\ UNCHANGED <<state, visible>>

\* A queued job is cancelled on the spot.
CancelQueued(j) ==
    /\ Move(j, "QUEUED", "FAILED")
    /\ wanted' = [wanted EXCEPT ![j] = TRUE]
    /\ UNCHANGED visible

Fail(j) == Move(j, "RUNNING", "FAILED") /\ UNCHANGED <<wanted, visible>>

Succeed(j) ==
    /\ Move(j, "RUNNING", "SUCCESS")
    /\ \E a \in Answers : visible' = [visible EXCEPT ![j] = a]
    /\ UNCHANGED wanted

Next == \E j \in Jobs :
    Submit(j) \/ Start(j) \/ Flag(j) \/ CancelQueued(j) \/ Fail(j) \/ Succeed(j)

Spec == Init /\ [][Next]_vars
=============================================================================
