--------------------------- MODULE MCJobProgress ---------------------------
(* JobProgress for TLC: the pass over the data has several tasks, the rest one each. *)
EXTENDS JobProgress

MCSparkTasks == [source |-> 1, sample |-> 1, write |-> 2, count |-> 1]
=============================================================================
