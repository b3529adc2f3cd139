---------------------------- MODULE DurableQueue ----------------------------
(***************************************************************************)
(* The rows of the SQLite table control_jobs (factory/control/autonomy.py, *)
(* class DurableQueue).  A run has at most one row per phase.  Each        *)
(* operation of the class is one transaction on these rows; the operators  *)
(* below give the row (or rows) it leaves behind.                          *)
(***************************************************************************)
EXTENDS Naturals

\* The phases enqueue accepts.
Phases == {"requirement_analysis", "plan", "execute"}

\* "none": the run has no row for this phase yet.
JobStates == {"none", "pending", "running", "done"}

\* generation counts the rounds of this phase accepted so far; a worker holds
\* the generation it claimed and presents it again to finish.
Job == [state : JobStates, gen : Nat]

NoJob == [state |-> "none", gen |-> 0]

\* enqueue returns False and writes nothing: the round is already waiting, or
\* one is running and the caller did not ask for a continuation.
EnqueueRefused(job, continuation) ==
    \/ job.state = "pending"
    \/ job.state = "running" /\ ~continuation

\* A plausible mistake in enqueue: a running row refuses a continuation too.
EnqueueIgnoringContinuation(job, continuation) ==
    IF job.state \in {"pending", "running"}
    THEN job
    ELSE [state |-> "pending", gen |-> job.gen + 1]

Enqueued(job, continuation) ==
    IF EnqueueRefused(job, continuation)
    THEN job
    ELSE [state |-> "pending", gen |-> job.gen + 1]

\* A plausible mistake in claim: the row gets a status no other query knows.
ClaimedUnderNewStatus(job) == [job EXCEPT !.state = "claimed"]

Claimable(job) == job.state = "pending"

Claimed(job) == [job EXCEPT !.state = "running"]

\* A plausible mistake in finish: retire the row whoever owns it.
FinishedByAnyone(job, generation) == [job EXCEPT !.state = "done"]

\* finish retires the round only while it is running under that generation.
Finished(job, generation) ==
    IF job.state = "running" /\ job.gen = generation
    THEN [job EXCEPT !.state = "done"]
    ELSE job

\* A plausible mistake in reset: a row that was already claimed is left alone.
ResetPendingRows(rows) ==
    [p \in Phases |-> IF rows[p].state = "pending"
                      THEN [rows[p] EXCEPT !.state = "done"]
                      ELSE rows[p]]

\* reset retires every row the run has, whatever its state.
ResetRows(rows) ==
    [p \in Phases |-> IF rows[p].state = "none"
                      THEN rows[p]
                      ELSE [rows[p] EXCEPT !.state = "done"]]
=============================================================================
