---------------------------- MODULE Conversation ----------------------------
(***************************************************************************)
(* One project conversation and the chain of runs it opens                 *)
(* (factory/control/agents.py, agent_routes.py, and the parts of           *)
(* run_lifecycle.py, service.py and recovery.py that touch the chain).     *)
(*                                                                         *)
(* A user message either answers a run that waits, waits itself as pending *)
(* feedback until the run at hand has delivered, or opens a new run.  The  *)
(* dispatcher adopts pending feedback into a successor of the delivered    *)
(* run; a user may replace a stopped run by a retry.                       *)
(*                                                                         *)
(* Every action is one SQLite transaction or one locked step.  The message *)
(* route, retry and the dispatcher's scan hold service.lock over several   *)
(* transactions: the record cs says how far the holder has come, and only  *)
(* actions of threads that take no lock may come in between.  A crash may  *)
(* fall anywhere.                                                          *)
(*                                                                         *)
(* Text is abstracted to the set of messages it contains, and the limits   *)
(* on a batch of text to numbers of messages.  What a worker does between  *)
(* taking a run and reporting on it is the matter of RunLifecycle.         *)
(***************************************************************************)
EXTENDS Naturals, FiniteSets

CONSTANTS
    MaxMessages,    \* messages the user sends, numbered in order (bound)
    MaxRuns,        \* runs that can be opened, numbered in order (bound)
    MaxFaults,      \* crashes, and times that queueing a run raises (bound)
    MaxClicks,      \* changes the user makes to runs from the run page (bound)
    BatchLimit,     \* messages that fit into one successor's request
    AnswerLimit,    \* pending messages that fit into one clarification
    Policies        \* what resume_on_restart may be when the service restarts

ASSUME LimitsAssumption ==
    /\ MaxMessages \in Nat /\ MaxRuns \in Nat
    /\ MaxFaults \in Nat /\ MaxClicks \in Nat
    /\ BatchLimit \in Nat \ {0} /\ AnswerLimit \in Nat
    /\ Policies \in (SUBSET BOOLEAN) \ {{}}

Message == 1..MaxMessages
RunId   == 1..MaxRuns
NoRun   == 0

InHand    == {"received", "queued", "running", "publishing",
              "ready_for_review", "published"}
Active    == {"received", "queued", "running", "publishing"}
Waiting   == {"needs_clarification", "needs_human"}
Delivered == {"ready_for_review", "published"}
RunStatus == InHand \cup Waiting \cup {"none", "cancelled", "discarded"}

Run == [status  : RunStatus,
        linked  : BOOLEAN,              \* its document names the conversation
        pred    : RunId \cup {NoRun},   \* feedback_predecessor_id
        retryOf : RunId \cup {NoRun},   \* source.retry_of
        words   : SUBSET Message,       \* what request and history contain
        applied : SUBSET Message]       \* feedback_applied_ids

Unopened == [status |-> "none", linked |-> FALSE, pred |-> NoRun,
             retryOf |-> NoRun, words |-> {}, applied |-> {}]

MessageState == {"unsent", "plain", "pending", "adopted"}

\* How far the thread that holds service.lock has come ("idle": nobody holds
\* it, "down": the process is gone).
Stages == {"idle", "down", "append", "act", "restart", "settle", "freeze",
           "attach", "settle_all", "start", "drain"}

VARIABLES
    msgs,      \* [Message -> feedback_status and feedback_run_id]
    acked,     \* messages whose request was answered with success
    current,   \* the conversation's run_id
    run,       \* [RunId -> Run]
    row,       \* runs with a pending row in the durable queue
    worker,    \* [RunId -> "none", or how far the run's worker has come]
    cs,        \* the critical section under way
    faults, clicks

vars == <<msgs, acked, current, run, row, worker, cs, faults, clicks>>
conversation == <<msgs, acked, current>>
counters == <<faults, clicks>>

Free == [at |-> "idle", m |-> 0, r |-> NoRun, queued |-> FALSE, ids |-> {}]
Gone == [Free EXCEPT !.at = "down"]

Init ==
    /\ msgs = [m \in Message |-> [state |-> "unsent", by |-> NoRun]]
    /\ acked = {} /\ current = NoRun
    /\ run = [r \in RunId |-> Unopened]
    /\ row = {} /\ worker = [r \in RunId |-> "none"]
    /\ cs = Free /\ faults = 0 /\ clicks = 0

-----------------------------------------------------------------------------
Sent    == {m \in Message : msgs[m].state # "unsent"}
Pending == {m \in Message : msgs[m].state = "pending"}

\* The first messages of a set that fit into n places, oldest first.
FirstOf(S, n) == {m \in S : Cardinality({k \in S : k < m}) < n}

\* A plausible mistake: the word the supplements of a run page use.
SettledAsApplied(ids, r) ==
    [m \in Message |-> IF m \in ids THEN [state |-> "applied", by |-> r]
                                    ELSE msgs[m]]

Settled(ids, r) ==
    [m \in Message |-> IF m \in ids THEN [state |-> "adopted", by |-> r]
                                    ELSE msgs[m]]

Status == IF current = NoRun THEN "none" ELSE run[current].status

Opened == {r \in RunId : run[r].status # "none"}
NewRun == Cardinality(Opened) + 1

SetStatus(r, s) == run' = [run EXCEPT ![r].status = s]

\* A plausible mistake: a route that takes the lock only once it has read the run.
LockFreeWhileReading == cs.at \in {"idle", "append", "act"}

\* What taking service.lock in a handler waits for.
LockFree == cs.at = "idle"

-----------------------------------------------------------------------------
\* POST /conversations/{cid}/messages: the whole route runs under the lock.

\* The status that decides whether the message will wait as feedback.
ReadRun(m) ==
    /\ cs.at = "idle" /\ m \notin Sent /\ \A k \in Message : k < m => k \in Sent
    /\ cs' = [Free EXCEPT !.at = "append", !.m = m, !.queued = Status \in InHand]
    /\ UNCHANGED <<conversation, run, row, worker, counters>>

AppendMessage ==
    /\ cs.at = "append"
    /\ msgs' = [msgs EXCEPT ![cs.m].state = IF cs.queued THEN "pending" ELSE "plain"]
    /\ cs' = [cs EXCEPT !.at = "act"]
    /\ UNCHANGED <<acked, current, run, row, worker, counters>>

\* The run waits: it is planned again from the pending words and these, and
\* its document remembers which pending messages it took.
Clarify ==
    LET ids == FirstOf(Pending, AnswerLimit) IN
    /\ cs.at = "act" /\ Status \in Waiting
    /\ run' = [run EXCEPT ![current].status = "received",
                          ![current].words = @ \cup ids \cup {cs.m},
                          ![current].applied = @ \cup ids]
    /\ cs' = [cs EXCEPT !.at = "restart", !.r = current, !.ids = ids]
    /\ UNCHANGED <<conversation, row, worker, counters>>

\* The run stopped inside its plan: it continues with these words only.
ContinueRun ==
    /\ cs.at = "act" /\ Status = "needs_human" /\ worker[current] = "none"
    /\ run' = [run EXCEPT ![current].status = "queued",
                          ![current].words = @ \cup {cs.m}]
    /\ cs' = [cs EXCEPT !.at = "restart", !.r = current]
    /\ UNCHANGED <<conversation, row, worker, counters>>

\* ... or the request is refused: the worker still saves its site, or another
\* precondition of a resume does not hold.
ContinueRefused ==
    /\ cs.at = "act" /\ Status = "needs_human"
    /\ cs' = Free
    /\ UNCHANGED <<conversation, run, row, worker, counters>>

\* clarify and continue_run queue the run they changed; when that raises,
\* the run is failed and the request with it.
Requeue ==
    /\ cs.at = "restart"
    /\ \/ /\ row' = row \cup {cs.r}
          /\ cs' = [cs EXCEPT !.at = "settle"]
          /\ UNCHANGED <<run, faults>>
       \/ /\ faults < MaxFaults /\ faults' = faults + 1
          /\ SetStatus(cs.r, "needs_human")
          /\ cs' = Free
          /\ UNCHANGED row
    /\ UNCHANGED <<conversation, worker, clicks>>

\* settle_feedback for the messages the clarification took.
SettleAnswered ==
    /\ cs.at = "settle"
    /\ msgs' = Settled(Pending \cap cs.ids, cs.r)
    /\ acked' = acked \cup {cs.m} /\ cs' = Free
    /\ UNCHANGED <<current, run, row, worker, counters>>

\* The run is at hand or delivered: the message waits.
ReplyQueued ==
    /\ cs.at = "act" /\ Status \in InHand
    /\ acked' = acked \cup {cs.m} /\ cs' = Free
    /\ UNCHANGED <<msgs, current, run, row, worker, counters>>

\* No run, or one that is over: a new run from everything the user has said.
CreateRun ==
    /\ cs.at = "act" /\ Status \notin InHand \cup Waiting /\ NewRun \in RunId
    /\ run' = [run EXCEPT ![NewRun] = [Unopened EXCEPT !.status = "received",
                                                      !.words = Sent]]
    /\ cs' = [cs EXCEPT !.at = "freeze", !.r = NewRun]
    /\ UNCHANGED <<conversation, row, worker, counters>>

FreezeVersion ==
    /\ cs.at = "freeze"
    /\ run' = [run EXCEPT ![cs.r].linked = TRUE]
    /\ cs' = [cs EXCEPT !.at = "attach"]
    /\ UNCHANGED <<conversation, row, worker, counters>>

AttachRun ==
    /\ cs.at = "attach"
    /\ current' = cs.r
    /\ cs' = [cs EXCEPT !.at = "settle_all"]
    /\ UNCHANGED <<msgs, acked, run, row, worker, counters>>

SettleAll ==
    /\ cs.at = "settle_all"
    /\ msgs' = Settled(Pending, cs.r)
    /\ cs' = [cs EXCEPT !.at = "start"]
    /\ UNCHANGED <<acked, current, run, row, worker, counters>>

\* start_plan after a run was created or retried.  Neither caller handles an
\* exception: the run then stays received.
StartCreated ==
    /\ cs.at = "start" /\ cs' = Free
    /\ \/ /\ row' = row \cup {cs.r}
          /\ acked' = acked \cup ({cs.m} \cap Message)
          /\ UNCHANGED faults
       \/ /\ faults < MaxFaults /\ faults' = faults + 1
          /\ UNCHANGED <<row, acked>>
    /\ UNCHANGED <<msgs, current, run, worker, clicks>>

-----------------------------------------------------------------------------
\* POST /runs/{rid}/retry.

\* A plausible mistake: neither retry nor create_retry asks who comes next already.
AnyRun(r) == TRUE

\* The conversation has not moved on; otherwise the request is refused, or
\* answered with the retry that exists.
Newest(r) == current = r

CreateRetry(r) ==
    /\ LockFree /\ run[r].linked /\ Newest(r) /\ NewRun \in RunId
    /\ run[r].status \in {"needs_human", "cancelled"} /\ worker[r] = "none"
    /\ run' = [run EXCEPT ![NewRun] = [run[r] EXCEPT !.status = "received",
                                                    !.retryOf = r]]
    /\ current' = NewRun
    /\ cs' = [Free EXCEPT !.at = "start", !.r = NewRun]
    /\ UNCHANGED <<msgs, acked, row, worker, counters>>

-----------------------------------------------------------------------------
\* The dispatcher's scan of conversations.

Scannable == cs.at = "idle" /\ current # NoRun /\ worker[current] = "none"

\* Pending messages an answer has taken already, though not settled.
Taken == Pending \cap run[current].applied
Left  == Pending \ run[current].applied

\* adopt_feedback: one transaction marks what was taken and, if the run has
\* delivered, opens its successor with the first batch of the rest.
AdoptFeedback ==
    LET batch == FirstOf(Left, BatchLimit)
        adopt == Left # {} /\ Status \in Delivered
    IN
    /\ Scannable /\ Pending # {}
    /\ adopt \/ Taken # {}
    /\ IF adopt
       THEN /\ NewRun \in RunId
            /\ run' = [run EXCEPT ![NewRun] =
                         [Unopened EXCEPT !.status = "received", !.linked = TRUE,
                                          !.pred = current,
                                          !.words = run[current].words \cup batch]]
            /\ msgs' = [m \in Message |->
                          IF m \in Taken THEN [state |-> "adopted", by |-> current]
                          ELSE IF m \in batch THEN [state |-> "adopted", by |-> NewRun]
                          ELSE msgs[m]]
            /\ current' = NewRun
            /\ cs' = [Free EXCEPT !.at = "drain", !.r = NewRun]
       ELSE /\ msgs' = Settled(Taken, current)
            /\ UNCHANGED <<run, current, cs>>
    /\ UNCHANGED <<acked, row, worker, counters>>

\* A plausible mistake: only the scan that adopted a successor starts it.
NeverRescanned(r) == FALSE

\* A successor that was committed but not queued is found by any later scan.
Unstarted(r) == run[r].pred # NoRun /\ run[r].status = "received" /\ r \notin row

\* start_plan of the successor; what it raises is noted on the conversation.
StartSuccessor ==
    /\ \/ cs.at = "drain"
       \/ Scannable /\ Unstarted(current)
    /\ cs' = Free
    /\ \/ /\ row' = row \cup {current}
          /\ UNCHANGED faults
       \/ /\ faults < MaxFaults /\ faults' = faults + 1
          /\ UNCHANGED row
    /\ UNCHANGED <<conversation, run, worker, clicks>>

Dispatch(r) ==
    /\ LockFree /\ r \in row /\ worker[r] = "none"
    /\ row' = row \ {r}
    /\ worker' = IF run[r].status \in {"received", "queued"}
                 THEN [worker EXCEPT ![r] = "claimed"] ELSE worker
    /\ UNCHANGED <<conversation, run, cs, counters>>

-----------------------------------------------------------------------------
\* The run's worker.

\* The successor works on the checkout its predecessor delivered.
CheckoutReady(r) == run[r].pred = NoRun \/ run[run[r].pred].status \in Delivered

WorkerStart(r) ==
    /\ worker[r] = "claimed"
    /\ IF run[r].status \notin {"received", "queued"}
       THEN worker' = [worker EXCEPT ![r] = "ending"] /\ UNCHANGED run
       ELSE IF CheckoutReady(r)
       THEN worker' = [worker EXCEPT ![r] = "busy"] /\ SetStatus(r, "running")
       ELSE /\ LockFree
            /\ worker' = [worker EXCEPT ![r] = "ending"]
            /\ SetStatus(r, "needs_human")
    /\ UNCHANGED <<conversation, row, cs, counters>>

\* A question or a plan to approve is stored without the lock; a landing and
\* a failure take it.  A worker whose run was cancelled ends without a word.
WorkerReport(r) ==
    /\ worker[r] = "busy"
    /\ worker' = [worker EXCEPT ![r] = "ending"]
    /\ \/ run[r].status = "running" /\ SetStatus(r, "needs_clarification")
       \/ /\ run[r].status = "running" /\ LockFree
          /\ \E s \in {"ready_for_review", "needs_human"} : SetStatus(r, s)
       \/ run[r].status # "running" /\ UNCHANGED run
    /\ UNCHANGED <<conversation, row, cs, counters>>

WorkerEnd(r) ==
    /\ LockFree /\ worker[r] = "ending"
    /\ worker' = [worker EXCEPT ![r] = "none"]
    /\ UNCHANGED <<conversation, run, row, cs, counters>>

-----------------------------------------------------------------------------
\* The run page, which knows nothing of the conversation: a waiting run is
\* answered, approved or continued; any run is cancelled, discarded, published.

Click == clicks < MaxClicks /\ clicks' = clicks + 1

Resume(r) ==
    /\ LockFree /\ run[r].status \in Waiting /\ Click
    /\ \/ SetStatus(r, "received")
       \/ /\ run[r].status = "needs_human" => worker[r] = "none"
          /\ SetStatus(r, "queued")
    /\ row' = row \cup {r}
    /\ UNCHANGED <<conversation, worker, cs, faults>>

Cancel(r) ==
    /\ LockFree /\ Click
    /\ run[r].status \in {"received", "queued", "running", "ready_for_review"} \cup Waiting
    /\ SetStatus(r, "cancelled")
    /\ UNCHANGED <<conversation, row, worker, cs, faults>>

Discard(r) ==
    /\ LockFree /\ run[r].status \in Waiting \cup {"ready_for_review", "cancelled"}
    /\ Click /\ SetStatus(r, "discarded")
    /\ UNCHANGED <<conversation, row, worker, cs, faults>>

\* publish takes no lock: it may pass under a route that holds it.
PublishBegin(r) ==
    /\ cs.at # "down" /\ run[r].status = "ready_for_review"
    /\ Click /\ SetStatus(r, "publishing")
    /\ UNCHANGED <<conversation, row, worker, cs, faults>>

PublishEnd(r) ==
    /\ cs.at # "down" /\ run[r].status = "publishing"
    /\ \E s \in Delivered : SetStatus(r, s)
    /\ UNCHANGED <<conversation, row, worker, cs, counters>>

-----------------------------------------------------------------------------
Crash ==
    /\ cs.at # "down" /\ faults < MaxFaults
    /\ faults' = faults + 1 /\ cs' = Gone
    /\ worker' = [r \in RunId |-> "none"]
    /\ UNCHANGED <<conversation, run, row, clicks>>

\* What recover makes of an interrupted run: a received successor is always
\* queued again, other unstarted work if the policy says so, and a round under
\* way when it was planning or has a checkpoint.
Recovered(r, resume, resumed) ==
    LET s == run[r].status IN
    IF s = "received" /\ (run[r].pred # NoRun \/ resume) THEN "received"
    ELSE IF s = "queued" /\ resume THEN "queued"
    ELSE IF s = "running" /\ resume THEN resumed
    ELSE IF s \in Active THEN "needs_human" ELSE s

Recover ==
    /\ cs.at = "down" /\ cs' = Free
    /\ \E resume \in Policies, resumed \in [RunId -> {"received", "queued", "needs_human"}] :
          LET after(r) == Recovered(r, resume, resumed[r]) IN
          /\ run' = [r \in RunId |-> [run[r] EXCEPT !.status = after(r)]]
          /\ row' = {r \in RunId : \/ r \in row /\ run[r].status \notin Active
                                   \/ after(r) \in {"received", "queued"}}
    /\ UNCHANGED <<conversation, worker, counters>>

-----------------------------------------------------------------------------
MessageRoute ==
    \/ \E m \in Message : ReadRun(m)
    \/ AppendMessage \/ Clarify \/ ContinueRun \/ ContinueRefused \/ Requeue
    \/ SettleAnswered \/ ReplyQueued \/ CreateRun \/ FreezeVersion \/ AttachRun
    \/ SettleAll \/ StartCreated

Scheduler == AdoptFeedback \/ StartSuccessor \/ \E r \in RunId : Dispatch(r)

Work(r) == WorkerStart(r) \/ WorkerReport(r) \/ WorkerEnd(r)

RunPage(r) == \/ CreateRetry(r) \/ Resume(r) \/ Cancel(r) \/ Discard(r)
              \/ PublishBegin(r) \/ PublishEnd(r)

Next == \/ MessageRoute \/ Scheduler
        \/ \E r \in RunId : Work(r) \/ RunPage(r)
        \/ Crash \/ Recover

Spec == Init /\ [][Next]_vars

\* A request thread that holds the lock goes on, the dispatcher scans and
\* dispatches, workers work, and a service that died is started again.  What
\* users do is never owed; it is bounded, so weak fairness is enough for the
\* steps that have to wait for the lock.
Holding == AppendMessage \/ Clarify \/ ContinueRefused \/ Requeue \/ SettleAnswered
           \/ ReplyQueued \/ CreateRun \/ FreezeVersion \/ AttachRun \/ SettleAll
           \/ StartCreated

FairSpec ==
    /\ Spec /\ WF_vars(Holding) /\ WF_vars(Recover)
    /\ WF_vars(AdoptFeedback) /\ WF_vars(StartSuccessor)
    /\ \A r \in RunId : WF_vars(Dispatch(r)) /\ WF_vars(Work(r))
=============================================================================
