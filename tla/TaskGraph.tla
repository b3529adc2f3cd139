----------------------------- MODULE TaskGraph -----------------------------
(***************************************************************************)
(* One run's plan executed as a graph of tasks: execute_plan of            *)
(* src/factory/control/execution.py, the rounds that call it               *)
(* (run_execution.py), the budget it is given (run_billing.py) and the     *)
(* resume of a paused run.                                                 *)
(*                                                                         *)
(* The scheduler is one thread; each task it starts is worked on by a      *)
(* thread of a pool in a Git worktree of its own, which may pay for several *)
(* model calls.  A worktree and a commit are abstracted to the set of      *)
(* tasks whose commits they contain.                                       *)
(***************************************************************************)
EXTENDS Naturals, FiniteSets, FiniteSetsExt, SequencesExt

CONSTANTS
    Tasks,           \* number of tasks in the plan; they are 1 .. Tasks, in order
    DependsOn,       \* the tasks each task depends on
    Overlap,         \* pairs of tasks whose scheduling paths overlap
    MaxParallel,     \* limits["max_parallel"]
    MaxAttempts,     \* routing_policy["max_attempts"]; 1 without a routing policy
    Limit,           \* the dollar budget of the run, in units; 0 is no budget
    Policies,        \* possible unknown_cost_policy: "stop", the default of
                     \*   execute_plan, and "allow_bounded", which the service passes
    AutoPublish,     \* project["auto_publish"]
    MaxCost,         \* bound: what a call may cost when there is no budget
    MaxRounds,       \* bound: executions of the plan
    MaxCrashes,      \* bound: restarts of the service
    MaxRestoreFaults \* bound: rounds that fail while saved work is restored

Task   == 1 .. Tasks
Repair == 0
Lane   == Task \cup {Repair}

ASSUME TaskGraphAssumption ==
    /\ Tasks \in Nat \ {0}
    /\ DependsOn \in [Task -> SUBSET Task]
    /\ Overlap \subseteq Task \X Task
    /\ MaxParallel \in Nat \ {0} /\ MaxAttempts \in 1 .. 3
    /\ Policies \subseteq {"stop", "allow_bounded"}
    /\ AutoPublish \in BOOLEAN
    /\ {Limit, MaxCost, MaxRounds, MaxCrashes, MaxRestoreFaults} \subseteq Nat

VARIABLES
    unknown_cost_policy, \* fixed for the run
    pc,       \* where the scheduler is, or the state of the run between rounds
    harvest,  \* done futures the scheduler has not looked at yet
    by_id,    \* status of each task in this round
    lane,     \* what the thread of each task does: "none" is no future
    tries,    \* attempts of the task in this round
    base,     \* tasks whose commits the worktree of the task started from
    unpriced, \* an attempt of the task has no cost
    tree,     \* tasks whose commits are on the integration branch
    verdict,  \* the tree that passed the last complete final check; or "none"
    stop,     \* stop_kind: "none", "budget" or "unknown_cost"
    ended,    \* why the loop ended: "none", "failed", "cancelled" or an exception
    observed, \* known cost of this round; unknown cost seen (cost_unknown)
    unknown,
    allowance,\* what this round may spend
    ceiling,  \* max_budget_usd of the call in flight of each lane
    dispatch, \* holder of provider_dispatch_lock; Free when nobody holds it
    cancel,   \* the run's cancellation event: "no", set by the "user", or by the
              \*   round it"self", which also tells its threads to stop
    saved,    \* verified tasks in the artifacts of the run, and whether these
    site,     \*   have an execution site to resume from
    ledger,   \* durable usage: known costs, and a hold for each unknown one
    spent,    \* what the calls really cost, those in flight included
    price,    \* what the call in flight of each lane costs; nobody knows it yet
    count     \* rounds, crashes and restore faults so far

sched   == <<pc, harvest, tree, verdict, stop, ended>>
work    == <<by_id, lane, tries, base, unpriced>>
money   == <<observed, unknown, allowance, ceiling, dispatch, ledger, spent, price>>
durable == <<saved, site>>
vars    == <<unknown_cost_policy, sched, work, money, durable, cancel, count>>

Free    == Tasks + 1
Outcome == {"verified", "failed", "cancelled"}
Rest    == {"paused", "delivered", "published", "cancelled"}
-----------------------------------------------------------------------------
(* Operators of the scheduler.                                             *)

First(t, S) == t \in S /\ \A u \in S : t <= u
Clash(t, u) == <<t, u>> \in Overlap \/ <<u, t>> \in Overlap
Active      == {t \in Task : lane[t] # "none"}

\* A plausible mistake: futures that raised are not waited for.
DoneWithResult == {t \in Active : lane[t] \in Outcome}
Done == {t \in Active : lane[t] \in Outcome \cup {"raised"}}
finished    == {t \in Task : by_id[t] \in Outcome}

completed   == finished \cap tree

Ready == {t \in Task \ (finished \cup Active) : DependsOn[t] \subseteq completed}
\* A plausible mistake: paths are not compared.
StartableAnyPath == {t \in Ready : stop = "none"}
Startable ==
    {t \in Ready : stop = "none" /\ \A u \in Active : ~Clash(t, u)}

\* dispatch_block_reason, given the round's known cost and the unknown flag.
Blocked(known, open) ==
    \/ open /\ unknown_cost_policy = "stop"
    \/ Limit > 0 /\ known >= allowance
StopKind(kind, known, open) ==
    IF Blocked(known, open) THEN IF open THEN "unknown_cost" ELSE "budget" ELSE kind

\* A commit may fail to apply to a tree that lacks, or has in addition, the
\* work of a task that touches the same paths.
Mismatch(t, on) == \E u \in Task \ {t} : Clash(t, u) /\ (u \in on) # (u \in base[t])

\* Saved commits are replayed in waves: every task whose dependencies are
\* restored, in the order of the plan.
Depth[t \in Task] ==
    IF DependsOn[t] = {} THEN 0 ELSE 1 + Max({Depth[d] : d \in DependsOn[t]})
RestoreOrder(done) ==
    SetToSortSeq(done, LAMBDA t, u :
        Depth[t] < Depth[u] \/ (Depth[t] = Depth[u] /\ t < u))
RestoreMismatch ==
    LET order == RestoreOrder(saved)
    IN  \E i \in DOMAIN order : Mismatch(order[i], {order[j] : j \in 1 .. i - 1})

\* The variables of execute_plan; a commit keeps the base it was made on.
Locals(kept) ==
    /\ harvest' = {} /\ tree' = {} /\ verdict' = {Free} /\ stop' = "none" /\ ended' = "none"
    /\ by_id' = [t \in Lane |-> "queued"] /\ lane' = [t \in Lane |-> "none"]
    /\ tries' = [t \in Lane |-> 0] /\ unpriced' = [t \in Lane |-> FALSE]
    /\ base' = [t \in Lane |-> IF t \in kept THEN base[t] ELSE {}]
    /\ observed' = 0 /\ allowance' = 0 /\ dispatch' = Free
    /\ ceiling' = [t \in Lane |-> 0] /\ price' = [t \in Lane |-> 0]

Init ==
    /\ unknown_cost_policy \in Policies
    /\ pc = "queued" /\ harvest = {} /\ tree = {} /\ verdict = {Free}
    /\ stop = "none" /\ ended = "none"
    /\ by_id = [t \in Lane |-> "queued"] /\ lane = [t \in Lane |-> "none"]
    /\ tries = [t \in Lane |-> 0] /\ base = [t \in Lane |-> {}]
    /\ unpriced = [t \in Lane |-> FALSE]
    /\ observed = 0 /\ unknown = FALSE /\ allowance = 0
    /\ ceiling = [t \in Lane |-> 0] /\ price = [t \in Lane |-> 0]
    /\ dispatch = Free /\ ledger = 0 /\ spent = 0
    /\ cancel = "no" /\ saved = {} /\ site = FALSE
    /\ count = [rounds |-> 1, crashes |-> 0, faults |-> 0]
-----------------------------------------------------------------------------
(* A round begins: the budget left is read from the ledger, and the work   *)
(* saved by an earlier round is put on a new integration branch.           *)

\* The round is over without a delivery.  Its exception carries artifacts or
\* does not; a run the user has cancelled is left as it is.
PauseWith(verified, carries) ==
    /\ pc' = IF cancel = "user" THEN "cancelled" ELSE "paused"
    /\ IF carries /\ cancel # "user"
       THEN saved' = verified /\ site' = TRUE
       ELSE UNCHANGED durable
    /\ Locals(saved')

Exhausted == Limit > 0 /\ ledger >= Limit

BudgetGone ==
    /\ pc = "queued" /\ Exhausted
    /\ PauseWith({}, FALSE)
    /\ UNCHANGED <<unknown, ledger, spent, cancel, count>>

\* A plausible mistake: restored tasks are listed as not done.
RestoredAsQueued(t) == "queued"
Restored(t)         == IF t \in saved THEN "verified" ELSE "queued"

Begin ==
    /\ pc = "queued" /\ ~Exhausted
    /\ pc' = "top" /\ tree' = saved
    /\ by_id' = [t \in Lane |-> Restored(t)]
    /\ unknown' = FALSE
    /\ allowance' = IF Limit > 0 THEN Limit - ledger ELSE 0
    /\ UNCHANGED <<harvest, verdict, stop, ended, lane, tries, base, unpriced, observed,
                   ceiling, dispatch, ledger, spent, price, durable, cancel, count>>

\* A saved commit does not apply: the error carries no artifacts.
RestoreConflict ==
    /\ pc = "queued" /\ ~Exhausted /\ RestoreMismatch
    /\ PauseWith({}, FALSE)
    /\ UNCHANGED <<unknown, ledger, spent, cancel, count>>

\* The deadline passes while commits are replayed, or the base branch has
\* moved since the run was queued.  The artifacts of that error still hold the
\* list of tasks made before anything was restored.
RestoreFails ==
    /\ pc = "queued" /\ ~Exhausted /\ site
    /\ count.faults < MaxRestoreFaults
    /\ count' = [count EXCEPT !.faults = @ + 1]
    /\ PauseWith({}, TRUE)
    /\ UNCHANGED <<unknown, ledger, spent, cancel>>
-----------------------------------------------------------------------------
(* The scheduler loop.                                                     *)

\* Leaving the loop: the futures still there are told to stop.
Leave(why) ==
    /\ pc' = "drain"
    /\ ended' = why
    /\ cancel' = IF cancel = "no" /\ Active # {} THEN "self" ELSE cancel

LoopEnds ==
    /\ pc = "top" /\ finished = Task
    /\ Leave(ended)
    /\ UNCHANGED <<harvest, tree, verdict, stop, work, money, durable, count>>

LoopCancelled ==
    /\ pc = "top" /\ finished # Task /\ cancel # "no"
    /\ Leave("cancelled")
    /\ UNCHANGED <<harvest, tree, verdict, stop, work, money, durable, count>>

LoopGoesOn ==
    /\ pc = "top" /\ finished # Task /\ cancel = "no"
    /\ pc' = "start"
    /\ stop' = StopKind(stop, observed, unknown)
    /\ UNCHANGED <<harvest, tree, verdict, ended, work, money, durable, cancel, count>>

Start ==
    /\ pc = "start" /\ Cardinality(Active) < MaxParallel
    /\ \E t \in Task :
         /\ First(t, Startable)
         /\ by_id' = [by_id EXCEPT ![t] = "running"]
         /\ lane' = [lane EXCEPT ![t] = "gate"]
         /\ tries' = [tries EXCEPT ![t] = 1]
         /\ base' = [base EXCEPT ![t] = tree]
    /\ UNCHANGED <<sched, unpriced, money, durable, cancel, count>>

StartsDone ==
    /\ pc = "start"
    /\ Startable = {} \/ Cardinality(Active) >= MaxParallel
    /\ IF Active = {}
       THEN Leave(ended)
       ELSE pc' = "wait" /\ UNCHANGED <<ended, cancel>>
    /\ UNCHANGED <<harvest, tree, verdict, stop, work, money, durable, count>>

\* wait returns the futures that are done, or none after a quarter of a second.
Wait ==
    /\ pc = "wait"
    /\ harvest' = Done
    /\ pc' = IF Done = {} THEN "top" ELSE "harvest"
    /\ UNCHANGED <<tree, verdict, stop, ended, work, money, durable, cancel, count>>

\* The next result, in the order of the plan.  A verified one is put on the
\* integration branch; one that is not ends the round when nothing else runs.
Harvest ==
    /\ pc = "harvest"
    /\ \E t \in Task :
         /\ First(t, harvest)
         /\ lane[t] \in Outcome
         /\ lane[t] = "verified" => ~Mismatch(t, tree)
         /\ by_id' = [by_id EXCEPT ![t] = lane[t]]
         /\ tree' = IF lane[t] = "verified" THEN tree \cup {t} ELSE tree
         /\ ended' = IF lane[t] = "verified" \/ ended = "cancelled"
                     THEN ended ELSE lane[t]
         /\ stop' = StopKind(
              IF unpriced[t] /\ unknown_cost_policy = "stop" /\ stop # "budget"
              THEN "unknown_cost" ELSE stop, observed, unknown)
         /\ lane' = [lane EXCEPT ![t] = "none"] /\ tries' = [tries EXCEPT ![t] = 0]
         /\ harvest' = harvest \ {t}
         /\ pc' = IF harvest = {t} THEN "top" ELSE "harvest"
    /\ UNCHANGED <<verdict, base, unpriced, money, durable, cancel, count>>

\* The commit does not apply, or the future raised: the loop ends.
HarvestRaises ==
    /\ pc = "harvest"
    /\ \E t \in Task :
         /\ First(t, harvest)
         /\ lane[t] = "raised" \/ (lane[t] = "verified" /\ Mismatch(t, tree))
         /\ by_id' = [by_id EXCEPT ![t] = IF lane[t] = "raised" THEN @ ELSE lane[t]]
         /\ lane' = [lane EXCEPT ![t] = "none"]
         /\ ended' = "raised"
         /\ cancel' = IF cancel = "no" /\ Active # {t} THEN "self" ELSE cancel
    /\ pc' = "drain" /\ harvest' = {}
    /\ UNCHANGED <<tree, verdict, stop, tries, base, unpriced, money, durable, count>>

\* The deadline of the round passes: that sets the event, and the error carries
\* the artifacts.  Git or the event store fails: that does not.
SchedulerRaises ==
    /\ pc \in {"top", "start", "wait"}
    /\ \/ Leave("bare")
       \/ /\ pc' = "drain" /\ ended' = "raised"
          /\ cancel' = IF cancel = "no" THEN "self" ELSE cancel
    /\ UNCHANGED <<harvest, tree, verdict, stop, work, money, durable, count>>
-----------------------------------------------------------------------------
(* The thread of a task.                                                   *)

\* The last attempt has come out as outcome; another one is made when it may
\* help and the round still allows it.
\* A plausible mistake: the first attempt is not counted.
AttemptLimitOffByOne(t) == MaxAttempts + 1
AttemptLimit(t)         == IF t = Repair THEN 1 ELSE MaxAttempts
Retries(t, retryable, known, open) ==
    /\ retryable /\ tries[t] < AttemptLimit(t)
    /\ cancel = "no" /\ ~Blocked(known, open)
Finish(t, outcome, retryable, known, open) ==
    IF Retries(t, retryable, known, open)
    THEN /\ lane' = [lane EXCEPT ![t] = "gate"]
         /\ tries' = [tries EXCEPT ![t] = @ + 1]
    ELSE /\ lane' = [lane EXCEPT ![t] = outcome]
         /\ UNCHANGED tries

\* A plausible mistake: only the gate is synchronised, not the call.
LockIgnored == TRUE
LockFree    == Limit > 0 => dispatch = Free

\* No call is made: a check cannot be launched, the preflight refuses, or the
\* gate finds the budget or the cost policy in the way.  The attempt is a
\* failed one without a cost.
NotDispatched(t) ==
    /\ lane[t] = "gate" /\ LockFree
    /\ \E retryable \in IF Blocked(observed, unknown) THEN {FALSE} ELSE BOOLEAN :
         Finish(t, "failed", retryable, observed, unknown)
    /\ unpriced' = [unpriced EXCEPT ![t] = TRUE]
    /\ UNCHANGED <<sched, by_id, base, money, durable, cancel, count>>

\* With a budget the gate, the ceiling, the call and its usage record are one
\* critical section.  What the call will cost, within its ceiling, is settled
\* when it is made.
Ceiling == IF Limit > 0 THEN allowance - observed ELSE MaxCost
Dispatch(t) ==
    /\ lane[t] = "gate" /\ LockFree /\ ~Blocked(observed, unknown)
    /\ dispatch' = IF Limit > 0 THEN t ELSE dispatch
    /\ ceiling' = [ceiling EXCEPT ![t] = Ceiling]
    /\ \E cost \in 0 .. Ceiling :
         spent' = spent + cost /\ price' = [price EXCEPT ![t] = cost]
    /\ lane' = [lane EXCEPT ![t] = "call"]
    /\ UNCHANGED <<sched, by_id, tries, base, unpriced, observed, unknown, allowance,
                   ledger, durable, cancel, count>>

\* What the ledger holds for a call without a cost and without a ceiling.
Hold == Limit

\* The call returns or fails, with or without a cost; its usage is recorded
\* before the lock is given up.
CallEnds(t) ==
    /\ lane[t] = "call"
    /\ \E priced \in BOOLEAN :
         LET known == IF priced THEN observed + price[t] ELSE observed
             open  == unknown \/ ~priced
         IN  /\ ledger' = ledger + IF priced THEN price[t] ELSE Hold
             /\ observed' = known /\ unknown' = open
             /\ unpriced' = [unpriced EXCEPT ![t] = @ \/ ~priced]
             /\ \/ /\ lane' = [lane EXCEPT ![t] =
                                 IF cancel = "no" THEN "checks" ELSE "cancelled"]
                   /\ UNCHANGED tries
                \/ \E retryable \in BOOLEAN : Finish(t, "failed", retryable, known, open)
    /\ dispatch' = Free
    /\ ceiling' = [ceiling EXCEPT ![t] = 0] /\ price' = [price EXCEPT ![t] = 0]
    /\ UNCHANGED <<sched, by_id, base, allowance, spent, durable, cancel, count>>

\* The guards on the change and the task's own checks, then the commit.
ChecksEnd(t) ==
    /\ lane[t] = "checks"
    /\ \/ lane' = [lane EXCEPT ![t] = "verified"] /\ UNCHANGED tries
       \/ \E retryable \in BOOLEAN : Finish(t, "failed", retryable, observed, unknown)
       \/ cancel # "no" /\ lane' = [lane EXCEPT ![t] = "cancelled"] /\ UNCHANGED tries
    /\ UNCHANGED <<sched, by_id, base, unpriced, money, durable, cancel, count>>

\* The deadline passes between two attempts, or an event cannot be stored.
ThreadRaises(t) ==
    /\ lane[t] \in {"gate", "checks"} /\ pc # "repair"
    /\ lane' = [lane EXCEPT ![t] = "raised"]
    /\ UNCHANGED <<sched, by_id, tries, base, unpriced, money, durable, cancel, count>>
-----------------------------------------------------------------------------
(* After the loop.                                                         *)

\* The pool has shut down: what the remaining futures brought is kept as
\* evidence but not integrated.  Then the round either goes on to the final
\* checks or pauses.
Kept(t) ==
    IF t \in Active THEN IF lane[t] \in Outcome THEN lane[t] ELSE "cancelled" ELSE by_id[t]
Left == {t \in Task : Kept(t) \notin Outcome}

Drain ==
    /\ pc = "drain" /\ Active = Done
    /\ IF ended # "none" \/ (Left # {} /\ stop = "none")
       THEN PauseWith({t \in Task : Kept(t) = "verified"}, ended # "bare")
       ELSE /\ pc' = "verify"
            /\ by_id' = [t \in Lane |-> IF t \in Left THEN "blocked" ELSE by_id[t]]
            /\ UNCHANGED <<harvest, tree, verdict, stop, ended, lane, tries, base, unpriced,
                           observed, allowance, ceiling, dispatch, price, durable>>
    /\ UNCHANGED <<unknown, ledger, spent, cancel, count>>

\* A plausible mistake: what was restored is not listed again.
VerifiedThisRound == {t \in Task \ saved : by_id[t] = "verified"}
Verified          == {t \in Task : by_id[t] = "verified"}

Incomplete == \E t \in Task : by_id[t] = "blocked"

\* The final checks pass on the tree as it is.
FinalPass ==
    /\ pc = "verify" /\ ~Incomplete
    /\ verdict' = tree
    /\ pc' = IF cancel = "user" THEN "cancelled"
             ELSE IF AutoPublish THEN "published" ELSE "delivered"
    /\ UNCHANGED <<harvest, tree, stop, ended, work, money, durable, cancel, count>>

\* They fail, are cancelled, or run out of time, which sets the event; or tasks
\* were left undone for the budget, and that is no delivery either way.
FinalFail ==
    /\ pc = "verify"
    /\ PauseWith(Verified, TRUE)
    /\ cancel' \in {cancel, IF cancel = "no" THEN "self" ELSE cancel}
    /\ UNCHANGED <<unknown, ledger, spent, count>>

\* They fail, and one repair of the integrated tree is dispatched.
StartRepair ==
    /\ pc = "verify" /\ MaxAttempts > 1 /\ Repair \notin tree
    /\ ~Blocked(observed, unknown)
    /\ pc' = "repair"
    /\ by_id' = [by_id EXCEPT ![Repair] = "running"]
    /\ lane' = [lane EXCEPT ![Repair] = "gate"]
    /\ tries' = [tries EXCEPT ![Repair] = 1]
    /\ base' = [base EXCEPT ![Repair] = tree]
    /\ UNCHANGED <<harvest, tree, verdict, stop, ended, unpriced, money, durable, cancel, count>>

RepairEnds ==
    /\ pc = "repair" /\ lane[Repair] \in Outcome
    /\ IF lane[Repair] = "verified"
       THEN /\ pc' = "verify" /\ tree' = tree \cup {Repair}
            /\ by_id' = [by_id EXCEPT ![Repair] = "verified"]
            /\ lane' = [lane EXCEPT ![Repair] = "none"]
            /\ UNCHANGED <<harvest, verdict, stop, ended, tries, base, unpriced, observed,
                           allowance, ceiling, dispatch, price, durable>>
       ELSE PauseWith(Verified, TRUE)
    /\ UNCHANGED <<unknown, ledger, spent, cancel, count>>
-----------------------------------------------------------------------------
(* The user and the service.                                               *)

Cancel ==
    /\ pc \notin Rest /\ cancel # "user"
    /\ cancel' = "user"
    /\ pc' = IF pc = "queued" THEN "cancelled" ELSE pc
    /\ UNCHANGED <<harvest, tree, verdict, stop, ended, work, money, durable, count>>

\* A paused run is continued from the execution site in its artifacts, unless
\* the cancellation event of its last round is set.
Resume ==
    /\ pc = "paused" /\ site /\ cancel = "no" /\ count.rounds < MaxRounds
    /\ pc' = "queued"
    /\ count' = [count EXCEPT !.rounds = @ + 1]
    /\ UNCHANGED <<harvest, tree, verdict, stop, ended, work, money, durable, cancel>>

\* The service stops and starts again, and no cancellation event is left.  The
\* calls in flight have cost what they have cost, and recovery records a hold
\* for each.  A round is not resumed from its checkpoint: the artifacts are
\* those of the last pause.
InFlight == {t \in Lane : lane[t] = "call"}

Interrupted == Hold * Cardinality(InFlight)
Crash ==
    /\ pc \notin Rest \ {"paused"} /\ count.crashes < MaxCrashes
    /\ count' = [count EXCEPT !.crashes = @ + 1]
    /\ cancel' = IF cancel = "user" THEN "user" ELSE "no"
    /\ \/ pc' = IF cancel = "user" THEN "cancelled" ELSE "paused"
       \/ pc = "queued" /\ pc' = pc
    /\ ledger' = ledger + IF cancel = "user" THEN 0 ELSE Interrupted
    /\ Locals(saved)
    /\ UNCHANGED <<unknown, spent, durable>>
-----------------------------------------------------------------------------
Scheduler ==
    /\ \/ BudgetGone \/ Begin \/ RestoreConflict
       \/ LoopEnds \/ LoopCancelled \/ LoopGoesOn \/ Start \/ StartsDone \/ Wait
       \/ Harvest \/ HarvestRaises
       \/ Drain \/ FinalPass \/ FinalFail \/ StartRepair \/ RepairEnds
    /\ UNCHANGED unknown_cost_policy

Thread(t) ==
    /\ NotDispatched(t) \/ Dispatch(t) \/ CallEnds(t) \/ ChecksEnd(t)
    /\ UNCHANGED unknown_cost_policy

Mishap ==
    /\ RestoreFails \/ SchedulerRaises \/ (\E t \in Task : ThreadRaises(t)) \/ Crash
    /\ UNCHANGED unknown_cost_policy

User == (Cancel \/ Resume) /\ UNCHANGED unknown_cost_policy

Next == Scheduler \/ Mishap \/ User \/ \E t \in Lane : Thread(t)

Spec == Init /\ [][Next]_vars

\* The scheduler and the threads of the pool run, a model call and a check end
\* within their timeouts; nobody has to cancel, resume or restart anything.
FairSpec ==
    /\ Spec
    /\ WF_vars(Scheduler)
    /\ \A t \in Lane : WF_vars(Thread(t))
=============================================================================
