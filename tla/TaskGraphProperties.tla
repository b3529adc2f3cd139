------------------------- MODULE TaskGraphProperties -------------------------
(***************************************************************************)
(* What the execution of a task graph promises.                            *)
(***************************************************************************)
EXTENDS TaskGraph

TypeOK ==
    /\ unknown_cost_policy \in Policies
    /\ pc \in {"queued", "top", "start", "wait", "harvest", "drain", "verify", "repair"} \cup Rest
    /\ harvest \subseteq Task /\ saved \subseteq Task
    /\ tree \subseteq Lane /\ verdict \subseteq Lane \cup {Free}
    /\ stop \in {"none", "budget", "unknown_cost"}
    /\ ended \in {"none", "failed", "cancelled", "raised", "bare"}
    /\ by_id \in [Lane -> {"queued", "running", "blocked"} \cup Outcome]
    /\ lane \in [Lane -> {"none", "gate", "call", "checks", "raised"} \cup Outcome]
    /\ tries \in [Lane -> 0 .. MaxAttempts] /\ base \in [Lane -> SUBSET Lane]
    /\ unpriced \in [Lane -> BOOLEAN] /\ {unknown, site} \subseteq BOOLEAN
    /\ {observed, allowance, ledger, spent} \subseteq Nat
    /\ ceiling \in [Lane -> Nat] /\ price \in [Lane -> Nat]
    /\ dispatch \in Lane \cup {Free} /\ cancel \in {"no", "user", "self"}
    /\ count \in [rounds : Nat, crashes : Nat, faults : Nat]

\* A finite budget is a shared allowance: whatever the tasks, their retries, a
\* repair, a continuation or a restart pay for, the calls cost no more than the
\* budget, unless the policy lets work go on after a call without a price.
\* (remaining_call_budget and provider_dispatch_lock, execution.py:822-825)
SpendWithinBudget ==
    Limit > 0 /\ (unknown_cost_policy = "stop" \/ ~unknown) => spent <= Limit

\* A task starts from a tree that holds the work it depends on, and the
\* integration branch never holds work without what that builds on.
BuiltOnDependencies ==
    /\ \A t \in Active : DependsOn[t] \subseteq base[t]
    /\ \A t \in tree \cap Task : DependsOn[t] \subseteq tree

\* In whatever order tasks end, a verified commit applies: the integration
\* branch did not gain work on the same paths since the task's worktree was
\* made from it.
CleanIntegration == \A t \in Active : ~Mismatch(t, tree)

\* Verified work in the artifacts of a run stays there and is not paid for
\* again: no later pause, failure or restart forgets it, and no later round
\* starts its task.  ("preserving ... saved task evidence",
\* docs/rewrite/WORKBENCH-CONTRACT.md:49)
SavedWorkKept ==
    [][/\ saved \subseteq saved'
       /\ \A t \in saved : lane'[t] = "call" => lane[t] = "call"]_vars

Phase == CASE pc \in {"queued", "paused"} -> "waiting"
           [] pc \in {"delivered", "published"} -> "delivered"
           [] pc = "cancelled" -> "withdrawn"
           [] OTHER -> "building"

\* The graph execution implements PlanDelivery: the threads, their order and
\* their failures are not visible in what is built, kept and delivered.  In
\* particular the verified tasks in saved artifacts always form a plan that can
\* be restored.  ("paused verified task dependencies are incomplete",
\* execution.py:810, never arises)
Delivery == INSTANCE PlanDelivery WITH
    Needs <- DependsOn, phase <- Phase, built <- tree \cap Task, kept <- saved
ImplementsDelivery == Delivery!Spec

\* An automatic publication never follows a round with a call whose cost is
\* unknown.  ("Automatic publication remains blocked for incomplete billing",
\* docs/rewrite/WORKBENCH-CONTRACT.md:49)
BillingBlocksPublication ==
    pc = "published" => ~unknown

\* A run that waits for a person with its execution site can be continued: the
\* comment on _resume_preconditions, run_lifecycle.py:258, lets a continuation
\* adopt a longer deadline than the one that passed.
PausedCanContinue ==
    pc = "paused" /\ site => cancel = "no"

\* Every round ends: the run is delivered, cancelled, or waits for a person.
RoundEnds == pc = "queued" ~> pc \in Rest
=============================================================================
