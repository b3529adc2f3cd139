--------------------------- MODULE TaskGraphProofs ---------------------------
(***************************************************************************)
(* For every plan, number of threads, budget, and number of rounds, crashes *)
(* and faults: what TaskGraphProperties states of the execution of a task   *)
(* graph, and that it implements PlanDelivery.                              *)
(***************************************************************************)
EXTENDS TaskGraphProperties, FiniteSetTheorems, TLAPS

\* The numbers that stand for tasks, the repair and nobody are different, and
\* the constants are of their kind.
LEMMA Kinds ==
    /\ Task \subseteq Lane /\ Repair \in Lane \ Task /\ Free \notin Lane
    /\ Task \subseteq Nat /\ \A t \in Lane : t # Free /\ (t \in Task \/ t = Repair)
    /\ Limit \in Nat /\ MaxCost \in Nat /\ MaxAttempts \in 1 .. 3
    /\ DependsOn \in [Task -> SUBSET Task]
  BY TaskGraphAssumption DEF TaskGraphAssumption, Task, Lane, Repair, Free

\* What recovery holds for the calls cut off is an amount, and at least the
\* whole budget when there is one.
LEMMA InterruptedNat ==
    Interrupted \in Nat /\ (InFlight # {} => Interrupted >= Limit)
<1>1. IsFiniteSet(Lane)
  <2>1. IsFiniteSet(Task)
    BY FS_Interval, TaskGraphAssumption DEF Task, TaskGraphAssumption
  <2> QED BY <2>1, FS_AddElement DEF Lane
<1>2. IsFiniteSet(InFlight)
  BY <1>1, FS_Subset DEF InFlight
<1>3. Cardinality(InFlight) \in Nat /\ (InFlight # {} => Cardinality(InFlight) # 0)
  BY <1>2, FS_CardinalityType, FS_EmptySet
<1>4. ASSUME NEW n \in Nat, n # 0 PROVE Limit * n \in Nat /\ Limit * n >= Limit
  BY <1>4, Kinds
<1> QED BY <1>3, <1>4, Kinds DEF Interrupted, Hold

\* What ends an attempt keeps the kinds of the lanes and of the attempts.
LEMMA FinishType ==
  ASSUME TypeOK, NEW t \in Lane, NEW o \in Outcome, NEW r, NEW k, NEW open,
         Finish(t, o, r, k, open)
  PROVE  /\ lane' \in [Lane -> {"none", "gate", "call", "checks", "raised"} \cup Outcome]
         /\ tries' \in [Lane -> 0 .. MaxAttempts]
<1> USE Kinds
<1>1. AttemptLimit(t) <= MaxAttempts
  BY DEF AttemptLimit
<1>2. CASE Retries(t, r, k, open)
  <2>1. tries[t] < MaxAttempts
    BY <1>1, <1>2 DEF Retries, TypeOK, AttemptLimit
  <2> QED BY <1>2, <2>1 DEF Finish, TypeOK, Outcome
<1>3. CASE ~Retries(t, r, k, open)
  BY <1>3 DEF Finish, TypeOK, Outcome
<1> QED BY <1>2, <1>3

LEMMA LocalsType ==
  ASSUME TypeOK, NEW S, Locals(S)
  PROVE  /\ harvest' \subseteq Task /\ tree' \subseteq Lane /\ verdict' \subseteq Lane \cup {Free}
         /\ stop' = "none" /\ ended' = "none"
         /\ by_id' \in [Lane -> {"queued", "running", "blocked"} \cup Outcome]
         /\ lane' \in [Lane -> {"none", "gate", "call", "checks", "raised"} \cup Outcome]
         /\ tries' \in [Lane -> 0 .. MaxAttempts] /\ base' \in [Lane -> SUBSET Lane]
         /\ unpriced' \in [Lane -> BOOLEAN]
         /\ {observed', allowance'} \subseteq Nat
         /\ ceiling' \in [Lane -> Nat] /\ price' \in [Lane -> Nat]
         /\ dispatch' \in Lane \cup {Free}
  BY Kinds DEF TypeOK, Locals, Outcome

LEMMA PauseType ==
  ASSUME TypeOK, NEW S \in SUBSET Task, NEW b \in BOOLEAN, PauseWith(S, b),
         ledger' \in Nat, spent' \in Nat, unknown' \in BOOLEAN,
         cancel' \in {"no", "user", "self"},
         count' \in [rounds : Nat, crashes : Nat, faults : Nat],
         UNCHANGED unknown_cost_policy
  PROVE  TypeOK'
<1>1. Locals(saved') BY DEF PauseWith
<1>2. saved' \subseteq Task /\ {unknown', site'} \subseteq BOOLEAN
  BY DEF PauseWith, TypeOK, durable
<1>3. pc' \in Rest
  BY DEF PauseWith, Rest
<1> QED BY <1>1, <1>2, <1>3, LocalsType DEF TypeOK

-----------------------------------------------------------------------------
LEMMA TypeInit ==
  ASSUME Init PROVE TypeOK
<1> USE Kinds DEF Init
<1>1. /\ by_id \in [Lane -> {"queued", "running", "blocked"} \cup Outcome]
      /\ lane \in [Lane -> {"none", "gate", "call", "checks", "raised"} \cup Outcome]
      /\ tries \in [Lane -> 0 .. MaxAttempts] /\ base \in [Lane -> SUBSET Lane]
      /\ unpriced \in [Lane -> BOOLEAN]
      /\ ceiling \in [Lane -> Nat] /\ price \in [Lane -> Nat]
  OBVIOUS
<1>2. count \in [rounds : Nat, crashes : Nat, faults : Nat]
  OBVIOUS
<1> QED BY <1>1, <1>2 DEF TypeOK

LEMMA TypeStep ==
  ASSUME TypeOK, [Next]_vars PROVE TypeOK'
<1> USE Kinds
<1>1. CASE UNCHANGED vars
  BY <1>1 DEF TypeOK, vars, sched, work, money, durable
<1>2. CASE BudgetGone /\ UNCHANGED unknown_cost_policy
  BY <1>2, PauseType DEF BudgetGone, TypeOK
<1>3. CASE Begin /\ UNCHANGED unknown_cost_policy
  <2>1. allowance' \in Nat
    BY <1>3 DEF Begin, Exhausted, TypeOK
  <2>2. by_id' \in [Lane -> {"queued", "running", "blocked"} \cup Outcome]
    BY <1>3 DEF Begin, Restored, Outcome
  <2>3. tree' \subseteq Lane
    BY <1>3 DEF Begin, TypeOK
  <2> QED BY <1>3, <2>1, <2>2, <2>3 DEF Begin, TypeOK, durable
<1>4. CASE RestoreConflict /\ UNCHANGED unknown_cost_policy
  BY <1>4, PauseType DEF RestoreConflict, TypeOK
<1>5. CASE RestoreFails /\ UNCHANGED unknown_cost_policy
  <2>1. count' \in [rounds : Nat, crashes : Nat, faults : Nat]
    BY <1>5 DEF RestoreFails, TypeOK
  <2> QED BY <1>5, <2>1, PauseType DEF RestoreFails, TypeOK
<1>6. CASE (LoopEnds \/ LoopCancelled) /\ UNCHANGED unknown_cost_policy
  BY <1>6 DEF LoopEnds, LoopCancelled, Leave, TypeOK, work, money, durable
<1>7. CASE LoopGoesOn /\ UNCHANGED unknown_cost_policy
  BY <1>7 DEF LoopGoesOn, StopKind, TypeOK, work, money, durable
<1>8. CASE Start /\ UNCHANGED unknown_cost_policy
  <2>1. by_id' \in [Lane -> {"queued", "running", "blocked"} \cup Outcome]
    BY <1>8 DEF Start, TypeOK, Outcome
  <2>2. lane' \in [Lane -> {"none", "gate", "call", "checks", "raised"} \cup Outcome]
    BY <1>8 DEF Start, TypeOK
  <2>3. tries' \in [Lane -> 0 .. MaxAttempts]
    BY <1>8 DEF Start, TypeOK
  <2>4. base' \in [Lane -> SUBSET Lane]
    BY <1>8 DEF Start, TypeOK
  <2> QED BY <1>8, <2>1, <2>2, <2>3, <2>4 DEF Start, TypeOK, sched, money, durable
<1>9. CASE StartsDone /\ UNCHANGED unknown_cost_policy
  BY <1>9 DEF StartsDone, Leave, TypeOK, work, money, durable
<1>10. CASE Wait /\ UNCHANGED unknown_cost_policy
  BY <1>10 DEF Wait, Done, Active, TypeOK, work, money, durable
<1>11. CASE Harvest /\ UNCHANGED unknown_cost_policy
  <2>1. by_id' \in [Lane -> {"queued", "running", "blocked"} \cup Outcome]
    BY <1>11 DEF Harvest, TypeOK, Outcome
  <2>2. lane' \in [Lane -> {"none", "gate", "call", "checks", "raised"} \cup Outcome]
    BY <1>11 DEF Harvest, TypeOK
  <2>3. tries' \in [Lane -> 0 .. MaxAttempts]
    BY <1>11 DEF Harvest, TypeOK
  <2>4. harvest' \subseteq Task /\ tree' \subseteq Lane /\ pc' \in {"top", "harvest"}
    BY <1>11 DEF Harvest, TypeOK
  <2>5. stop' \in {"none", "budget", "unknown_cost"}
    BY <1>11 DEF Harvest, StopKind, TypeOK
  <2>6. ended' \in {"none", "failed", "cancelled", "raised", "bare"}
    BY <1>11 DEF Harvest, TypeOK, Outcome
  <2>7. UNCHANGED <<verdict, base, unpriced, money, durable, cancel, count>>
    BY <1>11 DEF Harvest
  <2> QED BY <1>11, <2>1, <2>2, <2>3, <2>4, <2>5, <2>6, <2>7 DEF TypeOK, money, durable
<1>12. CASE HarvestRaises /\ UNCHANGED unknown_cost_policy
  <2>1. by_id' \in [Lane -> {"queued", "running", "blocked"} \cup Outcome]
    BY <1>12 DEF HarvestRaises, TypeOK, Outcome
  <2>2. lane' \in [Lane -> {"none", "gate", "call", "checks", "raised"} \cup Outcome]
    BY <1>12 DEF HarvestRaises, TypeOK
  <2> QED BY <1>12, <2>1, <2>2 DEF HarvestRaises, TypeOK, money, durable
<1>13. CASE SchedulerRaises /\ UNCHANGED unknown_cost_policy
  BY <1>13 DEF SchedulerRaises, Leave, TypeOK, work, money, durable
<1>14. CASE Drain /\ UNCHANGED unknown_cost_policy
  <2>1. CASE ended # "none" \/ (Left # {} /\ stop = "none")
    BY <1>14, <2>1, PauseType DEF Drain, TypeOK
  <2>2. CASE ~(ended # "none" \/ (Left # {} /\ stop = "none"))
    BY <1>14, <2>2 DEF Drain, TypeOK, durable
  <2> QED BY <2>1, <2>2
<1>15. CASE FinalPass /\ UNCHANGED unknown_cost_policy
  BY <1>15 DEF FinalPass, TypeOK, Rest, work, money, durable
<1>16. CASE FinalFail /\ UNCHANGED unknown_cost_policy
  BY <1>16, PauseType DEF FinalFail, Verified, TypeOK
<1>17. CASE StartRepair /\ UNCHANGED unknown_cost_policy
  <2>1. by_id' \in [Lane -> {"queued", "running", "blocked"} \cup Outcome]
    BY <1>17 DEF StartRepair, TypeOK, Outcome
  <2>2. lane' \in [Lane -> {"none", "gate", "call", "checks", "raised"} \cup Outcome]
    BY <1>17 DEF StartRepair, TypeOK
  <2>3. tries' \in [Lane -> 0 .. MaxAttempts]
    BY <1>17 DEF StartRepair, TypeOK
  <2>4. base' \in [Lane -> SUBSET Lane]
    BY <1>17 DEF StartRepair, TypeOK
  <2> QED BY <1>17, <2>1, <2>2, <2>3, <2>4 DEF StartRepair, TypeOK, money, durable
<1>18. CASE RepairEnds /\ UNCHANGED unknown_cost_policy
  <2>1. CASE lane[Repair] = "verified"
    <3>1. by_id' \in [Lane -> {"queued", "running", "blocked"} \cup Outcome]
      BY <1>18, <2>1 DEF RepairEnds, TypeOK, Outcome
    <3>2. lane' \in [Lane -> {"none", "gate", "call", "checks", "raised"} \cup Outcome]
      BY <1>18, <2>1 DEF RepairEnds, TypeOK
    <3>3. tree' = tree \cup {Repair} /\ pc' = "verify"
      BY <1>18, <2>1 DEF RepairEnds
    <3>4. tree' \subseteq Lane
      BY <3>3 DEF TypeOK
    <3>5. UNCHANGED <<harvest, verdict, stop, ended, tries, base, unpriced, observed, allowance,
                      ceiling, dispatch, price, saved, site, unknown, ledger, spent, cancel, count>>
      BY <1>18, <2>1 DEF RepairEnds, durable
    <3> QED BY <1>18, <3>1, <3>2, <3>3, <3>4, <3>5 DEF TypeOK
  <2>2. CASE lane[Repair] # "verified"
    BY <1>18, <2>2, PauseType DEF RepairEnds, Verified, TypeOK
  <2> QED BY <2>1, <2>2
<1>19. CASE (Cancel \/ Resume) /\ UNCHANGED unknown_cost_policy
  BY <1>19 DEF Cancel, Resume, TypeOK, Rest, work, money, durable
<1>20. CASE Crash /\ UNCHANGED unknown_cost_policy
  <2>1. count' \in [rounds : Nat, crashes : Nat, faults : Nat]
    BY <1>20 DEF Crash, TypeOK
  <2>2. ledger' \in Nat
    BY <1>20, InterruptedNat DEF Crash, TypeOK
  <2>3. /\ pc' \in {"queued", "paused", "cancelled"} /\ cancel' \in {"no", "user", "self"}
        /\ Locals(saved) /\ UNCHANGED <<unknown, spent, saved, site, unknown_cost_policy>>
    BY <1>20 DEF Crash, TypeOK, durable
  <2>4. saved \subseteq Task
    BY DEF TypeOK
  <2> HIDE DEF Locals
  <2> QED BY <2>1, <2>2, <2>3, <2>4, LocalsType DEF TypeOK, Rest
<1>21. ASSUME NEW t \in Lane, NotDispatched(t), UNCHANGED unknown_cost_policy
       PROVE  TypeOK'
  BY <1>21, FinishType DEF NotDispatched, TypeOK, Outcome, sched, money, durable
<1>22. ASSUME NEW t \in Lane, Dispatch(t), UNCHANGED unknown_cost_policy
       PROVE  TypeOK'
  BY <1>22 DEF Dispatch, Ceiling, Blocked, TypeOK, Outcome, sched, durable
<1>23. ASSUME NEW t \in Lane, CallEnds(t), UNCHANGED unknown_cost_policy
       PROVE  TypeOK'
  BY <1>23, FinishType DEF CallEnds, Hold, TypeOK, Outcome, sched, durable
<1>24. ASSUME NEW t \in Lane, ChecksEnd(t), UNCHANGED unknown_cost_policy
       PROVE  TypeOK'
  BY <1>24, FinishType DEF ChecksEnd, TypeOK, Outcome, sched, money, durable
<1>25. ASSUME NEW t \in Task, ThreadRaises(t), UNCHANGED unknown_cost_policy
       PROVE  TypeOK'
  BY <1>25 DEF ThreadRaises, TypeOK, Outcome, sched, money, durable
<1> QED
  BY <1>1, <1>2, <1>3, <1>4, <1>5, <1>6, <1>7, <1>8, <1>9, <1>10, <1>11, <1>12, <1>13,
     <1>14, <1>15, <1>16, <1>17, <1>18, <1>19, <1>20, <1>21, <1>22, <1>23, <1>24, <1>25
     DEF Next, Scheduler, Mishap, User, Thread

\* Every variable has its kind.
THEOREM TypeCorrect == Spec => []TypeOK
<1>1. Init => TypeOK
  BY TypeInit
<1>2. TypeOK /\ [Next]_vars => TypeOK'
  BY TypeStep
<1> QED BY <1>1, <1>2, PTL DEF Spec

-----------------------------------------------------------------------------
(* The invariant.                                                          *)

Scheduling == {"top", "start", "wait", "harvest", "drain"}
InRound    == Scheduling \cup {"verify", "repair"}

\* Threads work only while the scheduler runs its loop or waits for them, on
\* tasks that do not touch the same paths.
Threads ==
    /\ pc \notin Scheduling => Active = {}
    /\ pc # "repair" => lane[Repair] = "none"
    /\ harvest \subseteq Done
    /\ pc = "drain" /\ ended = "none" => Active = {}
    /\ \A t \in Active : by_id[t] = "running"
    /\ \A t, u \in Active : t # u => ~Clash(t, u)

\* What is verified builds on the integration branch, and the branch holds what
\* is saved; while nothing has ended the loop, what is finished is on it.
Branch ==
    /\ \A t \in Active :
         t \notin tree /\ DependsOn[t] \subseteq base[t] /\ base[t] \subseteq tree
    /\ \A t \in tree \cap Task : by_id[t] = "verified"
    /\ \A t \in Task : by_id[t] = "verified" => DependsOn[t] \subseteq tree
    /\ \A t \in saved : DependsOn[t] \subseteq saved
    /\ pc \in InRound => saved \subseteq tree
    /\ pc \in {"queued", "paused"} => tree = {}
    /\ pc \in Scheduling /\ ended = "none" =>
         \A t \in Task : by_id[t] \in {"queued", "running"} \/ t \in tree
    /\ pc \in {"verify", "repair"} =>
         \A t \in Task : by_id[t] = "blocked" \/ t \in tree

-----------------------------------------------------------------------------
(* Frames.                                                                 *)

LEMMA Reset ==
  ASSUME TypeOK, NEW S, Locals(S), pc' \in {"queued", "paused", "cancelled"},
         \A t \in saved' : DependsOn[t] \subseteq saved'
  PROVE  Threads' /\ Branch' /\ CleanIntegration'
<1> USE Kinds
<1>1. /\ \A t \in Lane : lane'[t] = "none" /\ by_id'[t] = "queued"
      /\ harvest' = {} /\ tree' = {}
  BY DEF Locals
<1>2. Active' = {}
  BY <1>1 DEF Active
<1> QED BY <1>1, <1>2 DEF Threads, Branch, CleanIntegration, Done, InRound, Scheduling

\* A pause keeps nothing new, or a set that can be restored.
LEMMA Paused ==
  ASSUME TypeOK, Branch, NEW S, NEW b \in BOOLEAN, PauseWith(S, b),
         \A t \in S : DependsOn[t] \subseteq S
  PROVE  Threads' /\ Branch' /\ CleanIntegration'
<1>1. pc' \in {"queued", "paused", "cancelled"} /\ Locals(saved')
  BY DEF PauseWith
<1>2. saved' \in {S, saved}
  BY DEF PauseWith, durable
<1>3. \A t \in saved' : DependsOn[t] \subseteq saved'
  BY <1>2 DEF Branch
<1> QED BY <1>1, <1>3, Reset

\* A thread goes on, or has something to show.
LEMMA ThreadMoves ==
  ASSUME TypeOK, Threads, Branch, CleanIntegration, NEW t \in Lane,
         lane[t] \in {"gate", "call", "checks"}, lane'[t] # "none",
         \A u \in Lane \ {t} : lane'[u] = lane[u],
         UNCHANGED <<sched, by_id, base, durable>>
  PROVE  Threads' /\ Branch' /\ CleanIntegration'
<1> USE Kinds
<1>1. UNCHANGED <<pc, harvest, tree, ended, by_id, base, saved>>
  BY DEF sched, durable
<1>2. Active' = Active
  BY DEF Active, TypeOK
<1>3. harvest \subseteq Done'
  BY <1>2 DEF Done, Threads, Outcome, TypeOK
<1>4. pc # "repair" => lane'[Repair] = "none"
  BY DEF Threads, TypeOK
<1>5. Threads'
  BY <1>1, <1>2, <1>3, <1>4 DEF Threads, Clash
<1>6. Branch'
  BY <1>1, <1>2 DEF Branch
<1>7. CleanIntegration'
  BY <1>1, <1>2 DEF CleanIntegration, Mismatch
<1> QED BY <1>5, <1>6, <1>7

\* The scheduler goes on and leaves the threads and the branch alone.
LEMMA SchedulerMoves ==
  ASSUME TypeOK, Threads, Branch, CleanIntegration,
         UNCHANGED <<work, tree, saved>>,
         harvest' \subseteq Done,
         pc' \notin Scheduling => Active = {},
         pc' # "repair" => lane[Repair] = "none",
         pc' = "drain" /\ ended' = "none" => Active = {},
         pc' \in InRound => pc \in InRound,
         pc' \in {"queued", "paused"} => tree = {},
         pc' \in Scheduling /\ ended' = "none" => pc \in Scheduling /\ ended = "none",
         pc' \in {"verify", "repair"} => pc \in {"verify", "repair"}
  PROVE  Threads' /\ Branch' /\ CleanIntegration'
<1>1. UNCHANGED <<by_id, lane, base>>
  BY DEF work
<1>2. Active' = Active /\ Done' = Done
  BY <1>1 DEF Active, Done
<1>3. Threads'
  BY <1>1, <1>2 DEF Threads, Clash
<1>4. Branch'
  BY <1>1, <1>2 DEF Branch
<1>5. CleanIntegration'
  BY <1>1, <1>2 DEF CleanIntegration, Mismatch
<1> QED BY <1>3, <1>4, <1>5

-----------------------------------------------------------------------------
(* The actions that change what the frames leave alone.                    *)

LEMMA StepBegin ==
  ASSUME TypeOK, Threads, Branch, Begin
  PROVE  Threads' /\ Branch' /\ CleanIntegration'
<1> USE Kinds
<1>1. /\ pc = "queued" /\ pc' = "top" /\ tree' = saved /\ lane' = lane /\ harvest' = harvest
      /\ saved' = saved
      /\ \A t \in Task : by_id'[t] = Restored(t)
  BY DEF Begin, durable
<1>2. Active = {} /\ Active' = {} /\ Done' = {} /\ harvest = {}
  BY <1>1 DEF Threads, Active, Done, Scheduling
<1>3. Threads'
  BY <1>1, <1>2 DEF Threads, Scheduling
<1>4. Branch'
  BY <1>1, <1>2 DEF Branch, Restored, Scheduling, InRound, TypeOK
<1> QED BY <1>2, <1>3, <1>4 DEF CleanIntegration

LEMMA StepStart ==
  ASSUME TypeOK, Threads, Branch, CleanIntegration, Start
  PROVE  Threads' /\ Branch' /\ CleanIntegration'
<1> USE Kinds
<1> PICK t \in Task :
      /\ First(t, Startable)
      /\ by_id' = [by_id EXCEPT ![t] = "running"]
      /\ lane' = [lane EXCEPT ![t] = "gate"]
      /\ base' = [base EXCEPT ![t] = tree]
  BY DEF Start
<1>1. pc = "start" /\ UNCHANGED <<pc, harvest, tree, ended, saved>>
  BY DEF Start, sched, durable
<1>2. /\ t \notin Active /\ by_id[t] \notin Outcome
      /\ DependsOn[t] \subseteq tree
      /\ \A u \in Active : ~Clash(t, u)
  BY DEF First, Startable, Ready, completed, finished
<1>3. Active' = Active \cup {t}
  BY DEF Active, TypeOK
<1>4. \A u \in Lane : u # t => /\ by_id'[u] = by_id[u] /\ base'[u] = base[u]
                             /\ lane'[u] = lane[u]
  BY DEF TypeOK
<1>5. by_id'[t] = "running" /\ base'[t] = tree
  BY DEF TypeOK
<1>6. harvest \subseteq Done'
  BY <1>2, <1>3, <1>4 DEF Threads, Done, Active
<1>7. \A u \in Active : ~Clash(u, t)
  BY <1>2 DEF Clash
<1>8. Threads'
  <2>1. \A u, v \in Active' : u # v => ~Clash(u, v)
    BY <1>2, <1>3, <1>7 DEF Threads
  <2>2. \A u \in Active' : by_id'[u] = "running"
    BY <1>2, <1>3, <1>4, <1>5 DEF Threads, Active
  <2> QED BY <2>1, <2>2, <1>1, <1>4, <1>6 DEF Threads, Clash, Scheduling
<1>9. t \notin tree
  BY <1>2 DEF Branch, Outcome
<1>10. Branch'
  <2>1. \A u \in Active' :
          u \notin tree /\ DependsOn[u] \subseteq base'[u] /\ base'[u] \subseteq tree
    BY <1>2, <1>3, <1>4, <1>5, <1>9 DEF Branch, Active
  <2>2. \A u \in Task : by_id'[u] = "verified" => u # t /\ by_id[u] = "verified"
    BY <1>4, <1>5
  <2> QED BY <2>1, <2>2, <1>1, <1>4, <1>5, <1>9 DEF Branch, Scheduling
<1>11. CleanIntegration'
  BY <1>1, <1>3, <1>4, <1>5 DEF CleanIntegration, Mismatch, Active
<1> QED BY <1>8, <1>10, <1>11

LEMMA StepHarvest ==
  ASSUME TypeOK, Threads, Branch, CleanIntegration, Harvest
  PROVE  Threads' /\ Branch' /\ CleanIntegration'
<1> USE Kinds
<1> PICK t \in Task :
      /\ First(t, harvest) /\ lane[t] \in Outcome
      /\ by_id' = [by_id EXCEPT ![t] = lane[t]]
      /\ tree' = IF lane[t] = "verified" THEN tree \cup {t} ELSE tree
      /\ ended' = IF lane[t] = "verified" \/ ended = "cancelled" THEN ended ELSE lane[t]
      /\ lane' = [lane EXCEPT ![t] = "none"] /\ harvest' = harvest \ {t}
      /\ pc' = IF harvest = {t} THEN "top" ELSE "harvest"
  BY DEF Harvest
<1>1. pc = "harvest" /\ pc' \in {"top", "harvest"} /\ UNCHANGED <<base, saved>>
  BY DEF Harvest, durable
<1>2. t \in Active /\ t \notin tree /\ DependsOn[t] \subseteq tree
  BY DEF First, Threads, Done, Branch
<1>3. Active' = Active \ {t}
  BY DEF Active, TypeOK
<1>4. \A u \in Lane : u # t => by_id'[u] = by_id[u] /\ lane'[u] = lane[u]
  BY DEF TypeOK
<1>5. by_id'[t] = lane[t] /\ lane'[t] = "none"
  BY DEF TypeOK
<1>6. Threads'
  <2>1. harvest' \subseteq Done'
    BY <1>3, <1>4 DEF Threads, Done
  <2> QED BY <2>1, <1>1, <1>3, <1>4 DEF Threads, Clash, Scheduling, Active
<1>7. tree \subseteq tree' /\ tree' \subseteq tree \cup {t} /\ (t \in tree' <=> lane[t] = "verified")
  BY <1>2
<1>8. Branch'
  <2>1. \A u \in Active' :
          u \notin tree' /\ DependsOn[u] \subseteq base[u] /\ base[u] \subseteq tree'
    BY <1>3, <1>7 DEF Branch
  <2>2. \A u \in tree' \cap Task : by_id'[u] = "verified"
    BY <1>4, <1>5, <1>7 DEF Branch
  <2>3. \A u \in Task : by_id'[u] = "verified" => DependsOn[u] \subseteq tree'
    BY <1>2, <1>4, <1>5, <1>7 DEF Branch
  <2>4. ended' = "none" => \A u \in Task : by_id'[u] \in {"queued", "running"} \/ u \in tree'
    BY <1>1, <1>4, <1>5, <1>7 DEF Branch, Outcome, Scheduling
  <2> QED BY <2>1, <2>2, <2>3, <2>4, <1>1, <1>7 DEF Branch, InRound, Scheduling
<1>9. CleanIntegration'
  <2> SUFFICES ASSUME NEW u \in Active, u # t, NEW v \in Task \ {u}, Clash(u, v)
               PROVE  v \in tree' <=> v \in base[u]
    BY <1>1, <1>3 DEF CleanIntegration, Mismatch, Clash
  <2>1. v \in tree <=> v \in base[u]
    BY DEF CleanIntegration, Mismatch
  <2>2. v # t
    BY <1>2 DEF Threads
  <2> QED BY <2>1, <2>2, <1>7
<1> QED BY <1>6, <1>8, <1>9

LEMMA StepHarvestRaises ==
  ASSUME TypeOK, Threads, Branch, CleanIntegration, HarvestRaises
  PROVE  Threads' /\ Branch' /\ CleanIntegration'
<1> USE Kinds
<1> PICK t \in Task :
      /\ First(t, harvest)
      /\ lane[t] = "raised" \/ lane[t] = "verified"
      /\ by_id' = [by_id EXCEPT ![t] = IF lane[t] = "raised" THEN @ ELSE lane[t]]
      /\ lane' = [lane EXCEPT ![t] = "none"]
      /\ ended' = "raised"
  BY DEF HarvestRaises
<1>1. pc = "harvest" /\ pc' = "drain" /\ harvest' = {} /\ UNCHANGED <<tree, base, saved>>
  BY DEF HarvestRaises, durable
<1>2. t \in Active /\ t \notin tree /\ DependsOn[t] \subseteq tree
  BY DEF First, Threads, Done, Branch
<1>3. Active' = Active \ {t}
  BY DEF Active, TypeOK
<1>4. \A u \in Lane : u # t => by_id'[u] = by_id[u] /\ lane'[u] = lane[u]
  BY DEF TypeOK
<1>5. Threads'
  BY <1>1, <1>3, <1>4 DEF Threads, Clash, Scheduling, Active
<1>6. Branch'
  BY <1>1, <1>2, <1>3, <1>4 DEF Branch, InRound, Scheduling
<1>7. CleanIntegration'
  BY <1>1, <1>3 DEF CleanIntegration, Mismatch
<1> QED BY <1>5, <1>6, <1>7

\* What is verified when the loop is over can be restored.
LEMMA KeptCloses ==
  ASSUME TypeOK, Threads, Branch, pc = "drain"
  PROVE  /\ \A t \in {u \in Task : Kept(u) = "verified"} :
               DependsOn[t] \subseteq {u \in Task : Kept(u) = "verified"}
         /\ saved \subseteq {u \in Task : Kept(u) = "verified"}
<1> USE Kinds
<1>1. \A t \in Task : Kept(t) = "verified" => DependsOn[t] \subseteq tree
  BY DEF Kept, Branch
<1>2. \A t \in tree \cap Task : Kept(t) = "verified"
  BY DEF Kept, Branch
<1>3. saved \subseteq tree
  BY DEF Branch, InRound, Scheduling
<1> QED BY <1>1, <1>2, <1>3 DEF TypeOK

LEMMA StepDrain ==
  ASSUME TypeOK, Threads, Branch, CleanIntegration, Drain
  PROVE  Threads' /\ Branch' /\ CleanIntegration'
<1> USE Kinds
<1>1. CASE ended # "none" \/ (Left # {} /\ stop = "none")
  BY <1>1, KeptCloses, Paused DEF Drain
<1>2. CASE ~(ended # "none" \/ (Left # {} /\ stop = "none"))
  <2>1. /\ pc = "drain" /\ ended = "none" /\ pc' = "verify"
        /\ by_id' = [t \in Lane |-> IF t \in Left THEN "blocked" ELSE by_id[t]]
        /\ UNCHANGED <<harvest, tree, lane, base, saved>>
    BY <1>2 DEF Drain, durable
  <2>2. Active = {} /\ Active' = {} /\ harvest = {}
    BY <2>1 DEF Threads, Active, Done
  <2>3. \A t \in Task : t \in Left <=> by_id[t] \notin Outcome
    BY <2>2 DEF Left, Kept
  <2>4. \A t \in Task : by_id'[t] = IF by_id[t] \in Outcome THEN by_id[t] ELSE "blocked"
    BY <2>1, <2>3
  <2>5. Threads'
    BY <2>1, <2>2 DEF Threads
  <2>6. Branch'
    BY <2>1, <2>2, <2>4 DEF Branch, InRound, Scheduling, Outcome
  <2> QED BY <2>2, <2>5, <2>6 DEF CleanIntegration
<1> QED BY <1>1, <1>2

LEMMA StepRepair ==
  ASSUME TypeOK, Threads, Branch, CleanIntegration, StartRepair \/ RepairEnds
  PROVE  Threads' /\ Branch' /\ CleanIntegration'
<1> USE Kinds
<1>1. CASE StartRepair
  <2>1. /\ pc = "verify" /\ pc' = "repair" /\ UNCHANGED <<harvest, tree, saved>>
        /\ \A t \in Task : by_id'[t] = by_id[t] /\ lane'[t] = lane[t]
    BY <1>1 DEF StartRepair, durable, TypeOK
  <2>2. Active = {} /\ Active' = {} /\ harvest = {}
    BY <2>1 DEF Threads, Active, Done, Scheduling
  <2>3. Threads' BY <2>1, <2>2 DEF Threads
  <2>4. Branch'  BY <2>1, <2>2 DEF Branch, InRound, Scheduling
  <2> QED BY <2>2, <2>3, <2>4 DEF CleanIntegration
<1>2. CASE RepairEnds /\ lane[Repair] = "verified"
  <2>1. /\ pc = "repair" /\ pc' = "verify" /\ UNCHANGED <<harvest, saved>>
        /\ tree' = tree \cup {Repair} /\ lane'[Repair] = "none"
        /\ \A t \in Task : by_id'[t] = by_id[t] /\ lane'[t] = lane[t]
    BY <1>2 DEF RepairEnds, durable, TypeOK
  <2>2. Active = {} /\ Active' = {} /\ harvest = {}
    BY <2>1 DEF Threads, Active, Done, Scheduling
  <2>3. Threads' BY <2>1, <2>2 DEF Threads
  <2>4. Branch'  BY <2>1, <2>2 DEF Branch, InRound, Scheduling
  <2> QED BY <2>2, <2>3, <2>4 DEF CleanIntegration
<1>3. CASE RepairEnds /\ lane[Repair] # "verified"
  <2>1. PauseWith(Verified, TRUE) /\ pc = "repair"
    BY <1>3 DEF RepairEnds
  <2>2. \A t \in Verified : DependsOn[t] \subseteq Verified
    BY <2>1 DEF Verified, Branch
  <2> QED BY <2>1, <2>2, Paused
<1> QED BY <1>1, <1>2, <1>3

LEMMA StepThread ==
  ASSUME TypeOK, Threads, Branch, CleanIntegration, NEW t \in Lane,
         Thread(t) \/ ThreadRaises(t)
  PROVE  Threads' /\ Branch' /\ CleanIntegration'
<1>1. /\ lane[t] \in {"gate", "call", "checks"}
      /\ UNCHANGED <<sched, by_id, base, durable>>
  BY DEF Thread, ThreadRaises, NotDispatched, Dispatch, CallEnds, ChecksEnd
<1>2. \E x : x # "none" /\ lane' = [lane EXCEPT ![t] = x]
  <2>1. CASE NotDispatched(t) BY <2>1 DEF NotDispatched, Finish
  <2>2. CASE Dispatch(t)      BY <2>2 DEF Dispatch
  <2>3. CASE CallEnds(t)      BY <2>3 DEF CallEnds, Finish
  <2>4. CASE ChecksEnd(t)     BY <2>4 DEF ChecksEnd, Finish
  <2>5. CASE ThreadRaises(t)  BY <2>5 DEF ThreadRaises
  <2> QED BY <2>1, <2>2, <2>3, <2>4, <2>5 DEF Thread
<1>3. lane'[t] # "none" /\ \A u \in Lane \ {t} : lane'[u] = lane[u]
  BY <1>2 DEF TypeOK
<1> QED BY <1>1, <1>3, ThreadMoves

LEMMA StepSchedule ==
  ASSUME TypeOK, Threads, Branch, CleanIntegration, [Next]_vars
  PROVE  Threads' /\ Branch' /\ CleanIntegration'
<1> USE Kinds
<1>1. CASE UNCHANGED vars
  BY <1>1, SchedulerMoves DEF vars, sched, durable, Threads, Branch
<1>2. CASE BudgetGone \/ RestoreConflict \/ RestoreFails
  <2>1. pc' \in {"paused", "cancelled"} /\ Locals(saved') /\ saved' \in {{}, saved}
    BY <1>2 DEF BudgetGone, RestoreConflict, RestoreFails, PauseWith, durable
  <2>2. \A t \in saved' : DependsOn[t] \subseteq saved'
    BY <2>1 DEF Branch
  <2> QED BY <2>1, <2>2, Reset
<1>3. CASE Begin
  BY <1>3, StepBegin
<1>4. CASE LoopEnds
  <2>1. Active = {}
    BY <1>4 DEF LoopEnds, finished, Threads, Active, Outcome
  <2> QED BY <1>4, <2>1, SchedulerMoves
          DEF LoopEnds, Leave, Scheduling, InRound, Threads, durable
<1>5. CASE LoopCancelled \/ LoopGoesOn
  BY <1>5, SchedulerMoves
     DEF LoopCancelled, LoopGoesOn, Leave, Scheduling, InRound, Threads, durable
<1>6. CASE Start
  BY <1>6, StepStart
<1>7. CASE StartsDone
  BY <1>7, SchedulerMoves DEF StartsDone, Leave, Scheduling, InRound, Threads, durable
<1>8. CASE Wait
  BY <1>8, SchedulerMoves DEF Wait, Scheduling, InRound, Threads, durable
<1>9. CASE Harvest
  BY <1>9, StepHarvest
<1>10. CASE HarvestRaises
  BY <1>10, StepHarvestRaises
<1>11. CASE SchedulerRaises
  BY <1>11, SchedulerMoves DEF SchedulerRaises, Leave, Scheduling, InRound, Threads, durable
<1>12. CASE Drain
  BY <1>12, StepDrain
<1>13. CASE FinalPass
  BY <1>13, SchedulerMoves DEF FinalPass, Scheduling, InRound, Threads, durable
<1>14. CASE FinalFail
  <2>1. \A t \in Verified : DependsOn[t] \subseteq Verified
    BY <1>14 DEF FinalFail, Verified, Branch
  <2> QED BY <1>14, <2>1, Paused DEF FinalFail
<1>15. CASE StartRepair \/ RepairEnds
  BY <1>15, StepRepair
<1>16. CASE Cancel
  BY <1>16, SchedulerMoves DEF Cancel, Scheduling, InRound, Rest, Threads, Branch, durable
<1>17. CASE Resume
  BY <1>17, SchedulerMoves DEF Resume, Scheduling, InRound, Threads, Branch, durable
<1>18. CASE Crash
  BY <1>18, Reset DEF Crash, durable, Branch
<1>19. ASSUME NEW t \in Lane, Thread(t) \/ ThreadRaises(t)
       PROVE  Threads' /\ Branch' /\ CleanIntegration'
  BY <1>19, StepThread
<1> QED
  BY <1>1, <1>2, <1>3, <1>4, <1>5, <1>6, <1>7, <1>8, <1>9, <1>10, <1>11, <1>12, <1>13,
     <1>14, <1>15, <1>16, <1>17, <1>18, <1>19
     DEF Next, Scheduler, Mishap, User

ScheduleInv == TypeOK /\ Threads /\ Branch /\ CleanIntegration

THEOREM Scheduled == Spec => []ScheduleInv
<1>1. Init => ScheduleInv
  <2> SUFFICES ASSUME Init PROVE Threads /\ Branch /\ CleanIntegration /\ TypeOK
    BY DEF ScheduleInv
  <2> USE Kinds
  <2>1. TypeOK
    BY TypeInit
  <2>2. Active = {} /\ harvest = {} /\ tree = {} /\ saved = {} /\ pc = "queued"
        /\ \A t \in Lane : by_id[t] = "queued" /\ lane[t] = "none"
    BY DEF Init, Active
  <2>3. Threads
    BY <2>2 DEF Threads
  <2>4. Branch
    BY <2>2 DEF Branch, InRound, Scheduling
  <2> QED BY <2>1, <2>2, <2>3, <2>4 DEF CleanIntegration
<1>2. ScheduleInv /\ [Next]_vars => ScheduleInv'
  BY TypeStep, StepSchedule DEF ScheduleInv
<1> QED BY <1>1, <1>2, PTL DEF Spec

\* In whatever order tasks end, a verified commit applies to the integration
\* branch.
THEOREM CommitsApply == Spec => []CleanIntegration
<1>1. ScheduleInv => CleanIntegration
  BY DEF ScheduleInv
<1> QED BY <1>1, Scheduled, PTL

\* No task starts, and no work is integrated, before what it builds on.
THEOREM InOrder == Spec => []BuiltOnDependencies
<1>1. ScheduleInv => BuiltOnDependencies
  BY Kinds DEF ScheduleInv, Branch, BuiltOnDependencies
<1> QED BY <1>1, Scheduled, PTL

-----------------------------------------------------------------------------
(* The budget.                                                             *)

\* What the call in flight will cost: with a budget there is at most one.
Flight == IF dispatch = Free THEN 0 ELSE price[dispatch]

\* Within a round the ledger, what the round has seen and what it may still
\* spend add up to the budget; between rounds either nothing is left of it or
\* every call is in the ledger.
Money ==
    Limit > 0 =>
      /\ \A t \in Lane : lane[t] = "call" <=> dispatch = t
      /\ unknown => ledger >= Limit
      /\ pc \in InRound /\ ~unknown =>
           /\ ledger + allowance = Limit + observed
           /\ spent <= ledger + Flight
           /\ observed + Flight <= allowance
      /\ pc \in {"queued", "paused"} => observed = 0
      /\ pc \in {"queued", "paused"} /\ ledger < Limit => spent <= ledger
      /\ pc = "queued" => cancel # "user"
      /\ unknown_cost_policy = "stop" \/ ~unknown => spent <= Limit

\* Nothing is paid or recorded.
LEMMA MoneyMoves ==
  ASSUME TypeOK, Money, UNCHANGED <<unknown_cost_policy, money>>,
         \A t \in Lane : lane'[t] = "call" <=> lane[t] = "call",
         pc' \in InRound => pc \in InRound,
         pc' \in {"queued", "paused"} => pc \in {"queued", "paused"},
         pc' = "queued" => cancel' # "user"
  PROVE  Money'
<1>1. UNCHANGED <<observed, unknown, allowance, ceiling, dispatch, ledger, spent, price>>
  BY DEF money
<1>2. Flight' = Flight
  BY <1>1 DEF Flight
<1> QED BY <1>1, <1>2 DEF Money

LEMMA NoCall ==
  ASSUME TypeOK, Money, Limit > 0, Active = Done, lane[Repair] # "call"
  PROVE  dispatch = Free
<1> USE Kinds
<1>1. \A t \in Task : lane[t] # "call"
  BY DEF Active, Done, Outcome
<1> QED BY <1>1 DEF Money, TypeOK

LEMMA MoneyPaused ==
  ASSUME TypeOK, Money, NEW S, NEW b \in BOOLEAN, PauseWith(S, b),
         UNCHANGED <<unknown_cost_policy, unknown, ledger, spent>>,
         pc \in InRound \cup {"queued"}, Limit > 0 => dispatch = Free
  PROVE  Money'
<1> USE Kinds
<1>1. /\ pc' \in {"paused", "cancelled"} /\ dispatch' = Free /\ observed' = 0
      /\ \A t \in Lane : lane'[t] = "none"
  BY DEF PauseWith, Locals
<1>2. Limit > 0 /\ ledger < Limit => spent <= ledger
  BY DEF Money, Flight, TypeOK
<1> QED BY <1>1, <1>2 DEF Money, InRound, Scheduling

LEMMA StepDispatch ==
  ASSUME TypeOK, Threads, Money, NEW t \in Lane, Dispatch(t), UNCHANGED unknown_cost_policy
  PROVE  Money'
<1> SUFFICES ASSUME Limit > 0 PROVE Money'
  BY DEF Money
<1> USE Kinds
<1>1. /\ dispatch = Free /\ dispatch' = t /\ lane[t] = "gate" /\ lane' = [lane EXCEPT ![t] = "call"]
      /\ ~(unknown /\ unknown_cost_policy = "stop") /\ ~(observed >= allowance)
      /\ UNCHANGED <<observed, unknown, allowance, ledger, pc, cancel>>
  BY DEF Dispatch, LockFree, Blocked, sched
<1>2. PICK cost \in 0 .. (allowance - observed) :
        spent' = spent + cost /\ price' = [price EXCEPT ![t] = cost]
  BY DEF Dispatch, Ceiling
<1>3. pc \in InRound
  BY <1>1 DEF Threads, Active, InRound, Scheduling
<1>4. Flight = 0 /\ Flight' = cost
  BY <1>1, <1>2 DEF Flight, TypeOK
<1>5. \A u \in Lane : lane'[u] = "call" <=> dispatch' = u
  BY <1>1 DEF Money, TypeOK
<1>6. cost \in Nat /\ cost + observed <= allowance
      /\ {observed, allowance, ledger, spent} \subseteq Nat
  BY <1>1, <1>2 DEF TypeOK
<1>7. ~unknown => spent' <= ledger + cost /\ spent' <= Limit
  BY <1>2, <1>3, <1>4, <1>6 DEF Money
<1>8. \/ unknown_cost_policy # "stop" /\ unknown
      \/ ~unknown
  BY <1>1 DEF TypeOK
<1> QED BY <1>1, <1>3, <1>4, <1>5, <1>6, <1>7, <1>8 DEF Money, InRound, Scheduling

LEMMA StepCallEnds ==
  ASSUME TypeOK, Threads, Money, NEW t \in Lane, CallEnds(t), UNCHANGED unknown_cost_policy
  PROVE  Money'
<1> SUFFICES ASSUME Limit > 0 PROVE Money'
  BY DEF Money
<1> USE Kinds
<1>1. /\ lane[t] = "call" /\ dispatch = t /\ dispatch' = Free
      /\ UNCHANGED <<allowance, spent, pc, cancel>>
  BY DEF CallEnds, Money, sched
<1>2. \E x : x # "call" /\ lane' = [lane EXCEPT ![t] = x]
  BY DEF CallEnds, Finish
<1>3. PICK priced \in BOOLEAN :
        /\ ledger' = ledger + IF priced THEN price[t] ELSE Limit
        /\ observed' = IF priced THEN observed + price[t] ELSE observed
        /\ unknown' = (unknown \/ ~priced)
  BY DEF CallEnds, Hold
<1>4. pc \in InRound
  BY <1>1 DEF Threads, Active, InRound, Scheduling
<1>5. Flight = price[t] /\ Flight' = 0 /\ price[t] \in Nat
  BY <1>1 DEF Flight, TypeOK
<1>6. \A u \in Lane : lane'[u] = "call" <=> dispatch' = u
  BY <1>1, <1>2 DEF Money, TypeOK
<1>7. {observed, allowance, ledger, spent} \subseteq Nat
  BY DEF TypeOK
<1>8. CASE priced
  <2>1. ledger' = ledger + price[t] /\ observed' = observed + price[t] /\ unknown' = unknown
    BY <1>3, <1>8 DEF TypeOK
  <2> QED BY <2>1, <1>1, <1>4, <1>5, <1>6, <1>7 DEF Money, InRound, Scheduling
<1>9. CASE ~priced
  <2>1. ledger' = ledger + Limit /\ observed' = observed /\ unknown' = TRUE
    BY <1>3, <1>9
  <2>2. unknown_cost_policy = "stop" => spent <= Limit
    BY DEF Money
  <2> QED BY <2>1, <2>2, <1>1, <1>4, <1>6, <1>7 DEF Money, InRound, Scheduling
<1> QED BY <1>8, <1>9

LEMMA StepCrash ==
  ASSUME TypeOK, Threads, Money, Crash, UNCHANGED unknown_cost_policy
  PROVE  Money'
<1> SUFFICES ASSUME Limit > 0 PROVE Money'
  BY DEF Money
<1> USE Kinds
<1>1. /\ dispatch' = Free /\ observed' = 0 /\ \A t \in Lane : lane'[t] = "none"
      /\ UNCHANGED <<unknown, spent>>
      /\ ledger' = ledger + IF cancel = "user" THEN 0 ELSE Interrupted
      /\ pc' \in {"queued", "paused", "cancelled"}
      /\ pc' = "queued" => pc = "queued"
      /\ pc' \in {"queued", "paused"} /\ pc # "queued" => cancel # "user"
      /\ cancel' = IF cancel = "user" THEN "user" ELSE "no"
  BY DEF Crash, Locals
<1>2. pc \in InRound \cup {"queued", "paused"}
  BY DEF Crash, TypeOK, Rest, InRound, Scheduling
<1>3. pc = "queued" => cancel # "user"
  BY DEF Money
<1>4. {ledger, spent, ledger'} \subseteq Nat /\ ledger' >= ledger
  BY <1>1, InterruptedNat DEF TypeOK
<1>5. ASSUME pc' \in {"queued", "paused"}, ledger' < Limit PROVE spent' <= ledger'
  <2>1. cancel # "user"
    BY <1>1, <1>3, <1>5
  <2>2. InFlight = {}
    BY <1>1, <1>4, <1>5, <2>1, InterruptedNat DEF TypeOK
  <2>3. dispatch = Free
    BY <2>2 DEF InFlight, Money, TypeOK
  <2>4. ledger < Limit
    BY <1>4, <1>5
  <2> QED BY <1>1, <1>2, <1>4, <2>3, <2>4 DEF Money, Flight
<1>6. unknown => ledger' >= Limit
  BY <1>4 DEF Money
<1> QED BY <1>1, <1>3, <1>5, <1>6 DEF Money, InRound, Scheduling

LEMMA StepMoney ==
  ASSUME ScheduleInv, Money, [Next]_vars
  PROVE  Money'
<1> USE Kinds DEF ScheduleInv
<1>0. TypeOK' BY TypeStep
<1>1. CASE UNCHANGED vars
  BY <1>1, MoneyMoves DEF vars, sched, work, Money
<1>p. UNCHANGED unknown_cost_policy
  BY <1>1 DEF Next, Scheduler, Mishap, User, Thread, vars
<1>2. CASE BudgetGone \/ RestoreConflict \/ RestoreFails
  <2>1. Active = Done /\ lane[Repair] = "none" /\ pc = "queued"
    BY <1>2 DEF BudgetGone, RestoreConflict, RestoreFails, Threads, Done, Scheduling
  <2> QED BY <1>2, <1>p, <2>1, NoCall, MoneyPaused DEF BudgetGone, RestoreConflict, RestoreFails
<1>3. CASE Begin
  <2>1. /\ pc = "queued" /\ pc' = "top" /\ unknown' = FALSE
        /\ UNCHANGED <<lane, observed, dispatch, ledger, spent, price>>
        /\ Limit > 0 => ledger < Limit /\ allowance' = Limit - ledger
    BY <1>3 DEF Begin, Exhausted, TypeOK
  <2>2. Limit > 0 => dispatch = Free
    BY <2>1, NoCall DEF Threads, Done, Scheduling
  <2> QED BY <2>1, <2>2, <1>p DEF Money, Flight, TypeOK
<1>4. CASE LoopEnds \/ LoopCancelled \/ LoopGoesOn \/ StartsDone \/ Wait \/ SchedulerRaises
  <2>1. pc \in InRound /\ pc' \in InRound /\ UNCHANGED <<lane, money>>
    BY <1>4 DEF LoopEnds, LoopCancelled, LoopGoesOn, StartsDone, Wait, SchedulerRaises, Leave,
                work, InRound, Scheduling
  <2> QED BY <2>1, <1>p, MoneyMoves DEF InRound, Scheduling
<1>5. CASE Start
  <2>1. pc \in InRound /\ pc' \in InRound /\ UNCHANGED money
    BY <1>5 DEF Start, sched, InRound, Scheduling
  <2>2. \A u \in Lane : lane'[u] = "call" <=> lane[u] = "call"
    BY <1>5 DEF Start, First, Startable, Ready, Active, TypeOK
  <2> QED BY <2>1, <2>2, <1>p, MoneyMoves DEF InRound, Scheduling
<1>6. CASE Harvest \/ HarvestRaises
  <2>1. pc \in InRound /\ pc' \in InRound /\ UNCHANGED money
    BY <1>6 DEF Harvest, HarvestRaises, InRound, Scheduling
  <2>2. \A u \in Lane : lane'[u] = "call" <=> lane[u] = "call"
    BY <1>6 DEF Harvest, HarvestRaises, TypeOK, Outcome
  <2> QED BY <2>1, <2>2, <1>p, MoneyMoves DEF InRound, Scheduling
<1>7. CASE Drain
  <2>1. CASE ended # "none" \/ (Left # {} /\ stop = "none")
    <3>1. Limit > 0 => dispatch = Free
      BY <1>7, NoCall DEF Drain, Threads
    <3> QED BY <1>7, <1>p, <2>1, <3>1, MoneyPaused DEF Drain, InRound, Scheduling
  <2>2. CASE ~(ended # "none" \/ (Left # {} /\ stop = "none"))
    <3>1. pc \in InRound /\ pc' \in InRound /\ UNCHANGED <<lane, money>>
      BY <1>7, <2>2 DEF Drain, money, InRound, Scheduling
    <3> QED BY <3>1, <1>p, MoneyMoves DEF InRound, Scheduling
  <2> QED BY <2>1, <2>2
<1>8. CASE FinalPass
  BY <1>8, <1>p, MoneyMoves DEF FinalPass, work, InRound, Scheduling
<1>9. CASE FinalFail
  <2>1. Limit > 0 => dispatch = Free
    BY <1>9, NoCall DEF FinalFail, Threads, Done, Scheduling
  <2> QED BY <1>9, <1>p, <2>1, MoneyPaused DEF FinalFail, InRound, Scheduling
<1>10. CASE StartRepair
  <2>1. pc \in InRound /\ pc' \in InRound /\ UNCHANGED money
    BY <1>10 DEF StartRepair, InRound, Scheduling
  <2>2. \A u \in Lane : lane'[u] = "call" <=> lane[u] = "call"
    BY <1>10 DEF StartRepair, Threads, TypeOK
  <2> QED BY <2>1, <2>2, <1>p, MoneyMoves DEF InRound, Scheduling
<1>11. CASE RepairEnds
  <2>1. CASE lane[Repair] = "verified"
    <3>1. pc \in InRound /\ pc' \in InRound /\ UNCHANGED money
      BY <1>11, <2>1 DEF RepairEnds, money, InRound, Scheduling
    <3>2. \A u \in Lane : lane'[u] = "call" <=> lane[u] = "call"
      BY <1>11, <2>1 DEF RepairEnds, TypeOK
    <3> QED BY <3>1, <3>2, <1>p, MoneyMoves DEF InRound, Scheduling
  <2>2. CASE lane[Repair] # "verified"
    <3>1. Limit > 0 => dispatch = Free
      BY <1>11, NoCall DEF RepairEnds, Threads, Done, Scheduling, Outcome
    <3> QED BY <1>11, <1>p, <2>2, <3>1, MoneyPaused DEF RepairEnds, InRound, Scheduling
  <2> QED BY <2>1, <2>2
<1>12. CASE Cancel
  <2>1. UNCHANGED <<lane, money>> /\ pc' # "queued" /\ (pc' = pc \/ pc' = "cancelled")
        /\ pc \notin Rest
    BY <1>12 DEF Cancel, work
  <2> QED BY <2>1, <1>p, MoneyMoves DEF InRound, Scheduling, Rest
<1>13. CASE Resume
  BY <1>13, <1>p, MoneyMoves DEF Resume, work, InRound, Scheduling
<1>14. CASE Crash
  BY <1>14, <1>p, StepCrash
<1>15. ASSUME NEW t \in Lane, NotDispatched(t) \/ ChecksEnd(t) \/ ThreadRaises(t)
       PROVE  Money'
  <2>1. UNCHANGED <<pc, cancel, money>> /\ lane[t] # "call"
    BY <1>15 DEF NotDispatched, ChecksEnd, ThreadRaises, sched
  <2>2. \E x : x # "call" /\ lane' = [lane EXCEPT ![t] = x]
    BY <1>15 DEF NotDispatched, ChecksEnd, ThreadRaises, Finish
  <2>3. \A u \in Lane : lane'[u] = "call" <=> lane[u] = "call"
    BY <2>1, <2>2 DEF TypeOK
  <2> QED BY <2>1, <2>3, <1>p, MoneyMoves DEF Money
<1>16. ASSUME NEW t \in Lane, Dispatch(t) PROVE Money'
  BY <1>16, <1>p, StepDispatch
<1>17. ASSUME NEW t \in Lane, CallEnds(t) PROVE Money'
  BY <1>17, <1>p, StepCallEnds
<1> QED
  BY <1>1, <1>2, <1>3, <1>4, <1>5, <1>6, <1>7, <1>8, <1>9, <1>10, <1>11, <1>12, <1>13,
     <1>14, <1>15, <1>16, <1>17
     DEF Next, Scheduler, Mishap, User, Thread

\* A finite budget is never exceeded, whatever is retried, repaired, continued
\* or cut off by a restart.
THEOREM BudgetHolds == Spec => []SpendWithinBudget
<1>1. Init => Money
  BY Kinds DEF Init, Money, Flight, InRound, Scheduling
<1>2. ScheduleInv /\ Money /\ [Next]_vars => Money'
  BY StepMoney
<1>3. Money => SpendWithinBudget
  BY DEF Money, SpendWithinBudget
<1> QED BY <1>1, <1>2, <1>3, Scheduled, PTL DEF Spec

-----------------------------------------------------------------------------
(* What is saved, and the refinement.                                      *)

\* How a step changes what is saved: only a failure while saved work is
\* restored takes anything away.
LEMMA SavedGrows ==
  ASSUME ScheduleInv, [Next]_vars
  PROVE  saved \subseteq saved' \/ RestoreFails
<1> USE Kinds DEF ScheduleInv
<1>1. CASE UNCHANGED <<saved, site>>
  BY <1>1
<1>2. CASE Drain
  BY <1>2, KeptCloses DEF Drain, PauseWith, durable
<1>3. CASE FinalFail \/ RepairEnds
  <2>1. saved \subseteq Verified
    BY <1>3 DEF FinalFail, RepairEnds, Verified, Branch, InRound, TypeOK
  <2> QED BY <1>3, <2>1 DEF FinalFail, RepairEnds, PauseWith, durable
<1>4. CASE BudgetGone \/ RestoreConflict
  BY <1>4 DEF BudgetGone, RestoreConflict, PauseWith, durable
<1>5. CASE RestoreFails
  BY <1>5
<1> QED
  BY <1>1, <1>2, <1>3, <1>4, <1>5
     DEF Next, Scheduler, Mishap, User, Thread, vars, durable, Begin, LoopEnds, LoopCancelled,
         LoopGoesOn, Start, StartsDone, Wait, Harvest, HarvestRaises, SchedulerRaises, FinalPass,
         StartRepair, Cancel, Resume, Crash, NotDispatched, Dispatch, CallEnds, ChecksEnd,
         ThreadRaises

\* No call is started for what is saved.
LEMMA SavedIdle ==
  ASSUME ScheduleInv, [Next]_vars, NEW t \in saved, lane'[t] = "call"
  PROVE  lane[t] = "call"
<1> USE Kinds DEF ScheduleInv
<1>1. t \in Task
  BY DEF TypeOK
<1>2. lane[t] = "none"
  BY <1>1 DEF Threads, Branch, Active, InRound, Scheduling
<1>3. ASSUME NEW u \in Lane, Thread(u) \/ ThreadRaises(u) PROVE lane'[t] = lane[t]
  <2>1. u # t
    BY <1>2, <1>3 DEF Thread, NotDispatched, Dispatch, CallEnds, ChecksEnd, ThreadRaises
  <2>2. \E x : lane' = [lane EXCEPT ![u] = x]
    <3>1. CASE NotDispatched(u) BY <3>1 DEF NotDispatched, Finish
    <3>2. CASE Dispatch(u)      BY <3>2 DEF Dispatch
    <3>3. CASE CallEnds(u)      BY <3>3 DEF CallEnds, Finish
    <3>4. CASE ChecksEnd(u)     BY <3>4 DEF ChecksEnd, Finish
    <3>5. CASE ThreadRaises(u)  BY <3>5 DEF ThreadRaises
    <3> QED BY <1>3, <3>1, <3>2, <3>3, <3>4, <3>5 DEF Thread
  <2> QED BY <2>1, <2>2, <1>1 DEF TypeOK
<1>4. CASE Start \/ Harvest \/ HarvestRaises \/ StartRepair
  BY <1>1, <1>2, <1>4 DEF Start, Harvest, HarvestRaises, StartRepair, TypeOK
<1>5. CASE \E S : Locals(S)
  BY <1>1, <1>5 DEF Locals
<1>6. CASE RepairEnds \/ Drain
  BY <1>1, <1>2, <1>5, <1>6 DEF RepairEnds, Drain, PauseWith, TypeOK
<1> QED
  BY <1>1, <1>2, <1>3, <1>4, <1>5, <1>6
     DEF Next, Scheduler, Mishap, User, vars, work, BudgetGone, Begin, RestoreConflict,
         RestoreFails, LoopEnds, LoopCancelled, LoopGoesOn, StartsDone, Wait, SchedulerRaises,
         FinalPass, FinalFail, Cancel, Resume, Crash, PauseWith

\* Verified work that was saved is never paid for again, and only a failure
\* while it is restored forgets it.
THEOREM SavedUnlessRestoreFails ==
  Spec => [][/\ saved \subseteq saved' \/ RestoreFails
             /\ \A t \in saved : lane'[t] = "call" => lane[t] = "call"]_vars
<1>1. ScheduleInv /\ [Next]_vars =>
        [/\ saved \subseteq saved' \/ RestoreFails
         /\ \A t \in saved : lane'[t] = "call" => lane[t] = "call"]_vars
  BY SavedGrows, SavedIdle
<1> QED BY <1>1, Scheduled, PTL DEF Spec

LEMMA NoRestoreFails ==
  ASSUME MaxRestoreFaults = 0, TypeOK
  PROVE  ~RestoreFails
<1>1. count.faults \in Nat
  BY DEF TypeOK
<1>2. RestoreFails => count.faults < MaxRestoreFaults
  BY DEF RestoreFails
<1> QED BY <1>1, <1>2

\* Where restoring does not fail, verified work in the artifacts stays there.
THEOREM SavedStays ==
  ASSUME MaxRestoreFaults = 0
  PROVE  Spec => SavedWorkKept
<1>1. ScheduleInv => ~RestoreFails
  BY NoRestoreFails DEF ScheduleInv
<1>2. ScheduleInv /\ [Next]_vars =>
        [/\ saved \subseteq saved'
         /\ \A t \in saved : lane'[t] = "call" => lane[t] = "call"]_vars
  BY <1>1, SavedGrows, SavedIdle
<1> QED BY <1>2, Scheduled, PTL DEF Spec, SavedWorkKept

-----------------------------------------------------------------------------
(* The refinement: what the steps are for PlanDelivery.                    *)

LEMMA Unseen ==
  ASSUME UNCHANGED <<Phase, tree, saved>>
  PROVE  [Delivery!Next]_Delivery!vars
  BY DEF Delivery!vars

LEMMA GivenUp ==
  ASSUME ScheduleInv, pc \in InRound \cup {"queued", "paused"}, NEW S, Locals(S),
         pc' \in {"queued", "paused", "cancelled"},
         saved \subseteq saved', saved' \subseteq Task,
         \A t \in saved' : DependsOn[t] \subseteq saved',
         pc' = "cancelled" => saved' = saved
  PROVE  [Delivery!Next]_Delivery!vars
<1>1. Phase \in {"waiting", "building"}
  BY DEF Phase, InRound, Scheduling
<1>2. tree' \cap Task = {}
  BY DEF Locals
<1>3. CASE pc' = "cancelled"
  <2>1. Phase' = "withdrawn"
    BY <1>3 DEF Phase
  <2> QED BY <1>1, <1>2, <1>3, <2>1 DEF Delivery!Next, Delivery!Withdraw
<1>4. CASE pc' # "cancelled"
  <2>1. Phase' = "waiting"
    BY <1>4 DEF Phase
  <2>2. Delivery!Closed(saved')
    BY DEF Delivery!Closed
  <2> QED BY <1>1, <1>2, <2>1, <2>2 DEF Delivery!Next, Delivery!GiveUp
<1> QED BY <1>3, <1>4

LEMMA PauseGivesUp ==
  ASSUME ScheduleInv, pc \in InRound \cup {"queued"}, NEW S \in SUBSET Task, NEW b, PauseWith(S, b),
         saved \subseteq S \/ UNCHANGED saved, \A t \in S : DependsOn[t] \subseteq S
  PROVE  [Delivery!Next]_Delivery!vars
<1>1. /\ Locals(saved') /\ pc' \in {"paused", "cancelled"}
      /\ saved' \in {S, saved} /\ (pc' = "cancelled" => saved' = saved)
  BY DEF PauseWith, durable
<1>2. /\ saved \subseteq saved' /\ saved' \subseteq Task
      /\ \A t \in saved' : DependsOn[t] \subseteq saved'
  BY <1>1 DEF ScheduleInv, TypeOK, Branch
<1> QED BY <1>1, <1>2, GivenUp

LEMMA StepDelivery ==
  ASSUME MaxRestoreFaults = 0, ScheduleInv, [Next]_vars
  PROVE  [Delivery!Next]_Delivery!vars
<1> USE Kinds
<1>1. CASE UNCHANGED vars
  BY <1>1, Unseen DEF vars, sched, durable, Phase
<1>2. CASE BudgetGone \/ RestoreConflict
  <2>1. /\ pc = "queued" /\ pc' \in {"paused", "cancelled"}
        /\ Locals(saved') /\ saved' = saved
    BY <1>2 DEF BudgetGone, RestoreConflict, PauseWith, durable
  <2> QED BY <2>1, GivenUp DEF ScheduleInv, TypeOK, Branch
<1>3. CASE Begin
  <2>1. pc = "queued" /\ pc' = "top" /\ tree' = saved /\ UNCHANGED saved
    BY <1>3 DEF Begin, durable
  <2>2. Phase = "waiting" /\ Phase' = "building"
    BY <2>1 DEF Phase
  <2>3. tree' \cap Task = saved
    BY <2>1 DEF ScheduleInv, TypeOK
  <2> QED BY <2>1, <2>2, <2>3 DEF Delivery!Next, Delivery!Open
<1>4. CASE LoopEnds \/ LoopCancelled \/ LoopGoesOn \/ Start \/ StartsDone \/ Wait
           \/ HarvestRaises \/ SchedulerRaises \/ StartRepair
  <2>1. pc \in InRound /\ pc' \in InRound /\ UNCHANGED <<tree, saved>>
    BY <1>4 DEF LoopEnds, LoopCancelled, LoopGoesOn, Start, StartsDone, Wait, HarvestRaises,
       SchedulerRaises, StartRepair, Leave, InRound, Scheduling, sched, durable
  <2> QED BY <2>1, Unseen DEF Phase, InRound, Scheduling
<1>5. CASE Harvest
  <2>1. /\ pc = "harvest" /\ pc' \in {"top", "harvest"} /\ UNCHANGED saved
        /\ \E t \in Task : /\ t \in harvest
                          /\ tree' = IF lane[t] = "verified" THEN tree \cup {t} ELSE tree
    BY <1>5 DEF Harvest, First, durable
  <2> PICK t \in Task : /\ t \in harvest
                       /\ tree' = IF lane[t] = "verified" THEN tree \cup {t} ELSE tree
    BY <2>1
  <2>2. Phase = "building" /\ Phase' = "building"
    BY <2>1 DEF Phase
  <2>3. t \notin tree /\ DependsOn[t] \subseteq tree \cap Task
    BY DEF ScheduleInv, Threads, Done, Branch
  <2>4. CASE lane[t] = "verified"
    <3>1. tree' \cap Task = (tree \cap Task) \cup {t}
      BY <2>4
    <3>2. Delivery!Build(t)
      BY <2>1, <2>2, <2>3, <3>1 DEF Delivery!Build
    <3> QED BY <3>2 DEF Delivery!Next
  <2>5. CASE lane[t] # "verified"
    BY <2>1, <2>2, <2>5, Unseen
  <2> QED BY <2>4, <2>5
<1>6. CASE Drain
  <2>1. CASE ended # "none" \/ (Left # {} /\ stop = "none")
    <3>1. pc = "drain" /\ PauseWith({t \in Task : Kept(t) = "verified"}, ended # "bare")
      BY <1>6, <2>1 DEF Drain
    <3> QED BY <3>1, KeptCloses, PauseGivesUp DEF ScheduleInv, InRound, Scheduling
  <2>2. CASE ~(ended # "none" \/ (Left # {} /\ stop = "none"))
    <3>1. pc = "drain" /\ pc' = "verify" /\ UNCHANGED <<tree, saved>>
      BY <1>6, <2>2 DEF Drain, durable
    <3> QED BY <3>1, Unseen DEF Phase
  <2> QED BY <2>1, <2>2
<1>7. CASE FinalPass
  <2>1. /\ pc = "verify" /\ pc' \in {"cancelled", "delivered", "published"}
        /\ ~Incomplete /\ UNCHANGED <<tree, saved>>
    BY <1>7 DEF FinalPass, durable
  <2>2. tree \cap Task = Task
    BY <2>1 DEF Incomplete, ScheduleInv, Branch
  <2>3. Phase = "building"
    BY <2>1 DEF Phase
  <2>4. CASE pc' = "cancelled"
    <3>1. Phase' = "withdrawn" BY <2>4 DEF Phase
    <3> QED BY <2>1, <2>3, <3>1 DEF Delivery!Next, Delivery!Withdraw
  <2>5. CASE pc' # "cancelled"
    <3>1. Phase' = "delivered" BY <2>1, <2>5 DEF Phase
    <3> QED BY <2>1, <2>2, <2>3, <3>1 DEF Delivery!Next, Delivery!Deliver
  <2> QED BY <2>4, <2>5
<1>8. CASE FinalFail \/ (RepairEnds /\ lane[Repair] # "verified")
  <2>1. PauseWith(Verified, TRUE) /\ pc \in {"verify", "repair"}
    BY <1>8 DEF FinalFail, RepairEnds
  <2>2. /\ \A t \in Verified : DependsOn[t] \subseteq Verified
        /\ saved \subseteq Verified /\ Verified \subseteq Task
    BY <2>1 DEF Verified, ScheduleInv, TypeOK, Branch, InRound
  <2> QED BY <2>1, <2>2, PauseGivesUp DEF InRound
<1>9. CASE RepairEnds /\ lane[Repair] = "verified"
  <2>1. pc = "repair" /\ pc' = "verify" /\ tree' = tree \cup {Repair} /\ UNCHANGED saved
    BY <1>9 DEF RepairEnds, durable
  <2>2. Phase' = Phase /\ tree' \cap Task = tree \cap Task
    BY <2>1 DEF Phase
  <2> QED BY <2>1, <2>2 DEF Delivery!vars
<1>10. CASE Cancel
  <2>1. UNCHANGED <<tree, saved>> /\ (pc' = pc \/ (pc = "queued" /\ pc' = "cancelled"))
    BY <1>10 DEF Cancel, durable
  <2>2. CASE pc' = pc
    BY <2>1, <2>2, Unseen DEF Phase
  <2>3. CASE pc = "queued" /\ pc' = "cancelled"
    <3>1. Phase = "waiting" /\ Phase' = "withdrawn"
      BY <2>3 DEF Phase
    <3> QED BY <2>1, <3>1 DEF Delivery!Next, Delivery!Withdraw
  <2> QED BY <2>1, <2>2, <2>3
<1>11. CASE Resume
  BY <1>11, Unseen DEF Resume, durable, Phase
<1>12. CASE Crash
  <2>1. /\ Locals(saved) /\ UNCHANGED saved /\ pc' \in {"queued", "paused", "cancelled"}
        /\ pc \notin Rest \ {"paused"}
    BY <1>12 DEF Crash, durable
  <2>2. pc \in InRound \cup {"queued", "paused"}
    BY <2>1 DEF ScheduleInv, TypeOK, Rest, InRound, Scheduling
  <2> QED BY <2>1, <2>2, GivenUp DEF ScheduleInv, TypeOK, Branch
<1>13. ASSUME NEW t \in Lane, Thread(t) \/ ThreadRaises(t)
       PROVE  [Delivery!Next]_Delivery!vars
  <2>1. UNCHANGED <<pc, tree, saved>>
    BY <1>13 DEF Thread, NotDispatched, Dispatch, CallEnds, ChecksEnd, ThreadRaises, sched, durable
  <2> QED BY <2>1, Unseen DEF Phase
<1>14. ~RestoreFails
  BY NoRestoreFails DEF ScheduleInv
<1> QED
  BY <1>1, <1>2, <1>3, <1>4, <1>5, <1>6, <1>7, <1>8, <1>9, <1>10, <1>11, <1>12, <1>13, <1>14
     DEF Next, Scheduler, Mishap, User

\* The execution of a task graph implements PlanDelivery: a plan is delivered
\* whole and in order, and work that is kept stays kept and can be restored.
THEOREM DeliversThePlan ==
  ASSUME MaxRestoreFaults = 0
  PROVE  Spec => ImplementsDelivery
<1>1. Init => Delivery!Init
  BY DEF Init, Delivery!Init, Phase
<1>2. ScheduleInv /\ [Next]_vars => [Delivery!Next]_Delivery!vars
  BY StepDelivery
<1> QED BY <1>1, <1>2, Scheduled, PTL DEF Spec, ImplementsDelivery, Delivery!Spec
=============================================================================
