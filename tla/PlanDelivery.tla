---------------------------- MODULE PlanDelivery ----------------------------
(***************************************************************************)
(* What the execution of a plan promises, without threads, retries, money  *)
(* or Git: a delivery is built task by task on what each task needs; work  *)
(* kept when an attempt is given up stays kept and can be put back in the  *)
(* order of the plan; only the whole plan is delivered.                    *)
(*                                                                         *)
(* TaskGraph implements this (TaskGraphProperties!ImplementsDelivery).     *)
(***************************************************************************)
EXTENDS Naturals

CONSTANTS
    Task,     \* the tasks of the plan
    Needs     \* the tasks each task builds on

VARIABLES
    phase,    \* "waiting", "building", "delivered" or "withdrawn"
    built,    \* the tasks in the delivery so far
    kept      \* the tasks whose work survives this attempt

vars == <<phase, built, kept>>

Closed(S) == \A t \in S : Needs[t] \subseteq S

Init == phase = "waiting" /\ built = {} /\ kept = {}

\* An attempt begins with the work that was kept.
Open ==
    /\ phase = "waiting"
    /\ phase' = "building" /\ built' = kept
    /\ UNCHANGED kept

Build(t) ==
    /\ phase = "building" /\ t \notin built /\ Needs[t] \subseteq built
    /\ built' = built \cup {t}
    /\ UNCHANGED <<phase, kept>>

\* An attempt is given up, by a failure, a deadline, the budget or a restart.
\* More may be kept than was built, but nothing that was kept before is lost,
\* and what is kept can be built again from nothing.
GiveUp ==
    /\ phase \in {"waiting", "building"}
    /\ phase' = "waiting" /\ built' = {}
    /\ kept' \in SUBSET Task
    /\ kept \subseteq kept' /\ Closed(kept')

Deliver ==
    /\ phase = "building" /\ built = Task
    /\ phase' = "delivered"
    /\ UNCHANGED <<built, kept>>

\* The user takes the request back.
Withdraw ==
    /\ phase \in {"waiting", "building"}
    /\ phase' = "withdrawn"
    /\ built' \in {built, {}}
    /\ UNCHANGED kept

Next == Open \/ (\E t \in Task : Build(t)) \/ GiveUp \/ Deliver \/ Withdraw

Spec == Init /\ [][Next]_vars
=============================================================================
