---------------------------- MODULE Maintenance ----------------------------
(***************************************************************************)
(* Intake of maintenance requirements (factory/control: submit, dispatch   *)
(* and feedback of maintenance_subsystem.py, the task port of              *)
(* issue_maintenance.py, its execution of issue_maintenance_webuddy.py).   *)
(*                                                                         *)
(* A requirement is received once per idempotency key and dispatched, at   *)
(* once or by a person: a task is claimed for the base branch as it is     *)
(* then, a run is created for the task, handed to the durable queue, and   *)
(* its name is written into the task and the requirement.  Feedback on a   *)
(* task that ended claims its next revision in the same way.  Each of      *)
(* these writes is a transaction of its own; requests run in threads of    *)
(* the service and in processes of the command line, two of them may work  *)
(* on the same requirement, and each may be cut off between any two steps. *)
(*                                                                         *)
(* One project.  The content of a requirement is given by its key; that of *)
(* a revision by its predecessor and the words of the feedback, so two     *)
(* requests with one key differ at most in the commit they start from.     *)
(* What a requirement says of its dispatch besides the task (its status and *)
(* the message of a refusal) is for display and left out.                  *)
(* The branch has commits 1 .. MaxHead, and MaxHead + t is what task t     *)
(* delivered.  The commit a task was claimed for only matters to who       *)
(* claims it again and to exports: planning looks at the branch anew.  A   *)
(* run is what RunLifecycle says, seen from outside: failed, cancelled and *)
(* discarded runs are closed here, one that never had a plan is stopped.   *)
(***************************************************************************)
EXTENDS Naturals, Sequences

CONSTANTS
    Key,          \* idempotency keys of requirements
    Words,        \* what users may say about a result
    Thread,       \* requests at the same time
    MaxHead,      \* commits of the base branch (bound)
    MaxRevision,  \* revisions of a task (bound)
    MaxTroubles   \* requests cut off, refusals while stopping, restarts (bound)

ASSUME BoundsAssumption ==
    /\ MaxHead \in Nat \ {0} /\ MaxRevision \in Nat \ {0} /\ MaxTroubles \in Nat

VARIABLES
    reqs,      \* [Key -> its requirement: received? its task]
    tasks,     \* maintenance_tasks, in order of their claims
    runs,      \* the runs created for them
    head,      \* the commit of the base branch
    plugin,    \* availability of the plugin
    op,        \* [Thread -> the request it is in]
    troubles   \* how many so far

vars == <<reqs, tasks, runs, head, plugin, op, troubles>>

None   == 0
NoWord == "none"
Idle   == [at |-> "idle", pred |-> None, text |-> NoWord, base |-> None,
           task |-> None, run |-> None]

Init ==
    /\ reqs = [k \in Key |-> [received |-> FALSE, task |-> None]]
    /\ tasks = <<>> /\ runs = <<>>
    /\ head = 1 /\ plugin = "enabled"
    /\ op = [h \in Thread |-> Idle] /\ troubles = 0

Trouble == troubles < MaxTroubles /\ troubles' = troubles + 1

At(h, at) == op[h].at = at
Goto(h, at) == op' = [op EXCEPT ![h].at = at]
Leave(h) == op' = [op EXCEPT ![h] = Idle]

\* A dispatch writes the task into the requirement, feedback returns it.
Reply(h, t) == IF op[h].pred # None THEN Leave(h)
               ELSE op' = [op EXCEPT ![h] =
                             [Idle EXCEPT !.at = "answer", !.text = op[h].text, !.task = t]]

-----------------------------------------------------------------------------
(* Requirements.                                                           *)

\* submit: one transaction inserts the requirement; it is dispatched next, or
\* left to a person.  A repeated submission answers from the record.
Submit(h, k) ==
    /\ At(h, "idle") /\ plugin = "enabled" /\ ~reqs[k].received
    /\ reqs' = [reqs EXCEPT ![k].received = TRUE]
    /\ \/ op' = [op EXCEPT ![h].at = "read", ![h].text = k]
       \/ UNCHANGED op
    /\ UNCHANGED <<tasks, runs, head, plugin, troubles>>

\* A person dispatches what was left to them or failed.
Redispatch(h, k) ==
    /\ At(h, "idle") /\ reqs[k].received /\ reqs[k].task = None
    /\ op' = [op EXCEPT ![h].at = "read", ![h].text = k]
    /\ UNCHANGED <<reqs, tasks, runs, head, plugin, troubles>>

\* dispatch: the task starts from the branch as it is now.
Read(h) ==
    /\ At(h, "read")
    /\ IF reqs[op[h].text].task # None \/ plugin # "enabled" THEN Leave(h)
       ELSE op' = [op EXCEPT ![h].at = "claim", ![h].base = head]
    /\ UNCHANGED <<reqs, tasks, runs, head, plugin, troubles>>

Answer(h) ==
    /\ At(h, "answer")
    /\ reqs' = [reqs EXCEPT ![op[h].text].task = op[h].task]
    /\ Leave(h)
    /\ UNCHANGED <<tasks, runs, head, plugin, troubles>>

-----------------------------------------------------------------------------
(* Tasks.                                                                  *)

Claimed(p, x) == {t \in DOMAIN tasks : tasks[t].pred = p /\ tasks[t].text = x}

\* A plausible mistake: only the key is looked at.
UnlessClaimed(p) == TRUE

\* A task has one successor.
Followable(p) == p \notin {t \in DOMAIN tasks : tasks[t].succ # None}

\* A plausible mistake: only the request that claimed a task binds it.
ByItsClaimer(t) == FALSE

\* _bind_execution: a retry finishes what the first call did not.
Unbound(t) == tasks[t].run = None

\* A plausible mistake: revisions counted from zero.
RevisionFromZero(p) == IF p = None THEN 0 ELSE tasks[p].revision + 1

Revision(p) == IF p = None THEN 1 ELSE tasks[p].revision + 1

\* claim: key, content and predecessor are decided in one transaction.
Claim(h) ==
    LET o == op[h]
        new == Len(tasks) + 1
        record == [pred |-> o.pred, text |-> o.text, base |-> o.base,
                   revision |-> Revision(o.pred), succ |-> None, run |-> None]
    IN
    /\ At(h, "claim")
    /\ \/ \E t \in Claimed(o.pred, o.text) :
             /\ IF tasks[t].base # o.base THEN Leave(h)
                ELSE IF Unbound(t) THEN op' = [op EXCEPT ![h].at = "create", ![h].task = t]
                ELSE Reply(h, t)
             /\ UNCHANGED tasks
       \/ /\ Claimed(o.pred, o.text) = {} /\ ~Followable(o.pred)
          /\ Leave(h) /\ UNCHANGED tasks
       \/ /\ Claimed(o.pred, o.text) = {} /\ Followable(o.pred)
          /\ tasks' = Append(IF o.pred = None THEN tasks
                             ELSE [tasks EXCEPT ![o.pred].succ = new], record)
          /\ op' = [op EXCEPT ![h].at = "create", ![h].task = new]
    /\ UNCHANGED <<reqs, runs, head, plugin, troubles>>

-----------------------------------------------------------------------------
(* Runs.                                                                   *)

\* A revision of a delivered task works on the delivered copy.
Continues(t) == tasks[t].base > MaxHead

\* A plausible mistake: a run that exists was dispatched.
DispatchedOnceBuilt(r) == TRUE

\* Was it ever handed to the queue?
Dispatched(r) == runs[r].status # "received" \/ runs[r].queuedBy # "nobody"

NewRun(t) == [task |-> t, status |-> "received", linked |-> FALSE,
              queuedBy |-> "nobody", base |-> None]

\* A plausible mistake: the run is dispatched first.
DispatchFirst(t) == "dispatch"

\* What follows the creation of a run.
FirstStep(t) == IF Continues(t) THEN "link" ELSE "dispatch"

\* create_run: one run for one delivery key, the task's id.
Create(h) ==
    LET t == op[h].task
        made == {r \in DOMAIN runs : runs[r].task = t}
        next(r, now) == op' = [op EXCEPT ![h].at = now, ![h].run = r]
    IN
    /\ At(h, "create")
    /\ IF made = {}
       THEN /\ runs' = Append(runs, NewRun(t)) /\ next(Len(runs) + 1, FirstStep(t))
       ELSE /\ \E r \in made :
                  next(r, IF Continues(t) /\ ~runs[r].linked THEN "relink"
                          ELSE IF Dispatched(r) THEN "bind" ELSE "dispatch")
            /\ UNCHANGED runs
    /\ UNCHANGED <<reqs, tasks, head, plugin, troubles>>

\* The delivery of task t is still there.
Continuable(t) == tasks[t].run # None /\ runs[tasks[t].run].status = "delivered"

\* The predecessor's copy is named before the run is dispatched, or never.  Who
\* found the run instead of creating it looks first whether it was dispatched.
Link(h) ==
    LET o == op[h] IN
    /\ At(h, "link") \/ At(h, "relink")
    /\ IF Continuable(o.pred)
       THEN /\ runs' = [runs EXCEPT ![o.run].linked = TRUE]
            /\ Goto(h, IF At(h, "relink") /\ Dispatched(o.run) THEN "bind" ELSE "dispatch")
       ELSE Leave(h) /\ UNCHANGED runs
    /\ UNCHANGED <<reqs, tasks, head, plugin, troubles>>

\* start_plan and enqueue.  A run that has moved on is refused or left alone.
Dispatch(h) ==
    LET r == op[h].run IN
    /\ At(h, "dispatch")
    /\ \/ /\ runs[r].status = "received"
          /\ runs' = [runs EXCEPT ![r].queuedBy = "request"]
          /\ Goto(h, "bind") /\ UNCHANGED troubles
       \/ /\ runs[r].status # "received"
          /\ Goto(h, "bind") \/ Leave(h)
          /\ UNCHANGED <<runs, troubles>>
       \/ Trouble /\ Leave(h) /\ UNCHANGED runs
    /\ UNCHANGED <<reqs, tasks, head, plugin>>

\* link: the task names its execution.
Bind(h) ==
    /\ At(h, "bind")
    /\ tasks' = [tasks EXCEPT ![op[h].task].run = op[h].run]
    /\ Reply(h, op[h].task)
    /\ UNCHANGED <<reqs, runs, head, plugin, troubles>>

-----------------------------------------------------------------------------
(* What users do with tasks.                                               *)

StatusOf(t) == IF tasks[t].run = None THEN "received" ELSE runs[tasks[t].run].status

\* feedback: on a task that has ended, or stopped before it had a plan (its run
\* is cancelled then).  A delivery is continued on its commit.
Feedback(h, t, x) ==
    LET ended == StatusOf(t) \in {"delivered", "closed"}
        stopped == StatusOf(t) = "stopped"
    IN
    /\ At(h, "idle") /\ t \in DOMAIN tasks
    /\ tasks[t].succ = None /\ tasks[t].revision < MaxRevision
    /\ (ended /\ plugin = "enabled") \/ stopped
    /\ runs' = IF stopped THEN [runs EXCEPT ![tasks[t].run].status = "closed"] ELSE runs
    /\ op' = IF plugin # "enabled" THEN op
             ELSE [op EXCEPT ![h] =
                     [Idle EXCEPT !.at = "claim", !.pred = t, !.text = x,
                        !.base = IF StatusOf(t) = "delivered" THEN MaxHead + t ELSE head]]
    /\ UNCHANGED <<reqs, tasks, head, plugin, troubles>>

-----------------------------------------------------------------------------
(* The runs, the service and the project around them.                      *)

Step(r, from, to) ==
    /\ r \in DOMAIN runs /\ runs[r].status \in from
    /\ \E s \in to : runs' = [runs EXCEPT ![r].status = s]
    /\ UNCHANGED <<reqs, tasks, head, plugin, op, troubles>>

\* The commits a run may work on now: of the predecessor's copy if it is linked
\* to one (none if that is gone), of the base branch otherwise.
Checkout(r) ==
    LET p == tasks[runs[r].task].pred IN
    IF ~runs[r].linked THEN {head} ELSE IF Continuable(p) THEN {MaxHead + p} ELSE {}

\* A run is planned on the commit found then.
Plan(r) ==
    /\ r \in DOMAIN runs /\ runs[r].status = "received" /\ runs[r].queuedBy # "nobody"
    /\ \/ \E c \in Checkout(r) :
             runs' = [runs EXCEPT ![r].status = "planning", ![r].base = c]
       \/ Checkout(r) = {} /\ runs' = [runs EXCEPT ![r].status = "stopped"]
    /\ UNCHANGED <<reqs, tasks, head, plugin, op, troubles>>

Planned(r) == Step(r, {"planning"}, {"waiting", "stopped"})

\* Allowed or approved, a plan is carried out on the commit it was made for, or
\* waits for a new one.
Execute(r) ==
    \/ Step(r, {"planning"}, {IF runs[r].base \in Checkout(r) THEN "working" ELSE "waiting"})
    \/ r \in DOMAIN runs /\ runs[r].base \in Checkout(r) /\ Step(r, {"waiting"}, {"working"})

\* clarify: somebody's words send a run back to planning, wherever it came from.
Replan(r) ==
    /\ r \in DOMAIN runs /\ runs[r].status \in {"waiting", "stopped"}
    /\ runs' = [runs EXCEPT ![r].status = "received", ![r].base = None,
                   ![r].queuedBy = IF @ = "nobody" THEN "other" ELSE @]
    /\ UNCHANGED <<reqs, tasks, head, plugin, op, troubles>>

End(r) == Step(r, {"working"}, {"delivered", "waiting", "closed"})

\* cancel and discard, of a task's execution or of any run.  A task that names
\* no execution only notes the wish, which nothing reads before the dispatch.
Cancel(r) ==
    Step(r, {"received", "planning", "waiting", "stopped", "working", "delivered"}, {"closed"})

MoveBranch ==
    /\ head < MaxHead /\ head' = head + 1
    /\ UNCHANGED <<reqs, tasks, runs, plugin, op, troubles>>

\* active_task_count: a task without execution may still get one.
Live(t) == StatusOf(t) \in {"received", "planning", "waiting", "stopped", "working"}

SetState ==
    /\ plugin' \in CASE plugin = "enabled"  -> {"draining"}
                     [] plugin = "draining" -> {"enabled"} \cup
                           {s \in {"disabled"} : \A t \in DOMAIN tasks : ~Live(t)}
                     [] plugin = "disabled" -> {"enabled", "draining"}
    /\ UNCHANGED <<reqs, tasks, runs, head, op, troubles>>

\* recover, for one run, under a policy that resumes or does not.
Recovered(r, resume) ==
    CASE runs[r].status \in {"received", "planning"} ->
            IF resume \/ (runs[r].linked /\ runs[r].status = "received")
            THEN [runs[r] EXCEPT !.status = "received",
                    !.queuedBy = IF @ = "nobody" THEN "other" ELSE @]
            ELSE [runs[r] EXCEPT !.status = "stopped"]
      [] runs[r].status = "working" -> [runs[r] EXCEPT !.status = "waiting"]
      [] OTHER -> runs[r]

\* The service restarts.  Requests of the command line may survive it.
Restart ==
    /\ Trouble
    /\ \E dead \in SUBSET Thread : op' = [h \in Thread |-> IF h \in dead THEN Idle ELSE op[h]]
    /\ \E resuming \in SUBSET DOMAIN runs :
          runs' = [r \in DOMAIN runs |-> Recovered(r, r \in resuming)]
    /\ UNCHANGED <<reqs, tasks, head, plugin>>

\* A request ends where it is: its process is killed, Git does not answer in
\* time, or the database stays locked.
Abort(h) ==
    /\ ~At(h, "idle") /\ Trouble /\ Leave(h)
    /\ UNCHANGED <<reqs, tasks, runs, head, plugin>>

Request(h) ==
    Read(h) \/ Claim(h) \/ Create(h) \/ Link(h) \/ Dispatch(h)
    \/ Bind(h) \/ Answer(h)

Next ==
    \/ \E h \in Thread : Request(h) \/ Abort(h)
    \/ \E h \in Thread, k \in Key : Submit(h, k) \/ Redispatch(h, k)
    \/ \E h \in Thread, t \in DOMAIN tasks, x \in Words : Feedback(h, t, x)
    \/ \E r \in DOMAIN runs :
          Plan(r) \/ Planned(r) \/ Execute(r) \/ Replan(r) \/ End(r) \/ Cancel(r)
    \/ MoveBranch \/ SetState \/ Restart

Spec == Init /\ [][Next]_vars
=============================================================================
