----------------------- MODULE MaintenanceProperties -----------------------
(***************************************************************************)
(* What the intake of maintenance requirements promises.                   *)
(***************************************************************************)
EXTENDS Maintenance

Statuses == {"received", "planning", "waiting", "stopped", "working",
             "delivered", "closed"}
Steps == {"idle", "read", "claim", "create", "link", "relink", "dispatch", "bind", "answer"}

Tasks == None .. Len(tasks)
Runs  == None .. Len(runs)
Bases == 1 .. MaxHead + Len(tasks)

TaskShape == [pred : Tasks, text : Key \cup Words, base : Bases,
              revision : 1 .. MaxRevision, succ : Tasks, run : Runs]
RunShape  == [task : 1 .. Len(tasks), status : Statuses, linked : BOOLEAN,
              queuedBy : {"nobody", "request", "other"}, base : {None} \cup Bases]
OpShape   == [at : Steps, pred : Tasks, text : Key \cup Words \cup {NoWord},
              base : {None} \cup Bases, task : Tasks, run : Runs]

\* Records have the declared shape and name tasks and runs that exist; revisions
\* count from one.
TypeOK ==
    /\ reqs \in [Key -> [received : BOOLEAN, task : Tasks]]
    /\ tasks \in Seq(TaskShape) /\ runs \in Seq(RunShape)
    /\ head \in 1 .. MaxHead /\ plugin \in {"enabled", "draining", "disabled"}
    /\ op \in [Thread -> OpShape]
    /\ troubles \in 0 .. MaxTroubles

\* However many requests claim, repeat and die: a requirement has one first
\* task, a task one successor, which names it and is its next revision, and one
\* execution.  ("two concurrent imports cannot both create a task and cannot
\* both open a workspace", claim)
OneChain ==
    /\ \A s, t \in DOMAIN tasks :
          tasks[s].pred = tasks[t].pred /\ (tasks[s].pred = None => tasks[s].text = tasks[t].text)
             => s = t
    /\ \A t \in DOMAIN tasks : tasks[t].pred # None =>
          /\ tasks[tasks[t].pred].succ = t
          /\ tasks[t].revision = tasks[tasks[t].pred].revision + 1
    /\ \A r, s \in DOMAIN runs : runs[r].task = runs[s].task => r = s
    /\ \A t \in DOMAIN tasks : tasks[t].run # None => runs[tasks[t].run].task = t

\* A task that names an execution, and so what a requirement is dispatched to,
\* has one that is on its way: whoever created the run, and whoever died since,
\* it is in the queue or has left it.  (_dispatched: not "built and then never
\* queued sitting in received with nothing coming for it")
BoundIsQueued ==
    /\ \A k \in Key : reqs[k].task # None => tasks[reqs[k].task].run # None
    /\ \A t \in DOMAIN tasks : tasks[t].run # None =>
          runs[tasks[t].run].queuedBy # "nobody" \/ runs[tasks[t].run].status # "received"

\* A revision of a delivered task that its request dispatched is planned and
\* carried out on the delivery, whoever else finds, restarts or replans the run:
\* "redoing from the old baseline would silently drop the delivered change"
\* (feedback).
KeepsDelivered ==
    \A r \in DOMAIN runs :
        Continues(runs[r].task) /\ runs[r].queuedBy = "request"
        /\ runs[r].status \in {"planning", "waiting", "working", "delivered"}
           => runs[r].base = tasks[runs[r].task].base

\* What the source notes of every run: "The executor refuses to run if the branch
\* has moved off this commit" (submit).  Not so: planning and execution compare
\* the branch with each other, never with the task.
PinnedBase ==
    \A r \in DOMAIN runs :
        runs[r].status = "working" => runs[r].base = tasks[runs[r].task].base

-----------------------------------------------------------------------------
\* Requests proceed, and a person dispatches again what is not dispatched.
Fairness ==
    /\ \A h \in Thread : WF_vars(Request(h))
    /\ \A k \in Key : SF_vars(\E h \in Thread : Redispatch(h, k))

FairSpec == Spec /\ Fairness

BoundFor(k) == \E t \in Claimed(None, k) : tasks[t].run # None
Moved(k)    == \E t \in Claimed(None, k) : tasks[t].base # head

\* A requirement that was received gets its execution, wherever earlier requests
\* were cut off: the "interrupted windows ... all converge on the same
\* execution" (_bind_execution), as long as the base branch is the one it was
\* claimed for and the plugin takes work.
Converges ==
    \A k \in Key : reqs[k].received ~> BoundFor(k) \/ Moved(k) \/ plugin # "enabled"
=============================================================================
