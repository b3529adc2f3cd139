------------------------- MODULE MaintenanceProofs -------------------------
(***************************************************************************)
(* For every number of keys, requests, revisions and troubles: what        *)
(* MaintenanceProperties states of the records of the maintenance intake.  *)
(*                                                                         *)
(* The inductive invariant adds to the properties what a request under way *)
(* relies on (Holds): the task it claimed or found, the run that belongs   *)
(* to this task, that a run it is about to dispatch is linked to the       *)
(* delivery it continues, and, once it is about to bind, that the run was  *)
(* handed to the queue.  Tasks and runs only grow in what a request relies *)
(* on (Grows), so no step of another request can take it away.             *)
(***************************************************************************)
EXTENDS MaintenanceProperties, SequenceTheorems, TLAPS

Handed(rs, r) == rs[r].queuedBy # "nobody" \/ rs[r].status # "received"

UnderPlan == {"planning", "waiting", "working", "delivered"}

\* A run that was dispatched for a revision of a delivery continues it.
Keeps(ts, rs, r) ==
    ts[rs[r].task].base > MaxHead /\ rs[r].queuedBy = "request" =>
        rs[r].linked /\ (rs[r].status \in UnderPlan => rs[r].base = ts[rs[r].task].base)

\* What is not the base branch is the predecessor's delivery.
OnDelivery(p, base) == base > MaxHead => base = MaxHead + p

Owning == {"create", "link", "relink", "dispatch", "bind", "answer"}
Built  == {"link", "relink", "dispatch", "bind"}

\* What request o relies on.
Holds(o, ts, rs) ==
    /\ o.at \in {"idle", "read"}  => o.pred = None
    /\ o.at \in {"read", "claim"} => o.text \in Key \cup Words
    /\ o.at = "claim" => /\ o.base # None /\ OnDelivery(o.pred, o.base)
                         /\ o.pred # None => ts[o.pred].revision < MaxRevision
    /\ o.at \in Owning => o.task # None
    /\ o.at \in Built  => o.run # None /\ rs[o.run].task = o.task
    /\ o.at = "dispatch" /\ ts[o.task].base > MaxHead => rs[o.run].linked
    /\ o.at = "bind"   => Handed(rs, o.run)
    /\ o.at = "answer" => ts[o.task].run # None

Requests == \A h \in Thread : Holds(op[h], tasks, runs)

Continued ==
    /\ \A t \in DOMAIN tasks : OnDelivery(tasks[t].pred, tasks[t].base)
    /\ \A r \in DOMAIN runs : Keeps(tasks, runs, r)

Inv == TypeOK /\ OneChain /\ BoundIsQueued /\ Continued /\ Requests

\* What later tasks and runs keep of earlier ones.
Grows(ts, rs, ts2, rs2) ==
    /\ Len(ts) <= Len(ts2) /\ Len(rs) <= Len(rs2)
    /\ \A t \in 1 .. Len(ts) :
          /\ ts2[t].revision = ts[t].revision /\ ts2[t].base = ts[t].base
          /\ ts[t].run # None => ts2[t].run # None
    /\ \A r \in 1 .. Len(rs) :
          /\ rs2[r].task = rs[r].task /\ (Handed(rs, r) => Handed(rs2, r))
          /\ rs[r].linked => rs2[r].linked

-----------------------------------------------------------------------------
(* Sequences of records.                                                   *)

LEMMA Changed ==
    ASSUME NEW S, NEW s \in Seq(S), NEW i \in 1 .. Len(s), NEW e \in S,
           NEW f, f = [s EXCEPT ![i] = e]
    PROVE  /\ f \in Seq(S) /\ Len(f) = Len(s) /\ f[i] = e
           /\ \A j \in 1 .. Len(s) : j # i => f[j] = s[j]
BY ExceptSeq, LenProperties

LEMMA Added ==
    ASSUME NEW S, NEW s \in Seq(S), NEW e \in S
    PROVE  /\ Append(s, e) \in Seq(S) /\ Len(Append(s, e)) = Len(s) + 1
           /\ Append(s, e)[Len(s) + 1] = e
           /\ \A j \in 1 .. Len(s) : Append(s, e)[j] = s[j]
BY AppendProperties, LenProperties

\* What the type invariant says of single records.
LEMMA Elements ==
    ASSUME TypeOK
    PROVE  /\ Len(tasks) \in Nat /\ DOMAIN tasks = 1 .. Len(tasks)
           /\ Len(runs) \in Nat /\ DOMAIN runs = 1 .. Len(runs)
           /\ \A t \in 1 .. Len(tasks) : tasks[t] \in TaskShape
           /\ \A r \in 1 .. Len(runs) : runs[r] \in RunShape
           /\ \A h \in Thread : op[h] \in OpShape
           /\ \A k \in Key : reqs[k] \in [received : BOOLEAN, task : Tasks]
<1>1. tasks \in Seq(TaskShape) /\ runs \in Seq(RunShape)
  BY DEF TypeOK
<1>2. /\ Len(tasks) \in Nat /\ DOMAIN tasks = 1 .. Len(tasks)
      /\ Len(runs) \in Nat /\ DOMAIN runs = 1 .. Len(runs)
  BY <1>1, LenProperties
<1>3. \A t \in 1 .. Len(tasks) : tasks[t] \in TaskShape
  BY <1>1, ElementOfSeq
<1>4. \A r \in 1 .. Len(runs) : runs[r] \in RunShape
  BY <1>1, ElementOfSeq
<1> QED BY <1>2, <1>3, <1>4 DEF TypeOK

-----------------------------------------------------------------------------
(* Frames.                                                                 *)

\* A request keeps what it relies on while tasks and runs grow.
LEMMA StillHolds ==
    ASSUME TypeOK, NEW h \in Thread, Holds(op[h], tasks, runs),
           Grows(tasks, runs, tasks', runs')
    PROVE  Holds(op[h], tasks', runs')
<1>1. /\ op[h].pred \in 0 .. Len(tasks) /\ op[h].task \in 0 .. Len(tasks)
      /\ op[h].run \in 0 .. Len(runs)
  BY Elements DEF OpShape, Tasks, Runs, None
<1>2. op[h].pred # None =>
        tasks'[op[h].pred].revision = tasks[op[h].pred].revision
  BY <1>1, Elements DEF Grows, None
<1>3. op[h].task # None =>
        /\ tasks'[op[h].task].base = tasks[op[h].task].base
        /\ tasks[op[h].task].run # None => tasks'[op[h].task].run # None
  BY <1>1, Elements DEF Grows, None
<1>4. op[h].run # None =>
        /\ runs'[op[h].run].task = runs[op[h].run].task
        /\ Handed(runs, op[h].run) => Handed(runs', op[h].run)
        /\ runs[op[h].run].linked => runs'[op[h].run].linked
  BY <1>1, Elements DEF Grows, None
<1> QED BY <1>2, <1>3, <1>4 DEF Holds, Owning, Built

\* One request moves, tasks and runs grow, the others keep what they rely on.
LEMMA OneMoves ==
    ASSUME TypeOK, Requests, NEW h \in Thread, NEW e,
           op' = [op EXCEPT ![h] = e], Holds(e, tasks', runs'),
           Grows(tasks, runs, tasks', runs')
    PROVE  Requests'
<1> SUFFICES ASSUME NEW g \in Thread PROVE Holds(op'[g], tasks', runs')
  BY DEF Requests
<1>1. op'[g] = IF g = h THEN e ELSE op[g]
  BY DEF TypeOK
<1>2. Holds(op[g], tasks', runs')
  BY StillHolds DEF Requests
<1> QED BY <1>1, <1>2

LEMMA Same ==
    ASSUME TypeOK, UNCHANGED <<tasks, runs>>
    PROVE  Grows(tasks, runs, tasks', runs')
BY Elements DEF Grows, Handed

\* A step that leaves requirements, tasks and runs alone.
LEMMA RecordsSame ==
    ASSUME Inv, UNCHANGED <<reqs, tasks, runs>>
    PROVE  OneChain' /\ BoundIsQueued' /\ Continued'
BY DEF Inv, OneChain, BoundIsQueued, Continued, Keeps

\* A step that changes runs, and none of what tasks and requests rely on.
RunsKept ==
    /\ UNCHANGED <<reqs, tasks>>
    /\ runs' \in Seq(RunShape) /\ Len(runs') = Len(runs)
    /\ \A r \in 1 .. Len(runs) :
          /\ runs'[r].task = runs[r].task
          /\ Handed(runs, r) => Handed(runs', r)
          /\ runs[r].linked => runs'[r].linked
          /\ Keeps(tasks, runs', r)

LEMMA RunsChange ==
    ASSUME Inv, RunsKept
    PROVE  /\ OneChain' /\ BoundIsQueued' /\ Continued'
           /\ Grows(tasks, runs, tasks', runs')
<1>1. DOMAIN runs' = 1 .. Len(runs) /\ DOMAIN runs = 1 .. Len(runs)
  BY Elements, LenProperties DEF Inv, RunsKept
<1>2. \A t \in DOMAIN tasks : tasks[t].run # None => tasks[t].run \in 1 .. Len(runs)
  BY Elements DEF Inv, TaskShape, Runs, None
<1>3. OneChain'
  BY <1>1, <1>2 DEF Inv, OneChain, RunsKept
<1>4. BoundIsQueued'
  BY <1>1, <1>2 DEF Inv, BoundIsQueued, RunsKept, Handed
<1>5. Continued'
  BY <1>1 DEF Inv, Continued, RunsKept
<1>6. Grows(tasks, runs, tasks', runs')
  BY Elements DEF Inv, Grows, RunsKept
<1> QED BY <1>3, <1>4, <1>5, <1>6

\* A request that goes to another step, everything else the same.
LEMMA Moves ==
    ASSUME Inv, NEW h \in Thread, NEW e \in OpShape, op' = [op EXCEPT ![h] = e],
           Holds(e, tasks, runs), UNCHANGED <<reqs, tasks, runs, head>>,
           plugin' \in {"enabled", "draining", "disabled"}, troubles' \in 0 .. MaxTroubles
    PROVE  Inv'
<1>1. TypeOK'
  <2>1. op' \in [Thread -> OpShape]
    BY DEF Inv, TypeOK
  <2>2. OpShape' = OpShape /\ TaskShape' = TaskShape /\ RunShape' = RunShape /\ Tasks' = Tasks
    BY DEF OpShape, TaskShape, RunShape, Tasks, Runs, Bases
  <2> QED BY <2>1, <2>2 DEF Inv, TypeOK
<1>2. Requests'
  <2>1. Grows(tasks, runs, tasks', runs')
    BY Same DEF Inv
  <2> QED BY <2>1, OneMoves DEF Inv
<1>3. OneChain' /\ BoundIsQueued' /\ Continued'
  BY RecordsSame
<1> QED BY <1>1, <1>2, <1>3 DEF Inv

LEMMA IdleHolds ==
    ASSUME TypeOK, NEW ts, NEW rs
    PROVE  Idle \in OpShape /\ Holds(Idle, ts, rs)
<1>1. Len(tasks) \in Nat /\ Len(runs) \in Nat
  BY Elements
<1> QED BY <1>1 DEF Idle, OpShape, Holds, Tasks, Runs, Steps, None, Owning, Built

\* A request that ends.
LEMMA Leaves ==
    ASSUME Inv, NEW h \in Thread, Leave(h), UNCHANGED <<reqs, tasks, runs, head, plugin>>,
           troubles' \in 0 .. MaxTroubles
    PROVE  Inv'
<1>1. Idle \in OpShape /\ Holds(Idle, tasks, runs)
  BY IdleHolds DEF Inv
<1>2. plugin' \in {"enabled", "draining", "disabled"}
  BY DEF Inv, TypeOK
<1> QED BY <1>1, <1>2, Moves DEF Leave

-----------------------------------------------------------------------------
(* Requirements.                                                           *)

LEMMA SubmitInv == ASSUME Inv, NEW h \in Thread, NEW k \in Key, Submit(h, k) PROVE Inv'
<1>1. op[h] \in OpShape /\ Holds(op[h], tasks, runs) /\ op[h].at = "idle"
  BY Elements DEF Inv, Requests, Submit, At
<1> DEFINE e == [op[h] EXCEPT !.at = "read", !.text = k]
<1>2. e \in OpShape /\ Holds(e, tasks, runs)
  BY <1>1 DEF OpShape, Steps, Holds, Owning, Built
<1>3. \/ op' = [op EXCEPT ![h] = e]
      \/ op' = [op EXCEPT ![h] = op[h]]
  BY DEF Submit, Inv, TypeOK
<1>4. Grows(tasks, runs, tasks', runs')
  BY Same DEF Inv, Submit
<1>5. Requests'
  BY <1>1, <1>2, <1>3, <1>4, OneMoves DEF Inv, Submit
<1>6. TypeOK'
  <2>1. op' \in [Thread -> OpShape]
    BY <1>1, <1>2, <1>3 DEF Inv, TypeOK
  <2>2. reqs' \in [Key -> [received : BOOLEAN, task : Tasks]]
    BY DEF Inv, TypeOK, Submit
  <2>3. OpShape' = OpShape /\ TaskShape' = TaskShape /\ RunShape' = RunShape /\ Tasks' = Tasks
    BY DEF Submit, OpShape, TaskShape, RunShape, Tasks, Runs, Bases
  <2> QED BY <2>1, <2>2, <2>3 DEF Inv, TypeOK, Submit
<1>7. BoundIsQueued'
  <2>1. \A j \in Key : reqs'[j].task = reqs[j].task
    BY DEF Inv, TypeOK, Submit
  <2> QED BY <2>1 DEF Inv, BoundIsQueued, Submit
<1>8. OneChain' /\ Continued'
  BY DEF Inv, OneChain, Continued, Keeps, Submit
<1> QED BY <1>5, <1>6, <1>7, <1>8 DEF Inv

LEMMA RedispatchInv == ASSUME Inv, NEW h \in Thread, NEW k \in Key, Redispatch(h, k) PROVE Inv'
<1>1. op[h] \in OpShape /\ Holds(op[h], tasks, runs) /\ op[h].at = "idle"
  BY Elements DEF Inv, Requests, Redispatch, At
<1> DEFINE e == [op[h] EXCEPT !.at = "read", !.text = k]
<1>2. e \in OpShape /\ Holds(e, tasks, runs)
  BY <1>1 DEF OpShape, Steps, Holds, Owning, Built
<1>3. op' = [op EXCEPT ![h] = e]
  BY DEF Redispatch
<1>4. plugin' \in {"enabled", "draining", "disabled"} /\ troubles' \in 0 .. MaxTroubles
  BY DEF Redispatch, Inv, TypeOK
<1> QED BY <1>2, <1>3, <1>4, Moves DEF Redispatch

LEMMA ReadInv == ASSUME Inv, NEW h \in Thread, Read(h) PROVE Inv'
<1>1. op[h] \in OpShape /\ Holds(op[h], tasks, runs) /\ op[h].at = "read"
  BY Elements DEF Inv, Requests, Read, At
<1>2. plugin' \in {"enabled", "draining", "disabled"} /\ troubles' \in 0 .. MaxTroubles
  BY DEF Read, Inv, TypeOK
<1>3. CASE Leave(h)
  BY <1>2, <1>3, Leaves DEF Read
<1>4. CASE op' = [op EXCEPT ![h].at = "claim", ![h].base = head]
  <2> DEFINE e == [op[h] EXCEPT !.at = "claim", !.base = head]
  <2>1. head \in Bases /\ head # None /\ OnDelivery(op[h].pred, head)
    BY Elements, BoundsAssumption DEF Inv, TypeOK, Bases, None, OnDelivery
  <2>2. e \in OpShape /\ Holds(e, tasks, runs)
    BY <1>1, <2>1 DEF OpShape, Steps, Holds, Owning, Built
  <2>3. op' = [op EXCEPT ![h] = e]
    BY <1>4
  <2> QED BY <1>2, <2>2, <2>3, Moves DEF Read
<1> QED BY <1>3, <1>4 DEF Read

LEMMA AnswerInv == ASSUME Inv, NEW h \in Thread, Answer(h) PROVE Inv'
<1>1. op[h] \in OpShape /\ Holds(op[h], tasks, runs) /\ op[h].at = "answer"
  BY Elements DEF Inv, Requests, Answer, At
<1>2. op[h].task \in Tasks /\ tasks[op[h].task].run # None
  BY <1>1 DEF OpShape, Holds
<1>3. \A k \in Key : reqs'[k].task \in {reqs[k].task, op[h].task}
  BY DEF Inv, TypeOK, Answer
<1>4. Grows(tasks, runs, tasks', runs')
  BY Same DEF Inv, Answer
<1>5. Requests'
  BY <1>4, OneMoves, IdleHolds DEF Inv, Answer, Leave
<1>6. TypeOK'
  <2>1. op' \in [Thread -> OpShape]
    BY IdleHolds DEF Inv, TypeOK, Answer, Leave
  <2>2. reqs' \in [Key -> [received : BOOLEAN, task : Tasks]]
    BY <1>2 DEF Inv, TypeOK, Answer
  <2>3. OpShape' = OpShape /\ TaskShape' = TaskShape /\ RunShape' = RunShape /\ Tasks' = Tasks
    BY DEF Answer, OpShape, TaskShape, RunShape, Tasks, Runs, Bases
  <2> QED BY <2>1, <2>2, <2>3 DEF Inv, TypeOK, Answer
<1>7. BoundIsQueued'
  BY <1>2, <1>3 DEF Inv, BoundIsQueued, Answer
<1>8. OneChain' /\ Continued'
  BY DEF Inv, OneChain, Continued, Keeps, Answer
<1> QED BY <1>5, <1>6, <1>7, <1>8 DEF Inv

-----------------------------------------------------------------------------
(* Tasks.                                                                  *)

\* A claimed task is found.
LEMMA FoundInv ==
    ASSUME Inv, NEW h \in Thread, At(h, "claim"),
           NEW t \in Claimed(op[h].pred, op[h].text),
           IF tasks[t].base # op[h].base THEN Leave(h)
           ELSE IF Unbound(t) THEN op' = [op EXCEPT ![h].at = "create", ![h].task = t]
           ELSE Reply(h, t),
           UNCHANGED <<reqs, tasks, runs, head, plugin, troubles>>
    PROVE  Inv'
<1>1. op[h] \in OpShape /\ t \in 1 .. Len(tasks) /\ op[h].at = "claim"
  BY Elements DEF Inv, Claimed, At
<1>2. plugin' \in {"enabled", "draining", "disabled"} /\ troubles' \in 0 .. MaxTroubles
  BY DEF Inv, TypeOK
<1>3. t \in Tasks /\ t # None
  BY <1>1, Elements DEF Inv, Tasks, None
<1>4. CASE Leave(h)
  BY <1>2, <1>4, Leaves
<1>5. CASE op' = [op EXCEPT ![h].at = "create", ![h].task = t]
  <2> DEFINE e == [op[h] EXCEPT !.at = "create", !.task = t]
  <2>1. e \in OpShape /\ Holds(e, tasks, runs)
    BY <1>1, <1>3 DEF OpShape, Steps, Holds, Owning, Built
  <2>2. op' = [op EXCEPT ![h] = e]
    BY <1>5
  <2> QED BY <1>2, <2>1, <2>2, Moves
<1>6. CASE ~Unbound(t) /\ Reply(h, t) /\ ~Leave(h)
  <2> DEFINE e == [Idle EXCEPT !.at = "answer", !.text = op[h].text, !.task = t]
  <2>1. e \in OpShape /\ Holds(e, tasks, runs)
    BY <1>1, <1>3, <1>6, IdleHolds DEF Inv, OpShape, Steps, Holds, Owning, Built, Unbound, Idle
  <2>2. op' = [op EXCEPT ![h] = e]
    BY <1>6 DEF Reply
  <2> QED BY <1>2, <2>1, <2>2, Moves
<1> QED BY <1>4, <1>5, <1>6

\* The tasks after a claim: the new one is last, its predecessor names it.
NewTask(p, x, base) ==
    [pred |-> p, text |-> x, base |-> base, revision |-> Revision(p), succ |-> None,
     run |-> None]

Grown(ts, p, e) ==
    /\ Len(ts) = Len(tasks) + 1 /\ DOMAIN ts = 1 .. Len(tasks) + 1
    /\ ts[Len(tasks) + 1] = e
    /\ \A t \in 1 .. Len(tasks) :
          /\ ts[t].pred = tasks[t].pred /\ ts[t].text = tasks[t].text
          /\ ts[t].base = tasks[t].base /\ ts[t].revision = tasks[t].revision
          /\ ts[t].run = tasks[t].run
          /\ ts[t].succ = IF t = p THEN Len(tasks) + 1 ELSE tasks[t].succ

LEMMA ClaimGrows ==
    ASSUME TypeOK, NEW p \in Tasks, NEW x \in Key \cup Words, NEW base \in Bases,
           p # None => tasks[p].revision < MaxRevision,
           UNCHANGED runs,
           tasks' = Append(IF p = None THEN tasks
                           ELSE [tasks EXCEPT ![p].succ = Len(tasks) + 1],
                           NewTask(p, x, base))
    PROVE  tasks' \in Seq(TaskShape') /\ Grown(tasks', p, NewTask(p, x, base))
<1> DEFINE n == Len(tasks)
           Shape == [pred : None .. n + 1, text : Key \cup Words, base : 1 .. MaxHead + (n + 1),
                     revision : 1 .. MaxRevision, succ : None .. n + 1, run : Runs]
           linked == IF p = None THEN tasks ELSE [tasks EXCEPT ![p].succ = n + 1]
           e == NewTask(p, x, base)
<1>1. n \in Nat /\ MaxHead \in Nat /\ Runs = 0 .. Len(runs) /\ Len(runs) \in Nat
  BY Elements, BoundsAssumption DEF Runs, None
<1>0. TaskShape \subseteq Shape
  BY <1>1 DEF TaskShape, Tasks, Bases, None
<1>p. p # None => p \in 1 .. n /\ tasks[p] \in TaskShape
  <2> HIDE DEF Shape, linked, e
  <2> QED BY <1>1, Elements DEF Tasks, None
<1>2. tasks \in Seq(Shape)
  <2> HIDE DEF Shape
  <2> QED BY <1>0, SeqMonotonic DEF TypeOK
<1>3. e \in Shape
  <2>1. p # None => tasks[p].revision \in 1 .. MaxRevision
    BY <1>p DEF TaskShape
  <2>2. Revision(p) \in 1 .. MaxRevision
    BY <2>1, BoundsAssumption DEF Revision
  <2> QED BY <1>1, <2>2 DEF NewTask, Tasks, Bases, None
<1>4. /\ linked \in Seq(Shape) /\ Len(linked) = n
      /\ \A t \in 1 .. n :
            linked[t] = IF t = p THEN [tasks[t] EXCEPT !.succ = n + 1] ELSE tasks[t]
  <2>1. CASE p = None
    BY <1>1, <1>2, <2>1 DEF None
  <2>2. CASE p # None
    <3> DEFINE u == [tasks[p] EXCEPT !.succ = n + 1]
    <3>1. p \in 1 .. n /\ tasks[p] \in Shape
      BY <1>p, <1>0, <2>2
    <3>2. u \in Shape
      BY <1>1, <3>1 DEF None
    <3>3. linked = [tasks EXCEPT ![p] = u]
      BY <2>2
    <3> HIDE DEF u, Shape, linked
    <3>4. /\ linked \in Seq(Shape) /\ Len(linked) = n /\ linked[p] = u
          /\ \A j \in 1 .. n : j # p => linked[j] = tasks[j]
      BY <1>2, <3>1, <3>2, <3>3, Changed
    <3> QED BY <3>4 DEF u
  <2> QED BY <2>1, <2>2
<1>5. tasks' = Append(linked, e)
  OBVIOUS
<1> HIDE DEF linked, e
<1>6. /\ tasks' \in Seq(Shape) /\ Len(tasks') = n + 1 /\ tasks'[n + 1] = e
      /\ \A j \in 1 .. n : tasks'[j] = linked[j]
  <2> HIDE DEF Shape
  <2>1. /\ Append(linked, e) \in Seq(Shape) /\ Len(Append(linked, e)) = Len(linked) + 1
        /\ Append(linked, e)[Len(linked) + 1] = e
        /\ \A j \in 1 .. Len(linked) : Append(linked, e)[j] = linked[j]
    BY <1>3, <1>4, Added
  <2> QED BY <1>4, <1>5, <2>1
<1>7. Shape = TaskShape'
  BY <1>1, <1>6 DEF TaskShape, Tasks, Bases, Runs
<1>8. DOMAIN tasks' = 1 .. n + 1
  BY <1>6, LenProperties
<1>9. Grown(tasks', p, e)
  <2> HIDE DEF Shape
  <2>1. \A t \in 1 .. n : tasks'[t] = IF t = p THEN [tasks[t] EXCEPT !.succ = n + 1] ELSE tasks[t]
    BY <1>4, <1>6
  <2>2. \A t \in 1 .. n : tasks[t] \in TaskShape
    BY Elements
  <2>3. ASSUME NEW t \in 1 .. n
        PROVE  /\ tasks'[t].pred = tasks[t].pred /\ tasks'[t].text = tasks[t].text
               /\ tasks'[t].base = tasks[t].base /\ tasks'[t].revision = tasks[t].revision
               /\ tasks'[t].run = tasks[t].run
               /\ tasks'[t].succ = IF t = p THEN n + 1 ELSE tasks[t].succ
    BY <2>1, <2>2 DEF TaskShape
  <2> QED BY <1>6, <1>8, <2>3 DEF Grown
<1> QED BY <1>6, <1>7, <1>9 DEF e

\* A task is claimed anew.
LEMMA NewClaimInv ==
    ASSUME Inv, NEW h \in Thread, At(h, "claim"),
           Claimed(op[h].pred, op[h].text) = {}, Followable(op[h].pred),
           tasks' = Append(IF op[h].pred = None THEN tasks
                           ELSE [tasks EXCEPT ![op[h].pred].succ = Len(tasks) + 1],
                           NewTask(op[h].pred, op[h].text, op[h].base)),
           op' = [op EXCEPT ![h].at = "create", ![h].task = Len(tasks) + 1],
           UNCHANGED <<reqs, runs, head, plugin, troubles>>
    PROVE  Inv'
<1> DEFINE p == op[h].pred
           x == op[h].text
           n == Len(tasks)
           e == [op[h] EXCEPT !.at = "create", !.task = n + 1]
<1>1. /\ op[h] \in OpShape /\ op[h].at = "claim"
      /\ p \in Tasks /\ x \in Key \cup Words /\ op[h].base \in Bases
      /\ p # None => tasks[p].revision < MaxRevision
      /\ OnDelivery(p, op[h].base)
  BY Elements DEF Inv, Requests, At, Holds, OpShape
<1>2. n \in Nat /\ DOMAIN tasks = 1 .. n /\ Tasks = 0 .. n /\ MaxHead \in Nat
      /\ Len(runs) \in Nat /\ DOMAIN runs = 1 .. Len(runs)
  BY Elements, BoundsAssumption DEF Inv, Tasks, None
<1>3. tasks' \in Seq(TaskShape') /\ Grown(tasks', p, NewTask(p, x, op[h].base))
  BY <1>1, ClaimGrows DEF Inv
<1> HIDE DEF p, x, n
<1>4. Grows(tasks, runs, tasks', runs')
  BY <1>2, <1>3 DEF Grows, Grown, Handed, n
<1>5. TypeOK'
  <2>1. /\ Tasks \subseteq Tasks' /\ Bases \subseteq Bases' /\ Runs' = Runs
        /\ n + 1 \in Tasks' /\ 1 .. n \subseteq 1 .. Len(tasks')
    BY <1>2, <1>3 DEF Tasks, Bases, Runs, Grown, None, n
  <2>2. OpShape \subseteq OpShape' /\ RunShape \subseteq RunShape'
    BY <2>1 DEF OpShape, RunShape, n
  <2>3. runs' \in Seq(RunShape')
    BY <2>2, SeqMonotonic DEF Inv, TypeOK
  <2>4. e \in OpShape'
    BY <1>1, <2>1, <2>2 DEF OpShape, Steps
  <2>5. op' \in [Thread -> OpShape']
    BY <2>2, <2>4 DEF Inv, TypeOK, n
  <2>6. reqs' \in [Key -> [received : BOOLEAN, task : Tasks']]
    BY <2>1 DEF Inv, TypeOK
  <2> QED BY <1>3, <2>3, <2>5, <2>6 DEF Inv, TypeOK
<1>6. Requests'
  <2>1. Holds(e, tasks', runs')
    BY <1>1, <1>2 DEF Holds, Owning, Built, OpShape, None
  <2>2. op' = [op EXCEPT ![h] = e]
    BY DEF n
  <2> QED BY <1>4, <2>1, <2>2, OneMoves DEF Inv
<1>7. OneChain'
  <2>0. DOMAIN tasks' = 1 .. n + 1 /\ runs' = runs
    BY <1>3 DEF Grown, n
  <2>1. /\ tasks'[n + 1].pred = p /\ tasks'[n + 1].text = x
        /\ tasks'[n + 1].run = None /\ tasks'[n + 1].revision = Revision(p)
    BY <1>3 DEF Grown, NewTask, n
  <2>2. \A t \in 1 .. n : /\ tasks'[t].pred = tasks[t].pred /\ tasks'[t].text = tasks[t].text
                          /\ tasks'[t].revision = tasks[t].revision
                          /\ tasks'[t].run = tasks[t].run
                          /\ tasks'[t].succ = IF t = p THEN n + 1 ELSE tasks[t].succ
    BY <1>3 DEF Grown, n
  <2>3. \A t \in 1 .. n : tasks[t].pred \in 0 .. n
    BY <1>2, Elements DEF Inv, TaskShape, n
  <2>4. \A t \in 1 .. n : tasks[t].pred = p => p = None /\ tasks[t].text # x
    <3> SUFFICES ASSUME NEW t \in 1 .. n, tasks[t].pred = p PROVE p = None /\ tasks[t].text # x
      OBVIOUS
    <3>1. tasks[t].text # x
      BY <1>2 DEF Claimed, p, x
    <3>2. p # None => tasks[p].succ = t /\ p \in 1 .. n /\ t # None
      BY <1>2, <2>3 DEF Inv, OneChain, None
    <3>3. p \in 1 .. n => tasks[p].succ = None
      BY <1>2 DEF Followable, p
    <3> QED BY <3>1, <3>2, <3>3
  <2>5. ASSUME NEW s \in 1 .. n + 1, NEW t \in 1 .. n + 1, tasks'[s].pred = tasks'[t].pred,
               tasks'[s].pred = None => tasks'[s].text = tasks'[t].text
        PROVE  s = t
    <3>1. CASE s \in 1 .. n /\ t \in 1 .. n
      BY <1>2, <2>2, <2>5, <3>1 DEF Inv, OneChain
    <3>2. CASE s = n + 1 /\ t = n + 1
      BY <3>2
    <3>3. CASE s = n + 1 /\ t \in 1 .. n
      <4>1. tasks[t].pred = p /\ tasks'[t].text = tasks[t].text
        BY <2>1, <2>2, <2>5, <3>3
      <4>2. p = None /\ tasks[t].text # x
        BY <2>4, <3>3, <4>1
      <4> QED BY <2>1, <2>5, <3>3, <4>1, <4>2
    <3>4. CASE s \in 1 .. n /\ t = n + 1
      <4>1. tasks[s].pred = p /\ tasks'[s].text = tasks[s].text
        BY <2>1, <2>2, <2>5, <3>4
      <4>2. p = None /\ tasks[s].text # x
        BY <2>4, <3>4, <4>1
      <4> QED BY <2>1, <2>2, <2>5, <3>4, <4>1, <4>2
    <3> QED BY <1>2, <3>1, <3>2, <3>3, <3>4
  <2>6. ASSUME NEW t \in 1 .. n + 1, tasks'[t].pred # None
        PROVE  /\ tasks'[tasks'[t].pred].succ = t
               /\ tasks'[t].revision = tasks'[tasks'[t].pred].revision + 1
    <3>1. CASE t = n + 1
      <4>1. p \in 1 .. n
        BY <1>1, <1>2, <2>1, <2>6, <3>1 DEF None
      <4> QED BY <2>1, <2>2, <2>6, <3>1, <4>1 DEF Revision
    <3>2. CASE t \in 1 .. n
      <4>1. tasks[t].pred # None /\ tasks[t].pred \in 1 .. n
        BY <1>2, <2>2, <2>3, <2>6, <3>2 DEF None
      <4>2. tasks[t].pred # p
        BY <2>4, <3>2, <4>1
      <4>3. /\ tasks[tasks[t].pred].succ = t
            /\ tasks[t].revision = tasks[tasks[t].pred].revision + 1
        BY <1>2, <3>2, <4>1 DEF Inv, OneChain
      <4>4. tasks'[t].pred = tasks[t].pred /\ tasks'[t].revision = tasks[t].revision
        BY <2>2, <3>2
      <4>5. /\ tasks'[tasks[t].pred].succ = tasks[tasks[t].pred].succ
            /\ tasks'[tasks[t].pred].revision = tasks[tasks[t].pred].revision
        BY <2>2, <4>1, <4>2
      <4> QED BY <4>3, <4>4, <4>5
    <3>3. t \in 1 .. n \/ t = n + 1
      BY <1>2
    <3> QED BY <3>1, <3>2, <3>3, Zenon
  <2>7. ASSUME NEW t \in 1 .. n + 1, tasks'[t].run # None PROVE runs[tasks'[t].run].task = t
    <3>1. t \in 1 .. n /\ tasks[t].run # None /\ tasks'[t].run = tasks[t].run
      BY <1>2, <2>1, <2>2, <2>7
    <3> QED BY <1>2, <3>1 DEF Inv, OneChain
  <2>8. \A r, s \in DOMAIN runs : runs[r].task = runs[s].task => r = s
    BY DEF Inv, OneChain
  <2>9. \A s, t \in DOMAIN tasks' :
           tasks'[s].pred = tasks'[t].pred
           /\ (tasks'[s].pred = None => tasks'[s].text = tasks'[t].text) => s = t
    BY <2>0, <2>5
  <2>10. \A t \in DOMAIN tasks' : tasks'[t].pred # None =>
            /\ tasks'[tasks'[t].pred].succ = t
            /\ tasks'[t].revision = tasks'[tasks'[t].pred].revision + 1
    BY <2>0, <2>6
  <2>11. \A t \in DOMAIN tasks' : tasks'[t].run # None => runs'[tasks'[t].run].task = t
    BY <2>0, <2>7
  <2>12. \A r, s \in DOMAIN runs' : runs'[r].task = runs'[s].task => r = s
    BY <2>0, <2>8
  <2> QED BY <2>9, <2>10, <2>11, <2>12 DEF OneChain
<1>8. BoundIsQueued'
  <2>1. \A k \in Key : reqs[k].task \in 0 .. n
    BY <1>2, Elements DEF Inv
  <2>2. \A t \in 1 .. n : tasks'[t].run = tasks[t].run
    BY <1>3 DEF Grown, n
  <2>3. tasks'[n + 1].run = None /\ DOMAIN tasks' = 1 .. n + 1
    BY <1>3 DEF Grown, NewTask, n
  <2>4. \A t \in DOMAIN tasks' : tasks'[t].run # None => t \in 1 .. n
    BY <1>2, <2>3
  <2>5. \A k \in Key : reqs[k].task # None => reqs[k].task \in 1 .. n
    BY <1>2, <2>1 DEF None
  <2> QED BY <1>2, <2>2, <2>4, <2>5 DEF Inv, BoundIsQueued
<1>9. Continued'
  <2>1. \A t \in 1 .. n : tasks'[t].base = tasks[t].base /\ tasks'[t].pred = tasks[t].pred
    BY <1>3 DEF Grown, n
  <2>2. \A r \in DOMAIN runs : runs[r].task \in 1 .. n
    BY <1>2, Elements DEF Inv, RunShape, n
  <2>3. \A r \in DOMAIN runs' : Keeps(tasks', runs', r)
    <3> SUFFICES ASSUME NEW r \in DOMAIN runs PROVE Keeps(tasks', runs, r)
      OBVIOUS
    <3>1. Keeps(tasks, runs, r) /\ tasks'[runs[r].task].base = tasks[runs[r].task].base
      BY <2>1, <2>2 DEF Inv, Continued
    <3> QED BY <3>1 DEF Keeps
  <2>4. /\ DOMAIN tasks' = 1 .. n + 1
        /\ tasks'[n + 1].pred = p /\ tasks'[n + 1].base = op[h].base
    BY <1>3 DEF Grown, NewTask, n
  <2>5. \A t \in 1 .. n : OnDelivery(tasks'[t].pred, tasks'[t].base)
    BY <1>2, <2>1 DEF Inv, Continued
  <2>6. OnDelivery(tasks'[n + 1].pred, tasks'[n + 1].base)
    BY <1>1, <2>4
  <2>7. ASSUME NEW t \in 1 .. n + 1 PROVE OnDelivery(tasks'[t].pred, tasks'[t].base)
    <3>1. t \in 1 .. n \/ t = n + 1
      BY <1>2
    <3> QED BY <2>5, <2>6, <3>1, Zenon
  <2>8. \A t \in DOMAIN tasks' : OnDelivery(tasks'[t].pred, tasks'[t].base)
    BY <2>4, <2>7
  <2> QED BY <2>3, <2>8 DEF Continued
<1> QED BY <1>5, <1>6, <1>7, <1>8, <1>9 DEF Inv

LEMMA ClaimInv == ASSUME Inv, NEW h \in Thread, Claim(h) PROVE Inv'
<1>1. CASE \E t \in Claimed(op[h].pred, op[h].text) :
               /\ IF tasks[t].base # op[h].base THEN Leave(h)
                  ELSE IF Unbound(t)
                  THEN op' = [op EXCEPT ![h].at = "create", ![h].task = t]
                  ELSE Reply(h, t)
               /\ UNCHANGED tasks
  BY <1>1, FoundInv DEF Claim
<1>2. CASE Leave(h) /\ UNCHANGED tasks
  <2>1. troubles' \in 0 .. MaxTroubles
    BY DEF Inv, TypeOK, Claim
  <2> QED BY <1>2, <2>1, Leaves DEF Claim
<1>3. CASE /\ Claimed(op[h].pred, op[h].text) = {} /\ Followable(op[h].pred)
           /\ tasks' = Append(IF op[h].pred = None THEN tasks
                              ELSE [tasks EXCEPT ![op[h].pred].succ = Len(tasks) + 1],
                              NewTask(op[h].pred, op[h].text, op[h].base))
           /\ op' = [op EXCEPT ![h].at = "create", ![h].task = Len(tasks) + 1]
  BY <1>3, NewClaimInv DEF Claim
<1> QED BY <1>1, <1>2, <1>3 DEF Claim, NewTask

-----------------------------------------------------------------------------
(* Runs.                                                                   *)

\* The types after a step that keeps the number of tasks and runs.
LEMMA ShapesSame ==
    ASSUME Len(tasks') = Len(tasks), Len(runs') = Len(runs)
    PROVE  OpShape' = OpShape /\ TaskShape' = TaskShape /\ RunShape' = RunShape /\ Tasks' = Tasks
BY DEF OpShape, TaskShape, RunShape, Tasks, Runs, Bases

\* A request moves and changes runs as others may rely on.
LEMMA RunStep ==
    ASSUME Inv, RunsKept, UNCHANGED <<head, plugin>>, troubles' \in 0 .. MaxTroubles,
           NEW h \in Thread, NEW e \in OpShape, op' = [op EXCEPT ![h] = e],
           Holds(e, tasks', runs')
    PROVE  Inv'
<1>1. OneChain' /\ BoundIsQueued' /\ Continued' /\ Grows(tasks, runs, tasks', runs')
  BY RunsChange
<1>2. TypeOK'
  BY ShapesSame DEF Inv, TypeOK, RunsKept
<1>3. Requests'
  BY <1>1, OneMoves DEF Inv
<1> QED BY <1>1, <1>2, <1>3 DEF Inv

\* A step of the runs themselves.
LEMMA RunsStep ==
    ASSUME Inv, RunsKept, UNCHANGED <<head, plugin, op>>, troubles' \in 0 .. MaxTroubles
    PROVE  Inv'
<1>1. OneChain' /\ BoundIsQueued' /\ Continued' /\ Grows(tasks, runs, tasks', runs')
  BY RunsChange
<1>2. TypeOK'
  BY ShapesSame DEF Inv, TypeOK, RunsKept
<1>3. Requests'
  BY <1>1, StillHolds DEF Inv, Requests
<1> QED BY <1>1, <1>2, <1>3 DEF Inv

\* A run is created for the task of a request.
LEMMA NewRunInv ==
    ASSUME Inv, NEW h \in Thread, At(h, "create"),
           \A r \in DOMAIN runs : runs[r].task # op[h].task,
           runs' = Append(runs, NewRun(op[h].task)),
           NEW now \in {"link", "dispatch"}, now = FirstStep(op[h].task),
           op' = [op EXCEPT ![h].at = now, ![h].run = Len(runs) + 1],
           UNCHANGED <<reqs, tasks, head, plugin, troubles>>
    PROVE  Inv'
<1> DEFINE u == op[h].task
           m == Len(runs)
           new == NewRun(u)
           e == [op[h] EXCEPT !.at = now, !.run = m + 1]
<1>1. op[h] \in OpShape /\ op[h].at = "create" /\ Holds(op[h], tasks, runs)
  BY Elements DEF Inv, Requests, At
<1>2. /\ Len(tasks) \in Nat /\ DOMAIN tasks = 1 .. Len(tasks)
      /\ m \in Nat /\ DOMAIN runs = 1 .. m /\ runs \in Seq(RunShape)
      /\ \A r \in 1 .. m : runs[r] \in RunShape
  BY Elements DEF Inv, TypeOK
<1>3. u \in 1 .. Len(tasks)
  BY <1>1, <1>2 DEF Holds, Owning, OpShape, Tasks, None
<1>4. new \in RunShape
  BY <1>3 DEF RunShape, Statuses, NewRun
<1>5. /\ runs' \in Seq(RunShape) /\ Len(runs') = m + 1 /\ runs'[m + 1] = new
      /\ \A r \in 1 .. m : runs'[r] = runs[r]
  <2> HIDE DEF new
  <2>1. /\ Append(runs, new) \in Seq(RunShape) /\ Len(Append(runs, new)) = m + 1
        /\ Append(runs, new)[m + 1] = new
        /\ \A r \in 1 .. m : Append(runs, new)[r] = runs[r]
    BY <1>2, <1>4, Added
  <2>2. runs' = Append(runs, new)
    BY DEF new
  <2> QED BY <2>1, <2>2
<1>6. DOMAIN runs' = 1 .. m + 1
  BY <1>5, LenProperties
<1>7. Grows(tasks, runs, tasks', runs')
  BY <1>2, <1>5 DEF Grows, Handed
<1>8. /\ Tasks' = Tasks /\ Bases' = Bases /\ RunShape' = RunShape /\ OpShape \subseteq OpShape'
      /\ TaskShape \subseteq TaskShape' /\ m + 1 \in Runs'
  <2>1. Runs \subseteq Runs' /\ m + 1 \in Runs'
    BY <1>2, <1>5 DEF Runs, None
  <2> QED BY <2>1 DEF Tasks, Bases, RunShape, OpShape, TaskShape
<1>9. e \in OpShape'
  BY <1>1, <1>8 DEF OpShape, Steps
<1>10. TypeOK'
  <2>1. tasks' \in Seq(TaskShape')
    BY <1>8, SeqMonotonic DEF Inv, TypeOK
  <2>2. op' \in [Thread -> OpShape']
    <3> HIDE DEF e
    <3>1. op' = [op EXCEPT ![h] = e]
      BY DEF e
    <3> QED BY <1>8, <1>9, <3>1 DEF Inv, TypeOK
  <2> QED BY <1>5, <1>8, <2>1, <2>2 DEF Inv, TypeOK
<1>11. Requests'
  <2>1. Holds(e, tasks', runs')
    <3>1. now = "dispatch" => ~(tasks[u].base > MaxHead)
      BY DEF FirstStep, Continues
    <3> QED BY <1>1, <1>2, <1>3, <1>5, <3>1 DEF Holds, Owning, Built, OpShape, None, NewRun
  <2>2. op' = [op EXCEPT ![h] = e]
    OBVIOUS
  <2> QED BY <1>7, <2>1, <2>2, OneMoves DEF Inv
<1>12. \A t \in DOMAIN tasks : tasks[t].run # None => tasks[t].run \in 1 .. m
  BY <1>2, Elements DEF Inv, TaskShape, Runs, None
<1>13. OneChain'
  <2>0. runs'[m + 1].task = u
    BY <1>5 DEF NewRun
  <2>1. \A r, s \in 1 .. m + 1 : runs'[r].task = runs'[s].task => r = s
    <3> SUFFICES ASSUME NEW r \in 1 .. m + 1, NEW s \in 1 .. m + 1, runs'[r].task = runs'[s].task
                 PROVE  r = s
      OBVIOUS
    <3>1. \A q \in 1 .. m : runs[q].task # u
      BY <1>2
    <3>2. CASE r \in 1 .. m /\ s \in 1 .. m
      BY <1>2, <1>5, <3>2 DEF Inv, OneChain
    <3>3. CASE r = m + 1 /\ s \in 1 .. m
      BY <1>5, <2>0, <3>1, <3>3
    <3>4. CASE r \in 1 .. m /\ s = m + 1
      BY <1>5, <2>0, <3>1, <3>4
    <3> QED BY <1>2, <3>2, <3>3, <3>4
  <2>2. \A t \in DOMAIN tasks : tasks[t].run # None => runs'[tasks[t].run].task = t
    BY <1>5, <1>12 DEF Inv, OneChain
  <2> QED BY <1>6, <2>1, <2>2 DEF Inv, OneChain
<1>14. BoundIsQueued'
  BY <1>5, <1>12 DEF Inv, BoundIsQueued
<1>15. Continued'
  <2>1. \A r \in 1 .. m + 1 : r \in 1 .. m \/ r = m + 1
    BY <1>2
  <2>2. Keeps(tasks, runs', m + 1)
    BY <1>5 DEF Keeps, NewRun
  <2>3. \A r \in 1 .. m : Keeps(tasks, runs', r)
    BY <1>2, <1>5 DEF Inv, Continued, Keeps
  <2> QED BY <1>6, <2>1, <2>2, <2>3 DEF Inv, Continued
<1> QED BY <1>10, <1>11, <1>13, <1>14, <1>15 DEF Inv

LEMMA CreateInv == ASSUME Inv, NEW h \in Thread, Create(h) PROVE Inv'
<1> DEFINE u == op[h].task
           made == {r \in DOMAIN runs : runs[r].task = u}
<1>1. op[h] \in OpShape /\ op[h].at = "create" /\ Holds(op[h], tasks, runs)
  BY Elements DEF Inv, Requests, At, Create
<1>2. CASE made = {}
  <2>1. \A r \in DOMAIN runs : runs[r].task # u
    BY <1>2
  <2>2. op' = [op EXCEPT ![h].at = FirstStep(u), ![h].run = Len(runs) + 1]
    BY <1>2 DEF Create
  <2>3. runs' = Append(runs, NewRun(u))
    BY <1>2 DEF Create
  <2>4. FirstStep(u) \in {"link", "dispatch"}
    BY DEF FirstStep
  <2> QED BY <2>1, <2>2, <2>3, <2>4, NewRunInv DEF Create
<1>3. CASE made # {}
  <2>1. PICK r \in made :
          op' = [op EXCEPT ![h].at = IF Continues(u) /\ ~runs[r].linked THEN "relink"
                                     ELSE IF Dispatched(r) THEN "bind" ELSE "dispatch",
                           ![h].run = r]
    BY <1>3 DEF Create
  <2> DEFINE now == IF Continues(u) /\ ~runs[r].linked THEN "relink"
                    ELSE IF Dispatched(r) THEN "bind" ELSE "dispatch"
             e == [op[h] EXCEPT !.at = now, !.run = r]
  <2>2. r \in 1 .. Len(runs) /\ runs[r].task = u /\ r # None /\ r \in Runs
    BY Elements DEF Inv, Runs, None
  <2>3. /\ now \in {"relink", "bind", "dispatch"} /\ (now = "bind" => Handed(runs, r))
        /\ now = "dispatch" /\ tasks[u].base > MaxHead => runs[r].linked
    BY DEF Dispatched, Handed, Continues
  <2> HIDE DEF now
  <2>4. e \in OpShape
    BY <1>1, <2>2, <2>3 DEF OpShape, Steps
  <2>5. Holds(e, tasks, runs)
    BY <1>1, <2>2, <2>3 DEF OpShape, Holds, Owning, Built
  <2>6. op' = [op EXCEPT ![h] = e]
    BY <2>1 DEF now
  <2>7. plugin' \in {"enabled", "draining", "disabled"} /\ troubles' \in 0 .. MaxTroubles
    BY DEF Create, Inv, TypeOK
  <2> QED BY <1>3, <2>4, <2>5, <2>6, <2>7, Moves DEF Create
<1> QED BY <1>2, <1>3

\* One run changes.
LEMMA OneRunKept ==
    ASSUME Inv, UNCHANGED <<reqs, tasks>>, NEW r \in 1 .. Len(runs), NEW v \in RunShape,
           runs' = [runs EXCEPT ![r] = v], v.task = runs[r].task,
           Handed(runs, r) => v.queuedBy # "nobody" \/ v.status # "received",
           runs[r].linked => v.linked,
           tasks[v.task].base > MaxHead /\ v.queuedBy = "request" =>
               v.linked /\ (v.status \in UnderPlan => v.base = tasks[v.task].base)
    PROVE  RunsKept /\ runs'[r] = v
<1>1. runs \in Seq(RunShape) /\ DOMAIN runs = 1 .. Len(runs)
  BY Elements DEF Inv, TypeOK
<1>2. /\ runs' \in Seq(RunShape) /\ Len(runs') = Len(runs) /\ runs'[r] = v
      /\ \A j \in 1 .. Len(runs) : j # r => runs'[j] = runs[j]
  BY <1>1, Changed
<1> QED BY <1>1, <1>2 DEF Inv, Continued, Keeps, RunsKept, Handed

\* What OneRunKept asks of the records of runs that do not change.
LEMMA RunKeeps ==
    ASSUME Inv, NEW r \in 1 .. Len(runs),
           tasks[runs[r].task].base > MaxHead, runs[r].queuedBy = "request"
    PROVE  runs[r].linked /\ (runs[r].status \in UnderPlan => runs[r].base = tasks[runs[r].task].base)
BY Elements DEF Inv, Continued, Keeps

LEMMA LinkInv == ASSUME Inv, NEW h \in Thread, Link(h) PROVE Inv'
<1> DEFINE r == op[h].run
           v == [runs[r] EXCEPT !.linked = TRUE]
           now == IF At(h, "relink") /\ Dispatched(r) THEN "bind" ELSE "dispatch"
           e == [op[h] EXCEPT !.at = now]
<1>1. op[h] \in OpShape /\ op[h].at \in {"link", "relink"} /\ Holds(op[h], tasks, runs)
  BY Elements DEF Inv, Requests, At, Link
<1>2. r \in 1 .. Len(runs) /\ runs[r] \in RunShape /\ runs[r].task = op[h].task
  <2>1. r \in 1 .. Len(runs) /\ runs[r].task = op[h].task
    BY <1>1, Elements DEF Inv, OpShape, Runs, None, Holds, Built
  <2> QED BY <2>1, Elements DEF Inv
<1>3. troubles' \in 0 .. MaxTroubles
  BY DEF Inv, TypeOK, Link
<1>4. CASE Leave(h) /\ UNCHANGED runs
  BY <1>3, <1>4, Leaves DEF Link
<1>5. CASE runs' = [runs EXCEPT ![r].linked = TRUE] /\ Goto(h, now)
  <2>1. v \in RunShape /\ v.task = runs[r].task /\ v.linked
        /\ v.status = runs[r].status /\ v.queuedBy = runs[r].queuedBy /\ v.base = runs[r].base
    BY <1>2 DEF RunShape
  <2>2. runs' = [runs EXCEPT ![r] = v]
    BY <1>5
  <2> HIDE DEF v
  <2>0. UNCHANGED <<reqs, tasks>>
    BY DEF Link
  <2>8. tasks[v.task].base > MaxHead /\ v.queuedBy = "request" =>
            v.linked /\ (v.status \in UnderPlan => v.base = tasks[v.task].base)
    BY <1>2, <2>1, RunKeeps
  <2>9. Handed(runs, r) => v.queuedBy # "nobody" \/ v.status # "received"
    BY <2>1 DEF Handed
  <2>3. RunsKept /\ runs'[r] = v
    <3> HIDE DEF r
    <3> QED BY <1>2, <2>0, <2>1, <2>2, <2>8, <2>9, OneRunKept
  <2>4. now \in {"bind", "dispatch"} /\ (now = "bind" => Handed(runs, r))
    BY DEF Dispatched, Handed
  <2> HIDE DEF now
  <2>5. e \in OpShape
    BY <1>1, <2>4 DEF OpShape, Steps
  <2>6. Holds(e, tasks', runs')
    BY <1>1, <1>2, <2>1, <2>3, <2>4 DEF OpShape, Holds, Owning, Built, Handed
  <2>7. op' = [op EXCEPT ![h] = e]
    BY <1>5 DEF Goto, now
  <2> QED BY <1>3, <2>3, <2>5, <2>6, <2>7, RunStep DEF Link
<1> QED BY <1>4, <1>5 DEF Link

LEMMA DispatchInv == ASSUME Inv, NEW h \in Thread, Dispatch(h) PROVE Inv'
<1> DEFINE r == op[h].run
           v == [runs[r] EXCEPT !.queuedBy = "request"]
           e == [op[h] EXCEPT !.at = "bind"]
<1>1. op[h] \in OpShape /\ op[h].at = "dispatch" /\ Holds(op[h], tasks, runs)
  BY Elements DEF Inv, Requests, At, Dispatch
<1>2. r \in 1 .. Len(runs) /\ runs[r] \in RunShape /\ runs[r].task = op[h].task
  <2>1. r \in 1 .. Len(runs) /\ runs[r].task = op[h].task
    BY <1>1, Elements DEF Inv, OpShape, Runs, None, Holds, Built
  <2> QED BY <2>1, Elements DEF Inv
<1>3. troubles' \in 0 .. MaxTroubles
  BY BoundsAssumption DEF Inv, TypeOK, Dispatch, Trouble
<1>4. plugin' \in {"enabled", "draining", "disabled"}
  BY DEF Inv, TypeOK, Dispatch
<1>5. e \in OpShape
  BY <1>1 DEF OpShape, Steps
<1>6. CASE Leave(h) /\ UNCHANGED runs
  BY <1>3, <1>6, Leaves DEF Dispatch
<1>7. CASE runs[r].status # "received" /\ Goto(h, "bind") /\ UNCHANGED runs
  <2>1. Holds(e, tasks, runs)
    BY <1>1, <1>2, <1>7 DEF OpShape, Holds, Owning, Built, Handed
  <2>2. op' = [op EXCEPT ![h] = e]
    BY <1>7 DEF Goto
  <2> QED BY <1>3, <1>4, <1>5, <1>7, <2>1, <2>2, Moves DEF Dispatch
<1>8. CASE runs[r].status = "received" /\ runs' = [runs EXCEPT ![r].queuedBy = "request"] /\ Goto(h, "bind")
  <2>1. /\ v \in RunShape /\ v.task = runs[r].task /\ v.queuedBy = "request"
        /\ v.status = "received" /\ v.linked = runs[r].linked
    BY <1>2, <1>8 DEF RunShape
  <2>0. tasks[runs[r].task].base > MaxHead => runs[r].linked
    BY <1>1, <1>2 DEF Holds
  <2>2. runs' = [runs EXCEPT ![r] = v]
    BY <1>8
  <2> HIDE DEF v
  <2>3. RunsKept /\ runs'[r] = v
    BY <1>2, <2>0, <2>1, <2>2, OneRunKept DEF Dispatch, UnderPlan
  <2>4. Holds(e, tasks', runs')
    BY <1>1, <1>2, <2>1, <2>3 DEF OpShape, Holds, Owning, Built, Handed
  <2>5. op' = [op EXCEPT ![h] = e]
    BY <1>8 DEF Goto
  <2> QED BY <1>3, <1>5, <2>3, <2>4, <2>5, RunStep DEF Dispatch
<1> QED BY <1>6, <1>7, <1>8 DEF Dispatch

LEMMA BindInv == ASSUME Inv, NEW h \in Thread, Bind(h) PROVE Inv'
<1> DEFINE u == op[h].task
           r == op[h].run
           v == [tasks[u] EXCEPT !.run = r]
           e == IF op[h].pred # None THEN Idle
                ELSE [Idle EXCEPT !.at = "answer", !.text = op[h].text, !.task = u]
<1>1. op[h] \in OpShape /\ op[h].at = "bind" /\ Holds(op[h], tasks, runs)
  BY Elements DEF Inv, Requests, At, Bind
<1>2. /\ Len(tasks) \in Nat /\ DOMAIN tasks = 1 .. Len(tasks) /\ tasks \in Seq(TaskShape)
      /\ Len(runs) \in Nat /\ DOMAIN runs = 1 .. Len(runs) /\ Tasks = 0 .. Len(tasks)
      /\ Runs = 0 .. Len(runs)
  BY Elements DEF Inv, TypeOK, Tasks, Runs, None
<1>3. /\ r \in 1 .. Len(runs) /\ r # None /\ runs[r].task = u /\ Handed(runs, r)
      /\ u \in 1 .. Len(tasks) /\ tasks[u] \in TaskShape
  <2>1. u \in 1 .. Len(tasks) /\ r \in 1 .. Len(runs) /\ r # None
    BY <1>1, <1>2 DEF OpShape, None, Holds, Built, Owning
  <2>2. runs[r].task = u /\ Handed(runs, r)
    BY <1>1 DEF Holds, Built
  <2> QED BY <2>1, <2>2, Elements DEF Inv
<1>4. /\ v \in TaskShape /\ v.pred = tasks[u].pred /\ v.text = tasks[u].text
      /\ v.base = tasks[u].base /\ v.revision = tasks[u].revision
      /\ v.succ = tasks[u].succ /\ v.run = r
  <2>1. r \in Runs /\ tasks[u] \in TaskShape
    BY <1>2, <1>3
  <2> QED BY <2>1 DEF TaskShape
<1>5. /\ tasks' \in Seq(TaskShape) /\ Len(tasks') = Len(tasks) /\ tasks'[u] = v
      /\ \A t \in 1 .. Len(tasks) : t # u => tasks'[t] = tasks[t]
  <2> HIDE DEF v
  <2>1. tasks' = [tasks EXCEPT ![u] = v]
    BY DEF Bind, v
  <2> QED BY <1>2, <1>3, <1>4, <2>1, Changed
<1> HIDE DEF v
<1>6. DOMAIN tasks' = 1 .. Len(tasks) /\ runs' = runs
  BY <1>5, LenProperties DEF Bind
<1>7. \A t \in 1 .. Len(tasks) :
         /\ tasks'[t].pred = tasks[t].pred /\ tasks'[t].text = tasks[t].text
         /\ tasks'[t].base = tasks[t].base /\ tasks'[t].revision = tasks[t].revision
         /\ tasks'[t].succ = tasks[t].succ
         /\ tasks'[t].run = IF t = u THEN r ELSE tasks[t].run
  BY <1>4, <1>5
<1>8. Grows(tasks, runs, tasks', runs')
  BY <1>2, <1>3, <1>5, <1>6, <1>7 DEF Grows, Handed
<1>9. e \in OpShape /\ Holds(e, tasks', runs')
  <2>1. CASE op[h].pred # None
    BY <2>1, IdleHolds DEF Inv
  <2>2. CASE op[h].pred = None
    <3>1. e = [at |-> "answer", pred |-> None, text |-> op[h].text, base |-> None,
               task |-> u, run |-> None]
      BY <2>2 DEF Idle
    <3> HIDE DEF e
    <3>2. e \in OpShape
      BY <1>1, <1>2, <1>3, <3>1 DEF OpShape, Steps, None
    <3>3. u # None /\ tasks'[u].run # None
      BY <1>3, <1>7 DEF None
    <3>4. Holds(e, tasks', runs')
      BY <3>1, <3>3 DEF Holds, Owning, Built
    <3> QED BY <3>2, <3>4
  <2> QED BY <2>1, <2>2
<1>10. op' = [op EXCEPT ![h] = e]
  BY DEF Bind, Reply, Leave
<1> HIDE DEF e
<1>11. TypeOK'
  <2>1. op' \in [Thread -> OpShape]
    BY <1>9, <1>10 DEF Inv, TypeOK
  <2>2. /\ OpShape' = OpShape /\ TaskShape' = TaskShape /\ RunShape' = RunShape
        /\ Tasks' = Tasks
    BY <1>5, <1>6, ShapesSame
  <2> QED BY <1>5, <2>1, <2>2 DEF Inv, TypeOK, Bind
<1>12. Requests'
  BY <1>8, <1>9, <1>10, OneMoves DEF Inv
<1>13. \A t \in 1 .. Len(tasks) : tasks[t].pred \in 0 .. Len(tasks)
  BY <1>2, Elements DEF Inv, TaskShape
<1>14. OneChain'
  <2>1. \A t \in DOMAIN tasks' : tasks'[t].pred # None =>
           /\ tasks'[tasks'[t].pred].succ = t
           /\ tasks'[t].revision = tasks'[tasks'[t].pred].revision + 1
    <3> SUFFICES ASSUME NEW t \in 1 .. Len(tasks), tasks[t].pred # None
                 PROVE  /\ tasks'[tasks'[t].pred].succ = t
                        /\ tasks'[t].revision = tasks'[tasks'[t].pred].revision + 1
      BY <1>6, <1>7
    <3>1. tasks[t].pred \in 1 .. Len(tasks)
      BY <1>2, <1>13 DEF None
    <3>2. /\ tasks[tasks[t].pred].succ = t
          /\ tasks[t].revision = tasks[tasks[t].pred].revision + 1
      BY <1>2 DEF Inv, OneChain
    <3> QED BY <1>7, <3>1, <3>2
  <2>2. \A t \in DOMAIN tasks' : tasks'[t].run # None => runs'[tasks'[t].run].task = t
    BY <1>2, <1>3, <1>6, <1>7 DEF Inv, OneChain
  <2>3. \A s, t \in DOMAIN tasks' :
           tasks'[s].pred = tasks'[t].pred
           /\ (tasks'[s].pred = None => tasks'[s].text = tasks'[t].text) => s = t
    BY <1>2, <1>6, <1>7 DEF Inv, OneChain
  <2> QED BY <1>6, <2>1, <2>2, <2>3 DEF Inv, OneChain
<1>15. BoundIsQueued'
  <2>1. reqs' = reqs /\ \A k \in Key : reqs[k].task # None => reqs[k].task \in 1 .. Len(tasks)
    BY <1>2, Elements DEF Inv, None, Bind
  <2>2. \A k \in Key : reqs'[k].task # None => tasks'[reqs'[k].task].run # None
    BY <1>3, <1>7, <2>1 DEF Inv, BoundIsQueued
  <2>3. \A t \in DOMAIN tasks' : tasks'[t].run # None =>
           runs'[tasks'[t].run].queuedBy # "nobody" \/ runs'[tasks'[t].run].status # "received"
    BY <1>2, <1>3, <1>6, <1>7 DEF Inv, BoundIsQueued, Handed
  <2> QED BY <2>2, <2>3 DEF BoundIsQueued
<1>16. Continued'
  <2>1. \A q \in DOMAIN runs : runs[q].task \in 1 .. Len(tasks)
    BY <1>2, Elements DEF Inv, RunShape
  <2> QED BY <1>2, <1>6, <1>7, <2>1 DEF Inv, Continued, Keeps
<1> QED BY <1>11, <1>12, <1>14, <1>15, <1>16 DEF Inv

-----------------------------------------------------------------------------
(* Users, runs, the service and the project.                               *)

\* A run changes its status to s, which is not received.
LEMMA StatusInv ==
    ASSUME Inv, NEW r, NEW from, NEW s \in Statuses, s # "received", Step(r, from, {s}),
           s \in UnderPlan => runs[r].status \in UnderPlan
    PROVE  Inv'
<1> DEFINE v == [runs[r] EXCEPT !.status = s]
<1>1. r \in 1 .. Len(runs) /\ runs[r] \in RunShape
  BY Elements DEF Inv, Step
<1>2. /\ v \in RunShape /\ v.task = runs[r].task /\ v.status = s
      /\ v.linked = runs[r].linked /\ v.queuedBy = runs[r].queuedBy /\ v.base = runs[r].base
  BY <1>1 DEF RunShape
<1>3. runs' = [runs EXCEPT ![r] = v]
  BY DEF Step
<1> HIDE DEF v
<1>4. RunsKept
  BY <1>1, <1>2, <1>3, OneRunKept, RunKeeps DEF Step
<1>5. troubles' \in 0 .. MaxTroubles
  BY DEF Inv, TypeOK, Step
<1> QED BY <1>4, <1>5, RunsStep DEF Step

LEMMA CancelInv == ASSUME Inv, NEW r, Cancel(r) PROVE Inv'
BY StatusInv DEF Cancel, Statuses, UnderPlan

LEMMA FeedbackInv ==
    ASSUME Inv, NEW h \in Thread, NEW t \in DOMAIN tasks, NEW x \in Words, Feedback(h, t, x)
    PROVE  Inv'
<1> DEFINE r == tasks[t].run
           v == [runs[r] EXCEPT !.status = "closed"]
           base == IF StatusOf(t) = "delivered" THEN MaxHead + t ELSE head
           e == [Idle EXCEPT !.at = "claim", !.pred = t, !.text = x, !.base = base]
<1>1. /\ Len(tasks) \in Nat /\ DOMAIN tasks = 1 .. Len(tasks) /\ t \in 1 .. Len(tasks)
      /\ MaxHead \in Nat /\ head \in 1 .. MaxHead /\ Len(runs) \in Nat
  BY Elements, BoundsAssumption DEF Inv, TypeOK
<1>2. RunsKept
  <2>1. CASE StatusOf(t) = "stopped"
    <3>1. r \in 1 .. Len(runs) /\ runs[r] \in RunShape
      <4>1. r \in 1 .. Len(runs)
        BY <1>1, <2>1, Elements DEF Inv, StatusOf, TaskShape, Runs, None
      <4> QED BY <4>1, Elements DEF Inv
    <3>2. /\ v \in RunShape /\ v.task = runs[r].task /\ v.status = "closed"
          /\ v.linked = runs[r].linked /\ v.queuedBy = runs[r].queuedBy
      BY <3>1 DEF RunShape, Statuses
    <3>3. runs' = [runs EXCEPT ![r] = v]
      BY <2>1 DEF Feedback
    <3> HIDE DEF v
    <3> QED BY <3>1, <3>2, <3>3, OneRunKept, RunKeeps DEF Feedback, UnderPlan
  <2>2. CASE StatusOf(t) # "stopped"
    <3>1. runs' = runs
      BY <2>2 DEF Feedback
    <3> QED BY <3>1, Elements DEF Inv, TypeOK, Continued, Keeps, Feedback, RunsKept, Handed
  <2> QED BY <2>1, <2>2
<1>3. troubles' \in 0 .. MaxTroubles
  BY DEF Inv, TypeOK, Feedback
<1>4. CASE op' = op
  BY <1>2, <1>3, <1>4, RunsStep DEF Feedback
<1>5. CASE op' = [op EXCEPT ![h] = e]
  <2>1. base \in Bases /\ base # None /\ OnDelivery(t, base)
    <3>1. MaxHead + t \in Bases /\ MaxHead + t # None /\ OnDelivery(t, MaxHead + t)
      BY <1>1 DEF Bases, None, OnDelivery
    <3>2. head \in Bases /\ head # None /\ OnDelivery(t, head)
      BY <1>1 DEF Bases, None, OnDelivery
    <3> QED BY <3>1, <3>2
  <2> HIDE DEF base
  <2>2. Idle \in OpShape /\ "claim" \in Steps /\ t \in Tasks /\ x \in Key \cup Words
    BY <1>1, IdleHolds DEF Inv, Steps, Tasks, None
  <2>3. /\ e \in OpShape /\ e.at = "claim" /\ e.pred = t /\ e.text = x /\ e.base = base
    BY <2>1, <2>2 DEF OpShape
  <2> HIDE DEF e
  <2>4. tasks'[t].revision < MaxRevision
    BY DEF Feedback
  <2>5. Holds(e, tasks', runs')
    BY <2>1, <2>2, <2>3, <2>4 DEF Holds, Owning, Built
  <2>6. op' = [op EXCEPT ![h] = e]
    BY <1>5 DEF e
  <2> QED BY <1>2, <1>3, <2>3, <2>5, <2>6, RunStep DEF Feedback
<1> QED BY <1>4, <1>5 DEF Feedback

LEMMA PlanInv == ASSUME Inv, NEW r, Plan(r) PROVE Inv'
<1> DEFINE u == runs[r].task
<1>1. /\ r \in 1 .. Len(runs) /\ runs[r] \in RunShape /\ u \in 1 .. Len(tasks)
      /\ tasks[u] \in TaskShape
  <2>1. r \in 1 .. Len(runs) /\ runs[r] \in RunShape /\ u \in 1 .. Len(tasks)
    BY Elements DEF Inv, Plan, RunShape
  <2> QED BY <2>1, Elements DEF Inv
<1>2. troubles' \in 0 .. MaxTroubles
  BY DEF Inv, TypeOK, Plan
<1>3. CASE runs' = [runs EXCEPT ![r].status = "stopped"]
  <2>1. Step(r, {"received"}, {"stopped"})
    BY <1>3 DEF Plan, Step
  <2> QED BY <2>1, StatusInv DEF Statuses, UnderPlan
<1>4. ASSUME NEW c \in Checkout(r),
             runs' = [runs EXCEPT ![r].status = "planning", ![r].base = c]
      PROVE  Inv'
  <2> DEFINE v == [runs[r] EXCEPT !.status = "planning", !.base = c]
  <2>1. c \in Bases
    <3>1. Len(tasks) \in Nat /\ MaxHead \in Nat \ {0} /\ head \in 1 .. MaxHead
      BY Elements, BoundsAssumption DEF Inv, TypeOK
    <3>2. CASE ~runs[r].linked
      BY <1>4, <3>1, <3>2 DEF Checkout, Bases
    <3>3. CASE runs[r].linked
      <4>1. tasks[u].pred \in 0 .. Len(tasks) /\ c = MaxHead + tasks[u].pred
        BY <1>1, <1>4, <3>3 DEF Checkout, TaskShape, Tasks, None
      <4> QED BY <3>1, <4>1 DEF Bases
    <3> QED BY <3>2, <3>3
  <2>2. /\ v \in RunShape /\ v.task = u /\ v.status = "planning" /\ v.base = c
        /\ v.linked = runs[r].linked /\ v.queuedBy = runs[r].queuedBy
    BY <1>1, <2>1 DEF RunShape, Statuses
  <2>3. runs[r].linked /\ tasks[u].base > MaxHead => c = tasks[u].base
    BY <1>1, <1>4, Elements DEF Checkout, Inv, Continued, OnDelivery
  <2>4. tasks[u].base > MaxHead /\ runs[r].queuedBy = "request" => runs[r].linked
    BY <1>1, RunKeeps
  <2>5. runs' = [runs EXCEPT ![r] = v]
    BY <1>4
  <2> HIDE DEF v
  <2>6. RunsKept
    BY <1>1, <2>2, <2>3, <2>4, <2>5, OneRunKept DEF Plan
  <2> QED BY <1>2, <2>6, RunsStep DEF Plan
<1> QED BY <1>3, <1>4 DEF Plan

LEMMA PlannedInv == ASSUME Inv, NEW r, Planned(r) PROVE Inv'
<1>1. PICK s \in {"waiting", "stopped"} : Step(r, {"planning"}, {s})
  BY DEF Planned, Step
<1>2. runs[r].status \in UnderPlan
  BY <1>1 DEF Step, UnderPlan
<1> QED BY <1>1, <1>2, StatusInv DEF Statuses

LEMMA ExecuteInv == ASSUME Inv, NEW r, Execute(r) PROVE Inv'
<1>1. PICK s \in {"working", "waiting"}, from \in {{"planning"}, {"waiting"}} : Step(r, from, {s})
  BY DEF Execute
<1>2. runs[r].status \in UnderPlan
  BY <1>1 DEF Step, UnderPlan
<1> QED BY <1>1, <1>2, StatusInv DEF Statuses

LEMMA EndInv == ASSUME Inv, NEW r, End(r) PROVE Inv'
<1>1. PICK s \in {"delivered", "waiting", "closed"} : Step(r, {"working"}, {s})
  BY DEF End, Step
<1>2. runs[r].status \in UnderPlan
  BY DEF End, Step, UnderPlan
<1> QED BY <1>1, <1>2, StatusInv DEF Statuses

LEMMA ReplanInv == ASSUME Inv, NEW r, Replan(r) PROVE Inv'
<1> DEFINE who == IF runs[r].queuedBy = "nobody" THEN "other" ELSE runs[r].queuedBy
           v == [runs[r] EXCEPT !.status = "received", !.base = None, !.queuedBy = who]
<1>1. r \in 1 .. Len(runs) /\ runs[r] \in RunShape
  BY Elements DEF Inv, Replan
<1>2. who \in {"request", "other"} /\ (who = "request" => runs[r].queuedBy = "request")
  BY <1>1 DEF RunShape
<1>3. runs' = [runs EXCEPT ![r] = v]
  BY DEF Replan
<1> HIDE DEF who
<1>4. /\ v \in RunShape /\ v.task = runs[r].task /\ v.status = "received"
      /\ v.linked = runs[r].linked /\ v.queuedBy = who
  BY <1>1, <1>2 DEF RunShape, Statuses, None
<1> HIDE DEF v
<1>5. RunsKept
  BY <1>1, <1>2, <1>3, <1>4, OneRunKept, RunKeeps DEF Replan, UnderPlan
<1>6. troubles' \in 0 .. MaxTroubles
  BY DEF Inv, TypeOK, Replan
<1> QED BY <1>5, <1>6, RunsStep DEF Replan

\* A step that concerns neither records nor requests.
LEMMA AsideInv ==
    ASSUME Inv, UNCHANGED <<reqs, tasks, runs, op>>, head' \in 1 .. MaxHead,
           plugin' \in {"enabled", "draining", "disabled"}, troubles' \in 0 .. MaxTroubles
    PROVE  Inv'
<1>1. TypeOK'
  BY ShapesSame DEF Inv, TypeOK
<1>2. Requests'
  BY DEF Inv, Requests
<1>3. OneChain' /\ BoundIsQueued' /\ Continued'
  BY RecordsSame
<1> QED BY <1>1, <1>2, <1>3 DEF Inv

LEMMA MoveBranchInv == ASSUME Inv, MoveBranch PROVE Inv'
BY AsideInv, BoundsAssumption DEF Inv, TypeOK, MoveBranch

LEMMA SetStateInv == ASSUME Inv, SetState PROVE Inv'
<1>1. plugin' \in {"enabled", "draining", "disabled"}
  BY DEF Inv, TypeOK, SetState
<1> QED BY <1>1, AsideInv DEF Inv, TypeOK, SetState

LEMMA RecoveredRun ==
    ASSUME Inv, NEW r \in 1 .. Len(runs), NEW resuming
    PROVE  LET v == Recovered(r, r \in resuming) IN
           /\ v \in RunShape /\ v.task = runs[r].task
           /\ v.queuedBy # "nobody" \/ v.status # "received"
           /\ v.queuedBy = "request" => runs[r].queuedBy = "request"
           /\ v.status \in UnderPlan => runs[r].status \in UnderPlan
           /\ v.linked = runs[r].linked /\ v.base = runs[r].base
<1>1. runs[r] \in RunShape
  BY Elements DEF Inv
<1>2. CASE runs[r].status \in {"received", "planning"}
  BY <1>1, <1>2 DEF Recovered, RunShape, Statuses, UnderPlan
<1>3. CASE runs[r].status = "working"
  BY <1>1, <1>3 DEF Recovered, RunShape, Statuses, UnderPlan
<1>4. CASE runs[r].status \notin {"received", "planning", "working"}
  BY <1>1, <1>4 DEF Recovered, RunShape, Statuses, UnderPlan
<1> QED BY <1>2, <1>3, <1>4

LEMMA RestartInv == ASSUME Inv, Restart PROVE Inv'
<1>1. PICK resuming \in SUBSET DOMAIN runs :
         runs' = [r \in DOMAIN runs |-> Recovered(r, r \in resuming)]
  BY DEF Restart
<1>2. DOMAIN runs = 1 .. Len(runs) /\ Len(runs) \in Nat
  BY Elements DEF Inv
<1>3. \A r \in 1 .. Len(runs) : runs'[r] = Recovered(r, r \in resuming)
  BY <1>1, <1>2
<1>4. runs' \in Seq(RunShape) /\ Len(runs') = Len(runs)
  <2>1. runs' = [r \in 1 .. Len(runs) |-> Recovered(r, r \in resuming)]
    BY <1>1, <1>2
  <2>2. \A r \in 1 .. Len(runs) : Recovered(r, r \in resuming) \in RunShape
    BY RecoveredRun
  <2>3. runs' \in Seq(RunShape)
    BY <1>2, <2>1, <2>2, IsASeq
  <2>4. DOMAIN runs' = 1 .. Len(runs)
    BY <2>1
  <2> QED BY <1>2, <2>3, <2>4, LenProperties
<1>5. RunsKept
  <2>1. ASSUME NEW r \in 1 .. Len(runs)
        PROVE  /\ runs'[r].task = runs[r].task
               /\ Handed(runs, r) => Handed(runs', r)
               /\ runs[r].linked => runs'[r].linked
               /\ Keeps(tasks, runs', r)
    <3>1. /\ runs'[r].task = runs[r].task
          /\ runs'[r].queuedBy # "nobody" \/ runs'[r].status # "received"
          /\ runs'[r].queuedBy = "request" => runs[r].queuedBy = "request"
          /\ runs'[r].status \in UnderPlan => runs[r].status \in UnderPlan
          /\ runs'[r].linked = runs[r].linked /\ runs'[r].base = runs[r].base
      BY <1>3, RecoveredRun
    <3>2. Keeps(tasks, runs, r)
      BY <1>2 DEF Inv, Continued
    <3> QED BY <3>1, <3>2 DEF Handed, Keeps
  <2> QED BY <1>4, <2>1 DEF RunsKept, Restart
<1>6. OneChain' /\ BoundIsQueued' /\ Continued' /\ Grows(tasks, runs, tasks', runs')
  BY <1>5, RunsChange
<1>7. PICK dead \in SUBSET Thread : op' = [h \in Thread |-> IF h \in dead THEN Idle ELSE op[h]]
  BY DEF Restart
<1>8. TypeOK'
  <2>1. op' \in [Thread -> OpShape]
    BY <1>7, IdleHolds DEF Inv, TypeOK
  <2>2. troubles' \in 0 .. MaxTroubles
    BY BoundsAssumption DEF Inv, TypeOK, Restart, Trouble
  <2> QED BY <1>4, <1>5, <2>1, <2>2, ShapesSame DEF Inv, TypeOK, RunsKept, Restart
<1>9. Requests'
  <2> SUFFICES ASSUME NEW h \in Thread PROVE Holds(op'[h], tasks', runs')
    BY DEF Requests
  <2>1. Holds(op[h], tasks', runs')
    BY <1>6, StillHolds DEF Inv, Requests
  <2> QED BY <1>7, <2>1, IdleHolds DEF Inv
<1> QED BY <1>6, <1>8, <1>9 DEF Inv

LEMMA AbortInv == ASSUME Inv, NEW h \in Thread, Abort(h) PROVE Inv'
<1>1. troubles' \in 0 .. MaxTroubles
  BY BoundsAssumption DEF Inv, TypeOK, Abort, Trouble
<1> QED BY <1>1, Leaves DEF Abort

-----------------------------------------------------------------------------
LEMMA InitInv == Init => Inv
<1> SUFFICES ASSUME Init PROVE Inv
  OBVIOUS
<1>1. Len(tasks) = 0 /\ Len(runs) = 0 /\ DOMAIN tasks = {} /\ DOMAIN runs = {}
      /\ tasks \in Seq(TaskShape) /\ runs \in Seq(RunShape)
  BY EmptySeq DEF Init
<1>2. TypeOK
  <2>1. Idle \in OpShape
    BY <1>1 DEF Idle, OpShape, Tasks, Runs, Steps, None
  <2>2. None \in Tasks /\ 1 \in 1 .. MaxHead /\ 0 \in 0 .. MaxTroubles
    BY <1>1, BoundsAssumption DEF Tasks, None
  <2> QED BY <1>1, <2>1, <2>2 DEF TypeOK, Init
<1>3. Requests
  BY <1>2, IdleHolds DEF Requests, Init
<1>4. OneChain /\ Continued
  BY <1>1 DEF OneChain, Continued
<1>5. BoundIsQueued
  BY <1>1 DEF BoundIsQueued, Init
<1> QED BY <1>2, <1>3, <1>4, <1>5 DEF Inv

LEMMA NextInv == Inv /\ [Next]_vars => Inv'
<1> SUFFICES ASSUME Inv, [Next]_vars PROVE Inv'
  OBVIOUS
<1>1. ASSUME NEW h \in Thread, Request(h) PROVE Inv'
  BY <1>1, ReadInv, ClaimInv, CreateInv, LinkInv, DispatchInv, BindInv, AnswerInv DEF Request
<1>2. ASSUME NEW h \in Thread, Abort(h) PROVE Inv'
  BY <1>2, AbortInv
<1>3. ASSUME NEW h \in Thread, NEW k \in Key, Submit(h, k) \/ Redispatch(h, k) PROVE Inv'
  BY <1>3, SubmitInv, RedispatchInv
<1>4. ASSUME NEW h \in Thread, NEW t \in DOMAIN tasks, NEW x \in Words, Feedback(h, t, x)
      PROVE  Inv'
  BY <1>4, FeedbackInv
<1>5. ASSUME NEW r \in DOMAIN runs, Plan(r) \/ Planned(r) \/ Execute(r) PROVE Inv'
  BY <1>5, PlanInv, PlannedInv, ExecuteInv
<1>6. ASSUME NEW r \in DOMAIN runs, Replan(r) \/ End(r) \/ Cancel(r) PROVE Inv'
  BY <1>6, ReplanInv, EndInv, CancelInv
<1>7. CASE MoveBranch \/ SetState \/ Restart
  BY <1>7, MoveBranchInv, SetStateInv, RestartInv
<1>8. CASE UNCHANGED vars
  BY <1>8, AsideInv DEF vars, Inv, TypeOK
<1> QED BY <1>1, <1>2, <1>3, <1>4, <1>5, <1>6, <1>7, <1>8 DEF Next

LEMMA InvAlways == Spec => []Inv
BY InitInv, NextInv, PTL DEF Spec

\* Records keep their shape and name what exists, whatever requests, crashes and
\* restarts do (every write of submit, claim, create_run and link).
THEOREM TypeCorrect == Spec => []TypeOK
<1>1. Inv => TypeOK
  BY DEF Inv
<1> QED BY <1>1, InvAlways, PTL

\* A requirement has one first task, a task one successor and one execution,
\* however many requests claim it (claim, create_run).
THEOREM ChainIsOne == Spec => []OneChain
<1>1. Inv => OneChain
  BY DEF Inv
<1> QED BY <1>1, InvAlways, PTL

\* What names an execution names one that was handed to the queue
\* (_bind_execution, _dispatched).
THEOREM BoundRunsAreQueued == Spec => []BoundIsQueued
<1>1. Inv => BoundIsQueued
  BY DEF Inv
<1> QED BY <1>1, InvAlways, PTL

\* What is dispatched as a revision of a delivery is planned and carried out on
\* that delivery, whatever recoveries and people do with the run (feedback,
\* _require_continuable, _project_for_run).
THEOREM DeliveriesAreKept == Spec => []KeepsDelivered
<1>1. Inv => KeepsDelivered
  BY DEF Inv, Continued, Keeps, KeepsDelivered, Continues, UnderPlan
<1> QED BY <1>1, InvAlways, PTL
=============================================================================
