----------------------------- MODULE Continuous -----------------------------
(***************************************************************************)
(* A round of continuous coding: execute_continuous of                     *)
(* src/factory/control/continuous.py in the round that calls it            *)
(* (run_execution.py), with the independent review, the money both spend   *)
(* (run_billing.py), the evidence the checks leave (evidence_identity.py), *)
(* the lock of the process that writes the worktree (provider_activity.py) *)
(* and the ways back to a round that was interrupted (recovery.py).        *)
(*                                                                         *)
(* The content of the worktree is a number; HEAD is the content last       *)
(* committed.  Money is in quarter dollars.                                *)
(***************************************************************************)
EXTENDS Naturals, Sequences, FiniteSets, FiniteSetsExt

CONSTANTS
    Checks,          \* number of configured checks, run in order
    Limit,           \* the dollar budget of the run
    MaxRepairs,      \* max_repairs: 0 .. 2
    MaxReconnects,   \* reconnections of the coding session; two in the code
    ResumeOnRestart, \* policy["resume_on_restart"]
    Lingers,         \* whether descendants may outlive the worker they belong to
    MaxContent,      \* bound: contents of the worktree are 0 .. MaxContent
    MaxReviews,      \* bound: calls of one review; the code allows seven
    MaxRounds,       \* bound: rounds that a user starts
    MaxCrashes,      \* bound: restarts of the service
    MaxEnv           \* bound: changes of the tools that the checks reach

ASSUME ContinuousAssumption ==
    /\ Checks \in Nat \ {0} /\ Limit \in Nat \ {0} /\ {MaxRepairs, MaxReconnects} \subseteq 0 .. 2
    /\ {ResumeOnRestart, Lingers} \subseteq BOOLEAN
    /\ {MaxContent, MaxReviews, MaxRounds, MaxCrashes, MaxEnv} \subseteq Nat

VARIABLES
    pc,        \* where the worker thread is, or the state of the run between rounds
    stage,     \* resume_stage; "coding" is None, "budget_stop" is coding that is over
    art,       \* the artifacts in the memory of the round
    point,     \* those in its last execution.checkpoint
    stored,    \* those of the run
    code,      \* content of the worktree
    head,      \* content of HEAD
    writers,   \* process groups that may write the worktree
    record,    \* the group in the activity record; 0 is no record
    caller,    \* the group of the call in flight
    reconnects,\* reconnections, repairs and review calls of this invocation
    repairs,
    reviews,
    allowance, \* what coding may still spend in this invocation
    ceiling,   \* max_budget_usd of the call in flight
    ledger,    \* durable usage: known costs, and a hold for each unknown one
    spent,     \* what the calls really cost
    cancel,    \* the cancellation event: "no", set by the "user" or it"self"
    rev,       \* revision of the agreement the round is bound to
    env,       \* the tools and the environment the checks reach
    count      \* rounds and crashes so far

round == <<stage, reconnects, repairs, reviews, allowance>>
disk  == <<code, head>>
tree  == <<writers, record, caller>>
money == <<ceiling, ledger, spent>>
world == <<rev, env, count>>
vars  == <<pc, round, art, point, stored, disk, tree, money, cancel, world>>

Content == 0 .. MaxContent
Clean   == MaxContent + 1
Rest    == {"paused", "delivered", "cancelled"}

\* What a round keeps about its work.  A commit of Clean is no commit; fin is the
\* signature in the finalization checkpoint, whose checks are those in checks.
None  == [status |-> "no site"]
NoFin == <<>>
Empty == [commit |-> Clean, checks |-> <<>>, fin |-> NoFin, guard |-> 0, status |-> "running",
          exhausted |-> FALSE, evidence |-> "none", verdict |-> "none", reserve |-> 0, fixed |-> 0]
-----------------------------------------------------------------------------
(* Evidence.  A result is reused for the exact thing it ran against.       *)

\* _working_hash hashes the difference to HEAD, so every clean tree is alike.
Signature == IF code = head THEN <<Clean, Clean>> ELSE <<head, code>>

\* A plausible mistake: the tools are not part of the identity.
IdentityOfCode(r, sig) == r.ok /\ r.sig = sig /\ r.rev = rev
Reusable(r, sig)       == r.ok /\ r.sig = sig /\ r.rev = rev /\ r.env = env

Failed(checks) == \E i \in DOMAIN checks : ~checks[i].ok

StillEvidence(prior, i, sig) == i \in DOMAIN prior /\ Reusable(prior[i], sig)

\* The results of a run over the checks, up to the first that fails; those of
\* prior that are still evidence are kept.
Fresh(sig, ok) == [ok |-> ok, sig |-> sig, rev |-> rev, env |-> env, ran |-> code]
Upto(prior, sig, n, ok) ==
    [i \in 1 .. n |-> IF StillEvidence(prior, i, sig) THEN prior[i] ELSE Fresh(sig, i < n \/ ok)]
Results(prior, sig) ==
    {Upto(prior, sig, Checks, TRUE)}
    \cup {Upto(prior, sig, n, FALSE) : n \in {i \in 1 .. Checks : ~StillEvidence(prior, i, sig)}}

\* _continuous_resume_stage: a stage that needs no other coding call.
ResumeStage(a) ==
    IF a.fin # NoFin /\ ~Failed(a.checks) THEN "finalization"
    ELSE IF a.exhausted /\ a.commit = Clean /\ a.evidence # "none" /\ ~Failed(a.checks)
         THEN "budget_finalization"
    ELSE IF a.commit # Clean /\ a.status = "verified" /\ a.verdict \in {"none", "error"}
         THEN "verification" ELSE "coding"
-----------------------------------------------------------------------------
(* Money.                                                                  *)

Left == IF ledger < Limit THEN Limit - ledger ELSE 0

\* A part of what is left is kept for the review; fractions are dropped.
Reserve(left) == Min({8, left \div 2, Max({1, left \div 5})})

\* An earlier reserve that no review has used is kept across continuations.
Kept(left) ==
    IF stored # None /\ stored.verdict = "none"
    THEN Min({left, Max({Reserve(left), stored.reserve})}) ELSE Reserve(left)

\* A plausible mistake: a call without a price is free.
HoldNothing(c) == 0
Hold(c)        == c
-----------------------------------------------------------------------------
(* How a round ends.                                                       *)

Forget ==
    /\ art' = None /\ ceiling' = 0 /\ stage' = "coding" /\ allowance' = 0
    /\ reconnects' = 0 /\ repairs' = 0 /\ reviews' = 0

\* _fail: the artifacts of the exception become those of the run, unless the
\* user has cancelled it.  The executor also writes a last checkpoint.
FailWith(a, last) ==
    /\ Forget
    /\ pc' = IF cancel = "user" THEN "cancelled" ELSE "paused"
    /\ stored' = IF cancel = "user" THEN stored ELSE a
    /\ point' = last

\* The status of the task is part of the artifacts of an executor's exception.
Fail(a) == LET b == [a EXCEPT !.status = "failed"] IN FailWith(b, b)

\* An exception without artifacts leaves those of the run as they are.
Refuse == FailWith(stored, point)
-----------------------------------------------------------------------------
Init ==
    /\ pc = "queued" /\ stage = "coding" /\ art = None /\ point = None /\ stored = None
    /\ code = 0 /\ head = 0 /\ writers = {} /\ record = 0 /\ caller = 0
    /\ reconnects = 0 /\ repairs = 0 /\ reviews = 0 /\ allowance = 0
    /\ ceiling = 0 /\ ledger = 0 /\ spent = 0
    /\ cancel = "no" /\ rev = 1 /\ env = 0
    /\ count = [rounds |-> 1, crashes |-> 0]

\* The worker moves the run to running.
Claim ==
    /\ pc = "queued" /\ pc' = "starting"
    /\ UNCHANGED <<round, art, point, stored, disk, tree, money, cancel, world>>

LocalOnly == stage \in {"finalization", "budget_finalization"}

\* Nothing is left to pay a call with, or only what is kept for the review.
NothingToSpend ==
    \/ Left = 0 /\ ~LocalOnly
    \/ stage = "coding" /\ Left <= Kept(Left)
BudgetStop ==
    /\ pc = "starting" /\ NothingToSpend
    /\ FailWith([stored EXCEPT !.exhausted = TRUE], point)
    /\ UNCHANGED <<disk, tree, ledger, spent, cancel, world>>

\* is_active: the recorded group answers for the whole tree of the writer.
\* A plausible mistake: only the worker's own lock is asked.
ActiveByLock == FALSE
Active       == record \in writers
SiteMoved    == stored # None /\ stored.guard # head

\* The Git metadata of the site has changed, or somebody still writes it.
Unreachable ==
    /\ pc = "starting" /\ ~NothingToSpend
    /\ stored # None /\ (SiteMoved \/ Active)
    /\ Refuse
    /\ UNCHANGED <<disk, tree, ledger, spent, cancel, world>>

\* The executor begins: a new site, or the one it returns to.  The first
\* checkpoint is written before the stage is looked at.
Open ==
    /\ pc = "starting" /\ ~NothingToSpend
    /\ stored # None => ~SiteMoved /\ ~Active
    /\ cancel = "no"
    /\ LET site == IF stored = None THEN Empty ELSE [stored EXCEPT !.verdict = "none"]
       IN  /\ art' = [site EXCEPT !.status = "running",
                                  !.reserve = IF stage = "coding" THEN Kept(Left) ELSE @]
           /\ point' = art'
    /\ allowance' = IF stage = "coding" THEN Left - Kept(Left) ELSE Left
    /\ pc' = "site"
    /\ UNCHANGED <<stored, disk, tree, money, cancel, world,
                   stage, reconnects, repairs, reviews>>

CancelledBeforeOpen ==
    /\ pc = "starting" /\ cancel # "no"
    /\ Refuse
    /\ UNCHANGED <<disk, tree, ledger, spent, cancel, world>>

\* The stage decides what the site may be used for.
EnterStage ==
    /\ pc = "site"
    /\ CASE stage = "coding" ->
              /\ art' = [art EXCEPT !.fin = NoFin]
              /\ pc' = "coding"
              /\ UNCHANGED <<point, stored, round, ceiling>>
         [] stage = "finalization" ->
              IF Signature # art.fin THEN Fail(art)
              ELSE /\ pc' = "checks"
                   /\ UNCHANGED <<art, point, stored, round, ceiling>>
         [] stage = "budget_finalization" ->
              IF code = head THEN Fail(art)
              ELSE /\ pc' = "checks"
                   /\ UNCHANGED <<art, point, stored, round, ceiling>>
         [] stage = "verification" ->
              IF art.commit # head \/ code # head \/ art.checks = <<>> \/ Failed(art.checks)
              THEN Fail(art)
              ELSE /\ pc' = "recheck"
                   /\ UNCHANGED <<art, point, stored, round, ceiling>>
    /\ UNCHANGED <<disk, tree, ledger, spent, cancel, world>>

\* Results of the commit that are no longer evidence are established again; a
\* check that fails or that writes the source ends the round.
Rechecks == Results(art.checks, art.checks[1].sig)
RecheckPasses ==
    /\ pc = "recheck" /\ pc' = "review"
    /\ \E results \in Rechecks :
         /\ ~Failed(results)
         /\ art' = [art EXCEPT !.checks = results, !.status = "verified"] /\ point' = art'
    /\ UNCHANGED <<stored, round, disk, tree, money, cancel, world>>

RecheckFails ==
    /\ pc = "recheck" /\ Rechecks # {art.checks}
    /\ Fail(art)
    /\ code' \in Content
    /\ UNCHANGED <<head, tree, ledger, spent, cancel, world>>
-----------------------------------------------------------------------------
(* The coding loop.                                                        *)

CodingCancelled ==
    /\ pc = "coding" /\ cancel # "no"
    /\ Fail(art)
    /\ UNCHANGED <<disk, tree, ledger, spent, cancel, world>>

CodingBlocked ==
    /\ pc = "coding" /\ cancel = "no" /\ allowance = 0
    /\ Fail([art EXCEPT !.exhausted = TRUE])
    /\ UNCHANGED <<disk, tree, ledger, spent, cancel, world>>

\* A call is dispatched: its group is registered before it can write.
Unused == (1 .. 9) \ (writers \cup {record})
Dispatch ==
    /\ pc = "coding" /\ cancel = "no" /\ allowance > 0
    /\ pc' = "call" /\ ceiling' = allowance
    /\ art' = [art EXCEPT !.exhausted = FALSE,
                        !.evidence = IF @ = "none" THEN @ ELSE "earlier"] /\ point' = art'
    /\ caller' \in Unused /\ \A group \in Unused : caller' <= group
    /\ record' = caller' /\ writers' = writers \cup {caller'}
    /\ UNCHANGED <<stored, round, disk, ledger, spent, cancel, world>>

\* The worker edits, and reports a command that succeeded.
Edit ==
    /\ writers # {}
    /\ code' \in Content \ {code}
    /\ UNCHANGED <<pc, round, art, point, stored, head, tree, money, cancel, world>>

CommandSucceeds ==
    /\ pc = "call" /\ art.evidence # "now"
    /\ art' = [art EXCEPT !.evidence = "now"] /\ point' = art'
    /\ UNCHANGED <<pc, round, stored, disk, tree, money, cancel, world>>

\* The usage is recorded; the record of the group is dropped once it is empty.
Pay ==
    \E cost \in 0 .. ceiling, priced \in BOOLEAN :
        /\ spent' = spent + cost
        /\ ledger' = ledger + IF priced THEN cost ELSE Hold(ceiling)
CallEnds ==
    /\ pc = "call" /\ Pay
    /\ caller' = 0
    /\ \E lingers \in {FALSE, Lingers} :
         /\ writers' = IF lingers THEN writers ELSE writers \ {caller}
         /\ record'  = IF lingers THEN record ELSE 0
    /\ UNCHANGED <<disk, cancel, world>>
\* A plausible mistake: every call of the invocation gets its first allowance.
AllowedAgain(paid) == allowance
Allowed(paid)      == allowance - paid
Charged ==
    /\ ceiling' = 0 /\ allowance' = Allowed(ledger' - ledger)
    /\ point' = art /\ UNCHANGED <<art, stored, repairs, reviews>>

CallReturns ==
    /\ CallEnds /\ cancel = "no"
    /\ pc' = "checks" /\ Charged
    /\ UNCHANGED <<stage, reconnects>>

\* A transient failure: the same session and worktree, twice at most.
\* A plausible mistake: the bound is off by one.
OnceMore     == reconnects <= MaxReconnects
CanReconnect == reconnects < MaxReconnects
Reconnect ==
    /\ CallEnds /\ cancel = "no" /\ CanReconnect
    /\ pc' = "coding" /\ Charged
    /\ reconnects' = reconnects + 1
    /\ UNCHANGED stage

\* The provider stops at the ceiling: work that a command has tried is checked.
CallExhausted ==
    /\ CallEnds /\ cancel = "no"
    /\ IF art.evidence = "now" /\ code # head
       THEN pc' = "checks" /\ stage' = "budget_stop" /\ Charged /\ UNCHANGED reconnects
       ELSE Fail([art EXCEPT !.exhausted = TRUE])

CallFails == CallEnds /\ Fail(art)
-----------------------------------------------------------------------------
(* The platform's checks.                                                  *)

Checked(results) == [art EXCEPT !.checks = results]

\* The finalization checkpoint is written before anything is committed.
ChecksPass ==
    /\ pc = "checks" /\ pc' = "finalize"
    /\ \E results \in Results(art.checks, Signature) :
         /\ ~Failed(results)
         /\ art' = [Checked(results) EXCEPT !.fin = Signature,
                                            !.exhausted = @ /\ stage # "budget_finalization"]
    /\ point' = IF stage = "finalization" THEN point ELSE art'
    /\ UNCHANGED <<stored, round, disk, tree, money, cancel, world>>

MayRepairChecks == stage = "coding" /\ cancel = "no" /\ repairs < MaxRepairs
ChecksFail ==
    /\ pc = "checks"
    /\ \E results \in Results(art.checks, Signature) :
         /\ Failed(results)
         /\ IF MayRepairChecks
            THEN /\ pc' = "coding" /\ art' = Checked(results) /\ point' = art'
                 /\ repairs' = repairs + 1
                 /\ UNCHANGED <<stored, stage, reconnects, reviews, allowance, ceiling>>
            ELSE Fail([Checked(results) EXCEPT !.exhausted = @ \/ stage = "budget_stop"])
    /\ UNCHANGED <<disk, tree, ledger, spent, cancel, world>>

\* A check that runs may write the source, whatever it answers.
ChecksWrite ==
    /\ pc = "checks"
    /\ \E results \in Results(art.checks, Signature) :
         /\ \E i \in DOMAIN results : ~StillEvidence(art.checks, i, Signature)
         /\ Fail(Checked(results))
    /\ code' \in Content \ {code}
    /\ UNCHANGED <<head, tree, ledger, spent, cancel, world>>
-----------------------------------------------------------------------------
(* finalize: the commit, which a user's cancellation does not interrupt.   *)

FinalizeRefused ==
    /\ pc = "finalize" /\ cancel # "no"
    /\ Fail(art)
    /\ UNCHANGED <<disk, tree, ledger, spent, cancel, world>>

\* Only the names of the staged paths are compared with those that were checked.
Commit ==
    /\ pc = "finalize" /\ cancel = "no"
    /\ pc' = "committed"
    /\ head' = IF art.fin = <<Clean, Clean>> THEN head ELSE code
    /\ UNCHANGED <<round, art, point, stored, code, tree, money, cancel, world>>

\* Cancelled by the deadline or a stop of the service: the branch goes back.
RollBack ==
    /\ pc = "committed" /\ cancel # "no"
    /\ head' = art.guard
    /\ Fail(art)
    /\ UNCHANGED <<code, tree, ledger, spent, cancel, world>>

Recorded == [art EXCEPT !.commit = head, !.status = "verified", !.fin = NoFin, !.guard = head]
Record ==
    /\ pc = "committed" /\ cancel = "no"
    /\ IF code = head
       THEN /\ pc' = "review" /\ art' = Recorded /\ point' = art' /\ reviews' = 0
            /\ UNCHANGED <<stored, stage, reconnects, repairs, allowance, ceiling>>
       ELSE Fail([Recorded EXCEPT !.fin = art.fin])
    /\ UNCHANGED <<disk, tree, ledger, spent, cancel, world>>
-----------------------------------------------------------------------------
(* The independent review, in a disposable copy of the commit.  It leaves  *)
(* its artifacts to the run and writes no checkpoint.                      *)

ReviewRefused ==
    /\ pc = "review" /\ (cancel # "no" \/ Left = 0)
    /\ FailWith(IF cancel = "no" THEN [art EXCEPT !.exhausted = TRUE] ELSE art, point)
    /\ UNCHANGED <<disk, tree, ledger, spent, cancel, world>>

Review ==
    /\ pc = "review" /\ cancel = "no" /\ Left > 0
    /\ pc' = "reviewing" /\ ceiling' = Left
    /\ UNCHANGED <<art, point, stored, round, disk, tree, ledger, spent, cancel, world>>

\* A reconnection, a correction of the receipt, the missing rows, the format.
ReviewAgain ==
    /\ pc = "reviewing" /\ cancel = "no" /\ reviews < MaxReviews
    /\ Pay /\ pc' = "review" /\ ceiling' = 0 /\ reviews' = reviews + 1
    /\ UNCHANGED <<art, point, stored, stage, reconnects, repairs, allowance, disk, tree, cancel, world>>

ReviewPasses ==
    /\ pc = "reviewing" /\ Pay /\ Forget
    /\ IF cancel = "user"
       THEN pc' = "cancelled" /\ UNCHANGED stored
       ELSE pc' = "delivered" /\ stored' = [art EXCEPT !.verdict = "pass"]
    /\ UNCHANGED <<point, disk, tree, cancel, world>>

\* "none" is a call that failed, "error" an answer that is no verdict.
ReviewFails ==
    /\ pc = "reviewing" /\ Pay
    /\ \E verdict \in {"none", "error"}, exhausted \in BOOLEAN :
         /\ exhausted => verdict = "none"
         /\ FailWith([art EXCEPT !.verdict = verdict, !.exhausted = @ \/ exhausted], point)
    /\ UNCHANGED <<disk, tree, cancel, world>>

\* A plausible mistake: what was repaired once may be repaired again.
RepairsForever == TRUE
RepairsOnce    == art.fixed = 0
ReviewRejects ==
    /\ pc = "reviewing" /\ Pay
    /\ LET rejected == [art EXCEPT !.verdict = "fail"]
       IN  IF RepairsOnce /\ cancel = "no"
           THEN /\ pc' = "repair" /\ art' = rejected /\ ceiling' = 0
                /\ UNCHANGED <<point, stored, round>>
           ELSE FailWith(rejected, point)
    /\ UNCHANGED <<disk, tree, cancel, world>>

\* The executor is entered once more on the site, with what is left now.
RepairUnfunded ==
    /\ pc = "repair" /\ Left = 0
    /\ FailWith([art EXCEPT !.exhausted = TRUE], point)
    /\ UNCHANGED <<disk, tree, ledger, spent, cancel, world>>

Repair ==
    /\ pc = "repair" /\ Left > 0
    /\ pc' = "reopen" /\ art' = [art EXCEPT !.fixed = 1] /\ point' = art'
    /\ UNCHANGED <<stored, round, disk, tree, money, cancel, world>>

ReopenRefused ==
    /\ pc = "reopen" /\ (cancel # "no" \/ Active)
    /\ Refuse
    /\ UNCHANGED <<disk, tree, ledger, spent, cancel, world>>

Reopen ==
    /\ pc = "reopen" /\ cancel = "no" /\ ~Active
    /\ pc' = "site" /\ stage' = "coding"
    /\ art' = [art EXCEPT !.status = "running", !.verdict = "none", !.reserve = Reserve(Left)]
    /\ point' = art'
    /\ allowance' = Left - Reserve(Left) /\ reconnects' = 0 /\ repairs' = 0
    /\ UNCHANGED <<stored, reviews, disk, tree, money, cancel, world>>
-----------------------------------------------------------------------------
(* What happens to a round from outside.                                   *)

Cancel ==
    /\ pc \notin Rest \cup {"committed"} /\ cancel = "no"
    /\ cancel' = "user" /\ pc' = (IF pc = "queued" THEN "cancelled" ELSE pc)
    /\ UNCHANGED <<round, art, point, stored, disk, tree, money, world>>

\* The deadline of the round has passed, or the service stops.
CancelItself ==
    /\ pc \notin Rest \cup {"queued"} /\ cancel = "no"
    /\ cancel' = "self"
    /\ UNCHANGED <<pc, round, art, point, stored, disk, tree, money, world>>

\* continue_run.  New words make a new revision, which is always coded.
Continue ==
    /\ pc = "paused" /\ stored # None /\ cancel = "no"
    /\ count.rounds < MaxRounds
    /\ pc' = "queued" /\ count' = [count EXCEPT !.rounds = @ + 1]
    /\ \/ stage' = ResumeStage(stored) /\ UNCHANGED rev
       \/ stage' = "coding" /\ rev' = rev + 1
    /\ UNCHANGED <<art, point, stored, disk, tree, money, cancel, env,
                   reconnects, repairs, reviews, allowance>>

\* A call in flight is held at its ceiling, unless its run is cancelled; the
\* processes that write the worktree are not those of the service.
Crash ==
    /\ pc \notin Rest /\ count.crashes < MaxCrashes
    /\ count' = [count EXCEPT !.crashes = @ + 1]
    /\ cancel' = "no" /\ art' = None /\ ceiling' = 0 /\ caller' = 0
    /\ reconnects' = 0 /\ repairs' = 0 /\ reviews' = 0 /\ allowance' = 0
    /\ \E cost \in 0 .. ceiling : spent' = spent + cost
    /\ ledger' = ledger + IF cancel = "user" THEN 0 ELSE Hold(ceiling)
    /\ CASE cancel = "user" ->
              pc' = "cancelled" /\ UNCHANGED <<stage, stored>>
         [] cancel # "user" /\ ResumeOnRestart /\ pc = "queued" ->
              UNCHANGED <<pc, stage, stored>>
         [] cancel # "user" /\ ResumeOnRestart /\ pc # "queued" /\ point # None ->
              pc' = "queued" /\ stored' = point /\ stage' = ResumeStage(point)
         [] OTHER ->
              pc' = "paused" /\ stage' = "coding" /\ UNCHANGED stored
    /\ UNCHANGED <<point, disk, writers, record, rev, env>>

\* A group that no call owns any more ends by itself.
WriterExits ==
    /\ \E group \in writers : group # caller /\ writers' = writers \ {group}
    /\ UNCHANGED <<pc, round, art, point, stored, disk, record, caller, money, cancel, world>>

ToolsChange ==
    /\ pc \in {"paused", "queued"} /\ env < MaxEnv
    /\ env' = env + 1
    /\ UNCHANGED <<pc, round, art, point, stored, disk, tree, money, cancel, rev, count>>
-----------------------------------------------------------------------------
Enter  == Claim \/ BudgetStop \/ Unreachable \/ CancelledBeforeOpen \/ Open \/ EnterStage
          \/ RecheckPasses \/ RecheckFails
Code   == CodingCancelled \/ CodingBlocked \/ Dispatch
Answer == CallReturns \/ Reconnect \/ CallExhausted \/ CallFails
Check  == ChecksPass \/ ChecksFail \/ ChecksWrite
Finalize == FinalizeRefused \/ Commit \/ RollBack \/ Record
Judge  == ReviewRefused \/ Review \/ ReviewAgain \/ ReviewPasses \/ ReviewFails \/ ReviewRejects
Mend   == RepairUnfunded \/ Repair \/ ReopenRefused \/ Reopen

\* The steps of the worker thread; every call and check has a timeout.
Worker == Enter \/ Code \/ Answer \/ Check \/ Finalize \/ Judge \/ Mend
Next ==
    \/ Worker
    \/ Edit \/ CommandSucceeds \/ WriterExits
    \/ Cancel \/ CancelItself \/ Continue \/ Crash \/ ToolsChange

Spec     == Init /\ [][Next]_vars
FairSpec == Spec /\ WF_vars(Worker)
=============================================================================
