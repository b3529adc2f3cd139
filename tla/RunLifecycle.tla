---------------------------- MODULE RunLifecycle ----------------------------
(***************************************************************************)
(* The control service of one factory process: users act on runs over      *)
(* HTTP, a dispatcher thread claims queued rounds, worker threads plan,    *)
(* execute, land and publish, and a restart reconciles what a crash left.  *)
(*                                                                         *)
(* runs, notes and jobs are the database and survive a crash; the other    *)
(* variables are the memory of the process.                                *)
(***************************************************************************)
EXTENDS RunStore

CONSTANTS
    MaxActive,  \* rounds in flight at once (4 in the code)
    MaxRounds,  \* bound: a user opens no round beyond this generation
    MaxCrashes  \* bound: crashes of the process in a behaviour

ASSUME LimitsAssumption ==
    MaxActive \in Nat /\ MaxRounds \in Nat /\ MaxCrashes \in Nat

VARIABLES
    runs,       \* table runs
    notes,      \* supplement receipts in table events
    jobs,       \* table control_jobs, per run and phase
    mode,       \* "up", "recovering" or "down"
    torecover,  \* runs recover() has not visited yet
    lock,       \* what the holder of Service.lock has still to do; {} if free
    active,     \* Service.active_jobs: the phase in flight, or "none"
    token,      \* Service.cancels: the state of the run's cancellation token
    workers,    \* worker threads, one record each
    starting,   \* threads between the update of a run and their _submit
    resumers,   \* threads inside continue_run or _auto_resume_with_followups
    cancelling, \* the cancel request in flight for a run
    publishing, \* runs a publish request is publishing
    crashes     \* crashes so far

db == <<runs, notes, jobs>>
vars == <<runs, notes, jobs, mode, torecover, lock, active, token, workers,
          starting, resumers, cancelling, publishing, crashes>>

-----------------------------------------------------------------------------
(* Types.                                                                  *)

WorkerPC == {"start", "analysing", "confirming", "planning", "approving", "running",
             "finalizing", "reviewing", "landed", "collected", "publishing",
             "conflict", "refused", "error", "failing", "returning", "saving", "ending"}

\* judged: the supplements in the agreement this round executes and is judged
\* by.  "refused" is a landing turned away; "failing", "returning" (after a
\* refused landing) and "saving" (the exception carries artifacts) call _fail.
Worker == [run : Runs, phase : Phases, gen : Nat, pc : WorkerPC,
           judged : SUBSET Followups]

\* seen: the supplements the thread read before it let go of the lock.
Resumer == [run : Runs, kind : {"human", "auto"}, pc : {"check", "analysing"},
            revision : Nat, resumes : Nat, seen : SUBSET Followups]

\* A lock holder between two of its transactions: "mark" writes the applied
\* receipts of clarify, "confirm" is an automatic confirmation, "submit" is
\* the queue insertion of _submit.
Holder == [run : Runs, step : {"mark", "confirm", "submit"}, phase : Phases,
           marks : SUBSET Followups]

TypeOK ==
    /\ runs \in [Runs -> Run]
    /\ notes \in [Runs -> Notes]
    /\ jobs \in [Runs -> [Phases -> Job]]
    /\ mode \in {"up", "recovering", "down"}
    /\ torecover \subseteq Runs
    /\ lock \subseteq Holder
    /\ active \in [Runs -> Phases \cup {"none"}]
    /\ token \in [Runs -> {"none", "clear", "set"}]
    /\ workers \subseteq Worker
    /\ starting \subseteq Runs \X Phases
    /\ resumers \subseteq Resumer
    /\ cancelling \in [Runs -> {"idle", "captured", "stale", "accepted"}]
    /\ publishing \subseteq Runs
    /\ crashes \in Nat

Init ==
    /\ runs = [r \in Runs |-> NoRun]
    /\ notes = [r \in Runs |-> NoNotes]
    /\ jobs = [r \in Runs |-> [p \in Phases |-> NoJob]]
    /\ mode = "up"
    /\ torecover = {}
    /\ lock = {}
    /\ active = [r \in Runs |-> "none"]
    /\ token = [r \in Runs |-> "none"]
    /\ workers = {}
    /\ starting = {}
    /\ resumers = {}
    /\ cancelling = [r \in Runs |-> "idle"]
    /\ publishing = {}
    /\ crashes = 0

-----------------------------------------------------------------------------
(* Helpers.                                                                *)

Up == mode = "up"
Locked == lock # {}
Status(r) == runs[r].status
Collected(r) == Unconsumed(notes[r])

\* Store.update: the caller's guard has tested the status it expects.
Update(r, doc) == runs' = [runs EXCEPT ![r] = doc]

SetStatus(r, s) == Update(r, [runs[r] EXCEPT !.status = s])

\* The receipts of supplements: accepted, merged into a round, left over.
Register(r, fs) == notes' = [notes EXCEPT ![r].registered = @ \cup fs]
Receipt(r, fs) == notes' = [notes EXCEPT ![r].applied = @ \cup fs]
Expire(r, fs) == notes' = [notes EXCEPT ![r].expired = @ \cup fs]

Hold(r, step, phase, marks) ==
    lock' = {[run |-> r, step |-> step, phase |-> phase, marks |-> marks]}

\* requirement_analysis.required
NeedsAnalysis(r) == r \in SpecRuns /\ ~runs[r].confirmed

\* The phase start_plan submits.
StartPhase(r) == IF NeedsAnalysis(r) THEN "requirement_analysis" ELSE "plan"

\* A confirmed specification is the agreement supplements are read against.
HasContract(r) == r \in SpecRuns /\ runs[r].confirmed

\* Bound on the requests of users that open a new round.
MayAsk(r) == \A p \in Phases : jobs[r][p].gen < MaxRounds

FreshFollowups == {f \in Followups : \A r \in Runs : f \notin notes[r].registered}

Step(w, pc) == workers' = (workers \ {w}) \cup {[w EXCEPT !.pc = pc]}

\* A plausible mistake in _fail: no exception for a cancelled run.
FailedRunUnguarded(r, saved) ==
    [runs[r] EXCEPT !.status = "needs_human", !.site = @ \/ saved]

\* _fail: a cancelled run is left alone, any other one waits for a person.
\* saved: the failure carries artifacts, which replace those of the run.
FailedRun(r, saved) ==
    IF Status(r) = "cancelled" THEN runs[r]
    ELSE [runs[r] EXCEPT !.status = "needs_human", !.site = @ \/ saved,
                         !.pr = @ /\ ~saved]

\* The publisher delivered: the pull request is part of the artifacts.
Published(r) == [runs[r] EXCEPT !.status = "published", !.pr = TRUE]

\* _submit: only a plan of a received run may follow a round still running.
Submitted(r, p) ==
    [jobs EXCEPT ![r][p] = Enqueued(@, p = "plan" /\ Status(r) = "received")]

-----------------------------------------------------------------------------
(* Opening a run and handing rounds to the queue.                          *)

\* POST /runs: the run is created, then start_plan is called by the same thread.
NewRun(r) ==
    /\ Up /\ Status(r) = "absent"
    /\ SetStatus(r, "received")
    /\ starting' = starting \cup {<<r, StartPhase(r)>>}
    /\ UNCHANGED <<notes, jobs, mode, torecover, lock, active, token, workers,
                   resumers, cancelling, publishing, crashes>>

\* start_plan, or the _submit of an automatic resume, takes the lock.  A plan
\* of a run that is no longer received conflicts, and the route calls _fail.
StartPlan(r, p) ==
    /\ Up /\ ~Locked /\ <<r, p>> \in starting
    /\ starting' = starting \ {<<r, p>>}
    /\ IF p = "plan" /\ Status(r) # "received"
       THEN Update(r, FailedRun(r, FALSE)) /\ UNCHANGED jobs
       ELSE jobs' = Submitted(r, p) /\ UNCHANGED runs
    /\ UNCHANGED <<notes, mode, torecover, lock, active, token, workers,
                   resumers, cancelling, publishing, crashes>>

\* The receipts clarify writes in a transaction after its update of the run.
MarkApplied ==
    /\ \E h \in lock :
         /\ h.step = "mark"
         /\ Receipt(h.run, h.marks)
         /\ Hold(h.run, "submit", h.phase, {})
    /\ UNCHANGED <<runs, jobs, mode, torecover, active, token, workers, starting,
                   resumers, cancelling, publishing, crashes>>

\* The queue insertion of a caller that holds the lock, which it then releases.
Submit ==
    /\ \E h \in lock :
         /\ h.step = "submit"
         /\ jobs' = Submitted(h.run, h.phase)
    /\ lock' = {}
    /\ UNCHANGED <<runs, notes, mode, torecover, active, token, workers, starting,
                   resumers, cancelling, publishing, crashes>>

-----------------------------------------------------------------------------
(* The dispatcher and the end of a round.                                  *)

ExpectedStatus(p) == IF p = "execute" THEN "queued" ELSE "received"

SlotsTaken == Cardinality({s \in Runs : active[s] # "none"})

\* A plausible mistake in _dispatch: the run's own slot is not looked at.
SlotFreeIgnoringRun(r) == SlotsTaken < MaxActive

\* A run has one round in flight, the process at most MaxActive.
SlotFree(r) == active[r] = "none" /\ SlotsTaken < MaxActive

\* One pending row the dispatcher reaches.  A row whose run has moved on is
\* retired with all other rows of the run; otherwise the round is claimed and
\* the run gets a fresh cancellation token.
Dispatch(r, p) ==
    /\ Up /\ ~Locked
    /\ Claimable(jobs[r][p])
    /\ SlotFree(r)
    /\ IF Status(r) # ExpectedStatus(p)
       THEN /\ jobs' = [jobs EXCEPT ![r] = ResetRows(@)]
            /\ UNCHANGED <<active, token, workers, cancelling>>
       ELSE /\ jobs' = [jobs EXCEPT ![r][p] = Claimed(@)]
            /\ active' = [active EXCEPT ![r] = p]
            /\ token' = [token EXCEPT ![r] = "clear"]
            /\ workers' = workers \cup {[run |-> r, phase |-> p,
                    gen |-> jobs[r][p].gen, pc |-> "start", judged |-> {}]}
            /\ cancelling' = [cancelling EXCEPT
                    ![r] = IF @ = "captured" THEN "stale" ELSE @]
    /\ UNCHANGED <<runs, notes, mode, torecover, lock, starting, resumers,
                   publishing, crashes>>

\* The finally clause of _job: retire the round, release the slot, then look
\* for supplements an automatic resume could merge.
FinishJob(w) ==
    /\ ~Locked /\ w.pc = "ending"
    /\ jobs' = [jobs EXCEPT ![w.run][w.phase] = Finished(@, w.gen)]
    /\ active' = [active EXCEPT ![w.run] = "none"]
    /\ workers' = workers \ {w}
    /\ resumers' = resumers \cup {[run |-> w.run, kind |-> "auto", pc |-> "check",
                                   revision |-> 0, resumes |-> 0, seen |-> {}]}
    /\ UNCHANGED <<runs, notes, mode, torecover, lock, token, starting, cancelling,
                   publishing, crashes>>

\* _fail at the end of a worker's exception handler.
WorkerFail(w) ==
    /\ ~Locked /\ w.pc \in {"failing", "returning", "saving"}
    /\ Update(w.run, FailedRun(w.run, w.pc = "saving"))
    /\ Step(w, "ending")
    /\ UNCHANGED <<notes, jobs, mode, torecover, lock, active, token, starting,
                   resumers, cancelling, publishing, crashes>>

-----------------------------------------------------------------------------
(* A round of requirement analysis.                                        *)

\* analyze: its handler turns every exception into _fail, conflicts included.
AnalyzeStart(w) ==
    /\ w.pc = "start"
    /\ w.phase # "execute"
    /\ w.phase = "plan" => NeedsAnalysis(w.run)
    /\ IF Status(w.run) = "received"
       THEN SetStatus(w.run, "requirement_analysis") /\ Step(w, "analysing")
       ELSE UNCHANGED runs /\ Step(w, "failing")
    /\ UNCHANGED <<notes, jobs, mode, torecover, lock, active, token, starting,
                   resumers, cancelling, publishing, crashes>>

AnalyzeError(w) ==
    /\ w.pc = "analysing"
    /\ Step(w, "failing")
    /\ UNCHANGED <<db, mode, torecover, lock, active, token, starting, resumers,
                   cancelling, publishing, crashes>>

\* The analyst answered: under the lock, finish_analysis publishes the draft.  A
\* run that delegates the decision goes on to confirm, with the lock still held
\* unless the draft had been saved by an earlier round.
FinishAnalysis(w) ==
    /\ ~Locked /\ w.pc = "analysing"
    /\ IF token[w.run] = "set" \/ Status(w.run) # "requirement_analysis"
       THEN Step(w, "failing") /\ UNCHANGED <<runs, lock>>
       ELSE /\ Update(w.run, [runs[w.run] EXCEPT
                    !.status = "awaiting_spec_confirmation", !.revision = @ + 1])
            /\ \/ Step(w, "ending") /\ UNCHANGED lock
               \/ /\ Step(w, "confirming")
                  /\ IF runs[w.run].revision = 0
                     THEN Hold(w.run, "confirm", "plan", {}) ELSE UNCHANGED lock
    /\ UNCHANGED <<notes, jobs, mode, torecover, active, token, starting, resumers,
                   cancelling, publishing, crashes>>

\* The automatic confirm at the end of finish_analysis.  A confirmation that
\* came first, or a failed validation, ends in _fail.
AutoConfirm(w) ==
    /\ w.pc = "confirming"
    /\ ~Locked \/ \E h \in lock : h.run = w.run /\ h.step = "confirm"
    /\ \/ /\ Status(w.run) = "awaiting_spec_confirmation"
          /\ Update(w.run, [runs[w.run] EXCEPT !.status = "received",
                                              !.confirmed = TRUE])
          /\ Hold(w.run, "submit", "plan", {})
          /\ Step(w, "ending")
       \/ UNCHANGED runs /\ lock' = {} /\ Step(w, "failing")
    /\ UNCHANGED <<notes, jobs, mode, torecover, active, token, starting, resumers,
                   cancelling, publishing, crashes>>

-----------------------------------------------------------------------------
(* A round of planning.                                                    *)

PlanStart(w) ==
    /\ w.pc = "start" /\ w.phase = "plan" /\ ~NeedsAnalysis(w.run)
    /\ IF Status(w.run) = "received"
       THEN SetStatus(w.run, "planning") /\ Step(w, "planning")
       ELSE UNCHANGED runs /\ Step(w, "conflict")
    /\ UNCHANGED <<notes, jobs, mode, torecover, lock, active, token, starting,
                   resumers, cancelling, publishing, crashes>>

\* A confirmed specification is the owner's authorization; otherwise triage may
\* ask back or ask for approval, which the policy of the project may give.
TriageOutcomes(r) ==
    IF HasContract(r) THEN {"auto_execute"}
    ELSE {"needs_clarification", "awaiting_approval"}
            \cup (IF r \in Autonomous THEN {"auto_execute"} ELSE {})

\* The plan is stored; triage decides who moves next.
PlanDone(w) ==
    /\ w.pc = "planning"
    /\ IF Status(w.run) # "planning"
       THEN UNCHANGED runs /\ Step(w, "conflict")
       ELSE \E outcome \in TriageOutcomes(w.run) :
              /\ Update(w.run, [runs[w.run] EXCEPT
                      !.status = IF outcome = "auto_execute" THEN "awaiting_approval" ELSE outcome,
                      !.plan = TRUE, !.revision = @ + 1])
              /\ Step(w, IF outcome = "auto_execute" THEN "approving" ELSE "ending")
    /\ UNCHANGED <<notes, jobs, mode, torecover, lock, active, token, starting,
                   resumers, cancelling, publishing, crashes>>

\* The provider, the budget or the plan's validation failed, or it was cancelled.
PlanError(w) ==
    /\ w.pc = "planning"
    /\ Step(w, "failing")
    /\ UNCHANGED <<db, mode, torecover, lock, active, token, starting, resumers,
                   cancelling, publishing, crashes>>

\* approve on behalf of the project's policy.  It may also find the baseline
\* or the configuration changed, which is a conflict like a lost compare-and-set.
AutoApprove(w) ==
    /\ ~Locked /\ w.pc = "approving"
    /\ \/ /\ Status(w.run) = "awaiting_approval"
          /\ SetStatus(w.run, "queued")
          /\ Hold(w.run, "submit", "execute", {})
          /\ Step(w, "ending")
       \/ UNCHANGED <<runs, lock>> /\ Step(w, "conflict")
    /\ UNCHANGED <<notes, jobs, mode, torecover, active, token, starting, resumers,
                   cancelling, publishing, crashes>>

\* _plan: only a competing transition is benign.
PlanConflict(w) ==
    /\ w.pc = "conflict" /\ w.phase # "execute"
    /\ Step(w, IF Status(w.run) \in {"planning", "awaiting_approval"}
               THEN "failing" ELSE "ending")
    /\ UNCHANGED <<db, mode, torecover, lock, active, token, starting, resumers,
                   cancelling, publishing, crashes>>

-----------------------------------------------------------------------------
(* A round of execution.                                                   *)

\* _run reads the plan it executes: without one it raises.
Entered(r) == IF runs[r].plan THEN "running" ELSE "error"

RunStart(w) ==
    /\ w.pc = "start" /\ w.phase = "execute"
    /\ IF Status(w.run) = "queued"
       THEN /\ SetStatus(w.run, "running")
            /\ workers' = (workers \ {w}) \cup
                 {[w EXCEPT !.pc = Entered(w.run), !.judged = notes[w.run].applied]}
       ELSE UNCHANGED runs /\ Step(w, "conflict")
    /\ UNCHANGED <<notes, jobs, mode, torecover, lock, active, token, starting,
                   resumers, cancelling, publishing, crashes>>

\* begin_finalization: the continuous executor commits behind the gate of its
\* token, and a token already set turns it away.
BeginFinalization(w) ==
    /\ w.pc = "running" /\ w.run \in Continuous
    /\ Step(w, IF token[w.run] = "set" THEN "error" ELSE "finalizing")
    /\ UNCHANGED <<db, mode, torecover, lock, active, token, starting, resumers,
                   cancelling, publishing, crashes>>

\* The executor returned and the review of its result starts.
Executed(w) ==
    /\ w.pc = IF w.run \in Continuous THEN "finalizing" ELSE "running"
    /\ Step(w, "reviewing")
    /\ UNCHANGED <<db, mode, torecover, lock, active, token, starting, resumers,
                   cancelling, publishing, crashes>>

\* Execution or review failed, was cancelled or ran out of time or money; or the
\* baseline, the checks or the agreement is not the one the round was queued for.
\* The executor's deadline sets the token of the run.
RunError(w) ==
    /\ w.pc \in {"running", "finalizing", "reviewing"}
    /\ \/ Step(w, "error")
       \/ w.pc = "running" /\ Step(w, "conflict")
    /\ \/ token' = token
       \/ w.pc # "reviewing" /\ token' = [token EXCEPT ![w.run] = "set"]
    /\ UNCHANGED <<db, mode, torecover, lock, active, starting, resumers,
                   cancelling, publishing, crashes>>

\* The verdict no longer matches the agreement, or a supplement is unread.
VerdictStale(w) ==
    /\ w.run \in Verified
    /\ notes[w.run].applied # w.judged \/ Collected(w.run) # {}

\* A plausible mistake in _land_verified: the leftovers get no receipt.
LandWithoutExpiry(w) ==
    /\ ~Locked /\ w.pc = "reviewing"
    /\ Status(w.run) = "running"
    /\ Update(w.run, [runs[w.run] EXCEPT !.status = "ready_for_review",
                                        !.site = TRUE, !.pr = FALSE])
    /\ Step(w, "landed")
    /\ UNCHANGED <<notes, jobs, mode, torecover, lock, active, token, starting,
                   resumers, cancelling, publishing, crashes>>

\* _land_verified: check, landing and expiry of the leftovers are one step.
Land(w) ==
    /\ ~Locked /\ w.pc = "reviewing"
    /\ IF VerdictStale(w) \/ Status(w.run) # "running"
       THEN Step(w, "refused") /\ UNCHANGED <<runs, notes>>
       ELSE /\ Update(w.run, [runs[w.run] EXCEPT !.status = "ready_for_review",
                                                !.site = TRUE, !.pr = FALSE])
            /\ Expire(w.run, Collected(w.run))
            /\ Step(w, "landed")
    /\ UNCHANGED <<jobs, mode, torecover, lock, active, token, starting, resumers,
                   cancelling, publishing, crashes>>

\* A release deploys to its targets, which may raise, and then stores the
\* artifacts the round ended with, whatever the run holds by now.
CollectRelease(w) ==
    /\ w.pc = "landed" /\ w.run \in Release
    /\ \/ Step(w, "error") /\ UNCHANGED runs
       \/ Step(w, "collected") /\ Update(w.run, [runs[w.run] EXCEPT !.pr = FALSE])
    /\ UNCHANGED <<notes, jobs, mode, torecover, lock, active, token, starting,
                   resumers, cancelling, publishing, crashes>>

\* A project that publishes by itself goes on to publish, unless no repository
\* is configured or another transition came first.
AfterLanding(w) ==
    /\ w.pc = IF w.run \in Release THEN "collected" ELSE "landed"
    /\ \/ w.run \notin AutoPublish /\ Step(w, "ending") /\ UNCHANGED runs
       \/ w.run \in AutoPublish /\ Step(w, "conflict") /\ UNCHANGED runs
       \/ /\ w.run \in AutoPublish /\ Status(w.run) = "ready_for_review"
          /\ SetStatus(w.run, "publishing") /\ Step(w, "publishing")
    /\ UNCHANGED <<notes, jobs, mode, torecover, lock, active, token, starting,
                   resumers, cancelling, publishing, crashes>>

\* publish by the worker: a lost compare-and-set is a conflict, a publishing
\* failure hands the delivery back and raises.
WorkerPublished(w) ==
    /\ w.pc = "publishing"
    /\ IF Status(w.run) # "publishing"
       THEN UNCHANGED runs /\ Step(w, "conflict")
       ELSE \/ Update(w.run, Published(w.run)) /\ Step(w, "ending")
            \/ SetStatus(w.run, "ready_for_review") /\ Step(w, "error")
    /\ UNCHANGED <<notes, jobs, mode, torecover, lock, active, token, starting,
                   resumers, cancelling, publishing, crashes>>

\* _run's handlers: a conflict fails only a run still executing, any other
\* exception fails every run that is not ready for review.
RunConflict(w) ==
    /\ w.pc \in {"conflict", "refused"} /\ w.phase = "execute"
    /\ Step(w, IF Status(w.run) # "running" THEN "ending"
               ELSE IF w.pc = "refused" THEN "returning" ELSE "failing")
    /\ UNCHANGED <<db, mode, torecover, lock, active, token, starting, resumers,
                   cancelling, publishing, crashes>>

\* Whether the exception carries artifacts depends on where it was raised.
RunErrorHandler(w) ==
    /\ w.pc = "error"
    /\ IF Status(w.run) = "ready_for_review"
       THEN Step(w, "ending") ELSE Step(w, "failing") \/ Step(w, "saving")
    /\ UNCHANGED <<db, mode, torecover, lock, active, token, starting, resumers,
                   cancelling, publishing, crashes>>

-----------------------------------------------------------------------------
(* What users do to a run that waits for them.                             *)

\* requirement_analysis.confirm by the owner.
Confirm(r) ==
    /\ Up /\ ~Locked
    /\ Status(r) = "awaiting_spec_confirmation"
    /\ Update(r, [runs[r] EXCEPT !.status = "received", !.confirmed = TRUE])
    /\ Hold(r, "submit", "plan", {})
    /\ UNCHANGED <<notes, jobs, mode, torecover, active, token, workers, starting,
                   resumers, cancelling, publishing, crashes>>

Approve(r) ==
    /\ Up /\ ~Locked
    /\ Status(r) = "awaiting_approval" /\ runs[r].plan
    /\ SetStatus(r, "queued")
    /\ Hold(r, "submit", "execute", {})
    /\ UNCHANGED <<notes, jobs, mode, torecover, active, token, workers, starting,
                   resumers, cancelling, publishing, crashes>>

\* clarify: the plan and the execution site are given up, waiting supplements
\* become part of the request, their receipts and the queue row follow.
Clarify(r) ==
    /\ Up /\ ~Locked /\ MayAsk(r)
    /\ Status(r) \in {"needs_clarification", "awaiting_approval", "needs_human"}
    /\ Update(r, [runs[r] EXCEPT !.status = "received", !.plan = FALSE, !.site = FALSE,
                                 !.pr = FALSE, !.merged = @ \cup Collected(r)])
    /\ Hold(r, IF Collected(r) = {} THEN "submit" ELSE "mark", StartPhase(r), Collected(r))
    /\ UNCHANGED <<notes, jobs, mode, torecover, active, token, workers, starting,
                   resumers, cancelling, publishing, crashes>>

\* budget_resume.resume of a run whose requirement analysis was stopped.
ResumeAnalysis(r) ==
    /\ Up /\ ~Locked /\ MayAsk(r)
    /\ Status(r) = "needs_human" /\ active[r] = "none"
    /\ NeedsAnalysis(r) /\ ~runs[r].plan
    /\ Update(r, [runs[r] EXCEPT !.status = "received", !.resumes = @ + 1])
    /\ Hold(r, "submit", "requirement_analysis", {})
    /\ UNCHANGED <<notes, jobs, mode, torecover, active, token, workers, starting,
                   resumers, cancelling, publishing, crashes>>

\* POST follow-up while the service is working: the words are recorded.
FollowUp(r, f) ==
    /\ Up /\ ~Locked
    /\ f \in FreshFollowups /\ Status(r) \in ACTIVE
    /\ Register(r, {f})
    /\ UNCHANGED <<runs, jobs, mode, torecover, lock, active, token, workers, starting,
                   resumers, cancelling, publishing, crashes>>

Discard(r) ==
    /\ Up /\ ~Locked
    /\ Status(r) \in Waiting \cup {"ready_for_review", "cancelled"}
    /\ SetStatus(r, "discarded")
    /\ UNCHANGED <<notes, jobs, mode, torecover, lock, active, token, workers, starting,
                   resumers, cancelling, publishing, crashes>>

-----------------------------------------------------------------------------
(* Resuming a paused execution: guards under the lock, a paid analysis     *)
(* without it, then guards and the commit under it again.                  *)

\* The guards continue_run and the automatic resume share.
ResumableNow(r) ==
    /\ Status(r) = "needs_human" /\ runs[r].plan /\ runs[r].site
    /\ active[r] = "none"

\* continue_run, first half.  Words typed into it are registered as a
\* supplement when the run has a confirmed specification.
ContinueBegin(r, typed) ==
    /\ Up /\ ~Locked /\ MayAsk(r)
    /\ ResumableNow(r) /\ token[r] # "set"
    /\ typed \subseteq FreshFollowups /\ Cardinality(typed) <= 1
    /\ typed # {} => HasContract(r)
    /\ \A q \in resumers : q.run = r => q.kind # "human"
    /\ Register(r, typed)
    /\ resumers' = resumers \cup {[run |-> r, kind |-> "human", pc |-> "analysing",
            revision |-> runs[r].revision, resumes |-> runs[r].resumes,
            seen |-> Collected(r) \cup typed]}
    /\ UNCHANGED <<runs, jobs, mode, torecover, lock, active, token, workers, starting,
                   cancelling, publishing, crashes>>

\* _auto_resume_with_followups, first half.
AutoResumeBegin(q) ==
    /\ Up /\ ~Locked
    /\ q.kind = "auto" /\ q.pc = "check"
    /\ ResumableNow(q.run) /\ Collected(q.run) # {}
    /\ resumers' = (resumers \ {q}) \cup
         {[q EXCEPT !.pc = "analysing", !.revision = runs[q.run].revision,
                    !.resumes = runs[q.run].resumes, !.seen = Collected(q.run)]}
    /\ UNCHANGED <<runs, notes, jobs, mode, torecover, lock, active, token, workers,
                   starting, cancelling, publishing, crashes>>

\* A plausible mistake: the guards are not evaluated again after the analysis.
ResumeUnchecked(q) ==
    Status(q.run) = "needs_human" /\ runs[q.run].revision = q.revision

\* The run is still the one the analysis was made for.  _resume_preconditions is
\* evaluated again as a whole; the automatic resume looks at its counters only.
ResumeStillValid(q) ==
    /\ Status(q.run) = "needs_human" /\ active[q.run] = "none"
    /\ runs[q.run].revision = q.revision /\ runs[q.run].resumes = q.resumes
    /\ q.kind = "human" => ResumableNow(q.run) /\ token[q.run] # "set"

\* The supplements the commit marks applied: those whose words it merged.
ReceiptsOf(q) == q.seen

\* A plausible mistake: the answer is stored as it was typed.
AnsweredAsTyped(q) == {}

\* _merge_followup_content: the supplements whose words the next round is given.
Answered(q) == q.seen

\* The commit: run, receipts and the next round's counter in one transaction.
\* continue_run submits with the lock held, the automatic resume after it.
ResumeCommit(q) ==
    /\ ~Locked /\ q.pc = "analysing" /\ ResumeStillValid(q)
    /\ Update(q.run, [runs[q.run] EXCEPT !.status = "queued", !.resumes = @ + 1,
                                        !.merged = @ \cup Answered(q)])
    /\ Receipt(q.run, ReceiptsOf(q))
    /\ resumers' = resumers \ {q}
    /\ IF q.kind = "human"
       THEN Hold(q.run, "submit", "execute", {}) /\ UNCHANGED starting
       ELSE starting' = starting \cup {<<q.run, "execute">>} /\ UNCHANGED lock
    /\ UNCHANGED <<jobs, mode, torecover, active, token, workers, cancelling,
                   publishing, crashes>>

\* The guards failed, the baseline or the checks moved, or a supplement could
\* not be decided: nothing is consumed.
ResumeRefused(q) ==
    /\ ~Locked
    /\ resumers' = resumers \ {q}
    /\ UNCHANGED <<db, mode, torecover, lock, active, token, workers, starting,
                   cancelling, publishing, crashes>>

-----------------------------------------------------------------------------
(* Cancellation: the token is fetched under the lock, set without it, and  *)
(* the run is cancelled under it.                                          *)

Cancellable == (ACTIVE \ {"publishing"}) \cup Waiting \cup {"ready_for_review"}

CancelBegin(r) ==
    /\ Up /\ ~Locked
    /\ cancelling[r] = "idle" /\ Status(r) # "absent"
    /\ cancelling' = [cancelling EXCEPT ![r] = "captured"]
    /\ token' = [token EXCEPT ![r] = IF @ = "none" THEN "clear" ELSE @]
    /\ UNCHANGED <<db, mode, torecover, lock, active, workers, starting, resumers,
                   publishing, crashes>>

Finalizing(r) == \E w \in workers : w.run = r /\ w.pc = "finalizing"

\* try_cancel: refused while the gate is held; a token the dispatcher has
\* replaced in the meantime is set all the same, for nobody.
TryCancel(r) ==
    /\ \/ /\ cancelling[r] = "captured" /\ Finalizing(r)
          /\ cancelling' = [cancelling EXCEPT ![r] = "idle"]
          /\ UNCHANGED token
       \/ /\ cancelling[r] = "captured" /\ ~Finalizing(r)
          /\ cancelling' = [cancelling EXCEPT ![r] = "accepted"]
          /\ token' = [token EXCEPT ![r] = "set"]
       \/ /\ cancelling[r] = "stale"
          /\ cancelling' = [cancelling EXCEPT ![r] = "accepted"]
          /\ UNCHANGED token
    /\ UNCHANGED <<db, mode, torecover, lock, active, workers, starting, resumers,
                   publishing, crashes>>

CancelCommit(r) ==
    /\ ~Locked /\ cancelling[r] = "accepted"
    /\ cancelling' = [cancelling EXCEPT ![r] = "idle"]
    /\ IF Status(r) \in Cancellable THEN SetStatus(r, "cancelled") ELSE UNCHANGED runs
    /\ UNCHANGED <<notes, jobs, mode, torecover, lock, active, token, workers, starting,
                   resumers, publishing, crashes>>

-----------------------------------------------------------------------------
(* Publication by a user.                                                  *)

PublishBegin(r) ==
    /\ Up /\ r \notin publishing
    /\ Status(r) = "ready_for_review"
    /\ SetStatus(r, "publishing")
    /\ publishing' = publishing \cup {r}
    /\ UNCHANGED <<notes, jobs, mode, torecover, lock, active, token, workers, starting,
                   resumers, cancelling, crashes>>

\* Published, failed and handed back, or overtaken by another transition.
PublishEnd(r) ==
    /\ r \in publishing
    /\ publishing' = publishing \ {r}
    /\ IF Status(r) = "publishing"
       THEN Update(r, Published(r)) \/ SetStatus(r, "ready_for_review")
       ELSE UNCHANGED runs
    /\ UNCHANGED <<notes, jobs, mode, torecover, lock, active, token, workers, starting,
                   resumers, cancelling, crashes>>

-----------------------------------------------------------------------------
(* Crash and restart.                                                      *)

\* The process dies: its memory is gone, the database is as last committed.
Crash ==
    /\ mode # "down" /\ crashes < MaxCrashes
    /\ mode' = "down" /\ crashes' = crashes + 1
    /\ torecover' = {} /\ lock' = {} /\ workers' = {} /\ starting' = {}
    /\ resumers' = {} /\ publishing' = {}
    /\ active' = [r \in Runs |-> "none"]
    /\ token' = [r \in Runs |-> "none"]
    /\ cancelling' = [r \in Runs |-> "idle"]
    /\ UNCHANGED db

Restart ==
    /\ mode = "down"
    /\ mode' = "recovering" /\ torecover' = Runs
    /\ UNCHANGED <<db, lock, active, token, workers, starting, resumers, cancelling,
                   publishing, crashes>>

\* An execution of the continuous executor left a checkpoint to go on from.
ContinuesFromCheckpoint(r) ==
    r \in Resumable \cap Continuous /\ Status(r) = "running"

\* Work that had not started, or planning, which only reads.
RedoesFromQueue(r) ==
    r \in Resumable /\ Status(r) \in {"received", "planning", "queued"}

\* recover() visits one run: its rows are retired and it goes back to the
\* queue, or it waits for a person.  An interrupted analysis keeps its rows.
RecoverRun(r) ==
    /\ mode = "recovering" /\ ~Locked /\ r \in torecover
    /\ torecover' = torecover \ {r}
    /\ \/ /\ Status(r) = "requirement_analysis"
          /\ SetStatus(r, "needs_human") /\ UNCHANGED <<jobs, lock>>
       \/ /\ Status(r) \notin ACTIVE
          /\ UNCHANGED <<runs, jobs, lock>>
       \/ /\ Status(r) \in ACTIVE \ {"requirement_analysis"}
          /\ jobs' = [jobs EXCEPT ![r] = ResetRows(@)]
          /\ \/ /\ ContinuesFromCheckpoint(r)
                /\ Update(r, [runs[r] EXCEPT !.status = "queued", !.site = TRUE,
                                             !.pr = FALSE, !.resumes = @ + 1])
                /\ Hold(r, "submit", "execute", {})
             \/ /\ RedoesFromQueue(r)
                /\ SetStatus(r, IF Status(r) = "queued" THEN "queued" ELSE "received")
                /\ Hold(r, "submit", IF Status(r) = "queued" THEN "execute" ELSE "plan", {})
             \/ /\ ~RedoesFromQueue(r)
                /\ SetStatus(r, "needs_human") /\ UNCHANGED lock
    /\ UNCHANGED <<notes, mode, active, token, workers, starting, resumers, cancelling,
                   publishing, crashes>>

\* The scheduler starts, and paused runs with unread supplements are resumed.
RecoverDone ==
    /\ mode = "recovering" /\ ~Locked /\ torecover = {}
    /\ mode' = "up"
    /\ resumers' = {[run |-> r, kind |-> "auto", pc |-> "check", revision |-> 0,
                     resumes |-> 0, seen |-> {}] :
                    r \in {s \in Runs : Status(s) = "needs_human" /\ Collected(s) # {}}}
    /\ UNCHANGED <<db, torecover, lock, active, token, workers, starting, cancelling,
                   publishing, crashes>>

-----------------------------------------------------------------------------

WorkerStep(w) ==
    \/ AnalyzeStart(w) \/ AnalyzeError(w) \/ FinishAnalysis(w) \/ AutoConfirm(w)
    \/ PlanStart(w) \/ PlanDone(w) \/ PlanError(w) \/ AutoApprove(w) \/ PlanConflict(w)
    \/ RunStart(w) \/ BeginFinalization(w) \/ Executed(w) \/ RunError(w) \/ Land(w)
    \/ CollectRelease(w) \/ AfterLanding(w) \/ WorkerPublished(w) \/ RunConflict(w)
    \/ RunErrorHandler(w) \/ WorkerFail(w) \/ FinishJob(w)

UserStep(r) ==
    \/ NewRun(r) \/ Confirm(r) \/ Approve(r) \/ Clarify(r) \/ ResumeAnalysis(r)
    \/ \E f \in Followups : FollowUp(r, f)
    \/ Discard(r)
    \/ \E typed \in SUBSET Followups : ContinueBegin(r, typed)
    \/ CancelBegin(r) \/ PublishBegin(r)

\* A request already admitted runs to its end.
RequestStep(r) == TryCancel(r) \/ CancelCommit(r) \/ PublishEnd(r)

ResumerStep(q) == AutoResumeBegin(q) \/ ResumeCommit(q) \/ ResumeRefused(q)

RecoveryStep == Restart \/ (\E r \in Runs : RecoverRun(r)) \/ RecoverDone

Next ==
    \/ \E r \in Runs : UserStep(r) \/ RequestStep(r)
    \/ \E r \in Runs, p \in Phases : StartPlan(r, p) \/ Dispatch(r, p)
    \/ MarkApplied \/ Submit
    \/ \E w \in workers : WorkerStep(w)
    \/ \E q \in resumers : ResumerStep(q)
    \/ Crash \/ RecoveryStep

Spec == Init /\ [][Next]_vars
=============================================================================
