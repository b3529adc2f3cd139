------------------------- MODULE RunLifecycleProofs -------------------------
(***************************************************************************)
(* Theorems about the run lifecycle for every set of runs and supplements, *)
(* every number of threads and every number of crashes: type correctness,  *)
(* one round per run, no more rounds than threads, a recovery that leaves  *)
(* no run behind, and for every run that is owed a step somebody who takes *)
(* it.                                                                     *)
(***************************************************************************)
EXTENDS RunProperties, FiniteSetTheorems, TLAPS

-----------------------------------------------------------------------------
(* What the operations of the durable queue return.                        *)

\* enqueue leaves a row of the table behind.
LEMMA EnqueuedType ==
    ASSUME NEW job \in Job, NEW continuation \in BOOLEAN
    PROVE  Enqueued(job, continuation) \in Job
BY DEF Enqueued, EnqueueRefused, Job, JobStates

\* claim leaves a row of the table behind.
LEMMA ClaimedType ==
    ASSUME NEW job \in Job
    PROVE  Claimed(job) \in Job
BY DEF Claimed, Job, JobStates

\* finish leaves a row of the table behind.
LEMMA FinishedType ==
    ASSUME NEW job \in Job, NEW generation \in Nat
    PROVE  Finished(job, generation) \in Job
BY DEF Finished, Job, JobStates

\* reset leaves rows of the table behind.
LEMMA ResetRowsType ==
    ASSUME NEW rows \in [Phases -> Job]
    PROVE  ResetRows(rows) \in [Phases -> Job]
BY DEF ResetRows, Job, JobStates

-----------------------------------------------------------------------------
(* What the helpers of the actions return.                                 *)

\* _submit leaves a table of rows behind.
LEMMA SubmittedType ==
    ASSUME TypeOK, NEW r \in Runs, NEW p \in Phases
    PROVE  Submitted(r, p) \in [Runs -> [Phases -> Job]]
<1>1. jobs[r] \in [Phases -> Job] /\ jobs[r][p] \in Job
  BY DEF TypeOK
<1>2. (p = "plan" /\ Status(r) = "received") \in BOOLEAN
  OBVIOUS
<1>3. Enqueued(jobs[r][p], p = "plan" /\ Status(r) = "received") \in Job
  BY <1>1, <1>2, EnqueuedType
<1> QED
  BY <1>1, <1>3 DEF Submitted, TypeOK

\* A step of a worker leaves a set of workers behind.
LEMMA StepType ==
    ASSUME TypeOK, NEW w \in workers, NEW pc \in WorkerPC, Step(w, pc)
    PROVE  workers' \subseteq Worker
BY DEF TypeOK, Worker, Step

\* Storing a document leaves documents behind.
LEMMA UpdateType ==
    ASSUME TypeOK, NEW r \in Runs, NEW doc \in Run, Update(r, doc)
    PROVE  runs' \in [Runs -> Run]
BY DEF TypeOK, Update

\* A new status makes a document of a document.
LEMMA StatusType ==
    ASSUME NEW doc \in Run, NEW s \in Statuses
    PROVE  [doc EXCEPT !.status = s] \in Run
BY DEF Run

\* Storing a status leaves documents behind.
LEMMA SetStatusType ==
    ASSUME TypeOK, NEW r \in Runs, NEW s \in Statuses, SetStatus(r, s)
    PROVE  runs' \in [Runs -> Run]
<1> DEFINE doc == runs[r]
           changed == [doc EXCEPT !.status = s]
<1>1. doc \in Run
  BY DEF TypeOK
<1>2. changed \in Run
  <2> HIDE DEF doc
  <2> QED
    BY <1>1, StatusType
<1>3. Update(r, changed)
  BY DEF SetStatus
<1> QED
  <2> HIDE DEF changed
  <2> QED
    BY <1>2, <1>3, UpdateType

\* _fail stores a document.
LEMMA FailedRunType ==
    ASSUME TypeOK, NEW r \in Runs, NEW saved \in BOOLEAN
    PROVE  FailedRun(r, saved) \in Run
<1> DEFINE site == runs[r].site \/ saved
           pr == runs[r].pr /\ ~saved
<1>1. runs[r] \in Run
  BY DEF TypeOK
<1>2. site \in BOOLEAN /\ pr \in BOOLEAN
  OBVIOUS
<1>3. "needs_human" \in Statuses
  BY DEF Statuses, Waiting
<1>4. [runs[r] EXCEPT !.status = "needs_human", !.site = site, !.pr = pr] \in Run
  <2> HIDE DEF site, pr
  <2> QED
    BY <1>1, <1>2, <1>3 DEF Run
<1> QED
  BY <1>1, <1>4 DEF FailedRun

\* A publication stores a document.
LEMMA PublishedType ==
    ASSUME TypeOK, NEW r \in Runs
    PROVE  Published(r) \in Run
<1>1. runs[r] \in Run
  BY DEF TypeOK
<1>2. \A doc \in Run : [doc EXCEPT !.status = "published", !.pr = TRUE] \in Run
  BY DEF Run, Statuses
<1> QED
  BY <1>1, <1>2 DEF Published

\* Writing receipts leaves receipts behind.
LEMMA NotesType ==
    ASSUME TypeOK, NEW r \in Runs, NEW fs \in SUBSET Followups,
           Register(r, fs) \/ Receipt(r, fs) \/ Expire(r, fs)
    PROVE  notes' \in [Runs -> Notes]
<1>1. notes \in [Runs -> Notes]
  BY DEF TypeOK
<1>2. CASE Register(r, fs)
  BY <1>1, <1>2 DEF Register, Notes
<1>3. CASE Receipt(r, fs)
  BY <1>1, <1>3 DEF Receipt, Notes
<1>4. CASE Expire(r, fs)
  BY <1>1, <1>4 DEF Expire, Notes
<1> QED
  BY <1>2, <1>3, <1>4

\* The supplements collected for a run are supplements.
LEMMA CollectedType ==
    ASSUME TypeOK, NEW r \in Runs
    PROVE  Collected(r) \in SUBSET Followups
BY DEF TypeOK, Notes, Collected, Unconsumed

\* Taking the lock leaves it with one holder.
LEMMA HoldType ==
    ASSUME NEW r \in Runs, NEW step \in {"mark", "confirm", "submit"},
           NEW phase \in Phases, NEW marks \in SUBSET Followups,
           Hold(r, step, phase, marks)
    PROVE  lock' \subseteq Holder
BY DEF Hold, Holder

-----------------------------------------------------------------------------
(* Type correctness: every transaction leaves documents, receipts, rows    *)
(* and thread states of the declared shape.                                *)

\* A step of a worker keeps the types.
LEMMA WorkerStepType ==
    ASSUME TypeOK, NEW w \in workers, WorkerStep(w)
    PROVE  TypeOK'
<1> USE DEF WorkerPC, Statuses, ACTIVE, Waiting, Phases, db
<1>1. w \in Worker /\ w.run \in Runs /\ w.phase \in Phases /\ w.gen \in Nat
  BY DEF TypeOK, Worker
<1>2. runs[w.run] \in Run
  BY <1>1 DEF TypeOK
<1>3. runs[w.run].revision + 1 \in Nat
  BY <1>2 DEF Run
<1>4. CASE AnalyzeStart(w)
  <2>1. runs' \in [Runs -> Run]
    BY <1>1, <1>2, <1>4, SetStatusType
       DEF AnalyzeStart, TypeOK
  <2>2. workers' \subseteq Worker
    BY <1>1, <1>2, <1>4, StepType
       DEF AnalyzeStart
  <2> QED
    BY <1>4, <2>1, <2>2 DEF AnalyzeStart, TypeOK
<1>5. CASE AnalyzeError(w)
  <2>1. workers' \subseteq Worker
    BY <1>1, <1>2, <1>5, StepType
       DEF AnalyzeError
  <2> QED
    BY <1>5, <2>1 DEF AnalyzeError, TypeOK
<1>6. CASE FinishAnalysis(w)
  <2>1. runs' \in [Runs -> Run]
    <3>1. \A doc \in Run, n \in Nat :
             [doc EXCEPT !.status = "awaiting_spec_confirmation", !.revision = n] \in Run
      BY DEF Run
    <3> DEFINE drafted == [runs[w.run] EXCEPT !.status = "awaiting_spec_confirmation",
                                              !.revision = @ + 1]
    <3>2. drafted \in Run
      BY <1>2, <1>3, <3>1
    <3>3. UNCHANGED runs \/ Update(w.run, drafted)
      BY <1>6 DEF FinishAnalysis
    <3> HIDE DEF drafted
    <3> QED
      BY <1>1, <3>2, <3>3, UpdateType DEF TypeOK
  <2>2. lock' \subseteq Holder
    BY <1>1, <1>2, <1>6, HoldType
       DEF FinishAnalysis, TypeOK
  <2>3. workers' \subseteq Worker
    BY <1>1, <1>2, <1>6, StepType
       DEF FinishAnalysis
  <2> QED
    BY <1>6, <2>1, <2>2, <2>3 DEF FinishAnalysis, TypeOK
<1>7. CASE AutoConfirm(w)
  <2>1. runs' \in [Runs -> Run]
    BY <1>1, <1>2, <1>7, UpdateType
       DEF AutoConfirm, TypeOK, Run
  <2>2. lock' \subseteq Holder
    BY <1>1, <1>2, <1>7, HoldType
       DEF AutoConfirm, TypeOK
  <2>3. workers' \subseteq Worker
    BY <1>1, <1>2, <1>7, StepType
       DEF AutoConfirm
  <2> QED
    BY <1>7, <2>1, <2>2, <2>3 DEF AutoConfirm, TypeOK
<1>8. CASE PlanStart(w)
  <2>1. runs' \in [Runs -> Run]
    BY <1>1, <1>2, <1>8, SetStatusType
       DEF PlanStart, TypeOK
  <2>2. workers' \subseteq Worker
    BY <1>1, <1>2, <1>8, StepType
       DEF PlanStart
  <2> QED
    BY <1>8, <2>1, <2>2 DEF PlanStart, TypeOK
<1>9. CASE PlanDone(w)
  <2>1. runs' \in [Runs -> Run]
    <3>1. \A outcome \in TriageOutcomes(w.run) :
             (IF outcome = "auto_execute" THEN "awaiting_approval" ELSE outcome) \in Statuses
      BY DEF TriageOutcomes
    <3>2. \A doc \in Run, s \in Statuses, n \in Nat :
             [doc EXCEPT !.status = s, !.plan = TRUE, !.revision = n] \in Run
      BY DEF Run
    <3> DEFINE planned(s) == [runs[w.run] EXCEPT !.status = s, !.plan = TRUE,
                                                 !.revision = @ + 1]
    <3>3. \A s \in Statuses : planned(s) \in Run
      BY <1>2, <1>3, <3>2
    <3>4. UNCHANGED runs \/ \E s \in Statuses : Update(w.run, planned(s))
      BY <1>9, <3>1 DEF PlanDone
    <3> HIDE DEF planned
    <3> QED
      BY <1>1, <3>3, <3>4, UpdateType DEF TypeOK
  <2>2. workers' \subseteq Worker
    BY <1>1, <1>2, <1>9, StepType
       DEF PlanDone
  <2> QED
    BY <1>9, <2>1, <2>2 DEF PlanDone, TypeOK
<1>10. CASE PlanError(w)
  <2>1. workers' \subseteq Worker
    BY <1>1, <1>2, <1>10, StepType
       DEF PlanError
  <2> QED
    BY <1>10, <2>1 DEF PlanError, TypeOK
<1>11. CASE AutoApprove(w)
  <2>1. runs' \in [Runs -> Run]
    BY <1>1, <1>2, <1>11, SetStatusType
       DEF AutoApprove, TypeOK
  <2>2. lock' \subseteq Holder
    BY <1>1, <1>2, <1>11, HoldType
       DEF AutoApprove, TypeOK
  <2>3. workers' \subseteq Worker
    BY <1>1, <1>2, <1>11, StepType
       DEF AutoApprove
  <2> QED
    BY <1>11, <2>1, <2>2, <2>3 DEF AutoApprove, TypeOK
<1>12. CASE PlanConflict(w)
  <2>1. workers' \subseteq Worker
    BY <1>1, <1>2, <1>12, StepType
       DEF PlanConflict
  <2> QED
    BY <1>12, <2>1 DEF PlanConflict, TypeOK
<1>13. CASE RunStart(w)
  <2>1. runs' \in [Runs -> Run]
    BY <1>1, <1>2, <1>13, SetStatusType
       DEF RunStart, TypeOK
  <2>2. workers' \subseteq Worker
    <3>1. Entered(w.run) \in WorkerPC
      BY DEF Entered, WorkerPC
    <3>2. [w EXCEPT !.pc = Entered(w.run), !.judged = notes[w.run].applied] \in Worker
      BY <1>1, <3>1 DEF TypeOK, Notes, Worker
    <3> QED
      BY <1>13, <3>2, StepType DEF RunStart, TypeOK
  <2> QED
    BY <1>13, <2>1, <2>2 DEF RunStart, TypeOK
<1>14. CASE BeginFinalization(w)
  <2>1. workers' \subseteq Worker
    BY <1>1, <1>2, <1>14, StepType
       DEF BeginFinalization
  <2> QED
    BY <1>14, <2>1 DEF BeginFinalization, TypeOK
<1>15. CASE Executed(w)
  <2>1. workers' \subseteq Worker
    BY <1>1, <1>2, <1>15, StepType
       DEF Executed
  <2> QED
    BY <1>15, <2>1 DEF Executed, TypeOK
<1>16. CASE RunError(w)
  <2>1. workers' \subseteq Worker
    BY <1>1, <1>2, <1>16, StepType
       DEF RunError
  <2>2. token' \in [Runs -> {"none", "clear", "set"}]
    BY <1>1, <1>2, <1>16
       DEF RunError, TypeOK
  <2> QED
    BY <1>16, <2>1, <2>2 DEF RunError, TypeOK
<1>17. CASE Land(w)
  <2>1. runs' \in [Runs -> Run]
    BY <1>1, <1>2, <1>17, UpdateType
       DEF Land, TypeOK, Run
  <2>2. notes' \in [Runs -> Notes]
    BY <1>1, <1>2, <1>17, NotesType, CollectedType
       DEF Land, TypeOK
  <2>3. workers' \subseteq Worker
    BY <1>1, <1>2, <1>17, StepType
       DEF Land
  <2> QED
    BY <1>17, <2>1, <2>2, <2>3 DEF Land, TypeOK
<1>18. CASE CollectRelease(w)
  <2>1. runs' \in [Runs -> Run]
    BY <1>1, <1>2, <1>18, UpdateType
       DEF CollectRelease, TypeOK, Run
  <2>2. workers' \subseteq Worker
    BY <1>1, <1>2, <1>18, StepType
       DEF CollectRelease
  <2> QED
    BY <1>18, <2>1, <2>2 DEF CollectRelease, TypeOK
<1>19. CASE AfterLanding(w)
  <2>1. runs' \in [Runs -> Run]
    BY <1>1, <1>2, <1>19, SetStatusType
       DEF AfterLanding, TypeOK
  <2>2. workers' \subseteq Worker
    BY <1>1, <1>2, <1>19, StepType
       DEF AfterLanding
  <2> QED
    BY <1>19, <2>1, <2>2 DEF AfterLanding, TypeOK
<1>20. CASE WorkerPublished(w)
  <2>1. runs' \in [Runs -> Run]
    BY <1>1, <1>2, <1>20, SetStatusType, UpdateType, PublishedType
       DEF WorkerPublished, TypeOK
  <2>2. workers' \subseteq Worker
    BY <1>1, <1>2, <1>20, StepType
       DEF WorkerPublished
  <2> QED
    BY <1>20, <2>1, <2>2 DEF WorkerPublished, TypeOK
<1>21. CASE RunConflict(w)
  <2>1. workers' \subseteq Worker
    BY <1>1, <1>2, <1>21, StepType
       DEF RunConflict
  <2> QED
    BY <1>21, <2>1 DEF RunConflict, TypeOK
<1>22. CASE RunErrorHandler(w)
  <2>1. workers' \subseteq Worker
    BY <1>1, <1>2, <1>22, StepType
       DEF RunErrorHandler
  <2> QED
    BY <1>22, <2>1 DEF RunErrorHandler, TypeOK
<1>23. CASE WorkerFail(w)
  <2>1. runs' \in [Runs -> Run]
    BY <1>1, <1>2, <1>23, FailedRunType, UpdateType
       DEF WorkerFail
  <2>2. workers' \subseteq Worker
    BY <1>1, <1>2, <1>23, StepType
       DEF WorkerFail
  <2> QED
    BY <1>23, <2>1, <2>2 DEF WorkerFail, TypeOK
<1>24. CASE FinishJob(w)
  <2>1. jobs' \in [Runs -> [Phases -> Job]]
    BY <1>1, <1>2, <1>24, FinishedType
       DEF FinishJob, TypeOK
  <2>2. active' \in [Runs -> Phases \cup {"none"}]
    BY <1>1, <1>2, <1>24
       DEF FinishJob, TypeOK
  <2>3. workers' \subseteq Worker
    BY <1>1, <1>2, <1>24
       DEF FinishJob, TypeOK
  <2>4. resumers' \subseteq Resumer
    BY <1>1, <1>2, <1>24
       DEF FinishJob, TypeOK, Resumer
  <2> QED
    BY <1>24, <2>1, <2>2, <2>3, <2>4 DEF FinishJob, TypeOK
<1> QED
  BY <1>4, <1>5, <1>6, <1>7, <1>8, <1>9, <1>10, <1>11, <1>12, <1>13, <1>14, <1>15, <1>16, <1>17, <1>18, <1>19, <1>20, <1>21, <1>22, <1>23, <1>24 DEF WorkerStep

\* A step of a user keeps the types.
LEMMA UserStepType ==
    ASSUME TypeOK, NEW r \in Runs, UserStep(r)
    PROVE  TypeOK'
<1> USE DEF Statuses, ACTIVE, Waiting, Phases, db
<1>1. runs[r] \in Run
  BY DEF TypeOK
<1>2. Collected(r) \in SUBSET Followups
  BY CollectedType
<1>3. CASE NewRun(r)
  <2>1. runs' \in [Runs -> Run]
    BY <1>1, <1>2, <1>3, SetStatusType
       DEF NewRun, TypeOK
  <2>2. starting' \subseteq Runs \X Phases
    BY <1>1, <1>2, <1>3
       DEF NewRun, TypeOK, StartPhase
  <2> QED
    BY <1>3, <2>1, <2>2 DEF NewRun, TypeOK
<1>4. CASE Confirm(r)
  <2>1. runs' \in [Runs -> Run]
    BY <1>1, <1>2, <1>4, UpdateType
       DEF Confirm, TypeOK, Run
  <2>2. lock' \subseteq Holder
    BY <1>1, <1>2, <1>4, HoldType
       DEF Confirm, TypeOK
  <2> QED
    BY <1>4, <2>1, <2>2 DEF Confirm, TypeOK
<1>5. CASE Approve(r)
  <2>1. runs' \in [Runs -> Run]
    BY <1>1, <1>2, <1>5, SetStatusType
       DEF Approve, TypeOK
  <2>2. lock' \subseteq Holder
    BY <1>1, <1>2, <1>5, HoldType
       DEF Approve, TypeOK
  <2> QED
    BY <1>5, <2>1, <2>2 DEF Approve, TypeOK
<1>6. CASE Clarify(r)
  <2>1. runs' \in [Runs -> Run]
    BY <1>1, <1>2, <1>6, UpdateType
       DEF Clarify, TypeOK, Run
  <2>2. lock' \subseteq Holder
    BY <1>1, <1>2, <1>6, HoldType
       DEF Clarify, TypeOK, StartPhase
  <2> QED
    BY <1>6, <2>1, <2>2 DEF Clarify, TypeOK
<1>7. CASE ResumeAnalysis(r)
  <2>1. runs' \in [Runs -> Run]
    <3> DEFINE resumed == [runs[r] EXCEPT !.status = "received", !.resumes = @ + 1]
    <3>1. \A doc \in Run, n \in Nat :
             [doc EXCEPT !.status = "received", !.resumes = n] \in Run
      BY DEF Run
    <3>2. runs[r].resumes + 1 \in Nat
      BY <1>1 DEF Run
    <3>3. resumed \in Run
      BY <1>1, <3>1, <3>2
    <3>4. Update(r, resumed)
      BY <1>7 DEF ResumeAnalysis
    <3> HIDE DEF resumed
    <3> QED
      BY <3>3, <3>4, UpdateType
  <2>2. lock' \subseteq Holder
    BY <1>1, <1>2, <1>7, HoldType
       DEF ResumeAnalysis, TypeOK
  <2> QED
    BY <1>7, <2>1, <2>2 DEF ResumeAnalysis, TypeOK
<1>8. CASE \E f \in Followups : FollowUp(r, f)
  <2>1. notes' \in [Runs -> Notes]
    BY <1>1, <1>2, <1>8, NotesType
       DEF FollowUp, TypeOK
  <2> QED
    BY <1>8, <2>1 DEF FollowUp, TypeOK
<1>9. CASE Discard(r)
  <2>1. runs' \in [Runs -> Run]
    BY <1>1, <1>2, <1>9, SetStatusType
       DEF Discard, TypeOK
  <2> QED
    BY <1>9, <2>1 DEF Discard, TypeOK
<1>10. CASE \E typed \in SUBSET Followups : ContinueBegin(r, typed)
  <2>1. notes' \in [Runs -> Notes]
    BY <1>1, <1>2, <1>10, NotesType
       DEF ContinueBegin, TypeOK
  <2>2. resumers' \subseteq Resumer
    BY <1>1, <1>2, <1>10
       DEF ContinueBegin, TypeOK, Resumer, Run
  <2> QED
    BY <1>10, <2>1, <2>2 DEF ContinueBegin, TypeOK
<1>11. CASE CancelBegin(r)
  <2>1. token' \in [Runs -> {"none", "clear", "set"}]
    BY <1>1, <1>2, <1>11
       DEF CancelBegin, TypeOK
  <2> QED
    BY <1>11, <2>1 DEF CancelBegin, TypeOK
<1>12. CASE PublishBegin(r)
  <2>1. runs' \in [Runs -> Run]
    BY <1>1, <1>2, <1>12, SetStatusType
       DEF PublishBegin, TypeOK
  <2> QED
    BY <1>12, <2>1 DEF PublishBegin, TypeOK
<1> QED
  BY <1>3, <1>4, <1>5, <1>6, <1>7, <1>8, <1>9, <1>10, <1>11, <1>12 DEF UserStep

\* The steps of an admitted request keep the types.
LEMMA RequestStepType ==
    ASSUME TypeOK, NEW r \in Runs, RequestStep(r)
    PROVE  TypeOK'
<1> USE DEF Statuses, ACTIVE, Waiting, Phases, db
<1>1. runs[r] \in Run
  BY DEF TypeOK
<1>2. CASE TryCancel(r)
  <2>1. token' \in [Runs -> {"none", "clear", "set"}]
    BY <1>1, <1>2
       DEF TryCancel, TypeOK
  <2> QED
    BY <1>2, <2>1 DEF TryCancel, TypeOK
<1>3. CASE CancelCommit(r)
  <2>1. runs' \in [Runs -> Run]
    BY <1>1, <1>3, SetStatusType
       DEF CancelCommit, TypeOK
  <2> QED
    BY <1>3, <2>1 DEF CancelCommit, TypeOK
<1>4. CASE PublishEnd(r)
  <2>1. runs' \in [Runs -> Run]
    BY <1>1, <1>4, SetStatusType, UpdateType, PublishedType
       DEF PublishEnd, TypeOK
  <2> QED
    BY <1>4, <2>1 DEF PublishEnd, TypeOK
<1> QED
  BY <1>2, <1>3, <1>4 DEF RequestStep

\* The steps of a resume keep the types.
LEMMA ResumerStepType ==
    ASSUME TypeOK, NEW q \in resumers, ResumerStep(q)
    PROVE  TypeOK'
<1> USE DEF Statuses, ACTIVE, Waiting, Phases, db
<1>1. q \in Resumer /\ q.run \in Runs /\ q.seen \in SUBSET Followups
  BY DEF TypeOK, Resumer
<1>2. runs[q.run] \in Run
  BY <1>1 DEF TypeOK
<1>3. Collected(q.run) \in SUBSET Followups
  BY <1>1, CollectedType
<1>4. CASE AutoResumeBegin(q)
  <2>1. resumers' \subseteq Resumer
    <3>1. \A v, n \in Nat, fs \in SUBSET Followups :
             [q EXCEPT !.pc = "analysing", !.revision = v, !.resumes = n, !.seen = fs] \in Resumer
      BY <1>1 DEF Resumer
    <3>2. runs[q.run].revision \in Nat /\ runs[q.run].resumes \in Nat
      BY <1>2 DEF Run
    <3>3. [q EXCEPT !.pc = "analysing", !.revision = runs[q.run].revision,
                    !.resumes = runs[q.run].resumes, !.seen = Collected(q.run)] \in Resumer
      BY <1>3, <3>1, <3>2
    <3> QED
      BY <1>4, <3>3 DEF AutoResumeBegin, TypeOK
  <2> QED
    BY <1>4, <2>1 DEF AutoResumeBegin, TypeOK
<1>5. CASE ResumeCommit(q)
  <2>1. runs' \in [Runs -> Run]
    <3> DEFINE resumed == [runs[q.run] EXCEPT !.status = "queued", !.resumes = @ + 1,
                                              !.merged = @ \cup q.seen]
    <3>1. \A doc \in Run, n \in Nat, fs \in SUBSET Followups :
             [doc EXCEPT !.status = "queued", !.resumes = n, !.merged = fs] \in Run
      BY DEF Run
    <3>2. runs[q.run].resumes + 1 \in Nat
      BY <1>2 DEF Run
    <3>3. runs[q.run].merged \cup q.seen \in SUBSET Followups
      BY <1>1, <1>2 DEF Run
    <3>4. resumed \in Run
      BY <1>2, <3>1, <3>2, <3>3
    <3>5. Update(q.run, resumed)
      BY <1>5 DEF ResumeCommit, Answered
    <3> HIDE DEF resumed
    <3> QED
      BY <1>1, <3>4, <3>5, UpdateType
  <2>2. notes' \in [Runs -> Notes]
    BY <1>1, <1>2, <1>3, <1>5, NotesType
       DEF ResumeCommit, TypeOK, ReceiptsOf
  <2>3. lock' \subseteq Holder
    BY <1>1, <1>2, <1>3, <1>5, HoldType
       DEF ResumeCommit, TypeOK
  <2>4. starting' \subseteq Runs \X Phases
    BY <1>1, <1>2, <1>3, <1>5
       DEF ResumeCommit, TypeOK
  <2>5. resumers' \subseteq Resumer
    BY <1>1, <1>2, <1>3, <1>5
       DEF ResumeCommit, TypeOK
  <2> QED
    BY <1>5, <2>1, <2>2, <2>3, <2>4, <2>5 DEF ResumeCommit, TypeOK
<1>6. CASE ResumeRefused(q)
  <2>1. resumers' \subseteq Resumer
    BY <1>1, <1>2, <1>3, <1>6
       DEF ResumeRefused, TypeOK
  <2> QED
    BY <1>6, <2>1 DEF ResumeRefused, TypeOK
<1> QED
  BY <1>4, <1>5, <1>6 DEF ResumerStep

\* Queueing and dispatching a round keep the types.
LEMMA DispatchStepType ==
    ASSUME TypeOK, NEW r \in Runs, NEW p \in Phases, StartPlan(r, p) \/ Dispatch(r, p)
    PROVE  TypeOK'
<1> USE DEF Statuses, ACTIVE, Waiting, Phases, db
<1>1. runs[r] \in Run
  BY DEF TypeOK
<1>2. jobs[r] \in [Phases -> Job] /\ jobs[r][p] \in Job
  BY DEF TypeOK
<1>3. CASE StartPlan(r, p)
  <2>1. runs' \in [Runs -> Run]
    BY <1>1, <1>2, <1>3, UpdateType, FailedRunType
       DEF StartPlan, TypeOK
  <2>2. jobs' \in [Runs -> [Phases -> Job]]
    <3>1. UNCHANGED jobs \/ jobs' = Submitted(r, p)
      BY <1>3 DEF StartPlan
    <3> QED
      BY <3>1, SubmittedType DEF TypeOK
  <2>3. starting' \subseteq Runs \X Phases
    BY <1>1, <1>2, <1>3
       DEF StartPlan, TypeOK
  <2> QED
    BY <1>3, <2>1, <2>2, <2>3 DEF StartPlan, TypeOK
<1>4. CASE Dispatch(r, p)
  <2>1. jobs' \in [Runs -> [Phases -> Job]]
    BY <1>1, <1>2, <1>4, ClaimedType, ResetRowsType
       DEF Dispatch, TypeOK
  <2>2. active' \in [Runs -> Phases \cup {"none"}]
    BY <1>1, <1>2, <1>4
       DEF Dispatch, TypeOK
  <2>3. token' \in [Runs -> {"none", "clear", "set"}]
    BY <1>1, <1>2, <1>4
       DEF Dispatch, TypeOK
  <2>4. workers' \subseteq Worker
    BY <1>1, <1>2, <1>4
       DEF Dispatch, TypeOK, Worker, WorkerPC, Job
  <2> QED
    BY <1>4, <2>1, <2>2, <2>3, <2>4 DEF Dispatch, TypeOK
<1> QED
  BY <1>3, <1>4 DEF StartPlan

\* The later transactions of a lock holder keep the types.
LEMMA LockStepType ==
    ASSUME TypeOK, MarkApplied \/ Submit
    PROVE  TypeOK'
<1> USE DEF Statuses, ACTIVE, Waiting, Phases, db
<1>1. \A h \in lock : h \in Holder /\ h.run \in Runs /\ h.phase \in Phases /\ h.marks \in SUBSET Followups
  BY DEF TypeOK, Holder
<1>2. CASE MarkApplied
  <2>1. notes' \in [Runs -> Notes]
    BY <1>1, <1>2, NotesType
       DEF MarkApplied, TypeOK
  <2>2. lock' \subseteq Holder
    <3>1. PICK h \in lock : Hold(h.run, "submit", h.phase, {})
      BY <1>2 DEF MarkApplied
    <3> QED
      BY <1>1, <3>1, HoldType
  <2> QED
    BY <1>2, <2>1, <2>2 DEF MarkApplied, TypeOK
<1>3. CASE Submit
  <2>1. jobs' \in [Runs -> [Phases -> Job]]
    <3>1. PICK h \in lock : jobs' = Submitted(h.run, h.phase)
      BY <1>3 DEF Submit
    <3> QED
      BY <1>1, <3>1, SubmittedType
  <2> QED
    BY <1>3, <2>1 DEF Submit, TypeOK
<1> QED
  BY <1>2, <1>3 DEF Submit

\* A crash and the steps of recovery keep the types.
LEMMA RecoveryStepType ==
    ASSUME TypeOK, Crash \/ RecoveryStep
    PROVE  TypeOK'
<1> USE DEF Statuses, ACTIVE, Waiting, Phases, db
<1>1. CASE Crash
  <2> QED
    BY <1>1 DEF Crash, TypeOK
<1>2. CASE Restart
  <2> QED
    BY <1>2 DEF Restart, TypeOK
<1>3. ASSUME NEW r \in Runs, RecoverRun(r) PROVE TypeOK'
  <2> DEFINE continued == [runs[r] EXCEPT !.status = "queued", !.site = TRUE,
                                          !.pr = FALSE, !.resumes = @ + 1]
  <2>1. runs[r] \in Run /\ runs[r].resumes + 1 \in Nat
    BY DEF TypeOK, Run
  <2>2. \A doc \in Run, n \in Nat :
           [doc EXCEPT !.status = "queued", !.site = TRUE, !.pr = FALSE, !.resumes = n] \in Run
    BY DEF Run
  <2>3. continued \in Run
    BY <2>1, <2>2
  <2>4. UNCHANGED runs \/ Update(r, continued) \/ (\E s \in Statuses : SetStatus(r, s))
    BY <1>3 DEF RecoverRun
  <2>5. runs' \in [Runs -> Run]
    <3> HIDE DEF continued
    <3> QED
      BY <2>3, <2>4, UpdateType, SetStatusType DEF TypeOK
  <2>6. jobs' \in [Runs -> [Phases -> Job]]
    BY <1>3, ResetRowsType DEF RecoverRun, TypeOK
  <2>7. UNCHANGED lock \/ \E p \in Phases : Hold(r, "submit", p, {})
    BY <1>3 DEF RecoverRun
  <2>8. lock' \subseteq Holder
    BY <2>7, HoldType DEF TypeOK
  <2> QED
    BY <1>3, <2>5, <2>6, <2>8 DEF RecoverRun, TypeOK
<1>4. CASE RecoverDone
  <2>1. resumers' \subseteq Resumer
    BY <1>4
       DEF RecoverDone, TypeOK, Resumer, Collected, Unconsumed, Notes
  <2> QED
    BY <1>4, <2>1 DEF RecoverDone, TypeOK
<1> QED
  BY <1>1, <1>2, <1>3, <1>4 DEF RecoveryStep

\* Every transaction and every thread step leaves the database and the memory
\* of the service well formed (Store.update, DurableQueue, Service).
THEOREM TypeCorrect == Spec => []TypeOK
<1>1. Init => TypeOK
  BY DEF Init, TypeOK, NoRun, Run, Statuses, NoNotes, Notes, NoJob, Job, JobStates
<1>2. TypeOK /\ [Next]_vars => TypeOK'
  <2> SUFFICES ASSUME TypeOK, [Next]_vars PROVE TypeOK'
    OBVIOUS
  <2>1. ASSUME NEW r \in Runs, UserStep(r) \/ RequestStep(r) PROVE TypeOK'
    BY <2>1, UserStepType, RequestStepType
  <2>2. ASSUME NEW r \in Runs, NEW p \in Phases, StartPlan(r, p) \/ Dispatch(r, p)
        PROVE TypeOK'
    BY <2>2, DispatchStepType
  <2>3. CASE MarkApplied \/ Submit
    BY <2>3, LockStepType
  <2>4. ASSUME NEW w \in workers, WorkerStep(w) PROVE TypeOK'
    BY <2>4, WorkerStepType
  <2>5. ASSUME NEW q \in resumers, ResumerStep(q) PROVE TypeOK'
    BY <2>5, ResumerStepType
  <2>6. CASE Crash \/ RecoveryStep
    BY <2>6, RecoveryStepType
  <2>7. CASE UNCHANGED vars
    BY <2>7 DEF vars, TypeOK
  <2> QED
    BY <2>1, <2>2, <2>3, <2>4, <2>5, <2>6, <2>7 DEF Next
<1> QED
  BY <1>1, <1>2, PTL DEF Spec

-----------------------------------------------------------------------------
(* One round per run.                                                      *)

\* OneRoundPerRun alone is not preserved by recovery, which retires rows without
\* looking at workers: it may, because the crash left none.
RoundInv ==
    /\ TypeOK
    /\ OneRoundPerRun
    /\ mode # "up" => workers = {}

-----------------------------------------------------------------------------
(* What the queue does to the row a worker owns.                           *)

\* The row of a round under way: running under its generation, or already
\* waiting for a later one.
Owns(row, gen) ==
    \/ row.state = "running" /\ row.gen = gen
    \/ row.state = "pending" /\ row.gen > gen

\* enqueue never takes the row from the worker that owns it.
LEMMA EnqueuedKeepsOwner ==
    ASSUME NEW row \in Job, NEW gen \in Nat, NEW continuation \in BOOLEAN, Owns(row, gen)
    PROVE  Owns(Enqueued(row, continuation), gen)
BY DEF Owns, Enqueued, EnqueueRefused, Job

\* claim makes the worker that takes the row's generation its owner.
LEMMA ClaimedOwns ==
    ASSUME NEW row \in Job
    PROVE  Owns(Claimed(row), row.gen)
BY DEF Owns, Claimed, Job

\* _submit takes no row from its worker.
LEMMA SubmittedKeepsOwner ==
    ASSUME TypeOK, NEW r \in Runs, NEW p \in Phases, NEW w \in workers,
           Owns(jobs[w.run][w.phase], w.gen)
    PROVE  Owns(Submitted(r, p)[w.run][w.phase], w.gen)
<1>1. w.run \in Runs /\ w.phase \in Phases /\ w.gen \in Nat
  BY DEF TypeOK, Worker
<1>2. jobs[r] \in [Phases -> Job] /\ jobs[r][p] \in Job
  BY DEF TypeOK
<1>3. (p = "plan" /\ Status(r) = "received") \in BOOLEAN
  OBVIOUS
<1>4. CASE w.run = r /\ w.phase = p
  <2>1. Submitted(r, p)[r][p] = Enqueued(jobs[r][p], p = "plan" /\ Status(r) = "received")
    BY <1>2 DEF Submitted, TypeOK
  <2> QED
    BY <1>1, <1>2, <1>3, <1>4, <2>1, EnqueuedKeepsOwner
<1>5. CASE ~(w.run = r /\ w.phase = p)
  <2>1. Submitted(r, p)[w.run][w.phase] = jobs[w.run][w.phase]
    BY <1>1, <1>2, <1>5 DEF Submitted, TypeOK
  <2> QED
    BY <2>1
<1> QED
  BY <1>4, <1>5

-----------------------------------------------------------------------------
(* Steps that leave the rounds as they are.                                *)

\* A step that changes neither workers nor slots nor takes a row from its
\* worker keeps one round per run.
LEMMA RoundsUntouched ==
    ASSUME OneRoundPerRun, UNCHANGED <<active, workers>>,
           \A w \in workers : Owns(jobs[w.run][w.phase], w.gen)
                                => Owns(jobs'[w.run][w.phase], w.gen)
    PROVE  OneRoundPerRun'
BY DEF OneRoundPerRun, Owns

\* The steps inside a round change only how far it has come.
LEMMA RoundGoesOn ==
    ASSUME RoundInv, NEW w \in workers, NEW pc \in WorkerPC, NEW judged \in SUBSET Followups,
           workers' = (workers \ {w}) \cup {[w EXCEPT !.pc = pc, !.judged = judged]},
           UNCHANGED <<jobs, active, mode>>
    PROVE  OneRoundPerRun' /\ (mode # "up" => workers = {})'
<1> DEFINE next == [w EXCEPT !.pc = pc, !.judged = judged]
<1>1. next.run = w.run /\ next.phase = w.phase /\ next.gen = w.gen
  BY DEF RoundInv, TypeOK, Worker
<1>2. workers' = (workers \ {w}) \cup {next}
  OBVIOUS
<1> HIDE DEF next
<1>3. \A v, u \in workers' : v.run = u.run => v = u
  BY <1>1, <1>2 DEF RoundInv, OneRoundPerRun
<1>4. \A r \in Runs : (\E v \in workers' : v.run = r) <=> (\E v \in workers : v.run = r)
  BY <1>1, <1>2
<1>5. \A v \in workers' : \E u \in workers : v.run = u.run /\ v.phase = u.phase /\ v.gen = u.gen
  BY <1>1, <1>2
<1> QED
  BY <1>3, <1>4, <1>5 DEF RoundInv, OneRoundPerRun

\* A worker is removed, its slot is released and its row is retired.
LEMMA RoundEnds ==
    ASSUME RoundInv, NEW w \in workers, FinishJob(w)
    PROVE  OneRoundPerRun' /\ (mode # "up" => workers = {})'
<1>1. w.run \in Runs /\ w.phase \in Phases
  BY DEF RoundInv, TypeOK, Worker
<1>2. workers' = workers \ {w} /\ active' = [active EXCEPT ![w.run] = "none"] /\ mode' = mode
  BY DEF FinishJob
<1>3. \A v \in workers' : v \in workers /\ v.run \in Runs /\ v.phase \in Phases /\ v.run # w.run
  BY <1>2 DEF RoundInv, OneRoundPerRun, TypeOK, Worker
<1>4. \A v \in workers' : jobs'[v.run] = jobs[v.run]
  BY <1>1, <1>3 DEF FinishJob, RoundInv, TypeOK
<1>5. \A r \in Runs : active'[r] # "none" <=> \E v \in workers' : v.run = r
  <2> SUFFICES ASSUME NEW r \in Runs
               PROVE  active'[r] # "none" <=> \E v \in workers' : v.run = r
    OBVIOUS
  <2>1. CASE r = w.run
    BY <1>1, <1>2, <1>3, <2>1 DEF RoundInv, TypeOK
  <2>2. CASE r # w.run
    <3>1. active'[r] = active[r]
      BY <1>2, <2>2 DEF RoundInv, TypeOK
    <3> QED
      BY <1>2, <2>2, <3>1 DEF RoundInv, OneRoundPerRun
  <2> QED
    BY <2>1, <2>2
<1>6. \A v \in workers' : active'[v.run] = active[v.run]
  BY <1>1, <1>2, <1>3 DEF RoundInv, TypeOK
<1> QED
  BY <1>2, <1>3, <1>4, <1>5, <1>6 DEF RoundInv, OneRoundPerRun

\* A worker is added for a run that had none.
LEMMA RoundBegins ==
    ASSUME RoundInv, NEW r \in Runs, NEW p \in Phases, Dispatch(r, p)
    PROVE  OneRoundPerRun' /\ (mode # "up" => workers = {})'
<1>1. active[r] = "none" /\ mode = "up" /\ mode' = mode
  BY DEF Dispatch, SlotFree, Up
<1>2. \A v \in workers : v.run \in Runs /\ v.phase \in Phases /\ v.run # r
  BY <1>1 DEF RoundInv, OneRoundPerRun, TypeOK, Worker
<1>3. jobs[r] \in [Phases -> Job] /\ jobs[r][p] \in Job
  BY DEF RoundInv, TypeOK
<1>4. \A v \in workers : jobs'[v.run] = jobs[v.run]
  BY <1>2 DEF Dispatch, RoundInv, TypeOK
<1>5. CASE Status(r) # ExpectedStatus(p)
  BY <1>1, <1>2, <1>4, <1>5 DEF Dispatch, RoundInv, OneRoundPerRun
<1>6. CASE Status(r) = ExpectedStatus(p)
  <2> DEFINE new == [run |-> r, phase |-> p, gen |-> jobs[r][p].gen,
                     pc |-> "start", judged |-> {}]
  <2>1. workers' = workers \cup {new} /\ active' = [active EXCEPT ![r] = p]
    BY <1>6 DEF Dispatch
  <2>2. new.run = r /\ new.phase = p /\ new.gen = jobs[r][p].gen
    OBVIOUS
  <2>3. jobs'[r][p] = Claimed(jobs[r][p])
    BY <1>3, <1>6 DEF Dispatch, RoundInv, TypeOK
  <2>4. Owns(jobs'[new.run][new.phase], new.gen)
    BY <1>3, <2>2, <2>3, ClaimedOwns
  <2>5. active'[r] = p /\ p # "none" /\ \A q \in Runs : q # r => active'[q] = active[q]
    BY <2>1 DEF RoundInv, TypeOK, Phases
  <2> HIDE DEF new
  <2>6. \A v, w \in workers' : v.run = w.run => v = w
    BY <1>2, <2>1, <2>2 DEF RoundInv, OneRoundPerRun
  <2>7. \A q \in Runs : active'[q] # "none" <=> \E w \in workers' : w.run = q
    BY <1>2, <2>1, <2>2, <2>5 DEF RoundInv, OneRoundPerRun
  <2>8. \A w \in workers' : active'[w.run] = w.phase /\ Owns(jobs'[w.run][w.phase], w.gen)
    BY <1>2, <1>4, <2>1, <2>2, <2>4, <2>5 DEF RoundInv, OneRoundPerRun, Owns
  <2> QED
    BY <1>1, <2>6, <2>7, <2>8 DEF OneRoundPerRun, Owns
<1> QED
  BY <1>5, <1>6

-----------------------------------------------------------------------------
(* The invariant, step by step.                                            *)

\* Every step of a worker but its last one changes only how far it has come.
LEMMA WorkerStepIsQuiet ==
    ASSUME RoundInv, NEW w \in workers, WorkerStep(w), ~FinishJob(w)
    PROVE  /\ UNCHANGED <<jobs, active, mode>>
           /\ \E pc \in WorkerPC, judged \in SUBSET Followups :
                workers' = (workers \ {w}) \cup {[w EXCEPT !.pc = pc, !.judged = judged]}
<1> DEFINE Goes(pc, judged) ==
             workers' = (workers \ {w}) \cup {[w EXCEPT !.pc = pc, !.judged = judged]}
           Quiet == /\ UNCHANGED <<jobs, active, mode>>
                    /\ \E pc \in WorkerPC, judged \in SUBSET Followups : Goes(pc, judged)
<1>1. w.judged \in SUBSET Followups /\ w.run \in Runs
  BY DEF RoundInv, TypeOK, Worker
<1>2. \A pc \in WorkerPC : Step(w, pc) => Goes(pc, w.judged)
  BY DEF RoundInv, TypeOK, Worker, Step
<1>3. ASSUME UNCHANGED <<jobs, active, mode>>, \E pc \in WorkerPC : Step(w, pc)
      PROVE  Quiet
  BY <1>1, <1>2, <1>3
<1> SUFFICES Quiet
  OBVIOUS
<1> HIDE DEF Quiet, Goes
<1> USE DEF WorkerPC
<1>4. CASE AnalyzeStart(w)
  BY <1>3, <1>4 DEF AnalyzeStart, db
<1>5. CASE AnalyzeError(w)
  BY <1>3, <1>5 DEF AnalyzeError, db
<1>6. CASE FinishAnalysis(w)
  BY <1>3, <1>6 DEF FinishAnalysis, db
<1>7. CASE AutoConfirm(w)
  BY <1>3, <1>7 DEF AutoConfirm, db
<1>8. CASE PlanStart(w)
  BY <1>3, <1>8 DEF PlanStart, db
<1>9. CASE PlanDone(w)
  BY <1>3, <1>9 DEF PlanDone, db
<1>10. CASE PlanError(w)
  BY <1>3, <1>10 DEF PlanError, db
<1>11. CASE AutoApprove(w)
  BY <1>3, <1>11 DEF AutoApprove, db
<1>12. CASE PlanConflict(w)
  BY <1>3, <1>12 DEF PlanConflict, db
<1>13. CASE RunStart(w)
  <2>1. notes[w.run].applied \in SUBSET Followups
    BY <1>1 DEF RoundInv, TypeOK, Notes
  <2>2. Goes(Entered(w.run), notes[w.run].applied) \/ Step(w, "conflict")
    BY <1>13 DEF RunStart, Goes
  <2>3. Entered(w.run) \in WorkerPC
    BY DEF Entered
  <2>4. UNCHANGED <<jobs, active, mode>>
    BY <1>13 DEF RunStart
  <2> QED
    BY <1>3, <2>1, <2>2, <2>3, <2>4 DEF Quiet
<1>14. CASE BeginFinalization(w)
  BY <1>3, <1>14 DEF BeginFinalization, db
<1>15. CASE Executed(w)
  BY <1>3, <1>15 DEF Executed, db
<1>16. CASE RunError(w)
  BY <1>3, <1>16 DEF RunError, db
<1>17. CASE Land(w)
  BY <1>3, <1>17 DEF Land, db
<1>18. CASE CollectRelease(w)
  BY <1>3, <1>18 DEF CollectRelease, db
<1>19. CASE AfterLanding(w)
  BY <1>3, <1>19 DEF AfterLanding, db
<1>20. CASE WorkerPublished(w)
  BY <1>3, <1>20 DEF WorkerPublished, db
<1>21. CASE RunConflict(w)
  BY <1>3, <1>21 DEF RunConflict, db
<1>22. CASE RunErrorHandler(w)
  BY <1>3, <1>22 DEF RunErrorHandler, db
<1>23. CASE WorkerFail(w)
  BY <1>3, <1>23 DEF WorkerFail, db
<1> QED
  BY <1>4, <1>5, <1>6, <1>7, <1>8, <1>9, <1>10, <1>11, <1>12, <1>13, <1>14, <1>15,
     <1>16, <1>17, <1>18, <1>19, <1>20, <1>21, <1>22, <1>23 DEF WorkerStep

\* Every step of a worker keeps one round per run.
LEMMA WorkerKeepsRounds ==
    ASSUME RoundInv, NEW w \in workers, WorkerStep(w)
    PROVE  OneRoundPerRun' /\ (mode # "up" => workers = {})'
<1>1. CASE FinishJob(w)
  BY <1>1, RoundEnds
<1>2. CASE ~FinishJob(w)
  BY <1>2, WorkerStepIsQuiet, RoundGoesOn
<1> QED
  BY <1>1, <1>2

\* Queueing a round, by a lock holder or by a thread that left the lock.
LEMMA QueueingKeepsRounds ==
    ASSUME RoundInv,
           UNCHANGED jobs \/ \E r \in Runs, p \in Phases : jobs' = Submitted(r, p),
           UNCHANGED <<active, workers, mode>>
    PROVE  OneRoundPerRun' /\ (mode # "up" => workers = {})'
<1>1. \A w \in workers : Owns(jobs[w.run][w.phase], w.gen)
                            => Owns(jobs'[w.run][w.phase], w.gen)
  BY SubmittedKeepsOwner DEF RoundInv
<1> QED
  BY <1>1, RoundsUntouched DEF RoundInv

\* The invariant is inductive.
LEMMA RoundInvInductive ==
    RoundInv /\ [Next]_vars => OneRoundPerRun' /\ (mode # "up" => workers = {})'
<1> SUFFICES ASSUME RoundInv, [Next]_vars
             PROVE  OneRoundPerRun' /\ (mode # "up" => workers = {})'
  OBVIOUS
<1>1. ASSUME NEW r \in Runs, UserStep(r) \/ RequestStep(r)
      PROVE  UNCHANGED <<jobs, active, workers, mode>>
  BY <1>1 DEF UserStep, RequestStep, NewRun, Confirm, Approve, Clarify, ResumeAnalysis, FollowUp,
              Discard, ContinueBegin, CancelBegin, PublishBegin, TryCancel, CancelCommit,
              PublishEnd, db
<1>2. ASSUME NEW q \in resumers, ResumerStep(q) PROVE UNCHANGED <<jobs, active, workers, mode>>
  BY <1>2 DEF ResumerStep, AutoResumeBegin, ResumeCommit, ResumeRefused, db
<1>3. CASE MarkApplied
  BY <1>3, QueueingKeepsRounds DEF MarkApplied
<1>4. CASE Submit
  <2>1. \A h \in lock : h.run \in Runs /\ h.phase \in Phases
    BY DEF RoundInv, TypeOK, Holder
  <2> QED
    BY <1>4, <2>1, QueueingKeepsRounds DEF Submit
<1>5. ASSUME NEW r \in Runs, NEW p \in Phases, StartPlan(r, p)
      PROVE  OneRoundPerRun' /\ (mode # "up" => workers = {})'
  BY <1>5, QueueingKeepsRounds DEF StartPlan
<1>6. ASSUME NEW r \in Runs, NEW p \in Phases, Dispatch(r, p)
      PROVE  OneRoundPerRun' /\ (mode # "up" => workers = {})'
  BY <1>6, RoundBegins
<1>7. ASSUME NEW w \in workers, WorkerStep(w)
      PROVE  OneRoundPerRun' /\ (mode # "up" => workers = {})'
  BY <1>7, WorkerKeepsRounds
<1>8. CASE Crash
  BY <1>8 DEF Crash, OneRoundPerRun
<1>9. CASE Restart
  BY <1>9 DEF Restart, RoundInv, OneRoundPerRun, db
<1>10. ASSUME NEW r \in Runs, RecoverRun(r)
       PROVE  OneRoundPerRun' /\ (mode # "up" => workers = {})'
  <2>1. workers = {} /\ workers' = {} /\ UNCHANGED active
    BY <1>10 DEF RecoverRun, RoundInv
  <2> QED
    BY <2>1 DEF RoundInv, OneRoundPerRun
<1>11. CASE RecoverDone
  BY <1>11 DEF RecoverDone, RoundInv, OneRoundPerRun, db
<1>12. CASE UNCHANGED vars
  BY <1>12 DEF vars, RoundInv, OneRoundPerRun
<1> QED
  BY <1>1, <1>2, <1>3, <1>4, <1>5, <1>6, <1>7, <1>8, <1>9, <1>10, <1>11, <1>12,
     QueueingKeepsRounds DEF Next, RecoveryStep

\* The strengthened invariant holds throughout.
LEMMA RoundInvAlways == Spec => []RoundInv
<1>1. Init => RoundInv
  <2>1. Init => TypeOK
    BY DEF Init, TypeOK, NoRun, Run, Statuses, NoNotes, Notes, NoJob, Job, JobStates
  <2>2. Init => OneRoundPerRun /\ (mode # "up" => workers = {})
    BY DEF Init, OneRoundPerRun
  <2> QED
    BY <2>1, <2>2 DEF RoundInv
<1>2. RoundInv /\ TypeOK' /\ [Next]_vars => RoundInv'
  BY RoundInvInductive DEF RoundInv
<1> QED
  BY <1>1, <1>2, TypeCorrect, PTL DEF Spec

\* A run has at most one round in flight, its slot names it, and the queue row
\* is the worker's or already the next round's (Service._dispatch, _job).
THEOREM OneRound == Spec => []OneRoundPerRun
<1>1. RoundInv => OneRoundPerRun
  BY DEF RoundInv
<1> QED
  BY <1>1, RoundInvAlways, PTL

-----------------------------------------------------------------------------
(* The pool has a thread for every round in flight.                        *)

Bounded == IsFiniteSet(workers) /\ Cardinality(workers) <= MaxActive

\* As many slots are taken as there are workers.
LEMMA SlotsCountWorkers ==
    ASSUME RoundInv, IsFiniteSet(workers)
    PROVE  SlotsTaken = Cardinality(workers)
<1> DEFINE Taken == {r \in Runs : active[r] # "none"}
           f == [w \in workers |-> w.run]
<1>1. \A w \in workers : w.run \in Runs /\ active[w.run] # "none"
  BY DEF RoundInv, OneRoundPerRun, TypeOK, Worker
<1>2. \A r \in Taken : \E w \in workers : w.run = r
  BY DEF RoundInv, OneRoundPerRun
<1>3. f \in [workers -> Taken]
  BY <1>1
<1>4. f \in Surjection(workers, Taken)
  BY <1>2, <1>3 DEF Surjection
<1>5. \A v, w \in workers : v.run = w.run => v = w
  BY DEF RoundInv, OneRoundPerRun
<1>6. f \in Injection(workers, Taken)
  BY <1>3, <1>5 DEF Injection, IsInjective
<1>7. Cardinality(Taken) = Cardinality(workers)
  <2> HIDE DEF f, Taken
  <2> QED
    BY <1>4, <1>6, FS_Surjection
<1> QED
  BY <1>7 DEF SlotsTaken

\* Only the dispatcher adds a worker, and it looks at the limit first.
LEMMA BoundedInductive ==
    RoundInv /\ Bounded /\ [Next]_vars => Bounded'
<1> SUFFICES ASSUME RoundInv, Bounded, [Next]_vars PROVE Bounded'
  OBVIOUS
<1>1. MaxActive \in Nat /\ Cardinality(workers) \in Nat
  BY LimitsAssumption, FS_CardinalityType DEF Bounded
<1>2. CASE UNCHANGED workers
  BY <1>2 DEF Bounded
<1>3. CASE workers' = {}
  BY <1>1, <1>3, FS_EmptySet DEF Bounded
<1>4. ASSUME NEW w \in workers, WorkerStep(w) PROVE Bounded'
  <2>1. /\ IsFiniteSet(workers \ {w})
        /\ Cardinality(workers \ {w}) = Cardinality(workers) - 1
    BY FS_RemoveElement DEF Bounded
  <2>2. CASE FinishJob(w)
    BY <1>1, <2>1, <2>2 DEF FinishJob, Bounded
  <2>3. CASE ~FinishJob(w)
    <3>1. PICK v : workers' = (workers \ {w}) \cup {v}
      BY <1>4, <2>3, WorkerStepIsQuiet
    <3>2. /\ IsFiniteSet((workers \ {w}) \cup {v})
          /\ Cardinality((workers \ {w}) \cup {v}) =
               IF v \in workers \ {w} THEN Cardinality(workers \ {w})
               ELSE Cardinality(workers \ {w}) + 1
      BY <2>1, FS_AddElement
    <3> QED
      BY <1>1, <2>1, <3>1, <3>2 DEF Bounded
  <2> QED
    BY <2>2, <2>3
<1>5. ASSUME NEW r \in Runs, NEW p \in Phases, Dispatch(r, p) PROVE Bounded'
  <2>1. Cardinality(workers) < MaxActive
    BY <1>5, SlotsCountWorkers DEF Dispatch, SlotFree, Bounded
  <2>2. CASE UNCHANGED workers
    BY <1>2, <2>2
  <2>3. CASE \E v : workers' = workers \cup {v}
    <3>1. PICK v : workers' = workers \cup {v}
      BY <2>3
    <3>2. /\ IsFiniteSet(workers \cup {v})
          /\ Cardinality(workers \cup {v}) =
               IF v \in workers THEN Cardinality(workers) ELSE Cardinality(workers) + 1
      BY FS_AddElement DEF Bounded
    <3> QED
      BY <1>1, <2>1, <3>1, <3>2 DEF Bounded
  <2> QED
    BY <1>5, <2>2, <2>3 DEF Dispatch
<1>6. ASSUME NEW r \in Runs, UserStep(r) \/ RequestStep(r) PROVE UNCHANGED workers
  BY <1>6 DEF UserStep, RequestStep, NewRun, Confirm, Approve, Clarify, ResumeAnalysis, FollowUp,
              Discard, ContinueBegin, CancelBegin, PublishBegin, TryCancel, CancelCommit, PublishEnd
<1>7. ASSUME NEW q \in resumers, ResumerStep(q) PROVE UNCHANGED workers
  BY <1>7 DEF ResumerStep, AutoResumeBegin, ResumeCommit, ResumeRefused
<1>8. ASSUME NEW r \in Runs, NEW p \in Phases, StartPlan(r, p) PROVE UNCHANGED workers
  BY <1>8 DEF StartPlan
<1>9. CASE MarkApplied \/ Submit
  BY <1>2, <1>9 DEF MarkApplied, Submit
<1>10. CASE Crash
  BY <1>3, <1>10 DEF Crash
<1>11. CASE RecoveryStep
  BY <1>2, <1>11 DEF RecoveryStep, Restart, RecoverRun, RecoverDone
<1>12. CASE UNCHANGED vars
  BY <1>2, <1>12 DEF vars
<1> QED
  BY <1>2, <1>4, <1>5, <1>6, <1>7, <1>8, <1>9, <1>10, <1>11, <1>12 DEF Next

\* However many runs are queued, no round is claimed without a thread for it
\* (the limit of Service._dispatch against the size of its pool).
THEOREM SlotsAreBounded == Spec => []SlotsBounded
<1>1. Init => Bounded
  BY LimitsAssumption, FS_EmptySet DEF Init, Bounded
<1>2. Bounded => SlotsBounded
  BY DEF Bounded, SlotsBounded
<1> QED
  BY <1>1, <1>2, BoundedInductive, RoundInvAlways, PTL DEF Spec

-----------------------------------------------------------------------------
(* A recovery leaves no run behind that only looks scheduled.              *)

\* No thread of the process is left.
NobodyWorks ==
    /\ workers = {} /\ resumers = {} /\ starting = {} /\ publishing = {}
    /\ \A r \in Runs : cancelling[r] = "idle"

\* The run waits for a person or an end, or its next round is a pending row and
\* no row of it claims to be running.
Settled(r) ==
    Status(r) \in ACTIVE =>
        /\ Status(r) \in {"received", "queued"}
        /\ \E p \in Phases : jobs[r][p].state = "pending"
        /\ \A p \in Phases : jobs[r][p].state # "running"

\* Recovery has retired the rows of the run and is about to queue its round.
BeingQueued(h) ==
    /\ h.step = "submit" /\ h.run \notin torecover
    /\ Status(h.run) \in {"received", "queued"}
    /\ \A p \in Phases : jobs[h.run][p].state \notin {"pending", "running"}

\* While the process is down or recovers, nobody else touches a run: every run
\* recovery has visited is settled, but for the one whose round it is queueing.
RecoveryInv ==
    /\ mode # "up" => NobodyWorks
    /\ mode = "down" => lock = {}
    /\ mode = "recovering" =>
         /\ \A h, g \in lock : h = g
         /\ \A h \in lock : BeingQueued(h)
         /\ \A r \in Runs \ torecover : (\A h \in lock : h.run # r) => Settled(r)

\* Only recovery, and the queueing it began, goes on in a process that is not up.
LEMMA OnlyRecoveryGoesOn ==
    ASSUME TypeOK, RecoveryInv, mode # "up", [Next]_vars
    PROVE  Submit \/ Crash \/ RecoveryStep \/ UNCHANGED vars
<1>1. NobodyWorks /\ \A h \in lock : h.step = "submit"
  BY DEF RecoveryInv, BeingQueued, TypeOK
<1>2. ASSUME NEW r \in Runs PROVE ~UserStep(r)
  BY DEF UserStep, Up, NewRun, Confirm, Approve, Clarify, ResumeAnalysis, FollowUp, Discard,
         ContinueBegin, CancelBegin, PublishBegin
<1>3. ASSUME NEW r \in Runs PROVE ~RequestStep(r)
  BY <1>1, <1>3 DEF NobodyWorks, RequestStep, TryCancel, CancelCommit, PublishEnd
<1>4. ASSUME NEW r \in Runs, NEW p \in Phases PROVE ~StartPlan(r, p) /\ ~Dispatch(r, p)
  BY DEF StartPlan, Dispatch, Up
<1>5. ~MarkApplied
  BY <1>1 DEF MarkApplied
<1> QED
  BY <1>1, <1>2, <1>3, <1>4, <1>5 DEF Next, NobodyWorks

\* A new row is pending, and the other rows of the run are as recovery left them.
LEMMA SubmitSettles ==
    ASSUME TypeOK, RecoveryInv, mode = "recovering", Submit
    PROVE  RecoveryInv'
<1>1. PICK h \in lock : h.step = "submit" /\ jobs' = Submitted(h.run, h.phase)
  BY DEF Submit
<1>2. h.run \in Runs /\ h.phase \in Phases /\ jobs[h.run] \in [Phases -> Job]
  BY DEF TypeOK, Holder
<1>3. BeingQueued(h) /\ \A g \in lock : g = h
  BY DEF RecoveryInv
<1>4. /\ lock' = {} /\ UNCHANGED <<runs, mode, torecover>>
      /\ UNCHANGED <<workers, resumers, starting, publishing, cancelling>>
  BY DEF Submit
<1> DEFINE continued == h.phase = "plan" /\ Status(h.run) = "received"
<1>5. /\ jobs'[h.run][h.phase] = Enqueued(jobs[h.run][h.phase], continued)
      /\ \A p \in Phases : p # h.phase => jobs'[h.run][p] = jobs[h.run][p]
      /\ \A r \in Runs : r # h.run => jobs'[r] = jobs[r]
  BY <1>1, <1>2 DEF Submitted, TypeOK
<1>6. jobs'[h.run][h.phase].state = "pending"
  BY <1>2, <1>3, <1>5 DEF BeingQueued, Enqueued, EnqueueRefused
<1>7. ASSUME NEW r \in Runs \ torecover PROVE Settled(r)'
  <2>1. CASE r = h.run
    BY <1>2, <1>3, <1>4, <1>5, <1>6, <2>1 DEF Settled, BeingQueued, Status
  <2>2. CASE r # h.run
    <3>1. Settled(r)
      BY <1>3, <2>2 DEF RecoveryInv
    <3> QED
      BY <1>4, <1>5, <2>2, <3>1 DEF Settled, Status
  <2> QED
    BY <2>1, <2>2
<1> QED
  BY <1>4, <1>7 DEF RecoveryInv, NobodyWorks

\* reset leaves no row of the run waiting or running.
LEMMA ResetRetires ==
    ASSUME NEW rows \in [Phases -> Job], NEW p \in Phases
    PROVE  ResetRows(rows)[p].state \notin {"pending", "running"}
BY DEF ResetRows, Job, JobStates

\* recover() visits a run with the lock free, so that every other run it has
\* visited is settled already.
LEMMA VisitSettles ==
    ASSUME TypeOK, RecoveryInv, NEW r \in Runs, RecoverRun(r)
    PROVE  RecoveryInv'
<1>1. /\ mode = "recovering" /\ mode' = mode /\ lock = {} /\ torecover' = torecover \ {r}
      /\ UNCHANGED <<workers, resumers, starting, publishing, cancelling>>
  BY DEF RecoverRun, Locked
<1>2. NobodyWorks'
  BY <1>1 DEF RecoveryInv, NobodyWorks
<1>3. ASSUME NEW s \in Runs, s # r PROVE runs'[s] = runs[s] /\ jobs'[s] = jobs[s]
  BY <1>3 DEF RecoverRun, SetStatus, Update, TypeOK
<1>4. ASSUME NEW s \in Runs \ torecover', s # r PROVE Settled(s)'
  <2>1. Settled(s)
    BY <1>1, <1>4 DEF RecoveryInv
  <2> QED
    BY <1>3, <1>4, <2>1 DEF Settled, Status
<1>5. ASSUME NEW new, SetStatus(r, new) PROVE Status(r)' = new
  <2>1. \A doc \in Run : [doc EXCEPT !.status = new].status = new
    BY DEF Run
  <2> QED
    BY <1>5, <2>1 DEF SetStatus, Update, Status, TypeOK
<1>6. CASE UNCHANGED lock /\ Status(r)' \notin ACTIVE
  <2>1. Settled(r)'
    BY <1>6 DEF Settled
  <2> QED
    BY <1>1, <1>2, <1>4, <1>6, <2>1 DEF RecoveryInv
<1>7. CASE /\ \E p \in Phases : Hold(r, "submit", p, {})
           /\ Status(r)' \in {"received", "queued"} /\ jobs' = [jobs EXCEPT ![r] = ResetRows(@)]
  <2>1. \A p \in Phases : jobs'[r][p].state \notin {"pending", "running"}
    BY <1>7, ResetRetires DEF TypeOK
  <2>2. PICK h \in lock' : lock' = {h} /\ h.run = r /\ h.step = "submit"
    BY <1>7 DEF Hold
  <2>3. BeingQueued(h)'
    BY <1>1, <1>7, <2>1, <2>2 DEF BeingQueued
  <2> QED
    BY <1>1, <1>2, <1>4, <2>2, <2>3 DEF RecoveryInv
<1>8. (UNCHANGED lock /\ Status(r)' \notin ACTIVE)
      \/ (/\ \E p \in Phases : Hold(r, "submit", p, {})
          /\ Status(r)' \in {"received", "queued"} /\ jobs' = [jobs EXCEPT ![r] = ResetRows(@)])
  <2>1. CASE Status(r) = "requirement_analysis"
    <3>1. SetStatus(r, "needs_human") /\ UNCHANGED lock
      BY <2>1 DEF RecoverRun, ACTIVE
    <3> QED
      BY <1>5, <3>1 DEF ACTIVE
  <2>2. CASE Status(r) \notin ACTIVE
    BY <2>2 DEF RecoverRun, Status, ACTIVE
  <2>3. CASE Status(r) \in ACTIVE \ {"requirement_analysis"}
    <3>1. CASE ContinuesFromCheckpoint(r) /\ Hold(r, "submit", "execute", {})
                 /\ Update(r, [runs[r] EXCEPT !.status = "queued", !.site = TRUE,
                                              !.pr = FALSE, !.resumes = @ + 1])
      <4>1. \A doc \in Run : [doc EXCEPT !.status = "queued", !.site = TRUE,
                                         !.pr = FALSE, !.resumes = @ + 1].status = "queued"
        BY DEF Run
      <4>2. Status(r)' = "queued"
        BY <3>1, <4>1 DEF Update, Status, TypeOK
      <4> QED
        BY <2>3, <3>1, <4>2 DEF RecoverRun, Phases
    <3>2. CASE /\ RedoesFromQueue(r)
               /\ SetStatus(r, IF Status(r) = "queued" THEN "queued" ELSE "received")
               /\ Hold(r, "submit", IF Status(r) = "queued" THEN "execute" ELSE "plan", {})
      <4>1. Status(r)' \in {"received", "queued"}
        BY <1>5, <3>2
      <4>2. \E p \in Phases : Hold(r, "submit", p, {})
        BY <3>2 DEF Phases
      <4> QED
        BY <2>3, <4>1, <4>2 DEF RecoverRun
    <3>3. CASE SetStatus(r, "needs_human") /\ UNCHANGED lock
      <4>1. Status(r)' = "needs_human"
        BY <1>5, <3>3
      <4> QED
        BY <3>3, <4>1 DEF ACTIVE
    <3> QED
      BY <2>3, <3>1, <3>2, <3>3 DEF RecoverRun
  <2> QED
    BY <2>1, <2>2, <2>3
<1> QED
  BY <1>6, <1>7, <1>8

LEMMA RecoveryInvInductive == TypeOK /\ RecoveryInv /\ [Next]_vars => RecoveryInv'
<1> SUFFICES ASSUME TypeOK, RecoveryInv, [Next]_vars PROVE RecoveryInv'
  OBVIOUS
<1>1. CASE Crash
  BY <1>1 DEF Crash, RecoveryInv, NobodyWorks
<1>2. CASE mode = "up" /\ ~Crash
  <2>1. mode' = "up"
    <3>1. ASSUME NEW r \in Runs, UserStep(r) \/ RequestStep(r) PROVE mode' = mode
      BY <3>1 DEF UserStep, RequestStep, NewRun, Confirm, Approve, Clarify, ResumeAnalysis,
         FollowUp, Discard, ContinueBegin, CancelBegin, PublishBegin, TryCancel, CancelCommit,
         PublishEnd
    <3>2. ASSUME NEW w \in workers, WorkerStep(w) PROVE mode' = mode
      BY <3>2 DEF WorkerStep, AnalyzeStart, AnalyzeError, FinishAnalysis,
         AutoConfirm, PlanStart, PlanDone, PlanError, AutoApprove, PlanConflict, RunStart,
         BeginFinalization, Executed, RunError, Land, CollectRelease, AfterLanding,
         WorkerPublished, RunConflict, RunErrorHandler, WorkerFail, FinishJob
    <3>3. ASSUME NEW q \in resumers, ResumerStep(q) PROVE mode' = mode
      BY <3>3 DEF ResumerStep, AutoResumeBegin, ResumeCommit, ResumeRefused
    <3>4. ASSUME NEW r \in Runs, NEW p \in Phases, StartPlan(r, p) \/ Dispatch(r, p)
          PROVE  mode' = mode
      BY <3>4 DEF StartPlan, Dispatch
    <3>5. CASE MarkApplied \/ Submit \/ UNCHANGED vars
      BY <1>2, <3>5 DEF MarkApplied, Submit, vars
    <3>6. ~RecoveryStep
      BY <1>2 DEF RecoveryStep, Restart, RecoverRun, RecoverDone
    <3> QED
      BY <1>2, <3>1, <3>2, <3>3, <3>4, <3>5, <3>6 DEF Next
  <2> QED
    BY <2>1 DEF RecoveryInv
<1>3. CASE mode # "up" /\ ~Crash
  <2>1. CASE Submit
    <3>1. mode = "recovering"
      BY <1>3, <2>1 DEF TypeOK, RecoveryInv, Submit
    <3> QED
      BY <2>1, <3>1, SubmitSettles
  <2>2. CASE Restart
    BY <2>2 DEF Restart, RecoveryInv, NobodyWorks
  <2>3. ASSUME NEW r \in Runs, RecoverRun(r) PROVE RecoveryInv'
    BY <2>3, VisitSettles
  <2>4. CASE RecoverDone
    BY <2>4 DEF RecoverDone, RecoveryInv
  <2>5. CASE UNCHANGED vars
    <3>1. UNCHANGED <<runs, jobs, mode, torecover, lock, workers, starting, resumers,
                      cancelling, publishing>>
      BY <2>5 DEF vars
    <3> QED
      BY <3>1 DEF RecoveryInv, NobodyWorks, Settled, BeingQueued, Status
  <2> QED
    BY <1>3, <2>1, <2>2, <2>3, <2>4, <2>5, OnlyRecoveryGoesOn DEF RecoveryStep
<1> QED
  BY <1>1, <1>2, <1>3

\* A run recovery has visited is never left marked as active without a pending
\* row, however often the process dies in the middle (RecoveryService.recover).
THEOREM RecoveryIsComplete == Spec => []RecoveryLeavesNoOrphan
<1>1. Init => RecoveryInv
  BY DEF Init, RecoveryInv
<1>2. TypeOK /\ RecoveryInv /\ [Next]_vars => RecoveryInv'
  BY RecoveryInvInductive
<1>3. RecoveryInv => RecoveryLeavesNoOrphan
  BY DEF RecoveryInv, RecoveryLeavesNoOrphan, Locked, Settled
<1> QED
  BY <1>1, <1>2, <1>3, TypeCorrect, PTL DEF Spec

-----------------------------------------------------------------------------
(* Every run that is owed a step has somebody who takes it.                *)

\* What the theorem is about: no analysis, no policy that approves, no crash.  With any
\* of them the code can lose a round (see the README).
Plainly == SpecRuns = {} /\ Autonomous = {} /\ MaxCrashes = 0

\* The ways in which a round of run r and phase p may be coming.
Ways == {"starting", "lock", "row", "worker"}
Way(r, k, p) ==
    \/ k = "starting" /\ <<r, p>> \in starting
    \/ k = "lock" /\ \E h \in lock : h.run = r /\ h.phase = p
    \/ k = "row" /\ jobs[r][p].state = "pending"
    \/ k = "worker" /\ \E w \in workers : w.run = r /\ w.phase = p /\ w.pc = "start"

\* A user may end a run at any time, whoever is on the way to it.
Over == {"cancelled", "discarded"}

\* The statuses a run may have while its worker is at pc in a phase.
Fits(phase, pc, s) ==
    \/ s \in Over
    \/ pc = "start" /\ s = ExpectedStatus(phase)
    \/ phase = "plan" /\ pc \in {"planning", "conflict", "failing"} /\ s = "planning"
    \/ /\ phase = "plan" /\ pc = "ending"
       /\ s \in {"needs_clarification", "awaiting_approval", "received", "queued", "needs_human"}
    \/ /\ phase = "execute" /\ s \in {"ready_for_review", "publishing", "published"}
    \/ /\ phase = "execute" /\ s = "running"
       /\ pc \in {"running", "finalizing", "reviewing", "conflict", "refused", "error", "failing",
                  "returning", "saving"}
    \/ phase = "execute" /\ pc = "ending" /\ s \in {"received", "needs_human"}

\* The places of a worker in each phase.
PlanPC == {"start", "planning", "conflict", "failing", "ending"}
ExecutePC == {"start", "running", "finalizing", "reviewing", "landed", "collected", "publishing",
              "conflict", "refused", "error", "failing", "returning", "saving", "ending"}

Placed(w) ==
    /\ (w.phase = "plan" /\ w.pc \in PlanPC) \/ (w.phase = "execute" /\ w.pc \in ExecutePC)
    /\ Fits(w.phase, w.pc, Status(w.run))

\* One round at a time is coming, to a run that expects it and has no other at work.
OneWay(r) ==
    \A k1, k2 \in Ways, p1, p2 \in Phases :
        Way(r, k1, p1) /\ Way(r, k2, p2) => k1 = k2 /\ p1 = p2

Expected(r) ==
    \A k \in Ways, p \in Phases : Way(r, k, p) =>
        /\ p # "requirement_analysis"
        /\ Status(r) \in {ExpectedStatus(p)} \cup Over
        /\ k = "lock" => Status(r) = ExpectedStatus(p)
        /\ \A w \in workers : w.run = r => w.pc \in {"start", "ending"}

\* A row that is running is that of a worker.
RowsOwned(r) ==
    \A p \in Phases : jobs[r][p].state = "running" => \E w \in workers : w.run = r /\ w.phase = p

Served(r) ==
    /\ Status(r) \notin {"requirement_analysis", "awaiting_spec_confirmation"}
    /\ Status(r) = "received" => \E k \in Ways : Way(r, k, "plan")
    /\ Status(r) = "queued" => \E k \in Ways : Way(r, k, "execute")
    /\ Status(r) \in {"planning", "running"} => \E w \in workers : w.run = r
    /\ Status(r) = "publishing" =>
         r \in publishing \/ \E w \in workers : w.run = r /\ w.pc = "publishing"

InOrder(r) ==
    /\ OneWay(r) /\ Expected(r) /\ RowsOwned(r) /\ Served(r)
    /\ \A w \in workers : w.run = r => Placed(w)

\* The process is up, and one thread holds the lock.
Steady ==
    /\ mode = "up" /\ crashes = 0
    /\ \A g, h \in lock : g = h
    /\ \A h \in lock : h.step \in {"mark", "submit"}

OwnerInv == Steady /\ \A r \in Runs : InOrder(r)

\* A step that touches nothing of run r.
Elsewhere(r) ==
    /\ Status(r)' = Status(r) /\ jobs'[r] = jobs[r]
    /\ \A w : w.run = r => (w \in workers' <=> w \in workers)
    /\ \A p : <<r, p>> \in starting' <=> <<r, p>> \in starting
    /\ \A h : h.run = r => (h \in lock' <=> h \in lock)
    /\ r \in publishing' <=> r \in publishing

\* A step that changes neither what comes to run r nor its status, rows and workers.
LEMMA SameWays ==
    ASSUME NEW r \in Runs, InOrder(r),
           Status(r)' = Status(r), jobs'[r] = jobs[r],
           \A w : w.run = r => (w \in workers' <=> w \in workers),
           \A k \in Ways, p \in Phases : Way(r, k, p)' <=> Way(r, k, p),
           r \in publishing' <=> r \in publishing
    PROVE  InOrder(r)'
<1>1. OneWay(r)'
  BY DEF InOrder, OneWay
<1>2. Expected(r)'
  BY DEF InOrder, Expected
<1>3. RowsOwned(r)'
  BY DEF InOrder, RowsOwned
<1>4. Served(r)'
  BY DEF InOrder, Served, Phases
<1>5. \A w \in workers' : w.run = r => Placed(w)'
  BY DEF InOrder, Placed
<1> QED
  BY <1>1, <1>2, <1>3, <1>4, <1>5 DEF InOrder

\* A step that touches nothing of a run keeps it in order.
LEMMA ElsewhereKeeps ==
    ASSUME NEW r \in Runs, InOrder(r), Elsewhere(r)
    PROVE  InOrder(r)'
<1>1. \A k, p : Way(r, k, p)' <=> Way(r, k, p)
  BY DEF Elsewhere, Way
<1> QED
  BY <1>1, SameWays DEF Elsewhere

\* An update changes the status of its run only.
LEMMA StatusAfter ==
    ASSUME TypeOK, NEW r \in Runs
    PROVE  /\ \A doc : Update(r, doc) => Status(r)' = doc.status
           /\ \A s : SetStatus(r, s) => Status(r)' = s
           /\ \A x \in Runs : (x # r /\ \E doc : Update(r, doc)) => Status(x)' = Status(x)
           /\ \A x \in Runs : (x # r /\ \E s : SetStatus(r, s)) => Status(x)' = Status(x)
<1>1. runs \in [Runs -> Run]
  BY DEF TypeOK
<1>2. ASSUME NEW doc, Update(r, doc)
      PROVE  runs'[r] = doc /\ \A x \in Runs : x # r => runs'[x] = runs[x]
  BY <1>1, <1>2 DEF Update
<1>3. ASSUME NEW s, SetStatus(r, s)
      PROVE  runs'[r].status = s /\ \A x \in Runs : x # r => runs'[x] = runs[x]
  <2>1. \A doc \in Run : [doc EXCEPT !.status = s].status = s
    BY DEF Run
  <2> QED
    BY <1>1, <1>2, <1>3, <2>1 DEF SetStatus
<1> QED
  BY <1>2, <1>3 DEF Status

\* A worker that has begun and is not done gets on; its run is none that waits for a round.
LEMMA WorkerMoves ==
    ASSUME RoundInv, \A r \in Runs : InOrder(r),
           NEW w \in workers, w.pc # "ending",
           NEW pc \in WorkerPC \ {"start"}, NEW judged \in SUBSET Followups,
           workers' = (workers \ {w}) \cup {[w EXCEPT !.pc = pc, !.judged = judged]},
           UNCHANGED <<jobs, starting, lock, publishing>>,
           \A r \in Runs : r # w.run => Status(r)' = Status(r),
           (w.phase = "plan" /\ pc \in PlanPC) \/ (w.phase = "execute" /\ pc \in ExecutePC),
           Fits(w.phase, pc, Status(w.run)'),
           Status(w.run)' \notin {"received", "queued", "requirement_analysis",
                                  "awaiting_spec_confirmation"},
           Status(w.run)' = "publishing" =>
               pc = "publishing" \/ (Status(w.run) = "publishing" /\ w.pc # "publishing")
    PROVE  \A r \in Runs : InOrder(r)'
<1> DEFINE v == [w EXCEPT !.pc = pc, !.judged = judged]
<1>1. v.run = w.run /\ v.phase = w.phase /\ v.pc = pc /\ v.gen = w.gen /\ w.run \in Runs /\ w.phase \in Phases
  BY DEF RoundInv, TypeOK, Worker
<1>2. workers' = (workers \ {w}) \cup {v}
  OBVIOUS
<1> HIDE DEF v
<1>3. \A u \in workers : u.run = w.run => u = w
  BY DEF RoundInv, OneRoundPerRun
<1>4. ASSUME NEW r \in Runs, r # w.run PROVE InOrder(r)'
  BY <1>1, <1>2, <1>4, ElsewhereKeeps DEF Elsewhere
<1> DEFINE r == w.run
<1>5. InOrder(r)
  BY <1>1
<1>6. ASSUME NEW k \in Ways, NEW p \in Phases PROVE ~Way(r, k, p)'
  <2>1. Way(r, k, p)' => Way(r, k, p) /\ k # "worker"
    BY <1>1, <1>2, <1>3 DEF Way, Ways
  <2>2. ASSUME Way(r, k, p), k # "worker" PROVE FALSE
    <3>1. w.pc = "start"
      BY <1>5, <2>2 DEF InOrder, Expected
    <3>2. Way(r, "worker", w.phase) /\ "worker" \in Ways
      BY <3>1 DEF Way, Ways
    <3> QED
      BY <1>1, <1>5, <2>2, <3>2 DEF InOrder, OneWay
  <2> QED
    BY <2>1, <2>2
<1>7. OneWay(r)' /\ Expected(r)'
  BY <1>6 DEF OneWay, Expected
<1>8. RowsOwned(r)'
  BY <1>1, <1>2, <1>5 DEF InOrder, RowsOwned
<1>9. Served(r)'
  <2>1. \E u \in workers' : u.run = r
    BY <1>1, <1>2
  <2>2. Status(r)' = "publishing" =>
            r \in publishing' \/ \E u \in workers' : u.run = r /\ u.pc = "publishing"
    BY <1>1, <1>2, <1>3, <1>5 DEF InOrder, Served
  <2> QED
    BY <2>1, <2>2 DEF Served
<1>10. \A u \in workers' : u.run = r => Placed(u)'
  BY <1>1, <1>2, <1>3 DEF Placed
<1>11. InOrder(r)'
  BY <1>7, <1>8, <1>9, <1>10 DEF InOrder
<1> QED
  BY <1>4, <1>11

\* A document whose status was changed along with its evidence or its pull request.
LEMMA NewStatus ==
    ASSUME NEW doc \in Run, NEW s
    PROVE  /\ \A x, n : [doc EXCEPT !.status = s, !.site = x, !.pr = n].status = s
           /\ \A n : [doc EXCEPT !.status = s, !.pr = n].status = s
BY DEF Run

\* The status after _fail: a cancelled run stays cancelled.
LEMMA AfterFailure ==
    ASSUME TypeOK, NEW r \in Runs, NEW saved
    PROVE  FailedRun(r, saved).status = IF Status(r) = "cancelled" THEN "cancelled" ELSE "needs_human"
<1>1. runs[r] \in Run
  BY DEF TypeOK
<1> QED
  BY <1>1, NewStatus DEF FailedRun, Status

\* The status after a publication.
LEMMA AfterPublication ==
    ASSUME TypeOK, NEW r \in Runs
    PROVE  Published(r).status = "published"
<1>1. runs[r] \in Run
  BY DEF TypeOK
<1> QED
  BY <1>1, NewStatus DEF Published

\* Without specifications no run needs or has one.
LEMMA NoSpecification ==
    ASSUME Plainly, NEW r
    PROVE  ~NeedsAnalysis(r) /\ ~HasContract(r) /\ StartPhase(r) = "plan"
BY DEF Plainly, NeedsAnalysis, HasContract, StartPhase

\* Every step of a worker between the first and the last.
LEMMA WorkerKeepsOrder ==
    ASSUME RoundInv, Plainly, \A r \in Runs : InOrder(r),
           NEW w \in workers, WorkerStep(w), ~FinishJob(w)
    PROVE  (\A r \in Runs : InOrder(r)') /\ UNCHANGED <<mode, crashes, lock>>
<1> DEFINE s == Status(w.run)
           t == Status(w.run)'
           Quiet == UNCHANGED <<jobs, starting, publishing, lock, mode, crashes>>
           Others == \A r \in Runs : r # w.run => Status(r)' = Status(r)
           Goes(pc) == /\ (w.phase = "plan" /\ pc \in PlanPC) \/ (w.phase = "execute" /\ pc \in ExecutePC)
                       /\ Fits(w.phase, pc, t)
                       /\ pc # "start"
                       /\ t \notin {"received", "queued", "requirement_analysis",
                                    "awaiting_spec_confirmation"}
                       /\ t = "publishing" => pc = "publishing" \/ (s = "publishing" /\ w.pc # "publishing")
           Goal == (\A r \in Runs : InOrder(r)') /\ UNCHANGED <<mode, crashes, lock>>
<1>1. w.run \in Runs /\ w.phase \in Phases /\ w.judged \in SUBSET Followups /\ TypeOK
      /\ runs[w.run] \in Run
  BY DEF RoundInv, TypeOK, Worker
<1>2. Placed(w)
  BY <1>1 DEF InOrder
<1>3. PlanPC \subseteq WorkerPC /\ ExecutePC \subseteq WorkerPC
  BY DEF PlanPC, ExecutePC, WorkerPC
<1>4. ASSUME Quiet, Others, w.pc # "ending", NEW pc, NEW judged \in SUBSET Followups,
             workers' = (workers \ {w}) \cup {[w EXCEPT !.pc = pc, !.judged = judged]}, Goes(pc)
      PROVE  Goal
  BY <1>3, <1>4, WorkerMoves
<1>5. \A pc : [w EXCEPT !.pc = pc] = [w EXCEPT !.pc = pc, !.judged = w.judged]
  BY DEF RoundInv, TypeOK, Worker
<1>6. ASSUME Quiet, Others, w.pc # "ending", NEW pc, Step(w, pc), Goes(pc)
      PROVE  Goal
  <2>1. workers' = (workers \ {w}) \cup {[w EXCEPT !.pc = pc, !.judged = w.judged]}
    BY <1>5, <1>6 DEF Step
  <2> HIDE DEF Goal, Goes, Quiet, Others
  <2> QED
    BY <1>1, <1>4, <1>6, <2>1
<1>7. UNCHANGED runs => t = s /\ Others
  BY DEF Status
<1>8. \A x : SetStatus(w.run, x) => t = x /\ Others
  BY <1>1, StatusAfter
<1>9. \A doc : Update(w.run, doc) => t = doc.status /\ Others
  BY <1>1, StatusAfter
<1>10. ~NeedsAnalysis(w.run) /\ ~HasContract(w.run) /\ w.run \notin Autonomous
  BY NoSpecification DEF Plainly
<1> SUFFICES Goal
  OBVIOUS
<1> HIDE DEF Goal, Quiet, Others, s, t
<1> USE <1>2 DEF Goes, Placed, Fits, Over, PlanPC, ExecutePC
<1>11. s = Status(w.run)
  BY DEF s
<1> USE <1>11
<1>12. CASE AnalyzeStart(w)
  BY <1>10, <1>12 DEF AnalyzeStart
<1>13. CASE AnalyzeError(w)
  BY <1>13 DEF AnalyzeError
<1>14. CASE FinishAnalysis(w)
  BY <1>14 DEF FinishAnalysis
<1>15. CASE AutoConfirm(w)
  BY <1>15 DEF AutoConfirm
<1>16. CASE PlanStart(w)
  <2>1. Quiet /\ w.pc = "start" /\ w.phase = "plan"
    BY <1>16 DEF PlanStart, Quiet
  <2>2. CASE s = "received"
    <3>1. t = "planning" /\ Others /\ Step(w, "planning")
      BY <1>8, <1>16, <2>2 DEF PlanStart
    <3>2. Goes("planning")
      BY <2>1, <3>1
    <3> QED
      BY <1>6, <2>1, <3>1, <3>2
  <2>3. CASE s # "received"
    <3>1. t = s /\ Others /\ Step(w, "conflict")
      BY <1>7, <1>16, <2>3 DEF PlanStart
    <3> QED
      BY <1>6, <2>1, <2>3, <3>1 DEF ExpectedStatus
  <2> QED
    BY <2>2, <2>3
<1>17. CASE PlanDone(w)
  <2>1. Quiet /\ w.pc = "planning" /\ w.phase = "plan"
    BY <1>17 DEF PlanDone, Quiet
  <2>2. CASE s = "planning"
    <3>1. PICK o \in {"needs_clarification", "awaiting_approval"} :
             /\ Update(w.run, [runs[w.run] EXCEPT !.status = o, !.plan = TRUE, !.revision = @ + 1])
             /\ Step(w, "ending")
      BY <1>10, <1>17, <2>2 DEF PlanDone, TriageOutcomes
    <3>2. t = o /\ Others
      <4> DEFINE doc == [runs[w.run] EXCEPT !.status = o, !.plan = TRUE, !.revision = @ + 1]
      <4>1. doc.status = o
        BY <1>1 DEF Run
      <4>2. Update(w.run, doc)
        BY <3>1
      <4> HIDE DEF doc
      <4> QED
        BY <1>9, <4>1, <4>2
    <3> QED
      BY <1>6, <2>1, <3>1, <3>2
  <2>3. CASE s # "planning"
    <3>1. t = s /\ Others /\ Step(w, "conflict")
      BY <1>7, <1>17, <2>3 DEF PlanDone
    <3> QED
      BY <1>6, <2>1, <2>3, <3>1
  <2> QED
    BY <2>2, <2>3
<1>18. CASE PlanError(w)
  <2>1. Quiet /\ w.pc = "planning" /\ w.phase = "plan" /\ t = s /\ Others /\ Step(w, "failing")
    BY <1>7, <1>18 DEF PlanError, Quiet, db
  <2> QED
    BY <1>6, <2>1
<1>19. CASE AutoApprove(w)
  BY <1>19 DEF AutoApprove
<1>20. CASE PlanConflict(w)
  <2>1. Quiet /\ w.pc = "conflict" /\ w.phase = "plan" /\ t = s /\ Others
    BY <1>7, <1>20 DEF PlanConflict, Quiet, db
  <2>2. CASE s = "planning"
    <3>1. Step(w, "failing")
      BY <1>20, <2>2 DEF PlanConflict
    <3> QED
      BY <1>6, <2>1, <2>2, <3>1
  <2>3. CASE s # "planning"
    <3>1. Step(w, "ending") /\ s \in Over
      BY <1>20, <2>1, <2>3 DEF PlanConflict
    <3> QED
      BY <1>6, <2>1, <3>1
  <2> QED
    BY <2>2, <2>3

<1>21. CASE RunStart(w)
  <2>1. Quiet /\ w.pc = "start" /\ w.phase = "execute" /\ notes[w.run].applied \in SUBSET Followups
    BY <1>1, <1>21 DEF RunStart, Quiet, TypeOK, Notes
  <2>2. CASE s = "queued"
    <3>1. t = "running" /\ Others
          /\ workers' = (workers \ {w}) \cup
               {[w EXCEPT !.pc = Entered(w.run), !.judged = notes[w.run].applied]}
      BY <1>8, <1>21, <2>2 DEF RunStart
    <3>2. Entered(w.run) \in {"running", "error"}
      BY DEF Entered
    <3> QED
      BY <1>4, <2>1, <3>1, <3>2
  <2>3. CASE s # "queued"
    <3>1. t = s /\ Others /\ Step(w, "conflict")
      BY <1>7, <1>21, <2>3 DEF RunStart
    <3> QED
      BY <1>6, <2>1, <2>3, <3>1 DEF ExpectedStatus
  <2> QED
    BY <2>2, <2>3
<1>22. CASE BeginFinalization(w)
  <2>1. Quiet /\ w.pc = "running" /\ t = s /\ Others
        /\ (Step(w, "error") \/ Step(w, "finalizing"))
    BY <1>7, <1>22 DEF BeginFinalization, Quiet, db
  <2> QED
    BY <1>6, <2>1
<1>23. CASE Executed(w)
  <2>1. Quiet /\ w.pc \in {"running", "finalizing"} /\ t = s /\ Others /\ Step(w, "reviewing")
    BY <1>7, <1>23 DEF Executed, Quiet, db
  <2> QED
    BY <1>6, <2>1
<1>24. CASE RunError(w)
  <2>1. Quiet /\ w.pc \in {"running", "finalizing", "reviewing"} /\ t = s /\ Others
        /\ (Step(w, "error") \/ Step(w, "conflict"))
    BY <1>7, <1>24 DEF RunError, Quiet, db
  <2> QED
    BY <1>6, <2>1
<1>25. CASE Land(w)
  <2>1. Quiet /\ w.pc = "reviewing"
    BY <1>25 DEF Land, Quiet
  <2>2. CASE VerdictStale(w) \/ s # "running"
    <3>1. t = s /\ Others /\ Step(w, "refused")
      BY <1>7, <1>25, <2>2 DEF Land
    <3> QED
      BY <1>6, <2>1, <3>1
  <2>3. CASE ~(VerdictStale(w) \/ s # "running")
    <3>1. /\ Update(w.run, [runs[w.run] EXCEPT !.status = "ready_for_review", !.site = TRUE, !.pr = FALSE])
          /\ Step(w, "landed")
      BY <1>25, <2>3 DEF Land
    <3>2. t = "ready_for_review" /\ Others
      <4> DEFINE doc == [runs[w.run] EXCEPT !.status = "ready_for_review", !.site = TRUE, !.pr = FALSE]
      <4>1. doc.status = "ready_for_review"
        BY <1>1 DEF Run
      <4>2. Update(w.run, doc)
        BY <3>1
      <4> HIDE DEF doc
      <4> QED
        BY <1>9, <4>1, <4>2
    <3> QED
      BY <1>6, <2>1, <3>1, <3>2
  <2> QED
    BY <2>2, <2>3
<1>26. CASE CollectRelease(w)
  <2>1. Quiet /\ w.pc = "landed" /\ (Step(w, "error") \/ Step(w, "collected"))
    BY <1>26 DEF CollectRelease, Quiet
  <2>2. t = s /\ Others
    <3> DEFINE doc == [runs[w.run] EXCEPT !.pr = FALSE]
    <3>1. doc.status = s
      BY <1>1 DEF Run, Status
    <3>2. UNCHANGED runs \/ Update(w.run, doc)
      BY <1>26 DEF CollectRelease
    <3> HIDE DEF doc
    <3> QED
      BY <1>7, <1>9, <3>1, <3>2
  <2> QED
    BY <1>6, <2>1, <2>2
<1>27. CASE AfterLanding(w)
  <2>1. Quiet /\ w.pc \in {"collected", "landed"}
    BY <1>27 DEF AfterLanding, Quiet
  <2>2. CASE (Step(w, "ending") \/ Step(w, "conflict")) /\ UNCHANGED runs
    BY <1>6, <1>7, <2>1, <2>2
  <2>3. CASE SetStatus(w.run, "publishing") /\ Step(w, "publishing")
    BY <1>6, <1>8, <2>1, <2>3
  <2> QED
    BY <1>27, <2>2, <2>3 DEF AfterLanding
<1>28. CASE WorkerPublished(w)
  <2>1. Quiet /\ w.pc = "publishing"
    BY <1>28 DEF WorkerPublished, Quiet
  <2>2. CASE s # "publishing"
    <3>1. t = s /\ Others /\ Step(w, "conflict")
      BY <1>7, <1>28, <2>2 DEF WorkerPublished
    <3> QED
      BY <1>6, <2>1, <2>2, <3>1
  <2>3. CASE s = "publishing"
    <3>1. \/ t = "published" /\ Others /\ Step(w, "ending")
          \/ t = "ready_for_review" /\ Others /\ Step(w, "error")
      BY <1>1, <1>8, <1>9, <1>28, <2>3, AfterPublication DEF WorkerPublished
    <3> QED
      BY <1>6, <2>1, <3>1
  <2> QED
    BY <2>2, <2>3
<1>29. CASE RunConflict(w)
  <2>1. Quiet /\ w.pc \in {"conflict", "refused"} /\ w.phase = "execute" /\ t = s /\ Others
    BY <1>7, <1>29 DEF RunConflict, Quiet, db
  <2>2. CASE s # "running"
    <3>1. Step(w, "ending")
      BY <1>29, <2>2 DEF RunConflict
    <3> QED
      BY <1>6, <2>1, <2>2, <3>1
  <2>3. CASE s = "running"
    <3>1. Step(w, "returning") \/ Step(w, "failing")
      BY <1>29, <2>3 DEF RunConflict
    <3> QED
      BY <1>6, <2>1, <2>3, <3>1
  <2> QED
    BY <2>2, <2>3
<1>30. CASE RunErrorHandler(w)
  <2>1. Quiet /\ w.pc = "error" /\ t = s /\ Others
    BY <1>7, <1>30 DEF RunErrorHandler, Quiet, db
  <2>2. \/ Step(w, "ending") /\ s = "ready_for_review"
        \/ Step(w, "failing") \/ Step(w, "saving")
    BY <1>30 DEF RunErrorHandler
  <2> QED
    BY <1>6, <2>1, <2>2
<1>31. CASE WorkerFail(w)
  <2>1. Quiet /\ w.pc \in {"failing", "returning", "saving"} /\ Step(w, "ending")
    BY <1>31 DEF WorkerFail, Quiet
  <2>2. t \in {"cancelled", "needs_human"} /\ Others
    BY <1>1, <1>9, <1>31, AfterFailure DEF WorkerFail
  <2> QED
    BY <1>6, <2>1, <2>2
<1> QED
  BY <1>12, <1>13, <1>14, <1>15, <1>16, <1>17, <1>18, <1>19, <1>20, <1>21, <1>22, <1>23,
     <1>24, <1>25, <1>26, <1>27, <1>28, <1>29, <1>30, <1>31 DEF WorkerStep

\* The end of a round leaves what is coming, and nobody relied on its worker.
LEMMA FinishKeepsOrder ==
    ASSUME RoundInv, \A r \in Runs : InOrder(r), NEW w \in workers, FinishJob(w)
    PROVE  \A r \in Runs : InOrder(r)'
<1> DEFINE r == w.run
<1>1. r \in Runs /\ w.phase \in Phases /\ w.pc = "ending" /\ workers' = workers \ {w}
      /\ jobs[r] \in [Phases -> Job]
  BY DEF RoundInv, TypeOK, Worker, FinishJob
<1>2. /\ \A x \in Runs : x # r => jobs'[x] = jobs[x]
      /\ \A p \in Phases : p # w.phase => jobs'[r][p] = jobs[r][p]
      /\ jobs'[r][w.phase] = Finished(jobs[r][w.phase], w.gen)
  BY <1>1 DEF FinishJob, RoundInv, TypeOK
<1>3. UNCHANGED <<runs, starting, lock, publishing>>
  BY DEF FinishJob
<1>4. \A u \in workers : u.run = r => u = w
  BY DEF RoundInv, OneRoundPerRun
<1>5. ASSUME NEW x \in Runs, x # r PROVE InOrder(x)'
  BY <1>1, <1>2, <1>3, <1>5, ElsewhereKeeps DEF Elsewhere, Status
<1>6. \/ jobs[r][w.phase].state = "running" /\ jobs[r][w.phase].gen = w.gen
      \/ jobs[r][w.phase].state = "pending"
  BY DEF RoundInv, OneRoundPerRun
<1>7. /\ jobs'[r][w.phase].state # "running"
      /\ jobs'[r][w.phase].state = "pending" <=> jobs[r][w.phase].state = "pending"
  <2>1. jobs[r][w.phase] \in Job
    BY <1>1
  <2> QED
    BY <1>2, <1>6, <2>1 DEF Finished, Job
<1>8. InOrder(r)
  BY <1>1
<1>9. \A k, p : p \in Phases => (Way(r, k, p)' <=> Way(r, k, p))
  BY <1>1, <1>2, <1>3, <1>7 DEF Way
<1>10. OneWay(r)'
  BY <1>8, <1>9 DEF InOrder, OneWay
<1>11. Expected(r)'
  BY <1>1, <1>3, <1>8, <1>9 DEF InOrder, Expected, Status
<1>12. RowsOwned(r)'
  <2> SUFFICES ASSUME NEW p \in Phases, jobs'[r][p].state = "running"
               PROVE  FALSE
    BY DEF RowsOwned
  <2>1. p # w.phase /\ jobs[r][p].state = "running"
    BY <1>2, <1>7
  <2> QED
    BY <1>4, <1>8, <2>1 DEF InOrder, RowsOwned
<1>13. Placed(w)
  BY <1>8 DEF InOrder
<1>14. Served(r)'
  <2>1. Status(r)' = Status(r) /\ Status(r) \notin {"planning", "running"}
    BY <1>1, <1>3, <1>13 DEF Placed, Fits, Over, Status
  <2>2. ~(\E u \in workers : u.run = r /\ u.pc = "publishing")
    BY <1>1, <1>4
  <2> QED
    BY <1>3, <1>8, <1>9, <2>1, <2>2 DEF InOrder, Served, Phases
<1>15. \A u \in workers' : u.run # r
  BY <1>1, <1>4
<1>16. InOrder(r)'
  BY <1>10, <1>11, <1>12, <1>14, <1>15 DEF InOrder
<1> QED
  BY <1>5, <1>16

\* Nothing comes to a run that expects nothing.
LEMMA NoWay ==
    ASSUME NEW r \in Runs, InOrder(r), Status(r) \notin {"received", "queued"} \cup Over,
           NEW k \in Ways, NEW p \in Phases
    PROVE  ~Way(r, k, p)
BY DEF InOrder, Expected, ExpectedStatus

\* A cancellation or a discarding.
LEMMA RunEnds ==
    ASSUME NEW r \in Runs, \A x \in Runs : InOrder(x), lock = {},
           \A x \in Runs : x # r => Status(x)' = Status(x),
           Status(r)' \in Over,
           UNCHANGED <<jobs, workers, starting, lock, publishing>>
    PROVE  \A x \in Runs : InOrder(x)'
<1>1. ASSUME NEW x \in Runs, x # r PROVE InOrder(x)'
  BY <1>1, ElsewhereKeeps DEF Elsewhere
<1>2. InOrder(r)
  OBVIOUS
<1>3. \A k, p : Way(r, k, p)' <=> Way(r, k, p)
  BY DEF Way
<1>4. ~(\E p : Way(r, "lock", p))
  BY DEF Way
<1>5. OneWay(r)' /\ RowsOwned(r)'
  BY <1>2, <1>3 DEF InOrder, OneWay, RowsOwned
<1>6. Expected(r)'
  BY <1>2, <1>3, <1>4 DEF InOrder, Expected
<1>7. Served(r)'
  BY DEF Served, Over
<1>8. \A w \in workers' : w.run = r => Placed(w)'
  BY <1>2 DEF InOrder, Placed, Fits
<1>9. InOrder(r)'
  BY <1>5, <1>6, <1>7, <1>8 DEF InOrder
<1> QED
  BY <1>1, <1>9

\* A publication begins or ends, at a delivered run.
LEMMA PublicationMoves ==
    ASSUME NEW r \in Runs, \A x \in Runs : InOrder(x),
           \A x \in Runs : x # r => Status(x)' = Status(x) /\ (x \in publishing' <=> x \in publishing),
           \/ /\ Status(r) \in {"ready_for_review", "publishing"}
              /\ Status(r)' \in {"ready_for_review", "publishing", "published"}
           \/ Status(r)' = Status(r),
           Status(r)' = "publishing" => r \in publishing',
           UNCHANGED <<jobs, workers, starting, lock>>
    PROVE  \A x \in Runs : InOrder(x)'
<1>1. ASSUME NEW x \in Runs, x # r PROVE InOrder(x)'
  BY <1>1, ElsewhereKeeps DEF Elsewhere
<1>2. InOrder(r)
  OBVIOUS
<1>3. \A k, p : Way(r, k, p)' <=> Way(r, k, p)
  BY DEF Way
<1>4. OneWay(r)' /\ RowsOwned(r)'
  BY <1>2, <1>3 DEF InOrder, OneWay, RowsOwned
<1>5. Expected(r)'
  BY <1>2, <1>3, NoWay DEF InOrder, Expected, Over
<1>6. Served(r)'
  BY <1>2, <1>3 DEF InOrder, Served, Phases
<1>7. \A w \in workers' : w.run = r => Placed(w)'
  <2> SUFFICES ASSUME NEW w \in workers, w.run = r, Placed(w) PROVE Placed(w)'
    BY <1>2 DEF InOrder
  <2> QED
    BY DEF Placed, Fits, Over, ExpectedStatus
<1>8. InOrder(r)'
  BY <1>4, <1>5, <1>6, <1>7 DEF InOrder
<1> QED
  BY <1>1, <1>8

\* A request is accepted: its round will come from the thread or from the lock holder.
LEMMA RoundOpens ==
    ASSUME NEW r \in Runs, \A x \in Runs : InOrder(x),
           NEW p \in {"plan", "execute"}, NEW k \in {"starting", "lock"},
           Status(r) \in {"absent", "needs_clarification", "awaiting_approval", "needs_human"},
           Status(r)' = ExpectedStatus(p),
           p = "execute" => Status(r) = "awaiting_approval" \/ \A w \in workers : w.run # r,
           \A x \in Runs : x # r => Status(x)' = Status(x),
           k = "starting" => starting' = starting \cup {<<r, p>>} /\ lock' = lock,
           k = "lock" => /\ starting' = starting /\ lock = {}
                         /\ \E h : lock' = {h} /\ h.run = r /\ h.phase = p,
           UNCHANGED <<jobs, workers, publishing>>
    PROVE  \A x \in Runs : InOrder(x)'
<1>1. ASSUME NEW x \in Runs, x # r PROVE InOrder(x)'
  <2>1. \A q : <<x, q>> # <<r, p>>
    BY <1>1
  <2> QED
    BY <1>1, <2>1, ElsewhereKeeps DEF Elsewhere
<1>2. InOrder(r)
  OBVIOUS
<1>3. \A l \in Ways, q \in Phases : ~Way(r, l, q)
  BY <1>2, NoWay DEF Over
<1>4. p \in Phases /\ k \in Ways
  BY DEF Phases, Ways
<1>5. \A l \in Ways, q \in Phases : Way(r, l, q)' => l = k /\ q = p
  BY <1>3 DEF Way, Ways
<1>6. Way(r, k, p)'
  BY DEF Way
<1>7. OneWay(r)'
  BY <1>5 DEF OneWay
<1>8. \A w \in workers : w.run = r => w.pc = "ending" /\ Placed(w)
  BY <1>2 DEF InOrder, Placed, Fits, Over, ExpectedStatus
<1>9. Expected(r)'
  BY <1>5, <1>8 DEF Expected
<1>10. RowsOwned(r)'
  BY <1>2 DEF InOrder, RowsOwned
<1>11. Served(r)'
  BY <1>4, <1>6 DEF Served, ExpectedStatus
<1>12. \A w \in workers' : w.run = r => Placed(w)'
  <2> SUFFICES ASSUME NEW w \in workers, w.run = r PROVE Placed(w)'
    OBVIOUS
  <2>1. w.pc = "ending" /\ Placed(w)
    BY <1>8
  <2>2. Fits(w.phase, w.pc, Status(r)')
    BY <2>1 DEF Placed, Fits, Over, ExpectedStatus
  <2> QED
    BY <2>1, <2>2 DEF Placed
<1>13. InOrder(r)'
  BY <1>7, <1>9, <1>10, <1>11, <1>12 DEF InOrder
<1> QED
  BY <1>1, <1>13

\* enqueue in a row: it waits, unless a round is running that may not be continued.
LEMMA EnqueuedIs ==
    ASSUME NEW row \in Job, NEW c \in BOOLEAN
    PROVE  /\ Enqueued(row, c).state = "running" => row.state = "running"
           /\ row.state # "running" => Enqueued(row, c).state = "pending"
           /\ Enqueued(row, c).state \in {row.state, "pending"}
BY DEF Enqueued, EnqueueRefused, Job

\* A continuing enqueue always leaves the row waiting.
LEMMA ContinuedIs ==
    ASSUME NEW row \in Job, NEW c, c
    PROVE  Enqueued(row, c).state = "pending"
BY DEF Enqueued, EnqueueRefused, Job

\* _submit changes one row of one run, by enqueue.
LEMMA SubmittedIs ==
    ASSUME TypeOK, NEW r \in Runs, NEW p \in Phases
    PROVE  /\ \A x \in Runs : x # r => Submitted(r, p)[x] = jobs[x]
           /\ \A q \in Phases : q # p => Submitted(r, p)[r][q] = jobs[r][q]
           /\ Submitted(r, p)[r][p] = Enqueued(jobs[r][p], p = "plan" /\ Status(r) = "received")
           /\ jobs[r][p] \in Job
<1>1. jobs \in [Runs -> [Phases -> Job]]
  BY DEF TypeOK
<1> QED
  BY <1>1 DEF Submitted

\* A round that was coming is now in its row, if its run still expects it.
LEMMA RoundQueued ==
    ASSUME TypeOK, NEW r \in Runs, NEW p \in Phases, \A x \in Runs : InOrder(x),
           NEW k \in {"starting", "lock"}, Way(r, k, p),
           jobs' = Submitted(r, p),
           k = "starting" => starting' = starting \ {<<r, p>>} /\ lock' = lock,
           k = "lock" => starting' = starting /\ lock' = {} /\ \A h \in lock : h.run = r,
           UNCHANGED <<runs, workers, publishing>>
    PROVE  \A x \in Runs : InOrder(x)'
<1>1. ASSUME NEW x \in Runs, x # r PROVE InOrder(x)'
  <2>1. jobs'[x] = jobs[x]
    BY <1>1, SubmittedIs
  <2>2. \A q : <<x, q>> # <<r, p>>
    BY <1>1
  <2> QED
    BY <1>1, <2>1, <2>2, ElsewhereKeeps DEF Elsewhere, Status
<1>2. InOrder(r) /\ k \in Ways /\ k # "row" /\ k # "worker"
  BY DEF Ways
<1>3. \A l \in Ways, q \in Phases : Way(r, l, q) => l = k /\ q = p
  BY <1>2 DEF InOrder, OneWay
<1>4. /\ p # "requirement_analysis" /\ Status(r) \in {ExpectedStatus(p)} \cup Over
      /\ \A w \in workers : w.run = r => w.pc \in {"start", "ending"}
  BY <1>2 DEF InOrder, Expected
<1> DEFINE c == p = "plan" /\ Status(r) = "received"
<1>5. /\ \A q \in Phases : q # p => jobs'[r][q] = jobs[r][q]
      /\ jobs'[r][p] = Enqueued(jobs[r][p], c) /\ jobs[r][p] \in Job /\ c \in BOOLEAN
  BY SubmittedIs
<1> HIDE DEF c
<1>6. \A q \in Phases : jobs[r][q].state # "pending"
  BY <1>2, <1>3 DEF Way, Ways
<1>7. \A w \in workers : w.run = r => w.pc = "ending"
  <2> SUFFICES ASSUME NEW w \in workers, w.run = r, w.pc = "start" PROVE FALSE
    BY <1>4
  <2>1. Placed(w)
    BY <1>2 DEF InOrder
  <2>2. w.phase \in Phases
    BY <2>1 DEF Placed, Phases
  <2>3. Way(r, "worker", w.phase) /\ "worker" \in Ways
    BY DEF Way, Ways
  <2> QED
    BY <1>2, <1>3, <2>2, <2>3
<1>8. \A l \in Ways, q \in Phases : Way(r, l, q)' => l = "row" /\ q = p
  <2> SUFFICES ASSUME NEW l \in Ways, NEW q \in Phases, Way(r, l, q)' PROVE l = "row" /\ q = p
    OBVIOUS
  <2>1. CASE l = "row"
    BY <1>5, <1>6, <2>1 DEF Way
  <2>2. CASE l # "row"
    <3>1. Way(r, l, q)
      BY <2>2 DEF Way
    <3>2. l = k /\ q = p
      BY <1>3, <3>1
    <3> QED
      BY <3>2 DEF Way
  <2> QED
    BY <2>1, <2>2
<1>9. Status(r) = ExpectedStatus(p) => Way(r, "row", p)'
  <2> SUFFICES ASSUME Status(r) = ExpectedStatus(p) PROVE jobs'[r][p].state = "pending"
    BY DEF Way
  <2>1. CASE p = "plan"
    <3>1. c
      BY <2>1 DEF c, ExpectedStatus
    <3>2. Enqueued(jobs[r][p], c).state = "pending"
      BY <1>5, <3>1, ContinuedIs
    <3> QED
      BY <1>5, <3>2
  <2>2. CASE p = "execute"
    <3>1. ASSUME jobs[r][p].state = "running" PROVE FALSE
      <4>1. PICK w \in workers : w.run = r /\ w.phase = p
        BY <1>2, <3>1 DEF InOrder, RowsOwned
      <4>2. Placed(w) /\ w.pc = "ending" /\ Status(r) = "queued"
        BY <1>2, <1>7, <2>2, <4>1 DEF InOrder, ExpectedStatus
      <4> QED
        BY <2>2, <4>1, <4>2 DEF Placed, Fits, Over
    <3> QED
      BY <1>5, <3>1, EnqueuedIs
  <2> QED
    BY <1>4, <2>1, <2>2 DEF Phases
<1>10. Status(r)' = Status(r)
  BY DEF Status
<1>11. OneWay(r)'
  BY <1>8 DEF OneWay
<1>12. Expected(r)'
  <2>1. \A w \in workers' : w.run = r => w.pc \in {"start", "ending"}
    BY <1>7
  <2> QED
    BY <1>4, <1>8, <1>10, <2>1 DEF Expected
<1>13. RowsOwned(r)'
  <2>1. \A q \in Phases : jobs'[r][q].state = "running" => jobs[r][q].state = "running"
    BY <1>5, EnqueuedIs
  <2> QED
    BY <1>2, <2>1 DEF InOrder, RowsOwned
<1>14. Served(r)'
  <2>1. /\ Status(r) = "received" => p = "plan"
        /\ Status(r) = "queued" => p = "execute"
    BY <1>4 DEF ExpectedStatus, Over, Phases
  <2>2. "row" \in Ways
    BY DEF Ways
  <2>3. /\ Status(r) = "received" => Way(r, "row", "plan")'
        /\ Status(r) = "queued" => Way(r, "row", "execute")'
    BY <1>9, <2>1 DEF ExpectedStatus
  <2> QED
    BY <1>2, <1>10, <2>2, <2>3 DEF InOrder, Served
<1>15. \A w \in workers' : w.run = r => Placed(w)'
  BY <1>2, <1>10 DEF InOrder, Placed
<1>16. InOrder(r)'
  BY <1>11, <1>12, <1>13, <1>14, <1>15 DEF InOrder
<1> QED
  BY <1>1, <1>16

\* start_plan and _submit, by a thread without the lock.
LEMMA StartKeepsOrder ==
    ASSUME TypeOK, \A x \in Runs : InOrder(x), NEW r \in Runs, NEW p \in Phases, StartPlan(r, p)
    PROVE  \A x \in Runs : InOrder(x)'
<1>1. Way(r, "starting", p) /\ "starting" \in Ways /\ InOrder(r)
  BY DEF StartPlan, Way, Ways
<1>2. CASE ~(p = "plan" /\ Status(r) # "received")
  <2>1. /\ jobs' = Submitted(r, p) /\ starting' = starting \ {<<r, p>>}
        /\ UNCHANGED <<runs, lock, workers, publishing>>
    BY <1>2 DEF StartPlan
  <2> QED
    BY <1>1, <2>1, RoundQueued
<1>3. CASE p = "plan" /\ Status(r) # "received"
  <2>1. /\ Update(r, FailedRun(r, FALSE)) /\ starting' = starting \ {<<r, p>>}
        /\ UNCHANGED <<jobs, lock, workers, publishing>>
    BY <1>3 DEF StartPlan
  <2>2. /\ Status(r)' \in {"cancelled", "needs_human"}
        /\ \A x \in Runs : x # r => Status(x)' = Status(x)
    BY <2>1, StatusAfter, AfterFailure
  <2>3. ASSUME NEW x \in Runs, x # r PROVE InOrder(x)'
    <3>1. \A q : <<x, q>> # <<r, p>>
      BY <2>3
    <3> QED
      BY <2>1, <2>2, <2>3, <3>1, ElsewhereKeeps DEF Elsewhere
  <2>4. \A l \in Ways, q \in Phases : Way(r, l, q) => l = "starting" /\ q = p
    BY <1>1 DEF InOrder, OneWay
  <2>5. \A l \in Ways, q \in Phases : ~Way(r, l, q)'
    BY <2>1, <2>4 DEF Way
  <2>6. \A w \in workers : w.run = r => w.pc = "ending"
    <3> SUFFICES ASSUME NEW w \in workers, w.run = r, w.pc # "ending" PROVE FALSE
      OBVIOUS
    <3>1. w.pc = "start"
      BY <1>1 DEF InOrder, Expected
    <3>2. w.phase \in Phases
      BY <1>1 DEF InOrder, Placed, Phases
    <3>3. Way(r, "worker", w.phase) /\ "worker" \in Ways
      BY <3>1 DEF Way, Ways
    <3> QED
      BY <2>4, <3>2, <3>3
  <2>7. \A w \in workers' : w.run = r => Placed(w)'
    <3> SUFFICES ASSUME NEW w \in workers, w.run = r PROVE Placed(w)'
      BY <2>1
    <3>1. Placed(w) /\ w.pc = "ending"
      BY <1>1, <2>6 DEF InOrder
    <3> QED
      BY <2>2, <3>1 DEF Placed, Fits, Over
  <2>8. OneWay(r)' /\ Expected(r)'
    BY <2>5 DEF OneWay, Expected
  <2>9. RowsOwned(r)' /\ Served(r)'
    BY <1>1, <2>1, <2>2 DEF InOrder, RowsOwned, Served
  <2>10. InOrder(r)'
    BY <2>7, <2>8, <2>9 DEF InOrder
  <2> QED
    BY <2>3, <2>10
<1> QED
  BY <1>2, <1>3

\* The dispatcher claims the round of a run that expects it, or clears the rows of one
\* that a user ended meanwhile: no other round can be lost with them.
LEMMA DispatchKeepsOrder ==
    ASSUME RoundInv, \A x \in Runs : InOrder(x), NEW r \in Runs, NEW p \in Phases, Dispatch(r, p)
    PROVE  \A x \in Runs : InOrder(x)'
<1>1. /\ jobs \in [Runs -> [Phases -> Job]] /\ active[r] = "none" /\ jobs[r][p].state = "pending"
      /\ UNCHANGED <<runs, lock, starting, publishing>>
  BY DEF Dispatch, RoundInv, TypeOK, SlotFree, Claimable
<1>2. Way(r, "row", p) /\ "row" \in Ways /\ InOrder(r) /\ \A x \in Runs : Status(x)' = Status(x)
  BY <1>1 DEF Way, Ways, Status
<1>3. \A l \in Ways, q \in Phases : Way(r, l, q) => l = "row" /\ q = p
  BY <1>2 DEF InOrder, OneWay
<1>4. p # "requirement_analysis" /\ Status(r) \in {ExpectedStatus(p)} \cup Over
  BY <1>2 DEF InOrder, Expected
<1>5. \A w \in workers : w.run # r
  BY <1>1 DEF RoundInv, OneRoundPerRun
<1>6. \A q \in Phases : jobs[r][q].state # "running"
  BY <1>2, <1>5 DEF InOrder, RowsOwned
<1>7. \A q \in Phases : q # p => jobs[r][q].state # "pending"
  BY <1>2, <1>3 DEF Way
<1>8. CASE Status(r) # ExpectedStatus(p)
  <2>1. jobs' = [jobs EXCEPT ![r] = ResetRows(jobs[r])] /\ workers' = workers
    BY <1>8 DEF Dispatch
  <2>2. /\ \A x \in Runs : x # r => jobs'[x] = jobs[x]
        /\ jobs'[r] = ResetRows(jobs[r])
    BY <1>1, <2>1
  <2>3. \A q \in Phases : jobs'[r][q].state \in {"none", "done"}
    <3>1. \A q \in Phases : jobs[r][q] \in Job
      BY <1>1
    <3> QED
      BY <2>2, <3>1 DEF ResetRows, Job
  <2>4. ASSUME NEW x \in Runs, x # r PROVE InOrder(x)'
    BY <1>1, <1>2, <2>1, <2>2, <2>4, ElsewhereKeeps DEF Elsewhere
  <2>5. \A l \in Ways, q \in Phases : ~Way(r, l, q)'
    <3> SUFFICES ASSUME NEW l \in Ways, NEW q \in Phases, Way(r, l, q)' PROVE FALSE
      OBVIOUS
    <3>1. l # "row"
      BY <2>3 DEF Way
    <3>2. Way(r, l, q)
      BY <1>1, <2>1, <3>1 DEF Way
    <3> QED
      BY <1>3, <3>1, <3>2
  <2>6. OneWay(r)' /\ Expected(r)'
    BY <2>5 DEF OneWay, Expected
  <2>7. RowsOwned(r)'
    BY <2>3 DEF RowsOwned
  <2>8. Served(r)'
    BY <1>2, <1>4, <1>8 DEF Served, Over
  <2>9. \A w \in workers' : w.run # r
    BY <1>5, <2>1
  <2>10. InOrder(r)'
    BY <2>6, <2>7, <2>8, <2>9 DEF InOrder
  <2> QED
    BY <2>4, <2>10
<1>9. CASE Status(r) = ExpectedStatus(p)
  <2> DEFINE new == [run |-> r, phase |-> p, gen |-> jobs[r][p].gen, pc |-> "start", judged |-> {}]
  <2>1. workers' = workers \cup {new} /\ jobs' = [jobs EXCEPT ![r][p] = Claimed(jobs[r][p])]
    BY <1>9 DEF Dispatch
  <2>2. new.run = r /\ new.phase = p /\ new.pc = "start"
    OBVIOUS
  <2> HIDE DEF new
  <2>3. /\ \A x \in Runs : x # r => jobs'[x] = jobs[x]
        /\ \A q \in Phases : q # p => jobs'[r][q] = jobs[r][q]
        /\ jobs'[r][p] = Claimed(jobs[r][p]) /\ jobs[r][p] \in Job
    BY <1>1, <2>1
  <2>4. jobs'[r][p].state = "running"
    BY <2>3 DEF Claimed, Job
  <2>5. ASSUME NEW x \in Runs, x # r PROVE InOrder(x)'
    BY <1>1, <1>2, <2>1, <2>2, <2>3, <2>5, ElsewhereKeeps DEF Elsewhere
  <2>6. \A l \in Ways, q \in Phases : Way(r, l, q)' => l = "worker" /\ q = p
    <3> SUFFICES ASSUME NEW l \in Ways, NEW q \in Phases, Way(r, l, q)'
                 PROVE  l = "worker" /\ q = p
      OBVIOUS
    <3>1. l # "row"
      BY <1>7, <2>3, <2>4 DEF Way
    <3>2. CASE l = "worker"
      BY <1>5, <2>1, <2>2, <3>2 DEF Way
    <3>3. CASE l # "worker"
      <4>1. Way(r, l, q)
        BY <1>1, <3>1, <3>3 DEF Way
      <4> QED
        BY <1>3, <3>1, <4>1
    <3> QED
      BY <3>2, <3>3
  <2>7. Way(r, "worker", p)' /\ "worker" \in Ways
    BY <2>1, <2>2 DEF Way, Ways
  <2>8. \A w \in workers' : w.run = r => w = new
    BY <1>5, <2>1
  <2>9. OneWay(r)' /\ Expected(r)'
    BY <1>2, <1>4, <2>2, <2>6, <2>8 DEF OneWay, Expected
  <2>10. RowsOwned(r)'
    BY <1>6, <2>1, <2>2, <2>3 DEF RowsOwned
  <2>11. Served(r)'
    <3>1. \/ Status(r)' = "received" /\ p = "plan"
          \/ Status(r)' = "queued" /\ p = "execute"
      BY <1>2, <1>4, <1>9 DEF ExpectedStatus, Phases
    <3> QED
      BY <2>7, <3>1 DEF Served
  <2>12. \A w \in workers' : w.run = r => Placed(w)'
    <3>1. new.phase \in {"plan", "execute"}
      BY <1>4, <2>2 DEF Phases
    <3> QED
      BY <1>2, <1>9, <2>2, <2>8, <3>1 DEF Placed, Fits, PlanPC, ExecutePC
  <2>13. InOrder(r)'
    BY <2>9, <2>10, <2>11, <2>12 DEF InOrder
  <2> QED
    BY <2>5, <2>13
<1> QED
  BY <1>8, <1>9

\* A lock holder goes on to its insertion, or makes it.
LEMMA HolderKeepsOrder ==
    ASSUME TypeOK, OwnerInv, MarkApplied \/ Submit
    PROVE  OwnerInv'
<1>1. PICK h \in lock : \A g \in lock : g = h
  BY DEF OwnerInv, Steady, MarkApplied, Submit
<1>2. h.run \in Runs /\ h.phase \in Phases /\ UNCHANGED <<mode, crashes>>
  BY DEF TypeOK, Holder, MarkApplied, Submit
<1>3. CASE MarkApplied
  <2> DEFINE g == [run |-> h.run, step |-> "submit", phase |-> h.phase, marks |-> {}]
  <2>1. lock' = {g} /\ UNCHANGED <<runs, jobs, workers, starting, publishing>>
    BY <1>1, <1>3 DEF MarkApplied, Hold
  <2>2. g.run = h.run /\ g.phase = h.phase /\ g.step = "submit"
    OBVIOUS
  <2> HIDE DEF g
  <2>3. ASSUME NEW x \in Runs PROVE InOrder(x)'
    <3>1. \A k \in Ways, p \in Phases : Way(x, k, p)' <=> Way(x, k, p)
      BY <1>1, <2>1, <2>2 DEF Way
    <3> QED
      BY <2>1, <3>1, SameWays DEF OwnerInv, Status
  <2> QED
    BY <1>2, <2>1, <2>2, <2>3 DEF OwnerInv, Steady
<1>4. CASE Submit
  <2>1. /\ jobs' = Submitted(h.run, h.phase) /\ lock' = {}
        /\ UNCHANGED <<runs, workers, starting, publishing>>
    BY <1>1, <1>4 DEF Submit
  <2>2. Way(h.run, "lock", h.phase) /\ \A g \in lock : g.run = h.run
    BY <1>1 DEF Way
  <2>3. \A x \in Runs : InOrder(x)'
    BY <1>2, <2>1, <2>2, RoundQueued DEF OwnerInv
  <2> QED
    BY <1>2, <2>1, <2>3 DEF OwnerInv, Steady
<1> QED
  BY <1>3, <1>4

\* Requests of users.
LEMMA UserKeepsOrder ==
    ASSUME TypeOK, OwnerInv, RoundInv, Plainly, NEW r \in Runs, UserStep(r) \/ RequestStep(r)
    PROVE  OwnerInv'
<1>1. /\ \A x \in Runs : InOrder(x)
      /\ mode = "up" /\ crashes = 0
      /\ InOrder(r) /\ runs[r] \in Run
  BY DEF OwnerInv, Steady, TypeOK
<1>2. /\ Status(r) \notin {"requirement_analysis", "awaiting_spec_confirmation"}
      /\ ~NeedsAnalysis(r) /\ ~HasContract(r) /\ StartPhase(r) = "plan"
  BY <1>1, NoSpecification DEF InOrder, Served
<1>3. UNCHANGED <<mode, crashes>>
  BY DEF UserStep, RequestStep, NewRun, Confirm, Approve, Clarify, ResumeAnalysis, FollowUp,
         Discard, ContinueBegin, CancelBegin, PublishBegin, TryCancel, CancelCommit, PublishEnd, db
<1>4. ASSUME UNCHANGED lock, \A x \in Runs : InOrder(x)' PROVE OwnerInv'
  BY <1>3, <1>4 DEF OwnerInv, Steady
<1>5. ASSUME lock = {}, NEW step \in {"mark", "submit"}, NEW p \in {"plan", "execute"}, NEW marks,
             Hold(r, step, p, marks),
             Status(r) \in {"needs_clarification", "awaiting_approval", "needs_human"},
             Status(r)' = ExpectedStatus(p), p = "execute" => Status(r) = "awaiting_approval",
             \A x \in Runs : x # r => Status(x)' = Status(x),
             UNCHANGED <<jobs, workers, starting, publishing>>
      PROVE  OwnerInv'
  <2> DEFINE h == [run |-> r, step |-> step, phase |-> p, marks |-> marks]
  <2>1. lock' = {h} /\ h.run = r /\ h.phase = p /\ h.step = step
    BY <1>5 DEF Hold
  <2> HIDE DEF h
  <2>2. \A x \in Runs : InOrder(x)'
    BY <1>1, <1>5, <2>1, RoundOpens
  <2> QED
    BY <1>3, <2>1, <2>2 DEF OwnerInv, Steady
<1>6. CASE NewRun(r)
  <2>1. /\ starting' = starting \cup {<<r, "plan">>} /\ Status(r) = "absent"
        /\ UNCHANGED <<jobs, lock, workers, publishing>>
    BY <1>2, <1>6 DEF NewRun
  <2>2. Status(r)' = ExpectedStatus("plan") /\ \A x \in Runs : x # r => Status(x)' = Status(x)
    BY <1>6, StatusAfter DEF NewRun, ExpectedStatus
  <2>3. \A x \in Runs : InOrder(x)'
    BY <1>1, <2>1, <2>2, RoundOpens
  <2> QED
    BY <1>4, <2>1, <2>3
<1>7. CASE Confirm(r)
  BY <1>2, <1>7 DEF Confirm
<1>8. CASE ResumeAnalysis(r)
  BY <1>2, <1>8 DEF ResumeAnalysis
<1>9. CASE Approve(r)
  <2>1. /\ lock = {} /\ Status(r) = "awaiting_approval" /\ Hold(r, "submit", "execute", {})
        /\ UNCHANGED <<jobs, workers, starting, publishing>>
    BY <1>9 DEF Approve, Locked
  <2>2. Status(r)' = ExpectedStatus("execute") /\ \A x \in Runs : x # r => Status(x)' = Status(x)
    BY <1>9, StatusAfter DEF Approve, ExpectedStatus
  <2> QED
    BY <1>5, <2>1, <2>2
<1>10. CASE Clarify(r)
  <2> DEFINE doc == [runs[r] EXCEPT !.status = "received", !.plan = FALSE, !.site = FALSE,
                                    !.pr = FALSE, !.merged = @ \cup Collected(r)]
  <2>1. /\ lock = {} /\ Status(r) \in {"needs_clarification", "awaiting_approval", "needs_human"}
        /\ Update(r, doc)
        /\ \E step \in {"mark", "submit"} : \E marks : Hold(r, step, "plan", marks)
        /\ UNCHANGED <<jobs, workers, starting, publishing>>
    BY <1>2, <1>10 DEF Clarify, Locked
  <2>2. doc.status = "received"
    BY <1>1 DEF Run
  <2> HIDE DEF doc
  <2>3. Status(r)' = ExpectedStatus("plan") /\ \A x \in Runs : x # r => Status(x)' = Status(x)
    BY <2>1, <2>2, StatusAfter DEF ExpectedStatus
  <2> QED
    BY <1>5, <2>1, <2>3
<1>11. CASE Discard(r) \/ CancelCommit(r)
  <2>1. lock = {} /\ UNCHANGED <<jobs, workers, starting, publishing, lock>>
    BY <1>11 DEF Discard, CancelCommit, Locked
  <2>2. CASE UNCHANGED runs
    <3>1. \A x \in Runs : Elsewhere(x)
      BY <2>1, <2>2 DEF Elsewhere, Status
    <3> QED
      BY <1>1, <1>4, <2>1, <3>1, ElsewhereKeeps
  <2>3. CASE SetStatus(r, "discarded") \/ SetStatus(r, "cancelled")
    <3>1. Status(r)' \in Over /\ \A x \in Runs : x # r => Status(x)' = Status(x)
      BY <2>3, StatusAfter DEF Over
    <3> QED
      BY <1>1, <1>4, <2>1, <3>1, RunEnds
  <2> QED
    BY <1>11, <2>2, <2>3 DEF Discard, CancelCommit
<1>12. CASE PublishBegin(r) \/ PublishEnd(r)
  <2>1. UNCHANGED <<jobs, workers, starting, lock>>
    BY <1>12 DEF PublishBegin, PublishEnd
  <2>2. \A x \in Runs : x # r => (x \in publishing' <=> x \in publishing)
    BY <1>12 DEF PublishBegin, PublishEnd
  <2>3. /\ \A x \in Runs : x # r => Status(x)' = Status(x)
        /\ \/ /\ Status(r) \in {"ready_for_review", "publishing"}
              /\ Status(r)' \in {"ready_for_review", "publishing", "published"}
           \/ Status(r)' = Status(r)
        /\ Status(r)' = "publishing" => r \in publishing'
    <3>1. CASE PublishBegin(r)
      BY <3>1, StatusAfter DEF PublishBegin
    <3>2. CASE PublishEnd(r) /\ Status(r) = "publishing"
      BY <3>2, StatusAfter, AfterPublication DEF PublishEnd
    <3>3. CASE PublishEnd(r) /\ Status(r) # "publishing"
      BY <3>3 DEF PublishEnd, Status
    <3> QED
      BY <1>12, <3>1, <3>2, <3>3
  <2>4. \A x \in Runs : InOrder(x)'
    BY <1>1, <2>1, <2>2, <2>3, PublicationMoves
  <2> QED
    BY <1>4, <2>1, <2>4
<1>13. CASE \/ \E f \in Followups : FollowUp(r, f)
            \/ \E typed \in SUBSET Followups : ContinueBegin(r, typed)
            \/ CancelBegin(r) \/ TryCancel(r)
  <2>1. UNCHANGED <<runs, jobs, workers, starting, lock, publishing>>
    BY <1>13 DEF FollowUp, ContinueBegin, CancelBegin, TryCancel, db
  <2>2. \A x \in Runs : Elsewhere(x)
    BY <2>1 DEF Elsewhere, Status
  <2> QED
    BY <1>1, <1>4, <2>1, <2>2, ElsewhereKeeps
<1> QED
  BY <1>6, <1>7, <1>8, <1>9, <1>10, <1>11, <1>12, <1>13 DEF UserStep, RequestStep

\* A resume is begun, given up or committed.
LEMMA ResumerKeepsOrder ==
    ASSUME TypeOK, OwnerInv, RoundInv, NEW q \in resumers, ResumerStep(q)
    PROVE  OwnerInv'
<1>1. /\ \A x \in Runs : InOrder(x)
      /\ mode = "up" /\ crashes = 0 /\ q.run \in Runs /\ runs[q.run] \in Run
      /\ UNCHANGED <<mode, crashes>>
  BY DEF OwnerInv, Steady, TypeOK, Resumer, ResumerStep, AutoResumeBegin, ResumeRefused, ResumeCommit, db
<1>2. CASE AutoResumeBegin(q) \/ ResumeRefused(q)
  <2>1. UNCHANGED <<runs, jobs, workers, starting, lock, publishing>>
    BY <1>2 DEF AutoResumeBegin, ResumeRefused, db
  <2>2. \A x \in Runs : Elsewhere(x)
    BY <2>1 DEF Elsewhere, Status
  <2>3. \A x \in Runs : InOrder(x)'
    BY <1>1, <2>2, ElsewhereKeeps
  <2> QED
    BY <1>1, <2>1, <2>3 DEF OwnerInv, Steady
<1>3. CASE ResumeCommit(q)
  <2> DEFINE r == q.run
             doc == [runs[q.run] EXCEPT !.status = "queued", !.resumes = @ + 1,
                                        !.merged = @ \cup Answered(q)]
  <2>1. /\ lock = {} /\ Status(r) = "needs_human" /\ active[r] = "none" /\ Update(r, doc)
        /\ UNCHANGED <<jobs, workers, publishing>>
    BY <1>3 DEF ResumeCommit, ResumeStillValid, ResumableNow, Locked
  <2>2. doc.status = "queued"
    BY <1>1 DEF Run
  <2>3. \/ Hold(r, "submit", "execute", {}) /\ UNCHANGED starting
        \/ starting' = starting \cup {<<r, "execute">>} /\ UNCHANGED lock
    BY <1>3 DEF ResumeCommit
  <2> HIDE DEF doc
  <2>4. Status(r)' = ExpectedStatus("execute") /\ \A x \in Runs : x # r => Status(x)' = Status(x)
    BY <1>1, <2>1, <2>2, StatusAfter DEF ExpectedStatus
  <2>5. \A w \in workers : w.run # r
    BY <1>1, <2>1 DEF RoundInv, OneRoundPerRun
  <2>6. CASE starting' = starting \cup {<<r, "execute">>} /\ UNCHANGED lock
    <3>1. \A x \in Runs : InOrder(x)'
      BY <1>1, <2>1, <2>4, <2>5, <2>6, RoundOpens
    <3> QED
      BY <1>1, <2>6, <3>1 DEF OwnerInv, Steady
  <2>7. CASE Hold(r, "submit", "execute", {}) /\ UNCHANGED starting
    <3> DEFINE h == [run |-> r, step |-> "submit", phase |-> "execute", marks |-> {}]
    <3>1. lock' = {h} /\ h.run = r /\ h.phase = "execute" /\ h.step = "submit"
      BY <2>7 DEF Hold
    <3> HIDE DEF h
    <3>2. \A x \in Runs : InOrder(x)'
      BY <1>1, <2>1, <2>4, <2>5, <2>7, <3>1, RoundOpens
    <3> QED
      BY <1>1, <3>1, <3>2 DEF OwnerInv, Steady
  <2> QED
    BY <2>3, <2>6, <2>7
<1> QED
  BY <1>2, <1>3 DEF ResumerStep

\* Every step keeps every run in order.
LEMMA OwnerInvInductive ==
    ASSUME Plainly, RoundInv, OwnerInv, [Next]_vars
    PROVE  OwnerInv'
<1>1. TypeOK /\ Steady /\ \A r \in Runs : InOrder(r)
  BY DEF RoundInv, OwnerInv
<1>2. ASSUME NEW r \in Runs, UserStep(r) \/ RequestStep(r) PROVE OwnerInv'
  BY <1>1, <1>2, UserKeepsOrder
<1>3. ASSUME NEW r \in Runs, NEW p \in Phases, StartPlan(r, p) PROVE OwnerInv'
  <2>1. UNCHANGED <<mode, crashes, lock>>
    BY <1>3 DEF StartPlan
  <2>2. \A x \in Runs : InOrder(x)'
    BY <1>1, <1>3, StartKeepsOrder
  <2> QED
    BY <1>1, <2>1, <2>2 DEF OwnerInv, Steady
<1>4. ASSUME NEW r \in Runs, NEW p \in Phases, Dispatch(r, p) PROVE OwnerInv'
  <2>1. UNCHANGED <<mode, crashes, lock>>
    BY <1>4 DEF Dispatch
  <2>2. \A x \in Runs : InOrder(x)'
    BY <1>1, <1>4, DispatchKeepsOrder
  <2> QED
    BY <1>1, <2>1, <2>2 DEF OwnerInv, Steady
<1>5. CASE MarkApplied \/ Submit
  BY <1>1, <1>5, HolderKeepsOrder
<1>6. ASSUME NEW w \in workers, WorkerStep(w) PROVE OwnerInv'
  <2>1. CASE FinishJob(w)
    <3>1. UNCHANGED <<mode, crashes, lock>>
      BY <2>1 DEF FinishJob
    <3>2. \A x \in Runs : InOrder(x)'
      BY <1>1, <2>1, FinishKeepsOrder
    <3> QED
      BY <1>1, <3>1, <3>2 DEF OwnerInv, Steady
  <2>2. CASE ~FinishJob(w)
    <3>1. UNCHANGED <<mode, crashes, lock>> /\ \A x \in Runs : InOrder(x)'
      BY <1>1, <1>6, <2>2, WorkerKeepsOrder
    <3> QED
      BY <1>1, <3>1 DEF OwnerInv, Steady
  <2> QED
    BY <2>1, <2>2
<1>7. ASSUME NEW q \in resumers, ResumerStep(q) PROVE OwnerInv'
  BY <1>1, <1>7, ResumerKeepsOrder
<1>8. CASE Crash \/ RecoveryStep
  BY <1>1, <1>8 DEF Plainly, Steady, Crash, RecoveryStep, Restart, RecoverRun, RecoverDone
<1>9. CASE UNCHANGED vars
  <2>1. UNCHANGED <<runs, jobs, mode, crashes, workers, starting, lock, publishing>>
    BY <1>9 DEF vars
  <2>2. \A x \in Runs : Elsewhere(x)
    BY <2>1 DEF Elsewhere, Status
  <2>3. \A x \in Runs : InOrder(x)'
    BY <1>1, <2>2, ElsewhereKeeps
  <2> QED
    BY <1>1, <2>1, <2>3 DEF OwnerInv, Steady
<1> QED
  BY <1>2, <1>3, <1>4, <1>5, <1>6, <1>7, <1>8, <1>9 DEF Next

\* Without analysis, automatic approval and crashes, a run in a status in which the service
\* owes the next step has a waiting row, a thread about to queue it, or a worker that is not
\* done, whatever users answer, resume, cancel and publish between a worker's last steps
\* (Service._submit, _dispatch, _job, clarify, continue_run).
THEOREM EveryRunIsOwned ==
    ASSUME Plainly
    PROVE  Spec => []ActiveHasOwner
<1>1. Init => OwnerInv
  <2> SUFFICES ASSUME Init PROVE OwnerInv
    OBVIOUS
  <2>1. ASSUME NEW r \in Runs PROVE InOrder(r)
    <3>1. Status(r) = "absent" /\ \A p \in Phases : jobs[r][p].state = "none"
      BY DEF Init, Status, NoRun, NoJob
    <3>2. \A k, p : p \in Phases => ~Way(r, k, p)
      BY <3>1 DEF Init, Way
    <3> QED
      BY <3>1, <3>2 DEF Init, InOrder, OneWay, Expected, RowsOwned, Served
  <2> QED
    BY <2>1 DEF Init, OwnerInv, Steady
<1>2. RoundInv /\ OwnerInv /\ [Next]_vars => OwnerInv'
  BY OwnerInvInductive
<1>3. OwnerInv => ActiveHasOwner
  <2> SUFFICES ASSUME OwnerInv, NEW r \in Runs
               PROVE  /\ Status(r) = "received" => Scheduled(r, {"plan", "requirement_analysis"})
                      /\ Status(r) = "queued" => Scheduled(r, {"execute"})
                      /\ Status(r) \in {"requirement_analysis", "planning", "running"} => Attended(r)
                      /\ Status(r) = "publishing" =>
                           r \in publishing \/ \E w \in workers : w.run = r /\ w.pc = "publishing"
    BY DEF ActiveHasOwner
  <2>1. Served(r) /\ \A w \in workers : w.run = r => Placed(w)
    BY DEF OwnerInv, InOrder
  <2>2. \A k \in Ways : \A p, S : p \in S /\ Way(r, k, p) => Scheduled(r, S)
    BY DEF Way, Ways, Scheduled
  <2>3. Status(r) \in {"planning", "running"} => Attended(r)
    BY <2>1 DEF Served, Placed, Fits, Over, ExpectedStatus, Attended
  <2> QED
    BY <2>1, <2>2, <2>3 DEF Served
<1> QED
  BY <1>1, <1>2, <1>3, RoundInvAlways, PTL DEF Spec
=============================================================================
