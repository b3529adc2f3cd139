-------------------------- MODULE StatusProofs --------------------------
(***************************************************************************)
(* What every update of a run keeps, for every set of runs and supplements *)
(* and every number of crashes: a cancelled run stays cancelled, no        *)
(* receipt is written for words no round was given, no supplement is       *)
(* consumed by two resumes, and a delivery never lands with a supplement   *)
(* unaccounted for: the landing is the only step that makes a running run  *)
(* ready for review, and it settles the supplements itself.                *)
(***************************************************************************)
EXTENDS RunLifecycleProofs

-----------------------------------------------------------------------------
(* One step changes at most one document, and never takes words back.      *)

\* The counters of a run never go back, and only a new plan counts as one.
Later(old, new) ==
    /\ old.revision <= new.revision /\ old.resumes <= new.resumes
    /\ new.plan => old.plan \/ old.revision < new.revision

\* What a step may do to the document of run r: a cancelled run can only be
\* filed away, words once merged stay merged, and counters go up.
MayBecome(old, new) ==
    /\ old.status = "cancelled" => new.status \in {"cancelled", "discarded"}
    /\ old.merged \subseteq new.merged
    /\ Later(old, new)

Advances == \A r \in Runs : MayBecome(runs[r], runs'[r])

\* A document that differs in none of this, its status apart.
Alike(old, new) ==
    /\ new.merged = old.merged /\ new.plan = old.plan
    /\ new.revision = old.revision /\ new.resumes = old.resumes

LEMMA AlikeIsLater ==
    ASSUME NEW old \in Run, NEW new, Alike(old, new)
    PROVE  Later(old, new) /\ old.merged \subseteq new.merged
BY DEF Alike, Later, Run

\* An update of one run advances it if its new document may follow the old one.
LEMMA UpdateAdvances ==
    ASSUME TypeOK, NEW r \in Runs, NEW doc, Update(r, doc), MayBecome(runs[r], doc)
    PROVE  Advances
<1>1. \A s \in Runs : runs[s] \in Run
  BY DEF TypeOK
<1>2. \A s \in Runs : MayBecome(runs[s], runs[s])
  BY <1>1 DEF MayBecome, Later, Run
<1> QED
  BY <1>2 DEF TypeOK, Update, Advances

\* So does a step that leaves the documents alone.
LEMMA NoUpdateAdvances ==
    ASSUME TypeOK, UNCHANGED runs
    PROVE  Advances
<1>1. \A s \in Runs : runs[s] \in Run
  BY DEF TypeOK
<1> QED
  BY <1>1 DEF Advances, MayBecome, Later, Run

\* A new status of a run that is not cancelled.
LEMMA SetStatusAdvances ==
    ASSUME TypeOK, NEW r \in Runs, NEW s, SetStatus(r, s),
           Status(r) = "cancelled" => s \in {"cancelled", "discarded"}
    PROVE  Advances
<1>1. runs[r] \in Run
  BY DEF TypeOK
<1>2. \A doc \in Run : [doc EXCEPT !.status = s].status = s /\ Alike(doc, [doc EXCEPT !.status = s])
  BY DEF Run, Alike
<1> QED
  BY <1>1, <1>2, AlikeIsLater, UpdateAdvances DEF SetStatus, MayBecome, Status

\* _fail leaves a cancelled run alone and keeps the words of any other.
LEMMA FailedRunAdvances ==
    ASSUME TypeOK, NEW r \in Runs, NEW saved \in BOOLEAN, Update(r, FailedRun(r, saved))
    PROVE  Advances
<1>1. runs[r] \in Run
  BY DEF TypeOK
<1>2. \A doc \in Run, a, b \in BOOLEAN :
         Alike(doc, [doc EXCEPT !.status = "needs_human", !.site = a, !.pr = b])
  BY DEF Run, Alike
<1>3. (runs[r].site \/ saved) \in BOOLEAN /\ (runs[r].pr /\ ~saved) \in BOOLEAN
  OBVIOUS
<1>4. MayBecome(runs[r], FailedRun(r, saved))
  <2>1. CASE Status(r) = "cancelled"
    BY <1>1, <2>1 DEF FailedRun, MayBecome, Later, Run, Status
  <2>2. CASE Status(r) # "cancelled"
    BY <1>1, <1>2, <1>3, <2>2, AlikeIsLater DEF FailedRun, MayBecome, Status
  <2> QED
    BY <2>1, <2>2
<1> QED
  BY <1>4, UpdateAdvances

\* Documents derived from a run that is not cancelled may follow it.
LEMMA LiveMayBecome ==
    ASSUME NEW old \in Run, NEW new, old.status # "cancelled",
           Alike(old, new) \/ (old.merged \subseteq new.merged /\ Later(old, new))
    PROVE  MayBecome(old, new)
BY AlikeIsLater DEF MayBecome

\* A publication of a run that is publishing.
LEMMA PublishedAdvances ==
    ASSUME TypeOK, NEW r \in Runs, Status(r) = "publishing", Update(r, Published(r))
    PROVE  Advances
<1>1. runs[r] \in Run
  BY DEF TypeOK
<1>2. \A doc \in Run : Alike(doc, [doc EXCEPT !.status = "published", !.pr = TRUE])
  BY DEF Run, Alike
<1> QED
  BY <1>1, <1>2, LiveMayBecome, UpdateAdvances DEF Published, Status

-----------------------------------------------------------------------------
(* Every step advances the documents.                                      *)

\* A step of a worker.
LEMMA WorkerStepAdvances ==
    ASSUME TypeOK, NEW w \in workers, WorkerStep(w)
    PROVE  Advances
<1>1. w.run \in Runs /\ runs[w.run] \in Run
  BY DEF TypeOK, Worker
<1>2. CASE AnalyzeStart(w)
  BY <1>1, <1>2, NoUpdateAdvances, SetStatusAdvances DEF AnalyzeStart
<1>3. CASE AnalyzeError(w)
  BY <1>3, NoUpdateAdvances DEF AnalyzeError, db
<1>4. CASE FinishAnalysis(w)
  <2>1. \A doc \in Run :
           LET new == [doc EXCEPT !.status = "awaiting_spec_confirmation", !.revision = @ + 1]
           IN  new.merged = doc.merged /\ Later(doc, new)
    BY DEF Run, Later
  <2> DEFINE drafted == [runs[w.run] EXCEPT !.status = "awaiting_spec_confirmation",
                                            !.revision = @ + 1]
  <2>3. runs[w.run].merged \subseteq drafted.merged /\ Later(runs[w.run], drafted)
    BY <1>1, <2>1
  <2>4. UNCHANGED runs \/ (Status(w.run) = "requirement_analysis" /\ Update(w.run, drafted))
    BY <1>4 DEF FinishAnalysis
  <2> HIDE DEF drafted
  <2> QED
    BY <1>1, <2>3, <2>4, NoUpdateAdvances, LiveMayBecome, UpdateAdvances DEF Status
<1>5. CASE AutoConfirm(w)
  <2> DEFINE confirmed == [runs[w.run] EXCEPT !.status = "received", !.confirmed = TRUE]
  <2>1. \A doc \in Run : Alike(doc, [doc EXCEPT !.status = "received", !.confirmed = TRUE])
    BY DEF Run, Alike
  <2>2. Alike(runs[w.run], confirmed)
    BY <1>1, <2>1
  <2>3. UNCHANGED runs \/ (Status(w.run) = "awaiting_spec_confirmation" /\ Update(w.run, confirmed))
    BY <1>5 DEF AutoConfirm
  <2> HIDE DEF confirmed
  <2> QED
    BY <1>1, <2>2, <2>3, NoUpdateAdvances, LiveMayBecome, UpdateAdvances DEF Status
<1>6. CASE PlanStart(w)
  BY <1>1, <1>6, NoUpdateAdvances, SetStatusAdvances DEF PlanStart
<1>7. CASE PlanDone(w)
  <2> DEFINE planned(s) == [runs[w.run] EXCEPT !.status = s, !.plan = TRUE, !.revision = @ + 1]
  <2>1. \A doc \in Run : \A s :
           LET new == [doc EXCEPT !.status = s, !.plan = TRUE, !.revision = @ + 1]
           IN  doc.merged \subseteq new.merged /\ Later(doc, new)
    BY DEF Run, Later
  <2>2. \A s : runs[w.run].merged \subseteq planned(s).merged /\ Later(runs[w.run], planned(s))
    BY <1>1, <2>1
  <2>3. UNCHANGED runs \/ (Status(w.run) = "planning" /\ \E s : Update(w.run, planned(s)))
    BY <1>7 DEF PlanDone
  <2> HIDE DEF planned
  <2> QED
    BY <1>1, <2>2, <2>3, NoUpdateAdvances, LiveMayBecome, UpdateAdvances DEF Status
<1>8. CASE PlanError(w)
  BY <1>8, NoUpdateAdvances DEF PlanError, db
<1>9. CASE AutoApprove(w)
  BY <1>1, <1>9, NoUpdateAdvances, SetStatusAdvances DEF AutoApprove
<1>10. CASE PlanConflict(w)
  BY <1>10, NoUpdateAdvances DEF PlanConflict, db
<1>11. CASE RunStart(w)
  BY <1>1, <1>11, NoUpdateAdvances, SetStatusAdvances DEF RunStart
<1>12. CASE BeginFinalization(w)
  BY <1>12, NoUpdateAdvances DEF BeginFinalization, db
<1>13. CASE Executed(w)
  BY <1>13, NoUpdateAdvances DEF Executed, db
<1>14. CASE RunError(w)
  BY <1>14, NoUpdateAdvances DEF RunError, db
<1>15. CASE Land(w)
  <2> DEFINE landed == [runs[w.run] EXCEPT !.status = "ready_for_review", !.site = TRUE, !.pr = FALSE]
  <2>1. \A doc \in Run :
           Alike(doc, [doc EXCEPT !.status = "ready_for_review", !.site = TRUE, !.pr = FALSE])
    BY DEF Run, Alike
  <2>2. Alike(runs[w.run], landed)
    BY <1>1, <2>1
  <2>3. UNCHANGED runs \/ (Status(w.run) = "running" /\ Update(w.run, landed))
    BY <1>15 DEF Land
  <2> HIDE DEF landed
  <2> QED
    BY <1>1, <2>2, <2>3, NoUpdateAdvances, LiveMayBecome, UpdateAdvances DEF Status
<1>16. CASE CollectRelease(w)
  <2> DEFINE collected == [runs[w.run] EXCEPT !.pr = FALSE]
  <2>1. \A doc \in Run : /\ Alike(doc, [doc EXCEPT !.pr = FALSE])
                          /\ [doc EXCEPT !.pr = FALSE].status = doc.status
    BY DEF Run, Alike
  <2>2. Alike(runs[w.run], collected) /\ collected.status = runs[w.run].status
    BY <1>1, <2>1
  <2>3. UNCHANGED runs \/ Update(w.run, collected)
    BY <1>16 DEF CollectRelease
  <2> HIDE DEF collected
  <2> QED
    BY <1>1, <2>2, <2>3, AlikeIsLater, NoUpdateAdvances, UpdateAdvances DEF MayBecome
<1>17. CASE AfterLanding(w)
  BY <1>1, <1>17, NoUpdateAdvances, SetStatusAdvances DEF AfterLanding
<1>18. CASE WorkerPublished(w)
  BY <1>1, <1>18, NoUpdateAdvances, SetStatusAdvances, PublishedAdvances
     DEF WorkerPublished
<1>19. CASE RunConflict(w)
  BY <1>19, NoUpdateAdvances DEF RunConflict, db
<1>20. CASE RunErrorHandler(w)
  BY <1>20, NoUpdateAdvances DEF RunErrorHandler, db
<1>21. CASE WorkerFail(w)
  BY <1>1, <1>21, FailedRunAdvances DEF WorkerFail
<1>22. CASE FinishJob(w)
  BY <1>22, NoUpdateAdvances DEF FinishJob, db
<1> QED
  BY <1>2, <1>3, <1>4, <1>5, <1>6, <1>7, <1>8, <1>9, <1>10, <1>11, <1>12, <1>13, <1>14,
     <1>15, <1>16, <1>17, <1>18, <1>19, <1>20, <1>21, <1>22 DEF WorkerStep

\* A step of a user.
LEMMA UserStepAdvances ==
    ASSUME TypeOK, NEW r \in Runs, UserStep(r) \/ RequestStep(r)
    PROVE  Advances
<1>1. runs[r] \in Run
  BY DEF TypeOK
<1>2. CASE NewRun(r) \/ Approve(r) \/ Discard(r) \/ PublishBegin(r)
  BY <1>2, SetStatusAdvances DEF NewRun, Approve, Discard, PublishBegin
<1>3. CASE Confirm(r)
  <2> DEFINE confirmed == [runs[r] EXCEPT !.status = "received", !.confirmed = TRUE]
  <2>1. \A doc \in Run : Alike(doc, [doc EXCEPT !.status = "received", !.confirmed = TRUE])
    BY DEF Run, Alike
  <2>2. Alike(runs[r], confirmed)
    BY <1>1, <2>1
  <2>3. Status(r) = "awaiting_spec_confirmation" /\ Update(r, confirmed)
    BY <1>3 DEF Confirm
  <2> HIDE DEF confirmed
  <2> QED
    BY <1>1, <2>2, <2>3, LiveMayBecome, UpdateAdvances DEF Status
<1>4. CASE Clarify(r)
  <2> DEFINE asked == [runs[r] EXCEPT !.status = "received", !.plan = FALSE, !.site = FALSE,
                                      !.pr = FALSE, !.merged = @ \cup Collected(r)]
  <2>1. \A doc \in Run : \A v :
           LET new == [doc EXCEPT !.status = "received", !.plan = FALSE, !.site = FALSE,
                                  !.pr = FALSE, !.merged = @ \cup v]
           IN  doc.merged \subseteq new.merged /\ Later(doc, new)
    BY DEF Run, Later
  <2>2. runs[r].merged \subseteq asked.merged /\ Later(runs[r], asked)
    BY <1>1, <2>1
  <2>3. Status(r) # "cancelled" /\ Update(r, asked)
    BY <1>4 DEF Clarify
  <2> HIDE DEF asked
  <2> QED
    BY <1>1, <2>2, <2>3, LiveMayBecome, UpdateAdvances DEF Status
<1>5. CASE ResumeAnalysis(r)
  <2> DEFINE resumed == [runs[r] EXCEPT !.status = "received", !.resumes = @ + 1]
  <2>1. \A doc \in Run : LET new == [doc EXCEPT !.status = "received", !.resumes = @ + 1]
                         IN  doc.merged \subseteq new.merged /\ Later(doc, new)
    BY DEF Run, Later
  <2>2. runs[r].merged \subseteq resumed.merged /\ Later(runs[r], resumed)
    BY <1>1, <2>1
  <2>3. Status(r) = "needs_human" /\ Update(r, resumed)
    BY <1>5 DEF ResumeAnalysis
  <2> HIDE DEF resumed
  <2> QED
    BY <1>1, <2>2, <2>3, LiveMayBecome, UpdateAdvances DEF Status
<1>6. CASE \/ \E f \in Followups : FollowUp(r, f)
           \/ \E typed \in SUBSET Followups : ContinueBegin(r, typed)
           \/ CancelBegin(r) \/ TryCancel(r)
  BY <1>6, NoUpdateAdvances DEF FollowUp, ContinueBegin, CancelBegin, TryCancel, db
<1>7. CASE CancelCommit(r)
  BY <1>7, NoUpdateAdvances, SetStatusAdvances DEF CancelCommit
<1>8. CASE PublishEnd(r)
  BY <1>8, NoUpdateAdvances, SetStatusAdvances, PublishedAdvances DEF PublishEnd
<1> QED
  BY <1>2, <1>3, <1>4, <1>5, <1>6, <1>7, <1>8 DEF UserStep, RequestStep

\* The commit of a resume, which merges the supplements it was analysed with.
LEMMA ResumerStepAdvances ==
    ASSUME TypeOK, NEW q \in resumers, ResumerStep(q)
    PROVE  Advances
<1>1. q.run \in Runs /\ runs[q.run] \in Run
  BY DEF TypeOK, Resumer
<1>2. CASE ResumeCommit(q)
  <2> DEFINE resumed == [runs[q.run] EXCEPT !.status = "queued", !.resumes = @ + 1,
                                            !.merged = @ \cup q.seen]
  <2>1. \A doc \in Run : \A v :
           LET new == [doc EXCEPT !.status = "queued", !.resumes = @ + 1, !.merged = @ \cup v]
           IN  doc.merged \subseteq new.merged /\ Later(doc, new)
    BY DEF Run, Later
  <2>2. runs[q.run].merged \subseteq resumed.merged /\ Later(runs[q.run], resumed)
    BY <1>1, <2>1
  <2>3. Status(q.run) = "needs_human" /\ Update(q.run, resumed)
    BY <1>2 DEF ResumeCommit, Answered, ResumeStillValid, ResumableNow
  <2> HIDE DEF resumed
  <2> QED
    BY <1>1, <2>2, <2>3, LiveMayBecome, UpdateAdvances DEF Status
<1>3. CASE AutoResumeBegin(q) \/ ResumeRefused(q)
  BY <1>3, NoUpdateAdvances DEF AutoResumeBegin, ResumeRefused, db
<1> QED
  BY <1>2, <1>3 DEF ResumerStep

\* What recovery does to a run.
LEMMA RecoverRunAdvances ==
    ASSUME TypeOK, NEW r \in Runs, RecoverRun(r)
    PROVE  Advances
<1> DEFINE continued == [runs[r] EXCEPT !.status = "queued", !.site = TRUE, !.pr = FALSE,
                                        !.resumes = @ + 1]
<1>1. runs[r] \in Run
  BY DEF TypeOK
<1>2. \A doc \in Run :
         LET new == [doc EXCEPT !.status = "queued", !.site = TRUE, !.pr = FALSE, !.resumes = @ + 1]
         IN  doc.merged \subseteq new.merged /\ Later(doc, new)
  BY DEF Run, Later
<1>3. runs[r].merged \subseteq continued.merged /\ Later(runs[r], continued)
  BY <1>1, <1>2
<1>4. \/ UNCHANGED runs
      \/ Status(r) # "cancelled" /\ (Update(r, continued) \/ \E s : SetStatus(r, s))
  BY DEF RecoverRun, ACTIVE
<1> HIDE DEF continued
<1> QED
  BY <1>1, <1>3, <1>4, NoUpdateAdvances, SetStatusAdvances, LiveMayBecome, UpdateAdvances
     DEF Status

\* Every step advances the documents.
LEMMA StepAdvances == TypeOK /\ [Next]_vars => Advances
<1> SUFFICES ASSUME TypeOK, [Next]_vars PROVE Advances
  OBVIOUS
<1>1. ASSUME NEW r \in Runs, UserStep(r) \/ RequestStep(r) PROVE Advances
  BY <1>1, UserStepAdvances
<1>2. ASSUME NEW r \in Runs, NEW p \in Phases, StartPlan(r, p) \/ Dispatch(r, p) PROVE Advances
  BY <1>2, NoUpdateAdvances, FailedRunAdvances DEF StartPlan, Dispatch
<1>3. CASE MarkApplied \/ Submit \/ Crash \/ Restart \/ RecoverDone \/ UNCHANGED vars
  BY <1>3, NoUpdateAdvances DEF MarkApplied, Submit, Crash, Restart, RecoverDone, vars, db
<1>4. ASSUME NEW w \in workers, WorkerStep(w) PROVE Advances
  BY <1>4, WorkerStepAdvances
<1>5. ASSUME NEW q \in resumers, ResumerStep(q) PROVE Advances
  BY <1>5, ResumerStepAdvances
<1>6. ASSUME NEW r \in Runs, RecoverRun(r) PROVE Advances
  BY <1>6, RecoverRunAdvances
<1> QED
  BY <1>1, <1>2, <1>3, <1>4, <1>5, <1>6 DEF Next, RecoveryStep

\* No failure handler, analysis, resume, publication or recovery still under
\* way brings a cancelled run back (run_lifecycle._fail, cancel, recovery).
THEOREM CancellationSticks == Spec => CancelSticks
<1>1. TypeOK /\ [Next]_vars =>
         [\A r \in Runs : Status(r) = "cancelled" => Status(r)' \in {"cancelled", "discarded"}]_vars
  BY StepAdvances DEF Advances, MayBecome, Status
<1> QED
  BY <1>1, TypeCorrect, PTL DEF Spec, CancelSticks

-----------------------------------------------------------------------------
(* Receipts follow the words they are for.                                 *)

\* A receipt is only written once the words are merged, and the holder of the
\* lock that still has to write one has merged them already.
ReceiptInv ==
    /\ ReceiptMeansMerged
    /\ \A h \in lock : h.marks \subseteq runs[h.run].merged

\* What nearly every step does: no receipt, and nobody is told to write one.
SameReceipts == \A r \in Runs : /\ notes'[r].applied = notes[r].applied
                                /\ notes[r].registered \subseteq notes'[r].registered
NoNewMarks == \A h \in lock' : h \in lock \/ h.marks = {}

LEMMA QuietStepKeepsReceipts ==
    ASSUME TypeOK, ReceiptInv, Advances, SameReceipts, NoNewMarks
    PROVE  ReceiptInv'
<1>1. ReceiptMeansMerged'
  BY DEF ReceiptInv, ReceiptMeansMerged, Advances, MayBecome, SameReceipts
<1>2. ASSUME NEW h \in lock' PROVE h.marks \subseteq runs'[h.run].merged
  <2>1. CASE h.marks = {}
    BY <2>1
  <2>2. CASE h \in lock
    BY <2>2 DEF TypeOK, Holder, ReceiptInv, Advances, MayBecome
  <2> QED
    BY <2>1, <2>2 DEF NoNewMarks
<1> QED
  BY <1>1, <1>2 DEF ReceiptInv

\* The receipts of accepted and of leftover supplements are other receipts.
LEMMA OtherReceipts ==
    ASSUME TypeOK, NEW r \in Runs, NEW fs, Register(r, fs) \/ Expire(r, fs)
    PROVE  SameReceipts
<1>1. notes \in [Runs -> Notes]
  BY DEF TypeOK
<1>2. \A note \in Notes : /\ [note EXCEPT !.registered = @ \cup fs].applied = note.applied
                           /\ [note EXCEPT !.registered = @ \cup fs].registered = note.registered \cup fs
                           /\ [note EXCEPT !.expired = @ \cup fs].applied = note.applied
                           /\ [note EXCEPT !.expired = @ \cup fs].registered = note.registered
  BY DEF Notes
<1>3. CASE Register(r, fs)
  BY <1>1, <1>2, <1>3 DEF Register, SameReceipts
<1>4. CASE Expire(r, fs)
  BY <1>1, <1>2, <1>4 DEF Expire, SameReceipts
<1> QED
  BY <1>3, <1>4

\* The lock is taken, or passed on, without receipts to write.
LEMMA NoMarksHeld ==
    ASSUME NEW r, NEW step, NEW phase, Hold(r, step, phase, {})
    PROVE  NoNewMarks
BY DEF Hold, NoNewMarks

\* A step that keeps notes and lock, or lets go of the lock.
LEMMA NothingHeld ==
    ASSUME UNCHANGED lock \/ lock' = {}
    PROVE  NoNewMarks
BY DEF NoNewMarks

LEMMA NotesUntouched ==
    ASSUME UNCHANGED notes
    PROVE  SameReceipts
BY DEF SameReceipts

\* A receipt of words the run's document holds after the step.
LEMMA ReceiptOfMerged ==
    ASSUME TypeOK, ReceiptInv, Advances, NEW r \in Runs, NEW fs, Receipt(r, fs),
           fs \subseteq runs'[r].merged
    PROVE  ReceiptMeansMerged'
<1>1. notes \in [Runs -> Notes]
  BY DEF TypeOK
<1>2. \A note \in Notes : [note EXCEPT !.applied = @ \cup fs].applied = note.applied \cup fs
  BY DEF Notes
<1>3. \A s \in Runs : notes'[s].applied \subseteq notes[s].applied \cup runs'[s].merged
  BY <1>1, <1>2 DEF Receipt
<1> QED
  BY <1>3 DEF ReceiptInv, ReceiptMeansMerged, Advances, MayBecome

\* A worker writes no receipt.
LEMMA WorkerStepReceipts ==
    ASSUME TypeOK, NEW w \in workers, WorkerStep(w)
    PROVE  SameReceipts /\ NoNewMarks
<1>1. w.run \in Runs
  BY DEF TypeOK, Worker
<1>2. CASE \/ AnalyzeStart(w) \/ AnalyzeError(w) \/ PlanStart(w) \/ PlanDone(w) \/ PlanError(w)
           \/ PlanConflict(w) \/ RunStart(w) \/ BeginFinalization(w) \/ Executed(w) \/ RunError(w)
           \/ CollectRelease(w) \/ AfterLanding(w) \/ WorkerPublished(w) \/ RunConflict(w)
           \/ RunErrorHandler(w) \/ WorkerFail(w) \/ FinishJob(w)
  <2>1. UNCHANGED <<notes, lock>>
    BY <1>2 DEF AnalyzeStart, AnalyzeError, PlanStart, PlanDone, PlanError, PlanConflict, RunStart,
                BeginFinalization, Executed, RunError, CollectRelease, AfterLanding,
                WorkerPublished, RunConflict, RunErrorHandler, WorkerFail, FinishJob, db
  <2> QED
    BY <2>1, NotesUntouched, NothingHeld
<1>3. CASE FinishAnalysis(w) \/ AutoConfirm(w) \/ AutoApprove(w)
  BY <1>3, NotesUntouched, NothingHeld, NoMarksHeld DEF FinishAnalysis, AutoConfirm, AutoApprove
<1>4. CASE Land(w)
  BY <1>1, <1>4, NotesUntouched, NothingHeld, OtherReceipts DEF Land
<1> QED
  BY <1>2, <1>3, <1>4 DEF WorkerStep

\* Nor do users, except by an answer, which has merged the words it holds.
LEMMA UserStepReceipts ==
    ASSUME TypeOK, NEW r \in Runs, UserStep(r) \/ RequestStep(r), ~Clarify(r)
    PROVE  SameReceipts /\ NoNewMarks
<1>1. CASE \/ NewRun(r) \/ Discard(r) \/ CancelBegin(r) \/ PublishBegin(r)
           \/ TryCancel(r) \/ CancelCommit(r) \/ PublishEnd(r)
  <2>1. UNCHANGED <<notes, lock>>
    BY <1>1 DEF NewRun, Discard, CancelBegin, PublishBegin, TryCancel, CancelCommit, PublishEnd, db
  <2> QED
    BY <2>1, NotesUntouched, NothingHeld
<1>2. CASE Confirm(r) \/ Approve(r) \/ ResumeAnalysis(r)
  BY <1>2, NotesUntouched, NoMarksHeld DEF Confirm, Approve, ResumeAnalysis
<1>3. CASE \/ \E f \in Followups : FollowUp(r, f)
           \/ \E typed \in SUBSET Followups : ContinueBegin(r, typed)
  BY <1>3, OtherReceipts, NothingHeld DEF FollowUp, ContinueBegin
<1> QED
  BY <1>1, <1>2, <1>3 DEF UserStep, RequestStep

\* An answer merges the words it will receipt.
LEMMA ClarifyReceipts ==
    ASSUME TypeOK, ReceiptInv, Advances, NEW r \in Runs, Clarify(r)
    PROVE  ReceiptInv'
<1> DEFINE asked == [runs[r] EXCEPT !.status = "received", !.plan = FALSE, !.site = FALSE,
                                    !.pr = FALSE, !.merged = @ \cup Collected(r)]
<1>1. runs[r] \in Run
  BY DEF TypeOK
<1>2. \A doc \in Run : \A v : [doc EXCEPT !.status = "received", !.plan = FALSE, !.site = FALSE,
                                       !.pr = FALSE, !.merged = v].merged = v
  BY DEF Run
<1>3. Collected(r) \subseteq asked.merged
  BY <1>1, <1>2
<1>4. Update(r, asked) /\ UNCHANGED notes
  BY DEF Clarify
<1>5. \A h \in lock' : h.run = r /\ h.marks = Collected(r)
  BY DEF Clarify, Hold
<1> HIDE DEF asked
<1>6. runs'[r] = asked
  BY <1>4 DEF Update, TypeOK
<1>7. ReceiptMeansMerged'
  BY <1>4 DEF ReceiptInv, ReceiptMeansMerged, Advances, MayBecome
<1> QED
  BY <1>3, <1>5, <1>6, <1>7 DEF ReceiptInv

\* The receipts clarify left to write.
LEMMA MarkAppliedReceipts ==
    ASSUME TypeOK, ReceiptInv, Advances, MarkApplied
    PROVE  ReceiptInv'
<1>1. PICK h \in lock : Receipt(h.run, h.marks) /\ Hold(h.run, "submit", h.phase, {})
  BY DEF MarkApplied
<1>2. h.run \in Runs
  BY DEF TypeOK, Holder
<1>3. h.marks \subseteq runs'[h.run].merged
  BY <1>2 DEF ReceiptInv, Advances, MayBecome
<1>4. ReceiptMeansMerged'
  BY <1>1, <1>2, <1>3, ReceiptOfMerged
<1>5. \A g \in lock' : g.marks = {}
  BY <1>1 DEF Hold
<1> QED
  BY <1>4, <1>5 DEF ReceiptInv

\* A resume merges and receipts in one transaction.
LEMMA ResumeCommitReceipts ==
    ASSUME TypeOK, ReceiptInv, Advances, NEW q \in resumers, ResumeCommit(q)
    PROVE  ReceiptInv'
<1> DEFINE resumed == [runs[q.run] EXCEPT !.status = "queued", !.resumes = @ + 1,
                                          !.merged = @ \cup q.seen]
<1>1. q.run \in Runs /\ runs[q.run] \in Run
  BY DEF TypeOK, Resumer
<1>2. \A doc \in Run : \A n, v :
         [doc EXCEPT !.status = "queued", !.resumes = n, !.merged = v].merged = v
  BY DEF Run
<1>3. q.seen \subseteq resumed.merged
  BY <1>1, <1>2
<1>4. /\ Update(q.run, resumed) /\ Receipt(q.run, q.seen)
      /\ UNCHANGED lock \/ Hold(q.run, "submit", "execute", {})
  BY DEF ResumeCommit, ReceiptsOf, Answered
<1> HIDE DEF resumed
<1>5. runs'[q.run] = resumed
  BY <1>1, <1>4 DEF Update, TypeOK
<1>6. ReceiptMeansMerged'
  BY <1>1, <1>3, <1>4, <1>5, ReceiptOfMerged
<1>7. ASSUME NEW h \in lock' PROVE h.marks \subseteq runs'[h.run].merged
  <2>1. CASE h \in lock
    BY <2>1 DEF TypeOK, Holder, ReceiptInv, Advances, MayBecome
  <2>2. CASE h.marks = {}
    BY <2>2
  <2> QED
    BY <1>4, <2>1, <2>2 DEF Hold
<1> QED
  BY <1>6, <1>7 DEF ReceiptInv

\* Every step keeps the receipts behind the words.
LEMMA StepReceipts == TypeOK /\ ReceiptInv /\ [Next]_vars => ReceiptInv'
<1> SUFFICES ASSUME TypeOK, ReceiptInv, [Next]_vars PROVE ReceiptInv'
  OBVIOUS
<1>0. Advances
  BY StepAdvances
<1>1. ASSUME NEW r \in Runs, UserStep(r) \/ RequestStep(r) PROVE ReceiptInv'
  BY <1>0, <1>1, UserStepReceipts, ClarifyReceipts, QuietStepKeepsReceipts
<1>2. CASE \/ \E r \in Runs, p \in Phases : StartPlan(r, p) \/ Dispatch(r, p)
           \/ Submit \/ Crash \/ Restart \/ RecoverDone \/ UNCHANGED vars
  <2>1. UNCHANGED notes /\ (UNCHANGED lock \/ lock' = {})
    BY <1>2 DEF StartPlan, Dispatch, Submit, Crash, Restart, RecoverDone, vars, db
  <2> QED
    BY <1>0, <2>1, NotesUntouched, NothingHeld, QuietStepKeepsReceipts
<1>3. CASE MarkApplied
  BY <1>0, <1>3, MarkAppliedReceipts
<1>4. ASSUME NEW w \in workers, WorkerStep(w) PROVE ReceiptInv'
  BY <1>0, <1>4, WorkerStepReceipts, QuietStepKeepsReceipts
<1>5. ASSUME NEW q \in resumers, ResumerStep(q) PROVE ReceiptInv'
  <2>1. CASE ResumeCommit(q)
    BY <1>0, <2>1, ResumeCommitReceipts
  <2>2. CASE AutoResumeBegin(q) \/ ResumeRefused(q)
    BY <1>0, <2>2, NotesUntouched, NothingHeld, QuietStepKeepsReceipts
       DEF AutoResumeBegin, ResumeRefused, db
  <2> QED
    BY <1>5, <2>1, <2>2 DEF ResumerStep
<1>6. ASSUME NEW r \in Runs, RecoverRun(r) PROVE ReceiptInv'
  BY <1>0, <1>6, NotesUntouched, NothingHeld, NoMarksHeld, QuietStepKeepsReceipts
     DEF RecoverRun
<1> QED
  BY <1>1, <1>2, <1>3, <1>4, <1>5, <1>6 DEF Next, RecoveryStep

\* No receipt exists for words no round was given, whatever crashes, answers
\* and analyses come in between (safe_node_receipts._mark_followups_applied).
THEOREM ReceiptsAreHonest == Spec => []ReceiptMeansMerged
<1>1. Init => ReceiptInv
  BY DEF Init, ReceiptInv, ReceiptMeansMerged, NoNotes
<1>2. TypeOK /\ ReceiptInv /\ [Next]_vars => ReceiptInv'
  BY StepReceipts
<1>3. ReceiptInv => ReceiptMeansMerged
  BY DEF ReceiptInv
<1> QED
  BY <1>1, <1>2, <1>3, TypeCorrect, PTL DEF Spec

-----------------------------------------------------------------------------
(* A resume consumes only what nobody consumed while it was analysed.      *)

\* The run has been resumed, replanned or answered since q read it.  Every commit
\* looks at the two counters again, only a person's looks for the plan.
Overtaken(q) ==
    \/ q.resumes < runs[q.run].resumes \/ q.revision < runs[q.run].revision
    \/ ~runs[q.run].plan

\* What q read, and nobody wrote a receipt for any of it behind its back.
Informed(q) ==
    /\ q.seen \subseteq notes[q.run].registered
    /\ q.pc = "analysing" =>
         /\ q.resumes <= runs[q.run].resumes /\ q.revision <= runs[q.run].revision
         /\ Overtaken(q) \/ q.seen \cap notes[q.run].applied = {}

\* A receipt is for a supplement there is; the receipts an answer still has to
\* write are of a run that has overtaken every resume.
Reads ==
    /\ \A r \in Runs : notes[r].applied \subseteq notes[r].registered
    /\ \A h \in lock :
         /\ h.marks \subseteq notes[h.run].registered
         /\ \A q \in resumers :
              h.marks # {} /\ q.run = h.run /\ q.pc = "analysing" => Overtaken(q)
    /\ \A q \in resumers : Informed(q)

\* No thread reads anything.
NoNewReader == \A q \in resumers' : q \in resumers \/ (q.pc = "check" /\ q.seen = {})

\* Who is overtaken stays so.
LEMMA StillOvertaken ==
    ASSUME TypeOK, TypeOK', Advances, NEW q \in resumers, Informed(q), q.pc = "analysing"
    PROVE  /\ q.resumes <= runs'[q.run].resumes /\ q.revision <= runs'[q.run].revision
           /\ Overtaken(q) => Overtaken(q)'
<1>1. /\ q.run \in Runs /\ q.revision \in Nat /\ q.resumes \in Nat
      /\ runs[q.run] \in Run /\ runs'[q.run] \in Run
  BY DEF TypeOK, Resumer
<1>2. Later(runs[q.run], runs'[q.run])
  BY <1>1 DEF Advances, MayBecome
<1> QED
  BY <1>1, <1>2 DEF Overtaken, Informed, Later, Run

LEMMA QuietStepKeepsReads ==
    ASSUME TypeOK, TypeOK', Reads, Advances, SameReceipts, NoNewMarks, NoNewReader
    PROVE  Reads'
<1>1. \A r \in Runs : notes'[r].applied \subseteq notes'[r].registered
  BY DEF Reads, SameReceipts
<1>2. \A q \in resumers : q.run \in Runs
  BY DEF TypeOK, Resumer
<1>3. ASSUME NEW q \in resumers' PROVE Informed(q)'
  <2>1. CASE q \in resumers
    BY <1>2, <2>1, StillOvertaken DEF Reads, Informed, SameReceipts
  <2>2. CASE q.pc = "check" /\ q.seen = {}
    BY <2>2 DEF Informed
  <2> QED
    BY <2>1, <2>2 DEF NoNewReader
<1>4. ASSUME NEW h \in lock', NEW q \in resumers', h.marks # {}, q.run = h.run, q.pc = "analysing"
      PROVE  Overtaken(q)'
  <2>1. h \in lock /\ q \in resumers
    BY <1>4 DEF NoNewMarks, NoNewReader
  <2> QED
    BY <1>4, <2>1, StillOvertaken DEF Reads
<1>5. ASSUME NEW h \in lock' PROVE h.marks \subseteq notes'[h.run].registered
  BY DEF NoNewMarks, Reads, SameReceipts, TypeOK, Holder
<1> QED
  BY <1>1, <1>3, <1>4, <1>5 DEF Reads

\* A receipt leaves what is registered alone.
LEMMA ReceiptKeepsRegistered ==
    ASSUME TypeOK, NEW r \in Runs, NEW fs, Receipt(r, fs)
    PROVE  /\ \A s \in Runs : notes'[s].registered = notes[s].registered
           /\ notes'[r].applied = notes[r].applied \cup fs
           /\ \A s \in Runs : s # r => notes'[s].applied = notes[s].applied
<1>1. notes \in [Runs -> Notes]
  BY DEF TypeOK
<1>2. \A note \in Notes : /\ [note EXCEPT !.applied = @ \cup fs].applied = note.applied \cup fs
                           /\ [note EXCEPT !.applied = @ \cup fs].registered = note.registered
  BY DEF Notes
<1> QED
  BY <1>1, <1>2 DEF Receipt

\* Receipts for a run that has overtaken every resume.
LEMMA ReceiptKeepsReads ==
    ASSUME TypeOK, TypeOK', Reads, Advances, NEW r \in Runs, NEW fs, Receipt(r, fs),
           fs \subseteq notes[r].registered, resumers' \subseteq resumers,
           \A q \in resumers' : q.run = r /\ q.pc = "analysing" /\ fs # {} => Overtaken(q)',
           \A h \in lock' : h \in lock \/ h.marks = {}
    PROVE  Reads'
<1>1. \A s \in Runs : notes'[s].registered = notes[s].registered
  BY ReceiptKeepsRegistered
<1>2. \A s \in Runs : notes'[s].applied \subseteq notes'[s].registered
  BY <1>1, ReceiptKeepsRegistered DEF Reads
<1>3. \A q \in resumers' : q \in resumers /\ q.run \in Runs /\ Informed(q)
  BY DEF TypeOK, Resumer, Reads
<1>4. ASSUME NEW q \in resumers' PROVE Informed(q)'
  <2>1. q.seen \subseteq notes'[q.run].registered
    BY <1>1, <1>3 DEF Informed
  <2>2. ASSUME q.pc = "analysing"
        PROVE  /\ q.resumes <= runs'[q.run].resumes /\ q.revision <= runs'[q.run].revision
               /\ Overtaken(q)' \/ q.seen \cap notes'[q.run].applied = {}
    <3>1. CASE q.run # r
      BY <1>3, <2>2, <3>1, StillOvertaken, ReceiptKeepsRegistered DEF Informed
    <3>2. CASE q.run = r /\ fs # {}
      BY <1>3, <2>2, <3>2, StillOvertaken
    <3>3. CASE q.run = r /\ fs = {}
      <4>1. notes'[r].applied = notes[r].applied \cup {}
        BY <3>3, ReceiptKeepsRegistered
      <4>2. notes'[r].applied = notes[r].applied
        BY <4>1
      <4> QED
        BY <1>3, <2>2, <3>3, <4>2, StillOvertaken DEF Informed
    <3> QED
      BY <3>1, <3>2, <3>3
  <2> QED
    BY <2>1, <2>2 DEF Informed
<1>5. ASSUME NEW h \in lock' PROVE
         /\ h.marks \subseteq notes'[h.run].registered
         /\ \A q \in resumers' :
              h.marks # {} /\ q.run = h.run /\ q.pc = "analysing" => Overtaken(q)'
  BY <1>1, <1>3, StillOvertaken DEF Reads, TypeOK, Holder
<1> QED
  BY <1>2, <1>4, <1>5 DEF Reads

\* An answer gives up the plan before it writes its receipts.
LEMMA ClarifyReads ==
    ASSUME TypeOK, TypeOK', Reads, Advances, NEW r \in Runs, Clarify(r)
    PROVE  Reads'
<1> DEFINE asked == [runs[r] EXCEPT !.status = "received", !.plan = FALSE, !.site = FALSE,
                                    !.pr = FALSE, !.merged = @ \cup Collected(r)]
<1>1. runs[r] \in Run
  BY DEF TypeOK
<1>2. \A doc \in Run : \A v : ~[doc EXCEPT !.status = "received", !.plan = FALSE, !.site = FALSE,
                                        !.pr = FALSE, !.merged = v].plan
  BY DEF Run
<1>3. ~asked.plan
  BY <1>1, <1>2
<1>4. Update(r, asked) /\ UNCHANGED <<notes, resumers>>
  BY DEF Clarify
<1>5. \A h \in lock' : h.run = r /\ h.marks = Collected(r)
  BY DEF Clarify, Hold
<1> HIDE DEF asked
<1>6. ~runs'[r].plan
  BY <1>3, <1>4 DEF Update, TypeOK
<1>7. ASSUME NEW q \in resumers' PROVE Informed(q)'
  BY <1>4, StillOvertaken DEF Reads, Informed
<1>8. \A q \in resumers' : q.run = r => Overtaken(q)'
  BY <1>6 DEF Overtaken
<1>9. Collected(r) \subseteq notes[r].registered
  BY DEF Collected, Unconsumed
<1> QED
  BY <1>4, <1>5, <1>7, <1>8, <1>9 DEF Reads

LEMMA MarkAppliedReads ==
    ASSUME TypeOK, TypeOK', Reads, Advances, MarkApplied
    PROVE  Reads'
<1>1. PICK h \in lock : Receipt(h.run, h.marks) /\ Hold(h.run, "submit", h.phase, {})
  BY DEF MarkApplied
<1>2. h.run \in Runs /\ h.marks \subseteq notes[h.run].registered /\ UNCHANGED resumers
  BY DEF TypeOK, Holder, Reads, MarkApplied
<1>3. \A q \in resumers' : q.run = h.run /\ q.pc = "analysing" /\ h.marks # {} => Overtaken(q)'
  BY <1>2, StillOvertaken DEF Reads
<1>4. \A g \in lock' : g.marks = {}
  BY <1>1 DEF Hold
<1> QED
  BY <1>1, <1>2, <1>3, <1>4, ReceiptKeepsReads

\* A resume that commits overtakes every other one of its run.
LEMMA ResumeCommitReads ==
    ASSUME TypeOK, TypeOK', Reads, Advances, NEW q \in resumers, ResumeCommit(q)
    PROVE  Reads'
<1> DEFINE resumed == [runs[q.run] EXCEPT !.status = "queued", !.resumes = @ + 1,
                                          !.merged = @ \cup q.seen]
<1>1. q.run \in Runs /\ runs[q.run] \in Run /\ q.seen \subseteq notes[q.run].registered
  BY DEF TypeOK, Resumer, Reads, Informed
<1>2. \A doc \in Run : \A v :
         [doc EXCEPT !.status = "queued", !.resumes = @ + 1, !.merged = @ \cup v].resumes
            = doc.resumes + 1
  BY DEF Run
<1>3. resumed.resumes = runs[q.run].resumes + 1
  BY <1>1, <1>2
<1>4. /\ Update(q.run, resumed) /\ Receipt(q.run, q.seen) /\ resumers' = resumers \ {q}
      /\ \A h \in lock' : h \in lock \/ h.marks = {}
  BY DEF ResumeCommit, ReceiptsOf, Answered, Hold
<1> HIDE DEF resumed
<1>5. runs'[q.run].resumes = runs[q.run].resumes + 1
  BY <1>1, <1>3, <1>4 DEF Update, TypeOK
<1>6. ASSUME NEW p \in resumers', p.run = q.run, p.pc = "analysing" PROVE Overtaken(p)'
  <2>1. p \in resumers /\ Informed(p)
    BY <1>4 DEF Reads
  <2>2. p.resumes \in Nat /\ runs[q.run].resumes \in Nat /\ p.resumes <= runs[q.run].resumes
    BY <1>1, <1>6, <2>1 DEF Informed, TypeOK, Resumer, Run
  <2> QED
    BY <1>5, <1>6, <2>2 DEF Overtaken
<1> QED
  BY <1>1, <1>4, <1>6, ReceiptKeepsReads

\* Who begins to resume reads what has no receipt yet.
LEMMA BeginReads ==
    ASSUME TypeOK, TypeOK', Reads, SameReceipts, UNCHANGED <<runs, lock>>, lock = {}, NEW p,
           \A q \in resumers' : q \in resumers \/ q = p, p.run \in Runs,
           p.seen \subseteq notes'[p.run].registered, p.seen \cap notes'[p.run].applied = {},
           p.resumes = runs[p.run].resumes, p.revision = runs[p.run].revision
    PROVE  Reads'
<1>1. Informed(p)'
  BY DEF Informed, TypeOK, Run
<1>2. Advances
  BY NoUpdateAdvances
<1>3. \A q \in resumers : Informed(q)'
  BY <1>2, StillOvertaken DEF Reads, Informed, SameReceipts, TypeOK, Resumer
<1>4. \A r \in Runs : notes'[r].applied \subseteq notes'[r].registered
  BY DEF Reads, SameReceipts
<1> QED
  BY <1>1, <1>3, <1>4 DEF Reads

LEMMA AutoResumeReads ==
    ASSUME TypeOK, TypeOK', Reads, NEW q \in resumers, AutoResumeBegin(q)
    PROVE  Reads'
<1> DEFINE p == [q EXCEPT !.pc = "analysing", !.revision = runs[q.run].revision,
                          !.resumes = runs[q.run].resumes, !.seen = Collected(q.run)]
<1>1. q \in Resumer /\ q.run \in Runs
  BY DEF TypeOK, Resumer
<1>2. \A x \in Resumer : \A a, b, c :
         LET new == [x EXCEPT !.pc = "analysing", !.revision = a, !.resumes = b, !.seen = c]
         IN  new.run = x.run /\ new.revision = a /\ new.resumes = b /\ new.seen = c
  BY DEF Resumer
<1>3. /\ p.run = q.run /\ p.revision = runs[q.run].revision
      /\ p.resumes = runs[q.run].resumes /\ p.seen = Collected(q.run)
  BY <1>1, <1>2
<1>4. /\ resumers' = (resumers \ {q}) \cup {p}
      /\ UNCHANGED <<runs, notes, lock>> /\ lock = {}
  BY DEF AutoResumeBegin, Locked
<1> HIDE DEF p
<1>5. SameReceipts
  BY <1>4, NotesUntouched
<1>6. p.seen \subseteq notes'[p.run].registered /\ p.seen \cap notes'[p.run].applied = {}
  BY <1>3, <1>4 DEF Collected, Unconsumed
<1> QED
  BY <1>1, <1>3, <1>4, <1>5, <1>6, BeginReads

LEMMA ContinueReads ==
    ASSUME TypeOK, TypeOK', Reads, NEW r \in Runs, NEW typed \in SUBSET Followups,
           ContinueBegin(r, typed)
    PROVE  Reads'
<1> DEFINE p == [run |-> r, kind |-> "human", pc |-> "analysing",
                 revision |-> runs[r].revision, resumes |-> runs[r].resumes,
                 seen |-> Collected(r) \cup typed]
<1>1. /\ p.run = r /\ p.revision = runs[r].revision
      /\ p.resumes = runs[r].resumes /\ p.seen = Collected(r) \cup typed
  OBVIOUS
<1>2. /\ resumers' = resumers \cup {p} /\ Register(r, typed)
      /\ UNCHANGED <<runs, lock>> /\ lock = {} /\ typed \subseteq FreshFollowups
  BY DEF ContinueBegin, Locked
<1> HIDE DEF p
<1>3. SameReceipts
  BY <1>2, OtherReceipts
<1>4. notes'[r].registered = notes[r].registered \cup typed
  <2>1. notes[r] \in Notes
    BY DEF TypeOK
  <2>2. \A note \in Notes :
           [note EXCEPT !.registered = @ \cup typed].registered = note.registered \cup typed
    BY DEF Notes
  <2> QED
    BY <1>2, <2>1, <2>2 DEF Register, TypeOK
<1>5. typed \cap notes[r].applied = {}
  BY <1>2 DEF FreshFollowups, Reads
<1>6. p.seen \subseteq notes'[p.run].registered /\ p.seen \cap notes'[p.run].applied = {}
  BY <1>1, <1>3, <1>4, <1>5 DEF Collected, Unconsumed, SameReceipts
<1> QED
  BY <1>1, <1>2, <1>3, <1>6, BeginReads

\* Every step keeps what the threads in a resume rely on.
LEMMA StepReads == TypeOK /\ TypeOK' /\ Reads /\ [Next]_vars => Reads'
<1> SUFFICES ASSUME TypeOK, TypeOK', Reads, [Next]_vars PROVE Reads'
  OBVIOUS
<1>0. Advances
  BY StepAdvances
<1>1. ASSUME NEW r \in Runs, UserStep(r) \/ RequestStep(r) PROVE Reads'
  <2>1. CASE Clarify(r)
    BY <1>0, <2>1, ClarifyReads
  <2>2. CASE \E typed \in SUBSET Followups : ContinueBegin(r, typed)
    BY <2>2, ContinueReads
  <2>3. CASE ~Clarify(r) /\ ~\E typed \in SUBSET Followups : ContinueBegin(r, typed)
    <3>1. UNCHANGED resumers
      BY <1>1, <2>3 DEF UserStep, RequestStep, NewRun, Confirm, Approve, ResumeAnalysis, FollowUp,
         Discard, CancelBegin, PublishBegin, TryCancel, CancelCommit, PublishEnd
    <3> QED
      BY <1>0, <1>1, <2>3, <3>1, UserStepReceipts, QuietStepKeepsReads DEF NoNewReader
  <2> QED
    BY <2>1, <2>2, <2>3
<1>2. CASE \/ \E r \in Runs, p \in Phases : StartPlan(r, p) \/ Dispatch(r, p)
           \/ Submit \/ Crash \/ Restart \/ RecoverDone \/ UNCHANGED vars
  <2>1. UNCHANGED notes /\ (UNCHANGED lock \/ lock' = {})
    BY <1>2 DEF StartPlan, Dispatch, Submit, Crash, Restart, RecoverDone, vars, db
  <2>2. NoNewReader
    <3>1. CASE RecoverDone
      BY <3>1 DEF RecoverDone, NoNewReader
    <3>2. CASE ~RecoverDone
      <4>1. resumers' = resumers \/ resumers' = {}
        BY <1>2, <3>2 DEF StartPlan, Dispatch, Submit, Crash, Restart, vars
      <4> QED
        BY <4>1 DEF NoNewReader
    <3> QED
      BY <3>1, <3>2
  <2> QED
    BY <1>0, <2>1, <2>2, NotesUntouched, NothingHeld, QuietStepKeepsReads
<1>3. CASE MarkApplied
  BY <1>0, <1>3, MarkAppliedReads
<1>4. ASSUME NEW w \in workers, WorkerStep(w) PROVE Reads'
  <2>1. NoNewReader
    <3>1. CASE FinishJob(w)
      BY <3>1 DEF FinishJob, NoNewReader
    <3>2. CASE ~FinishJob(w)
      BY <1>4, <3>2 DEF NoNewReader, WorkerStep, AnalyzeStart, AnalyzeError, FinishAnalysis,
         AutoConfirm, PlanStart, PlanDone, PlanError, AutoApprove, PlanConflict, RunStart,
         BeginFinalization, Executed, RunError, Land, CollectRelease, AfterLanding,
         WorkerPublished, RunConflict, RunErrorHandler, WorkerFail
    <3> QED
      BY <3>1, <3>2
  <2> QED
    BY <1>0, <1>4, <2>1, WorkerStepReceipts, QuietStepKeepsReads
<1>5. ASSUME NEW q \in resumers, ResumerStep(q) PROVE Reads'
  <2>1. CASE ResumeCommit(q)
    BY <1>0, <2>1, ResumeCommitReads
  <2>2. CASE AutoResumeBegin(q)
    BY <2>2, AutoResumeReads
  <2>3. CASE ResumeRefused(q)
    BY <1>0, <2>3, NotesUntouched, NothingHeld, QuietStepKeepsReads
       DEF ResumeRefused, NoNewReader, db
  <2> QED
    BY <1>5, <2>1, <2>2, <2>3 DEF ResumerStep
<1>6. ASSUME NEW r \in Runs, RecoverRun(r) PROVE Reads'
  BY <1>0, <1>6, NotesUntouched, NothingHeld, NoMarksHeld, QuietStepKeepsReads
     DEF RecoverRun, NoNewReader
<1> QED
  BY <1>1, <1>2, <1>3, <1>4, <1>5, <1>6 DEF Next, RecoveryStep

\* A resume that ends with its run queued is the one that committed.
LEMMA OnlyItsCommitQueues ==
    ASSUME TypeOK, [Next]_vars, NEW q \in resumers, q \notin resumers',
           Status(q.run) = "needs_human", Status(q.run)' = "queued"
    PROVE  ResumeCommit(q)
<1> SUFFICES ASSUME ~ResumeCommit(q) PROVE resumers \subseteq resumers' \/ UNCHANGED runs
  BY DEF Status
<1>1. ASSUME NEW r \in Runs, UserStep(r) \/ RequestStep(r) PROVE resumers \subseteq resumers'
  BY <1>1 DEF UserStep, RequestStep, NewRun, Confirm, Approve, Clarify, ResumeAnalysis, FollowUp,
     Discard, ContinueBegin, CancelBegin, PublishBegin, TryCancel, CancelCommit, PublishEnd
<1>2. ASSUME NEW w \in workers, WorkerStep(w) PROVE resumers \subseteq resumers'
  BY <1>2 DEF WorkerStep, AnalyzeStart, AnalyzeError, FinishAnalysis,
     AutoConfirm, PlanStart, PlanDone, PlanError, AutoApprove, PlanConflict, RunStart,
     BeginFinalization, Executed, RunError, Land, CollectRelease, AfterLanding,
     WorkerPublished, RunConflict, RunErrorHandler, WorkerFail, FinishJob
<1>3. ASSUME NEW p \in resumers, ResumerStep(p)
      PROVE  q \in resumers' \/ UNCHANGED runs
  BY <1>3 DEF ResumerStep, AutoResumeBegin, ResumeCommit, ResumeRefused, db
<1>4. CASE \/ \E r \in Runs, p \in Phases : StartPlan(r, p) \/ Dispatch(r, p)
           \/ MarkApplied \/ Submit \/ \E r \in Runs : RecoverRun(r)
  BY <1>4 DEF StartPlan, Dispatch, MarkApplied, Submit, RecoverRun
<1>5. CASE Crash \/ Restart \/ RecoverDone \/ UNCHANGED vars
  BY <1>5 DEF Crash, Restart, RecoverDone, vars, db
<1> QED
  BY <1>1, <1>2, <1>3, <1>4, <1>5 DEF Next, RecoveryStep, Status

\* However many people, workers and recoveries resume a run, and whatever is
\* answered or crashes while they analyse it, a supplement is consumed by one, as
\* long as the run a resume commits still has its plan.  A person's resume has
\* asked for that again (_resume_preconditions, run_lifecycle.py:207), an automatic
\* one has not (344-349): the kind of the resume decides which guard is used.
THEOREM ConsumedOnce == Spec => AppliedOnce
<1>1. Init => Reads
  BY DEF Init, Reads, NoNotes
<1>2. TypeOK /\ TypeOK' /\ Reads /\ [Next]_vars => Reads'
  BY StepReads
<1>3. ASSUME TypeOK, Reads, [Next]_vars, NEW q \in resumers, q \notin resumers',
             Status(q.run) = "needs_human", Status(q.run)' = "queued",
             q.kind = "human" \/ runs[q.run].plan
      PROVE  q.seen \cap notes[q.run].applied = {}
  <2>1. ResumeCommit(q)
    BY <1>3, OnlyItsCommitQueues
  <2>2. /\ q.pc = "analysing" /\ q.run \in Runs
        /\ q.revision \in Nat /\ q.resumes \in Nat
    BY <1>3, <2>1 DEF ResumeCommit, TypeOK, Resumer
  <2>3. q.revision = runs[q.run].revision /\ q.resumes = runs[q.run].resumes
    BY <2>1 DEF ResumeCommit, ResumeStillValid
  <2>4. runs[q.run].plan
    BY <1>3, <2>1 DEF ResumeCommit, ResumeStillValid, ResumableNow
  <2>5. ~Overtaken(q)
    BY <2>2, <2>3, <2>4 DEF Overtaken
  <2> QED
    BY <1>3, <2>2, <2>5 DEF Reads, Informed
<1>4. TypeOK /\ Reads /\ [Next]_vars =>
         [\A q \in resumers :
            /\ q \notin resumers'
            /\ Status(q.run) = "needs_human" /\ Status(q.run)' = "queued"
            /\ q.kind = "human" \/ runs[q.run].plan
            => q.seen \cap notes[q.run].applied = {}]_vars
  BY <1>3
<1> QED
  BY <1>1, <1>2, <1>4, TypeCorrect, PTL DEF Spec, AppliedOnce

-----------------------------------------------------------------------------
(* A landing is a step of a worker that also settles the supplements.      *)

Lands(r) == Status(r) = "running" /\ Status(r)' = "ready_for_review"

\* An update of one run lands no other one.
LEMMA UpdateLands ==
    ASSUME TypeOK, NEW x \in Runs, NEW doc, Update(x, doc),
           Status(x) # "running" \/ doc.status # "ready_for_review"
    PROVE  \A r \in Runs : ~Lands(r)
BY DEF TypeOK, Update, Lands, Status

LEMMA NoUpdateLands ==
    ASSUME UNCHANGED runs
    PROVE  \A r \in Runs : ~Lands(r)
BY DEF Lands, Status

LEMMA SetStatusLands ==
    ASSUME TypeOK, NEW x \in Runs, NEW s, SetStatus(x, s),
           Status(x) # "running" \/ s # "ready_for_review"
    PROVE  \A r \in Runs : ~Lands(r)
<1>1. runs[x] \in Run
  BY DEF TypeOK
<1>2. \A doc \in Run : [doc EXCEPT !.status = s].status = s
  BY DEF Run
<1> QED
  BY <1>1, <1>2, UpdateLands DEF SetStatus

\* _fail lands nothing.
LEMMA FailedRunLands ==
    ASSUME TypeOK, NEW x \in Runs, NEW saved \in BOOLEAN, Update(x, FailedRun(x, saved))
    PROVE  \A r \in Runs : ~Lands(r)
<1>1. runs[x] \in Run
  BY DEF TypeOK
<1>2. \A doc \in Run, a, b \in BOOLEAN :
         [doc EXCEPT !.status = "needs_human", !.site = a, !.pr = b].status = "needs_human"
  BY DEF Run
<1>3. (runs[x].site \/ saved) \in BOOLEAN /\ (runs[x].pr /\ ~saved) \in BOOLEAN
  OBVIOUS
<1>4. FailedRun(x, saved).status \in {"cancelled", "needs_human"}
  <2>1. CASE Status(x) = "cancelled"
    BY <2>1 DEF FailedRun, Status
  <2>2. CASE Status(x) # "cancelled"
    BY <1>1, <1>2, <1>3, <2>2 DEF FailedRun
  <2> QED
    BY <2>1, <2>2
<1> QED
  BY <1>4, UpdateLands

\* Supplements that are expired by the step that leaves them unconsumed.
LEMMA ExpireSettles ==
    ASSUME TypeOK, NEW r \in Runs, Expire(r, Collected(r))
    PROVE  /\ Unconsumed(notes'[r]) = Collected(r)
           /\ Unconsumed(notes'[r]) \subseteq notes'[r].expired
<1>1. notes \in [Runs -> Notes]
  BY DEF TypeOK
<1>2. \A note \in Notes : \A fs :
         LET after == [note EXCEPT !.expired = @ \cup fs]
         IN  /\ after.registered = note.registered /\ after.applied = note.applied
             /\ fs \subseteq after.expired
  BY DEF Notes
<1>3. notes'[r] = [notes[r] EXCEPT !.expired = @ \cup Collected(r)]
  BY <1>1 DEF Expire
<1> QED
  BY <1>1, <1>2, <1>3 DEF Unconsumed, Collected

\* _land_verified: the landing of a run settles its own supplements only.
LEMMA LandSettles ==
    ASSUME TypeOK, NEW w \in workers, Land(w), NEW r \in Runs, Lands(r)
    PROVE  /\ Unconsumed(notes'[r]) \subseteq notes'[r].expired
           /\ r \in Verified => Unconsumed(notes'[r]) = {}
<1> DEFINE landed == [runs[w.run] EXCEPT !.status = "ready_for_review", !.site = TRUE, !.pr = FALSE]
<1>1. w.run \in Runs
  BY DEF TypeOK, Worker
<1>2. ~VerdictStale(w) /\ Update(w.run, landed) /\ Expire(w.run, Collected(w.run))
  BY NoUpdateLands DEF Land
<1> HIDE DEF landed
<1>3. r = w.run
  BY <1>1, <1>2 DEF Update, TypeOK, Lands, Status
<1>4. r \in Verified => Collected(r) = {}
  BY <1>2, <1>3 DEF VerdictStale
<1> QED
  BY <1>1, <1>2, <1>3, <1>4, ExpireSettles

\* No other step of a worker lands anything.
LEMMA WorkerStepLands ==
    ASSUME TypeOK, NEW w \in workers, WorkerStep(w), ~Land(w)
    PROVE  \A r \in Runs : ~Lands(r)
<1>1. w.run \in Runs /\ runs[w.run] \in Run
  BY DEF TypeOK, Worker
<1>2. CASE \/ AnalyzeError(w) \/ PlanError(w) \/ PlanConflict(w) \/ BeginFinalization(w)
           \/ Executed(w) \/ RunError(w) \/ RunConflict(w) \/ RunErrorHandler(w) \/ FinishJob(w)
  BY <1>2, NoUpdateLands DEF AnalyzeError, PlanError, PlanConflict, BeginFinalization, Executed,
     RunError, RunConflict, RunErrorHandler, FinishJob, db
<1>3. CASE AnalyzeStart(w) \/ PlanStart(w) \/ AutoApprove(w) \/ RunStart(w) \/ AfterLanding(w)
  BY <1>1, <1>3, NoUpdateLands, SetStatusLands
     DEF AnalyzeStart, PlanStart, AutoApprove, RunStart, AfterLanding
<1>4. CASE FinishAnalysis(w)
  <2>1. UNCHANGED runs \/ (Status(w.run) = "requirement_analysis" /\ \E doc : Update(w.run, doc))
    BY <1>4 DEF FinishAnalysis
  <2> QED
    BY <1>1, <2>1, NoUpdateLands, UpdateLands
<1>5. CASE AutoConfirm(w)
  <2>1. UNCHANGED runs
           \/ (Status(w.run) = "awaiting_spec_confirmation" /\ \E doc : Update(w.run, doc))
    BY <1>5 DEF AutoConfirm
  <2> QED
    BY <1>1, <2>1, NoUpdateLands, UpdateLands
<1>6. CASE PlanDone(w)
  <2>1. UNCHANGED runs \/ (Status(w.run) = "planning" /\ \E doc : Update(w.run, doc))
    BY <1>6 DEF PlanDone
  <2> QED
    BY <1>1, <2>1, NoUpdateLands, UpdateLands
<1>7. CASE CollectRelease(w)
  <2> DEFINE collected == [runs[w.run] EXCEPT !.pr = FALSE]
  <2>1. \A doc \in Run : [doc EXCEPT !.pr = FALSE].status = doc.status
    BY DEF Run
  <2>2. collected.status = Status(w.run)
    BY <1>1, <2>1 DEF Status
  <2>3. UNCHANGED runs \/ Update(w.run, collected)
    BY <1>7 DEF CollectRelease
  <2> HIDE DEF collected
  <2>4. Status(w.run) # "running" \/ collected.status # "ready_for_review"
    BY <2>2
  <2> QED
    BY <1>1, <2>3, <2>4, NoUpdateLands, UpdateLands
<1>8. CASE WorkerPublished(w)
  <2>1. UNCHANGED runs \/ (Status(w.run) = "publishing" /\ \E doc : Update(w.run, doc))
    BY <1>8 DEF WorkerPublished, SetStatus
  <2> QED
    BY <1>1, <2>1, NoUpdateLands, UpdateLands
<1>9. CASE WorkerFail(w)
  BY <1>1, <1>9, FailedRunLands DEF WorkerFail
<1> QED
  BY <1>2, <1>3, <1>4, <1>5, <1>6, <1>7, <1>8, <1>9 DEF WorkerStep

\* Nobody but a worker lands anything.
LEMMA UserStepLands ==
    ASSUME TypeOK, NEW x \in Runs, UserStep(x) \/ RequestStep(x)
    PROVE  \A r \in Runs : ~Lands(r)
<1>1. CASE \/ Confirm(x) \/ Clarify(x) \/ ResumeAnalysis(x) \/ NewRun(x) \/ Approve(x)
           \/ Discard(x) \/ PublishBegin(x) \/ PublishEnd(x)
  <2>1. UNCHANGED runs \/ (Status(x) # "running" /\ \E doc : Update(x, doc))
    BY <1>1 DEF Confirm, Clarify, ResumeAnalysis, NewRun, Approve, Discard, PublishBegin,
       PublishEnd, SetStatus, Waiting
  <2> QED
    BY <2>1, NoUpdateLands, UpdateLands
<1>2. CASE CancelCommit(x)
  BY <1>2, NoUpdateLands, SetStatusLands DEF CancelCommit
<1>3. CASE \/ \E f \in Followups : FollowUp(x, f)
           \/ \E typed \in SUBSET Followups : ContinueBegin(x, typed)
           \/ CancelBegin(x) \/ TryCancel(x)
  BY <1>3, NoUpdateLands DEF FollowUp, ContinueBegin, CancelBegin, TryCancel, db
<1> QED
  BY <1>1, <1>2, <1>3 DEF UserStep, RequestStep

LEMMA OtherStepsLand ==
    ASSUME TypeOK,
           \/ \E q \in resumers : ResumerStep(q)
           \/ \E x \in Runs : RecoverRun(x)
           \/ \E x \in Runs, p \in Phases : StartPlan(x, p) \/ Dispatch(x, p)
           \/ MarkApplied \/ Submit \/ Crash \/ Restart \/ RecoverDone \/ UNCHANGED vars
    PROVE  \A r \in Runs : ~Lands(r)
<1>1. ASSUME NEW q \in resumers, ResumerStep(q) PROVE \A r \in Runs : ~Lands(r)
  <2>1. q.run \in Runs
    BY DEF TypeOK, Resumer
  <2>2. UNCHANGED runs \/ (Status(q.run) = "needs_human" /\ \E doc : Update(q.run, doc))
    BY <1>1 DEF ResumerStep, AutoResumeBegin, ResumeRefused, ResumeCommit, ResumeStillValid,
       ResumableNow, db
  <2> QED
    BY <2>1, <2>2, NoUpdateLands, UpdateLands
<1>2. ASSUME NEW x \in Runs, RecoverRun(x) PROVE \A r \in Runs : ~Lands(r)
  <2> DEFINE continued == [runs[x] EXCEPT !.status = "queued", !.site = TRUE, !.pr = FALSE,
                                          !.resumes = @ + 1]
  <2>1. runs[x] \in Run
    BY DEF TypeOK
  <2>2. \A doc \in Run : \A v : [doc EXCEPT !.status = "queued", !.site = TRUE, !.pr = FALSE,
                                             !.resumes = v].status = "queued"
    BY DEF Run
  <2>3. continued.status = "queued"
    BY <2>1, <2>2
  <2>4. \/ UNCHANGED runs
        \/ Update(x, continued)
        \/ \E s \in {"queued", "received", "needs_human"} : SetStatus(x, s)
    BY <1>2 DEF RecoverRun
  <2> HIDE DEF continued
  <2> QED
    BY <2>3, <2>4, NoUpdateLands, UpdateLands, SetStatusLands
<1>3. ASSUME NEW x \in Runs, NEW p \in Phases, StartPlan(x, p) \/ Dispatch(x, p)
      PROVE  \A r \in Runs : ~Lands(r)
  BY <1>3, NoUpdateLands, FailedRunLands DEF StartPlan, Dispatch
<1>4. CASE MarkApplied \/ Submit \/ Crash \/ Restart \/ RecoverDone \/ UNCHANGED vars
  BY <1>4, NoUpdateLands DEF MarkApplied, Submit, Crash, Restart, RecoverDone, vars, db
<1> QED
  BY <1>1, <1>2, <1>3, <1>4

\* A delivery lands only with every supplement applied or expired by the same
\* transaction, and a verified one with none unread (run_execution._land_verified).
THEOREM LandingsSettle == Spec => LandingSettles
<1>1. ASSUME TypeOK, [Next]_vars, NEW r \in Runs, Lands(r)
      PROVE  /\ Unconsumed(notes'[r]) \subseteq notes'[r].expired
             /\ r \in Verified => Unconsumed(notes'[r]) = {}
  <2>1. \/ \E w \in workers : Land(w)
        \/ \E w \in workers : WorkerStep(w) /\ ~Land(w)
        \/ \E x \in Runs : UserStep(x) \/ RequestStep(x)
        \/ \E q \in resumers : ResumerStep(q)
        \/ \E x \in Runs : RecoverRun(x)
        \/ \E x \in Runs, p \in Phases : StartPlan(x, p) \/ Dispatch(x, p)
        \/ MarkApplied \/ Submit \/ Crash \/ Restart \/ RecoverDone \/ UNCHANGED vars
    BY <1>1 DEF Next, RecoveryStep
  <2> QED
    BY <1>1, <2>1, LandSettles, WorkerStepLands, UserStepLands, OtherStepsLand
<1>2. TypeOK /\ [Next]_vars =>
        [\A r \in Runs :
            Status(r) = "running" /\ Status(r)' = "ready_for_review" =>
              /\ Unconsumed(notes'[r]) \subseteq notes'[r].expired
              /\ r \in Verified => Unconsumed(notes'[r]) = {}]_vars
  BY <1>1 DEF Lands
<1> QED
  BY <1>2, TypeCorrect, PTL DEF Spec, LandingSettles
=============================================================================
