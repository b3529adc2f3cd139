--------------------------- MODULE RunProperties ---------------------------
(***************************************************************************)
(* What the run lifecycle promises, and the fairness under which it keeps  *)
(* its liveness promises.                                                  *)
(***************************************************************************)
EXTENDS RunLifecycle

-----------------------------------------------------------------------------
(* Rounds and their owners.                                                *)

\* A run is worked on by one round at a time: its worker is the only one, its
\* slot names the worker's phase, and the queue row of that phase is running
\* under the worker's generation or already waits for the round after it.
\* ("重复启动同一运行不得并发重复执行", docs/v3/ARCHITECTURE.md)
OneRoundPerRun ==
    /\ \A v, w \in workers : v.run = w.run => v = w
    /\ \A r \in Runs : active[r] # "none" <=> \E w \in workers : w.run = r
    /\ \A w \in workers :
         LET row == jobs[w.run][w.phase]
         IN  /\ active[w.run] = w.phase
             /\ \/ row.state = "running" /\ row.gen = w.gen
                \/ row.state = "pending" /\ row.gen > w.gen

\* No more rounds are in flight than the thread pool has threads.
SlotsBounded == Cardinality(workers) <= MaxActive

\* A round of one of these phases is on its way to a worker, or has one that
\* has not looked at the run yet.
Scheduled(r, phases) ==
    \E p \in phases :
       \/ jobs[r][p].state = "pending"
       \/ <<r, p>> \in starting
       \/ \E h \in lock : h.run = r /\ h.phase = p
       \/ \E w \in workers : w.run = r /\ w.phase = p /\ w.pc = "start"

Attended(r) == \E w \in workers : w.run = r /\ w.pc # "ending"

\* A run in a status in which the service owes the next step always has
\* somebody who will take it; no interleaving of a worker's last steps with a
\* user's answer, a cancellation or a restart leaves it scheduled in name only.
ActiveHasOwner ==
    mode = "up" => \A r \in Runs :
        /\ Status(r) = "received" => Scheduled(r, {"plan", "requirement_analysis"})
        /\ Status(r) = "queued" => Scheduled(r, {"execute"})
        /\ Status(r) \in {"requirement_analysis", "planning", "running"} => Attended(r)
        /\ Status(r) = "publishing" =>
             r \in publishing \/ \E w \in workers : w.run = r /\ w.pc = "publishing"

\* Recovery leaves nothing behind that only looks scheduled: a run it has
\* visited either waits for a person or an end, or its next round is a pending
\* row, and no row of it still claims to be running.
RecoveryLeavesNoOrphan ==
    mode = "recovering" /\ ~Locked => \A r \in Runs \ torecover :
        Status(r) \in ACTIVE =>
            /\ Status(r) \in {"received", "queued"}
            /\ \E p \in Phases : jobs[r][p].state = "pending"
            /\ \A p \in Phases : jobs[r][p].state # "running"

-----------------------------------------------------------------------------
(* Supplements.                                                            *)

\* An applied receipt is never written for words no round was given, whatever
\* crashes, analyses and answers come in between.
ReceiptMeansMerged == \A r \in Runs : notes[r].applied \subseteq runs[r].merged

\* Words a round was given have their receipt as soon as the lock is free, so
\* that no later safe node can give them to a round again.
MergedHasReceipt ==
    ~Locked => \A r \in Runs : runs[r].merged \cap Collected(r) = {}

\* A resume of a run that still has the plan it was paused with, and that is
\* every resume by a person, consumes only supplements that no other resume or
\* answer consumed while it was being analysed.
AppliedOnce ==
    [][\A q \in resumers :
         /\ q \notin resumers'
         /\ Status(q.run) = "needs_human" /\ Status(q.run)' = "queued"
         /\ q.kind = "human" \/ runs[q.run].plan
         => q.seen \cap notes[q.run].applied = {}]_vars

\* A run waits for execution only with a plan to execute: an automatic resume
\* is not committed after an answer took the plan back and used up its words.
\* ("同一补充不重复生效", docs/implementation/webuddy-operations/STATUS.md:109)
QueuedHasPlan == \A r \in Runs : Status(r) = "queued" => runs[r].plan

\* A delivery lands only with every supplement accounted for: each has been
\* applied or is expired by the same transaction, and the independent verifier
\* judged exactly the applied ones.
LandingSettles ==
    [][\A r \in Runs :
         Status(r) = "running" /\ Status(r)' = "ready_for_review" =>
            /\ Unconsumed(notes'[r]) \subseteq notes'[r].expired
            /\ r \in Verified => Unconsumed(notes'[r]) = {}]_vars

\* _expire_unconsumed_followups: a published run has no supplement that is
\* neither applied nor reported as expired.
PublishedHasNoOpenFollowup ==
    \A r \in Runs : Status(r) = "published" => Collected(r) \subseteq notes[r].expired

\* _expire_unconsumed_followups: "Expired means the content was never merged
\* into any execution round".
ExpiredNeverMerged == \A r \in Runs : notes[r].expired \cap runs[r].merged = {}

-----------------------------------------------------------------------------
(* Cancellation, retirement and delivery.                                  *)

\* A cancelled run is never brought back by the worker, the analysis or the
\* recovery that was still under way; it can only be filed away.
CancelSticks ==
    [][\A r \in Runs : Status(r) = "cancelled" => Status(r)' \in {"cancelled", "discarded"}]_vars

\* discard: "Retire obsolete work from operational attention".
DiscardedFinal ==
    [][\A r \in Runs : Status(r) = "discarded" => Status(r)' = "discarded"]_vars

\* try_cancel: a run is not reported cancelled while its commit is being made.
FinalizationExcludesCancel ==
    \A w \in workers : w.pc = "finalizing" => Status(w.run) # "cancelled"

\* _run: a delivery outage does not turn a landed delivery into a failed run.
DeliveredNotFailed ==
    [][\A r \in Runs : mode = "up" /\ mode' = "up" =>
         (Status(r) \in {"ready_for_review", "publishing", "published"} =>
            Status(r)' # "needs_human")]_vars

-----------------------------------------------------------------------------
(* Liveness.  Threads of the process are scheduled and provider calls end  *)
(* by their timeouts; users and crashes owe nothing.  The dispatcher scans *)
(* the queue in order of insertion, so a row it could claim again and      *)
(* again is claimed.                                                       *)

Fairness ==
    /\ WF_vars(RecoveryStep)
    /\ WF_vars(MarkApplied \/ Submit)
    /\ \A r \in Runs :
         /\ SF_vars(TryCancel(r) \/ CancelCommit(r))
         /\ WF_vars(PublishEnd(r))
         /\ \A p \in Phases : SF_vars(StartPlan(r, p)) /\ SF_vars(Dispatch(r, p))
         /\ SF_vars(\E w \in workers : w.run = r /\ WorkerStep(w))
         /\ SF_vars(\E q \in resumers : q.run = r /\ ResumerStep(q))

FairSpec == Spec /\ Fairness

\* Whatever the service owes a run, it delivers: a run leaves the statuses in
\* which the service is to act for one in which a person is, or for an end.
ActiveSettles == \A r \in Runs : Status(r) \in ACTIVE ~> Status(r) \notin ACTIVE

=============================================================================
