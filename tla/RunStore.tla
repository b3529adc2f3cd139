------------------------------ MODULE RunStore ------------------------------
(***************************************************************************)
(* What the database holds about a run: the JSON document of the table     *)
(* runs (factory/control/store.py) and the receipts of its supplements in  *)
(* the table events, with the queue rows of DurableQueue.  Every update of *)
(* a run is one compare-and-set transaction (Store.update), so an action   *)
(* that writes a run tests the status it expects and changes the document  *)
(* in the same step.                                                       *)
(***************************************************************************)
EXTENDS DurableQueue, FiniteSets

CONSTANTS
    Runs,       \* identities of runs
    Followups,  \* identities of supplements ("follow-ups") a user may send
    SpecRuns,   \* runs whose source asks for a requirement analysis first
    Autonomous, \* runs whose plan the project's policy may approve
    Continuous, \* runs executed by the continuous executor (one coding session)
    Verified,   \* runs whose delivery is judged by the independent verifier
    AutoPublish,\* runs of a project that publishes a verified delivery by itself
    Release,    \* release runs, which collect from remote targets after landing
    Resumable   \* runs whose frozen policy says resume_on_restart

ASSUME RunConfigAssumption ==
    /\ SpecRuns \subseteq Runs
    /\ Autonomous \subseteq Runs
    /\ Continuous \subseteq Runs
    /\ Verified \subseteq Runs
    /\ AutoPublish \subseteq Runs
    /\ Release \subseteq Runs
    /\ Resumable \subseteq Runs

\* The statuses in which the service itself owes the next step (store.ACTIVE);
\* "verifying" is reached only by inspections and skill ingestion.
ACTIVE == {"requirement_analysis", "received", "planning", "queued", "running",
           "publishing"}

\* The statuses in which a person owes the next step.
Waiting == {"awaiting_spec_confirmation", "needs_clarification",
            "awaiting_approval", "needs_human"}

Statuses == {"absent"} \cup ACTIVE \cup Waiting
                \cup {"ready_for_review", "published", "cancelled", "discarded"}

\* plan: a plan is stored.  site: artifacts name a base and tasks, so execution
\* can be resumed.  confirmed: the owner confirmed the specification.  merged:
\* supplements whose text is part of an accepted request or resume answer.  pr:
\* the artifacts name a pull request.
Run == [status : Statuses, revision : Nat, resumes : Nat, plan : BOOLEAN,
        site : BOOLEAN, confirmed : BOOLEAN, merged : SUBSET Followups,
        pr : BOOLEAN]

NoRun == [status |-> "absent", revision |-> 0, resumes |-> 0, plan |-> FALSE,
          site |-> FALSE, confirmed |-> FALSE, merged |-> {}, pr |-> FALSE]

\* The receipts followup.pending, followup.applied and followup.expired.
Notes == [registered : SUBSET Followups, applied : SUBSET Followups,
          expired : SUBSET Followups]

NoNotes == [registered |-> {}, applied |-> {}, expired |-> {}]

\* The supplements _collect_pending_followups returns: no applied receipt yet.
\* An expiry receipt does not remove a supplement from this set.
Unconsumed(note) == note.registered \ note.applied
=============================================================================
