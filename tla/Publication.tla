---------------------------- MODULE Publication ----------------------------
(***************************************************************************)
(* Publication of a project's deliveries at the repository host            *)
(* (factory/control/github_publication.py, github.py, and publish in       *)
(* run_lifecycle.py).                                                      *)
(*                                                                         *)
(* An administrator publishes a run from its result page: the request      *)
(* chooses or creates a repository, binds the project to it, and uploads.  *)
(* It holds service.lock over all of its calls and keeps a durable receipt *)
(* of how far it came.  A worker of an auto_publish project and the plain  *)
(* publish route upload to the bound repository without lock or receipt.   *)
(*                                                                         *)
(* The host carries out a call or not, and its answer may be lost in both  *)
(* cases; people create repositories, push and merge there at any time.    *)
(* The service may crash between any two steps.                            *)
(*                                                                         *)
(* One project is modelled.  A run has one commit on one branch; the base  *)
(* branch of a repository does not change its name; mode "bound" is mode   *)
(* "existing" with the repository the project had when the page was sent.  *)
(***************************************************************************)
EXTENDS Naturals

CONSTANTS
    Run,           \* the runs of the project
    Repo,          \* repositories at the host
    Taken,         \* repositories other projects are bound to
    Bases,         \* what base branches may hold before the first publication
    MaxRevision,   \* changes of the project (bound)
    MaxTroubles    \* lost answers, crashes, workers that raise, what people change (bound)

ASSUME SizesAssumption ==
    /\ Taken \subseteq Repo /\ MaxRevision \in Nat \ {0}
    /\ Bases \subseteq {"absent", "empty", "foreign", "shared"}
    /\ MaxTroubles \in Nat

ASSUME NamesAssumption == {"others", "shared"} \cap Run = {}

Local  == "local"      \* the repository of a project that is not bound
NoRepo == "no repository"

Statuses == {"working", "needs_human", "ready_for_review", "publishing", "published"}

\* The statuses of other runs under which a project is not rebound.
PROJECT_EDIT_BLOCKING == {"working", "ready_for_review", "publishing"}

\* base: what the base branch holds: nothing, a foreign history, the project's
\* history, or, after a first upload, just the commit of one run.
Host == [by     : {"others"} \cup Run,      \* who created it
         base   : {"absent", "empty", "foreign", "shared"} \cup Run,
         merged : SUBSET Run,    \* commits in the base branch
         branch : SUBSET Run,    \* delivery branches
         open   : SUBSET Run]    \* open pull requests

Receipt == [state   : {"none", "creating", "prepared", "failed", "published"},
            target  : Repo \cup {NoRepo},
            mode    : {"create", "existing"},
            expected: 0 .. MaxRevision,      \* expected_project_revision
            repository : BOOLEAN,            \* the repository is known to exist
            bound   : 0 .. MaxRevision]      \* bound_revision, or 0
NoReceipt == [state |-> "none", target |-> NoRepo, mode |-> "existing",
              expected |-> 0, repository |-> FALSE, bound |-> 0]

VARIABLES
    status,    \* [Run -> Statuses]
    active,    \* active_jobs: runs whose worker has not released its slot
    raised,    \* runs whose worker is about to fail them
    project,   \* repository, whether its id is recorded (linked), revision
    receipts,  \* github_publication_requests, by run
    local,     \* the project's own base branch: "base", or a run's commit
    host,      \* [Repo -> Host]
    web,       \* the administrator's request that holds service.lock
    pub,       \* [Run -> the upload under way]
    troubles   \* how many so far

vars == <<status, active, raised, project, receipts, local, host, web, pub,
          troubles>>

Idle == [at |-> "idle"]
NoUpload == [at |-> "none", by |-> "plain", to |-> NoRepo, calm |-> FALSE]

\* Repositories before this project's first publication.
Given == {[by |-> "others", base |-> b, merged |-> {}, branch |-> {},
           open |-> {}] : b \in Bases}

Init ==
    /\ status = [r \in Run |-> "working"] /\ active = Run /\ raised = {}
    /\ project \in [repository : {Local} \cup (Repo \ Taken),
                    linked : {FALSE}, revision : {1}]
    /\ receipts = [r \in Run |-> NoReceipt]
    /\ local = "base"
    /\ host \in [Repo -> Given]
    /\ web = Idle /\ pub = [r \in Run |-> NoUpload]
    /\ troubles = 0

LockFree == web.at = "idle"

-----------------------------------------------------------------------------
\* What the project may not be doing while run r changes its repository to t
\* (or, with t = NoRepo, while its base branch moves).
Blocking(t) ==
    IF t # NoRepo /\ project.repository \in {Local, t}
    THEN PROJECT_EDIT_BLOCKING \ {"ready_for_review"}
    ELSE PROJECT_EDIT_BLOCKING

Editable(r, t) ==
    /\ active = {}
    /\ \A o \in Run \ {r} : status[o] \notin Blocking(t)

\* A plausible mistake: only acknowledged bindings count.
HealedNever(r, t) == receipts[r]

\* A request repeated after a crash between binding and acknowledgement.
Healed(r, t) ==
    LET c == receipts[r] IN
    IF /\ c.state # "none" /\ c.bound = 0 /\ c.repository
       /\ project.revision = c.expected + 1 /\ project.linked
       /\ project.repository = t
    THEN [c EXCEPT !.bound = project.revision] ELSE c

\* A plausible mistake: a receipt that was bound once needs no binding.
ResumesBoundOnce(r, t) == Healed(r, t).bound # 0

ResumesBound(r, t) ==
    /\ Healed(r, t).bound = project.revision
    /\ project.repository = t

\* The checks of a request to publish r in t, from a page that shows revision v
\* of the project: a receipt is for one repository, and a creation whose answer
\* is not known is not repeated.
Acceptable(r, t) ==
    /\ status[r] = "ready_for_review"
    /\ receipts[r].state = "none" \/ receipts[r].target = t

Admitted(r, mode, t, v) ==
    /\ Acceptable(r, t)
    /\ ResumesBound(r, t) \/ v = project.revision
    /\ Editable(r, t)
    /\ ~(receipts[r].state = "creating" /\ mode = "create")

\* The receipt of a request that is admitted, before anything was sent.
Prepared(r, mode, t, v) ==
    IF receipts[r].state # "none" THEN Healed(r, t)
    ELSE [NoReceipt EXCEPT !.state = "prepared", !.target = t, !.mode = mode,
                           !.expected = v]

\* A plausible mistake: the receipt is written once the answer is there.
BeforeCreationNothing(c) == NoReceipt

\* Creation is noted before it is asked for.
BeforeCreation(c) == [c EXCEPT !.state = "creating"]

Save(r, c) == receipts' = [receipts EXCEPT ![r] = c]

\* POST /runs/{rid}/github-publish takes the lock and goes as far as its first
\* call to the host.  A refused request may still have completed the receipt.
Request(r, mode, t, v) ==
    /\ LockFree
    /\ LET c == Prepared(r, mode, t, v)
           known == c.repository
       IN IF Admitted(r, mode, t, v)
          THEN /\ web' = [at |-> IF ~known THEN (IF mode = "create" THEN "create" ELSE "lookup")
                                 ELSE IF ResumesBound(r, t) THEN "publish" ELSE "bind",
                          run |-> r, target |-> t, revision |-> project.revision]
               /\ Save(r, IF ~known /\ mode = "create" THEN BeforeCreation(c)
                          ELSE IF known THEN c ELSE receipts[r])
          ELSE /\ Acceptable(r, t) /\ Healed(r, t) # receipts[r]
               /\ Save(r, Healed(r, t)) /\ UNCHANGED web
    /\ UNCHANGED <<status, active, raised, project, local, host, pub, troubles>>

Here(at) == web.at = at
Goto(at) == web' = [web EXCEPT !.at = at]
Trouble == troubles < MaxTroubles /\ troubles' = troubles + 1

\* The repository answered: the receipt has it from now on.  A creation has left
\* its receipt before.
Learned ==
    Save(web.run, [Prepared(web.run, "existing", web.target, web.revision) EXCEPT
                     !.repository = TRUE, !.state = "prepared"])

\* A change of the host spoils the calm of the uploads of the runs in R.
Stirred(R) ==
    [o \in Run |-> IF o \in R THEN [pub[o] EXCEPT !.calm = FALSE] ELSE pub[o]]

\* create_repository: looked up first, asked for once.
CreateRepository ==
    LET x == web.target
        made == [host EXCEPT ![x].by = web.run, ![x].base = "empty"] IN
    /\ Here("create")
    /\ \/ /\ host[x].base = "absent"                      \* created and answered
          /\ host' = made /\ Learned /\ Goto("bind") /\ UNCHANGED troubles
       \/ /\ host[x].base = "absent" /\ Trouble             \* the answer is lost
          /\ host' \in {host, made} /\ web' = Idle /\ UNCHANGED receipts
       \/ /\ host[x].base # "absent"                      \* the name is in use
          /\ web' = Idle /\ UNCHANGED <<host, receipts, troubles>>
    /\ pub' = IF host' = host THEN pub ELSE Stirred(Run)
    /\ UNCHANGED <<status, active, raised, project, local>>

\* repository: an existing repository the account may write to.
LookupRepository ==
    /\ Here("lookup")
    /\ \/ /\ host[web.target].base # "absent"
          /\ Learned /\ Goto("bind") /\ UNCHANGED troubles
       \/ host[web.target].base = "absent" /\ web' = Idle /\ UNCHANGED <<receipts, troubles>>
       \/ Trouble /\ web' = Idle /\ UNCHANGED receipts
    /\ UNCHANGED <<status, active, raised, project, local, host, pub>>

\* _bind: one transaction; the same repository bound again is no change.
Bind ==
    LET t == web.target IN
    /\ Here("bind")
    /\ IF /\ status[web.run] = "ready_for_review"
          /\ web.revision = project.revision
          /\ Editable(web.run, t) /\ t \notin Taken
       THEN IF project.repository = t /\ project.linked
            THEN Goto("acknowledge") /\ UNCHANGED project
            ELSE /\ project.revision < MaxRevision
                 /\ project' = [repository |-> t, linked |-> TRUE,
                                revision |-> project.revision + 1]
                 /\ web' = [web EXCEPT !.at = "acknowledge", !.revision = @ + 1]
       ELSE web' = Idle /\ UNCHANGED project
    /\ UNCHANGED <<status, active, raised, receipts, local, host, pub, troubles>>

Acknowledge ==
    /\ Here("acknowledge")
    /\ Save(web.run, [receipts[web.run] EXCEPT !.bound = web.revision])
    /\ Goto("publish")
    /\ UNCHANGED <<status, active, raised, project, local, host, pub, troubles>>

-----------------------------------------------------------------------------
\* publish: compare-and-set, then the upload.
Uploading(r, by) ==
    /\ status' = [status EXCEPT ![r] = "publishing"]
    /\ pub' = [pub EXCEPT ![r] = [at |-> "refs", by |-> by, to |-> NoRepo,
                                  calm |-> TRUE]]
UploadByRequest ==
    /\ Here("publish")
    /\ IF status[web.run] = "ready_for_review"
       THEN Uploading(web.run, "web") /\ Goto("upload")
       ELSE Goto("failed") /\ UNCHANGED <<status, pub>>
    /\ UNCHANGED <<active, raised, project, receipts, local, host, troubles>>

\* The plain route, or the worker of an auto_publish project before it leaves:
\* without the lock, so also under another request.
UploadPlainly(r) ==
    /\ status[r] = "ready_for_review" /\ project.repository # Local
    /\ Uploading(r, "plain")
    /\ UNCHANGED <<active, raised, project, receipts, local, host, web, troubles>>

At(r, at) == pub[r].at = at
Move(r, at) == pub' = [pub EXCEPT ![r].at = at]

\* What the base branch of the repository asks for.
ReadRefs(r) ==
    LET x == project.repository
        found(at) == pub' = [pub EXCEPT ![r].at = at, ![r].to = x] IN
    /\ At(r, "refs")
    /\ \/ host[x].base = "empty" /\ found("initial") /\ UNCHANGED troubles
       \/ host[x].base = r /\ found("observe") /\ UNCHANGED troubles
       \/ host[x].base \in {"shared"} \cup (Run \ {r}) /\ found("branch") /\ UNCHANGED troubles
       \/ host[x].base \in {"absent", "foreign"} /\ found("failing") /\ UNCHANGED troubles
       \/ Trouble /\ pub' = [pub EXCEPT ![r].at = "failing", ![r].to = x, ![r].calm = FALSE]
    /\ UNCHANGED <<status, active, raised, project, receipts, local, host, web>>

\* A call that changes the host: it is carried out and answered, or fails with
\* or without having been carried out.
Calls(r, changed, next) ==
    \/ /\ host' = [host EXCEPT ![pub[r].to] = changed]
       /\ pub' = [(IF changed = host[pub[r].to] THEN pub ELSE Stirred(Run \ {r})) EXCEPT ![r].at = next]
       /\ UNCHANGED troubles
    \/ /\ Trouble /\ host' \in {host, [host EXCEPT ![pub[r].to] = changed]}
       /\ pub' = [(IF host' = host THEN pub ELSE Stirred(Run \ {r})) EXCEPT
                    ![r].at = "failing", ![r].calm = FALSE]

Refused(r) == Move(r, "failing") /\ UNCHANGED <<host, troubles>>

\* The first upload pushes the commit as the base branch, never by force.
PushInitial(r) ==
    LET h == host[pub[r].to] IN
    /\ At(r, "initial")
    /\ IF h.base \in {"empty", r}
       THEN Calls(r, [h EXCEPT !.base = r, !.merged = @ \cup {r}], "observe")
       ELSE Refused(r)
    /\ UNCHANGED <<status, active, raised, project, receipts, local, web>>

ObserveInitial(r) ==
    /\ At(r, "observe")
    /\ \/ host[pub[r].to].base = r /\ UNCHANGED troubles
          /\ Move(r, "sync")
       \/ host[pub[r].to].base # r /\ Move(r, "failing") /\ UNCHANGED troubles
       \/ Trouble /\ pub' = [pub EXCEPT ![r].at = "failing", ![r].calm = FALSE]
    /\ UNCHANGED <<status, active, raised, project, receipts, local, host, web>>

PushBranch(r) ==
    /\ At(r, "branch")
    /\ Calls(r, [host[pub[r].to] EXCEPT !.branch = @ \cup {r}], "find")
    /\ UNCHANGED <<status, active, raised, project, receipts, local, web>>

\* A plausible mistake: always ask for a new one.
AfterFindAnew(r) == "open"

\* An open pull request from an earlier attempt is the one to report.
AfterFind(r) == IF r \in host[pub[r].to].open THEN "delivered" ELSE "open"

FindPullRequest(r) ==
    /\ At(r, "find")
    /\ \/ Move(r, AfterFind(r)) /\ UNCHANGED troubles
       \/ Trouble /\ pub' = [pub EXCEPT ![r].at = "failing", ![r].calm = FALSE]
    /\ UNCHANGED <<status, active, raised, project, receipts, local, host, web>>

\* The host refuses a second open request, and one that adds nothing.
OpenPullRequest(r) ==
    LET h == host[pub[r].to] IN
    /\ At(r, "open")
    /\ IF r \notin h.open \cup h.merged
       THEN Calls(r, [h EXCEPT !.open = @ \cup {r}], "delivered")
       ELSE Refused(r)
    /\ UNCHANGED <<status, active, raised, project, receipts, local, web>>

\* sync_initial_baseline: under the lock, if nothing else needs the project's
\* base branch unchanged, and nobody has changed it.
SyncBaseline(r) ==
    /\ At(r, "sync")
    /\ LockFree \/ pub[r].by = "web"
    /\ local' \in {local} \cup {n \in {r} : Editable(r, NoRepo) /\ local = "base"}
    /\ Move(r, "delivered")
    /\ UNCHANGED <<status, active, raised, project, receipts, host, web, troubles>>

\* The compare-and-set that ends the upload changes the status only if nobody
\* else did; a request goes on to its receipt.
EndUpload(r) ==
    /\ pub[r].at \in {"delivered", "failing"}
    /\ status' = [status EXCEPT ![r] = IF @ # "publishing" THEN @
                                       ELSE IF At(r, "delivered") THEN "published"
                                       ELSE "ready_for_review"]
    /\ pub' = [pub EXCEPT ![r] = NoUpload]
    /\ web' = IF pub[r].by # "web" THEN web
              ELSE [web EXCEPT !.at = IF At(r, "delivered") /\ status[r] = "publishing"
                                  THEN "published" ELSE "failed"]
    /\ UNCHANGED <<active, raised, project, receipts, local, host, troubles>>

EndRequest ==
    /\ web.at \in {"published", "failed"}
    /\ Save(web.run, [receipts[web.run] EXCEPT !.state = web.at])
    /\ web' = Idle
    /\ UNCHANGED <<status, active, raised, project, local, host, pub, troubles>>

-----------------------------------------------------------------------------
\* The rest of the service: a run lands, its worker leaves, a run that waits is
\* continued and delivers the same commit, and project settings change.  (Bound:
\* no run is continued while an upload of it that outlived its status goes on.)
Land(r) ==
    /\ LockFree /\ status[r] = "working"
    /\ status' \in {[status EXCEPT ![r] = s] : s \in {"ready_for_review", "needs_human"}}
    /\ UNCHANGED <<active, raised, project, receipts, local, host, web, pub, troubles>>

\* After the landing the worker still collects and publishes.  When that raises,
\* its handler looks at the status and then, under the lock, fails the run in
\* whatever status it is by now, with its upload going on if it has one.
WorkerRaises(r) ==
    /\ r \in active /\ status[r] \in {"publishing", "published"}
    /\ Trouble /\ raised' = raised \cup {r}
    /\ UNCHANGED <<status, active, project, receipts, local, host, web, pub>>

WorkerFails(r) ==
    /\ LockFree /\ r \in raised
    /\ status' = [status EXCEPT ![r] = "needs_human"]
    /\ raised' = raised \ {r}
    /\ UNCHANGED <<active, project, receipts, local, host, web, pub, troubles>>

Leave(r) ==
    /\ LockFree /\ r \in active \ raised /\ status[r] # "working"
    /\ active' = active \ {r}
    /\ UNCHANGED <<status, raised, project, receipts, local, host, web, pub, troubles>>

Continue(r) ==
    /\ LockFree /\ status[r] = "needs_human" /\ r \notin active
    /\ At(r, "none")
    /\ status' = [status EXCEPT ![r] = "working"] /\ active' = active \cup {r}
    /\ UNCHANGED <<raised, project, receipts, local, host, web, pub, troubles>>

\* A higher budget is not blocked by runs that wait for delivery.
ChangeSettings ==
    /\ \A r \in Run : status[r] \notin PROJECT_EDIT_BLOCKING \ {"ready_for_review"}
    /\ Trouble /\ project.revision < MaxRevision
    /\ project' = [project EXCEPT !.revision = @ + 1]
    /\ UNCHANGED <<status, active, raised, receipts, local, host, web, pub>>

\* A plausible mistake: uploads have no place in recovery.
InterruptedButUploads(r) == status[r]

Interrupted(r) == IF status[r] = "publishing" THEN "needs_human" ELSE status[r]

\* The service dies and recovers: uploads that were under way wait for a person,
\* work goes on (or, in Land, waits too).
Crash ==
    /\ Trouble
    /\ web' = Idle /\ pub' = [r \in Run |-> NoUpload]
    /\ status' = [r \in Run |-> Interrupted(r)]
    /\ active' = {r \in Run : status[r] = "working"} /\ raised' = {}
    /\ UNCHANGED <<project, receipts, local, host>>

\* People at the host: create a repository, push to a base branch, merge a pull
\* request as it is, or close it (or merge its content as a new commit).
AtHost(x) ==
    LET h == host[x] IN
    \/ h.base = "absent" /\ host' = [host EXCEPT ![x].base = "foreign"]
    \/ h.base = "empty" /\ host' = [host EXCEPT ![x].base = "foreign"]
    \/ h.base \in Run /\ host' = [host EXCEPT ![x].base = "shared"]
    \/ \E r \in h.open :
          \/ host' = [host EXCEPT ![x].open = @ \ {r}, ![x].base = "shared",
                                  ![x].merged = @ \cup {r}]
          \/ host' = [host EXCEPT ![x].open = @ \ {r}]

Person(x) ==
    /\ Trouble /\ AtHost(x)
    /\ pub' = Stirred(Run)
    /\ UNCHANGED <<status, active, raised, project, receipts, local, web>>

-----------------------------------------------------------------------------
Requests ==
    \/ \E r \in Run, mode \in {"create", "existing"}, t \in Repo :
          \E v \in 1 .. project.revision : Request(r, mode, t, v)
    \/ CreateRepository \/ LookupRepository \/ Bind \/ Acknowledge
    \/ UploadByRequest \/ EndRequest

Uploads(r) ==
    \/ UploadPlainly(r) \/ ReadRefs(r) \/ PushInitial(r) \/ ObserveInitial(r) \/ PushBranch(r)
    \/ FindPullRequest(r) \/ OpenPullRequest(r) \/ SyncBaseline(r) \/ EndUpload(r)

Others(r) == Land(r) \/ WorkerRaises(r) \/ WorkerFails(r) \/ Leave(r) \/ Continue(r)

Next ==
    \/ Requests \/ (\E r \in Run : Uploads(r) \/ Others(r))
    \/ ChangeSettings \/ Crash \/ (\E x \in Repo : Person(x))

Spec == Init /\ [][Next]_vars
=============================================================================
