----------------------- MODULE PublicationProperties -----------------------
(***************************************************************************)
(* What publication promises (Publication).                                *)
(***************************************************************************)
EXTENDS Publication

UploadShape ==
    [at : {"none", "refs", "initial", "observe", "branch", "find", "open", "sync",
           "delivered", "failing"},
     by : {"web", "plain"}, to : Repo \cup {NoRepo}, calm : BOOLEAN]

RequestShape ==
    [at : {"create", "lookup", "bind", "acknowledge", "publish", "upload",
           "published", "failed"},
     run : Run, target : Repo, revision : 1 .. MaxRevision]

\* Statuses, receipts, the project, the host and the requests under way have
\* the declared shape, and a run is publishing only while an upload is under way.
TypeOK ==
    /\ status \in [Run -> Statuses] /\ active \subseteq Run /\ raised \subseteq active
    /\ project \in [repository : {Local} \cup Repo, linked : BOOLEAN,
                    revision : 1 .. MaxRevision]
    /\ receipts \in [Run -> Receipt] /\ local \in {"base"} \cup Run
    /\ host \in [Repo -> Host]
    /\ web \in {Idle} \cup RequestShape
    /\ pub \in [Run -> UploadShape]
    /\ \A r \in Run : status[r] = "publishing" => pub[r].at # "none"
    /\ troubles \in 0 .. MaxTroubles

\* However often the answer to a creation is lost, the service crashes, or the
\* administrator tries another name, publishing a run creates one repository.
\* ("Never blindly POST twice", github_publication.py:155)
CreatedOnce ==
    \A r \in Run : \A x, y \in Repo : host[x].by = r /\ host[y].by = r => x = y

\* What an administrator's request uploads goes to the repository its receipt
\* names, which is still the project's, whatever other requests bound since the
\* receipt was written and whatever workers, plain uploads and crashes did to the
\* runs.  ("请先核对原目标": check the original target first,
\* github_publication.py:124)
UploadsWhereAsked ==
    \A r \in Run :
        pub[r].by = "web" /\ pub[r].at \notin {"none", "refs"} =>
            pub[r].to = receipts[r].target /\ pub[r].to = project.repository

\* No request binds the project to another repository under an upload.
\* ("项目还有进行中或待交付任务，暂时不能更换 GitHub 仓库": runs are in progress,
\* the repository cannot be changed now, github_publication.py:62)
UploadsSettled ==
    [][(\E r \in Run : pub[r].at # "none" /\ pub'[r].at # "none")
         => project'.repository = project.repository]_vars

\* An upload that nothing disturbs succeeds, whatever earlier attempts, their
\* lost answers and crashes have left at the host.  It fails for good only where
\* there is nothing to add to: no such repository, a foreign one, or a commit
\* people have merged already.  ("idempotent ... delivery", github.py:1)
LostAnswersHeal ==
    \A r \in Run :
        At(r, "failing") /\ pub[r].calm =>
            LET h == host[pub[r].to]
            IN h.base \in {"absent", "foreign"} \/ (r \in h.merged /\ h.base # r)

\* A request that failed once its repository was known is admitted when it is
\* sent again unchanged, with the revision its page had at first, also after a
\* crash between the binding and its acknowledgement, unless others changed the
\* project since or keep it busy.
\* ("The durable receipt guards retries after restart", github_publication.py:118)
RetryAdmitted ==
    \A r \in Run :
        LET c == receipts[r] IN
        /\ LockFree /\ status[r] = "ready_for_review" /\ c.repository
        /\ Editable(r, c.target)
        /\ \/ project.revision = c.expected
           \/ /\ project.revision = c.expected + 1 /\ project.linked
              /\ project.repository = c.target
              /\ c.bound # c.expected
        => Admitted(r, c.mode, c.target, c.expected)

\* The uploads of one run go to the repository its receipt names.
\* ("本次成果已有另一仓库发布记录": there is a record of publication to another
\* repository, github_publication.py:124)
OneTarget ==
    \A r \in Run : \A x \in Repo :
        r \in host[x].branch \cup host[x].merged /\ receipts[r].target # NoRepo
            => x = receipts[r].target

\* An administrator can choose another repository after a name turned out to be
\* in use.  ("请选择已有仓库": choose an existing repository, github.py:182)
OtherNamePossible ==
    \A r \in Run, x \in Repo :
        LockFree /\ receipts[r].state = "creating" /\ status[r] = "ready_for_review"
            /\ host[receipts[r].target].by = "others"
            /\ host[receipts[r].target].base # "absent"
        => Acceptable(r, x)
=============================================================================
