-------------------------- MODULE PublicationProofs --------------------------
(***************************************************************************)
(* For every set of runs and repositories and any number of troubles: what *)
(* PublicationProperties states of publication.                            *)
(*                                                                         *)
(* The inductive invariant says who an upload belongs to and where it goes *)
(* (Placed), that the creator of a repository is in the receipt of its run *)
(* before the repository can exist (Created), what an undisturbed upload   *)
(* has seen and may still rely on (Calm), and in which order revisions get *)
(* into a receipt (Ordered).  A second invariant (Asked) follows a request *)
(* from its receipt to the repository its upload has read.                 *)
(***************************************************************************)
EXTENDS PublicationProperties, TLAPS

\* Uploads of the administrator's request are its own, and every upload beyond
\* its first call has a repository.
Placed ==
    /\ \A r \in Run : pub[r].at # "none" =>
          /\ pub[r].by = "web" => web.at = "upload" /\ web.run = r
          /\ project.repository \in Repo
          /\ pub[r].at # "refs" => pub[r].to \in Repo
    /\ web.at \in {"acknowledge", "publish"} => project.repository \in Repo

\* A run that may create a repository, or has, names it in its receipt.
Created ==
    /\ \A r \in Run, x \in Repo : host[x].by = r =>
          receipts[r].state # "none" /\ receipts[r].target = x
    /\ web.at = "create" =>
          receipts[web.run].state # "none" /\ receipts[web.run].target = web.target

\* What an upload of r at this point knows of the repository if nobody else has
\* changed it since.
Knows(r, h, at) ==
    /\ at = "initial" => h.base = "empty"
    /\ at = "observe" => h.base = r
    /\ at \in {"branch", "find", "open"} => h.base # r
    /\ at = "open" => r \notin h.open
    /\ at = "failing" => \/ h.base \in {"absent", "foreign"}
                         \/ r \in h.merged /\ h.base # r

Calm == \A r \in Run : pub[r].calm => Knows(r, host[pub[r].to], pub[r].at)

\* A receipt knows no revision the project has not reached, it is bound at the
\* revision it was opened at or later, and a repository that is known is not
\* still to be created.
Ordered ==
    /\ \A r \in Run :
          /\ receipts[r].expected <= project.revision
          /\ receipts[r].bound <= project.revision
          /\ receipts[r].bound = 0 \/ receipts[r].expected <= receipts[r].bound
          /\ receipts[r].repository => receipts[r].state \notin {"none", "creating"}
    /\ web.at # "idle" => /\ web.revision <= project.revision
                          /\ receipts[web.run].expected <= web.revision

Inv == TypeOK /\ Placed /\ Created /\ Calm /\ Ordered

-----------------------------------------------------------------------------
\* A request under way has its declared fields.
LEMMA RequestFields ==
    ASSUME TypeOK, web.at # "idle"
    PROVE  web \in RequestShape
BY DEF TypeOK, Idle

\* A request that goes on to another step keeps its fields.
LEMMA RequestGoesOn ==
    ASSUME TypeOK, web.at # "idle",
           NEW at \in {"create", "lookup", "bind", "acknowledge", "publish", "upload",
                       "published", "failed"},
           Goto(at)
    PROVE  /\ web' \in RequestShape /\ web'.at = at /\ web'.run = web.run
           /\ web'.target = web.target /\ web'.revision = web.revision
BY RequestFields DEF Goto, RequestShape

Ats == {"none", "refs", "initial", "observe", "branch", "find", "open", "sync",
        "delivered", "failing"}

\* In after, the upload of r is at another step than in before; its owner and
\* all other uploads are as they were.
OneMoved(before, after, r, at, to, calm) ==
    /\ after \in [Run -> UploadShape]
    /\ after[r].at = at /\ after[r].by = before[r].by
    /\ after[r].to = to /\ (after[r].calm <=> calm)
    /\ \A o \in Run \ {r} : after[o] = before[o]

LEMMA MovedUpload ==
    ASSUME NEW before \in [Run -> UploadShape], NEW r \in Run, NEW at \in Ats,
           NEW after, after = [before EXCEPT ![r].at = at]
    PROVE  OneMoved(before, after, r, at, before[r].to, before[r].calm)
BY DEF OneMoved, UploadShape, Ats

LEMMA FailedUpload ==
    ASSUME NEW before \in [Run -> UploadShape], NEW r \in Run,
           NEW after, after = [before EXCEPT ![r].at = "failing", ![r].calm = FALSE]
    PROVE  OneMoved(before, after, r, "failing", before[r].to, FALSE)
BY DEF OneMoved, UploadShape

LEMMA PlacedUpload ==
    ASSUME NEW before \in [Run -> UploadShape], NEW r \in Run, NEW at \in Ats, NEW x \in Repo,
           NEW after, after = [before EXCEPT ![r].at = at, ![r].to = x]
    PROVE  OneMoved(before, after, r, at, x, before[r].calm)
BY DEF OneMoved, UploadShape, Ats

LEMMA PlacedFailedUpload ==
    ASSUME NEW before \in [Run -> UploadShape], NEW r \in Run, NEW x \in Repo, NEW after,
           after = [before EXCEPT ![r].at = "failing", ![r].to = x, ![r].calm = FALSE]
    PROVE  OneMoved(before, after, r, "failing", x, FALSE)
BY DEF OneMoved, UploadShape

\* Stirred takes away the calm of some uploads and changes nothing else.
LEMMA StirredUploads ==
    ASSUME pub \in [Run -> UploadShape], NEW R \in SUBSET Run
    PROVE  /\ Stirred(R) \in [Run -> UploadShape]
           /\ \A o \in Run : /\ Stirred(R)[o].at = pub[o].at
                             /\ Stirred(R)[o].by = pub[o].by
                             /\ Stirred(R)[o].to = pub[o].to
                             /\ Stirred(R)[o].calm => pub[o].calm /\ o \notin R
BY DEF Stirred, UploadShape

-----------------------------------------------------------------------------
\* One call of the upload of r: nothing but this upload, the host's contents and
\* the base branch of the project changes, and other uploads lose their calm
\* when the host's contents do.
CallOf(r) ==
    /\ pub' \in [Run -> UploadShape] /\ host' \in [Repo -> Host]
    /\ local' \in {"base"} \cup Run /\ troubles' \in 0 .. MaxTroubles
    /\ \A o \in Run : pub'[o].by = pub[o].by
    /\ pub[r].at # "none" /\ pub'[r].at \notin {"none", "refs"} /\ pub'[r].to \in Repo
    /\ pub'[r].calm => Knows(r, host'[pub'[r].to], pub'[r].at)
    /\ \A o \in Run \ {r} :
          /\ pub'[o].at = pub[o].at /\ pub'[o].to = pub[o].to
          /\ pub'[o].calm => pub[o].calm /\ (\A x \in Repo : host'[x] = host[x])
    /\ \A x \in Repo : host'[x].by = host[x].by
    /\ UNCHANGED <<status, active, raised, project, receipts, web>>

LEMMA CallKeepsInv ==
    ASSUME Inv, NEW r \in Run, CallOf(r)
    PROVE  Inv'
<1>1. TypeOK'
  BY DEF Inv, TypeOK, CallOf
<1>2. Placed'
  BY DEF Inv, Placed, CallOf
<1>3. Created'
  BY DEF Inv, Created, CallOf
<1>4. Calm'
  <2> SUFFICES ASSUME NEW o \in Run, pub'[o].calm
               PROVE  Knows(o, host'[pub'[o].to], pub'[o].at)
    BY DEF Calm
  <2>1. CASE o = r
    BY <2>1 DEF CallOf
  <2>2. CASE o # r
    <3>1. /\ pub'[o].at = pub[o].at /\ pub'[o].to = pub[o].to /\ pub[o].calm
          /\ \A x \in Repo : host'[x] = host[x]
      BY <2>2 DEF CallOf
    <3>2. Knows(o, host[pub[o].to], pub[o].at)
      BY <3>1 DEF Inv, Calm
    <3>3. CASE pub[o].at \in {"none", "refs"}
      BY <3>1, <3>3 DEF Knows
    <3>4. CASE pub[o].at \notin {"none", "refs"}
      BY <3>1, <3>2, <3>4 DEF Inv, Placed
    <3> QED
      BY <3>3, <3>4
  <2> QED
    BY <2>1, <2>2
<1>5. Ordered'
  BY DEF Inv, Ordered, CallOf
<1> QED
  BY <1>1, <1>2, <1>3, <1>4, <1>5 DEF Inv

-----------------------------------------------------------------------------
\* The uploads under way, one step at a time.
LEMMA InvTypes ==
    ASSUME Inv
    PROVE  /\ pub \in [Run -> UploadShape] /\ host \in [Repo -> Host]
           /\ receipts \in [Run -> Receipt] /\ local \in {"base"} \cup Run
           /\ status \in [Run -> Statuses] /\ active \subseteq Run
           /\ raised \subseteq active /\ troubles \in 0 .. MaxTroubles
BY DEF Inv, TypeOK

LEMMA TroubleCounts ==
    ASSUME Inv, Trouble
    PROVE  troubles' \in 0 .. MaxTroubles
BY InvTypes, SizesAssumption DEF Trouble

LEMMA ReadRefsKeepsInv ==
    ASSUME Inv, NEW r \in Run, ReadRefs(r)
    PROVE  Inv'
<1> DEFINE x == project.repository
<1>1. x \in Repo /\ pub[r].at = "refs"
  BY DEF ReadRefs, At, Inv, Placed
<1>2. \E at \in {"initial", "observe", "branch", "failing"}, calm \in BOOLEAN :
         /\ OneMoved(pub, pub', r, at, x, calm)
         /\ calm => Knows(r, host[x], at)
         /\ troubles' \in 0 .. MaxTroubles
  <2>0. pub[r].calm \in BOOLEAN
    BY InvTypes DEF UploadShape
  <2>1. CASE host[x].base = "empty" /\ UNCHANGED troubles
             /\ pub' = [pub EXCEPT ![r].at = "initial", ![r].to = x]
    <3>1. OneMoved(pub, pub', r, "initial", x, pub[r].calm)
      BY <1>1, <2>1, InvTypes, PlacedUpload DEF Ats
    <3>2. Knows(r, host[x], "initial")
      BY <2>1 DEF Knows
    <3> QED
      BY <2>0, <2>1, <3>1, <3>2, InvTypes
  <2>2. CASE host[x].base = r /\ UNCHANGED troubles
             /\ pub' = [pub EXCEPT ![r].at = "observe", ![r].to = x]
    <3>1. OneMoved(pub, pub', r, "observe", x, pub[r].calm)
      BY <1>1, <2>2, InvTypes, PlacedUpload DEF Ats
    <3>2. Knows(r, host[x], "observe")
      BY <2>2 DEF Knows
    <3> QED
      BY <2>0, <2>2, <3>1, <3>2, InvTypes
  <2>3. CASE host[x].base \in {"shared"} \cup (Run \ {r}) /\ UNCHANGED troubles
             /\ pub' = [pub EXCEPT ![r].at = "branch", ![r].to = x]
    <3>1. OneMoved(pub, pub', r, "branch", x, pub[r].calm)
      BY <1>1, <2>3, InvTypes, PlacedUpload DEF Ats
    <3>2. Knows(r, host[x], "branch")
      BY <2>3, NamesAssumption DEF Knows
    <3> QED
      BY <2>0, <2>3, <3>1, <3>2, InvTypes
  <2>4. CASE host[x].base \in {"absent", "foreign"} /\ UNCHANGED troubles
             /\ pub' = [pub EXCEPT ![r].at = "failing", ![r].to = x]
    <3>1. OneMoved(pub, pub', r, "failing", x, pub[r].calm)
      BY <1>1, <2>4, InvTypes, PlacedUpload DEF Ats
    <3>2. Knows(r, host[x], "failing")
      BY <2>4 DEF Knows
    <3> QED
      BY <2>0, <2>4, <3>1, <3>2, InvTypes
  <2>5. CASE Trouble /\ pub' = [pub EXCEPT ![r].at = "failing", ![r].to = x, ![r].calm = FALSE]
    <3>1. OneMoved(pub, pub', r, "failing", x, FALSE)
      BY <1>1, <2>5, InvTypes, PlacedFailedUpload
    <3> QED
      BY <2>5, <3>1, TroubleCounts
  <2> QED
    BY <2>1, <2>2, <2>3, <2>4, <2>5 DEF ReadRefs
<1>3. CallOf(r)
  <2>1. host' = host /\ UNCHANGED <<local, status, active, raised, project, receipts, web>>
    BY DEF ReadRefs
  <2> QED
    BY <1>1, <1>2, <2>1, InvTypes DEF CallOf, OneMoved
<1> QED
  BY <1>3, CallKeepsInv

\* A call that changes the host, whatever becomes of it.
LEMMA CallsKeepsInv ==
    ASSUME Inv, NEW r \in Run, NEW changed \in Host,
           NEW next \in {"observe", "find", "delivered"},
           pub[r].at \notin {"none", "refs"},
           changed.by = host[pub[r].to].by,
           pub[r].calm => Knows(r, changed, next),
           Calls(r, changed, next),
           UNCHANGED <<status, active, raised, project, receipts, local, web>>
    PROVE  Inv'
<1> DEFINE x == pub[r].to
           uploads == Stirred(Run \ {r})
<1>1. x \in Repo
  BY DEF Inv, Placed
<1>2. /\ uploads \in [Run -> UploadShape]
      /\ \A o \in Run : /\ uploads[o].at = pub[o].at /\ uploads[o].by = pub[o].by
                        /\ uploads[o].to = pub[o].to
                        /\ uploads[o].calm => pub[o].calm /\ o \notin Run \ {r}
  BY InvTypes, StirredUploads
<1>a. Calls(r, changed, next) =>
         \/ /\ host' = [host EXCEPT ![x] = changed]
            /\ pub' = [(IF changed = host[x] THEN pub ELSE uploads) EXCEPT ![r].at = next]
            /\ UNCHANGED troubles
         \/ /\ Trouble /\ host' \in {host, [host EXCEPT ![x] = changed]}
            /\ pub' = [(IF host' = host THEN pub ELSE uploads) EXCEPT
                         ![r].at = "failing", ![r].calm = FALSE]
  BY DEF Calls
<1> HIDE DEF uploads
<1>3. host' \in {host, [host EXCEPT ![x] = changed]}
  BY DEF Calls
<1>4. /\ host' \in [Repo -> Host]
      /\ \A y \in Repo : host'[y].by = host[y].by
  BY <1>1, <1>3, InvTypes
<1>5. \E before \in {pub, uploads}, at \in {next, "failing"}, calm \in BOOLEAN :
         /\ OneMoved(before, pub', r, at, x, calm)
         /\ before = uploads \/ (\A y \in Repo : host'[y] = host[y])
         /\ calm => at = next /\ host'[x] = changed /\ pub[r].calm
         /\ troubles' \in 0 .. MaxTroubles
  <2>1. \A before \in {pub, uploads} :
           /\ before \in [Run -> UploadShape] /\ before[r].to = x
           /\ before[r].calm \in BOOLEAN /\ (before[r].calm => pub[r].calm)
    BY <1>2, InvTypes DEF UploadShape
  <2>2. CASE /\ host' = [host EXCEPT ![x] = changed]
             /\ pub' = [(IF changed = host[x] THEN pub ELSE uploads) EXCEPT ![r].at = next]
             /\ UNCHANGED troubles
    <3>1. host'[x] = changed /\ troubles' \in 0 .. MaxTroubles
      BY <1>1, <2>2, InvTypes
    <3>2. CASE changed = host[x]
      <4>1. OneMoved(pub, pub', r, next, pub[r].to, pub[r].calm)
        BY <2>2, <3>2, InvTypes, MovedUpload DEF Ats
      <4>2. \A y \in Repo : host'[y] = host[y]
        BY <2>2, <3>2, InvTypes
      <4> QED
        BY <2>1, <3>1, <4>1, <4>2
    <3>3. CASE changed # host[x]
      <4>0. pub' = [uploads EXCEPT ![r].at = next] /\ next \in Ats
        BY <2>2, <3>3 DEF Ats
      <4>1. OneMoved(uploads, pub', r, next, uploads[r].to, uploads[r].calm)
        BY <1>2, <4>0, MovedUpload
      <4> QED
        BY <2>1, <3>1, <4>1
    <3> QED
      BY <3>2, <3>3
  <2>3. CASE /\ Trouble /\ host' \in {host, [host EXCEPT ![x] = changed]}
             /\ pub' = [(IF host' = host THEN pub ELSE uploads) EXCEPT
                          ![r].at = "failing", ![r].calm = FALSE]
    <3>1. troubles' \in 0 .. MaxTroubles
      BY <2>3, TroubleCounts
    <3>2. CASE host' = host
      <4>1. OneMoved(pub, pub', r, "failing", pub[r].to, FALSE)
        BY <2>3, <3>2, InvTypes, FailedUpload
      <4> QED
        BY <2>1, <3>1, <3>2, <4>1
    <3>3. CASE host' # host
      <4>1. OneMoved(uploads, pub', r, "failing", uploads[r].to, FALSE)
        BY <1>2, <2>3, <3>3, FailedUpload
      <4> QED
        BY <2>1, <3>1, <4>1
    <3> QED
      BY <3>2, <3>3
  <2> QED
    BY <1>a, <2>2, <2>3
<1>6. CallOf(r)
  <2>1. PICK before \in {pub, uploads}, at \in {next, "failing"}, calm \in BOOLEAN :
           /\ OneMoved(before, pub', r, at, x, calm)
           /\ before = uploads \/ (\A y \in Repo : host'[y] = host[y])
           /\ calm => at = next /\ host'[x] = changed /\ pub[r].calm
           /\ troubles' \in 0 .. MaxTroubles
    BY <1>5
  <2>2. /\ pub' \in [Run -> UploadShape] /\ pub'[r].at = at /\ pub'[r].by = pub[r].by
        /\ pub'[r].to = x /\ (pub'[r].calm <=> calm)
        /\ \A o \in Run \ {r} : pub'[o] = before[o]
    BY <1>2, <2>1 DEF OneMoved
  <2>3. \A o \in Run \ {r} :
           /\ pub'[o].at = pub[o].at /\ pub'[o].to = pub[o].to /\ pub'[o].by = pub[o].by
           /\ pub'[o].calm => pub[o].calm /\ (\A y \in Repo : host'[y] = host[y])
    BY <1>2, <2>1, <2>2
  <2>4. pub'[r].calm => Knows(r, host'[pub'[r].to], pub'[r].at)
    BY <2>1, <2>2
  <2>5. local' \in {"base"} \cup Run /\ UNCHANGED <<status, active, raised, project, receipts, web>>
    BY InvTypes
  <2> QED
    BY <1>1, <1>4, <2>1, <2>2, <2>3, <2>4, <2>5 DEF CallOf
<1> QED
  BY <1>6, CallKeepsInv

\* A step that leaves the host alone and whose outcome does not matter to it.
LEMMA QuietStepKeepsInv ==
    ASSUME Inv, NEW r \in Run, NEW at \in {"find", "open", "sync", "delivered", "failing"},
           pub[r].at \notin {"none", "refs"},
           \/ Move(r, at) /\ UNCHANGED troubles
              /\ (pub[r].calm => Knows(r, host[pub[r].to], at))
           \/ Trouble /\ pub' = [pub EXCEPT ![r].at = "failing", ![r].calm = FALSE],
           local' \in {"base"} \cup Run,
           UNCHANGED <<status, active, raised, project, receipts, host, web>>
    PROVE  Inv'
<1>1. pub[r].to \in Repo
  BY DEF Inv, Placed
<1>2. CASE Move(r, at) /\ UNCHANGED troubles
           /\ (pub[r].calm => Knows(r, host[pub[r].to], at))
  <2>0. pub' = [pub EXCEPT ![r].at = at] /\ at \in Ats
    BY <1>2 DEF Move, Ats
  <2>1. OneMoved(pub, pub', r, at, pub[r].to, pub[r].calm)
    BY <2>0, InvTypes, MovedUpload
  <2>2. CallOf(r)
    BY <1>1, <1>2, <2>1, InvTypes DEF CallOf, OneMoved
  <2> QED
    BY <2>2, CallKeepsInv
<1>3. CASE Trouble /\ pub' = [pub EXCEPT ![r].at = "failing", ![r].calm = FALSE]
  <2>1. OneMoved(pub, pub', r, "failing", pub[r].to, FALSE)
    BY <1>3, InvTypes, FailedUpload
  <2>2. CallOf(r)
    BY <1>1, <1>3, <2>1, TroubleCounts, InvTypes DEF CallOf, OneMoved
  <2> QED
    BY <2>2, CallKeepsInv
<1> QED
  BY <1>2, <1>3

LEMMA PushInitialKeepsInv ==
    ASSUME Inv, NEW r \in Run, PushInitial(r)
    PROVE  Inv'
<1> DEFINE h == host[pub[r].to]
           changed == [h EXCEPT !.base = r, !.merged = @ \cup {r}]
<1>1. pub[r].at = "initial" /\ pub[r].to \in Repo
  BY DEF PushInitial, At, Inv, Placed
<1>2. UNCHANGED <<status, active, raised, project, receipts, local, web>>
  BY DEF PushInitial
<1>3. CASE h.base \in {"empty", r} /\ Calls(r, changed, "observe")
  <2>1. changed \in Host /\ changed.by = h.by /\ changed.base = r
    BY <1>1, InvTypes DEF Host
  <2>2. Knows(r, changed, "observe")
    BY <2>1 DEF Knows
  <2> HIDE DEF changed
  <2> QED
    BY <1>1, <1>2, <1>3, <2>1, <2>2, CallsKeepsInv
<1>4. CASE h.base \notin {"empty", r} /\ Refused(r)
  <2>1. ~pub[r].calm
    BY <1>1, <1>4 DEF Inv, Calm, Knows
  <2> QED
    BY <1>1, <1>2, <1>4, <2>1, InvTypes, QuietStepKeepsInv DEF Refused
<1> QED
  BY <1>3, <1>4 DEF PushInitial

LEMMA ObserveInitialKeepsInv ==
    ASSUME Inv, NEW r \in Run, ObserveInitial(r)
    PROVE  Inv'
<1>1. pub[r].at = "observe"
  BY DEF ObserveInitial, At
<1>2. UNCHANGED <<status, active, raised, project, receipts, local, host, web>>
  BY DEF ObserveInitial
<1>3. CASE Move(r, "sync") /\ UNCHANGED troubles
  <2>1. Knows(r, host[pub[r].to], "sync")
    BY DEF Knows
  <2> QED
    BY <1>1, <1>2, <1>3, <2>1, InvTypes, QuietStepKeepsInv
<1>4. CASE host[pub[r].to].base # r /\ Move(r, "failing") /\ UNCHANGED troubles
  <2>1. ~pub[r].calm
    BY <1>1, <1>4 DEF Inv, Calm, Knows
  <2> QED
    BY <1>1, <1>2, <1>4, <2>1, InvTypes, QuietStepKeepsInv
<1>5. CASE Trouble /\ pub' = [pub EXCEPT ![r].at = "failing", ![r].calm = FALSE]
  BY <1>1, <1>2, <1>5, InvTypes, QuietStepKeepsInv
<1> QED
  BY <1>3, <1>4, <1>5 DEF ObserveInitial

LEMMA PushBranchKeepsInv ==
    ASSUME Inv, NEW r \in Run, PushBranch(r)
    PROVE  Inv'
<1> DEFINE h == host[pub[r].to]
           changed == [h EXCEPT !.branch = @ \cup {r}]
<1>1. pub[r].at = "branch" /\ pub[r].to \in Repo
  BY DEF PushBranch, At, Inv, Placed
<1>2. /\ UNCHANGED <<status, active, raised, project, receipts, local, web>>
      /\ Calls(r, changed, "find")
  BY DEF PushBranch
<1>3. changed \in Host /\ changed.by = h.by /\ changed.base = h.base
  BY <1>1, InvTypes DEF Host
<1>4. pub[r].calm => Knows(r, changed, "find")
  BY <1>1, <1>3 DEF Inv, Calm, Knows
<1> HIDE DEF changed
<1> QED
  BY <1>1, <1>2, <1>3, <1>4, CallsKeepsInv

LEMMA FindPullRequestKeepsInv ==
    ASSUME Inv, NEW r \in Run, FindPullRequest(r)
    PROVE  Inv'
<1>1. pub[r].at = "find"
  BY DEF FindPullRequest, At
<1>2. UNCHANGED <<status, active, raised, project, receipts, local, host, web>>
  BY DEF FindPullRequest
<1>3. CASE Move(r, AfterFind(r)) /\ UNCHANGED troubles
  <2>1. AfterFind(r) \in {"delivered", "open"}
    BY DEF AfterFind
  <2>2. pub[r].calm => Knows(r, host[pub[r].to], AfterFind(r))
    BY <1>1 DEF Inv, Calm, Knows, AfterFind
  <2> QED
    BY <1>1, <1>2, <1>3, <2>1, <2>2, InvTypes, QuietStepKeepsInv
<1>4. CASE Trouble /\ pub' = [pub EXCEPT ![r].at = "failing", ![r].calm = FALSE]
  BY <1>1, <1>2, <1>4, InvTypes, QuietStepKeepsInv
<1> QED
  BY <1>3, <1>4 DEF FindPullRequest

LEMMA OpenPullRequestKeepsInv ==
    ASSUME Inv, NEW r \in Run, OpenPullRequest(r)
    PROVE  Inv'
<1> DEFINE h == host[pub[r].to]
           changed == [h EXCEPT !.open = @ \cup {r}]
<1>1. pub[r].at = "open" /\ pub[r].to \in Repo
  BY DEF OpenPullRequest, At, Inv, Placed
<1>2. UNCHANGED <<status, active, raised, project, receipts, local, web>>
  BY DEF OpenPullRequest
<1>3. CASE r \notin h.open \cup h.merged /\ Calls(r, changed, "delivered")
  <2>1. changed \in Host /\ changed.by = h.by
    BY <1>1, InvTypes DEF Host
  <2>2. Knows(r, changed, "delivered")
    BY DEF Knows
  <2> HIDE DEF changed
  <2> QED
    BY <1>1, <1>2, <1>3, <2>1, <2>2, CallsKeepsInv
<1>4. CASE r \in h.open \cup h.merged /\ Refused(r)
  <2>1. pub[r].calm => Knows(r, h, "failing")
    BY <1>1, <1>4 DEF Inv, Calm, Knows
  <2> QED
    BY <1>1, <1>2, <1>4, <2>1, InvTypes, QuietStepKeepsInv DEF Refused
<1> QED
  BY <1>3, <1>4 DEF OpenPullRequest

LEMMA SyncBaselineKeepsInv ==
    ASSUME Inv, NEW r \in Run, SyncBaseline(r)
    PROVE  Inv'
<1>1. pub[r].at = "sync"
  BY DEF SyncBaseline, At
<1>2. local' \in {"base"} \cup Run
  BY InvTypes DEF SyncBaseline
<1>3. Knows(r, host[pub[r].to], "delivered")
  BY DEF Knows
<1> QED
  BY <1>1, <1>2, <1>3, InvTypes, QuietStepKeepsInv DEF SyncBaseline

-----------------------------------------------------------------------------
\* The request that holds the lock, as long as it does not upload.

\* What every receipt owes to Created and Ordered.
InOrder(c) ==
    /\ c.expected <= project.revision /\ c.bound <= project.revision
    /\ c.bound = 0 \/ c.expected <= c.bound
    /\ c.repository => c.state \notin {"none", "creating"}

Follows(c, old) ==
    /\ c \in Receipt /\ InOrder(c)
    /\ old.state # "none" => c.state # "none" /\ c.target = old.target

LEMMA RequestStepKeepsInv ==
    ASSUME Inv, web.at # "upload",
           UNCHANGED <<status, active, raised, project, local, host, pub>>,
           troubles' \in 0 .. MaxTroubles,
           receipts' \in [Run -> Receipt],
           \A r \in Run : Follows(receipts'[r], receipts[r]),
           web' \in {Idle} \cup RequestShape,
           web'.at \in {"acknowledge", "publish"} => project.repository \in Repo,
           web'.at = "create" => /\ receipts'[web'.run].state # "none"
                                 /\ receipts'[web'.run].target = web'.target,
           web'.at # "idle" => /\ web'.revision <= project.revision
                               /\ receipts'[web'.run].expected <= web'.revision
    PROVE  Inv'
<1>1. TypeOK'
  BY DEF Inv, TypeOK
<1>2. Placed'
  BY DEF Inv, Placed
<1>3. Created'
  BY DEF Inv, Created, Follows
<1>4. Calm'
  BY DEF Inv, Calm
<1>5. Ordered'
  BY DEF Inv, Ordered, Follows, InOrder
<1> QED
  BY <1>1, <1>2, <1>3, <1>4, <1>5 DEF Inv

LEMMA ReceiptsFollow ==
    ASSUME Inv, NEW r \in Run
    PROVE  Follows(receipts[r], receipts[r])
BY InvTypes DEF Inv, Ordered, Follows, InOrder

LEMMA SavedReceipt ==
    ASSUME Inv, NEW r \in Run, NEW c, Follows(c, receipts[r]), Save(r, c)
    PROVE  /\ receipts' \in [Run -> Receipt] /\ receipts'[r] = c
           /\ \A o \in Run : Follows(receipts'[o], receipts[o])
BY InvTypes, ReceiptsFollow DEF Save, Follows

LEMMA ProjectTypes ==
    ASSUME Inv
    PROVE  /\ project.revision \in 1 .. MaxRevision
           /\ project.repository \in {Local} \cup Repo
           /\ project = [repository |-> project.repository, linked |-> project.linked,
                         revision |-> project.revision]
           /\ MaxRevision \in Nat
BY SizesAssumption DEF Inv, TypeOK

\* A receipt that is completed after a crash stays in order.
LEMMA HealedReceipt ==
    ASSUME Inv, NEW r \in Run, NEW t \in Repo
    PROVE  /\ Follows(Healed(r, t), receipts[r])
           /\ Healed(r, t).state = receipts[r].state
           /\ Healed(r, t).expected = receipts[r].expected
           /\ Healed(r, t).repository = receipts[r].repository
           /\ Healed(r, t).mode = receipts[r].mode
           /\ Healed(r, t).target = receipts[r].target
<1> DEFINE c == receipts[r]
           heals == /\ c.state # "none" /\ c.bound = 0 /\ c.repository
                    /\ project.revision = c.expected + 1 /\ project.linked
                    /\ project.repository = t
<1>1. c \in Receipt /\ InOrder(c)
  BY InvTypes, ReceiptsFollow DEF Follows
<1>2. CASE heals
  <2>1. Healed(r, t) = [c EXCEPT !.bound = project.revision]
    BY <1>2 DEF Healed
  <2>2. /\ Healed(r, t) \in Receipt
        /\ Healed(r, t).state = c.state /\ Healed(r, t).expected = c.expected
        /\ Healed(r, t).repository = c.repository /\ Healed(r, t).mode = c.mode
        /\ Healed(r, t).target = c.target /\ Healed(r, t).bound = project.revision
    BY <1>1, <2>1, ProjectTypes DEF Receipt
  <2>3. c.expected <= project.revision /\ project.revision <= project.revision
    BY <1>1, ProjectTypes DEF InOrder
  <2> QED
    BY <1>1, <2>2, <2>3 DEF Follows, InOrder
<1>3. CASE ~heals
  <2>1. Healed(r, t) = c
    BY <1>3 DEF Healed
  <2> QED
    BY <1>1, <2>1 DEF Follows
<1> QED
  BY <1>2, <1>3

LEMMA PreparedReceipt ==
    ASSUME Inv, NEW r \in Run, NEW mode \in {"create", "existing"}, NEW t \in Repo,
           NEW v \in 1 .. project.revision
    PROVE  /\ Follows(Prepared(r, mode, t, v), receipts[r])
           /\ Prepared(r, mode, t, v).state # "none"
           /\ receipts[r].state = "none" =>
                 Prepared(r, mode, t, v).target = t /\ Prepared(r, mode, t, v).expected = v
           /\ Prepared(r, mode, t, v).repository => receipts[r].repository
<1>1. CASE receipts[r].state # "none"
  BY <1>1, HealedReceipt DEF Prepared, Follows
<1>2. CASE receipts[r].state = "none"
  <2>1. Prepared(r, mode, t, v) =
          [state |-> "prepared", target |-> t, mode |-> mode, expected |-> v,
           repository |-> FALSE, bound |-> 0]
    BY <1>2 DEF Prepared, NoReceipt
  <2>2. v \in 0 .. MaxRevision /\ v <= project.revision /\ 0 <= project.revision
    BY ProjectTypes
  <2>3. /\ [state |-> "prepared", target |-> t, mode |-> mode, expected |-> v,
            repository |-> FALSE, bound |-> 0] \in Receipt
        /\ 0 \in 0 .. MaxRevision
    BY <2>2, ProjectTypes DEF Receipt
  <2> QED
    BY <1>2, <2>1, <2>2, <2>3 DEF Follows, InOrder
<1> QED
  BY <1>1, <1>2

LEMMA LearnedReceipt ==
    ASSUME Inv, web.at # "idle", Learned
    PROVE  /\ receipts' \in [Run -> Receipt]
           /\ \A o \in Run : Follows(receipts'[o], receipts[o])
           /\ receipts'[web.run].expected <= web.revision
<1> DEFINE r == web.run
           p == Prepared(r, "existing", web.target, web.revision)
           c == [p EXCEPT !.repository = TRUE, !.state = "prepared"]
<1>1. web \in RequestShape
  BY RequestFields DEF Inv
<1>2. /\ r \in Run /\ web.target \in Repo /\ web.revision \in 1 .. project.revision
      /\ receipts[r].expected <= web.revision
  BY <1>1, ProjectTypes DEF Inv, Ordered, RequestShape
<1>3. /\ Follows(p, receipts[r]) /\ p.state # "none"
      /\ receipts[r].state = "none" => p.expected = web.revision
  BY <1>2, PreparedReceipt
<1>4. receipts[r].state # "none" => p.expected = receipts[r].expected
  BY <1>2, HealedReceipt DEF Prepared
<1> HIDE DEF p
<1>5. c \in Receipt /\ c.expected = p.expected /\ c.bound = p.bound /\ c.target = p.target
      /\ c.state = "prepared"
  BY <1>3 DEF Receipt, Follows
<1>6. Save(r, c)
  BY DEF Learned, p
<1> HIDE DEF c
<1>7. Follows(c, receipts[r])
  BY <1>3, <1>5 DEF Follows, InOrder
<1>8. c.expected <= web.revision
  BY <1>2, <1>3, <1>4, <1>5, ProjectTypes
<1> QED
  BY <1>2, <1>6, <1>7, <1>8, SavedReceipt

LEMMA RequestKeepsInv ==
    ASSUME Inv, NEW r \in Run, NEW mode \in {"create", "existing"}, NEW t \in Repo,
           NEW v \in 1 .. project.revision, Request(r, mode, t, v)
    PROVE  Inv'
<1> DEFINE c == Prepared(r, mode, t, v)
           next == IF ~c.repository THEN (IF mode = "create" THEN "create" ELSE "lookup")
                   ELSE IF ResumesBound(r, t) THEN "publish" ELSE "bind"
<1>1. /\ web.at = "idle" /\ UNCHANGED <<status, active, raised, project, local, host, pub, troubles>>
      /\ troubles' \in 0 .. MaxTroubles
  BY InvTypes DEF Request, LockFree
<1>2. /\ Follows(c, receipts[r]) /\ c.state # "none"
      /\ receipts[r].state = "none" => c.target = t
  BY PreparedReceipt
<1>3. CASE /\ Admitted(r, mode, t, v)
           /\ web' = [at |-> next, run |-> r, target |-> t, revision |-> project.revision]
           /\ Save(r, IF ~c.repository /\ mode = "create" THEN BeforeCreation(c)
                      ELSE IF c.repository THEN c ELSE receipts[r])
  <2>1. next \in {"create", "lookup", "publish", "bind"}
    OBVIOUS
  <2>2. /\ web' \in RequestShape /\ web'.at = next /\ web'.run = r /\ web'.target = t
        /\ web'.revision = project.revision
    BY <1>3, <2>1, ProjectTypes DEF RequestShape
  <2>3. c.target = t
    BY <1>2, <1>3 DEF Admitted, Acceptable, Follows
  <2>4. next = "publish" => project.repository \in Repo
    BY DEF ResumesBound
  <2>5. \E s : /\ Save(r, s) /\ Follows(s, receipts[r])
               /\ next = "create" => s.state # "none" /\ s.target = t
    <3>1. CASE ~c.repository /\ mode = "create"
      <4>1. /\ BeforeCreation(c) \in Receipt
            /\ BeforeCreation(c).state = "creating" /\ BeforeCreation(c).target = c.target
            /\ BeforeCreation(c).expected = c.expected /\ BeforeCreation(c).bound = c.bound
            /\ ~BeforeCreation(c).repository
        BY <1>2, <3>1 DEF BeforeCreation, Receipt, Follows
      <4>2. Follows(BeforeCreation(c), receipts[r])
        BY <1>2, <4>1 DEF Follows, InOrder
      <4> QED
        BY <1>3, <2>3, <3>1, <4>1, <4>2
    <3>2. CASE c.repository
      BY <1>2, <1>3, <3>2
    <3>3. CASE ~c.repository /\ mode # "create"
      BY <1>3, <3>3, ReceiptsFollow
    <3> QED
      BY <3>1, <3>2, <3>3
  <2>6. PICK s : /\ Save(r, s) /\ Follows(s, receipts[r])
                 /\ next = "create" => s.state # "none" /\ s.target = t
    BY <2>5
  <2>7. /\ receipts' \in [Run -> Receipt] /\ receipts'[r] = s
        /\ \A o \in Run : Follows(receipts'[o], receipts[o])
    BY <2>6, SavedReceipt
  <2>8. s.expected <= project.revision /\ project.revision <= project.revision
    BY <2>6, ProjectTypes DEF Follows, InOrder
  <2> HIDE DEF next, c
  <2> QED
    BY <1>1, <2>1, <2>2, <2>4, <2>6, <2>7, <2>8, RequestStepKeepsInv
<1>4. CASE Save(r, Healed(r, t)) /\ UNCHANGED web
  <2>1. /\ receipts' \in [Run -> Receipt]
        /\ \A o \in Run : Follows(receipts'[o], receipts[o])
    BY <1>4, HealedReceipt, SavedReceipt
  <2>2. web' \in {Idle} \cup RequestShape /\ web'.at = "idle" /\ web.at # "upload"
    BY <1>1, <1>4 DEF Inv, TypeOK
  <2> QED
    BY <1>1, <2>1, <2>2, RequestStepKeepsInv
<1> QED
  BY <1>3, <1>4 DEF Request

\* A request that is given up.
LEMMA GivenUpKeepsInv ==
    ASSUME Inv, web.at # "upload", web' = Idle, troubles' \in 0 .. MaxTroubles,
           UNCHANGED <<status, active, raised, project, receipts, local, host, pub>>
    PROVE  Inv'
<1>1. web' \in {Idle} \cup RequestShape /\ web'.at = "idle"
  BY DEF Idle
<1>2. receipts' \in [Run -> Receipt] /\ \A o \in Run : Follows(receipts'[o], receipts[o])
  BY InvTypes, ReceiptsFollow
<1> QED
  BY <1>1, <1>2, RequestStepKeepsInv

LEMMA LookupRepositoryKeepsInv ==
    ASSUME Inv, LookupRepository
    PROVE  Inv'
<1>1. web.at = "lookup" /\ UNCHANGED <<status, active, raised, project, local, host, pub>>
  BY DEF LookupRepository, Here
<1>2. CASE Learned /\ Goto("bind") /\ UNCHANGED troubles
  <2>1. /\ web' \in RequestShape /\ web'.at = "bind" /\ web'.run = web.run
        /\ web'.revision = web.revision
    BY <1>1, <1>2, RequestGoesOn DEF Inv
  <2>2. web.revision <= project.revision
    BY <1>1 DEF Inv, Ordered
  <2> QED
    BY <1>1, <1>2, <2>1, <2>2, LearnedReceipt, InvTypes, RequestStepKeepsInv
<1>3. CASE web' = Idle /\ UNCHANGED <<receipts, troubles>>
  BY <1>1, <1>3, GivenUpKeepsInv, InvTypes
<1>4. CASE Trouble /\ web' = Idle /\ UNCHANGED receipts
  BY <1>1, <1>4, GivenUpKeepsInv, TroubleCounts
<1> QED
  BY <1>2, <1>3, <1>4 DEF LookupRepository

LEMMA AcknowledgeKeepsInv ==
    ASSUME Inv, Acknowledge
    PROVE  Inv'
<1> DEFINE r == web.run
           c == [receipts[r] EXCEPT !.bound = web.revision]
<1>1. /\ web.at = "acknowledge" /\ Save(r, c) /\ Goto("publish")
      /\ UNCHANGED <<status, active, raised, project, local, host, pub, troubles>>
  BY DEF Acknowledge, Here
<1>2. web \in RequestShape /\ r \in Run /\ web.revision \in 1 .. MaxRevision
  BY <1>1, RequestFields DEF Inv, RequestShape
<1>3. /\ web.revision <= project.revision /\ receipts[r].expected <= web.revision
      /\ project.repository \in Repo
  BY <1>1 DEF Inv, Ordered, Placed
<1>4. receipts[r] \in Receipt
  BY <1>2, InvTypes
<1>5. /\ c \in Receipt /\ c.bound = web.revision /\ c.state = receipts[r].state
      /\ c.expected = receipts[r].expected /\ c.target = receipts[r].target
      /\ c.repository = receipts[r].repository
  BY <1>2, <1>4 DEF Receipt
<1> HIDE DEF c
<1>6. Follows(c, receipts[r])
  BY <1>2, <1>3, <1>5, ReceiptsFollow DEF Follows, InOrder
<1>7. /\ receipts' \in [Run -> Receipt] /\ receipts'[r] = c
      /\ \A o \in Run : Follows(receipts'[o], receipts[o])
  BY <1>1, <1>2, <1>6, SavedReceipt
<1>8. /\ web' \in RequestShape /\ web'.at = "publish" /\ web'.run = r
      /\ web'.revision = web.revision
  BY <1>1, RequestGoesOn DEF Inv
<1> QED
  BY <1>1, <1>3, <1>5, <1>7, <1>8, InvTypes, RequestStepKeepsInv

LEMMA EndRequestKeepsInv ==
    ASSUME Inv, EndRequest
    PROVE  Inv'
<1> DEFINE r == web.run
           c == [receipts[r] EXCEPT !.state = web.at]
<1>1. /\ web.at \in {"published", "failed"} /\ Save(r, c) /\ web' = Idle
      /\ UNCHANGED <<status, active, raised, project, local, host, pub, troubles>>
  BY DEF EndRequest
<1>2. r \in Run
  BY <1>1, RequestFields DEF Inv, RequestShape
<1>3. receipts[r] \in Receipt
  BY <1>2, InvTypes
<1>4. /\ c \in Receipt /\ c.bound = receipts[r].bound /\ c.state = web.at
      /\ c.expected = receipts[r].expected /\ c.target = receipts[r].target
      /\ c.repository = receipts[r].repository
  BY <1>1, <1>3 DEF Receipt
<1> HIDE DEF c
<1>5. Follows(c, receipts[r])
  BY <1>1, <1>2, <1>4, ReceiptsFollow DEF Follows, InOrder
<1>6. web'.at = "idle" /\ web' \in {Idle} \cup RequestShape
  BY <1>1 DEF Idle
<1> QED
  BY <1>1, <1>2, <1>5, <1>6, SavedReceipt, InvTypes, RequestStepKeepsInv

LEMMA BindKeepsInv ==
    ASSUME Inv, Bind
    PROVE  Inv'
<1> DEFINE t == web.target
<1>1. web.at = "bind" /\ UNCHANGED <<status, active, raised, receipts, local, host, pub, troubles>>
  BY DEF Bind, Here
<1>2. web \in RequestShape /\ t \in Repo
  BY <1>1, RequestFields DEF Inv, RequestShape
<1>3. web.revision <= project.revision /\ receipts[web.run].expected <= web.revision
  BY <1>1 DEF Inv, Ordered
<1>4. CASE project.repository = t /\ Goto("acknowledge") /\ UNCHANGED project
  <2>1. /\ web' \in RequestShape /\ web'.at = "acknowledge" /\ web'.run = web.run
        /\ web'.revision = web.revision
    BY <1>1, <1>4, RequestGoesOn DEF Inv
  <2> QED
    BY <1>1, <1>2, <1>3, <1>4, <2>1, InvTypes, ReceiptsFollow, RequestStepKeepsInv
<1>5. CASE /\ web.revision = project.revision /\ project.revision < MaxRevision
           /\ project' = [repository |-> t, linked |-> TRUE,
                          revision |-> project.revision + 1]
           /\ web' = [web EXCEPT !.at = "acknowledge", !.revision = @ + 1]
  <2>1. project.revision + 1 \in 1 .. MaxRevision /\ project.revision \in Nat
    BY <1>5, ProjectTypes
  <2>2. /\ project' \in [repository : {Local} \cup Repo, linked : BOOLEAN,
                         revision : 1 .. MaxRevision]
        /\ project'.repository \in Repo /\ project'.revision = project.revision + 1
    BY <1>2, <1>5, <2>1
  <2>3. /\ web' \in RequestShape /\ web'.at = "acknowledge" /\ web'.run = web.run
        /\ web'.target = t /\ web'.revision = project.revision + 1
    BY <1>2, <1>5, <2>1 DEF RequestShape
  <2>4. \A r \in Run : /\ receipts[r].expected \in Nat /\ receipts[r].bound \in Nat
                       /\ receipts[r].expected <= project.revision
                       /\ receipts[r].bound <= project.revision
    <3> SUFFICES ASSUME NEW r \in Run
                 PROVE  /\ receipts[r].expected \in Nat /\ receipts[r].bound \in Nat
                        /\ receipts[r].expected <= project.revision
                        /\ receipts[r].bound <= project.revision
      OBVIOUS
    <3>1. receipts[r] \in Receipt /\ InOrder(receipts[r])
      BY ReceiptsFollow DEF Follows
    <3> QED
      BY <3>1, ProjectTypes DEF InOrder, Receipt
  <2>5. web.run \in Run
    BY <1>2 DEF RequestShape
  <2>6. TypeOK'
    BY <1>1, <2>2, <2>3 DEF Inv, TypeOK
  <2>7. Placed'
    BY <1>1, <2>2, <2>3 DEF Inv, Placed
  <2>8. Created'
    BY <1>1, <2>3 DEF Inv, Created
  <2>9. Calm'
    BY <1>1 DEF Inv, Calm
  <2>10. /\ \A r \in Run : /\ receipts[r].expected <= project.revision + 1
                           /\ receipts[r].bound <= project.revision + 1
         /\ project.revision + 1 <= project.revision + 1
    BY <2>1, <2>4
  <2>11. Ordered'
    BY <1>1, <2>2, <2>3, <2>5, <2>10 DEF Inv, Ordered
  <2> QED
    BY <2>6, <2>7, <2>8, <2>9, <2>11 DEF Inv
<1>6. CASE web' = Idle /\ UNCHANGED project
  BY <1>1, <1>6, InvTypes, GivenUpKeepsInv
<1> QED
  BY <1>4, <1>5, <1>6 DEF Bind

-----------------------------------------------------------------------------
\* Others change the host: what is calm is as it was.
LEMMA StirringKeepsCalm ==
    ASSUME Inv,
           \A o \in Run : /\ pub'[o].at = pub[o].at /\ pub'[o].to = pub[o].to
                          /\ pub'[o].calm => pub[o].calm /\ host' = host
    PROVE  Calm'
BY DEF Inv, Calm

LEMMA CreateRepositoryKeepsInv ==
    ASSUME Inv, CreateRepository
    PROVE  Inv'
<1> DEFINE x == web.target
           made == [host EXCEPT ![x].by = web.run, ![x].base = "empty"]
<1>1. /\ web.at = "create" /\ UNCHANGED <<status, active, raised, project, local>>
      /\ pub' = IF host' = host THEN pub ELSE Stirred(Run)
  BY DEF CreateRepository, Here
<1>2. web \in RequestShape /\ x \in Repo /\ web.run \in Run
  BY <1>1, RequestFields DEF Inv, RequestShape
<1>3. /\ made \in [Repo -> Host]
      /\ \A y \in Repo : made[y].by = host[y].by \/ (y = x /\ made[y].by = web.run)
  <2>1. /\ host[x] \in Host
        /\ \A y \in Repo \ {x} : made[y] = host[y]
    BY <1>2, InvTypes
  <2>2. made[x] = [by |-> web.run, base |-> "empty", merged |-> host[x].merged,
                   branch |-> host[x].branch, open |-> host[x].open]
    BY <1>2, <2>1, InvTypes DEF Host
  <2>3. made = [y \in Repo |-> made[y]]
    BY InvTypes
  <2> HIDE DEF made
  <2>4. /\ host[x].merged \in SUBSET Run /\ host[x].branch \in SUBSET Run
        /\ host[x].open \in SUBSET Run
    BY <2>1 DEF Host
  <2>5. made[x] \in Host /\ made[x].by = web.run
    BY <1>2, <2>2, <2>4 DEF Host
  <2>6. \A y \in Repo : made[y] \in Host
    BY <2>1, <2>5, InvTypes
  <2>7. made \in [Repo -> Host]
    BY <2>3, <2>6
  <2> QED
    BY <2>1, <2>5, <2>7
<1>4. /\ pub' \in [Run -> UploadShape]
      /\ \A o \in Run : /\ pub'[o].at = pub[o].at /\ pub'[o].by = pub[o].by
                        /\ pub'[o].to = pub[o].to
                        /\ pub'[o].calm => pub[o].calm /\ host' = host
  <2>1. CASE host' = host
    BY <1>1, <2>1, InvTypes
  <2>2. CASE host' # host
    BY <1>1, <2>2, InvTypes, StirredUploads
  <2> QED
    BY <2>1, <2>2
<1>5. SUFFICES ASSUME /\ host' \in {host, made} /\ troubles' \in 0 .. MaxTroubles
                      /\ receipts' \in [Run -> Receipt]
                      /\ \A o \in Run : Follows(receipts'[o], receipts[o])
                      /\ web' \in {Idle} \cup RequestShape /\ web'.at \in {"idle", "bind"}
                      /\ web'.at # "idle" =>
                            /\ web'.revision <= project.revision
                            /\ receipts'[web'.run].expected <= web'.revision
               PROVE  Inv'
  <2>1. CASE host' = made /\ Learned /\ Goto("bind") /\ UNCHANGED troubles
    <3>1. /\ web' \in RequestShape /\ web'.at = "bind" /\ web'.run = web.run
          /\ web'.revision = web.revision
      BY <1>1, <2>1, RequestGoesOn DEF Inv
    <3>2. web.revision <= project.revision
      BY <1>1 DEF Inv, Ordered
    <3> QED
      BY <1>1, <1>5, <2>1, <3>1, <3>2, LearnedReceipt, InvTypes
  <2>2. CASE Trouble /\ host' \in {host, made} /\ web' = Idle /\ UNCHANGED receipts
    BY <1>5, <2>2, TroubleCounts, InvTypes, ReceiptsFollow DEF Idle
  <2>3. CASE web' = Idle /\ UNCHANGED <<host, receipts, troubles>>
    BY <1>5, <2>3, InvTypes, ReceiptsFollow DEF Idle
  <2> QED
    BY <2>1, <2>2, <2>3 DEF CreateRepository
<1>6. TypeOK'
  BY <1>1, <1>3, <1>4, <1>5 DEF Inv, TypeOK
<1>7. Placed'
  BY <1>1, <1>4, <1>5 DEF Inv, Placed
<1>8. Created'
  <2>1. \A r \in Run, y \in Repo : host'[y].by = r => host[y].by = r \/ (r = web.run /\ y = x)
    BY <1>3, <1>5
  <2>2. receipts[web.run].state # "none" /\ receipts[web.run].target = x
    BY <1>1 DEF Inv, Created
  <2> QED
    BY <1>5, <2>1, <2>2 DEF Inv, Created, Follows
<1>9. Calm'
  BY <1>4, StirringKeepsCalm
<1>10. Ordered'
  BY <1>1, <1>5 DEF Inv, Ordered, Follows, InOrder
<1> QED
  BY <1>6, <1>7, <1>8, <1>9, <1>10 DEF Inv

LEMMA PersonKeepsInv ==
    ASSUME Inv, NEW x \in Repo, Person(x)
    PROVE  Inv'
<1> DEFINE h == host[x]
<1>1. /\ Trouble /\ AtHost(x) /\ pub' = Stirred(Run)
      /\ UNCHANGED <<status, active, raised, project, receipts, local, web>>
  BY DEF Person
<1>2. host' \in [Repo -> Host] /\ \A y \in Repo : host'[y].by = host[y].by
  <2>1. h \in Host
    BY InvTypes
  <2>2. CASE \E b \in {"foreign", "shared"} : host' = [host EXCEPT ![x].base = b]
    BY <2>1, <2>2, InvTypes DEF Host
  <2>3. CASE \E r \in h.open : host' = [host EXCEPT ![x].open = @ \ {r}]
    BY <2>1, <2>3, InvTypes DEF Host
  <2>4. CASE \E r \in h.open : host' = [host EXCEPT ![x].open = @ \ {r}, ![x].base = "shared",
                                                    ![x].merged = @ \cup {r}]
    <3>1. PICK r \in h.open :
             host' = [host EXCEPT ![x].open = @ \ {r}, ![x].base = "shared",
                                  ![x].merged = @ \cup {r}]
      BY <2>4
    <3>2. /\ \A y \in Repo \ {x} : host'[y] = host[y]
          /\ host' = [y \in Repo |-> host'[y]]
      BY <3>1, InvTypes
    <3>3. host'[x] = [by |-> h.by, base |-> "shared", merged |-> h.merged \cup {r},
                      branch |-> h.branch, open |-> h.open \ {r}]
      BY <2>1, <3>1, InvTypes DEF Host
    <3>4. r \in Run
      BY <2>1 DEF Host
    <3>5. host'[x] \in Host /\ host'[x].by = h.by
      BY <2>1, <3>3, <3>4 DEF Host
    <3> QED
      BY <3>2, <3>5, InvTypes
  <2> QED
    BY <1>1, <2>2, <2>3, <2>4 DEF AtHost
<1>3. /\ pub' \in [Run -> UploadShape]
      /\ \A o \in Run : /\ pub'[o].at = pub[o].at /\ pub'[o].by = pub[o].by
                        /\ pub'[o].to = pub[o].to /\ ~pub'[o].calm
  BY <1>1, InvTypes, StirredUploads
<1>4. TypeOK'
  BY <1>1, <1>2, <1>3, TroubleCounts DEF Inv, TypeOK
<1>5. Placed'
  BY <1>1, <1>3 DEF Inv, Placed
<1>6. Created'
  BY <1>1, <1>2 DEF Inv, Created
<1>7. Calm'
  BY <1>3 DEF Calm
<1>8. Ordered'
  BY <1>1 DEF Inv, Ordered
<1> QED
  BY <1>4, <1>5, <1>6, <1>7, <1>8 DEF Inv

-----------------------------------------------------------------------------
\* Uploads begin and end.

\* A run is publishing only while it is uploaded.
LEMMA OnlyUploadsPublish ==
    ASSUME Inv, NEW r \in Run
    PROVE  status[r] = "publishing" => pub[r].at # "none"
BY DEF Inv, TypeOK

LEMMA UploadingKeepsInv ==
    ASSUME Inv, NEW r \in Run, NEW by \in {"web", "plain"},
           status[r] = "ready_for_review", Uploading(r, by),
           UNCHANGED <<active, raised, project, receipts, local, host, troubles>>,
           project.repository \in Repo,
           web' \in {Idle} \cup RequestShape,
           \/ by = "plain" /\ web' = web
           \/ /\ by = "web" /\ web.at = "publish" /\ web'.at = "upload"
              /\ web'.run = r /\ web.run = r /\ web'.revision = web.revision
    PROVE  Inv'
<1>1. /\ status' \in [Run -> Statuses] /\ status'[r] = "publishing"
      /\ \A o \in Run \ {r} : status'[o] = status[o]
  BY InvTypes DEF Uploading, Statuses
<1>2. /\ pub' \in [Run -> UploadShape]
      /\ pub'[r] = [at |-> "refs", by |-> by, to |-> NoRepo, calm |-> TRUE]
      /\ \A o \in Run \ {r} : pub'[o] = pub[o]
  BY InvTypes DEF Uploading, UploadShape
<1>3. \A o \in Run : status'[o] = "publishing" => pub'[o].at # "none"
  BY <1>1, <1>2, OnlyUploadsPublish
<1>4. TypeOK'
  BY <1>1, <1>2, <1>3 DEF Inv, TypeOK
<1>5. Placed'
  BY <1>2 DEF Inv, Placed
<1>6. Created'
  BY DEF Inv, Created
<1>7. Calm'
  BY <1>2 DEF Inv, Calm, Knows
<1>8. Ordered'
  BY DEF Inv, Ordered
<1> QED
  BY <1>4, <1>5, <1>6, <1>7, <1>8 DEF Inv

LEMMA UploadByRequestKeepsInv ==
    ASSUME Inv, UploadByRequest
    PROVE  Inv'
<1>1. /\ web.at = "publish"
      /\ UNCHANGED <<active, raised, project, receipts, local, host, troubles>>
  BY DEF UploadByRequest, Here
<1>2. web.run \in Run /\ project.repository \in Repo
  BY <1>1, RequestFields DEF Inv, RequestShape, Placed
<1>3. CASE /\ status[web.run] = "ready_for_review"
           /\ Uploading(web.run, "web") /\ Goto("upload")
  <2>1. /\ web' \in RequestShape /\ web'.at = "upload" /\ web'.run = web.run
        /\ web'.revision = web.revision
    BY <1>1, <1>3, RequestGoesOn DEF Inv
  <2> QED
    BY <1>1, <1>2, <1>3, <2>1, UploadingKeepsInv
<1>4. CASE Goto("failed") /\ UNCHANGED <<status, pub>>
  <2>1. /\ web' \in RequestShape /\ web'.at = "failed" /\ web'.run = web.run
        /\ web'.revision = web.revision
    BY <1>1, <1>4, RequestGoesOn DEF Inv
  <2>2. web.revision <= project.revision /\ receipts[web.run].expected <= web.revision
    BY <1>1 DEF Inv, Ordered
  <2> QED
    BY <1>1, <1>4, <2>1, <2>2, InvTypes, ReceiptsFollow, RequestStepKeepsInv
<1> QED
  BY <1>3, <1>4 DEF UploadByRequest

LEMMA UploadPlainlyKeepsInv ==
    ASSUME Inv, NEW r \in Run, UploadPlainly(r)
    PROVE  Inv'
<1>1. /\ status[r] = "ready_for_review" /\ Uploading(r, "plain")
      /\ UNCHANGED <<active, raised, project, receipts, local, host, web, troubles>>
  BY DEF UploadPlainly
<1>2. project.repository \in Repo
  BY ProjectTypes DEF UploadPlainly
<1>3. web' \in {Idle} \cup RequestShape
  BY <1>1 DEF Inv, TypeOK
<1> QED
  BY <1>1, <1>2, <1>3, UploadingKeepsInv

LEMMA EndUploadKeepsInv ==
    ASSUME Inv, NEW r \in Run, EndUpload(r)
    PROVE  Inv'
<1>1. /\ pub[r].at \in {"delivered", "failing"} /\ pub' = [pub EXCEPT ![r] = NoUpload]
      /\ UNCHANGED <<active, raised, project, receipts, local, host, troubles>>
  BY DEF EndUpload
<1>2. /\ status' \in [Run -> Statuses] /\ status'[r] # "publishing"
      /\ \A o \in Run \ {r} : status'[o] = status[o]
  BY InvTypes DEF EndUpload, Statuses
<1>3. /\ pub' \in [Run -> UploadShape]
      /\ pub'[r].at = "none" /\ ~pub'[r].calm
      /\ \A o \in Run \ {r} : pub'[o] = pub[o]
  BY <1>1, InvTypes DEF NoUpload, UploadShape
<1>4. \A o \in Run : status'[o] = "publishing" => pub'[o].at # "none"
  BY <1>2, <1>3, OnlyUploadsPublish
<1>5. \/ pub[r].by # "web" /\ web' = web
      \/ /\ pub[r].by = "web" /\ web.at = "upload" /\ web.run = r
         /\ web' \in RequestShape /\ web'.at \in {"published", "failed"}
         /\ web'.run = web.run /\ web'.revision = web.revision
  <2>1. CASE pub[r].by # "web"
    BY <2>1 DEF EndUpload
  <2>2. CASE pub[r].by = "web"
    <3>1. web.at = "upload" /\ web.run = r
      BY <1>1, <2>2 DEF Inv, Placed
    <3>2. Goto("published") \/ Goto("failed")
      BY <2>2 DEF EndUpload, Goto
    <3> QED
      BY <2>2, <3>1, <3>2, RequestGoesOn DEF Inv
  <2> QED
    BY <2>1, <2>2
<1>6. TypeOK'
  BY <1>1, <1>2, <1>3, <1>4, <1>5 DEF Inv, TypeOK
<1>7. Placed'
  BY <1>1, <1>3, <1>5 DEF Inv, Placed
<1>8. Created'
  BY <1>1, <1>5 DEF Inv, Created
<1>9. Calm'
  BY <1>1, <1>3 DEF Inv, Calm
<1>10. Ordered'
  BY <1>1, <1>5 DEF Inv, Ordered
<1> QED
  BY <1>6, <1>7, <1>8, <1>9, <1>10 DEF Inv

-----------------------------------------------------------------------------
\* The rest of the service.
LEMMA OthersKeepInv ==
    ASSUME Inv, NEW r \in Run, Others(r)
    PROVE  Inv'
<1>1. /\ status' \in [Run -> Statuses] /\ active' \subseteq Run /\ raised' \subseteq active'
      /\ \A o \in Run : status'[o] = "publishing" => status[o] = "publishing"
      /\ troubles' \in 0 .. MaxTroubles
      /\ UNCHANGED <<project, receipts, local, host, web, pub>>
  BY InvTypes, TroubleCounts
     DEF Others, Land, WorkerRaises, WorkerFails, Leave, Continue, Statuses
<1>2. TypeOK'
  BY <1>1 DEF Inv, TypeOK
<1>3. Placed' /\ Created' /\ Calm' /\ Ordered'
  BY <1>1 DEF Inv, Placed, Created, Calm, Ordered
<1> QED
  BY <1>2, <1>3 DEF Inv

LEMMA ChangeSettingsKeepsInv ==
    ASSUME Inv, ChangeSettings
    PROVE  Inv'
<1>1. /\ Trouble /\ project.revision < MaxRevision
      /\ UNCHANGED <<status, active, raised, receipts, local, host, web, pub>>
  BY DEF ChangeSettings
<1>2. /\ project' \in [repository : {Local} \cup Repo, linked : BOOLEAN,
                       revision : 1 .. MaxRevision]
      /\ project'.repository = project.repository
      /\ project'.revision = project.revision + 1
  <2>1. project.revision + 1 \in 1 .. MaxRevision
    BY <1>1, ProjectTypes
  <2>2. project \in [repository : {Local} \cup Repo, linked : BOOLEAN,
                     revision : 1 .. MaxRevision]
    BY DEF Inv, TypeOK
  <2> QED
    BY <2>1, <2>2 DEF ChangeSettings
<1>3. TypeOK'
  BY <1>1, <1>2, TroubleCounts DEF Inv, TypeOK
<1>4. Placed' /\ Created' /\ Calm'
  BY <1>1, <1>2 DEF Inv, Placed, Created, Calm
<1>5. Ordered'
  <2>1. \A n \in Nat : n <= project.revision => n <= project.revision + 1
    BY ProjectTypes
  <2>2. \A r \in Run : receipts[r].expected \in Nat /\ receipts[r].bound \in Nat
    <3> SUFFICES ASSUME NEW r \in Run
                 PROVE  receipts[r].expected \in Nat /\ receipts[r].bound \in Nat
      OBVIOUS
    <3>1. receipts[r] \in Receipt
      BY InvTypes
    <3> QED
      BY <3>1, ProjectTypes DEF Receipt
  <2>3. web.at # "idle" => web.revision \in Nat
    BY RequestFields, ProjectTypes DEF Inv, RequestShape
  <2> QED
    BY <1>1, <1>2, <2>1, <2>2, <2>3 DEF Inv, Ordered
<1> QED
  BY <1>3, <1>4, <1>5 DEF Inv

LEMMA CrashKeepsInv ==
    ASSUME Inv, Crash
    PROVE  Inv'
<1>1. /\ Trouble /\ web' = Idle /\ pub' = [r \in Run |-> NoUpload]
      /\ UNCHANGED <<project, receipts, local, host>>
  BY DEF Crash
<1>2. /\ status' \in [Run -> Statuses] /\ active' \subseteq Run /\ raised' = {}
      /\ \A o \in Run : status'[o] # "publishing"
  BY InvTypes DEF Crash, Interrupted, Statuses
<1>3. /\ pub' \in [Run -> UploadShape]
      /\ \A o \in Run : pub'[o].at = "none" /\ ~pub'[o].calm
  BY <1>1 DEF NoUpload, UploadShape
<1>4. web'.at = "idle"
  BY <1>1 DEF Idle
<1>5. TypeOK'
  BY <1>1, <1>2, <1>3, TroubleCounts DEF Inv, TypeOK
<1>6. Placed' /\ Created' /\ Calm' /\ Ordered'
  BY <1>1, <1>3, <1>4 DEF Inv, Placed, Created, Calm, Ordered
<1> QED
  BY <1>5, <1>6 DEF Inv

-----------------------------------------------------------------------------
\* The invariant holds at first and is kept by every step.
LEMMA InitInv ==
    ASSUME Init
    PROVE  Inv
<1>1. /\ status = [r \in Run |-> "working"] /\ active = Run /\ raised = {}
      /\ receipts = [r \in Run |-> NoReceipt] /\ local = "base"
      /\ web = Idle /\ pub = [r \in Run |-> NoUpload] /\ troubles = 0
  BY DEF Init
<1>2. /\ project \in [repository : {Local} \cup Repo, linked : BOOLEAN,
                      revision : 1 .. MaxRevision]
      /\ project.revision = 1
  <2>1. 1 \in 1 .. MaxRevision /\ Repo \ Taken \subseteq Repo
    BY SizesAssumption
  <2>2. project \in [repository : {Local} \cup (Repo \ Taken), linked : {FALSE},
                     revision : {1}]
    BY DEF Init
  <2> QED
    BY <2>1, <2>2
<1>3. /\ host \in [Repo -> Host]
      /\ \A x \in Repo : host[x].by = "others"
  <2>1. \A b \in Bases : [by |-> "others", base |-> b, merged |-> {}, branch |-> {},
                          open |-> {}] \in Host
    BY SizesAssumption DEF Host
  <2>2. \A g \in Given : g \in Host /\ g.by = "others"
    BY <2>1 DEF Given
  <2> QED
    BY <2>2 DEF Init
<1>4. /\ NoReceipt \in Receipt /\ NoReceipt.expected = 0 /\ NoReceipt.bound = 0
      /\ ~NoReceipt.repository
  BY SizesAssumption DEF NoReceipt, Receipt
<1>5. NoUpload \in UploadShape /\ NoUpload.at = "none" /\ ~NoUpload.calm
  BY DEF NoUpload, UploadShape
<1>6. TypeOK
  BY <1>1, <1>2, <1>3, <1>4, <1>5, SizesAssumption DEF TypeOK, Statuses
<1>7. Placed
  BY <1>1, <1>5 DEF Placed, Idle
<1>8. Created
  BY <1>1, <1>3, NamesAssumption DEF Created, Idle
<1>9. Calm
  BY <1>1, <1>5 DEF Calm
<1>10. Ordered
  BY <1>1, <1>2, <1>4 DEF Ordered, Idle
<1> QED
  BY <1>6, <1>7, <1>8, <1>9, <1>10 DEF Inv

LEMMA StutterKeepsInv ==
    ASSUME Inv, UNCHANGED vars
    PROVE  Inv'
BY DEF vars, Inv, TypeOK, Placed, Created, Calm, Ordered

LEMMA NextKeepsInv ==
    ASSUME Inv, [Next]_vars
    PROVE  Inv'
<1>1. CASE Requests
  BY <1>1, RequestKeepsInv, CreateRepositoryKeepsInv, LookupRepositoryKeepsInv, BindKeepsInv,
     AcknowledgeKeepsInv, UploadByRequestKeepsInv, EndRequestKeepsInv DEF Requests
<1>2. ASSUME NEW r \in Run, Uploads(r)
      PROVE  Inv'
  BY <1>2, UploadPlainlyKeepsInv, ReadRefsKeepsInv, PushInitialKeepsInv,
     ObserveInitialKeepsInv, PushBranchKeepsInv, FindPullRequestKeepsInv,
     OpenPullRequestKeepsInv, SyncBaselineKeepsInv, EndUploadKeepsInv DEF Uploads
<1>3. ASSUME NEW r \in Run, Others(r)
      PROVE  Inv'
  BY <1>3, OthersKeepInv
<1>4. CASE ChangeSettings
  BY <1>4, ChangeSettingsKeepsInv
<1>5. CASE Crash
  BY <1>5, CrashKeepsInv
<1>6. ASSUME NEW x \in Repo, Person(x)
      PROVE  Inv'
  BY <1>6, PersonKeepsInv
<1>7. CASE UNCHANGED vars
  BY <1>7, StutterKeepsInv
<1> QED
  BY <1>1, <1>2, <1>3, <1>4, <1>5, <1>6, <1>7 DEF Next

\* What the steps of publication keep is true in every state.
THEOREM InvHolds == Spec => []Inv
<1>1. Init => Inv
  BY InitInv
<1>2. Inv /\ [Next]_vars => Inv'
  BY NextKeepsInv
<1> QED
  BY <1>1, <1>2, PTL DEF Spec

\* Statuses, receipts, the project and the host keep their shape, and a run is
\* publishing only while an upload of it is under way.
THEOREM TypeCorrect == Spec => []TypeOK
<1>1. Inv => TypeOK
  BY DEF Inv
<1> QED
  BY <1>1, InvHolds, PTL

\* However often answers are lost and the service crashes, and whatever names
\* are tried, publishing a run creates at most one repository.
THEOREM CreatedAtMostOnce == Spec => []CreatedOnce
<1>1. Inv => CreatedOnce
  BY DEF Inv, Created, CreatedOnce
<1> QED
  BY <1>1, InvHolds, PTL

\* An upload that nothing disturbs fails only where there is nothing to add to.
THEOREM AnswersHeal == Spec => []LostAnswersHeal
<1>1. Inv => LostAnswersHeal
  BY DEF Inv, Calm, Knows, LostAnswersHeal, At
<1> QED
  BY <1>1, InvHolds, PTL

\* A request that failed once its repository was known is admitted when it is
\* repeated unchanged, unless others changed the project or keep it busy.
THEOREM RetriesAdmitted == Spec => []RetryAdmitted
<1>1. ASSUME Inv
      PROVE  RetryAdmitted
  <2> SUFFICES ASSUME NEW r \in Run,
                      LockFree, status[r] = "ready_for_review", receipts[r].repository,
                      Editable(r, receipts[r].target),
                      \/ project.revision = receipts[r].expected
                      \/ /\ project.revision = receipts[r].expected + 1 /\ project.linked
                         /\ project.repository = receipts[r].target
                         /\ receipts[r].bound # receipts[r].expected
               PROVE  Admitted(r, receipts[r].mode, receipts[r].target, receipts[r].expected)
    BY DEF RetryAdmitted
  <2>1. /\ receipts[r] \in Receipt
        /\ receipts[r].bound <= project.revision
        /\ receipts[r].bound = 0 \/ receipts[r].expected <= receipts[r].bound
        /\ receipts[r].state \notin {"none", "creating"}
    BY <1>1, InvTypes DEF Inv, Ordered
  <2>2. Acceptable(r, receipts[r].target)
    BY DEF Acceptable
  <2>3. \/ ResumesBound(r, receipts[r].target)
        \/ receipts[r].expected = project.revision
    <3>1. CASE project.revision = receipts[r].expected
      BY <3>1
    <3>2. CASE /\ project.revision = receipts[r].expected + 1 /\ project.linked
               /\ project.repository = receipts[r].target
               /\ receipts[r].bound # receipts[r].expected
      <4>1. CASE receipts[r].bound = 0
        <5>1. Healed(r, receipts[r].target) =
                [receipts[r] EXCEPT !.bound = project.revision]
          BY <1>1, <2>1, <3>2, <4>1 DEF Healed
        <5>2. Healed(r, receipts[r].target).bound = project.revision
          BY <2>1, <5>1 DEF Receipt
        <5> QED
          BY <3>2, <5>2 DEF ResumesBound
      <4>2. CASE receipts[r].bound # 0
        <5>1. receipts[r].bound \in Nat /\ receipts[r].expected \in Nat
          BY <1>1, <2>1, ProjectTypes DEF Receipt
        <5>2. receipts[r].bound = project.revision
          BY <1>1, <2>1, <3>2, <4>2, <5>1, ProjectTypes
        <5>3. Healed(r, receipts[r].target) = receipts[r]
          BY <4>2 DEF Healed
        <5> QED
          BY <3>2, <5>2, <5>3 DEF ResumesBound
      <4> QED
        BY <4>1, <4>2
    <3> QED
      BY <3>1, <3>2
  <2> QED
    BY <2>1, <2>2, <2>3 DEF Admitted
<1> QED
  BY <1>1, InvHolds, PTL

-----------------------------------------------------------------------------
\* Where requests upload to.  From its receipt on, a request goes to the
\* repository the receipt names; from the binding on, that is the project's; and
\* its upload has read it from there.
Named ==
    /\ web.at = "lookup" => \/ receipts[web.run].state = "none"
                            \/ receipts[web.run].target = web.target
    /\ web.at \in {"bind", "acknowledge", "publish", "upload"} =>
          receipts[web.run].target = web.target
    /\ web.at \in {"acknowledge", "publish", "upload"} => project.repository = web.target

Reached == \A r \in Run :
    pub[r].by = "web" /\ pub[r].at \notin {"none", "refs"} => pub[r].to = project.repository

Asked == Named /\ Reached

\* Uploads stay where they are, or have just read the project's repository.
UploadsStay ==
    /\ project'.repository = project.repository
    /\ \A o \in Run : pub'[o].by = "web" /\ pub'[o].at \notin {"none", "refs"} =>
          \/ pub'[o].to = project.repository
          \/ pub[o].by = "web" /\ pub[o].at \notin {"none", "refs"} /\ pub'[o].to = pub[o].to

LEMMA StayingReaches ==
    ASSUME Reached, UploadsStay
    PROVE  Reached'
BY DEF Reached, UploadsStay

\* Nothing is uploaded by request before the request has come that far.
LEMMA ReachedBefore ==
    ASSUME Inv', web'.at # "upload"
    PROVE  Reached'
BY DEF Inv, Placed, Reached

\* The steps of an upload leave the request and its receipt alone.
LEMMA UploadStepKeepsAsked ==
    ASSUME Asked, UploadsStay, UNCHANGED <<project, receipts, web>>
    PROVE  Asked'
BY StayingReaches DEF Asked, Named

\* The receipt a request writes names the repository it asked for.
LEMMA PreparedNames ==
    ASSUME Inv, NEW r \in Run, NEW mode \in {"create", "existing"}, NEW t \in Repo,
           NEW v \in 1 .. project.revision,
           receipts[r].state = "none" \/ receipts[r].target = t
    PROVE  Prepared(r, mode, t, v).target = t
<1>1. CASE receipts[r].state = "none"
  BY <1>1, PreparedReceipt
<1>2. CASE receipts[r].state # "none"
  <2>1. receipts[r].target = t /\ Prepared(r, mode, t, v) = Healed(r, t)
    BY <1>2 DEF Prepared
  <2> QED
    BY <2>1, HealedReceipt
<1> QED
  BY <1>1, <1>2

LEMMA RequestKeepsAsked ==
    ASSUME Inv, Asked, Inv', NEW r \in Run, NEW mode \in {"create", "existing"},
           NEW t \in Repo, NEW v \in 1 .. project.revision, Request(r, mode, t, v)
    PROVE  Asked'
<1> DEFINE c == Prepared(r, mode, t, v)
<1>1. web.at = "idle" /\ UNCHANGED <<project, pub>>
  BY DEF Request, LockFree
<1>2. CASE UNCHANGED web
  BY <1>1, <1>2, ReachedBefore DEF Asked, Named
<1>3. CASE /\ Admitted(r, mode, t, v)
           /\ web' = [at |-> IF ~c.repository THEN (IF mode = "create" THEN "create" ELSE "lookup")
                             ELSE IF ResumesBound(r, t) THEN "publish" ELSE "bind",
                      run |-> r, target |-> t, revision |-> project.revision]
           /\ Save(r, IF ~c.repository /\ mode = "create" THEN BeforeCreation(c)
                      ELSE IF c.repository THEN c ELSE receipts[r])
  <2>1. /\ web'.run = r /\ web'.target = t /\ web'.at # "upload"
        /\ web'.at \in {"create", "lookup", "publish", "bind"}
        /\ web'.at = "publish" => c.repository /\ ResumesBound(r, t)
        /\ web'.at = "bind" => c.repository
        /\ web'.at = "lookup" => ~c.repository /\ mode # "create"
    BY <1>3
  <2>2. receipts[r].state = "none" \/ receipts[r].target = t
    BY <1>3 DEF Admitted, Acceptable
  <2>3. c.target = t
    BY <2>2, PreparedNames
  <2>4. c.repository => receipts'[r] = c
    BY <1>3, InvTypes DEF Save
  <2>5. ~c.repository /\ mode # "create" => receipts'[r] = receipts[r]
    BY <1>3, InvTypes DEF Save
  <2>6. web'.at = "publish" => project.repository = t
    BY <2>1 DEF ResumesBound
  <2> HIDE DEF c
  <2>7. Named'
    BY <1>1, <2>1, <2>2, <2>3, <2>4, <2>5, <2>6 DEF Named
  <2> QED
    BY <2>1, <2>7, ReachedBefore DEF Asked
<1> QED
  BY <1>2, <1>3 DEF Request

\* The repository is known: its receipt names it.
LEMMA LearnedNames ==
    ASSUME Inv, web.at # "idle", Learned,
           receipts[web.run].state = "none" \/ receipts[web.run].target = web.target
    PROVE  receipts'[web.run].target = web.target
<1> DEFINE p == Prepared(web.run, "existing", web.target, web.revision)
<1>1. /\ web.run \in Run /\ web.target \in Repo /\ web.revision \in 1 .. project.revision
  BY RequestFields, ProjectTypes DEF Inv, Ordered, RequestShape
<1>2. p.target = web.target /\ p \in Receipt
  BY <1>1, PreparedNames, PreparedReceipt DEF Follows
<1>3. Save(web.run, [p EXCEPT !.repository = TRUE, !.state = "prepared"])
  BY DEF Learned
<1> HIDE DEF p
<1>4. [p EXCEPT !.repository = TRUE, !.state = "prepared"].target = web.target
  BY <1>2 DEF Receipt
<1> QED
  BY <1>1, <1>3, <1>4, InvTypes DEF Save

LEMMA FindingKeepsAsked ==
    ASSUME Inv, Asked, Inv', CreateRepository \/ LookupRepository
    PROVE  Asked'
<1>1. /\ web.at \in {"create", "lookup"} /\ UNCHANGED project
      /\ receipts[web.run].state = "none" \/ receipts[web.run].target = web.target
  BY DEF CreateRepository, LookupRepository, Here, Inv, Created, Asked, Named
<1>2. web' = Idle \/ (Learned /\ Goto("bind"))
  BY DEF CreateRepository, LookupRepository
<1>3. CASE web' = Idle
  BY <1>3, ReachedBefore DEF Idle, Asked, Named
<1>4. CASE Learned /\ Goto("bind")
  <2>1. /\ web'.at = "bind" /\ web'.run = web.run /\ web'.target = web.target
    BY <1>1, <1>4, RequestGoesOn DEF Inv
  <2>2. receipts'[web.run].target = web.target
    BY <1>1, <1>4, LearnedNames
  <2> QED
    BY <2>1, <2>2, ReachedBefore DEF Asked, Named
<1> QED
  BY <1>2, <1>3, <1>4

LEMMA BindingKeepsAsked ==
    ASSUME Inv, Asked, Inv', Bind
    PROVE  Asked'
<1>1. web.at = "bind" /\ UNCHANGED receipts /\ receipts[web.run].target = web.target
  BY DEF Bind, Here, Asked, Named
<1>2. CASE web' = Idle
  BY <1>2, ReachedBefore DEF Idle, Asked, Named
<1>3. CASE web' # Idle
  <2>1. /\ project'.repository = web.target
        /\ web'.at = "acknowledge" /\ web'.run = web.run /\ web'.target = web.target
    <3>1. CASE Goto("acknowledge") /\ UNCHANGED project /\ project.repository = web.target
      BY <1>1, <3>1, RequestGoesOn DEF Inv
    <3>2. CASE /\ project' = [repository |-> web.target, linked |-> TRUE,
                              revision |-> project.revision + 1]
               /\ web' = [web EXCEPT !.at = "acknowledge", !.revision = @ + 1]
      BY <1>1, <3>2, RequestFields DEF Inv, RequestShape
    <3> QED
      BY <1>3, <3>1, <3>2 DEF Bind
  <2> QED
    BY <1>1, <2>1, ReachedBefore DEF Asked, Named
<1> QED
  BY <1>2, <1>3

LEMMA AcknowledgingKeepsAsked ==
    ASSUME Inv, Asked, Inv', Acknowledge
    PROVE  Asked'
<1>1. /\ web.at = "acknowledge" /\ Goto("publish") /\ UNCHANGED project
      /\ receipts[web.run].target = web.target /\ project.repository = web.target
  BY DEF Acknowledge, Here, Asked, Named
<1>2. web'.at = "publish" /\ web'.run = web.run /\ web'.target = web.target /\ web.run \in Run
  BY <1>1, RequestGoesOn, RequestFields DEF Inv, RequestShape
<1>3. receipts'[web.run].target = receipts[web.run].target
  <2>1. receipts[web.run] \in Receipt
    BY <1>2, InvTypes
  <2> QED
    BY <1>2, <2>1, InvTypes DEF Acknowledge, Save, Receipt
<1> QED
  BY <1>1, <1>2, <1>3, ReachedBefore DEF Asked, Named

\* An upload begins, by request at the repository the request is bound to.
LEMMA BeginningKeepsAsked ==
    ASSUME Inv, Asked, Inv', NEW r \in Run, NEW by \in {"web", "plain"}, Uploading(r, by),
           UNCHANGED <<project, receipts>>,
           \/ by = "plain" /\ web' = web
           \/ /\ web.at = "publish" /\ web'.at = "upload"
              /\ web'.run = web.run /\ web'.target = web.target
    PROVE  Asked'
<1>1. /\ pub'[r].at = "refs" /\ \A o \in Run \ {r} : pub'[o] = pub[o]
  BY InvTypes DEF Uploading
<1>2. Reached'
  BY <1>1 DEF Asked, Reached
<1> QED
  BY <1>2 DEF Asked, Named

LEMMA RequestsKeepAsked ==
    ASSUME Inv, Asked, Inv', Requests
    PROVE  Asked'
<1>1. CASE UploadByRequest
  <2>1. web.at = "publish" /\ UNCHANGED <<project, receipts>>
    BY <1>1 DEF UploadByRequest, Here
  <2>2. CASE Uploading(web.run, "web") /\ Goto("upload")
    <3>1. web.run \in Run /\ web'.at = "upload" /\ web'.run = web.run /\ web'.target = web.target
      BY <2>1, <2>2, RequestGoesOn, RequestFields DEF Inv, RequestShape
    <3> QED
      BY <2>1, <2>2, <3>1, BeginningKeepsAsked
  <2>3. CASE Goto("failed") /\ UNCHANGED <<status, pub>>
    <3>1. web'.at = "failed"
      BY <2>1, <2>3, RequestGoesOn DEF Inv
    <3> QED
      BY <3>1, ReachedBefore DEF Asked, Named
  <2> QED
    BY <1>1, <2>2, <2>3 DEF UploadByRequest
<1>2. CASE EndRequest
  BY <1>2, ReachedBefore DEF EndRequest, Idle, Asked, Named
<1> QED
  BY <1>1, <1>2, RequestKeepsAsked, FindingKeepsAsked, BindingKeepsAsked,
     AcknowledgingKeepsAsked DEF Requests

\* The calls of an upload to the host leave it where it is.
LEMMA CallsStay ==
    ASSUME Inv, NEW r \in Run, NEW changed, NEW next \in Ats,
           pub[r].at \notin {"none", "refs"}, Calls(r, changed, next), UNCHANGED project
    PROVE  UploadsStay
<1> DEFINE uploads == Stirred(Run \ {r})
<1>1. /\ uploads \in [Run -> UploadShape]
      /\ \A o \in Run : /\ uploads[o].at = pub[o].at /\ uploads[o].by = pub[o].by
                        /\ uploads[o].to = pub[o].to
  BY InvTypes, StirredUploads
<1>a. Calls(r, changed, next) =>
         \E before \in {pub, uploads} :
            \/ pub' = [before EXCEPT ![r].at = next]
            \/ pub' = [before EXCEPT ![r].at = "failing", ![r].calm = FALSE]
  BY DEF Calls
<1> HIDE DEF uploads
<1>2. PICK before \in {pub, uploads} :
         \/ pub' = [before EXCEPT ![r].at = next]
         \/ pub' = [before EXCEPT ![r].at = "failing", ![r].calm = FALSE]
  BY <1>a
<1>3. before \in [Run -> UploadShape]
  BY <1>1, InvTypes
<1>4. \/ OneMoved(before, pub', r, next, before[r].to, before[r].calm)
      \/ OneMoved(before, pub', r, "failing", before[r].to, FALSE)
  BY <1>2, <1>3, MovedUpload, FailedUpload
<1>5. \A o \in Run : /\ pub'[o].by = pub[o].by /\ pub'[o].to = pub[o].to
                     /\ o # r => pub'[o].at = pub[o].at
  BY <1>1, <1>4 DEF OneMoved
<1> QED
  BY <1>5 DEF UploadsStay

\* One upload goes on to another step, or fails, at the same repository.
LEMMA MovesStay ==
    ASSUME Inv, NEW r \in Run, NEW at \in Ats, UNCHANGED project,
           pub[r].at \notin {"none", "refs"},
           \/ Move(r, at)
           \/ pub' = [pub EXCEPT ![r].at = "failing", ![r].calm = FALSE]
    PROVE  UploadsStay
<1>1. \/ OneMoved(pub, pub', r, at, pub[r].to, pub[r].calm)
      \/ OneMoved(pub, pub', r, "failing", pub[r].to, FALSE)
  BY InvTypes, MovedUpload, FailedUpload DEF Move
<1> QED
  BY <1>1 DEF OneMoved, UploadsStay

LEMMA ReadingStays ==
    ASSUME Inv, NEW r \in Run, ReadRefs(r)
    PROVE  UploadsStay
<1> DEFINE x == project.repository
<1>1. x \in Repo /\ UNCHANGED project
  BY DEF ReadRefs, At, Inv, Placed
<1>2. \/ \E at \in {"initial", "observe", "branch", "failing"} :
           pub' = [pub EXCEPT ![r].at = at, ![r].to = x]
      \/ pub' = [pub EXCEPT ![r].at = "failing", ![r].to = x, ![r].calm = FALSE]
  BY DEF ReadRefs
<1>3. \E at \in Ats, calm \in BOOLEAN : OneMoved(pub, pub', r, at, x, calm)
  <2>1. CASE pub' = [pub EXCEPT ![r].at = "failing", ![r].to = x, ![r].calm = FALSE]
    BY <1>1, <2>1, InvTypes, PlacedFailedUpload DEF Ats
  <2>2. ASSUME NEW at \in {"initial", "observe", "branch", "failing"},
               pub' = [pub EXCEPT ![r].at = at, ![r].to = x]
        PROVE  OneMoved(pub, pub', r, at, x, pub[r].calm) /\ pub[r].calm \in BOOLEAN
    <3>1. at \in Ats
      BY DEF Ats
    <3> QED
      BY <1>1, <2>2, <3>1, InvTypes, PlacedUpload DEF UploadShape
  <2> QED
    BY <1>2, <2>1, <2>2 DEF Ats
<1> QED
  BY <1>1, <1>3 DEF OneMoved, UploadsStay

LEMMA UploadsKeepAsked ==
    ASSUME Inv, Asked, Inv', NEW r \in Run, Uploads(r)
    PROVE  Asked'
<1>1. CASE UploadPlainly(r)
  BY <1>1, BeginningKeepsAsked DEF UploadPlainly
<1>2. CASE EndUpload(r)
  <2>1. /\ pub' = [pub EXCEPT ![r] = NoUpload] /\ UNCHANGED <<project, receipts>>
        /\ pub[r].at \in {"delivered", "failing"}
    BY <1>2 DEF EndUpload
  <2>2. Reached'
    BY <2>1, InvTypes DEF NoUpload, Asked, Reached
  <2>3. CASE web' = web
    BY <2>1, <2>2, <2>3 DEF Asked, Named
  <2>4. CASE pub[r].by = "web"
    <3>1. web.at = "upload"
      BY <2>1, <2>4 DEF Inv, Placed
    <3>2. Goto("published") \/ Goto("failed")
      BY <1>2, <2>4 DEF EndUpload, Goto
    <3>3. web'.at \in {"published", "failed"}
      BY <3>1, <3>2, RequestGoesOn DEF Inv
    <3> QED
      BY <2>2, <3>3 DEF Asked, Named
  <2> QED
    BY <1>2, <2>3, <2>4 DEF EndUpload
<1>3. CASE ReadRefs(r)
  <2>1. UNCHANGED <<project, receipts, web>>
    BY <1>3 DEF ReadRefs
  <2> QED
    BY <1>3, <2>1, ReadingStays, UploadStepKeepsAsked
<1>4. CASE PushInitial(r) \/ PushBranch(r) \/ OpenPullRequest(r)
  <2>1. UNCHANGED <<project, receipts, web>> /\ pub[r].at \notin {"none", "refs"}
    BY <1>4 DEF PushInitial, PushBranch, OpenPullRequest, At
  <2>2. \/ Move(r, "failing")
        \/ \E h \in {[host[pub[r].to] EXCEPT !.base = r, !.merged = @ \cup {r}],
                     [host[pub[r].to] EXCEPT !.branch = @ \cup {r}],
                     [host[pub[r].to] EXCEPT !.open = @ \cup {r}]},
              at \in {"observe", "find", "delivered"} : Calls(r, h, at)
    BY <1>4 DEF PushInitial, PushBranch, OpenPullRequest, Refused
  <2>3. UploadsStay
    <3>1. CASE Move(r, "failing")
      BY <2>1, <3>1, MovesStay DEF Ats
    <3>2. ASSUME NEW h, NEW at \in {"observe", "find", "delivered"}, Calls(r, h, at)
          PROVE  UploadsStay
      <4>1. at \in Ats
        BY DEF Ats
      <4> QED
        BY <2>1, <3>2, <4>1, CallsStay
    <3> QED
      BY <2>2, <3>1, <3>2
  <2> QED
    BY <2>1, <2>3, UploadStepKeepsAsked
<1>5. CASE ObserveInitial(r) \/ FindPullRequest(r) \/ SyncBaseline(r)
  <2>1. UNCHANGED <<project, receipts, web>> /\ pub[r].at \notin {"none", "refs"}
    BY <1>5 DEF ObserveInitial, FindPullRequest, SyncBaseline, At
  <2>2. \/ \E at \in {"sync", "failing", "delivered", "open"} : Move(r, at)
        \/ pub' = [pub EXCEPT ![r].at = "failing", ![r].calm = FALSE]
    BY <1>5 DEF ObserveInitial, FindPullRequest, SyncBaseline, AfterFind
  <2>3. UploadsStay
    BY <2>1, <2>2, MovesStay DEF Ats
  <2> QED
    BY <2>1, <2>3, UploadStepKeepsAsked
<1> QED
  BY <1>1, <1>2, <1>3, <1>4, <1>5 DEF Uploads

LEMMA RestKeepsAsked ==
    ASSUME Inv, Asked, Inv',
           \/ \E r \in Run : Others(r)
           \/ ChangeSettings \/ Crash \/ (\E x \in Repo : Person(x)) \/ UNCHANGED vars
    PROVE  Asked'
<1>1. CASE Crash
  BY <1>1, ReachedBefore DEF Crash, Idle, Asked, Named
<1>2. CASE ~Crash
  <2>1. UNCHANGED <<receipts, web>> /\ project'.repository = project.repository
    <3>1. CASE ChangeSettings
      BY <3>1, ProjectTypes DEF ChangeSettings
    <3>2. CASE \/ \E r \in Run : Others(r)
               \/ \E x \in Repo : Person(x)
               \/ UNCHANGED vars
      BY <3>2 DEF Others, Land, WorkerRaises, WorkerFails, Leave, Continue, Person, vars
    <3> QED
      BY <1>2, <3>1, <3>2
  <2>2. pub' = pub \/ pub' = Stirred(Run)
    BY <1>2 DEF Others, Land, WorkerRaises, WorkerFails, Leave, Continue, Person, vars,
                ChangeSettings
  <2>3. \A o \in Run : pub'[o].by = pub[o].by /\ pub'[o].at = pub[o].at /\ pub'[o].to = pub[o].to
    BY <2>2, InvTypes, StirredUploads
  <2>4. Reached'
    BY <2>1, <2>3 DEF Asked, Reached
  <2> QED
    BY <2>1, <2>4 DEF Asked, Named
<1> QED
  BY <1>1, <1>2

\* Whatever workers, plain uploads, other requests and crashes do, what a request
\* uploads goes to the repository its receipt names, which is still the project's.
THEOREM UploadsGoWhereAsked == Spec => []UploadsWhereAsked
<1>1. Init => Asked
  BY DEF Init, Idle, NoUpload, Asked, Named, Reached
<1>2. Inv /\ Inv' /\ Asked /\ [Next]_vars => Asked'
  <2> SUFFICES ASSUME Inv, Inv', Asked, [Next]_vars
               PROVE  Asked'
    OBVIOUS
  <2> QED
    BY RequestsKeepAsked, UploadsKeepAsked, RestKeepsAsked DEF Next
<1>3. Inv /\ Asked => UploadsWhereAsked
  BY DEF Inv, Placed, Asked, Named, Reached, UploadsWhereAsked
<1> QED
  BY <1>1, <1>2, <1>3, InvHolds, PTL DEF Spec
=============================================================================
