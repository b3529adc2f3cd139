-------------------------- MODULE ConversationProofs --------------------------
(***************************************************************************)
(* For every number of messages, runs, faults and clicks: no acknowledged  *)
(* message of a conversation is lost, and no run of it is followed by two. *)
(*                                                                         *)
(* The inductive invariant adds to the two properties what the thread that *)
(* holds the lock knows at each stage (HolderKnows): a message that will   *)
(* be answered with "queued" is pending, words that will be settled are in *)
(* the run they are settled for, and a new run is not yet followed.        *)
(***************************************************************************)
EXTENDS ConversationProperties, FiniteSetTheorems, TLAPS

-----------------------------------------------------------------------------
\* Runs are opened in the order of their numbers.
Contiguous == \E n \in 0..MaxRuns : Opened = 1..n

\* What is adopted is in the run named, what was acknowledged waits or is in
\* some run, and what an answer took is in the run it was given to.
Kept ==
    /\ \A m \in Message : msgs[m].state = "adopted" =>
          /\ msgs[m].by \in Opened
          /\ m \in run[msgs[m].by].words
    /\ \A m \in acked : \/ msgs[m].state = "pending"
                        \/ \E r \in Opened : m \in run[r].words
    /\ acked \subseteq Sent
    /\ \A r \in Opened : run[r].applied \subseteq run[r].words

\* The run at hand is followed by none, every other one by at most one.
Chain ==
    /\ current # NoRun => current \in Opened
    /\ \A s, r \in RunId : Follows(s, r) => r \in Opened /\ r # current
    /\ \A s, t, r \in RunId : Follows(s, r) /\ Follows(t, r) => s = t

\* What the holder of the lock has established so far.
HolderKnows ==
    /\ cs.at \in {"append", "act"} => cs.ids = {}
    /\ cs.at = "append" => /\ cs.m \in Message \ Sent
                           /\ Status \in InHand => cs.queued
    /\ cs.at = "act" => /\ cs.m \in Sent
                        /\ Status \in InHand => msgs[cs.m].state = "pending"
    /\ cs.at \in {"restart", "settle"} =>
          /\ cs.m \in Sent /\ cs.r \in Opened
          /\ cs.ids \cup {cs.m} \subseteq run[cs.r].words
    /\ cs.at \in {"freeze", "attach", "settle_all", "start"} =>
          /\ cs.r \in Opened
          /\ {cs.m} \cap Message \subseteq Sent \cap run[cs.r].words
    /\ cs.at \in {"freeze", "attach", "settle_all"} => Pending \subseteq run[cs.r].words
    /\ cs.at \in {"freeze", "attach"} => \A s \in RunId : ~Follows(s, cs.r)
    /\ cs.at = "drain" => current \in Opened

Inv == TypeOK /\ Contiguous /\ Kept /\ Chain /\ HolderKnows

-----------------------------------------------------------------------------
\* A new run gets the next number, which no opened run has.
LEMMA NewRunIsNext ==
    ASSUME NEW n \in 0..MaxRuns, Opened = 1..n
    PROVE  NewRun = n + 1
<1>1. n \in Int /\ n >= 0
  BY LimitsAssumption
<1>2. Cardinality(1..n) = n
  BY <1>1, FS_Interval
<1> QED
  BY <1>2 DEF NewRun

LEMMA NewRunUnopened ==
    ASSUME Contiguous
    PROVE  NewRun \notin Opened /\ NewRun # NoRun
<1>1. PICK n \in 0..MaxRuns : Opened = 1..n
  BY DEF Contiguous
<1>2. NewRun = n + 1 /\ n \in Nat
  BY <1>1, NewRunIsNext, LimitsAssumption
<1> QED
  BY <1>1, <1>2 DEF NoRun

\* Opening it leaves the numbers contiguous.
LEMMA OpeningKeepsOrder ==
    ASSUME Contiguous, NewRun \in RunId, Opened' = Opened \cup {NewRun}
    PROVE  Contiguous'
<1>1. PICK n \in 0..MaxRuns : Opened = 1..n
  BY DEF Contiguous
<1>2. NewRun = n + 1 /\ n \in Nat /\ n + 1 \in 0..MaxRuns
  BY <1>1, NewRunIsNext, LimitsAssumption DEF RunId
<1>3. Opened' = 1..(n + 1)
  BY <1>1, <1>2
<1> QED
  BY <1>2, <1>3 DEF Contiguous

-----------------------------------------------------------------------------
(* Two kinds of steps: those that change documents of runs that exist, and *)
(* those that open one.                                                    *)

\* No run is opened or forgotten, and none loses words.
Grows ==
    \A r \in RunId :
       /\ run'[r].status = "none" <=> run[r].status = "none"
       /\ run[r].words \subseteq run'[r].words
       /\ run'[r].retryOf = run[r].retryOf
       /\ run'[r].pred = run[r].pred
       /\ run[r].applied \subseteq run[r].words => run'[r].applied \subseteq run'[r].words

LEMMA GrowingOpens ==
    ASSUME Grows
    PROVE  /\ Opened' = Opened
           /\ \A s, r \in RunId : Follows(s, r)' <=> Follows(s, r)
BY DEF Grows, Opened, Follows

LEMMA SameRunsGrow ==
    ASSUME UNCHANGED run
    PROVE  Grows
BY DEF Grows

\* A change of one opened run that names every field it touches.
LEMMA StatusGrows ==
    ASSUME TypeOK, NEW r \in RunId, NEW s, SetStatus(r, s), r \in Opened, s # "none"
    PROVE  Grows
<1>1. run \in [RunId -> Run]
  BY DEF TypeOK
<1> QED
  BY <1>1 DEF SetStatus, Grows, Opened, Run

\* Run doc is opened under the next number.
Opens(doc) == /\ NewRun \in RunId
              /\ run' = [run EXCEPT ![NewRun] = doc]
              /\ doc.status = "received"

LEMMA OpeningAdds ==
    ASSUME TypeOK, Contiguous, NEW doc, Opens(doc)
    PROVE  /\ Opened' = Opened \cup {NewRun}
           /\ NewRun \in RunId \ Opened
           /\ run'[NewRun] = doc
           /\ \A r \in Opened : run'[r] = run[r]
           /\ \A s, r \in RunId : s # NewRun => (Follows(s, r)' <=> Follows(s, r))
<1>1. run \in [RunId -> Run] /\ NewRun \in RunId /\ NewRun \notin Opened
  BY NewRunUnopened DEF TypeOK, Opens
<1>2. run'[NewRun] = doc /\ \A r \in RunId : r # NewRun => run'[r] = run[r]
  BY <1>1 DEF Opens
<1>3. doc.status # "none"
  BY DEF Opens
<1>4. Opened' = Opened \cup {NewRun}
  BY <1>1, <1>2, <1>3 DEF Opened
<1>5. \A s, r \in RunId : s # NewRun => (Follows(s, r)' <=> Follows(s, r))
  BY <1>2 DEF Follows
<1> QED
  BY <1>1, <1>2, <1>4, <1>5 DEF Opened

-----------------------------------------------------------------------------
\* The shape of every variable.

LEMMA Settles ==
    ASSUME TypeOK, NEW ids, NEW r \in RunId
    PROVE  Settled(ids, r) \in [Message -> [state : MessageState, by : RunId \cup {NoRun}]]
BY DEF TypeOK, Settled, MessageState

LEMMA InitTyped == Init => TypeOK
<1> SUFFICES ASSUME Init PROVE TypeOK
  OBVIOUS
<1>1. Unopened \in Run
  BY DEF Unopened, Run, RunStatus, NoRun
<1>2. 0 \in 0..MaxFaults /\ 0 \in 0..MaxClicks
  BY LimitsAssumption
<1> QED
  BY <1>1, <1>2 DEF Init, TypeOK, MessageState, Stages, Free, NoRun

\* The fields a step of the chain changes in one run's document.
LEMMA EditsTyped ==
    ASSUME TypeOK, NEW r \in RunId, NEW s \in RunStatus, NEW W \in SUBSET Message,
           NEW A \in SUBSET Message
    PROVE  /\ SetStatus(r, s) => run' \in [RunId -> Run]
           /\ [run EXCEPT ![r].linked = TRUE] \in [RunId -> Run]
           /\ [run EXCEPT ![r].status = s, ![r].words = @ \cup W] \in [RunId -> Run]
           /\ [run EXCEPT ![r].status = s, ![r].words = @ \cup W,
                          ![r].applied = @ \cup A] \in [RunId -> Run]
<1>1. run[r] \in Run /\ run \in [RunId -> Run]
  BY DEF TypeOK
<1>2. [run[r] EXCEPT !.status = s] \in Run
  BY <1>1 DEF Run
<1>3. [run[r] EXCEPT !.linked = TRUE] \in Run
  BY <1>1 DEF Run
<1>4. [run[r] EXCEPT !.status = s, !.words = @ \cup W] \in Run
  BY <1>1 DEF Run
<1>5. [run[r] EXCEPT !.status = s, !.words = @ \cup W, !.applied = @ \cup A] \in Run
  BY <1>1 DEF Run
<1> QED
  BY <1>1, <1>2, <1>3, <1>4, <1>5 DEF SetStatus

\* Its names for the states of a run and the shape of the critical section.
LEMMA StatusNames ==
    {"received", "queued", "running", "publishing", "needs_human",
     "needs_clarification", "cancelled", "discarded", "ready_for_review",
     "published"} \subseteq RunStatus
BY DEF RunStatus, InHand, Waiting

Section == [at : Stages, m : Message \cup {0}, r : RunId \cup {NoRun},
            queued : BOOLEAN, ids : SUBSET Message]

LEMMA SectionsTyped ==
    /\ Free \in Section /\ Gone \in Section
    /\ \A c \in Section, a \in Stages : [c EXCEPT !.at = a] \in Section
BY DEF Section, Free, Gone, Stages, NoRun

\* The stages of the message route.
LEMMA RouteTyped ==
    ASSUME Inv, MessageRoute
    PROVE  TypeOK'
<1> USE DEF Inv, conversation, counters
<1>1. ASSUME NEW m \in Message, ReadRun(m) PROVE TypeOK'
  <2>1. (Status \in InHand) \in BOOLEAN
    OBVIOUS
  <2>2. cs' \in [at : Stages, m : Message \cup {0}, r : RunId \cup {NoRun},
                 queued : BOOLEAN, ids : SUBSET Message]
    BY <1>1, <2>1 DEF ReadRun, Free, Stages
  <2> QED
    BY <1>1, <2>2 DEF ReadRun, TypeOK
<1>2. CASE AppendMessage
  BY <1>2 DEF AppendMessage, TypeOK, MessageState, Stages, HolderKnows, Sent
<1>3. CASE Clarify
  <2>1. current \in RunId /\ FirstOf(Pending, AnswerLimit) \subseteq Message /\ cs.m \in Message
    BY <1>3 DEF Clarify, TypeOK, Status, Waiting, NoRun, FirstOf, Pending, HolderKnows, Sent
  <2> DEFINE ids == FirstOf(Pending, AnswerLimit)
  <2>2. ids \cup {cs.m} \in SUBSET Message /\ ids \in SUBSET Message /\ "received" \in RunStatus
    BY <2>1, StatusNames
  <2>3. run' = [run EXCEPT ![current].status = "received",
                           ![current].words = @ \cup (ids \cup {cs.m}),
                           ![current].applied = @ \cup ids]
    BY <1>3 DEF Clarify
  <2> HIDE DEF ids
  <2>4. run' \in [RunId -> Run]
    BY <2>1, <2>2, <2>3, EditsTyped
  <2>5. cs' \in [at : Stages, m : Message \cup {0}, r : RunId \cup {NoRun},
                 queued : BOOLEAN, ids : SUBSET Message]
    BY <1>3, <2>1 DEF Clarify, TypeOK, Stages
  <2> QED
    BY <1>3, <2>4, <2>5 DEF Clarify, TypeOK
<1>4. CASE ContinueRun
  <2>1. current \in RunId /\ cs.m \in Message
    BY <1>4 DEF ContinueRun, TypeOK, Status, NoRun, HolderKnows, Sent
  <2>2. run' \in [RunId -> Run]
    <3>1. run' = [run EXCEPT ![current].status = "queued", ![current].words = @ \cup {cs.m}]
      BY <1>4 DEF ContinueRun
    <3>2. {cs.m} \in SUBSET Message /\ "queued" \in RunStatus
      BY <2>1, StatusNames
    <3>3. ASSUME NEW W, W \in SUBSET Message,
                 run' = [run EXCEPT ![current].status = "queued", ![current].words = @ \cup W]
          PROVE  run' \in [RunId -> Run]
      BY <2>1, <3>2, <3>3, EditsTyped
    <3> QED
      BY <3>1, <3>2, <3>3
  <2>3. cs' \in [at : Stages, m : Message \cup {0}, r : RunId \cup {NoRun},
                 queued : BOOLEAN, ids : SUBSET Message]
    BY <1>4, <2>1 DEF ContinueRun, TypeOK, Stages
  <2> QED
    BY <1>4, <2>1, <2>2, <2>3 DEF ContinueRun, TypeOK
<1>5. CASE ContinueRefused
  BY <1>5 DEF ContinueRefused, TypeOK, Free, Stages, NoRun
<1>6. CASE Requeue
  <2>1. cs.r \in RunId
    BY <1>6 DEF Requeue, HolderKnows, Opened
  <2>2. faults < MaxFaults => faults + 1 \in 0..MaxFaults
    BY LimitsAssumption DEF TypeOK
  <2>3. run' \in [RunId -> Run] /\ row' \in SUBSET RunId
    BY <1>6, <2>1, EditsTyped, StatusNames DEF Requeue, TypeOK
  <2>4. cs' \in [at : Stages, m : Message \cup {0}, r : RunId \cup {NoRun},
                 queued : BOOLEAN, ids : SUBSET Message]
    <3>1. cs \in Section
      BY DEF TypeOK, Section
    <3> QED
      <4>1. cs' = Free \/ cs' = [cs EXCEPT !.at = "settle"]
        BY <1>6 DEF Requeue
      <4>2. "settle" \in Stages
        BY DEF Stages
      <4>3. cs' \in Section
        BY <3>1, <4>1, <4>2, SectionsTyped
      <4> QED
        BY <4>3 DEF Section
  <2> QED
    BY <1>6, <2>2, <2>3, <2>4 DEF Requeue, TypeOK
<1>7. CASE SettleAnswered
  <2>1. cs.r \in RunId /\ cs.m \in Message
    BY <1>7 DEF SettleAnswered, HolderKnows, Opened, Sent
  <2> QED
    BY <1>7, <2>1, Settles DEF SettleAnswered, TypeOK, Free, Stages, NoRun
<1>8. CASE ReplyQueued
  BY <1>8 DEF ReplyQueued, TypeOK, Free, Stages, NoRun, HolderKnows, Sent
<1>9. CASE CreateRun
  <2>1. [Unopened EXCEPT !.status = "received", !.words = Sent] \in Run
    BY DEF Unopened, Run, RunStatus, InHand, NoRun, Sent
  <2> QED
    BY <1>9, <2>1 DEF CreateRun, TypeOK, Stages
<1>10. CASE FreezeVersion
  <2>1. cs.r \in RunId
    BY <1>10 DEF FreezeVersion, HolderKnows, Opened
  <2>2. run' \in [RunId -> Run]
    BY <1>10, <2>1, EditsTyped, StatusNames DEF FreezeVersion
  <2> QED
    BY <1>10, <2>2 DEF FreezeVersion, TypeOK, Stages
<1>11. CASE AttachRun
  BY <1>11 DEF AttachRun, TypeOK, Stages
<1>12. CASE SettleAll
  <2>1. cs.r \in RunId
    BY <1>12 DEF SettleAll, HolderKnows, Opened
  <2> QED
    BY <1>12, <2>1, Settles DEF SettleAll, TypeOK, Stages
<1>13. CASE StartCreated
  <2>1. cs.r \in RunId
    BY <1>13 DEF StartCreated, HolderKnows, Opened
  <2>2. faults < MaxFaults => faults + 1 \in 0..MaxFaults
    BY LimitsAssumption DEF TypeOK
  <2> QED
    BY <1>13, <2>1, <2>2 DEF StartCreated, TypeOK, Free, Stages, NoRun
<1> QED
  BY <1>1, <1>2, <1>3, <1>4, <1>5, <1>6, <1>7, <1>8, <1>9, <1>10, <1>11, <1>12, <1>13
  DEF MessageRoute

\* The dispatcher.
LEMMA SchedulerTyped ==
    ASSUME Inv, Scheduler
    PROVE  TypeOK'
<1> USE DEF Inv, conversation, counters
<1>1. CASE AdoptFeedback
  <2> DEFINE batch == FirstOf(Left, BatchLimit)
  <2>1. current \in RunId /\ batch \subseteq Message
    BY <1>1 DEF AdoptFeedback, Scannable, TypeOK, FirstOf, Left, Pending
  <2>2. CASE Left # {} /\ Status \in Delivered
    <3>1. /\ NewRun \in RunId
          /\ run' = [run EXCEPT ![NewRun] =
                       [Unopened EXCEPT !.status = "received", !.linked = TRUE,
                                        !.pred = current,
                                        !.words = run[current].words \cup batch]]
          /\ msgs' = [m \in Message |->
                        IF m \in Taken THEN [state |-> "adopted", by |-> current]
                        ELSE IF m \in batch THEN [state |-> "adopted", by |-> NewRun]
                        ELSE msgs[m]]
          /\ current' = NewRun
          /\ cs' = [Free EXCEPT !.at = "drain", !.r = NewRun]
          /\ UNCHANGED <<acked, row, worker, counters>>
      BY <1>1, <2>2 DEF AdoptFeedback
    <3>2. [Unopened EXCEPT !.status = "received", !.linked = TRUE, !.pred = current,
                           !.words = run[current].words \cup batch] \in Run
      BY <2>1 DEF TypeOK, Unopened, Run, RunStatus, InHand, NoRun
    <3>3. run' \in [RunId -> Run]
      BY <3>1, <3>2 DEF TypeOK
    <3>4. msgs' \in [Message -> [state : MessageState, by : RunId \cup {NoRun}]]
      BY <2>1, <3>1 DEF TypeOK, MessageState
    <3>5. cs' \in [at : Stages, m : Message \cup {0}, r : RunId \cup {NoRun},
                   queued : BOOLEAN, ids : SUBSET Message]
      BY <3>1 DEF Free, Stages
    <3> QED
      BY <3>1, <3>3, <3>4, <3>5 DEF TypeOK
  <2>3. CASE ~(Left # {} /\ Status \in Delivered)
    BY <1>1, <2>1, <2>3, Settles DEF AdoptFeedback, TypeOK
  <2> QED
    BY <2>2, <2>3
<1>2. CASE StartSuccessor
  <2>1. current \in RunId
    BY <1>2 DEF StartSuccessor, Scannable, TypeOK, HolderKnows, Opened
  <2>2. faults < MaxFaults => faults + 1 \in 0..MaxFaults
    BY LimitsAssumption DEF TypeOK
  <2> QED
    BY <1>2, <2>1, <2>2 DEF StartSuccessor, TypeOK, Free, Stages, NoRun
<1>3. ASSUME NEW r \in RunId, Dispatch(r) PROVE TypeOK'
  BY <1>3 DEF Dispatch, TypeOK
<1> QED
  BY <1>1, <1>2, <1>3 DEF Scheduler

\* Workers, the run page, a crash and the recovery.
LEMMA OthersTyped ==
    ASSUME Inv,
           \/ \E r \in RunId : Work(r) \/ RunPage(r)
           \/ Crash \/ Recover
    PROVE  TypeOK'
<1> USE DEF Inv, conversation, counters
<1>1. \A r \in RunId, s \in RunStatus : SetStatus(r, s) => run' \in [RunId -> Run]
  BY EditsTyped
<1>2. clicks < MaxClicks => clicks + 1 \in 0..MaxClicks
  BY LimitsAssumption DEF TypeOK
<1>3. faults < MaxFaults => faults + 1 \in 0..MaxFaults
  BY LimitsAssumption DEF TypeOK
<1>4. {"received", "queued", "running", "publishing", "needs_human",
       "needs_clarification", "cancelled", "discarded", "ready_for_review",
       "published"} \subseteq RunStatus
  BY StatusNames
<1>5. ASSUME NEW r \in RunId, Work(r) PROVE TypeOK'
  <2>1. CASE WorkerStart(r)
    BY <1>1, <1>4, <2>1 DEF WorkerStart, TypeOK
  <2>2. CASE WorkerReport(r)
    <3>1. run' \in [RunId -> Run]
      <4>1. \/ SetStatus(r, "needs_clarification")
            \/ SetStatus(r, "ready_for_review") \/ SetStatus(r, "needs_human")
            \/ UNCHANGED run
        BY <2>2 DEF WorkerReport
      <4> QED
        BY <1>1, <1>4, <4>1 DEF TypeOK
    <3> QED
      BY <2>2, <3>1 DEF WorkerReport, TypeOK
  <2>3. CASE WorkerEnd(r)
    BY <2>3 DEF WorkerEnd, TypeOK
  <2> QED
    BY <1>5, <2>1, <2>2, <2>3 DEF Work
<1>6. ASSUME NEW r \in RunId, RunPage(r) PROVE TypeOK'
  <2>1. CASE CreateRetry(r)
    <3>1. [run[r] EXCEPT !.status = "received", !.retryOf = r] \in Run
      <4>1. run[r] \in Run /\ "received" \in RunStatus
        BY StatusNames DEF TypeOK
      <4> QED
        BY <4>1 DEF Run
    <3>2. cs' \in [at : Stages, m : Message \cup {0}, r : RunId \cup {NoRun},
                   queued : BOOLEAN, ids : SUBSET Message]
      BY <2>1 DEF CreateRetry, Free, Stages
    <3> QED
      BY <2>1, <3>1, <3>2 DEF CreateRetry, TypeOK
  <2>2. CASE Resume(r)
    BY <1>1, <1>2, <1>4, <2>2 DEF Resume, Click, TypeOK
  <2>3. CASE Cancel(r)
    BY <1>1, <1>2, <1>4, <2>3 DEF Cancel, Click, TypeOK
  <2>4. CASE Discard(r)
    BY <1>1, <1>2, <1>4, <2>4 DEF Discard, Click, TypeOK
  <2>5. CASE PublishBegin(r)
    BY <1>1, <1>2, <1>4, <2>5 DEF PublishBegin, Click, TypeOK
  <2>6. CASE PublishEnd(r)
    BY <1>1, <1>4, <2>6 DEF PublishEnd, Delivered, TypeOK
  <2> QED
    BY <1>6, <2>1, <2>2, <2>3, <2>4, <2>5, <2>6 DEF RunPage
<1>7. CASE Crash
  <2>1. Gone \in [at : Stages, m : Message \cup {0}, r : RunId \cup {NoRun},
                  queued : BOOLEAN, ids : SUBSET Message]
    BY DEF Gone, Free, Stages, NoRun
  <2> QED
    BY <1>3, <1>7, <2>1 DEF Crash, TypeOK
<1>8. CASE Recover
  <2>1. PICK resume \in Policies, resumed \in [RunId -> {"received", "queued", "needs_human"}] :
          /\ run' = [r \in RunId |-> [run[r] EXCEPT !.status = Recovered(r, resume, resumed[r])]]
          /\ row' \subseteq RunId
    BY <1>8 DEF Recover
  <2>2. \A r \in RunId : Recovered(r, resume, resumed[r]) \in RunStatus
    BY <1>4 DEF Recovered, TypeOK, Run
  <2>3. run' \in [RunId -> Run]
    <3>1. ASSUME NEW r \in RunId
          PROVE  [run[r] EXCEPT !.status = Recovered(r, resume, resumed[r])] \in Run
      <4> DEFINE s == Recovered(r, resume, resumed[r])
      <4>1. run[r] \in Run /\ s \in RunStatus
        BY <2>2 DEF TypeOK
      <4> HIDE DEF s
      <4>2. [run[r] EXCEPT !.status = s] \in Run
        BY <4>1 DEF Run
      <4> QED
        BY <4>2 DEF s
    <3> QED
      BY <2>1, <3>1
  <2> QED
    BY <1>8, <2>1, <2>3 DEF Recover, TypeOK, Free, Stages, NoRun
<1> QED
  BY <1>5, <1>6, <1>7, <1>8

LEMMA NextTyped ==
    ASSUME Inv, Next
    PROVE  TypeOK'
BY RouteTyped, SchedulerTyped, OthersTyped DEF Next

-----------------------------------------------------------------------------
(* What each kind of step keeps of the four conjuncts about meaning.       *)

LEMMA GrowingKeepsOrder ==
    ASSUME Contiguous, Grows
    PROVE  Contiguous'
BY GrowingOpens DEF Contiguous

LEMMA GrowingKeepsChain ==
    ASSUME Chain, Grows, current' = current
    PROVE  Chain'
<1>1. Opened' = Opened /\ \A s, r \in RunId : Follows(s, r)' <=> Follows(s, r)
  BY GrowingOpens
<1> QED
  BY <1>1 DEF Chain

\* Pending words that are in run r are marked as adopted by it, and messages
\* are acknowledged that wait or are in a run.
LEMMA MarkingKeeps ==
    ASSUME TypeOK, Kept, Grows, NEW r \in Opened,
           NEW ids, ids \subseteq Pending \cap run[r].words,
           msgs' = Settled(ids, r),
           NEW A, A \subseteq Sent, acked' = acked \cup A,
           \A m \in A : msgs'[m].state = "pending" \/ \E q \in Opened : m \in run'[q].words
    PROVE  Kept'
<1>1. Opened' = Opened
  BY GrowingOpens
<1>2. \A q \in Opened : q \in RunId /\ run[q].words \subseteq run'[q].words
  BY DEF Opened, Grows
<1>3. \A m \in Message : msgs'[m] = IF m \in ids THEN [state |-> "adopted", by |-> r]
                                                 ELSE msgs[m]
  BY DEF Settled
<1>4. ASSUME NEW m \in Message, msgs'[m].state = "adopted"
      PROVE  msgs'[m].by \in Opened /\ m \in run'[msgs'[m].by].words
  <2>1. CASE m \in ids
    <3>1. msgs'[m].by = r /\ m \in run[r].words
      BY <1>3, <2>1
    <3> QED
      BY <3>1, <1>2
  <2>2. CASE m \notin ids
    <3>1. msgs'[m] = msgs[m]
      BY <1>3, <2>2
    <3>2. msgs[m].by \in Opened /\ m \in run[msgs[m].by].words
      BY <1>4, <3>1 DEF Kept
    <3> QED
      BY <3>1, <3>2, <1>2
  <2> QED
    BY <2>1, <2>2
<1>5. ASSUME NEW m \in acked
      PROVE  msgs'[m].state = "pending" \/ \E q \in Opened : m \in run'[q].words
  <2>1. m \in Message
    BY DEF TypeOK
  <2>2. CASE m \in ids
    BY <1>2, <2>2
  <2>3. CASE m \notin ids
    BY <1>2, <1>3, <2>1, <2>3 DEF Kept
  <2> QED
    BY <2>2, <2>3
<1>6. Sent \subseteq Sent'
  BY <1>3 DEF Sent
<1>7. \A q \in Opened : run'[q].applied \subseteq run'[q].words
  BY <1>2 DEF Kept, Grows
<1> QED
  BY <1>1, <1>4, <1>5, <1>6, <1>7 DEF Kept

LEMMA GrowingKeepsWords ==
    ASSUME TypeOK, Kept, Grows, UNCHANGED <<msgs, acked>>
    PROVE  Kept'
<1>1. Opened' = Opened
  BY GrowingOpens
<1>2. \A q \in Opened : /\ q \in RunId /\ run[q].words \subseteq run'[q].words
                        /\ run[q].applied \subseteq run[q].words
                              => run'[q].applied \subseteq run'[q].words
  BY DEF Opened, Grows
<1>3. Sent' = Sent
  BY DEF Sent
<1>4. \A m \in Message : msgs[m].state = "adopted" =>
          msgs[m].by \in Opened /\ m \in run'[msgs[m].by].words
  BY <1>2 DEF Kept
<1>5. \A m \in acked : \/ msgs[m].state = "pending"
                       \/ \E q \in Opened : m \in run'[q].words
  BY <1>2 DEF Kept
<1> QED
  BY <1>1, <1>2, <1>3, <1>4, <1>5 DEF Kept

\* A step of a thread that takes no lock, under a holder that does.
LEMMA HolderUndisturbed ==
    ASSUME HolderKnows, Grows, UNCHANGED <<msgs, current, cs>>,
           cs.at \in {"append", "act"} /\ (Status \in InHand)' => Status \in InHand
    PROVE  HolderKnows'
<1>1. Opened' = Opened /\ \A s, r \in RunId : Follows(s, r)' <=> Follows(s, r)
  BY GrowingOpens
<1>2. \A q \in Opened : q \in RunId /\ run[q].words \subseteq run'[q].words
  BY DEF Opened, Grows
<1>3. Sent' = Sent /\ Pending' = Pending
  BY DEF Sent, Pending
<1> QED
  BY <1>1, <1>2, <1>3 DEF HolderKnows

LEMMA NobodyHolds ==
    ASSUME cs'.at \in {"idle", "down"}
    PROVE  HolderKnows'
BY DEF HolderKnows

\* A step that changes documents only, while the holder stays where it is.
LEMMA QuietStep ==
    ASSUME Inv, TypeOK', Grows, UNCHANGED conversation, UNCHANGED cs,
           cs.at \in {"append", "act"} /\ (Status \in InHand)' => Status \in InHand
    PROVE  Inv'
<1>1. UNCHANGED <<msgs, acked, current>>
  BY DEF conversation
<1> QED
  BY <1>1, GrowingKeepsOrder, GrowingKeepsChain, GrowingKeepsWords, HolderUndisturbed
  DEF Inv

\* The status of the run at hand changes in a way that no message of the holder
\* can have counted on.
LEMMA StatusStep ==
    ASSUME Inv, TypeOK', NEW r \in Opened, NEW s, s # "none", SetStatus(r, s),
           UNCHANGED conversation, UNCHANGED cs,
           LockFree \/ (s \in InHand => run[r].status \in InHand)
    PROVE  Inv'
<1>1. r \in RunId /\ run \in [RunId -> Run] /\ TypeOK
  BY DEF Opened, Inv, TypeOK
<1>2. Grows
  BY <1>1, StatusGrows
<1>3. run'[r].status = s /\ \A q \in RunId : q # r => run'[q] = run[q]
  BY <1>1 DEF SetStatus, Run
<1>4. current' = current /\ (current = NoRun \/ current \in RunId)
  BY <1>1 DEF conversation, TypeOK
<1>5. cs.at \in {"append", "act"} /\ (Status \in InHand)' => Status \in InHand
  <2> SUFFICES ASSUME cs.at \in {"append", "act"}, (Status \in InHand)'
               PROVE  Status \in InHand
    OBVIOUS
  <2>1. s \in InHand => run[r].status \in InHand
    BY DEF LockFree
  <2>2. CASE current = NoRun
    BY <1>4, <2>2 DEF Status
  <2>3. CASE current = r /\ current # NoRun
    BY <1>3, <1>4, <2>1, <2>3 DEF Status
  <2>4. CASE current # r /\ current # NoRun
    BY <1>3, <1>4, <2>4 DEF Status
  <2> QED
    BY <2>2, <2>3, <2>4
<1> QED
  BY <1>2, <1>5, QuietStep

\* Nothing of a run's document changes.
LEMMA SameDocuments ==
    ASSUME Inv, TypeOK', UNCHANGED conversation, UNCHANGED cs, UNCHANGED run
    PROVE  Inv'
<1>1. Grows
  BY SameRunsGrow
<1>2. (Status \in InHand)' => Status \in InHand
  BY DEF Status, conversation
<1> QED
  BY <1>1, <1>2, QuietStep

-----------------------------------------------------------------------------
(* The actions of threads that take no lock, or take it for one step.      *)

LEMMA WorkKeeps ==
    ASSUME Inv, TypeOK', NEW r \in RunId, Work(r)
    PROVE  Inv'
<1>1. CASE WorkerStart(r)
  <2>1. CASE run[r].status \notin {"received", "queued"}
    BY <1>1, <2>1, SameDocuments DEF WorkerStart
  <2>2. CASE run[r].status \in {"received", "queued"}
    <3>1. r \in Opened /\ run[r].status \in InHand
      BY <2>2 DEF Opened, InHand
    <3>2. CASE SetStatus(r, "running")
      BY <1>1, <3>1, <3>2, StatusStep DEF WorkerStart
    <3>3. CASE SetStatus(r, "needs_human")
      BY <1>1, <3>1, <3>3, StatusStep DEF WorkerStart
    <3> QED
      BY <1>1, <2>2, <3>2, <3>3 DEF WorkerStart
  <2> QED
    BY <2>1, <2>2
<1>2. CASE WorkerReport(r)
  <2>1. UNCHANGED conversation /\ UNCHANGED cs
    BY <1>2 DEF WorkerReport
  <2>2. CASE run[r].status # "running"
    BY <1>2, <2>1, <2>2, SameDocuments DEF WorkerReport
  <2>3. CASE run[r].status = "running"
    <3>1. r \in Opened /\ run[r].status \in InHand
      BY <2>3 DEF Opened, InHand
    <3>2. \/ SetStatus(r, "needs_clarification")
          \/ SetStatus(r, "ready_for_review") \/ SetStatus(r, "needs_human")
      BY <1>2, <2>3 DEF WorkerReport
    <3> QED
      BY <2>1, <3>1, <3>2, StatusStep
  <2> QED
    BY <2>2, <2>3
<1>3. CASE WorkerEnd(r)
  BY <1>3, SameDocuments DEF WorkerEnd
<1> QED
  BY <1>1, <1>2, <1>3 DEF Work

LEMMA PageKeeps ==
    ASSUME Inv, TypeOK', NEW r \in RunId,
           Resume(r) \/ Cancel(r) \/ Discard(r) \/ PublishBegin(r) \/ PublishEnd(r)
    PROVE  Inv'
<1>1. CASE Resume(r)
  <2>1. r \in Opened /\ LockFree
    BY <1>1 DEF Resume, Opened, Waiting
  <2> QED
    BY <1>1, <2>1, StatusStep DEF Resume
<1>2. CASE Cancel(r)
  <2>1. r \in Opened /\ LockFree
    BY <1>2 DEF Cancel, Opened, Waiting
  <2> QED
    BY <1>2, <2>1, StatusStep DEF Cancel
<1>3. CASE Discard(r)
  <2>1. r \in Opened /\ LockFree
    BY <1>3 DEF Discard, Opened, Waiting
  <2> QED
    BY <1>3, <2>1, StatusStep DEF Discard
<1>4. CASE PublishBegin(r)
  <2>1. r \in Opened /\ run[r].status \in InHand
    BY <1>4 DEF PublishBegin, Opened, InHand
  <2> QED
    BY <1>4, <2>1, StatusStep DEF PublishBegin
<1>5. CASE PublishEnd(r)
  <2>1. r \in Opened /\ run[r].status \in InHand
    BY <1>5 DEF PublishEnd, Opened, InHand
  <2>2. SetStatus(r, "ready_for_review") \/ SetStatus(r, "published")
    BY <1>5 DEF PublishEnd, Delivered
  <2> QED
    BY <1>5, <2>1, <2>2, StatusStep DEF PublishEnd
<1> QED
  BY <1>1, <1>2, <1>3, <1>4, <1>5

\* A step after which nobody holds the lock, and that changes no message.
LEMMA ReleasingKeeps ==
    ASSUME Inv, TypeOK', Grows, UNCHANGED conversation, cs'.at \in {"idle", "down"}
    PROVE  Inv'
<1>1. UNCHANGED <<msgs, acked, current>>
  BY DEF conversation
<1> QED
  BY <1>1, GrowingKeepsOrder, GrowingKeepsChain, GrowingKeepsWords, NobodyHolds
  DEF Inv

LEMMA RestartKeeps ==
    ASSUME Inv, TypeOK', Crash \/ Recover
    PROVE  Inv'
<1>1. cs'.at \in {"idle", "down"} /\ UNCHANGED conversation
  BY DEF Crash, Recover, Gone, Free
<1>2. CASE Crash
  BY <1>1, <1>2, SameRunsGrow, ReleasingKeeps DEF Crash
<1>3. CASE Recover
  <2>1. PICK resume \in Policies, resumed \in [RunId -> {"received", "queued", "needs_human"}] :
          run' = [r \in RunId |-> [run[r] EXCEPT !.status = Recovered(r, resume, resumed[r])]]
    BY <1>3 DEF Recover
  <2>2. ASSUME NEW r \in RunId
        PROVE  Recovered(r, resume, resumed[r]) = "none" <=> run[r].status = "none"
    <3>1. resumed[r] # "none"
      OBVIOUS
    <3>2. CASE run[r].status = "none"
      <4>1. run[r].status \notin {"received", "queued", "running"} \cup Active
        BY <3>2 DEF Active
      <4>2. Recovered(r, resume, resumed[r]) = run[r].status
        BY <4>1, Zenon DEF Recovered
      <4> QED
        BY <3>2, <4>2
    <3>3. CASE run[r].status # "none"
      <4>1. Recovered(r, resume, resumed[r])
              \in {"received", "queued", "needs_human", resumed[r], run[r].status}
        BY ZenonT(60) DEF Recovered
      <4> QED
        BY <3>1, <3>3, <4>1
    <3> QED
      BY <3>2, <3>3
  <2>3. ASSUME NEW r \in RunId, NEW s
        PROVE  LET d == [run[r] EXCEPT !.status = s] IN
               /\ d.status = s /\ d.words = run[r].words /\ d.applied = run[r].applied
               /\ d.retryOf = run[r].retryOf /\ d.pred = run[r].pred
    <3>1. run[r] \in Run
      BY DEF Inv, TypeOK
    <3> QED
      BY <3>1 DEF Run
  <2>4. Grows
    <3>1. ASSUME NEW r \in RunId
          PROVE  /\ run'[r].status = Recovered(r, resume, resumed[r])
                 /\ run'[r].words = run[r].words /\ run'[r].applied = run[r].applied
                 /\ run'[r].retryOf = run[r].retryOf /\ run'[r].pred = run[r].pred
      <4>1. run'[r] = [run[r] EXCEPT !.status = Recovered(r, resume, resumed[r])]
        BY <2>1
      <4> QED
        BY <2>3, <4>1
    <3> QED
      BY <2>2, <3>1 DEF Grows
  <2> QED
    BY <1>1, <2>4, ReleasingKeeps
<1> QED
  BY <1>2, <1>3

LEMMA DispatcherKeeps ==
    ASSUME Inv, TypeOK', StartSuccessor \/ \E r \in RunId : Dispatch(r)
    PROVE  Inv'
<1>1. CASE StartSuccessor
  <2>1. cs'.at = "idle"
    BY <1>1 DEF StartSuccessor, Free
  <2> QED
    BY <1>1, <2>1, SameRunsGrow, ReleasingKeeps DEF StartSuccessor
<1>2. ASSUME NEW r \in RunId, Dispatch(r) PROVE Inv'
  BY <1>2, SameDocuments DEF Dispatch
<1> QED
  BY <1>1, <1>2

-----------------------------------------------------------------------------
(* The message route: each stage hands what it has established to the next. *)

\* The route goes on without touching a run or a message.
LEMMA StageStep ==
    ASSUME Inv, TypeOK', UNCHANGED <<msgs, acked, current, run>>, HolderKnows'
    PROVE  Inv'
BY SameRunsGrow, GrowingKeepsOrder, GrowingKeepsChain, GrowingKeepsWords DEF Inv

LEMMA ReadKeeps ==
    ASSUME Inv, TypeOK', NEW m \in Message, ReadRun(m)
    PROVE  Inv'
<1>1. cs' = [Free EXCEPT !.at = "append", !.m = m, !.queued = Status \in InHand]
      /\ m \notin Sent /\ UNCHANGED <<msgs, acked, current, run>>
  BY DEF ReadRun, conversation
<1>2. cs'.at = "append" /\ cs'.m = m /\ cs'.ids = {} /\ (Status \in InHand => cs'.queued)
  BY <1>1 DEF Free
<1>3. Sent' = Sent /\ Status' = Status
  BY <1>1 DEF Sent, Status
<1>4. HolderKnows'
  BY <1>1, <1>2, <1>3 DEF HolderKnows
<1> QED
  BY <1>1, <1>4, StageStep

LEMMA AppendKeeps ==
    ASSUME Inv, TypeOK', AppendMessage
    PROVE  Inv'
<1>1. /\ cs.m \in Message \ Sent /\ (Status \in InHand => cs.queued) /\ cs.ids = {}
      /\ msgs' = [msgs EXCEPT ![cs.m].state = IF cs.queued THEN "pending" ELSE "plain"]
      /\ cs' = [cs EXCEPT !.at = "act"] /\ UNCHANGED <<acked, current, run>>
  BY DEF AppendMessage, Inv, HolderKnows
<1>2. TypeOK /\ Kept
  BY DEF Inv
<1>3. cs'.at = "act" /\ cs'.m = cs.m /\ cs'.ids = {}
  BY <1>1, <1>2 DEF TypeOK
<1>4. /\ msgs'[cs.m].state = IF cs.queued THEN "pending" ELSE "plain"
      /\ \A m \in Message : m # cs.m => msgs'[m] = msgs[m]
  BY <1>1, <1>2 DEF TypeOK
<1>5. Sent' = Sent \cup {cs.m}
  BY <1>1, <1>4 DEF Sent
<1>6. cs.m \notin acked
  BY <1>1, <1>2 DEF Kept
<1>7. Opened' = Opened /\ Status' = Status
  BY <1>1 DEF Opened, Status
<1>8. Kept'
  <2>1. ASSUME NEW m \in Message, msgs'[m].state = "adopted"
        PROVE  msgs'[m].by \in Opened /\ m \in run[msgs'[m].by].words
    BY <1>2, <1>4, <2>1 DEF Kept
  <2>2. ASSUME NEW m \in acked
        PROVE  msgs'[m].state = "pending" \/ \E r \in Opened : m \in run[r].words
    BY <1>2, <1>4, <1>6 DEF Kept, TypeOK
  <2> QED
    BY <1>1, <1>2, <1>5, <1>7, <2>1, <2>2 DEF Kept
<1>9. HolderKnows'
  BY <1>1, <1>3, <1>4, <1>5, <1>7 DEF HolderKnows
<1> QED
  BY <1>1, <1>8, <1>9, SameRunsGrow, GrowingKeepsOrder, GrowingKeepsChain DEF Inv

\* An answer or a continuation adds words to the run at hand.
LEMMA AnswerKeeps ==
    ASSUME Inv, TypeOK', NEW s, s # "none", NEW ids, ids \subseteq Message,
           NEW A, A \subseteq ids,
           cs.at = "act", current \in Opened, UNCHANGED conversation,
           run'[current].status = s,
           run'[current].words = run[current].words \cup ids \cup {cs.m},
           run'[current].applied = run[current].applied \cup A,
           run'[current].retryOf = run[current].retryOf,
           run'[current].pred = run[current].pred,
           \A r \in RunId : r # current => run'[r] = run[r],
           cs'.at = "restart", cs'.m = cs.m, cs'.r = current, cs'.ids \subseteq ids
    PROVE  Inv'
<1>1. current \in RunId /\ run[current].status # "none" /\ UNCHANGED <<msgs, acked, current>>
  BY DEF Opened, conversation
<1>2. Grows
  BY <1>1 DEF Grows
<1>3. Opened' = Opened /\ Sent' = Sent
  BY <1>1, <1>2, GrowingOpens DEF Sent
<1>4. cs.m \in Sent
  BY DEF Inv, HolderKnows
<1>5. HolderKnows'
  BY <1>3, <1>4 DEF HolderKnows
<1> QED
  BY <1>1, <1>2, <1>5, GrowingKeepsOrder, GrowingKeepsChain, GrowingKeepsWords DEF Inv

LEMMA CurrentOpened ==
    ASSUME Inv, Status \in Waiting
    PROVE  current \in Opened
BY DEF Inv, Chain, Status, Waiting

LEMMA ClarifyKeeps ==
    ASSUME Inv, TypeOK', Clarify
    PROVE  Inv'
<1> DEFINE ids == FirstOf(Pending, AnswerLimit)
<1>1. current \in Opened /\ current \in RunId /\ run[current] \in Run /\ run \in [RunId -> Run]
  BY CurrentOpened DEF Clarify, Opened, Inv, TypeOK
<1>2. ids \subseteq Message
  BY DEF FirstOf, Pending
<1>3. /\ cs.at = "act" /\ UNCHANGED conversation
      /\ run' = [run EXCEPT ![current].status = "received",
                            ![current].words = @ \cup ids \cup {cs.m},
                            ![current].applied = @ \cup ids]
      /\ cs' = [cs EXCEPT !.at = "restart", !.r = current, !.ids = ids]
  BY DEF Clarify
<1> HIDE DEF ids
<1>4. cs'.at = "restart" /\ cs'.m = cs.m /\ cs'.r = current /\ cs'.ids = ids
  BY <1>3 DEF Inv, TypeOK
<1>5. /\ run'[current].status = "received"
      /\ run'[current].words = run[current].words \cup ids \cup {cs.m}
      /\ run'[current].applied = run[current].applied \cup ids
      /\ run'[current].retryOf = run[current].retryOf
      /\ run'[current].pred = run[current].pred
      /\ \A r \in RunId : r # current => run'[r] = run[r]
  BY <1>1, <1>3 DEF Run
<1> QED
  BY <1>1, <1>2, <1>3, <1>4, <1>5, AnswerKeeps

LEMMA ContinueKeeps ==
    ASSUME Inv, TypeOK', ContinueRun
    PROVE  Inv'
<1>1. current \in Opened /\ current \in RunId /\ run[current] \in Run /\ run \in [RunId -> Run]
  BY CurrentOpened DEF ContinueRun, Waiting, Opened, Inv, TypeOK
<1>2. /\ cs.at = "act" /\ UNCHANGED conversation
      /\ run' = [run EXCEPT ![current].status = "queued",
                            ![current].words = @ \cup {cs.m}]
      /\ cs' = [cs EXCEPT !.at = "restart", !.r = current]
  BY DEF ContinueRun
<1>3. cs'.at = "restart" /\ cs'.m = cs.m /\ cs'.r = current /\ cs'.ids = {}
  BY <1>2 DEF Inv, TypeOK, HolderKnows
<1>4. /\ run'[current].status = "queued"
      /\ run'[current].words = run[current].words \cup {} \cup {cs.m}
      /\ run'[current].applied = run[current].applied \cup {}
      /\ run'[current].retryOf = run[current].retryOf
      /\ run'[current].pred = run[current].pred
      /\ \A r \in RunId : r # current => run'[r] = run[r]
  BY <1>1, <1>2 DEF Run
<1> QED
  BY <1>1, <1>2, <1>3, <1>4, AnswerKeeps

\* Messages that wait or are in a run are acknowledged, and the lock released.
LEMMA AckKeeps ==
    ASSUME Inv, TypeOK', UNCHANGED <<msgs, current, run>>,
           NEW A, A \subseteq Sent, acked' = acked \cup A,
           \A m \in A : msgs[m].state = "pending" \/ \E r \in Opened : m \in run[r].words,
           cs'.at = "idle"
    PROVE  Inv'
<1>1. Opened' = Opened /\ Sent' = Sent
  BY DEF Opened, Sent
<1>2. Kept'
  BY <1>1 DEF Inv, Kept
<1> QED
  BY <1>2, SameRunsGrow, GrowingKeepsOrder, GrowingKeepsChain, NobodyHolds DEF Inv

LEMMA ReplyKeeps ==
    ASSUME Inv, TypeOK', ReplyQueued \/ ContinueRefused
    PROVE  Inv'
<1>1. CASE ReplyQueued
  <2>1. cs'.at = "idle" /\ acked' = acked \cup {cs.m} /\ UNCHANGED <<msgs, current, run>>
    BY <1>1 DEF ReplyQueued, Free
  <2>2. cs.m \in Sent /\ msgs[cs.m].state = "pending"
    BY <1>1 DEF ReplyQueued, Inv, HolderKnows
  <2> QED
    <3> DEFINE A == {cs.m}
    <3>1. /\ A \subseteq Sent /\ acked' = acked \cup A
          /\ \A m \in A : msgs[m].state = "pending" \/ \E r \in Opened : m \in run[r].words
      BY <2>1, <2>2
    <3> HIDE DEF A
    <3> QED
      BY <2>1, <3>1, AckKeeps
<1>2. CASE ContinueRefused
  <2>1. cs'.at = "idle" /\ UNCHANGED conversation /\ UNCHANGED run
    BY <1>2 DEF ContinueRefused, Free
  <2> QED
    BY <2>1, SameRunsGrow, ReleasingKeeps
<1> QED
  BY <1>1, <1>2

LEMMA RequeueKeeps ==
    ASSUME Inv, TypeOK', Requeue
    PROVE  Inv'
<1>1. /\ cs.m \in Sent /\ cs.r \in Opened /\ cs.ids \cup {cs.m} \subseteq run[cs.r].words
      /\ UNCHANGED conversation
  BY DEF Requeue, Inv, HolderKnows
<1>2. CASE UNCHANGED run /\ cs' = [cs EXCEPT !.at = "settle"]
  <2>1. cs'.at = "settle" /\ cs'.m = cs.m /\ cs'.r = cs.r /\ cs'.ids = cs.ids
    BY <1>2 DEF Inv, TypeOK
  <2>2. Opened' = Opened /\ Sent' = Sent /\ UNCHANGED <<msgs, acked, current, run>>
    BY <1>1, <1>2 DEF conversation, Opened, Sent
  <2>3. HolderKnows'
    BY <1>1, <2>1, <2>2 DEF HolderKnows
  <2> QED
    BY <2>2, <2>3, StageStep
<1>3. CASE SetStatus(cs.r, "needs_human") /\ cs' = Free
  <2>1. cs'.at = "idle" /\ cs.r \in RunId /\ TypeOK
    BY <1>1, <1>3 DEF Free, Opened, Inv
  <2>2. Grows
    BY <1>1, <1>3, <2>1, StatusGrows
  <2> QED
    BY <1>1, <2>1, <2>2, ReleasingKeeps
<1> QED
  BY <1>2, <1>3 DEF Requeue

LEMMA SettleAnsweredKeeps ==
    ASSUME Inv, TypeOK', SettleAnswered
    PROVE  Inv'
<1>1. cs.m \in Sent /\ cs.r \in Opened /\ cs.ids \cup {cs.m} \subseteq run[cs.r].words
  BY DEF SettleAnswered, Inv, HolderKnows
<1>2. /\ msgs' = Settled(Pending \cap cs.ids, cs.r) /\ acked' = acked \cup {cs.m}
      /\ cs'.at = "idle" /\ UNCHANGED <<current, run>>
  BY DEF SettleAnswered, Free
<1>3. Grows
  BY <1>2, SameRunsGrow
<1>4. \A m \in {cs.m} : \E q \in Opened : m \in run'[q].words
  BY <1>1, <1>2
<1>5. Kept'
  <2> DEFINE ids == Pending \cap cs.ids
             A   == {cs.m}
  <2>1. ids \subseteq Pending \cap run[cs.r].words /\ A \subseteq Sent
    BY <1>1
  <2>2. msgs' = Settled(ids, cs.r) /\ acked' = acked \cup A
    BY <1>2
  <2>3. \A m \in A : msgs'[m].state = "pending" \/ \E q \in Opened : m \in run'[q].words
    BY <1>4
  <2> HIDE DEF ids, A
  <2> QED
    BY <1>1, <1>3, <2>1, <2>2, <2>3, MarkingKeeps DEF Inv
<1> QED
  BY <1>2, <1>3, <1>5, GrowingKeepsOrder, GrowingKeepsChain, NobodyHolds DEF Inv

LEMMA SettleAllKeeps ==
    ASSUME Inv, TypeOK', SettleAll
    PROVE  Inv'
<1>1. /\ cs.r \in Opened /\ {cs.m} \cap Message \subseteq Sent \cap run[cs.r].words
      /\ Pending \subseteq run[cs.r].words
  BY DEF SettleAll, Inv, HolderKnows
<1>2. /\ msgs' = Settled(Pending, cs.r) /\ cs' = [cs EXCEPT !.at = "start"]
      /\ UNCHANGED <<acked, current, run>>
  BY DEF SettleAll
<1>3. Grows
  BY <1>2, SameRunsGrow
<1>4. Kept'
  <2> DEFINE ids == Pending
             A   == {}
  <2>1. ids \subseteq Pending \cap run[cs.r].words /\ A \subseteq Sent
    BY <1>1
  <2>2. msgs' = Settled(ids, cs.r) /\ acked' = acked \cup A
    BY <1>2
  <2>3. \A m \in A : msgs'[m].state = "pending" \/ \E q \in Opened : m \in run'[q].words
    OBVIOUS
  <2> HIDE DEF ids, A
  <2> QED
    BY <1>1, <1>3, <2>1, <2>2, <2>3, MarkingKeeps DEF Inv
<1>5. cs'.at = "start" /\ cs'.m = cs.m /\ cs'.r = cs.r
  BY <1>2 DEF Inv, TypeOK
<1>6. Opened' = Opened /\ Sent \subseteq Sent'
  BY <1>2 DEF Opened, Sent, Settled
<1>7. HolderKnows'
  BY <1>1, <1>2, <1>5, <1>6 DEF HolderKnows
<1> QED
  BY <1>2, <1>3, <1>4, <1>7, GrowingKeepsOrder, GrowingKeepsChain DEF Inv

LEMMA FreezeKeeps ==
    ASSUME Inv, TypeOK', FreezeVersion
    PROVE  Inv'
<1>1. /\ cs.r \in Opened /\ {cs.m} \cap Message \subseteq Sent \cap run[cs.r].words
      /\ Pending \subseteq run[cs.r].words /\ \A s \in RunId : ~Follows(s, cs.r)
  BY DEF FreezeVersion, Inv, HolderKnows
<1>2. /\ run' = [run EXCEPT ![cs.r].linked = TRUE] /\ cs' = [cs EXCEPT !.at = "attach"]
      /\ UNCHANGED <<msgs, acked, current>>
  BY DEF FreezeVersion, conversation
<1>3. /\ \A r \in RunId : /\ run'[r].status = run[r].status /\ run'[r].words = run[r].words
                          /\ run'[r].applied = run[r].applied
                          /\ run'[r].retryOf = run[r].retryOf /\ run'[r].pred = run[r].pred
  BY <1>1, <1>2 DEF Inv, TypeOK, Run
<1>4. Grows
  BY <1>3 DEF Grows
<1>5. Opened' = Opened /\ \A s, r \in RunId : Follows(s, r)' <=> Follows(s, r)
  BY <1>4, GrowingOpens
<1>6. cs'.at = "attach" /\ cs'.m = cs.m /\ cs'.r = cs.r /\ cs.r \in RunId
  BY <1>1, <1>2 DEF Inv, TypeOK, Opened
<1>7. Sent' = Sent /\ Pending' = Pending
  BY <1>2 DEF Sent, Pending
<1>8. HolderKnows'
  BY <1>1, <1>3, <1>5, <1>6, <1>7 DEF HolderKnows
<1> QED
  BY <1>2, <1>4, <1>8, GrowingKeepsOrder, GrowingKeepsChain, GrowingKeepsWords DEF Inv

LEMMA AttachKeeps ==
    ASSUME Inv, TypeOK', AttachRun
    PROVE  Inv'
<1>1. /\ cs.r \in Opened /\ {cs.m} \cap Message \subseteq Sent \cap run[cs.r].words
      /\ Pending \subseteq run[cs.r].words /\ \A s \in RunId : ~Follows(s, cs.r)
  BY DEF AttachRun, Inv, HolderKnows
<1>2. /\ current' = cs.r /\ cs' = [cs EXCEPT !.at = "settle_all"]
      /\ UNCHANGED <<msgs, acked, run>>
  BY DEF AttachRun
<1>3. cs'.at = "settle_all" /\ cs'.m = cs.m /\ cs'.r = cs.r
  BY <1>2 DEF Inv, TypeOK
<1>4. /\ Opened' = Opened /\ Sent' = Sent /\ Pending' = Pending
      /\ \A s, r \in RunId : Follows(s, r)' <=> Follows(s, r)
  BY <1>2 DEF Opened, Sent, Pending, Follows
<1>5. HolderKnows'
  BY <1>1, <1>2, <1>3, <1>4 DEF HolderKnows
<1>6. Chain'
  BY <1>1, <1>2, <1>4 DEF Inv, Chain
<1> QED
  BY <1>2, <1>5, <1>6, SameRunsGrow, GrowingKeepsOrder, GrowingKeepsWords DEF Inv

LEMMA StartKeeps ==
    ASSUME Inv, TypeOK', StartCreated
    PROVE  Inv'
<1>1. cs.r \in Opened /\ {cs.m} \cap Message \subseteq Sent \cap run[cs.r].words
  BY DEF StartCreated, Inv, HolderKnows
<1>2. cs'.at = "idle" /\ UNCHANGED <<msgs, current, run>>
  BY DEF StartCreated, Free
<1>3. acked' = acked \cup ({cs.m} \cap Message) \/ acked' = acked \cup {}
  BY DEF StartCreated
<1>4. PICK A : A \subseteq {cs.m} \cap Message /\ acked' = acked \cup A
  BY <1>3
<1>5. /\ A \subseteq Sent
      /\ \A m \in A : msgs[m].state = "pending" \/ \E r \in Opened : m \in run[r].words
  BY <1>1, <1>4
<1> QED
  BY <1>2, <1>4, <1>5, AckKeeps

-----------------------------------------------------------------------------
(* A run is opened: by the route, by a retry, or by adopted feedback.      *)

\* The messages that change wait, and are in the run they are adopted by.
LEMMA OpeningKeepsWords ==
    ASSUME Inv, NEW doc, Opens(doc), doc.applied \subseteq doc.words, acked' = acked,
           \A m \in Message :
              \/ msgs'[m] = msgs[m]
              \/ /\ msgs[m].state = "pending" /\ msgs'[m].state = "adopted"
                 /\ msgs'[m].by \in Opened' /\ m \in run'[msgs'[m].by].words
    PROVE  Kept'
<1>1. TypeOK /\ Kept /\ Contiguous
  BY DEF Inv
<1>2. /\ Opened' = Opened \cup {NewRun} /\ run'[NewRun] = doc
      /\ \A r \in Opened : run'[r] = run[r]
  BY <1>1, OpeningAdds
<1>3. ASSUME NEW m \in Message, msgs'[m].state = "adopted"
      PROVE  msgs'[m].by \in Opened' /\ m \in run'[msgs'[m].by].words
  <2>1. CASE msgs'[m] = msgs[m]
    <3>1. msgs[m].by \in Opened /\ m \in run[msgs[m].by].words
      BY <1>1, <1>3, <2>1 DEF Kept
    <3> QED
      BY <1>2, <2>1, <3>1
  <2> QED
    BY <2>1
<1>4. ASSUME NEW m \in acked
      PROVE  msgs'[m].state = "pending" \/ \E r \in Opened' : m \in run'[r].words
  <2>1. m \in Message
    BY <1>1 DEF TypeOK
  <2>2. CASE msgs'[m] = msgs[m]
    <3>1. msgs[m].state = "pending" \/ \E r \in Opened : m \in run[r].words
      BY <1>1 DEF Kept
    <3> QED
      BY <1>2, <2>2, <3>1
  <2> QED
    BY <2>1, <2>2
<1>5. Sent \subseteq Sent'
  BY DEF Sent
<1>6. acked' \subseteq Sent'
  BY <1>1, <1>5 DEF Kept
<1>7. \A r \in Opened' : run'[r].applied \subseteq run'[r].words
  BY <1>1, <1>2 DEF Kept
<1> QED
  BY <1>3, <1>4, <1>6, <1>7 DEF Kept

\* The new run follows none, or the one at hand, whose place it takes.
LEMMA OpeningKeepsChain ==
    ASSUME Inv, NEW doc, Opens(doc), current' \in {current, NewRun},
           \A s, r \in RunId : s = NewRun /\ Follows(s, r)' => r = current /\ current' = NewRun
    PROVE  Chain'
<1>1. TypeOK /\ Chain /\ Contiguous
  BY DEF Inv
<1>2. /\ Opened' = Opened \cup {NewRun} /\ NewRun \in RunId \ Opened
      /\ \A s, r \in RunId : s # NewRun => (Follows(s, r)' <=> Follows(s, r))
  BY <1>1, OpeningAdds
<1>3. current' # NoRun => current' \in Opened'
  BY <1>1, <1>2 DEF Chain
<1>4. ASSUME NEW s \in RunId, NEW r \in RunId, Follows(s, r)'
      PROVE  r \in Opened' /\ r # current'
  <2>1. CASE s = NewRun
    <3>1. r = current /\ current' = NewRun /\ current # NoRun
      BY <1>4, <2>1 DEF RunId, NoRun
    <3> QED
      BY <1>1, <1>2, <3>1 DEF Chain
  <2>2. CASE s # NewRun
    BY <1>1, <1>2, <1>4, <2>2 DEF Chain
  <2> QED
    BY <2>1, <2>2
<1>5. ASSUME NEW s \in RunId, NEW t \in RunId, NEW r \in RunId, Follows(s, r)', Follows(t, r)'
      PROVE  s = t
  <2>1. CASE s # NewRun /\ t # NewRun
    BY <1>1, <1>2, <1>5, <2>1 DEF Chain
  <2>2. ASSUME NEW p \in RunId, NEW q \in RunId, p = NewRun, q # NewRun,
               Follows(q, r)', Follows(p, r)'
        PROVE  FALSE
    BY <1>1, <1>2, <2>2 DEF Chain
  <2> QED
    BY <1>5, <2>1, <2>2
<1> QED
  BY <1>3, <1>4, <1>5 DEF Chain

\* A new run is followed by none, and no run follows it.
LEMMA OpenedUnfollowed ==
    ASSUME Inv, NEW doc, Opens(doc),
           \A s, r \in RunId : s = NewRun /\ Follows(s, r)' => r = current
    PROVE  \A s, r \in RunId : r = NewRun => ~Follows(s, r)'
<1>1. TypeOK /\ Chain /\ Contiguous
  BY DEF Inv
<1>2. /\ NewRun \in RunId \ Opened
      /\ \A s, r \in RunId : s # NewRun => (Follows(s, r)' <=> Follows(s, r))
  BY <1>1, OpeningAdds
<1>3. current # NewRun
  BY <1>1, <1>2, NewRunUnopened DEF Chain
<1> QED
  BY <1>1, <1>2, <1>3 DEF Chain

LEMMA CreateKeeps ==
    ASSUME Inv, TypeOK', CreateRun
    PROVE  Inv'
<1> DEFINE doc == [Unopened EXCEPT !.status = "received", !.words = Sent]
<1>1. /\ doc.status = "received" /\ doc.words = Sent /\ doc.applied = {}
      /\ doc.retryOf = NoRun /\ doc.pred = NoRun
  BY DEF Unopened
<1>2. /\ cs.at = "act" /\ NewRun \in RunId /\ run' = [run EXCEPT ![NewRun] = doc]
      /\ cs' = [cs EXCEPT !.at = "freeze", !.r = NewRun]
      /\ UNCHANGED <<msgs, acked, current>>
  BY DEF CreateRun, conversation
<1> HIDE DEF doc
<1>3. Opens(doc)
  BY <1>1, <1>2 DEF Opens
<1>4. /\ Opened' = Opened \cup {NewRun} /\ run'[NewRun] = doc
      /\ \A s, r \in RunId : s # NewRun => (Follows(s, r)' <=> Follows(s, r))
  BY <1>3, OpeningAdds DEF Inv
<1>5. \A s, r \in RunId : s = NewRun => ~Follows(s, r)'
  BY <1>1, <1>4 DEF Follows, RunId, NoRun
<1>6. cs.m \in Sent
  BY <1>2 DEF Inv, HolderKnows
<1>7. Contiguous'
  BY <1>2, <1>4, OpeningKeepsOrder DEF Inv
<1>8. Kept'
  BY <1>1, <1>2, <1>3, OpeningKeepsWords
<1>9. Chain'
  BY <1>2, <1>3, <1>5, OpeningKeepsChain
<1>10. cs'.at = "freeze" /\ cs'.m = cs.m /\ cs'.r = NewRun
  BY <1>2 DEF Inv, TypeOK
<1>11. \A s, r \in RunId : r = NewRun => ~Follows(s, r)'
  BY <1>3, <1>5, OpenedUnfollowed
<1>12. Sent' = Sent /\ Pending' = Pending /\ Pending \subseteq Sent
  BY <1>2 DEF Sent, Pending
<1>13. HolderKnows'
  <2>1. {cs'.m} \cap Message \subseteq Sent' \cap run'[cs'.r].words
    BY <1>1, <1>4, <1>6, <1>10, <1>12
  <2>2. Pending' \subseteq run'[cs'.r].words /\ cs'.r \in Opened'
    BY <1>1, <1>4, <1>10, <1>12
  <2>3. \A s \in RunId : ~Follows(s, cs.r)'
    BY <1>2, <1>10, <1>11
  <2> QED
    BY <1>10, <2>1, <2>2, <2>3 DEF HolderKnows
<1> QED
  BY <1>7, <1>8, <1>9, <1>13 DEF Inv

LEMMA RetryKeeps ==
    ASSUME Inv, TypeOK', NEW r \in RunId, CreateRetry(r)
    PROVE  Inv'
<1> DEFINE doc == [run[r] EXCEPT !.status = "received", !.retryOf = r]
<1>1. TypeOK /\ Kept /\ run[r] \in Run /\ r = current /\ r \in Opened
  BY DEF CreateRetry, Newest, Inv, TypeOK, Opened
<1>2. /\ doc.status = "received" /\ doc.words = run[r].words
      /\ doc.applied = run[r].applied /\ doc.retryOf = r
  BY <1>1 DEF Run
<1>3. /\ NewRun \in RunId /\ run' = [run EXCEPT ![NewRun] = doc] /\ current' = NewRun
      /\ cs' = [Free EXCEPT !.at = "start", !.r = NewRun] /\ UNCHANGED <<msgs, acked>>
  BY DEF CreateRetry
<1> HIDE DEF doc
<1>4. Opens(doc)
  BY <1>2, <1>3 DEF Opens
<1>5. Opened' = Opened \cup {NewRun} /\ run'[NewRun] = doc
  BY <1>4, OpeningAdds DEF Inv
<1>6. \A s, q \in RunId : s = NewRun /\ Follows(s, q)' => q = current /\ current' = NewRun
  BY <1>1, <1>2, <1>3, <1>5 DEF Follows, RunId, NoRun
<1>7. Contiguous'
  BY <1>3, <1>5, OpeningKeepsOrder DEF Inv
<1>8. doc.applied \subseteq doc.words
  BY <1>1, <1>2 DEF Kept
<1>9. Kept'
  BY <1>3, <1>4, <1>8, OpeningKeepsWords
<1>10. Chain'
  BY <1>3, <1>4, <1>6, OpeningKeepsChain
<1>11. cs'.at = "start" /\ cs'.m = 0 /\ cs'.r = NewRun /\ 0 \notin Message
  BY <1>3 DEF Free, Message
<1>12. HolderKnows'
  BY <1>5, <1>11 DEF HolderKnows
<1> QED
  BY <1>7, <1>9, <1>10, <1>12 DEF Inv

\* What an answer took already is in the run at hand; the batch goes into the
\* request of its successor.
LEMMA AdoptKeeps ==
    ASSUME Inv, TypeOK', AdoptFeedback
    PROVE  Inv'
<1>1. TypeOK /\ Kept /\ Chain /\ Contiguous /\ cs.at = "idle" /\ acked' = acked
  BY DEF AdoptFeedback, Scannable, Inv
<1>2. current \in Opened /\ current \in RunId
  BY <1>1 DEF AdoptFeedback, Scannable, Chain, Opened
<1>3. Taken \subseteq Pending \cap run[current].words
  BY <1>1, <1>2 DEF Taken, Kept
<1>4. CASE Left # {} /\ Status \in Delivered
  <2> DEFINE batch == FirstOf(Left, BatchLimit)
             doc == [Unopened EXCEPT !.status = "received", !.linked = TRUE,
                                     !.pred = current,
                                     !.words = run[current].words \cup batch]
  <2>1. /\ NewRun \in RunId /\ run' = [run EXCEPT ![NewRun] = doc] /\ current' = NewRun
        /\ msgs' = [m \in Message |->
                      IF m \in Taken THEN [state |-> "adopted", by |-> current]
                      ELSE IF m \in batch THEN [state |-> "adopted", by |-> NewRun]
                      ELSE msgs[m]]
        /\ cs' = [Free EXCEPT !.at = "drain", !.r = NewRun]
    BY <1>4 DEF AdoptFeedback
  <2>2. /\ doc.status = "received" /\ doc.words = run[current].words \cup batch
        /\ doc.applied = {} /\ doc.retryOf = NoRun /\ doc.pred = current
    BY DEF Unopened
  <2>3. batch \subseteq Pending
    BY DEF FirstOf, Left
  <2> HIDE DEF doc, batch
  <2>4. Opens(doc)
    BY <2>1, <2>2 DEF Opens
  <2>5. /\ Opened' = Opened \cup {NewRun} /\ run'[NewRun] = doc
        /\ \A r \in Opened : run'[r] = run[r]
    BY <1>1, <2>4, OpeningAdds
  <2>6. ASSUME NEW m \in Message
        PROVE  \/ msgs'[m] = msgs[m]
               \/ /\ msgs[m].state = "pending" /\ msgs'[m].state = "adopted"
                  /\ msgs'[m].by \in Opened' /\ m \in run'[msgs'[m].by].words
    <3>1. CASE m \in Taken
      BY <1>2, <1>3, <2>1, <2>5, <3>1 DEF Pending
    <3>2. CASE m \notin Taken /\ m \in batch
      BY <2>1, <2>2, <2>3, <2>5, <3>2 DEF Pending
    <3>3. CASE m \notin Taken /\ m \notin batch
      BY <2>1, <3>3
    <3> QED
      BY <3>1, <3>2, <3>3
  <2>7. Contiguous'
    BY <1>1, <2>1, <2>5, OpeningKeepsOrder
  <2>8. Kept'
    BY <1>1, <2>2, <2>4, <2>6, OpeningKeepsWords
  <2>9. \A s, r \in RunId : s = NewRun /\ Follows(s, r)' => r = current /\ current' = NewRun
    BY <2>1, <2>2, <2>5 DEF Follows, RunId, NoRun
  <2>10. Chain'
    BY <2>1, <2>4, <2>9, OpeningKeepsChain
  <2>11. cs'.at = "drain" /\ current' \in Opened'
    BY <2>1, <2>5 DEF Free
  <2>12. HolderKnows'
    BY <2>11 DEF HolderKnows
  <2> QED
    BY <2>7, <2>8, <2>10, <2>12 DEF Inv
<1>5. CASE ~(Left # {} /\ Status \in Delivered)
  <2>1. msgs' = Settled(Taken, current) /\ UNCHANGED <<run, current, cs>>
    BY <1>5 DEF AdoptFeedback
  <2>2. Grows
    BY <2>1, SameRunsGrow
  <2>3. Kept'
    <3> DEFINE ids == Taken
               A   == {}
    <3>1. /\ ids \subseteq Pending \cap run[current].words /\ A \subseteq Sent
          /\ msgs' = Settled(ids, current) /\ acked' = acked \cup A
          /\ \A m \in A : msgs'[m].state = "pending" \/ \E q \in Opened : m \in run'[q].words
      BY <1>1, <1>3, <2>1
    <3> HIDE DEF ids, A
    <3> QED
      BY <1>1, <1>2, <2>2, <3>1, MarkingKeeps
  <2> QED
    BY <1>1, <2>1, <2>2, <2>3, GrowingKeepsOrder, GrowingKeepsChain, NobodyHolds DEF Inv
<1> QED
  BY <1>4, <1>5

-----------------------------------------------------------------------------
LEMMA InitEstablishes == Init => Inv
<1> SUFFICES ASSUME Init PROVE Inv
  OBVIOUS
<1>1. Opened = {} /\ Sent = {} /\ acked = {} /\ current = NoRun /\ cs.at = "idle"
  BY DEF Init, Opened, Sent, Unopened, Free
<1>2. Opened = 1..0 /\ 0 \in 0..MaxRuns
  BY <1>1, LimitsAssumption
<1>3. \A s, r \in RunId : ~Follows(s, r)
  BY <1>1 DEF Follows, Opened
<1>4. \A m \in Message : msgs[m].state = "unsent"
  BY DEF Init
<1> QED
  BY <1>1, <1>2, <1>3, <1>4, InitTyped DEF Inv, Contiguous, Kept, Chain, HolderKnows

LEMMA StepKeeps == Inv /\ [Next]_vars => Inv'
<1> SUFFICES ASSUME Inv, [Next]_vars PROVE Inv'
  OBVIOUS
<1>1. CASE Next
  <2>1. TypeOK'
    BY <1>1, NextTyped
  <2>2. CASE MessageRoute
    BY <2>1, <2>2, ReadKeeps, AppendKeeps, ClarifyKeeps, ContinueKeeps, ReplyKeeps,
       RequeueKeeps, SettleAnsweredKeeps, CreateKeeps, FreezeKeeps, AttachKeeps,
       SettleAllKeeps, StartKeeps
    DEF MessageRoute
  <2>3. CASE Scheduler
    BY <2>1, <2>3, AdoptKeeps, DispatcherKeeps DEF Scheduler
  <2>4. ASSUME NEW r \in RunId, Work(r) \/ RunPage(r) PROVE Inv'
    BY <2>1, <2>4, WorkKeeps, RetryKeeps, PageKeeps DEF RunPage
  <2> QED
    BY <1>1, <2>1, <2>2, <2>3, <2>4, RestartKeeps DEF Next
<1>2. CASE UNCHANGED vars
  <2>1. TypeOK' /\ UNCHANGED <<run, cs>> /\ UNCHANGED conversation
    BY <1>2 DEF vars, Inv, TypeOK, conversation
  <2> QED
    BY <2>1, SameDocuments
<1> QED
  BY <1>1, <1>2

LEMMA InvHolds == Spec => []Inv
BY InitEstablishes, StepKeeps, PTL DEF Spec

\* Every message, run and worker and the record of the lock's holder keep the
\* declared shape, for every number of messages, runs, faults and clicks.
THEOREM TypeCorrect == Spec => []TypeOK
<1>1. Inv => TypeOK
  BY DEF Inv
<1> QED
  BY <1>1, InvHolds, PTL

\* A message whose request succeeded waits as feedback or is in a run of the
\* conversation, and an adopted one is in the run it names
\* (process_message, adopt_feedback, settle_feedback).
THEOREM SupplementsAreKept == Spec => []SupplementKept
<1>1. Inv => SupplementKept
  BY DEF Inv, Kept, SupplementKept
<1> QED
  BY <1>1, InvHolds, PTL

\* No run of the conversation gets two followers, whatever retries, crashes
\* and adoptions of feedback come (create_retry, adopt_feedback).
THEOREM OneSuccessorEach == Spec => []OneSuccessor
<1>1. Inv => OneSuccessor
  <2> SUFFICES ASSUME Inv, NEW r \in RunId
               PROVE  Cardinality({s \in RunId : Follows(s, r)}) <= 1
    BY DEF OneSuccessor
  <2> DEFINE S == {s \in RunId : Follows(s, r)}
  <2>1. \A s, t \in S : s = t
    BY DEF Inv, Chain
  <2>2. CASE S = {}
    BY <2>2, FS_EmptySet
  <2>3. CASE S # {}
    <3>1. PICK s \in S : S = {s}
      BY <2>1, <2>3
    <3>2. Cardinality({s}) = 1
      BY FS_Singleton
    <3> QED
      BY <3>1, <3>2
  <2> QED
    BY <2>2, <2>3
<1> QED
  BY <1>1, InvHolds, PTL
=============================================================================
