------------------------ MODULE ConversationProperties ------------------------
(***************************************************************************)
(* What a conversation promises its user (Conversation).                   *)
(***************************************************************************)
EXTENDS Conversation

\* Messages, runs, workers and the holder of the lock have the declared shape.
TypeOK ==
    /\ msgs \in [Message -> [state : MessageState, by : RunId \cup {NoRun}]]
    /\ acked \in SUBSET Message /\ current \in RunId \cup {NoRun}
    /\ run \in [RunId -> Run] /\ row \in SUBSET RunId
    /\ worker \in [RunId -> {"none", "claimed", "busy", "ending"}]
    /\ cs \in [at : Stages, m : Message \cup {0}, r : RunId \cup {NoRun},
               queued : BOOLEAN, ids : SUBSET Message]
    /\ faults \in 0..MaxFaults /\ clicks \in 0..MaxClicks

\* A message whose request succeeded is never lost: it waits as feedback or
\* its words are in a run of the conversation; and a message marked as adopted
\* names a run that has its words (process_message, adopt_feedback,
\* settle_feedback), whatever crashes and status changes fall in between.
SupplementKept ==
    \A m \in Message :
        /\ m \in acked => \/ msgs[m].state = "pending"
                          \/ \E r \in Opened : m \in run[r].words
        /\ msgs[m].state = "adopted" => m \in run[msgs[m].by].words

\* A run of the conversation is followed by at most one other: by its retry or
\* by the successor that adopted feedback on it, however often a retry is asked
\* for and whatever happened to the run since (retry, create_retry,
\* adopt_feedback).
Follows(s, r) ==
    /\ run[s].status # "none"
    /\ \/ run[s].retryOf = r
       \/ run[s].retryOf = NoRun /\ run[s].pred = r

OneSuccessor ==
    \A r \in RunId : Cardinality({s \in RunId : Follows(s, r)}) <= 1

\* Feedback waiting at a delivered run is adopted, or the run stops being
\* delivered, or there are no more runs to open; and a successor that was
\* opened gets a worker, is cancelled or fails, even when starting it raised
\* or the service died first (_drain_conversation_feedback, recover).
FeedbackMoves ==
    LET waiting   == Status \in Delivered /\ Pending # {} /\ NewRun \in RunId
        unstarted == Status = "received" /\ run[current].pred # NoRun
    IN (waiting ~> ~waiting) /\ (unstarted ~> ~unstarted)

\* "A conversation has at most one active run" (agent_routes.py:435).
OneActiveRun == Cardinality({r \in RunId : run[r].status \in Active}) <= 1

\* Words a run has taken are not asked for again by its feedback successor.
NotAskedTwice ==
    [][\A r \in RunId :
          run[r].status = "none" /\ run'[r].pred # NoRun /\ run'[r].retryOf = NoRun
             => \A m \in Pending : msgs'[m].by = r => m \notin run[run'[r].pred].words]_vars
=============================================================================
