-------------------------- MODULE BacklogProperties --------------------------
(***************************************************************************)
(* What the backlog promises, stated over the model of the store and loop. *)
(***************************************************************************)
EXTENDS Backlog

Parked == {"done", "needs_human", "blocked"}
Place  == {"inbox", "running"} \cup Parked

(* Types: every entry is a created file in a known directory, under a name *)
(* of its task.                                                            *)
TypeOK ==
    /\ \A p \in DOMAIN fs : /\ p[1] \in Place
                            /\ fs[p] \in Inode
                            /\ p[2][1] = files[fs[p]]
    /\ files \in Seq(Task)
    /\ DOMAIN asked = Inode /\ DOMAIN begun = Inode
    /\ \A p \in puts : p.ino \in Inode /\ p.name[1] = files[p.ino]
    /\ Cardinality(puts) <= MaxProducers
    /\ old \subseteq Inode
    /\ \A n \in DOMAIN claims : claims[n].pid \in Worker \cup {Dead}
    /\ failed \subseteq Worker

(* A file is dispatched at most once for every time a person asked for it, *)
(* whatever crashes and restarts come between: an interrupted dispatch is  *)
(* never started again by the queue (recover, claim).                      *)
DispatchedOncePerRequest == \A i \in Inode : begun[i] <= asked[i]

(* No file a person has put into the queue ever leaves its directories, as *)
(* long as one person puts at a time: every interruption of add, claim,    *)
(* _park, recover and revive leaves a name, and none takes another's.      *)
NothingLost == \A i \in Inode : asked[i] > 0 => \E p \in DOMAIN fs : fs[p] = i

(* An entry is not given up as deadlocked while everything it waits for is *)
(* merged or being dispatched (deadlocked, _park_deadlocks).               *)
NoSuccessorGivenUp ==
    \A x \in Worker :
        At(x, "link") /\ w[x].after = "deadlocked" /\ w[x].src \in DOMAIN fs
            => ~(Needs(fs[w[x].src]) \subseteq merged_ids \cup Ids("running"))

(* An entry that was just claimed counts as fresh to other machines: the   *)
(* heartbeat waits a full period before it first touches the entry         *)
(* (BacklogLoop._heartbeat).                                               *)
FreshWhenClaimed ==
    [][\A x \in Worker : At(x, "claim") /\ At(x, "linked")' =>
          fs'[w'[x].src] \notin old]_vars

(* The queue never ends a loop with an exception of its own: what another  *)
(* worker did to an entry is passed over, not raised (claim, recover).     *)
LoopSurvives == failed = {}

(* The queue drains: once nobody adds, revives or interrupts any more,     *)
(* every entry ends in a final directory, those that wait for a            *)
(* predecessor that will never come included (recover, park_deadlocked).   *)
Drains == <>[](In("inbox") = {} /\ In("running") = {})
=============================================================================
