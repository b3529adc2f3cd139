------------------------ MODULE ContinuousProperties ------------------------
(* What a round of continuous coding owes to the commit it delivers, to the  *)
(* site it works in, to the budget and to the user who waits for it.         *)
EXTENDS Continuous

Result == [ok: BOOLEAN, sig: (0 .. Clean) \X (0 .. Clean), rev: Nat, env: 0 .. MaxEnv, ran: Content]
Site ==
    [commit : Content \cup {Clean}, checks : Seq(Result), fin : {NoFin} \cup ((0 .. Clean) \X (0 .. Clean)),
     guard : Content, status : {"running", "verified", "failed"}, exhausted : BOOLEAN,
     evidence : {"none", "earlier", "now"}, verdict : {"none", "pass", "fail", "error"},
     reserve : 0 .. Limit, fixed : 0 .. 1]
IsArt(a) == a = None \/ (a \in Site /\ Len(a.checks) <= Checks)

\* The types of the variables.
TypeOK ==
    /\ pc \in Rest \cup {"queued", "starting", "site", "recheck", "coding", "call", "checks",
                         "finalize", "committed", "review", "reviewing", "repair", "reopen"}
    /\ stage \in {"coding", "finalization", "budget_finalization", "verification", "budget_stop"}
    /\ IsArt(art) /\ IsArt(point) /\ IsArt(stored)
    /\ {code, head} \subseteq Content
    /\ {record, caller} \subseteq 0 .. 9 /\ writers \subseteq 1 .. 9
    /\ reconnects \in 0 .. MaxReconnects /\ repairs \in 0 .. MaxRepairs /\ reviews \in 0 .. MaxReviews
    /\ {allowance, ceiling} \subseteq 0 .. Limit
    /\ cancel \in {"no", "user", "self"} /\ env \in 0 .. MaxEnv /\ rev \in Nat
    /\ {ledger, spent} \subseteq Nat /\ count \in [rounds : Nat, crashes : Nat]

\* What is reviewed and delivered is what every configured check passed on: this
\* content, under this agreement and with these tools, whether the results are of
\* this round or of an earlier one that left them behind.
CommitCovered ==
    pc \in {"review", "reviewing"} =>
        /\ art.commit = head /\ code = head
        /\ Len(art.checks) = Checks
        /\ \A i \in 1 .. Checks : /\ art.checks[i].ok /\ art.checks[i].ran = head
                                  /\ art.checks[i].rev = rev /\ art.checks[i].env = env

\* Never more is spent than the budget, over every round, repair and restart,
\* although some calls never tell their price.
SpendWithinBudget == spent <= Limit

\* While there is code to write, the reserve of the review is not touched, by any
\* reconnection or repair, so the review that follows can be paid.
ReviewFunded ==
    pc \in {"site", "coding", "checks", "finalize", "committed"} /\ stage \in {"coding", "budget_stop"}
        => Left >= art.reserve

\* One process group at most writes the worktree, also after a restart that left
\* one behind.
SoleWriter == Cardinality(writers) <= 1

\* A site that stays behind can be entered again: the Git metadata it was saved
\* with are those it has.
SiteReachable == pc = "paused" /\ stored # None /\ cancel = "no" => stored.guard = head

\* A round ends: calls, checks and repairs are bounded, and so are the restarts.
RoundEnds == pc \notin Rest ~> pc \in Rest
=============================================================================
