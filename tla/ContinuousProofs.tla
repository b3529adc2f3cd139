-------------------------- MODULE ContinuousProofs --------------------------
(***************************************************************************)
(* For every number of checks, budget, number of repairs, reconnections,   *)
(* rounds and restarts: what ContinuousProperties states of a round of     *)
(* continuous coding.                                                      *)
(***************************************************************************)
EXTENDS ContinuousProperties, SequenceTheorems, FiniteSetTheorems, TLAPS

Sigs   == (0 .. Clean) \X (0 .. Clean)
Stages == {"coding", "finalization", "budget_finalization", "verification", "budget_stop"}

\* Where a round holds its artifacts, and where it writes code.
InRound == {"site", "recheck", "coding", "call", "checks", "finalize", "committed", "review",
            "reviewing", "repair", "reopen"}
Coding  == {"site", "coding", "call", "checks", "finalize", "committed"}

LEMMA Kinds ==
    /\ Checks \in Nat \ {0} /\ Limit \in Nat \ {0} /\ MaxRepairs \in Nat /\ MaxReconnects \in Nat
    /\ MaxContent \in Nat /\ MaxReviews \in Nat /\ MaxEnv \in Nat /\ Clean \in Nat
    /\ Content \subseteq 0 .. Clean /\ Clean \notin Content /\ 0 \in Content
    /\ \A c \in Content : c \in Nat
  BY ContinuousAssumption DEF ContinuousAssumption, Content, Clean

LEMMA Others == None \notin Site /\ NoFin \notin Sigs /\ <<Clean, Clean>> \in Sigs
<1>1. None \notin Site
  BY DEF None, Site
<1>2. NoFin \notin Sigs
  <2>1. \A s \in Sigs : Len(s) = 2
    BY DEF Sigs
  <2> QED BY <2>1 DEF NoFin
<1>3. <<Clean, Clean>> \in Sigs
  BY Kinds DEF Sigs
<1> QED BY <1>1, <1>2, <1>3

-----------------------------------------------------------------------------
(* Money and evidence.                                                     *)

LEMMA LeastOf ==
  ASSUME NEW a \in Nat, NEW b \in Nat, NEW c \in Nat
  PROVE  /\ Min({a, b, c}) \in {a, b, c} /\ Min({a, b, c}) <= a
         /\ Min({a, b, c}) <= b /\ Min({a, b, c}) <= c
<1>1. \E x \in {a, b, c} : \A y \in {a, b, c} : x <= y
  BY Z3
<1> QED BY <1>1 DEF Min

LEMMA LeastOfTwo ==
  ASSUME NEW a \in Nat, NEW b \in Nat
  PROVE  /\ Min({a, b}) \in {a, b} /\ Min({a, b}) <= a /\ Min({a, b}) <= b
         /\ Max({a, b}) \in {a, b} /\ Max({a, b}) >= a /\ Max({a, b}) >= b
<1>1. /\ \E x \in {a, b} : \A y \in {a, b} : x <= y
      /\ \E x \in {a, b} : \A y \in {a, b} : x >= y
  BY Z3
<1> QED BY <1>1 DEF Min, Max

\* What is kept for the review leaves something to code with, if anything is left.
LEMMA ReserveLess ==
  ASSUME NEW left \in Nat
  PROVE  Reserve(left) \in Nat /\ Reserve(left) <= left /\ (left > 0 => Reserve(left) < left)
<1>1. left \div 2 \in Nat /\ left \div 5 \in Nat /\ left \div 2 <= left /\ (left > 0 => left \div 2 < left)
  BY Z3
<1>2. Max({1, left \div 5}) \in Nat
  BY <1>1, LeastOfTwo
<1>3. /\ Reserve(left) \in {8, left \div 2, Max({1, left \div 5})}
      /\ Reserve(left) <= left \div 2
  BY <1>1, <1>2, LeastOf DEF Reserve
<1> QED BY <1>1, <1>2, <1>3

LEMMA KeptLess ==
  ASSUME TypeOK, NEW left \in Nat
  PROVE  /\ Kept(left) \in Nat /\ Kept(left) <= left
         /\ stored = None /\ left > 0 => Kept(left) < left
<1>1. CASE stored # None /\ stored.verdict = "none"
  <2>1. stored.reserve \in Nat
    BY <1>1, Kinds DEF TypeOK, IsArt, Site
  <2>2. Max({Reserve(left), stored.reserve}) \in Nat
    BY <2>1, ReserveLess, LeastOfTwo
  <2> QED BY <1>1, <2>2, LeastOfTwo DEF Kept
<1>2. CASE ~(stored # None /\ stored.verdict = "none")
  BY <1>2, ReserveLess DEF Kept
<1> QED BY <1>1, <1>2

LEMMA LeftIs ==
  ASSUME TypeOK
  PROVE  Left \in 0 .. Limit /\ (ledger <= Limit => Left = Limit - ledger)
<1>1. ledger \in Nat /\ Limit \in Nat
  BY Kinds DEF TypeOK
<1> QED BY <1>1 DEF Left

\* The results of one run over the checks are about one content; each is kept,
\* being evidence, or of now.
LEMMA ResultsAre ==
  ASSUME TypeOK, NEW prior \in Seq(Result), NEW sig \in Sigs, NEW rs \in Results(prior, sig)
  PROVE  /\ rs \in Seq(Result) /\ Len(rs) \in 1 .. Checks
         /\ \A i \in 1 .. Len(rs) :
              /\ rs[i].sig = sig
              /\ \/ rs[i].ran = code /\ rs[i].rev = rev /\ rs[i].env = env
                 \/ i \in 1 .. Len(prior) /\ rs[i] = prior[i] /\ Reusable(prior[i], sig)
         /\ ~Failed(rs) => Len(rs) = Checks /\ \A i \in 1 .. Len(rs) : rs[i].ok
<1> USE Kinds
<1>1. PICK n \in 1 .. Checks, ok \in BOOLEAN :
        /\ rs = Upto(prior, sig, n, ok)
        /\ ok => n = Checks
        /\ ~ok => ~StillEvidence(prior, n, sig)
  <2>1. CASE rs = Upto(prior, sig, Checks, TRUE)
    <3> WITNESS Checks \in 1 .. Checks, TRUE \in BOOLEAN
    <3> QED BY <2>1
  <2>2. CASE rs # Upto(prior, sig, Checks, TRUE)
    <3>1. PICK n \in {i \in 1 .. Checks : ~StillEvidence(prior, i, sig)} :
            rs = Upto(prior, sig, n, FALSE)
      BY <2>2 DEF Results
    <3> WITNESS n \in 1 .. Checks, FALSE \in BOOLEAN
    <3> QED BY <3>1
  <2> QED BY <2>1, <2>2
<1>2. DOMAIN prior = 1 .. Len(prior) /\ Len(prior) \in Nat
  BY LenProperties
<1>3. \A i \in 1 .. Len(prior) : prior[i] \in Result
  BY ElementOfSeq
<1>4. ASSUME NEW b PROVE Fresh(sig, b) = [ok |-> b, sig |-> sig, rev |-> rev, env |-> env, ran |-> code]
  BY DEF Fresh
<1>5. ASSUME NEW b \in BOOLEAN PROVE Fresh(sig, b) \in Result
  BY DEF Fresh, Result, TypeOK, Sigs
<1> DEFINE R(i) == IF StillEvidence(prior, i, sig) THEN prior[i] ELSE Fresh(sig, i < n \/ ok)
<1>6. \A i \in 1 .. n : R(i) \in Result
  BY <1>2, <1>3, <1>5 DEF StillEvidence
<1>7. rs = [i \in 1 .. n |-> R(i)]
  BY <1>1 DEF Upto
<1> HIDE DEF R
<1>8. rs \in Seq(Result)
  <2>1. rs \in [1 .. n -> Result] /\ n \in Nat
    BY <1>6, <1>7
  <2> QED BY <2>1, SeqDef
<1>9. Len(rs) = n /\ DOMAIN rs = 1 .. n
  <2>1. DOMAIN rs = 1 .. n /\ DOMAIN rs = 1 .. Len(rs) /\ Len(rs) \in Nat
    BY <1>7, <1>8, LenProperties
  <2> QED BY <2>1
<1>10. \A i \in 1 .. n : rs[i] = R(i)
  BY <1>7
<1>11. \A i \in 1 .. n : ~StillEvidence(prior, i, sig) => /\ R(i).sig = sig /\ R(i).ran = code
         /\ R(i).rev = rev /\ R(i).env = env /\ R(i).ok = (i < n \/ ok)
  BY DEF R, Fresh
<1>12. \A i \in 1 .. n : StillEvidence(prior, i, sig) => /\ R(i) = prior[i] /\ R(i).sig = sig
         /\ i \in 1 .. Len(prior) /\ Reusable(prior[i], sig) /\ R(i).ok
  BY <1>2 DEF R, StillEvidence, Reusable
<1>13. ASSUME NEW i \in 1 .. n
       PROVE  /\ rs[i].sig = sig
              /\ \/ rs[i].ran = code /\ rs[i].rev = rev /\ rs[i].env = env
                 \/ i \in 1 .. Len(prior) /\ rs[i] = prior[i] /\ Reusable(prior[i], sig)
  <2>1. CASE StillEvidence(prior, i, sig)
    BY <2>1, <1>10, <1>12
  <2>2. CASE ~StillEvidence(prior, i, sig)
    BY <2>2, <1>10, <1>11
  <2> QED BY <2>1, <2>2
<1>14. ASSUME ~Failed(rs)
       PROVE  n = Checks /\ \A i \in 1 .. n : rs[i].ok
  <2>1. \A i \in 1 .. n : rs[i].ok
    BY <1>9, <1>14 DEF Failed
  <2>2. ok
    <3> SUFFICES ASSUME ~ok PROVE FALSE
      OBVIOUS
    <3>1. R(n).ok = (n < n \/ ok)
      BY <1>1, <1>11
    <3> QED BY <2>1, <3>1, <1>10
  <2> QED BY <1>1, <2>1, <2>2
<1> QED BY <1>8, <1>9, <1>13, <1>14

-----------------------------------------------------------------------------
(* Where a round is, and what it holds there.                              *)

IsSite(a) == a \in Site /\ Len(a.checks) <= Checks

Alive ==
    /\ art # None <=> pc \in InRound
    /\ pc \in {"queued", "starting"} /\ stored = None =>
         ledger = 0 /\ head = 0 /\ writers = {} /\ stage = "coding"
    /\ pc \in {"queued", "starting", "site"} => stage # "budget_stop"
    /\ pc \in {"coding", "call"} => stage = "coding"
    /\ pc = "recheck" => stage = "verification" /\ art.checks # <<>>
    /\ pc = "call" => ceiling = allowance
    /\ pc \notin {"call", "reviewing"} => ceiling = 0

LEMMA SiteIs ==
  ASSUME NEW a, IsArt(a), a # None PROVE IsSite(a)
  BY DEF IsArt, IsSite

\* What the round notes about its work is still a site.
LEMMA Noted ==
  ASSUME NEW a, IsSite(a)
  PROVE  /\ IsArt(a)
         /\ \A s \in {"running", "verified", "failed"} : IsSite([a EXCEPT !.status = s])
         /\ \A x \in BOOLEAN : IsSite([a EXCEPT !.exhausted = x])
         /\ \A v \in {"none", "pass", "fail", "error"} : IsSite([a EXCEPT !.verdict = v])
         /\ \A e \in {"none", "earlier", "now"} : IsSite([a EXCEPT !.evidence = e])
         /\ \A f \in {NoFin} \cup Sigs : IsSite([a EXCEPT !.fin = f])
         /\ \A n \in 0 .. Limit : IsSite([a EXCEPT !.reserve = n])
         /\ \A c \in Content \cup {Clean} : IsSite([a EXCEPT !.commit = c])
         /\ \A g \in Content : IsSite([a EXCEPT !.guard = g])
         /\ IsSite([a EXCEPT !.fixed = 1])
         /\ \A rs \in Seq(Result) : Len(rs) <= Checks => IsSite([a EXCEPT !.checks = rs])
<1>1. IsArt(a)
  BY DEF IsArt, IsSite
<1>2. \A s \in {"running", "verified", "failed"} : IsSite([a EXCEPT !.status = s])
  BY DEF IsSite, Site
<1>3. \A x \in BOOLEAN : IsSite([a EXCEPT !.exhausted = x])
  BY DEF IsSite, Site
<1>4. \A v \in {"none", "pass", "fail", "error"} : IsSite([a EXCEPT !.verdict = v])
  BY DEF IsSite, Site
<1>5. \A e \in {"none", "earlier", "now"} : IsSite([a EXCEPT !.evidence = e])
  BY DEF IsSite, Site
<1>6. \A f \in {NoFin} \cup Sigs : IsSite([a EXCEPT !.fin = f])
  BY DEF IsSite, Site, Sigs
<1>7. \A n \in 0 .. Limit : IsSite([a EXCEPT !.reserve = n])
  BY DEF IsSite, Site
<1>8. \A c \in Content \cup {Clean} : IsSite([a EXCEPT !.commit = c])
  BY DEF IsSite, Site
<1>9. \A g \in Content : IsSite([a EXCEPT !.guard = g])
  BY DEF IsSite, Site
<1>10. IsSite([a EXCEPT !.fixed = 1])
  BY DEF IsSite, Site
<1>11. \A rs \in Seq(Result) : Len(rs) <= Checks => IsSite([a EXCEPT !.checks = rs])
  BY DEF IsSite, Site
<1> QED BY <1>1, <1>2, <1>3, <1>4, <1>5, <1>6, <1>7, <1>8, <1>9, <1>10, <1>11

\* What a step may leave of the variables that no end of a round touches.
OthersTyped ==
    /\ {code', head'} \subseteq Content
    /\ {record', caller'} \subseteq 0 .. 9 /\ writers' \subseteq 1 .. 9
    /\ cancel' \in {"no", "user", "self"} /\ env' \in 0 .. MaxEnv /\ rev' \in Nat
    /\ {ledger', spent'} \subseteq Nat /\ count' \in [rounds : Nat, crashes : Nat]

\* A round that ends leaves a site, or none.
LEMMA EndRound ==
  ASSUME TypeOK, NEW a, NEW last, FailWith(a, last), IsArt(a), IsArt(last), OthersTyped
  PROVE  TypeOK' /\ Alive'
<1> USE Kinds
<1>1. /\ art' = None /\ ceiling' = 0 /\ stage' = "coding" /\ allowance' = 0
      /\ reconnects' = 0 /\ repairs' = 0 /\ reviews' = 0
      /\ pc' \in {"cancelled", "paused"} /\ stored' \in {stored, a} /\ point' = last
  BY DEF FailWith, Forget
<1>2. IsArt(art') /\ IsArt(stored') /\ IsArt(point')
  BY <1>1 DEF IsArt, TypeOK
<1>3. TypeOK'
  BY <1>1, <1>2 DEF TypeOK, Rest, OthersTyped, IsArt
<1> QED BY <1>1, <1>3 DEF Alive, InRound

LEMMA Failing ==
  ASSUME TypeOK, NEW a, IsSite(a), Fail(a), OthersTyped
  PROVE  TypeOK' /\ Alive'
<1>1. IsArt([a EXCEPT !.status = "failed"])
  <2>1. IsSite([a EXCEPT !.status = "failed"])
    BY Noted
  <2> QED BY <2>1 DEF IsSite, IsArt
<1> QED BY <1>1, EndRound DEF Fail

-----------------------------------------------------------------------------
(* Types, and where the round is, from step to step.                       *)

LEMMA EmptySite == IsSite(Empty)
  BY Kinds, EmptySeq DEF IsSite, Site, Empty, NoFin

LEMMA SignatureIs == ASSUME TypeOK PROVE Signature \in Sigs
<1>1. code \in 0 .. Clean /\ head \in 0 .. Clean
  BY Kinds DEF TypeOK
<1>2. <<head, code>> \in Sigs
  BY <1>1 DEF Sigs
<1> QED BY <1>2, Others DEF Signature

\* Nothing that the round can use changes.
LEMMA SameRound ==
  ASSUME TypeOK, Alive, UNCHANGED <<pc, round, art, point, stored, head, ceiling, ledger>>,
         OthersTyped, writers' \subseteq writers \/ pc \in InRound
  PROVE  TypeOK' /\ Alive'
<1>1. TypeOK'
  BY DEF TypeOK, OthersTyped, round, IsArt, Site, Result
<1> QED BY <1>1 DEF Alive, InRound, round

LEMMA Elsewhere ==
  ASSUME TypeOK, UNCHANGED <<disk, tree, ledger, spent, cancel, world>>
  PROVE  OthersTyped
  BY DEF TypeOK, OthersTyped, disk, tree, world

\* A round that cannot pay has been here before.
LEMMA StopHasSite ==
  ASSUME TypeOK, Alive, BudgetStop PROVE stored # None
<1> SUFFICES ASSUME stored = None PROVE FALSE
  OBVIOUS
<1>1. ledger = 0 /\ Limit \in Nat \ {0}
  BY Kinds DEF BudgetStop, Alive
<1>2. Left = Limit
  BY <1>1, LeftIs
<1>3. Kept(Left) \in Nat /\ Kept(Left) < Left
  BY <1>1, <1>2, KeptLess
<1> QED BY <1>1, <1>2, <1>3 DEF BudgetStop, NothingToSpend

\* What the stage of a round lets it do with the site, if it may use it.
LEMMA StageEntered ==
  ASSUME TypeOK, Alive, EnterStage, ~Fail(art)
  PROVE  /\ pc = "site" /\ UNCHANGED <<point, stored, round, ceiling>>
         /\ \/ stage = "coding" /\ pc' = "coding" /\ art' = [art EXCEPT !.fin = NoFin]
            \/ stage # "coding" /\ pc' = "checks" /\ art' = art
            \/ /\ stage = "verification" /\ pc' = "recheck" /\ art' = art
               /\ art.commit = head /\ code = head /\ art.checks # <<>>
<1>1. stage \in {"coding", "finalization", "budget_finalization", "verification"}
  BY DEF EnterStage, Alive, TypeOK
<1>2. CASE stage = "coding"
  BY <1>2 DEF EnterStage
<1>3. CASE stage = "finalization"
  BY <1>3 DEF EnterStage
<1>4. CASE stage = "budget_finalization"
  BY <1>4 DEF EnterStage
<1>5. CASE stage = "verification"
  BY <1>5 DEF EnterStage
<1> QED BY <1>1, <1>2, <1>3, <1>4, <1>5

LEMMA EnterKeeps ==
  ASSUME TypeOK, Alive, Enter PROVE TypeOK' /\ Alive'
<1> USE Kinds
<1>1. CASE Claim
  <2>1. OthersTyped
    BY <1>1, Elsewhere DEF Claim, money
  <2>2. TypeOK'
    BY <1>1, <2>1 DEF Claim, TypeOK, OthersTyped, IsArt, Site, Result, round, money
  <2> QED BY <1>1, <2>2 DEF Claim, Alive, InRound, round, money, disk, tree
<1>2. CASE BudgetStop
  <2>1. stored # None
    BY <1>2, StopHasSite
  <2>2. IsSite(stored)
    BY <2>1, SiteIs DEF TypeOK
  <2>3. IsArt([stored EXCEPT !.exhausted = TRUE])
    BY <2>2, Noted
  <2>4. OthersTyped /\ IsArt(point) /\ FailWith([stored EXCEPT !.exhausted = TRUE], point)
    BY <1>2, Elsewhere DEF BudgetStop, TypeOK
  <2> QED BY <2>3, <2>4, EndRound
<1>3. CASE Unreachable \/ CancelledBeforeOpen
  <2>1. OthersTyped /\ IsArt(point) /\ IsArt(stored) /\ FailWith(stored, point)
    BY <1>3, Elsewhere DEF Unreachable, CancelledBeforeOpen, Refuse, TypeOK
  <2> QED BY <2>1, EndRound
<1>4. CASE Open
  <2>1. OthersTyped
    BY <1>4, Elsewhere DEF Open, money
  <2>2. Left \in 0 .. Limit /\ Kept(Left) \in 0 .. Limit /\ Left - Kept(Left) \in 0 .. Limit
    BY LeftIs, KeptLess
  <2>3. IsSite(IF stored = None THEN Empty ELSE [stored EXCEPT !.verdict = "none"])
    BY EmptySite, SiteIs, Noted DEF TypeOK
  <2> DEFINE site == IF stored = None THEN Empty ELSE [stored EXCEPT !.verdict = "none"]
  <2>4. /\ art' = [site EXCEPT !.status = "running",
                               !.reserve = IF stage = "coding" THEN Kept(Left) ELSE @]
        /\ point' = art' /\ pc = "starting" /\ pc' = "site"
        /\ allowance' = IF stage = "coding" THEN Left - Kept(Left) ELSE Left
        /\ UNCHANGED <<stored, disk, tree, money, cancel, world, stage, reconnects, repairs, reviews>>
    BY <1>4 DEF Open
  <2> HIDE DEF site
  <2>5. IsSite(site)
    BY <2>3 DEF site
  <2>6. IsSite(art')
    BY <2>2, <2>4, <2>5 DEF IsSite, Site
  <2>7. art' # None /\ IsArt(art')
    BY <2>6, Others DEF IsSite, IsArt
  <2>8. TypeOK'
    BY <2>1, <2>2, <2>4, <2>7 DEF TypeOK, OthersTyped, IsArt, money
  <2> QED BY <2>4, <2>7, <2>8 DEF Alive, InRound, money
<1>5. CASE EnterStage
  <2>1. art # None /\ IsSite(art) /\ ceiling = 0
    BY <1>5, SiteIs DEF EnterStage, Alive, InRound, TypeOK
  <2>2. UNCHANGED <<disk, tree, ledger, spent, cancel, world>> /\ OthersTyped
    BY <1>5, Elsewhere DEF EnterStage
  <2>3. CASE Fail(art)
    BY <2>1, <2>2, <2>3, Failing
  <2>4. CASE ~Fail(art)
    <3>1. IsSite([art EXCEPT !.fin = NoFin])
      BY <2>1, Noted
    <3>2. art' # None /\ IsArt(art') /\ UNCHANGED <<point, stored, round, ceiling>>
      BY <1>5, <2>1, <2>4, <3>1, StageEntered, Others DEF IsSite, IsArt
    <3>3. pc' \in {"coding", "checks", "recheck"}
      BY <1>5, <2>4, StageEntered
    <3>4. IsArt(point') /\ IsArt(stored')
      BY <3>2 DEF TypeOK
    <3>5. TypeOK'
      BY <2>2, <3>2, <3>3, <3>4 DEF TypeOK, OthersTyped, round
    <3> QED BY <1>5, <2>1, <2>4, <3>2, <3>3, <3>5, StageEntered DEF Alive, InRound, round
  <2> QED BY <2>3, <2>4
<1>6. CASE RecheckPasses
  <2>1. art # None /\ IsSite(art) /\ art.checks # <<>>
    BY <1>6, SiteIs DEF RecheckPasses, Alive, InRound, TypeOK
  <2>2. art.checks \in Seq(Result) /\ art.checks[1].sig \in Sigs
    <3>1. art.checks \in Seq(Result)
      BY <2>1 DEF IsSite, Site
    <3>2. art.checks[1] \in Result
      BY <2>1, <3>1, EmptySeq, ElementOfSeq
    <3> QED BY <3>1, <3>2 DEF Result, Sigs
  <2>3. PICK results \in Rechecks :
          /\ art' = [art EXCEPT !.checks = results, !.status = "verified"] /\ point' = art'
          /\ pc' = "review"
          /\ UNCHANGED <<stored, round, disk, tree, money, cancel, world>>
    BY <1>6 DEF RecheckPasses
  <2>4. results \in Seq(Result) /\ Len(results) <= Checks
    BY <2>2, ResultsAre DEF Rechecks
  <2>5. IsSite(art')
    BY <2>1, <2>3, <2>4 DEF IsSite, Site
  <2>6. art' # None /\ IsArt(art')
    BY <2>5, Others DEF IsSite, IsArt
  <2>7. OthersTyped
    BY <2>3, Elsewhere DEF money
  <2>8. TypeOK'
    BY <2>3, <2>6, <2>7 DEF TypeOK, OthersTyped, IsArt, round, money
  <2> QED BY <1>6, <2>3, <2>6, <2>8 DEF Alive, InRound, money, RecheckPasses
<1>7. CASE RecheckFails
  <2>1. art # None /\ IsSite(art) /\ Fail(art)
    BY <1>7, SiteIs DEF RecheckFails, Alive, InRound, TypeOK
  <2>2. OthersTyped
    BY <1>7 DEF RecheckFails, TypeOK, OthersTyped, tree, world
  <2> QED BY <2>1, <2>2, Failing
<1> QED BY <1>1, <1>2, <1>3, <1>4, <1>5, <1>6, <1>7 DEF Enter

\* A site that is changed in a round that goes on.
LEMMA StaysAlive ==
  ASSUME TypeOK, OthersTyped, IsSite(art'), IsArt(point'), IsArt(stored'),
         pc' \in InRound \ {"site", "recheck", "coding", "call"},
         {allowance', ceiling'} \subseteq 0 .. Limit, pc' # "reviewing" => ceiling' = 0,
         stage' \in {"coding", "finalization", "budget_finalization", "verification", "budget_stop"},
         reconnects' \in 0 .. MaxReconnects, repairs' \in 0 .. MaxRepairs,
         reviews' \in 0 .. MaxReviews
  PROVE  TypeOK' /\ Alive'
<1>1. art' # None /\ IsArt(art')
  BY Others DEF IsSite, IsArt
<1>2. TypeOK'
  BY <1>1 DEF TypeOK, OthersTyped, InRound, IsArt
<1> QED BY <1>1, <1>2 DEF Alive, InRound

LEMMA BackToCoding ==
  ASSUME TypeOK, OthersTyped, IsSite(art'), IsArt(point'), IsArt(stored'), pc' = "coding",
         stage' = "coding", allowance' \in 0 .. Limit, ceiling' = 0,
         reconnects' \in 0 .. MaxReconnects, repairs' \in 0 .. MaxRepairs,
         reviews' \in 0 .. MaxReviews
  PROVE  TypeOK' /\ Alive'
<1>1. art' # None /\ IsArt(art')
  BY Others DEF IsSite, IsArt
<1>2. TypeOK'
  BY <1>1, Kinds DEF TypeOK, OthersTyped, InRound, IsArt
<1> QED BY <1>1, <1>2 DEF Alive, InRound

LEMMA InSite ==
  ASSUME TypeOK, Alive, pc \in InRound PROVE art # None /\ IsSite(art)
  BY SiteIs DEF Alive, TypeOK

LEMMA CodeKeeps ==
  ASSUME TypeOK, Alive, Code PROVE TypeOK' /\ Alive'
<1> USE Kinds
<1>1. IsSite(art)
  BY InSite DEF Code, CodingCancelled, CodingBlocked, Dispatch, InRound
<1>2. CASE CodingCancelled
  BY <1>1, <1>2, Elsewhere, Failing DEF CodingCancelled
<1>3. CASE CodingBlocked
  <2>1. IsSite([art EXCEPT !.exhausted = TRUE])
    BY <1>1, Noted
  <2> QED BY <1>3, <2>1, Elsewhere, Failing DEF CodingBlocked
<1>4. CASE Dispatch
  <2>1. /\ art' = [art EXCEPT !.exhausted = FALSE,
                              !.evidence = IF @ = "none" THEN @ ELSE "earlier"]
        /\ point' = art' /\ pc' = "call" /\ ceiling' = allowance /\ stage = "coding"
        /\ UNCHANGED <<stored, round, disk, ledger, spent, cancel, world>>
    BY <1>4 DEF Dispatch, Alive
  <2>2. IsSite(art')
    BY <1>1, <2>1 DEF IsSite, Site
  <2>3. art' # None /\ IsArt(art')
    BY <2>2, Others DEF IsSite, IsArt
  <2>4. record' \in 1 .. 9 /\ caller' \in 1 .. 9 /\ writers' \subseteq 1 .. 9
    BY <1>4 DEF Dispatch, Unused, TypeOK
  <2>5. IsArt(stored') /\ IsArt(point')
    BY <2>1, <2>3 DEF TypeOK
  <2>6. {allowance', ceiling'} \subseteq 0 .. Limit /\ UNCHANGED <<round, disk, ledger, spent, cancel, world>>
    BY <2>1 DEF TypeOK, round
  <2>7. TypeOK'
    BY <2>1, <2>3, <2>4, <2>5, <2>6 DEF TypeOK, round, disk, world
  <2> QED BY <2>1, <2>3, <2>7 DEF Alive, InRound, round
<1> QED BY <1>2, <1>3, <1>4 DEF Code

\* What a call costs is known or held, and is at most its ceiling.
LEMMA Paid ==
  ASSUME TypeOK, Pay
  PROVE  /\ {spent', ledger'} \subseteq Nat /\ ledger' - ledger \in 0 .. ceiling
         /\ spent' - spent \in 0 .. ceiling
         /\ spent' - spent <= ledger' - ledger
<1>1. PICK cost \in 0 .. ceiling, priced \in BOOLEAN :
        /\ spent' = spent + cost
        /\ ledger' = ledger + IF priced THEN cost ELSE ceiling
  BY DEF Pay, Hold
<1>2. ceiling \in Nat /\ ledger \in Nat /\ spent \in Nat
  BY Kinds DEF TypeOK
<1> QED BY <1>1, <1>2

LEMMA AnswerKeeps ==
  ASSUME TypeOK, Alive, Answer PROVE TypeOK' /\ Alive'
<1> USE Kinds
<1>1. CallEnds /\ pc = "call"
  BY DEF Answer, CallReturns, Reconnect, CallExhausted, CallFails, CallEnds
<1>2. IsSite(art) /\ stage = "coding" /\ ceiling = allowance
  BY <1>1, InSite DEF InRound, Alive
<1>3. OthersTyped
  <2>1. {spent', ledger'} \subseteq Nat
    BY <1>1, Paid DEF CallEnds
  <2>2. {record', caller'} \subseteq 0 .. 9 /\ writers' \subseteq 1 .. 9
    <3>1. /\ caller' = 0 /\ record' \in {record, 0}
          /\ writers' \subseteq writers
      BY <1>1 DEF CallEnds
    <3> QED BY <3>1 DEF TypeOK
  <2> QED BY <1>1, <2>1, <2>2 DEF CallEnds, TypeOK, OthersTyped, disk, world
<1>4. ASSUME Charged
      PROVE  /\ allowance' \in 0 .. Limit /\ ceiling' = 0 /\ art' = art /\ point' = art
             /\ stored' = stored /\ repairs' = repairs /\ reviews' = reviews
  <2>1. ledger' - ledger \in 0 .. allowance /\ allowance \in 0 .. Limit
    BY <1>1, <1>2, Paid DEF CallEnds, TypeOK
  <2> QED BY <1>4, <2>1 DEF Charged, Allowed
<1>5. ASSUME CallReturns \/ (CallExhausted /\ Charged /\ pc' = "checks" /\ stage' = "budget_stop"
                             /\ UNCHANGED reconnects)
      PROVE  TypeOK' /\ Alive'
  <2>1. /\ Charged /\ pc' = "checks" /\ stage' \in {"coding", "budget_stop"}
        /\ reconnects' = reconnects
    BY <1>2, <1>5 DEF CallReturns
  <2>2. IsArt(stored) /\ IsArt(art)
    BY DEF TypeOK
  <2> QED BY <1>2, <1>3, <1>4, <2>1, <2>2, StaysAlive DEF TypeOK, InRound
<1>6. CASE Reconnect
  <2>1. Charged /\ pc' = "coding" /\ stage' = "coding" /\ reconnects' \in 0 .. MaxReconnects
    BY <1>2, <1>6 DEF Reconnect, CanReconnect, TypeOK
  <2>2. IsArt(stored) /\ IsArt(art)
    BY DEF TypeOK
  <2> QED BY <1>2, <1>3, <1>4, <2>1, <2>2, BackToCoding DEF TypeOK
<1>7. CASE CallFails
  BY <1>2, <1>3, <1>7, Failing DEF CallFails
<1>8. CASE CallExhausted /\ Fail([art EXCEPT !.exhausted = TRUE])
  <2>1. IsSite([art EXCEPT !.exhausted = TRUE])
    BY <1>2, Noted
  <2> QED BY <1>3, <1>8, <2>1, Failing
<1> QED BY <1>5, <1>6, <1>7, <1>8 DEF Answer, CallExhausted

LEMMA CheckKeeps ==
  ASSUME TypeOK, Alive, Check PROVE TypeOK' /\ Alive'
<1> USE Kinds
<1>1. IsSite(art) /\ pc = "checks"
  BY InSite DEF Check, ChecksPass, ChecksFail, ChecksWrite, InRound
<1>2. /\ art.checks \in Seq(Result)
      /\ \A results \in Results(art.checks, Signature) :
           results \in Seq(Result) /\ Len(results) <= Checks
  <2>1. art.checks \in Seq(Result)
    BY <1>1 DEF IsSite, Site
  <2> QED BY <2>1, SignatureIs, ResultsAre
<1>3. \A results \in Results(art.checks, Signature) : IsSite(Checked(results))
  BY <1>1, <1>2, Noted DEF Checked
<1>4. CASE ChecksPass
  <2>1. PICK results \in Results(art.checks, Signature) :
          art' = [Checked(results) EXCEPT !.fin = Signature,
                                          !.exhausted = @ /\ stage # "budget_finalization"]
    BY <1>4 DEF ChecksPass
  <2> DEFINE a == Checked(results)
  <2>2. IsSite(a) /\ art' = [a EXCEPT !.fin = Signature,
                                      !.exhausted = @ /\ stage # "budget_finalization"]
    BY <1>3, <2>1
  <2> HIDE DEF a
  <2>3. IsSite(art')
    BY <2>2, SignatureIs DEF IsSite, Site, Sigs
  <2>4. IsArt(point') /\ IsArt(stored')
    BY <1>4, <2>3 DEF ChecksPass, IsSite, IsArt, TypeOK
  <2>5. /\ pc' = "finalize" /\ UNCHANGED <<round, disk, tree, money, cancel, world>>
    BY <1>4 DEF ChecksPass
  <2>6. OthersTyped
    BY <2>5, Elsewhere DEF money
  <2> QED BY <1>1, <2>3, <2>4, <2>5, <2>6, StaysAlive DEF TypeOK, InRound, Alive, round, money
<1>5. CASE ChecksFail
  <2>1. PICK results \in Results(art.checks, Signature) :
          IF MayRepairChecks
          THEN /\ pc' = "coding" /\ art' = Checked(results) /\ point' = art'
               /\ repairs' = repairs + 1
               /\ UNCHANGED <<stored, stage, reconnects, reviews, allowance, ceiling>>
          ELSE Fail([Checked(results) EXCEPT !.exhausted = @ \/ stage = "budget_stop"])
    BY <1>5 DEF ChecksFail
  <2> DEFINE a == Checked(results)
  <2>2. IsSite(a)
    BY <1>3
  <2>3. OthersTyped
    BY <1>5, Elsewhere DEF ChecksFail
  <2> HIDE DEF a
  <2>4. CASE MayRepairChecks
    <3>1. /\ pc' = "coding" /\ art' = a /\ point' = a /\ stored' = stored
          /\ stage' = "coding" /\ repairs' = repairs + 1 /\ repairs < MaxRepairs
          /\ UNCHANGED <<reconnects, reviews, allowance, ceiling>>
      BY <2>1, <2>4 DEF MayRepairChecks, a
    <3>2. IsArt(a) /\ IsArt(stored)
      BY <2>2 DEF IsSite, IsArt, TypeOK
    <3> QED BY <1>1, <2>2, <2>3, <3>1, <3>2, BackToCoding DEF TypeOK, Alive
  <2>5. CASE ~MayRepairChecks
    <3>1. Fail([a EXCEPT !.exhausted = @ \/ stage = "budget_stop"])
      BY <2>1, <2>5 DEF a
    <3>2. IsSite([a EXCEPT !.exhausted = @ \/ stage = "budget_stop"])
      BY <2>2 DEF IsSite, Site
    <3> QED BY <2>3, <3>1, <3>2, Failing
  <2> QED BY <2>4, <2>5
<1>6. CASE ChecksWrite
  <2>1. PICK results \in Results(art.checks, Signature) : Fail(Checked(results))
    BY <1>6 DEF ChecksWrite
  <2>2. OthersTyped
    BY <1>6 DEF ChecksWrite, TypeOK, OthersTyped, tree, world
  <2> QED BY <1>3, <2>1, <2>2, Failing
<1> QED BY <1>4, <1>5, <1>6 DEF Check

LEMMA FinalizeKeeps ==
  ASSUME TypeOK, Alive, Finalize PROVE TypeOK' /\ Alive'
<1> USE Kinds
<1>1. IsSite(art)
  BY InSite DEF Finalize, FinalizeRefused, Commit, RollBack, Record, InRound
<1>2. CASE FinalizeRefused
  BY <1>1, <1>2, Elsewhere, Failing DEF FinalizeRefused
<1>3. CASE Commit
  <2>1. /\ pc' = "committed" /\ head' \in {head, code}
        /\ UNCHANGED <<round, art, point, stored, code, tree, money, cancel, world>>
    BY <1>3 DEF Commit
  <2>2. OthersTyped
    BY <2>1 DEF TypeOK, OthersTyped, tree, money, world
  <2>3. IsSite(art') /\ IsArt(point') /\ IsArt(stored')
    BY <1>1, <2>1 DEF TypeOK
  <2> QED BY <1>3, <2>1, <2>2, <2>3, StaysAlive DEF TypeOK, InRound, Alive, Commit, round, money
<1>4. CASE RollBack
  <2>1. head' \in Content /\ Fail(art)
    BY <1>1, <1>4 DEF RollBack, IsSite, Site
  <2>2. OthersTyped
    BY <1>4, <2>1 DEF RollBack, TypeOK, OthersTyped, tree, world
  <2> QED BY <1>1, <2>1, <2>2, Failing
<1>5. CASE Record
  <2>1. IsSite(Recorded)
    <3>1. head \in Content /\ NoFin \in {NoFin} \cup Sigs
      BY DEF TypeOK
    <3> DEFINE a == [art EXCEPT !.commit = head]
               b == [a EXCEPT !.status = "verified"]
               c == [b EXCEPT !.fin = NoFin]
               d == [c EXCEPT !.guard = head]
    <3>2. IsSite(a)
      BY <1>1, <3>1, Noted
    <3> HIDE DEF a
    <3>3. IsSite(b)
      BY <3>2, Noted
    <3> HIDE DEF b
    <3>4. IsSite(c)
      BY <3>1, <3>3, Noted
    <3> HIDE DEF c
    <3>5. IsSite(d)
      BY <3>1, <3>4, Noted
    <3>6. Recorded = d
      BY DEF Recorded, a, b, c, d
    <3> QED BY <3>5, <3>6
  <2>2. OthersTyped
    BY <1>5, Elsewhere DEF Record
  <2>3. CASE code = head
    <3>1. /\ pc' = "review" /\ art' = Recorded /\ point' = Recorded /\ reviews' = 0
          /\ UNCHANGED <<stored, stage, reconnects, repairs, allowance, ceiling>>
      BY <1>5, <2>3 DEF Record
    <3>2. IsArt(Recorded) /\ IsArt(stored)
      BY <2>1 DEF IsSite, IsArt, TypeOK
    <3> QED BY <1>5, <2>1, <2>2, <3>1, <3>2, StaysAlive DEF TypeOK, InRound, Alive, Record
  <2>4. CASE code # head
    <3>1. Fail([Recorded EXCEPT !.fin = art.fin])
      BY <1>5, <2>4 DEF Record
    <3>2. art.fin \in {NoFin} \cup Sigs
      BY <1>1 DEF IsSite, Site, Sigs
    <3>3. IsSite([Recorded EXCEPT !.fin = art.fin])
      BY <2>1, <3>2, Noted
    <3> QED BY <2>2, <3>1, <3>3, Failing
  <2> QED BY <2>3, <2>4
<1> QED BY <1>2, <1>3, <1>4, <1>5 DEF Finalize

LEMMA JudgeKeeps ==
  ASSUME TypeOK, Alive, Judge PROVE TypeOK' /\ Alive'
<1> USE Kinds
<1>1. IsSite(art) /\ IsArt(art) /\ IsArt(point) /\ IsArt(stored)
  BY InSite DEF Judge, ReviewRefused, Review, ReviewAgain, ReviewPasses, ReviewFails,
                ReviewRejects, InRound, TypeOK
<1>2. ASSUME Pay, UNCHANGED <<disk, tree, cancel, world>> PROVE OthersTyped
  <2>1. {spent', ledger'} \subseteq Nat
    BY <1>2, Paid
  <2> QED BY <1>2, <2>1 DEF TypeOK, OthersTyped, disk, tree, world
<1>3. ASSUME NEW a, FailWith(a, point), IsSite(a), OthersTyped PROVE TypeOK' /\ Alive'
  <2>1. IsArt(a)
    BY <1>3 DEF IsSite, IsArt
  <2> QED BY <1>1, <1>3, <2>1, EndRound
<1>4. CASE ReviewRefused
  <2>1. IsSite(IF cancel = "no" THEN [art EXCEPT !.exhausted = TRUE] ELSE art)
    BY <1>1, Noted
  <2> QED BY <1>3, <1>4, <2>1, Elsewhere DEF ReviewRefused
<1>5. CASE Review
  <2>1. /\ pc' = "reviewing" /\ ceiling' = Left
        /\ UNCHANGED <<art, point, stored, round, disk, tree, ledger, spent, cancel, world>>
    BY <1>5 DEF Review
  <2>2. OthersTyped /\ Left \in 0 .. Limit
    BY <2>1, Elsewhere, LeftIs
  <2> QED BY <1>1, <2>1, <2>2, StaysAlive DEF TypeOK, InRound, round
<1>6. CASE ReviewAgain
  <2>1. /\ pc' = "review" /\ ceiling' = 0 /\ reviews' \in 0 .. MaxReviews
        /\ UNCHANGED <<art, point, stored, stage, reconnects, repairs, allowance>>
    BY <1>6 DEF ReviewAgain, TypeOK
  <2>2. OthersTyped
    BY <1>2, <1>6 DEF ReviewAgain
  <2> QED BY <1>1, <2>1, <2>2, StaysAlive DEF TypeOK, InRound
<1>7. CASE ReviewPasses
  <2>1. /\ art' = None /\ ceiling' = 0 /\ stage' = "coding" /\ allowance' = 0
        /\ reconnects' = 0 /\ repairs' = 0 /\ reviews' = 0 /\ point' = point
        /\ pc' \in {"cancelled", "delivered"}
        /\ stored' \in {stored, [art EXCEPT !.verdict = "pass"]}
    BY <1>7 DEF ReviewPasses, Forget
  <2>2. IsSite([art EXCEPT !.verdict = "pass"])
    BY <1>1, Noted
  <2>3. IsArt(stored') /\ IsArt(art') /\ IsArt(point')
    BY <1>1, <2>1, <2>2 DEF IsSite, IsArt
  <2>4. OthersTyped
    BY <1>2, <1>7 DEF ReviewPasses
  <2>5. TypeOK'
    BY <2>1, <2>3, <2>4 DEF TypeOK, OthersTyped, Rest
  <2> QED BY <2>1, <2>5 DEF Alive, InRound
<1>8. CASE ReviewFails
  <2>1. PICK verdict \in {"none", "error"}, exhausted \in BOOLEAN :
          FailWith([art EXCEPT !.verdict = verdict, !.exhausted = @ \/ exhausted], point)
    BY <1>8 DEF ReviewFails
  <2>2. IsSite([art EXCEPT !.verdict = verdict, !.exhausted = @ \/ exhausted])
    BY <1>1 DEF IsSite, Site
  <2>3. OthersTyped
    BY <1>2, <1>8 DEF ReviewFails
  <2> QED BY <1>3, <2>1, <2>2, <2>3
<1>9. CASE ReviewRejects
  <2>1. IsSite([art EXCEPT !.verdict = "fail"])
    BY <1>1, Noted
  <2>2. OthersTyped
    BY <1>2, <1>9 DEF ReviewRejects
  <2>3. CASE RepairsOnce /\ cancel = "no"
    <3>1. /\ pc' = "repair" /\ art' = [art EXCEPT !.verdict = "fail"] /\ ceiling' = 0
          /\ UNCHANGED <<point, stored, round>>
      BY <1>9, <2>3 DEF ReviewRejects
    <3> QED BY <1>1, <2>1, <2>2, <3>1, StaysAlive DEF TypeOK, InRound, round
  <2>4. CASE ~(RepairsOnce /\ cancel = "no")
    BY <1>3, <1>9, <2>1, <2>2, <2>4 DEF ReviewRejects
  <2> QED BY <2>3, <2>4
<1> QED BY <1>4, <1>5, <1>6, <1>7, <1>8, <1>9 DEF Judge

LEMMA MendKeeps ==
  ASSUME TypeOK, Alive, Mend PROVE TypeOK' /\ Alive'
<1> USE Kinds
<1>1. IsSite(art) /\ IsArt(point) /\ IsArt(stored)
  BY InSite DEF Mend, RepairUnfunded, Repair, ReopenRefused, Reopen, InRound, TypeOK
<1>2. CASE RepairUnfunded
  <2>1. IsSite([art EXCEPT !.exhausted = TRUE])
    BY <1>1, Noted
  <2>2. IsArt([art EXCEPT !.exhausted = TRUE])
    BY <2>1 DEF IsSite, IsArt
  <2> QED BY <1>1, <1>2, <2>2, Elsewhere, EndRound DEF RepairUnfunded
<1>3. CASE Repair
  <2>1. /\ pc' = "reopen" /\ art' = [art EXCEPT !.fixed = 1] /\ point' = art'
        /\ UNCHANGED <<stored, round, disk, tree, money, cancel, world>>
    BY <1>3 DEF Repair
  <2>2. IsSite(art')
    BY <1>1, <2>1, Noted
  <2>3. IsArt(point') /\ IsArt(stored')
    BY <1>1, <2>1, <2>2 DEF IsSite, IsArt
  <2>4. OthersTyped
    BY <2>1, Elsewhere DEF money
  <2> QED BY <1>3, <2>1, <2>2, <2>3, <2>4, StaysAlive DEF TypeOK, InRound, Alive, Repair, round, money
<1>4. CASE ReopenRefused
  BY <1>1, <1>4, Elsewhere, EndRound DEF ReopenRefused, Refuse
<1>5. CASE Reopen
  <2>1. /\ art' = [art EXCEPT !.status = "running", !.verdict = "none", !.reserve = Reserve(Left)]
        /\ pc' = "site" /\ stage' = "coding" /\ point' = art'
        /\ allowance' = Left - Reserve(Left) /\ reconnects' = 0 /\ repairs' = 0
        /\ UNCHANGED <<stored, reviews, disk, tree, money, cancel, world>>
    BY <1>5 DEF Reopen
  <2>2. Reserve(Left) \in 0 .. Limit /\ Left - Reserve(Left) \in 0 .. Limit
    BY LeftIs, ReserveLess
  <2>3. IsSite(art')
    BY <1>1, <2>1, <2>2 DEF IsSite, Site
  <2>4. IsArt(point') /\ IsArt(stored') /\ IsArt(art') /\ art' # None
    BY <1>1, <2>1, <2>3, Others DEF IsSite, IsArt
  <2>5. OthersTyped
    BY <2>1, Elsewhere DEF money
  <2>6. TypeOK'
    BY <2>1, <2>2, <2>4, <2>5 DEF TypeOK, OthersTyped, money
  <2> QED BY <1>5, <2>1, <2>4, <2>6 DEF Alive, InRound, money, Reopen
<1> QED BY <1>2, <1>3, <1>4, <1>5 DEF Mend

\* The stage recovery and a user go on with is one that a round can enter.
LEMMA StageIs ==
  ASSUME NEW a
  PROVE  ResumeStage(a) \in {"coding", "finalization", "budget_finalization", "verification"}
  BY DEF ResumeStage

LEMMA OutsideKeeps ==
  ASSUME TypeOK, Alive,
         \/ Edit \/ CommandSucceeds \/ WriterExits
         \/ Cancel \/ CancelItself \/ Continue \/ Crash \/ ToolsChange
  PROVE  TypeOK' /\ Alive'
<1> USE Kinds
<1>0. IsArt(art) /\ IsArt(point) /\ IsArt(stored)
  BY DEF TypeOK
<1>1. CASE Edit
  BY <1>1 DEF Edit, TypeOK, Alive, round, tree, money, world
<1>2. CASE CommandSucceeds
  <2>1. /\ pc = "call" /\ art' = [art EXCEPT !.evidence = "now"] /\ point' = art'
        /\ UNCHANGED <<pc, round, stored, disk, tree, money, cancel, world>>
    BY <1>2 DEF CommandSucceeds
  <2>2. IsSite(art')
    BY <2>1, InSite, Noted DEF InRound
  <2>3. IsArt(point') /\ IsArt(stored') /\ IsArt(art') /\ art' # None
    BY <1>0, <2>1, <2>2, Others DEF IsSite, IsArt
  <2>4. TypeOK'
    BY <2>1, <2>3 DEF TypeOK, round, disk, tree, money, world
  <2> QED BY <2>1, <2>3, <2>4 DEF Alive, InRound, round, money
<1>3. CASE WriterExits
  <2>1. /\ writers' \subseteq writers /\ UNCHANGED <<pc, round, art, point, stored, disk, record,
                                                     caller, money, cancel, world>>
    BY <1>3 DEF WriterExits
  <2> QED BY <2>1 DEF TypeOK, Alive, round, disk, money, world
<1>4. CASE Cancel
  BY <1>4 DEF Cancel, TypeOK, Alive, InRound, Rest, round, disk, tree, money, world
<1>5. CASE CancelItself
  BY <1>5 DEF CancelItself, TypeOK, Alive, round, disk, tree, money, world
<1>6. CASE Continue
  <2>1. /\ pc = "paused" /\ stored # None /\ pc' = "queued"
        /\ stage' \in {"coding", "finalization", "budget_finalization", "verification"}
        /\ rev' \in {rev, rev + 1} /\ count' = [count EXCEPT !.rounds = @ + 1]
        /\ UNCHANGED <<art, point, stored, disk, tree, money, cancel, env,
                       reconnects, repairs, reviews, allowance>>
    BY <1>6, StageIs DEF Continue
  <2>2. count' \in [rounds : Nat, crashes : Nat]
    BY <2>1 DEF TypeOK
  <2>3. TypeOK'
    BY <2>1, <2>2 DEF TypeOK, disk, tree, money
  <2> QED BY <2>1, <2>3 DEF Alive, InRound, money
<1>7. CASE Crash
  <2>1. /\ art' = None /\ ceiling' = 0 /\ caller' = 0 /\ cancel' = "no"
        /\ reconnects' = 0 /\ repairs' = 0 /\ reviews' = 0 /\ allowance' = 0
        /\ UNCHANGED <<point, disk, writers, record, rev, env>>
    BY <1>7 DEF Crash
  <2>2. {spent', ledger'} \subseteq Nat /\ (pc = "queued" => ledger' = ledger)
    <3>1. \E cost \in 0 .. ceiling : spent' = spent + cost
      BY <1>7 DEF Crash
    <3>2. ledger' = ledger + IF cancel = "user" THEN 0 ELSE ceiling
      BY <1>7 DEF Crash, Hold
    <3>3. {ledger, spent, ceiling} \subseteq Nat /\ ledger' \in Nat /\ spent' \in Nat
      BY <3>1, <3>2 DEF TypeOK
    <3>4. pc = "queued" => ceiling = 0
      BY DEF Alive
    <3> QED BY <3>2, <3>3, <3>4
  <2>3. count' \in [rounds : Nat, crashes : Nat]
    BY <1>7 DEF Crash, TypeOK
  <2>4. \/ pc' \in {"cancelled", "paused"} /\ stored' = stored /\ stage' \in {stage, "coding"}
        \/ pc = "queued" /\ pc' = pc /\ stage' = stage /\ stored' = stored
        \/ /\ pc' = "queued" /\ stored' = point /\ point # None
           /\ stage' \in {"coding", "finalization", "budget_finalization", "verification"}
    BY <1>7, StageIs DEF Crash
  <2>5. TypeOK'
    <3>1. IsArt(art') /\ IsArt(point') /\ IsArt(stored')
      BY <1>0, <2>1, <2>4 DEF IsArt
    <3>2. /\ pc' \in Rest \cup {"queued"}
          /\ stage' \in {"coding", "finalization", "budget_finalization", "verification", "budget_stop"}
      BY <2>4 DEF Rest, TypeOK
    <3> QED BY <2>1, <2>2, <2>3, <3>1, <3>2 DEF TypeOK, disk
  <2>6. CASE pc = "queued" /\ pc' = pc /\ stage' = stage /\ stored' = stored
    BY <2>1, <2>2, <2>5, <2>6 DEF Alive, InRound, disk
  <2>7. CASE pc' # "queued" \/ (stored' = point /\ point # None /\ stage' # "budget_stop")
    BY <2>1, <2>4, <2>5, <2>7 DEF Alive, InRound
  <2> QED BY <2>4, <2>5, <2>6, <2>7
<1>8. CASE ToolsChange
  BY <1>8 DEF ToolsChange, TypeOK, Alive, round, disk, tree, money
<1> QED BY <1>1, <1>2, <1>3, <1>4, <1>5, <1>6, <1>7, <1>8

LEMMA RoundStep ==
  ASSUME TypeOK, Alive, [Next]_vars PROVE TypeOK' /\ Alive'
<1>1. CASE UNCHANGED vars
  BY <1>1 DEF vars, TypeOK, Alive, round, disk, tree, money, world
<1>2. CASE Worker
  BY <1>2, EnterKeeps, CodeKeeps, AnswerKeeps, CheckKeeps, FinalizeKeeps, JudgeKeeps, MendKeeps
     DEF Worker
<1>3. CASE Next /\ ~Worker
  BY <1>3, OutsideKeeps DEF Next
<1> QED BY <1>1, <1>2, <1>3

LEMMA RoundInit ==
  ASSUME Init PROVE TypeOK /\ Alive
  BY Kinds DEF Init, TypeOK, Alive, InRound, IsArt

\* Every variable has its kind.
THEOREM TypeCorrect == Spec => []TypeOK
<1>1. Init => TypeOK /\ Alive
  BY RoundInit
<1>2. TypeOK /\ Alive /\ [Next]_vars => (TypeOK /\ Alive)'
  BY RoundStep
<1> QED BY <1>1, <1>2, PTL DEF Spec

-----------------------------------------------------------------------------
(* Money.  What coding may still spend and what is kept for the review fit *)
(* into what is left, and so does the call in flight.                      *)

Funds ==
    /\ pc # "cancelled" => spent <= ledger
    /\ spent <= Limit /\ ledger + ceiling <= Limit
    /\ pc \in Coding /\ stage \in {"coding", "budget_stop"} =>
         ledger + allowance + art.reserve <= Limit

LEMMA Amounts ==
  ASSUME TypeOK
  PROVE  /\ Limit \in Nat /\ ledger \in Nat /\ spent \in Nat /\ ceiling \in Nat /\ allowance \in Nat
         /\ art # None => art.reserve \in Nat
  BY Kinds DEF TypeOK, IsArt, Site

\* Nobody is paid, and what the round may spend stays, or it codes no more.
LEMMA NobodyPaid ==
  ASSUME TypeOK, Funds, pc # "cancelled", UNCHANGED <<ledger, spent>>, ceiling' = 0,
         \/ pc' \notin Coding
         \/ stage' \notin {"coding", "budget_stop"}
         \/ /\ pc \in Coding /\ stage' = stage /\ allowance' = allowance
            /\ art'.reserve = art.reserve
  PROVE  Funds'
  BY Amounts DEF Funds

LEMMA PaidAndOver ==
  ASSUME TypeOK, Funds, pc # "cancelled", Pay, ceiling' = 0, pc' \notin Coding
  PROVE  Funds'
<1>1. /\ spent' \in Nat /\ ledger' \in Nat /\ ledger' - ledger <= ceiling
      /\ spent' - spent <= ledger' - ledger
  BY Paid
<1> QED BY <1>1, Amounts DEF Funds

\* What is left is divided between coding and the review.
LEMMA Divided ==
  ASSUME TypeOK, Funds, pc # "cancelled", UNCHANGED <<ledger, spent>>, ceiling' = 0,
         NEW kept \in Nat, kept <= Left, allowance' = Left - kept, art'.reserve = kept
  PROVE  Funds'
<1>1. ledger <= Limit
  BY Amounts DEF Funds
<1>2. Left = Limit - ledger
  BY <1>1, LeftIs
<1> QED BY <1>1, <1>2, Amounts DEF Funds

\* The end of a round that nobody is paid for.
LEMMA OverUnpaid ==
  ASSUME TypeOK, Funds, pc # "cancelled", UNCHANGED <<ledger, spent>>, NEW a, NEW last, FailWith(a, last)
  PROVE  Funds'
<1>1. ceiling' = 0 /\ pc' \in {"cancelled", "paused"}
  BY DEF FailWith, Forget
<1>2. pc' \notin Coding
  BY <1>1 DEF Coding
<1> QED BY <1>1, <1>2, NobodyPaid

LEMMA OverPaid ==
  ASSUME TypeOK, Funds, pc # "cancelled", Pay, NEW a, NEW last, FailWith(a, last)
  PROVE  Funds'
<1>1. ceiling' = 0 /\ pc' \in {"cancelled", "paused"}
  BY DEF FailWith, Forget
<1>2. pc' \notin Coding
  BY <1>1 DEF Coding
<1> QED BY <1>1, <1>2, PaidAndOver

LEMMA EnterPays ==
  ASSUME TypeOK, Alive, Funds, Enter PROVE Funds'
<1>1. pc # "cancelled" /\ ceiling = 0 /\ UNCHANGED <<ledger, spent>>
  BY DEF Enter, Claim, BudgetStop, Unreachable, CancelledBeforeOpen, Open, EnterStage,
         RecheckPasses, RecheckFails, Alive, money
<1>2. CASE Claim
  BY <1>1, <1>2, NobodyPaid DEF Claim, Coding, money
<1>3. CASE BudgetStop \/ Unreachable \/ CancelledBeforeOpen \/ RecheckFails
  BY <1>1, <1>3, OverUnpaid DEF BudgetStop, Unreachable, CancelledBeforeOpen, RecheckFails, Refuse, Fail
<1>4. CASE Open
  <2> DEFINE site == IF stored = None THEN Empty ELSE [stored EXCEPT !.verdict = "none"]
  <2>1. IsSite(site)
    BY EmptySite, SiteIs, Noted DEF TypeOK
  <2>2. /\ art' = [site EXCEPT !.status = "running",
                               !.reserve = IF stage = "coding" THEN Kept(Left) ELSE @]
        /\ allowance' = IF stage = "coding" THEN Left - Kept(Left) ELSE Left
        /\ ceiling' = ceiling /\ stage' = stage /\ pc = "starting"
    BY <1>4 DEF Open, money
  <2> HIDE DEF site
  <2>3. CASE stage = "coding"
    <3>1. art'.reserve = Kept(Left)
      BY <2>1, <2>2, <2>3 DEF IsSite, Site
    <3>2. Kept(Left) \in Nat /\ Kept(Left) <= Left
      BY LeftIs, KeptLess
    <3> QED BY <1>1, <2>2, <2>3, <3>1, <3>2, Divided
  <2>4. CASE stage # "coding"
    BY <1>1, <2>2, <2>4, NobodyPaid DEF Alive
  <2> QED BY <2>3, <2>4
<1>5. CASE EnterStage
  <2>1. CASE Fail(art)
    BY <1>1, <2>1, OverUnpaid DEF Fail
  <2>2. CASE ~Fail(art)
    <3>1. art # None /\ IsSite(art) /\ pc = "site"
      BY <1>5, InSite DEF EnterStage, InRound
    <3>2. art' \in {art, [art EXCEPT !.fin = NoFin]} /\ UNCHANGED <<round, ceiling>>
      BY <1>5, <2>2, StageEntered
    <3>3. art'.reserve = art.reserve
      BY <3>1, <3>2 DEF IsSite, Site
    <3> QED BY <1>1, <3>1, <3>2, <3>3, NobodyPaid DEF Coding, round
  <2> QED BY <2>1, <2>2
<1>6. CASE RecheckPasses
  BY <1>1, <1>6, NobodyPaid DEF RecheckPasses, Coding, money
<1> QED BY <1>2, <1>3, <1>4, <1>5, <1>6 DEF Enter

LEMMA CodePays ==
  ASSUME TypeOK, Alive, Funds, Code \/ Answer \/ Check \/ Finalize PROVE Funds'
<1>1. art # None /\ IsSite(art) /\ pc \in InRound /\ pc # "cancelled"
  <2>1. pc \in InRound
    BY DEF InRound, Code, CodingCancelled, CodingBlocked, Dispatch, Answer, CallReturns, Reconnect,
           CallExhausted, CallFails, CallEnds, Check, ChecksPass, ChecksFail, ChecksWrite,
           Finalize, FinalizeRefused, Commit, RollBack, Record
  <2> QED BY <2>1, InSite DEF InRound
<1>2. CASE CodingCancelled \/ CodingBlocked \/ ChecksWrite \/ FinalizeRefused \/ RollBack
  <2>1. UNCHANGED <<ledger, spent>> /\ \E a, last : FailWith(a, last)
    BY <1>2 DEF CodingCancelled, CodingBlocked, ChecksWrite, FinalizeRefused, RollBack, Fail
  <2> QED BY <1>1, <2>1, OverUnpaid
<1>3. CASE Dispatch
  <2>1. /\ pc = "coding" /\ stage = "coding" /\ pc' = "call" /\ ceiling' = allowance
        /\ UNCHANGED <<ledger, spent, allowance, stage>>
        /\ art' = [art EXCEPT !.exhausted = FALSE,
                              !.evidence = IF @ = "none" THEN @ ELSE "earlier"]
    BY <1>3 DEF Dispatch, Alive, round
  <2>2. art'.reserve = art.reserve
    BY <1>1, <2>1 DEF IsSite, Site
  <2>3. pc \in Coding
    BY <2>1 DEF Coding
  <2> QED BY <1>1, <2>1, <2>2, <2>3, Amounts DEF Funds
<1>4. CASE Answer
  <2>1. Pay /\ pc = "call" /\ stage = "coding" /\ ceiling = allowance
    BY <1>4 DEF Answer, CallReturns, Reconnect, CallExhausted, CallFails, CallEnds, Alive
  <2>2. CASE \E a : Fail(a)
    BY <1>1, <2>1, <2>2, OverPaid DEF Fail
  <2>3. CASE Charged /\ stage' \in {"coding", "budget_stop"}
    <3>1. art' = art /\ ceiling' = 0 /\ allowance' = allowance - (ledger' - ledger)
      BY <2>3 DEF Charged, Allowed
    <3>2. /\ spent' \in Nat /\ ledger' \in Nat /\ ledger' - ledger <= ceiling
          /\ spent' - spent <= ledger' - ledger
      BY <2>1, Paid
    <3>3. ledger + allowance + art.reserve <= Limit
      BY <2>1 DEF Funds, Coding
    <3> QED BY <1>1, <2>1, <3>1, <3>2, <3>3, Amounts DEF Funds
  <2> QED BY <1>4, <2>1, <2>2, <2>3 DEF Answer, CallReturns, Reconnect, CallExhausted, CallFails
<1>5. CASE ChecksPass
  <2>1. PICK results \in Results(art.checks, Signature) :
          art' = [Checked(results) EXCEPT !.fin = Signature,
                                          !.exhausted = @ /\ stage # "budget_finalization"]
    BY <1>5 DEF ChecksPass
  <2>2. art'.reserve = art.reserve
    BY <1>1, <2>1 DEF Checked, IsSite, Site
  <2> QED BY <1>1, <1>5, <2>2, NobodyPaid DEF ChecksPass, Coding, round, money, Alive
<1>6. CASE ChecksFail
  <2>1. PICK results \in Results(art.checks, Signature) :
          IF MayRepairChecks
          THEN /\ pc' = "coding" /\ art' = Checked(results) /\ point' = art'
               /\ repairs' = repairs + 1
               /\ UNCHANGED <<stored, stage, reconnects, reviews, allowance, ceiling>>
          ELSE Fail([Checked(results) EXCEPT !.exhausted = @ \/ stage = "budget_stop"])
    BY <1>6 DEF ChecksFail
  <2>2. UNCHANGED <<ledger, spent>> /\ pc = "checks" /\ ceiling = 0
    BY <1>6 DEF ChecksFail, Alive
  <2>3. CASE MayRepairChecks
    <3>1. art'.reserve = art.reserve
      BY <1>1, <2>1, <2>3 DEF Checked, IsSite, Site
    <3> QED BY <1>1, <2>1, <2>2, <2>3, <3>1, NobodyPaid DEF Coding
  <2>4. CASE ~MayRepairChecks
    BY <1>1, <2>1, <2>2, <2>4, OverUnpaid DEF Fail
  <2> QED BY <2>3, <2>4
<1>7. CASE Commit
  BY <1>1, <1>7, NobodyPaid DEF Commit, Coding, round, money, Alive
<1>8. CASE Record
  <2>1. UNCHANGED <<ledger, spent>> /\ ceiling = 0
    BY <1>8 DEF Record, Alive
  <2>2. CASE code = head
    BY <1>1, <1>8, <2>1, <2>2, NobodyPaid DEF Record, Coding
  <2>3. CASE code # head
    BY <1>1, <1>8, <2>1, <2>3, OverUnpaid DEF Record, Fail
  <2> QED BY <2>2, <2>3
<1> QED BY <1>2, <1>3, <1>4, <1>5, <1>6, <1>7, <1>8 DEF Code, Check, Finalize

LEMMA JudgePays ==
  ASSUME TypeOK, Alive, Funds, Judge \/ Mend PROVE Funds'
<1>1. pc # "cancelled" /\ pc \in InRound
  BY DEF InRound, Judge, ReviewRefused, Review, ReviewAgain, ReviewPasses, ReviewFails,
         ReviewRejects, Mend, RepairUnfunded, Repair, ReopenRefused, Reopen
<1>2. CASE ReviewRefused \/ RepairUnfunded \/ ReopenRefused
  <2>1. UNCHANGED <<ledger, spent>> /\ \E a, last : FailWith(a, last)
    BY <1>2 DEF ReviewRefused, RepairUnfunded, ReopenRefused, Refuse
  <2> QED BY <1>1, <2>1, OverUnpaid
<1>3. CASE Review
  <2>1. ceiling' = Left /\ UNCHANGED <<ledger, spent>> /\ pc' = "reviewing"
    BY <1>3 DEF Review
  <2>2. ledger <= Limit
    BY Amounts DEF Funds
  <2>3. Left = Limit - ledger
    BY <2>2, LeftIs
  <2> QED BY <1>1, <2>1, <2>2, <2>3, Amounts DEF Funds, Coding
<1>4. CASE ReviewAgain
  BY <1>1, <1>4, PaidAndOver DEF ReviewAgain, Coding
<1>5. CASE ReviewPasses
  BY <1>1, <1>5, PaidAndOver DEF ReviewPasses, Forget, Coding
<1>6. CASE ReviewFails
  BY <1>1, <1>6, OverPaid DEF ReviewFails
<1>7. CASE ReviewRejects
  <2>1. CASE RepairsOnce /\ cancel = "no"
    BY <1>1, <1>7, <2>1, PaidAndOver DEF ReviewRejects, Coding
  <2>2. CASE ~(RepairsOnce /\ cancel = "no")
    BY <1>1, <1>7, <2>2, OverPaid DEF ReviewRejects
  <2> QED BY <2>1, <2>2
<1>8. CASE Repair
  BY <1>1, <1>8, NobodyPaid DEF Repair, Coding, money, Alive
<1>9. CASE Reopen
  <2>1. IsSite(art)
    BY <1>1, InSite
  <2>2. /\ art' = [art EXCEPT !.status = "running", !.verdict = "none", !.reserve = Reserve(Left)]
        /\ allowance' = Left - Reserve(Left) /\ UNCHANGED <<ledger, spent>> /\ ceiling' = 0
    BY <1>9 DEF Reopen, money, Alive
  <2>3. art'.reserve = Reserve(Left)
    BY <2>1, <2>2 DEF IsSite, Site
  <2>4. Reserve(Left) \in Nat /\ Reserve(Left) <= Left
    BY LeftIs, ReserveLess
  <2> QED BY <1>1, <2>2, <2>3, <2>4, Divided
<1> QED BY <1>2, <1>3, <1>4, <1>5, <1>6, <1>7, <1>8, <1>9 DEF Judge, Mend

LEMMA OutsidePays ==
  ASSUME TypeOK, Alive, Funds,
         \/ Edit \/ CommandSucceeds \/ WriterExits
         \/ Cancel \/ CancelItself \/ Continue \/ Crash \/ ToolsChange
  PROVE  Funds'
<1>1. CASE Edit \/ WriterExits \/ CancelItself \/ ToolsChange
  BY <1>1 DEF Edit, WriterExits, CancelItself, ToolsChange, Funds, round, money
<1>2. CASE CommandSucceeds
  <2>1. /\ pc = "call" /\ art' = [art EXCEPT !.evidence = "now"]
        /\ UNCHANGED <<pc, round, money>>
    BY <1>2 DEF CommandSucceeds
  <2>2. art'.reserve = art.reserve
    BY <2>1, InSite DEF InRound, IsSite, Site
  <2> QED BY <2>1, <2>2 DEF Funds, round, money
<1>3. CASE Cancel
  <2>1. UNCHANGED <<round, art, money>> /\ pc' \in {pc, "cancelled"}
    BY <1>3 DEF Cancel
  <2>2. "cancelled" \notin Coding
    BY DEF Coding
  <2> QED BY <2>1, <2>2 DEF Funds, round, money
<1>4. CASE Continue
  BY <1>4 DEF Continue, Funds, Coding, money
<1>5. CASE Crash
  <2>1. PICK cost \in 0 .. ceiling : spent' = spent + cost
    BY <1>5 DEF Crash
  <2>2. /\ ledger' = ledger + IF cancel = "user" THEN 0 ELSE ceiling
        /\ ceiling' = 0 /\ pc \notin Rest /\ (cancel = "user" => pc' = "cancelled")
    BY <1>5 DEF Crash, Hold
  <2>3. pc' \in {"cancelled", "paused", "queued"}
    BY <1>5 DEF Crash
  <2>4. pc' \notin Coding /\ pc # "cancelled"
    BY <2>2, <2>3 DEF Coding, Rest
  <2> QED BY <2>1, <2>2, <2>4, Amounts DEF Funds
<1> QED BY <1>1, <1>2, <1>3, <1>4, <1>5

LEMMA FundsStep ==
  ASSUME TypeOK, Alive, Funds, [Next]_vars PROVE Funds'
<1>1. CASE UNCHANGED vars
  BY <1>1 DEF vars, Funds, round, money
<1>2. CASE Worker
  BY <1>2, EnterPays, CodePays, JudgePays DEF Worker
<1>3. CASE Next /\ ~Worker
  BY <1>3, OutsidePays DEF Next
<1> QED BY <1>1, <1>2, <1>3

LEMMA FundsInit ==
  ASSUME Init PROVE Funds
  BY Kinds DEF Init, Funds, Coding

LEMMA FundsHold == Spec => [](TypeOK /\ Alive /\ Funds)
<1>1. Init => TypeOK /\ Alive /\ Funds
  BY RoundInit, FundsInit
<1>2. TypeOK /\ Alive /\ Funds /\ [Next]_vars => (TypeOK /\ Alive /\ Funds)'
  BY RoundStep, FundsStep
<1> QED BY <1>1, <1>2, PTL DEF Spec

\* The calls never cost more than the budget, although some of them never tell
\* their price and restarts cut others off.
THEOREM BudgetHolds == Spec => []SpendWithinBudget
<1>1. Funds => SpendWithinBudget
  BY DEF Funds, SpendWithinBudget
<1> QED BY <1>1, FundsHold, PTL

\* While there is code to write, the review that follows can be paid.
THEOREM ReviewIsFunded == Spec => []ReviewFunded
<1>1. TypeOK /\ Alive /\ Funds => ReviewFunded
  <2> SUFFICES ASSUME TypeOK, Alive, Funds, stage \in {"coding", "budget_stop"},
                      pc \in {"site", "coding", "checks", "finalize", "committed"}
               PROVE  Left >= art.reserve
    BY DEF ReviewFunded
  <2>1. pc \in Coding /\ pc \in InRound
    BY DEF Coding, InRound
  <2>2. ledger + allowance + art.reserve <= Limit /\ art.reserve \in Nat
    BY <2>1, Amounts DEF Funds, Alive
  <2>3. Left = Limit - ledger
    BY <2>2, LeftIs, Amounts
  <2> QED BY <2>2, <2>3, Amounts
<1> QED BY <1>1, FundsHold, PTL

-----------------------------------------------------------------------------
(* Who writes the worktree.  This needs that nothing outlives a worker.    *)

Writes ==
    /\ writers \subseteq {record}
    /\ pc \in InRound \ {"call"} => writers = {}
    /\ pc = "call" => caller = record
    /\ pc # "call" => caller = 0

\* Nobody starts or ends to write, and the round is not entered.
LEMMA SameWriters ==
  ASSUME Writes, UNCHANGED tree, pc' # "call", pc # "call",
         pc' \in InRound => pc \in InRound \/ writers = {}
  PROVE  Writes'
  BY DEF Writes, tree

LEMMA WritesStep ==
  ASSUME Lingers = FALSE, TypeOK, Alive, Writes, [Next]_vars PROVE Writes'
<1>1. CASE UNCHANGED vars
  BY <1>1 DEF vars, Writes, tree
<1>2. CASE Enter
  <2>1. pc # "call" /\ pc' # "call" /\ UNCHANGED tree
    <3>1. CASE EnterStage
      <4>1. pc = "site" /\ UNCHANGED tree
        BY <3>1 DEF EnterStage
      <4>2. pc' # "call"
        BY <3>1, StageEntered DEF Fail, FailWith
      <4> QED BY <4>1, <4>2
    <3>2. CASE Enter /\ ~EnterStage
      BY <3>2 DEF Enter, Claim, BudgetStop, Unreachable, CancelledBeforeOpen, Open,
                  RecheckPasses, RecheckFails, FailWith, Refuse, Fail
    <3> QED BY <1>2, <3>1, <3>2
  <2>2. pc' \in InRound => pc \in InRound \/ writers = {}
    <3>1. CASE Open
      <4>1. pc = "starting" /\ (stored # None => ~Active)
        BY <3>1 DEF Open
      <4>2. writers = {}
        BY <4>1 DEF Writes, Active, Alive
      <4> QED BY <4>2
    <3>2. CASE Claim \/ BudgetStop \/ Unreachable \/ CancelledBeforeOpen
      BY <3>2 DEF Claim, BudgetStop, Unreachable, CancelledBeforeOpen, Refuse, FailWith, InRound
    <3>3. CASE EnterStage \/ RecheckPasses \/ RecheckFails
      BY <3>3 DEF EnterStage, RecheckPasses, RecheckFails, InRound
    <3> QED BY <1>2, <3>1, <3>2, <3>3 DEF Enter
  <2> QED BY <2>1, <2>2, SameWriters
<1>3. CASE Dispatch
  BY <1>3 DEF Dispatch, Writes, InRound
<1>4. CASE Answer
  <2>1. CallEnds /\ pc = "call" /\ pc' # "call"
    BY <1>4 DEF Answer, CallReturns, Reconnect, CallExhausted, CallFails, CallEnds, Fail, FailWith
  <2>2. caller' = 0 /\ writers' = writers \ {caller} /\ record' = 0
    BY <2>1 DEF CallEnds
  <2>3. writers' = {}
    BY <2>1, <2>2 DEF Writes
  <2> QED BY <2>1, <2>2, <2>3 DEF Writes
<1>5. CASE CodingCancelled \/ CodingBlocked \/ Check \/ Finalize \/ Judge \/ Mend
  <2>1. pc # "call" /\ pc \in InRound
    BY <1>5 DEF CodingCancelled, CodingBlocked, Check, ChecksPass, ChecksFail, ChecksWrite,
           Finalize, FinalizeRefused, Commit, RollBack, Record,
           Judge, ReviewRefused, Review, ReviewAgain, ReviewPasses, ReviewFails,
           ReviewRejects, Mend, RepairUnfunded, Repair, ReopenRefused, Reopen, InRound
  <2>2. UNCHANGED tree
    BY <1>5 DEF CodingCancelled, CodingBlocked, Check, ChecksPass, ChecksFail, ChecksWrite,
           Finalize, FinalizeRefused, Commit, RollBack, Record,
           Judge, ReviewRefused, Review, ReviewAgain, ReviewPasses, ReviewFails,
           ReviewRejects, Mend, RepairUnfunded, Repair, ReopenRefused, Reopen
  <2>3. pc' # "call"
    BY <1>5 DEF CodingCancelled, CodingBlocked, Check, ChecksPass, ChecksFail, ChecksWrite,
           Finalize, FinalizeRefused, Commit, RollBack, Record,
           Judge, ReviewRefused, Review, ReviewAgain, ReviewPasses, ReviewFails,
           ReviewRejects, Mend, RepairUnfunded, Repair, ReopenRefused, Reopen, Fail, Refuse, FailWith
  <2> QED BY <2>1, <2>2, <2>3, SameWriters
<1>6. CASE Edit \/ CommandSucceeds \/ CancelItself \/ ToolsChange \/ Continue
  BY <1>6 DEF Edit, CommandSucceeds, CancelItself, ToolsChange, Continue, Writes, InRound, tree
<1>7. CASE WriterExits
  BY <1>7 DEF WriterExits, Writes
<1>8. CASE Cancel
  BY <1>8 DEF Cancel, Writes, InRound, tree
<1>9. CASE Crash
  <2>1. pc' \in {"cancelled", "paused", "queued"} /\ caller' = 0 /\ UNCHANGED <<writers, record>>
    BY <1>9 DEF Crash
  <2> QED BY <2>1 DEF Writes, InRound
<1> QED
  BY <1>1, <1>2, <1>3, <1>4, <1>5, <1>6, <1>7, <1>8, <1>9 DEF Next, Worker, Code

LEMMA WritesInit ==
  ASSUME Init PROVE Writes
  BY DEF Init, Writes, InRound

LEMMA WritesHold ==
  ASSUME Lingers = FALSE PROVE Spec => [](TypeOK /\ Alive /\ Writes)
<1>1. Init => TypeOK /\ Alive /\ Writes
  BY RoundInit, WritesInit
<1>2. TypeOK /\ Alive /\ Writes /\ [Next]_vars => (TypeOK /\ Alive /\ Writes)'
  BY RoundStep, WritesStep
<1> QED BY <1>1, <1>2, PTL DEF Spec

\* Where nothing outlives its worker, one process group at most writes the
\* worktree, also after a restart that left one behind.
THEOREM OneWriter ==
  ASSUME Lingers = FALSE PROVE Spec => []SoleWriter
<1>1. Writes => SoleWriter
  <2> SUFFICES ASSUME Writes PROVE Cardinality(writers) <= 1
    BY DEF SoleWriter
  <2>1. writers = {} \/ writers = {record}
    BY DEF Writes
  <2>2. Cardinality(writers) \in {0, 1}
    BY <2>1, FS_EmptySet, FS_Singleton
  <2> QED BY <2>2
<1> QED BY <1>1, WritesHold, PTL

-----------------------------------------------------------------------------
(* Evidence.  The results a round keeps are about one content, and that is *)
(* the content their identity was taken from.                              *)

Sound(a) ==
    /\ \A i, j \in DOMAIN a.checks : a.checks[i].sig = a.checks[j].sig
    /\ \A i \in DOMAIN a.checks :
         a.checks[i].ran = IF a.checks[i].sig = <<Clean, Clean>> THEN a.guard
                           ELSE a.checks[i].sig[2]
    /\ a.status = "verified" => \A i \in DOMAIN a.checks : a.checks[i].ran = a.commit

Now(a) ==
    /\ Len(a.checks) = Checks
    /\ \A i \in DOMAIN a.checks : /\ a.checks[i].ok /\ a.checks[i].ran = code
                                  /\ a.checks[i].rev = rev /\ a.checks[i].env = env

Found == \A a \in {art, point, stored} \ {None} : Sound(a)

\* Where the round is, and what it has established there.
Working ==
    /\ pc \in InRound \ {"committed"} => art.guard = head
    /\ pc \in Coding \cup {"recheck"} => art.status = "running"
    /\ pc \in {"site", "recheck"} /\ stage = "verification" =>
         \A i \in DOMAIN art.checks : art.checks[i].ran = art.commit
    /\ pc = "recheck" => art.commit = head /\ code = head
    /\ pc = "finalize" => art.fin = Signature
    /\ pc \in {"finalize", "committed"} =>
         Now(art) /\ \A i \in DOMAIN art.checks : art.checks[i].sig = art.fin
    /\ pc = "committed" => code = head /\ (art.fin = <<Clean, Clean>> => art.guard = head)
    /\ pc \in {"review", "reviewing"} => Now(art) /\ art.commit = head /\ code = head
Resumable ==
    pc \in {"queued", "starting"} /\ stage = "verification" =>
        stored # None /\ stored.status = "verified"
Evidence == Found /\ Working /\ Resumable

\* What keeps the results, the guard and what they verified stays sound.
SameFinding(b, a) ==
    /\ b.checks = a.checks /\ b.guard = a.guard
    /\ b.status = "verified" => a.status = "verified" /\ b.commit = a.commit

LEMMA FoundStays ==
  ASSUME NEW a, NEW b, Sound(a), SameFinding(b, a) PROVE Sound(b)
  BY DEF Sound, SameFinding

LEMMA FoundNext ==
  ASSUME Found, NEW a, Sound(a), art' = a, point' \in {point, a}, stored' \in {stored, a}
  PROVE  Found'
  BY DEF Found, Sound

LEMMA SameNotes ==
  ASSUME NEW a, IsSite(a)
  PROVE  /\ \A s \in {"running", "failed"} : SameFinding([a EXCEPT !.status = s], a)
         /\ \A x : SameFinding([a EXCEPT !.exhausted = x], a)
         /\ \A x : SameFinding([a EXCEPT !.verdict = x], a)
         /\ \A x : SameFinding([a EXCEPT !.evidence = x], a)
         /\ \A x : SameFinding([a EXCEPT !.fin = x], a)
         /\ \A x : SameFinding([a EXCEPT !.fixed = x], a)
  BY DEF IsSite, Site, SameFinding

\* The end of a round leaves what was found.
LEMMA EvidenceAtEnd ==
  ASSUME NEW a, NEW last, FailWith(a, last), Found,
         a # None => Sound(a), last # None => Sound(last)
  PROVE  Evidence'
<1>1. /\ art' = None /\ pc' \in {"cancelled", "paused"} /\ point' = last
      /\ stored' \in {stored, a}
  BY DEF FailWith, Forget
<1>2. Found'
  BY <1>1 DEF Found, Sound
<1>3. pc' \notin InRound /\ pc' \notin Coding \cup {"recheck", "queued", "starting"}
  BY <1>1 DEF InRound, Coding
<1> QED BY <1>2, <1>3 DEF Evidence, Working, Resumable, InRound, Coding

LEMMA EvidenceAtFail ==
  ASSUME NEW a, IsSite(a), Sound(a), Found, Fail(a)
  PROVE  Evidence'
<1> DEFINE b == [a EXCEPT !.status = "failed"]
<1>1. Sound(b)
  BY SameNotes, FoundStays
<1> HIDE DEF b
<1>2. FailWith(b, b)
  BY DEF Fail, b
<1> QED BY <1>1, <1>2, EvidenceAtEnd

LEMMA Sounds ==
  ASSUME TypeOK, Alive, Evidence, pc \in InRound PROVE IsSite(art) /\ Sound(art) /\ Found
  BY InSite DEF Evidence, Found

\* A round in which nothing but the notes on the site changes.
LEMMA EvidenceGoesOn ==
  ASSUME TypeOK, Alive, Evidence, pc \in InRound \ {"finalize", "committed"},
         pc' \in InRound \ {"finalize", "committed", "recheck", "review", "reviewing"},
         pc' = "site" => stage' # "verification",
         art' # None, SameFinding(art', art), point' \in {point, art'}, UNCHANGED <<stored, head>>,
         pc' \in Coding => art'.status = "running"
  PROVE  Evidence'
<1>1. Sound(art)
  BY Sounds
<1>2. Sound(art')
  BY <1>1, FoundStays
<1>3. Found'
  BY <1>2 DEF Evidence, Found, Sound
<1>4. art'.guard = head'
  BY DEF Evidence, Working, SameFinding
<1> QED BY <1>3, <1>4 DEF Evidence, Working, Resumable, InRound, Coding

\* The results of a run over the checks tell what the content is.
LEMMA ResultsSound ==
  ASSUME TypeOK, IsSite(art), Sound(art), art.guard = head,
         NEW rs \in Results(art.checks, Signature)
  PROVE  /\ rs \in Seq(Result) /\ Len(rs) \in 1 .. Checks
         /\ \A i \in DOMAIN rs : /\ rs[i].sig = Signature
                                 /\ rs[i].ran = code
         /\ code = IF Signature = <<Clean, Clean>> THEN head ELSE Signature[2]
         /\ ~Failed(rs) => /\ Len(rs) = Checks
                           /\ \A i \in DOMAIN rs : rs[i].ok /\ rs[i].rev = rev /\ rs[i].env = env
<1>1. art.checks \in Seq(Result)
  BY DEF IsSite, Site
<1>2. Signature \in Sigs
  BY SignatureIs
<1>3. /\ rs \in Seq(Result) /\ Len(rs) \in 1 .. Checks
      /\ \A i \in 1 .. Len(rs) :
           /\ rs[i].sig = Signature
           /\ \/ rs[i].ran = code /\ rs[i].rev = rev /\ rs[i].env = env
              \/ i \in 1 .. Len(art.checks) /\ rs[i] = art.checks[i] /\ Reusable(art.checks[i], Signature)
      /\ ~Failed(rs) => Len(rs) = Checks /\ \A i \in 1 .. Len(rs) : rs[i].ok
  BY <1>1, <1>2, ResultsAre
<1>4. code = IF Signature = <<Clean, Clean>> THEN head ELSE Signature[2]
  <2>1. head # Clean /\ code # Clean
    BY Kinds DEF TypeOK
  <2>2. CASE code = head
    BY <2>2 DEF Signature
  <2>3. CASE code # head
    <3>1. Signature = <<head, code>> /\ Signature # <<Clean, Clean>>
      BY <2>1, <2>3 DEF Signature
    <3> QED BY <3>1
  <2> QED BY <2>2, <2>3
<1>5. DOMAIN rs = 1 .. Len(rs) /\ DOMAIN art.checks = 1 .. Len(art.checks)
  BY <1>1, <1>3, LenProperties
<1>6. ASSUME NEW i \in 1 .. Len(rs)
      PROVE  /\ rs[i].sig = Signature /\ rs[i].ran = code
             /\ rs[i].ok => rs[i].rev = rev /\ rs[i].env = env
  <2>1. CASE rs[i].ran = code /\ rs[i].rev = rev /\ rs[i].env = env
    BY <1>3, <2>1
  <2>2. CASE i \in 1 .. Len(art.checks) /\ rs[i] = art.checks[i] /\ Reusable(art.checks[i], Signature)
    <3>1. art.checks[i].ran = IF Signature = <<Clean, Clean>> THEN head ELSE Signature[2]
      BY <1>5, <2>2 DEF Sound, Reusable
    <3> QED BY <1>4, <2>2, <3>1 DEF Reusable
  <2> QED BY <1>3, <2>1, <2>2
<1> QED BY <1>3, <1>4, <1>5, <1>6

LEMMA EnterProves ==
  ASSUME TypeOK, Alive, Writes, Evidence, Enter PROVE Evidence'
<1>0. Found
  BY DEF Evidence
<1>1. CASE Claim
  BY <1>1 DEF Claim, Evidence, Found, Working, Resumable, InRound, Coding, round
<1>2. CASE BudgetStop
  <2>1. Sound([stored EXCEPT !.exhausted = TRUE])
    <3>1. stored # None
      BY <1>2, StopHasSite
    <3>2. IsSite(stored) /\ Sound(stored)
      BY <1>0, <3>1, SiteIs DEF TypeOK, Found
    <3> QED BY <3>2, SameNotes, FoundStays
  <2> QED BY <1>0, <1>2, <2>1, EvidenceAtEnd DEF BudgetStop, Found
<1>3. CASE Unreachable \/ CancelledBeforeOpen
  BY <1>0, <1>3, EvidenceAtEnd DEF Unreachable, CancelledBeforeOpen, Refuse, Found
<1>4. CASE Open
  <2> DEFINE site == IF stored = None THEN Empty ELSE [stored EXCEPT !.verdict = "none"]
  <2>1. IsSite(site)
    BY EmptySite, SiteIs, Noted DEF TypeOK
  <2>2. Sound(site) /\ site.guard = head
    <3>1. CASE stored = None
      <4>1. head = 0
        BY <1>4, <3>1 DEF Open, Alive
      <4> QED BY <3>1, <4>1 DEF Empty, Sound
    <3>2. CASE stored # None
      <4>1. IsSite(stored) /\ Sound(stored) /\ stored.guard = head
        BY <1>0, <1>4, <3>2, SiteIs DEF TypeOK, Found, Open, SiteMoved
      <4>2. SameFinding([stored EXCEPT !.verdict = "none"], stored)
        BY <4>1, SameNotes
      <4> QED BY <3>2, <4>1, <4>2, FoundStays DEF SameFinding
    <3> QED BY <3>1, <3>2
  <2>3. stage = "verification" => \A i \in DOMAIN site.checks : site.checks[i].ran = site.commit
    <3> SUFFICES ASSUME stage = "verification"
                 PROVE  \A i \in DOMAIN site.checks : site.checks[i].ran = site.commit
      OBVIOUS
    <3>1. stored # None /\ stored.status = "verified"
      BY <1>4 DEF Open, Evidence, Resumable
    <3>2. IsSite(stored) /\ Sound(stored)
      BY <1>0, <3>1, SiteIs DEF TypeOK, Found
    <3>3. site.checks = stored.checks /\ site.commit = stored.commit
      BY <3>1, <3>2 DEF IsSite, Site
    <3> QED BY <3>1, <3>2, <3>3 DEF Sound
  <2>4. /\ art' = [site EXCEPT !.status = "running",
                               !.reserve = IF stage = "coding" THEN Kept(Left) ELSE @]
        /\ point' = art' /\ pc' = "site" /\ UNCHANGED <<stored, head, stage>>
    BY <1>4 DEF Open, disk
  <2> HIDE DEF site
  <2>5. /\ art'.checks = site.checks /\ art'.guard = site.guard /\ art'.commit = site.commit
        /\ art'.status = "running"
    BY <2>1, <2>4 DEF IsSite, Site
  <2>6. Sound(art')
    BY <2>2, <2>5, FoundStays DEF SameFinding
  <2>7. Found'
    BY <1>0, <2>4, <2>6, FoundNext
  <2> QED BY <2>2, <2>3, <2>4, <2>5, <2>7 DEF Evidence, Working, Resumable, InRound, Coding
<1>5. CASE EnterStage
  <2>1. pc = "site" /\ IsSite(art) /\ Sound(art) /\ art # None /\ UNCHANGED disk
    BY <1>5, Sounds, InSite DEF EnterStage, InRound
  <2>2. CASE Fail(art)
    BY <1>0, <2>1, <2>2, EvidenceAtFail
  <2>3. CASE ~Fail(art) /\ pc' = "recheck"
    <3>1. /\ UNCHANGED <<art, point, stored, round, disk>> /\ stage = "verification"
          /\ art.commit = head /\ code = head
      BY <1>5, <2>1, <2>3, StageEntered
    <3>2. Found'
      BY <1>0, <3>1 DEF Found, Sound
    <3> QED BY <2>1, <2>3, <3>1, <3>2 DEF Evidence, Working, Resumable, InRound, Coding, disk, round
  <2>4. CASE ~Fail(art) /\ pc' # "recheck"
    <3>1. /\ UNCHANGED <<point, stored, head>> /\ pc' \in {"coding", "checks"}
          /\ art' \in {art, [art EXCEPT !.fin = NoFin]}
      BY <1>5, <2>1, <2>4, StageEntered DEF disk
    <3>2. SameFinding(art', art) /\ art'.status = art.status
      BY <2>1, <3>1, SameNotes DEF SameFinding, IsSite, Site
    <3>3. art' # None
      <4>1. IsSite([art EXCEPT !.fin = NoFin])
        BY <2>1, Noted
      <4> QED BY <2>1, <3>1, <4>1, Others DEF IsSite
    <3>4. art.status = "running"
      BY <2>1 DEF Evidence, Working, Coding
    <3> QED BY <2>1, <3>1, <3>2, <3>3, <3>4, EvidenceGoesOn DEF InRound
  <2> QED BY <2>2, <2>3, <2>4
<1>6. CASE RecheckPasses
  <2>1. pc = "recheck" /\ IsSite(art) /\ Sound(art) /\ art.checks # <<>> /\ art.guard = head
        /\ art.commit = head /\ code = head
        /\ \A i \in DOMAIN art.checks : art.checks[i].ran = art.commit
    BY <1>6, Sounds DEF RecheckPasses, InRound, Alive, Evidence, Working
  <2>2. art.checks \in Seq(Result) /\ art.checks[1].sig \in Sigs /\ 1 \in DOMAIN art.checks
    <3>1. art.checks \in Seq(Result)
      BY <2>1 DEF IsSite, Site
    <3>2. art.checks[1] \in Result /\ 1 \in DOMAIN art.checks
      BY <2>1, <3>1, EmptySeq, ElementOfSeq, LenProperties
    <3> QED BY <3>1, <3>2 DEF Result, Sigs
  <2>3. PICK rs \in Rechecks :
          /\ ~Failed(rs) /\ pc' = "review"
          /\ art' = [art EXCEPT !.checks = rs, !.status = "verified"] /\ point' = art'
          /\ UNCHANGED <<stored, round, disk, world>>
    BY <1>6 DEF RecheckPasses
  <2> DEFINE sig == art.checks[1].sig
  <2>4. head = IF sig = <<Clean, Clean>> THEN art.guard ELSE sig[2]
    BY <2>1, <2>2 DEF Sound
  <2> HIDE DEF sig
  <2>5. /\ rs \in Seq(Result) /\ Len(rs) = Checks
        /\ \A i \in 1 .. Len(rs) :
             /\ rs[i].ok /\ rs[i].sig = sig
             /\ \/ rs[i].ran = code /\ rs[i].rev = rev /\ rs[i].env = env
                \/ i \in 1 .. Len(art.checks) /\ rs[i] = art.checks[i] /\ Reusable(art.checks[i], sig)
    BY <2>2, <2>3, ResultsAre DEF Rechecks, sig
  <2>6. DOMAIN rs = 1 .. Len(rs) /\ DOMAIN art.checks = 1 .. Len(art.checks)
    BY <2>2, <2>5, LenProperties
  <2>7. \A i \in DOMAIN rs : /\ rs[i].ok /\ rs[i].sig = sig /\ rs[i].ran = head
                             /\ rs[i].rev = rev /\ rs[i].env = env
    BY <2>1, <2>5, <2>6 DEF Reusable
  <2>8. /\ art'.checks = rs /\ art'.guard = head /\ art'.commit = head /\ art'.status = "verified"
    BY <2>1, <2>3 DEF IsSite, Site
  <2>9. Sound(art')
    BY <2>1, <2>4, <2>7, <2>8 DEF Sound
  <2>10. Found'
    BY <1>0, <2>3, <2>9, FoundNext
  <2>11. Now(art)'
    BY <2>1, <2>3, <2>5, <2>7, <2>8 DEF Now, disk, world
  <2> QED BY <2>1, <2>3, <2>8, <2>10, <2>11 DEF Evidence, Working, Resumable, InRound, Coding, disk
<1>7. CASE RecheckFails
  <2>1. IsSite(art) /\ Sound(art)
    BY <1>7, Sounds DEF RecheckFails, InRound
  <2> QED BY <1>0, <1>7, <2>1, EvidenceAtFail DEF RecheckFails
<1> QED BY <1>1, <1>2, <1>3, <1>4, <1>5, <1>6, <1>7 DEF Enter

LEMMA CodeProves ==
  ASSUME TypeOK, Alive, Evidence, Code \/ Answer \/ CommandSucceeds PROVE Evidence'
<1>1. /\ pc \in {"coding", "call"} /\ IsSite(art) /\ Sound(art) /\ Found /\ art.status = "running"
      /\ art # None /\ stage = "coding" /\ head' = head
  <2>1. pc \in {"coding", "call"} /\ head' = head
    BY DEF Code, CodingCancelled, CodingBlocked, Dispatch, Answer, CallReturns, Reconnect,
           CallExhausted, CallFails, CallEnds, CommandSucceeds, disk
  <2>2. pc \in InRound /\ pc \in Coding
    BY <2>1 DEF InRound, Coding
  <2> QED BY <2>1, <2>2, Sounds, InSite DEF Evidence, Working, Alive
<1>2. IsSite([art EXCEPT !.exhausted = TRUE]) /\ Sound([art EXCEPT !.exhausted = TRUE])
  BY <1>1, Noted, SameNotes, FoundStays
<1>3. CASE CodingCancelled \/ CodingBlocked \/ CallFails \/ (CallExhausted /\ ~Charged)
  BY <1>1, <1>2, <1>3, EvidenceAtFail DEF CodingCancelled, CodingBlocked, CallFails, CallExhausted
<1>4. CASE Dispatch
  <2>1. /\ art' = [art EXCEPT !.exhausted = FALSE,
                              !.evidence = IF @ = "none" THEN @ ELSE "earlier"]
        /\ point' = art' /\ pc' = "call" /\ stored' = stored
    BY <1>4 DEF Dispatch
  <2>2. SameFinding(art', art) /\ art'.status = "running"
    BY <1>1, <2>1 DEF IsSite, Site, SameFinding
  <2>3. IsSite(art')
    BY <1>1, <2>1 DEF IsSite, Site
  <2>4. art' # None
    BY <2>3, Others DEF IsSite
  <2> QED BY <1>1, <2>1, <2>2, <2>4, EvidenceGoesOn DEF InRound
<1>5. CASE CommandSucceeds
  <2>1. /\ art' = [art EXCEPT !.evidence = "now"] /\ point' = art' /\ pc = "call" /\ pc' = "call"
        /\ stored' = stored
    BY <1>5 DEF CommandSucceeds
  <2>2. SameFinding(art', art) /\ art'.status = "running"
    BY <1>1, <2>1 DEF IsSite, Site, SameFinding
  <2>3. IsSite(art')
    BY <1>1, <2>1, Noted
  <2>4. art' # None
    BY <2>3, Others DEF IsSite
  <2> QED BY <1>1, <2>1, <2>2, <2>4, EvidenceGoesOn DEF InRound
<1>6. CASE CallReturns \/ Reconnect \/ (CallExhausted /\ Charged)
  <2>1. art' = art /\ point' = art /\ stored' = stored
    BY <1>6 DEF CallReturns, Reconnect, Charged
  <2>2. pc' \in {"checks", "coding"}
    <3>1. art' # None
      BY <1>1, <2>1
    <3>2. CASE CallExhausted
      BY <3>1, <3>2 DEF CallExhausted, Fail, FailWith, Forget
    <3> QED BY <1>6, <3>2 DEF CallReturns, Reconnect
  <2>3. SameFinding(art', art)
    BY <2>1 DEF SameFinding
  <2> QED BY <1>1, <2>1, <2>2, <2>3, EvidenceGoesOn DEF InRound
<1> QED BY <1>3, <1>4, <1>5, <1>6 DEF Code, Answer

LEMMA CheckProves ==
  ASSUME TypeOK, Alive, Evidence, Check PROVE Evidence'
<1>1. /\ pc = "checks" /\ IsSite(art) /\ Sound(art) /\ Found /\ art.status = "running"
      /\ art # None /\ art.guard = head
  <2>1. pc = "checks"
    BY DEF Check, ChecksPass, ChecksFail, ChecksWrite
  <2> QED BY <2>1, Sounds, InSite DEF Evidence, Working, InRound, Coding
<1>2. ASSUME NEW rs \in Results(art.checks, Signature)
      PROVE  /\ IsSite(Checked(rs)) /\ Sound(Checked(rs)) /\ Checked(rs).status = "running"
             /\ Checked(rs).guard = head /\ Checked(rs).checks = rs
  <2>1. /\ rs \in Seq(Result) /\ Len(rs) <= Checks
        /\ \A i \in DOMAIN rs : rs[i].sig = Signature /\ rs[i].ran = code
        /\ code = IF Signature = <<Clean, Clean>> THEN head ELSE Signature[2]
    BY <1>1, ResultsSound
  <2>2. IsSite(Checked(rs))
    BY <1>1, <2>1, Noted DEF Checked
  <2>3. /\ Checked(rs).checks = rs /\ Checked(rs).guard = head /\ Checked(rs).status = "running"
    BY <1>1 DEF Checked, IsSite, Site
  <2> QED BY <2>1, <2>2, <2>3 DEF Sound
<1>3. CASE ChecksPass
  <2>1. PICK rs \in Results(art.checks, Signature) :
          /\ ~Failed(rs)
          /\ art' = [Checked(rs) EXCEPT !.fin = Signature,
                                        !.exhausted = @ /\ stage # "budget_finalization"]
    BY <1>3 DEF ChecksPass
  <2> DEFINE a == Checked(rs)
  <2>2. /\ IsSite(a) /\ Sound(a) /\ a.status = "running" /\ a.guard = head /\ a.checks = rs
        /\ art' = [a EXCEPT !.fin = Signature,
                            !.exhausted = @ /\ stage # "budget_finalization"]
    BY <1>2, <2>1
  <2> HIDE DEF a
  <2>3. /\ art'.checks = rs /\ art'.guard = head /\ art'.status = "running" /\ art'.fin = Signature
    BY <2>2 DEF IsSite, Site
  <2>4. Sound(art')
    BY <2>2, <2>3, FoundStays DEF SameFinding
  <2>5. /\ pc' = "finalize" /\ point' \in {point, art'}
        /\ UNCHANGED <<stored, round, disk, world>>
    BY <1>3 DEF ChecksPass
  <2>6. Found'
    BY <1>1, <2>4, <2>5, FoundNext
  <2>7. /\ Len(rs) = Checks
        /\ \A i \in DOMAIN rs : /\ rs[i].ok /\ rs[i].rev = rev /\ rs[i].env = env
                                /\ rs[i].sig = Signature /\ rs[i].ran = code
    BY <1>1, <2>1, ResultsSound
  <2>8. Now(art)' /\ Signature' = Signature
    BY <2>3, <2>5, <2>7 DEF Now, Signature, disk, world
  <2> QED BY <2>3, <2>5, <2>6, <2>7, <2>8
          DEF Evidence, Working, Resumable, InRound, Coding, disk
<1>4. CASE ChecksFail
  <2>1. PICK rs \in Results(art.checks, Signature) :
          IF MayRepairChecks
          THEN /\ pc' = "coding" /\ art' = Checked(rs) /\ point' = art'
               /\ repairs' = repairs + 1
               /\ UNCHANGED <<stored, stage, reconnects, reviews, allowance, ceiling>>
          ELSE Fail([Checked(rs) EXCEPT !.exhausted = @ \/ stage = "budget_stop"])
    BY <1>4 DEF ChecksFail
  <2> DEFINE a == Checked(rs)
  <2>2. IsSite(a) /\ Sound(a) /\ a.status = "running" /\ a.guard = head
    BY <1>2
  <2>3. CASE MayRepairChecks
    <3>1. /\ pc' = "coding" /\ art' = a /\ point' = a /\ UNCHANGED <<stored, head, stage>>
      BY <1>4, <2>1, <2>3 DEF ChecksFail, disk
    <3> HIDE DEF a
    <3>2. Found'
      BY <1>1, <2>2, <3>1, FoundNext
    <3> QED BY <2>2, <3>1, <3>2 DEF Evidence, Working, Resumable, InRound, Coding
  <2>4. CASE ~MayRepairChecks
    <3>1. Fail([a EXCEPT !.exhausted = @ \/ stage = "budget_stop"])
      BY <2>1, <2>4
    <3> HIDE DEF a
    <3>2. IsSite([a EXCEPT !.exhausted = @ \/ stage = "budget_stop"])
      BY <2>2 DEF IsSite, Site
    <3>3. Sound([a EXCEPT !.exhausted = @ \/ stage = "budget_stop"])
      BY <2>2, SameNotes, FoundStays
    <3> QED BY <1>1, <3>1, <3>2, <3>3, EvidenceAtFail
  <2> QED BY <2>3, <2>4
<1>5. CASE ChecksWrite
  <2>1. PICK rs \in Results(art.checks, Signature) : Fail(Checked(rs))
    BY <1>5 DEF ChecksWrite
  <2> QED BY <1>1, <1>2, <2>1, EvidenceAtFail
<1> QED BY <1>3, <1>4, <1>5 DEF Check

LEMMA FinalizeProves ==
  ASSUME TypeOK, Alive, Evidence, Finalize PROVE Evidence'
<1>1. /\ pc \in {"finalize", "committed"} /\ IsSite(art) /\ Sound(art) /\ Found
      /\ art.status = "running" /\ Now(art) /\ \A i \in DOMAIN art.checks : art.checks[i].sig = art.fin
  <2>1. pc \in {"finalize", "committed"}
    BY DEF Finalize, FinalizeRefused, Commit, RollBack, Record
  <2>2. pc \in InRound /\ pc \in Coding
    BY <2>1 DEF InRound, Coding
  <2> QED BY <2>1, <2>2, Sounds DEF Evidence, Working
<1>2. CASE FinalizeRefused \/ RollBack
  BY <1>1, <1>2, EvidenceAtFail DEF FinalizeRefused, RollBack
<1>3. CASE Commit
  <2>1. /\ pc = "finalize" /\ pc' = "committed"
        /\ head' = IF art.fin = <<Clean, Clean>> THEN head ELSE code
        /\ UNCHANGED <<round, art, point, stored, code, world>>
    BY <1>3 DEF Commit
  <2>2. art.fin = Signature /\ art.guard = head
    BY <2>1 DEF Evidence, Working, InRound
  <2>3. head' = code /\ (art.fin = <<Clean, Clean>> => art.guard = head')
    <3>1. CASE code = head
      BY <2>1, <2>2, <3>1
    <3>2. CASE code # head
      <4>1. art.fin = <<head, code>> /\ code # Clean
        BY <2>2, <3>2, Kinds DEF Signature, TypeOK
      <4>2. art.fin # <<Clean, Clean>>
        BY <4>1
      <4> QED BY <2>1, <4>2
    <3> QED BY <3>1, <3>2
  <2>4. Found' /\ Now(art)'
    BY <1>1, <2>1 DEF Found, Sound, Now, world
  <2> QED BY <1>1, <2>1, <2>3, <2>4 DEF Evidence, Working, Resumable, InRound, Coding
<1>4. CASE Record
  <2>1. pc = "committed" /\ code = head
    BY <1>4 DEF Record, Evidence, Working
  <2>2. /\ pc' = "review" /\ art' = Recorded /\ point' = art'
        /\ UNCHANGED <<stored, disk, world>>
    BY <1>4, <2>1 DEF Record
  <2>3. /\ Recorded.checks = art.checks /\ Recorded.guard = head
        /\ Recorded.commit = head /\ Recorded.status = "verified"
    BY <1>1 DEF Recorded, IsSite, Site
  <2>4. Sound(Recorded)
    <3>1. \A i \in DOMAIN art.checks : art.checks[i].ran = head
      BY <1>1, <2>1 DEF Now
    <3> QED BY <1>1, <2>3, <3>1 DEF Sound
  <2>5. Found'
    BY <1>1, <2>2, <2>4, FoundNext
  <2>6. Now(art)'
    BY <1>1, <2>2, <2>3 DEF Now, disk, world
  <2> QED BY <2>1, <2>2, <2>3, <2>5, <2>6 DEF Evidence, Working, Resumable, InRound, Coding, disk
<1> QED BY <1>2, <1>3, <1>4 DEF Finalize

LEMMA JudgeProves ==
  ASSUME TypeOK, Alive, Evidence, Judge \/ Mend PROVE Evidence'
<1>1. /\ pc \in {"review", "reviewing", "repair", "reopen"} /\ pc \in InRound /\ art # None
      /\ IsSite(art) /\ Sound(art) /\ Found /\ art.guard = head
  <2>1. pc \in {"review", "reviewing", "repair", "reopen"}
    BY DEF Judge, ReviewRefused, Review, ReviewAgain, ReviewPasses, ReviewFails,
           ReviewRejects, Mend, RepairUnfunded, Repair, ReopenRefused, Reopen
  <2>2. pc \in InRound /\ pc # "committed"
    BY <2>1 DEF InRound
  <2> QED BY <2>1, <2>2, Sounds, InSite DEF Evidence, Working
<1>2. Sound([art EXCEPT !.exhausted = TRUE])
  BY <1>1, SameNotes, FoundStays
<1>3. ASSUME NEW a, FailWith(a, point), Sound(a) PROVE Evidence'
  BY <1>1, <1>3, EvidenceAtEnd DEF Found
<1>4. CASE ReviewRefused \/ RepairUnfunded
  BY <1>1, <1>2, <1>3, <1>4 DEF ReviewRefused, RepairUnfunded
<1>5. CASE ReopenRefused
  BY <1>1, <1>5, EvidenceAtEnd DEF ReopenRefused, Refuse, Found
<1>6. CASE Review \/ ReviewAgain
  <2>1. /\ pc \in {"review", "reviewing"} /\ pc' \in {"review", "reviewing"}
        /\ UNCHANGED <<art, point, stored, disk, world>>
    BY <1>6 DEF Review, ReviewAgain
  <2>2. Found' /\ (Now(art) => Now(art)')
    BY <1>1, <2>1 DEF Found, Sound, Now, disk, world
  <2>3. pc' \in {"review", "reviewing"} => art'.guard = head' /\ art'.commit = head' /\ code' = head'
    BY <1>1, <2>1 DEF Evidence, Working, disk
  <2>4. Now(art)'
    BY <2>1, <2>2 DEF Evidence, Working
  <2> QED BY <2>1, <2>2, <2>3, <2>4 DEF Evidence, Working, Resumable, InRound, Coding
<1>7. CASE ReviewPasses
  <2> DEFINE a == [art EXCEPT !.verdict = "pass"]
  <2>1. /\ art' = None /\ point' = point /\ pc' \in {"cancelled", "delivered"}
        /\ stored' \in {stored, a}
    BY <1>7 DEF ReviewPasses, Forget
  <2>2. Sound(a)
    BY <1>1, SameNotes, FoundStays
  <2> HIDE DEF a
  <2>3. Found'
    BY <1>1, <2>1, <2>2 DEF Found, Sound
  <2> QED BY <2>1, <2>3 DEF Evidence, Working, Resumable, InRound, Coding
<1>8. CASE ReviewFails
  <2>1. PICK verdict \in {"none", "error"}, exhausted \in BOOLEAN :
          FailWith([art EXCEPT !.verdict = verdict, !.exhausted = @ \/ exhausted], point)
    BY <1>8 DEF ReviewFails
  <2>2. SameFinding([art EXCEPT !.verdict = verdict, !.exhausted = @ \/ exhausted], art)
    BY <1>1 DEF IsSite, Site, SameFinding
  <2> QED BY <1>1, <1>3, <2>1, <2>2, FoundStays
<1>9. CASE ReviewRejects
  <2> DEFINE a == [art EXCEPT !.verdict = "fail"]
  <2>1. SameFinding(a, art) /\ IsSite(a)
    BY <1>1, SameNotes, Noted
  <2>2. Sound(a)
    BY <1>1, <2>1, FoundStays
  <2>3. \/ FailWith(a, point)
        \/ pc' = "repair" /\ art' = a /\ UNCHANGED <<point, stored, round, disk>>
    BY <1>9 DEF ReviewRejects
  <2> HIDE DEF a
  <2>4. CASE FailWith(a, point)
    BY <1>3, <2>2, <2>4
  <2>5. CASE pc' = "repair" /\ art' = a /\ UNCHANGED <<point, stored, round, disk>>
    <3>1. art' # None
      BY <2>1, <2>5, Others DEF IsSite
    <3> QED BY <1>1, <2>1, <2>5, <3>1, EvidenceGoesOn DEF InRound, Coding, disk
  <2> QED BY <2>3, <2>4, <2>5
<1>10. CASE Repair
  <2> DEFINE a == [art EXCEPT !.fixed = 1]
  <2>1. SameFinding(a, art) /\ IsSite(a)
    BY <1>1, SameNotes, Noted
  <2>2. pc' = "reopen" /\ art' = a /\ point' = a /\ UNCHANGED <<stored, disk>>
    BY <1>10 DEF Repair
  <2> HIDE DEF a
  <2>3. a # None
    BY <2>1, Others DEF IsSite
  <2> QED BY <1>1, <2>1, <2>2, <2>3, EvidenceGoesOn DEF InRound, Coding, disk
<1>11. CASE Reopen
  <2>1. /\ art' = [art EXCEPT !.status = "running", !.verdict = "none", !.reserve = Reserve(Left)]
        /\ pc' = "site" /\ stage' = "coding" /\ point' = art' /\ UNCHANGED <<stored, disk>>
    BY <1>11 DEF Reopen
  <2>2. SameFinding(art', art) /\ art'.status = "running"
    BY <1>1, <2>1 DEF IsSite, Site, SameFinding
  <2>3. Sound(art')
    BY <1>1, <2>2, FoundStays
  <2>4. Found'
    BY <1>1, <2>1, <2>3, FoundNext
  <2> QED BY <1>1, <2>1, <2>2, <2>4
          DEF Evidence, Working, Resumable, InRound, Coding, disk, SameFinding
<1> QED BY <1>4, <1>5, <1>6, <1>7, <1>8, <1>9, <1>10, <1>11 DEF Judge, Mend

LEMMA OutsideProves ==
  ASSUME TypeOK, Alive, Writes, Evidence,
         Edit \/ WriterExits \/ Cancel \/ CancelItself \/ Continue \/ Crash \/ ToolsChange
  PROVE  Evidence'
<1>0. Found /\ IsArt(stored) /\ IsArt(point)
  BY DEF Evidence, TypeOK
<1>1. CASE Edit
  <2>1. pc = "call" \/ pc \notin InRound
    BY <1>1 DEF Edit, Writes
  <2>2. UNCHANGED <<pc, round, art, point, stored, head, world>>
    BY <1>1 DEF Edit
  <2>3. Found'
    BY <1>0, <2>2 DEF Found, Sound
  <2> QED BY <2>1, <2>2, <2>3 DEF Evidence, Working, Resumable, InRound, Coding, round
<1>2. CASE WriterExits \/ CancelItself
  <2>1. UNCHANGED <<pc, round, art, point, stored, disk, world>>
    BY <1>2 DEF WriterExits, CancelItself
  <2>2. Found' /\ (Now(art) => Now(art)') /\ Signature' = Signature
    BY <1>0, <2>1 DEF Found, Sound, Now, Signature, disk, world
  <2> QED BY <2>1, <2>2 DEF Evidence, Working, Resumable, InRound, Coding, round, disk
<1>3. CASE Cancel
  <2>1. UNCHANGED <<round, art, point, stored, disk, world>> /\ pc' \in {pc, "cancelled"}
    BY <1>3 DEF Cancel
  <2>2. Found' /\ (Now(art) => Now(art)') /\ Signature' = Signature
    BY <1>0, <2>1 DEF Found, Sound, Now, Signature, disk, world
  <2>3. CASE pc' = pc
    BY <2>1, <2>2, <2>3 DEF Evidence, Working, Resumable, InRound, Coding, round, disk
  <2>4. CASE pc' = "cancelled"
    BY <2>2, <2>4 DEF Evidence, Working, Resumable, InRound, Coding
  <2> QED BY <2>1, <2>3, <2>4
<1>4. CASE ToolsChange
  <2>1. UNCHANGED <<pc, round, art, point, stored, disk>> /\ pc \in {"paused", "queued"}
    BY <1>4 DEF ToolsChange
  <2>2. Found'
    BY <1>0, <2>1 DEF Found, Sound
  <2> QED BY <2>1, <2>2 DEF Evidence, Working, Resumable, InRound, Coding, round
<1>5. ASSUME NEW a, a # None, IsArt(a), ResumeStage(a) = "verification" PROVE a.status = "verified"
  BY <1>5 DEF ResumeStage
<1>6. CASE Continue
  <2>1. /\ pc' = "queued" /\ stored # None /\ stage' \in {ResumeStage(stored), "coding"}
        /\ UNCHANGED <<art, point, stored>>
    BY <1>6 DEF Continue
  <2>2. Found'
    BY <1>0, <2>1 DEF Found, Sound
  <2>3. stage' = "verification" => stored.status = "verified"
    BY <1>0, <1>5, <2>1
  <2> QED BY <2>1, <2>2, <2>3 DEF Evidence, Working, Resumable, InRound, Coding
<1>7. CASE Crash
  <2>1. art' = None /\ point' = point /\ stored' \in {stored, point}
    BY <1>7 DEF Crash
  <2>2. Found'
    BY <1>0, <2>1 DEF Found, Sound
  <2>3. \/ pc' \in {"cancelled", "paused"}
        \/ pc = "queued" /\ pc' = "queued" /\ stage' = stage /\ stored' = stored
        \/ /\ pc' = "queued" /\ stored' = point /\ point # None
           /\ stage' = ResumeStage(point)
    BY <1>7 DEF Crash
  <2>4. pc' \in {"cancelled", "paused", "queued"}
    BY <2>3
  <2>5. Working'
    BY <2>4 DEF Working, InRound, Coding
  <2>6. Resumable'
    BY <1>0, <1>5, <2>3 DEF Evidence, Resumable
  <2> QED BY <2>2, <2>5, <2>6 DEF Evidence
<1> QED BY <1>1, <1>2, <1>3, <1>4, <1>6, <1>7

LEMMA EvidenceStep ==
  ASSUME TypeOK, Alive, Writes, Evidence, [Next]_vars PROVE Evidence'
<1>1. CASE UNCHANGED vars
  <2>1. UNCHANGED <<pc, round, art, point, stored, disk, world>>
    BY <1>1 DEF vars
  <2>2. Found' /\ (Now(art) => Now(art)') /\ Signature' = Signature
    BY <2>1 DEF Evidence, Found, Sound, Now, Signature, disk, world
  <2> QED BY <2>1, <2>2 DEF Evidence, Working, Resumable, InRound, Coding, round, disk
<1>2. CASE Worker
  BY <1>2, EnterProves, CodeProves, CheckProves, FinalizeProves, JudgeProves DEF Worker
<1>3. CASE CommandSucceeds
  BY <1>3, CodeProves
<1>4. CASE Next /\ ~Worker /\ ~CommandSucceeds
  BY <1>4, OutsideProves DEF Next
<1> QED BY <1>1, <1>2, <1>3, <1>4

LEMMA EvidenceInit ==
  ASSUME Init PROVE Evidence
  BY DEF Init, Evidence, Found, Working, Resumable, InRound, Coding

\* Where nothing outlives its worker, what is reviewed and delivered is what
\* every configured check passed on, under this agreement and with these tools.
THEOREM CommitIsCovered ==
  ASSUME Lingers = FALSE PROVE Spec => []CommitCovered
<1>1. Init => TypeOK /\ Alive /\ Writes /\ Evidence
  BY RoundInit, WritesInit, EvidenceInit
<1>2. TypeOK /\ Alive /\ Writes /\ Evidence /\ [Next]_vars => (TypeOK /\ Alive /\ Writes /\ Evidence)'
  BY RoundStep, WritesStep, EvidenceStep
<1>3. TypeOK /\ Alive /\ Evidence => CommitCovered
  <2> SUFFICES ASSUME TypeOK, Alive, Evidence, pc \in {"review", "reviewing"}
               PROVE  /\ art.commit = head /\ code = head /\ Len(art.checks) = Checks
                      /\ \A i \in 1 .. Checks :
                           /\ art.checks[i].ok /\ art.checks[i].ran = head
                           /\ art.checks[i].rev = rev /\ art.checks[i].env = env
    BY DEF CommitCovered
  <2>1. Now(art) /\ art.commit = head /\ code = head
    BY DEF Evidence, Working
  <2>2. art.checks \in Seq(Result)
    BY InSite DEF InRound, IsSite, Site
  <2>3. DOMAIN art.checks = 1 .. Checks
    BY <2>1, <2>2, LenProperties DEF Now
  <2> QED BY <2>1, <2>3 DEF Now
<1> QED BY <1>1, <1>2, <1>3, PTL DEF Spec
=============================================================================
