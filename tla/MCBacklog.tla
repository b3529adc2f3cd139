----------------------------- MODULE MCBacklog -----------------------------
(* Instances of the backlog for TLC: c needs b needs a.                      *)
EXTENDS BacklogProperties

CONSTANTS a, b, c, w1, w2, h1, h2

Chain   == [t \in {a, b, c} |-> CASE t = a -> {} [] t = b -> {a} [] t = c -> {b}]
Free    == [t \in {a, b} |-> {}]
OneHost == [x \in {w1} |-> h1]
Pair    == [x \in {w1, w2} |-> h1]
Remote  == [x \in {w1, w2} |-> IF x = w1 THEN h1 ELSE h2]
=============================================================================
