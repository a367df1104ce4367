--------------------------- MODULE MCWorkerTiming ---------------------------
(* A small instance of WorkerTiming: the clock of worker w2 is ahead.  Two  *)
(* workers deal with one submission, or w2 with two undecided ones.        *)
EXTENDS WorkerTiming, TLC

CONSTANTS w2, alice

MCOwner == [s \in Submissions |-> alice]
MCSkew == [w \in Workers |-> IF w = w2 THEN 1 ELSE 0]

OneOrTheOther ==
  \/ Cardinality({s \in Submissions : row[s].status # "none"}) <= 1
  \/ /\ \A w \in Workers \ {w2} : worker[w] = Idle
     /\ Rows!Active = Submissions

Symmetric == Permutations(Submissions)
=============================================================================
