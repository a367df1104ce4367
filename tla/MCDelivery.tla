---------------------------- MODULE MCDelivery ----------------------------
(* Small instances of Delivery.  All submissions belong to one participant, *)
(* so that the per-participant limits interfere with their delivery.       *)
EXTENDS Delivery, TLC

CONSTANT alice

MCOwner == [s \in Submissions |-> alice]

\* Workers run the same code and submissions of one owner are alike.  Used
\* for safety properties only.
MCSymmetry == Permutations(Workers) \cup Permutations(Submissions)
=============================================================================
