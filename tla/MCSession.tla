----------------------------- MODULE MCSession -----------------------------
(* A small instance of Session: two tabs of one browser.                   *)
EXTENDS Session, TLC

MCSymmetry == Permutations(Tabs) \cup Permutations(Identities)
=============================================================================
