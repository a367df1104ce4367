---------------------------- MODULE MCRedisCrash ----------------------------
(* A small instance of RedisCrash. *)
EXTENDS RedisCrash

CONSTANT alice

MCOwner == [s \in Submissions |-> alice]
=============================================================================
