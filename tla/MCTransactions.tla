--------------------------- MODULE MCTransactions ---------------------------
(* A small instance of Transactions: bob owns s4 and s5, alice the others,  *)
(* so each alone stays below MaxActive and both together do not.           *)
EXTENDS Transactions

CONSTANTS s4, s5, alice, bob

MCOwner == [s \in Submissions |-> IF s \in {s4, s5} THEN bob ELSE alice]
=============================================================================
