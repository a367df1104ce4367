--------------------------- MODULE MCOutboxTiming ---------------------------
(* A small instance of OutboxTiming: four-bit durations.                   *)
EXTENDS OutboxTiming, TLC

MCSymmetry == Permutations(Dispatchers)
=============================================================================
