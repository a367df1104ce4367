---------------------------- MODULE MCAdmission ----------------------------
(* Small instances of Admission; the periods and rates are scaled down.    *)
EXTENDS Admission, TLC

CONSTANTS p1, p2, p3

Limit(min, hour, ip) == [min |-> min, hour |-> hour, ip |-> ip]

\* Two requests of one client race through the participant's limits, with
\* late calls and lost replies; there is no limit for addresses.
Racing ==
  [rate |-> Limit(2, 2, 0), period |-> Limit(4, 8, 4),
   clients |-> {p1}, patient |-> {}, parallel |-> 2,
   maxDelay |-> 1, maxLost |-> 1]

\* The same race where the minute is the tighter limit.
Bursting ==
  [rate |-> Limit(1, 4, 0), period |-> Limit(3, 4, 3),
   clients |-> {p1}, patient |-> {}, parallel |-> 2,
   maxDelay |-> 1, maxLost |-> 0]

\* Three clients, one of them patient, share an address and its limit.
Sharing ==
  [rate |-> Limit(1, 1, 2), period |-> Limit(2, 4, 2),
   clients |-> {p1, p2, p3}, patient |-> {p1}, parallel |-> 1,
   maxDelay |-> 0, maxLost |-> 0]

MCSettings == {Racing, Bursting, Sharing}
MCSymmetry == Permutations(Slots) \cup Permutations({p2, p3})
=============================================================================
