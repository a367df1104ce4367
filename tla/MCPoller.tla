------------------------------ MODULE MCPoller ------------------------------
(* A small instance of Poller: the tabs show one submission.               *)
EXTENDS Poller

CONSTANTS s1, alice

MCOwner == [s \in Submissions |-> alice]

\* Two tabs that fit the limit, with a token to spare for a resent script;
\* two tabs and the tokens of one, with slow answers or with faults.
MCSettings ==
  {[rate |-> 3, maxPolls |-> 3, maxFaults |-> 1, maxDelay |-> 1],
   [rate |-> 1, maxPolls |-> 4, maxFaults |-> 0, maxDelay |-> 1],
   [rate |-> 1, maxPolls |-> 6, maxFaults |-> 2, maxDelay |-> 0]}

MCShows == [t \in Pages |-> s1]
=============================================================================
