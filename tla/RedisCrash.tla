----------------------------- MODULE RedisCrash -----------------------------
(***************************************************************************)
(* Delivery when Redis itself fails.  The compose file runs redis:7 with   *)
(* its default persistence, point-in-time snapshots and no append-only     *)
(* file, so a Redis that dies comes back with the stream and the consumer  *)
(* group as they were at the last snapshot.  The workers create the group  *)
(* only when they start.                                                   *)
(***************************************************************************)
EXTENDS Delivery

CONSTANT MaxRestarts  \* bound: restarts of Redis

VARIABLES
  group,     \* the consumer group exists
  snapshot,  \* the stream as the last snapshot recorded it
  stopping,  \* workers that end after the acknowledgement SIGTERM left them at
  restarts

redisVars == <<group, snapshot, stopping, restarts>>
crashVars == <<vars, redisVars>>

NoStream == [unread |-> {}, pel |-> {}, group |-> FALSE]

\* Workers call EnsureConsumerGroup before they start their loops; nothing
\* has been saved yet.
CrashInit ==
  /\ Init
  /\ group = TRUE /\ snapshot = NoStream
  /\ stopping = {} /\ restarts = 0

\* Bound: a snapshot no restart will read is left out.
BackgroundSave ==
  /\ restarts < MaxRestarts
  /\ snapshot' = [unread |-> unread, pel |-> pel, group |-> group]
  /\ UNCHANGED <<vars, group, stopping, restarts>>

\* Entry ids are timestamps: they are not reused after the restart.
RedisRestart ==
  /\ restarts < MaxRestarts /\ restarts' = restarts + 1
  /\ unread' = snapshot.unread
  /\ pel' = snapshot.pel
  /\ idle' = {}
  /\ group' = snapshot.group
  /\ UNCHANGED <<entrySeq, snapshot, stopping>>
  /\ UNCHANGED <<rowVars, outboxVars, consumerVars, dispatchVars, listed, budget>>

\* The process of w has ended and compose starts it again.  XGROUP CREATE
\* MKSTREAM from id 0: every record still in the stream is new.
EnsureConsumerGroup(w) ==
  /\ group' = TRUE
  /\ stopping' = stopping \ {w}
  /\ UNCHANGED <<snapshot, restarts>>

\* XAUTOCLAIM or XREADGROUP answers NOGROUP: consumeLoop logs, sleeps, retries.
ClaimWithoutGroup(w) ==
  /\ ~group
  /\ pc[w] \in {"idle", "read"}
  /\ Drop(w)
  /\ UNCHANGED <<rowVars, outboxVars, streamVars, dispatchVars, listed, budget, redisVars>>

\* After SIGTERM the acknowledgement is the last thing the process does.
EndOfAck(w) ==
  IF w \in stopping THEN EnsureConsumerGroup(w) ELSE UNCHANGED redisVars

\* Steps of Delivery that do not need the group, and those that do.
Processing(w) == TryStartSubmission(w) \/ FinishSubmissionConditional(w)
Claiming(w) == group /\ (ClaimStale(w) \/ Claim(w))

crashConsumeLoop(w) ==
  \/ (Processing(w) \/ Claiming(w)) /\ UNCHANGED redisVars
  \/ ClaimWithoutGroup(w)
  \/ Ack(w) /\ EndOfAck(w)

\* SIGTERM has ended the other two loops of a stopping worker.
crashOutboxLoop(w) == w \notin stopping /\ outboxLoop(w) /\ UNCHANGED redisVars
crashRecoveryLoop(w) == w \notin stopping /\ recoveryLoop(w) /\ UNCHANGED redisVars

\* The worker faults of Delivery.
CrashFault(w) ==
  \/ /\ \/ EnqueueFails(w) \/ DispatchRollback(w)
        \/ group /\ ClaimReplyLost(w)
        \/ TryStartFails(w) \/ FinishFails(w) \/ HardTimeout(w)
        \/ \E s \in Submissions : RecoverFails(w, s)
     /\ UNCHANGED redisVars
  \/ AckFails(w) /\ EndOfAck(w)
  \/ Crash(w) /\ EnsureConsumerGroup(w)
  \/ Shutdown(w) /\ stopping' = stopping \cup {w} /\ UNCHANGED <<group, snapshot, restarts>>

CrashNext ==
  \/ \E w \in Workers :
       crashConsumeLoop(w) \/ crashOutboxLoop(w) \/ crashRecoveryLoop(w) \/ CrashFault(w)
  \/ /\ \/ \E s \in Submissions : CreateSubmissionQueued(s)
        \/ Elapse
        \/ \E x \in Junk : ForeignEntry(x)
     /\ UNCHANGED redisVars
  \/ BackgroundSave
  \/ RedisRestart

CrashSpec == CrashInit /\ [][CrashNext]_crashVars

\* As in Delivery; snapshots and restarts are never owed.
CrashFairness ==
  /\ \A w \in Workers :
       /\ WF_crashVars(crashOutboxLoop(w))
       /\ WF_crashVars(crashConsumeLoop(w))
       /\ WF_crashVars(crashRecoveryLoop(w))
  /\ \A s \in Submissions :
       /\ WF_crashVars(Abandoned(s) /\ UNCHANGED redisVars)
       /\ WF_crashVars(BackoffEnds(s) /\ UNCHANGED redisVars)
  /\ \A x \in Submissions \cup Junk : WF_crashVars(EntryIdles(x) /\ UNCHANGED redisVars)

CrashFairSpec == CrashSpec /\ CrashFairness
=============================================================================
