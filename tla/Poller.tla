------------------------------- MODULE Poller -------------------------------
(***************************************************************************)
(* The result page: pollResult in several tabs of one participant, the     *)
(* poll bucket the tabs share, the read behind it, and the rows moving     *)
(* underneath.  A page asks at most maxPolls times; refused and failed     *)
(* polls count.  When the limiter cannot be asked the poll is let through. *)
(***************************************************************************)
EXTENDS BucketScript, FiniteSets

CONSTANTS
  Submissions, Participants, Owner,
  MaxActive, MaxQueued, MaxRunning,  \* the limits, as in Lifecycle
  Pages,         \* tabs on /submissions/{id}
  Shows,         \* the submission each of them shows
  Settings,      \* limits on polls, each with the bounds of its case
  Minute,        \* the period of cfg.PollRatePerMinute
  pollInterval   \* 2000 ms

\* cfg.PollRatePerMinute, maxPolls (90), and bounds: how many calls and
\* answers fail, and how long a request takes.
ASSUME PollerAssumption ==
  /\ IsFiniteSet(Pages) /\ Shows \in [Pages -> Submissions]
  /\ {Minute, pollInterval} \subseteq Nat \ {0}
  /\ Settings \subseteq
       [rate : Nat \ {0}, maxPolls : Nat \ {0}, maxFaults : Nat, maxDelay : Nat]

VARIABLES
  setting, \* fixed when API and script start
  status,  \* submissions.status
  time,
  bucket,  \* rl:poll:<participant>
  page,    \* the script of each tab
  faults

pollerVars == <<setting, status, time, bucket, page, faults>>

Rate == setting.rate
maxPolls == setting.maxPolls
MaxFaults == setting.maxFaults
MaxDelay == setting.maxDelay

\* Workers and API move the rows as PostgreSQL promises.
Rows == INSTANCE Lifecycle

Closed == [at |-> "closed"]
Live == {t \in Pages : page[t].at \notin {"closed", "shown", "timeout", "silent"}}
Underway == {t \in Pages : page[t].at \in {"sent", "allowed", "answered"}}

PollerInit ==
  /\ setting \in Settings
  /\ Rows!LifecycleInit
  /\ time = 0
  /\ bucket = NoBucket
  /\ page = [t \in Pages |-> Closed]
  /\ faults = 0

Fault == faults < MaxFaults /\ faults' = faults + 1

-----------------------------------------------------------------------------
\* fetchStatus: one more poll.
Fetch(t, polls) ==
  page' = [page EXCEPT ![t] = [at |-> "sent", polls |-> polls, entered |-> time]]

\* handleSubmissionPage finds the row, and the page's script starts.
Open(t) ==
  /\ page[t] = Closed /\ status[Shows[t]] # "none"
  /\ Fetch(t, 1)
  /\ UNCHANGED <<setting, status, time, bucket, faults>>

fetchStatus(t) ==
  /\ page[t].at = "waiting" /\ page[t].due <= time
  /\ Fetch(t, page[t].polls + 1)
  /\ UNCHANGED <<setting, status, time, bucket, faults>>

\* handleGetSubmission: the bucket.
AllowPoll(t) ==
  /\ page[t].at = "sent"
  /\ \E now \in page[t].entered..time :
       LET answer == tokenBucket(bucket, Rate, Minute, now, time) IN
       /\ bucket' = answer.bucket
       /\ \/ /\ answer.retryAfter = 0
             /\ page' = [page EXCEPT ![t].at = "allowed"]
          \/ /\ answer.retryAfter > 0
             /\ page' = [page EXCEPT ![t] =
                  [at |-> "answered", polls |-> page[t].polls, entered |-> page[t].entered,
                   code |-> 429]]
  /\ UNCHANGED <<setting, status, time, faults>>

\* Redis fails, before or after the script ran, with the time it was given.
CallFails(t) ==
  /\ Fault /\ page[t].at = "sent"
  /\ \/ UNCHANGED bucket
     \/ \E now \in page[t].entered..time :
          bucket' = tokenBucket(bucket, Rate, Minute, now, time).bucket
  /\ UNCHANGED <<setting, status, time>>

\* go-redis sends the script again, and the poll may pay twice.
AllowPollResent(t) == CallFails(t) /\ UNCHANGED page

\* It gives up: "allowing".
AllowPollFails(t) == CallFails(t) /\ page' = [page EXCEPT ![t].at = "allowed"]

\* handleGetSubmission: the read, or a failed one.
GetSubmission(t) ==
  /\ page[t].at = "allowed"
  /\ \E code \in {200, 500} :
       /\ IF code = 200 THEN UNCHANGED faults ELSE Fault
       /\ page' = [page EXCEPT ![t] =
            [at |-> "answered", polls |-> page[t].polls, entered |-> page[t].entered,
             code |-> code, status |-> status[Shows[t]]]]
  /\ UNCHANGED <<setting, status, time, bucket>>

\* Mutant: the page asks again at once.
PauseShort(times) == 0

\* setTimeout: the normal pause, or twice as long.
Pause(times) == times * pollInterval

Wait(t, times) ==
  page' = [page EXCEPT ![t] =
    [at |-> "waiting", polls |-> page[t].polls, due |-> time + Pause(times)]]

\* Mutants: a started submission counts as decided; a failed one does not.
IsDecidedStarted(answer) == answer.code = 200 /\ answer.status # "queued"
IsDecidedFinished(answer) == answer.code = 200 /\ answer.status = "finished"

IsDecided(answer) ==
  answer.code = 200 /\ answer.status \in {"finished", "internal_error"}

\* displayResult, the next poll, or "polling timeout".
onload(t) ==
  /\ page[t].at = "answered"
  /\ \/ /\ IsDecided(page[t])
        /\ page' = [page EXCEPT ![t] = [at |-> "shown", result |-> page[t].status]]
     \/ /\ ~IsDecided(page[t]) /\ page[t].polls < maxPolls
        /\ Wait(t, 1)
     \/ /\ ~IsDecided(page[t]) /\ page[t].polls >= maxPolls
        /\ page' = [page EXCEPT ![t] = [at |-> "timeout"]]
  /\ UNCHANGED <<setting, status, time, bucket, faults>>

\* A request or its answer is lost; after the last poll nothing is said.
onerror(t) ==
  /\ Fault /\ t \in Underway
  /\ \/ page[t].polls < maxPolls /\ Wait(t, 2)
     \/ page[t].polls >= maxPolls /\ page' = [page EXCEPT ![t] = [at |-> "silent"]]
  /\ UNCHANGED <<setting, status, time, bucket>>

\* Somebody moves a row.
RowMoves == Rows!LifecycleNext /\ UNCHANGED <<setting, time, bucket, page, faults>>

\* Time passes while a script is alive; timers and answers are not late.
TimePasses ==
  /\ Live # {}
  /\ \A t \in Live :
       IF page[t].at = "waiting" THEN time < page[t].due
       ELSE time < page[t].entered + MaxDelay
  /\ time' = time + 1
  /\ UNCHANGED <<setting, status, bucket, page, faults>>

Step(t) == fetchStatus(t) \/ AllowPoll(t) \/ GetSubmission(t) \/ onload(t)

PollerNext ==
  \/ RowMoves
  \/ \E t \in Pages :
       Open(t) \/ Step(t) \/ AllowPollResent(t) \/ AllowPollFails(t) \/ onerror(t)
  \/ TimePasses

PollerSpec == PollerInit /\ [][PollerNext]_pollerVars

\* The browser fires its timers, the API answers, time passes.  Nobody has
\* to open a page, and no row has to move.
PollerFairSpec ==
  /\ PollerSpec
  /\ \A t \in Pages : WF_pollerVars(Step(t))
  /\ WF_pollerVars(TimePasses)

-----------------------------------------------------------------------------
(* Properties.                                                             *)

(***************************************************************************)
(* What the page shows is final (pollResult): the answer may be old when   *)
(* it arrives and recovery may have requeued the row since it was read,    *)
(* but a displayed result is the row's result from then on.                *)
(***************************************************************************)
ShownIsFinal ==
  \A t \in Pages : page[t].at = "shown" => status[Shows[t]] = page[t].result

\* Enough tokens grow back in a pollInterval, and the bucket holds one for
\* every tab and for every charge of a poll that was sent again.
TabsFit(resent) ==
  /\ Cardinality(Pages) * Interval(Rate, Minute) <= pollInterval
  /\ Cardinality(Pages) + resent <= Capacity(Rate)

(***************************************************************************)
(* The script obeys the limit it is subject to (pollInterval against       *)
(* PollRatePerMinute): as many tabs as tokens grow back in a pollInterval  *)
(* are never refused, opened together, with failed polls, late scripts and *)
(* early clock readings included, as long as the bucket also holds a token *)
(* for every fault: go-redis sends a script whose reply is lost again, and *)
(* one poll pays for two.                                                  *)
(***************************************************************************)
TabsFitTheRate ==
  TabsFit(faults) => \A t \in Pages : page[t].at = "answered" => page[t].code # 429

(***************************************************************************)
(* A decision reaches the page (fetchStatus): when the row is decided      *)
(* while the page has more polls left than calls can still fail, and the   *)
(* tabs fit the rate, the page shows the result in the end.                *)
(***************************************************************************)
DecisionShown ==
  \A t \in Pages :
    (/\ TabsFit(MaxFaults) /\ t \in Live /\ status[Shows[t]] \in Rows!Terminal
     /\ page[t].polls + MaxFaults - faults < maxPolls)
      ~> page[t].at = "shown"

(***************************************************************************)
(* More tabs than the limit feeds (fetchStatus, AllowPoll): a refused poll *)
(* is spent, so the tabs compete.  As long as one token grows back in a    *)
(* pollInterval, tabs on decided rows are served one after the other, and  *)
(* none is starved that can lose two polls to each other tab (its answer   *)
(* from before the decision and the one with it) and one to each fault (a  *)
(* poll of its own, or a token to the poll of another).                    *)
(***************************************************************************)
CrowdServed ==
  \A t \in Pages :
    (/\ Interval(Rate, Minute) <= pollInterval
     /\ t \in Live /\ \A u \in Pages : status[Shows[u]] \in Rows!Terminal
     /\ page[t].polls + 2 * (Cardinality(Pages) - 1) + (MaxFaults - faults) < maxPolls)
      ~> page[t].at = "shown"
=============================================================================
