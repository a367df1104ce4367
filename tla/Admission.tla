----------------------------- MODULE Admission -----------------------------
(***************************************************************************)
(* The three buckets in front of a submission: per participant and minute, *)
(* per participant and hour, per client address and minute, charged one    *)
(* after the other by requests that run concurrently and share one Redis.  *)
(* A request that is refused, or that fails, keeps nothing but has already *)
(* paid at the buckets before.  The client address is worked out from the  *)
(* TCP peer and from headers a proxy may or may not be trusted to set.     *)
(***************************************************************************)
EXTENDS BucketScript, FiniteSets

CONSTANTS
  Participants,
  Senders,      \* addresses clients connect from
  Proxies,      \* addresses inside TRUSTED_PROXY_CIDR
  NoHeader,     \* a header that is absent or does not parse as an address
  Slots,        \* requests that can be under way at the same time
  Settings,     \* the configurations, each with the load it is examined under
  MaxTime,      \* bound: the clock
  Starts,       \* when the observed window of a behaviour can begin
  MaxRequests   \* bound: requests in a behaviour

Limits == {"min", "hour", "ip"}

\* rate and period of each limit; who submits, how many at the same time, and
\* which of them send one request after the other and obey Retry-After;
\* bounds: how long a call of the limiter takes, how many replies are lost.
\* config.Load does not check the rates; a rate of 0 or below means no limit.
\* As in TokenBucket, a call is given up on before a bucket could fill.
ASSUME AdmissionAssumption ==
  /\ Senders \cap Proxies = {} /\ NoHeader \notin Senders \cup Proxies
  /\ Participants \cap Senders = {} /\ IsFiniteSet(Slots)
  /\ MaxTime \in Nat /\ MaxRequests \in Nat /\ Starts \subseteq Nat
  /\ Settings \subseteq
       [rate : [Limits -> Int], period : [Limits -> Nat \ {0}],
        clients : SUBSET Participants, patient : SUBSET Participants, parallel : Nat,
        maxDelay : Nat, maxLost : Nat]
  /\ \A c \in Settings : \A kind \in Limits : c.rate[kind] > 0 =>
       c.maxDelay <= Interval(c.rate[kind], c.period[kind]) * Capacity(c.rate[kind])

Addresses == Senders \cup Proxies

\* The Redis keys rl:submit:min:<id>, rl:submit:hour:<id>, rl:ip:submit:<ip>.
Keys == ({"min", "hour"} \X Participants) \cup ({"ip"} \X Addresses)

VARIABLES
  setting,    \* the configuration, fixed when the API starts
  clock,
  bucket,     \* Redis: the bucket under each key
  request,    \* the request in each slot
  received,   \* requests so far
  lost,       \* replies lost so far
  since,      \* start of an arbitrary window ...
  admitted,   \* ... and the requests admitted in it, by origin
  notBefore,  \* when the Retry-After of a patient client's last answer is over
  refusals    \* refusals a patient client met in a row, undisturbed

vars == <<setting, clock, bucket, request, received, lost, since, admitted, notBefore, refusals>>

RateOf(kind) == setting.rate[kind]
PeriodOf(kind) == setting.period[kind]
Patient == setting.patient

NoRequest == [at |-> "none"]
Open == {s \in Slots : request[s] # NoRequest}

Init ==
  /\ setting \in Settings
  /\ clock = 0
  /\ bucket = [k \in Keys |-> NoBucket]
  /\ request = [s \in Slots |-> NoRequest]
  /\ received = 0 /\ lost = 0
  /\ since \in Starts
  /\ admitted = [o \in Participants \cup Senders |-> 0]
  /\ notBefore = [p \in Patient |-> 0]
  /\ refusals = [p \in Patient |-> 0]

-----------------------------------------------------------------------------
\* How a request from a client's address can reach the API: directly, with
\* any headers, or through a proxy that overwrites both (nginx.conf).
Arrivals(a) ==
  [remote : {a}, forwarded : Addresses \cup {NoHeader}, realIP : Addresses \cup {NoHeader}]
    \cup [remote : Proxies, forwarded : {a}, realIP : {a}]
    \cup [remote : Proxies, forwarded : {NoHeader}, realIP : {a}]

\* Mutant: the headers are believed whoever the peer is.
ExtractAnyForwarded(r) ==
  IF r.forwarded # NoHeader THEN r.forwarded
  ELSE IF r.realIP # NoHeader THEN r.realIP
  ELSE r.remote

IsTrustedProxy(a) == a \in Proxies

ExtractClientIP(r) ==
  IF IsTrustedProxy(r.remote) /\ r.forwarded # NoHeader THEN r.forwarded
  ELSE IF IsTrustedProxy(r.remote) /\ r.realIP # NoHeader THEN r.realIP
  ELSE r.remote

\* handleCreateSubmission up to the first bucket.
Receive(s, p, a) ==
  /\ s \notin Open /\ received < MaxRequests
  /\ p \in setting.clients /\ Cardinality(Open) < setting.parallel
  /\ p \in Patient => /\ notBefore[p] <= clock
                      /\ \A t \in Open : request[t].participant # p
  /\ \E r \in Arrivals(a) :
       request' = [request EXCEPT ![s] =
         [at |-> "min", entered |-> clock, participant |-> p, sender |-> a,
          address |-> ExtractClientIP(r)]]
  /\ received' = received + 1
  /\ UNCHANGED <<setting, clock, bucket, lost, since, admitted, notBefore, refusals>>

\* Mutant: both buckets of a participant live under the same key.
KeyShared(r) ==
  IF r.at = "ip" THEN <<"ip", r.address>> ELSE <<"min", r.participant>>

\* The bucket a request has to pass next.
Key(r) ==
  IF r.at = "ip" THEN <<"ip", r.address>> ELSE <<r.at, r.participant>>

\* A client is no longer undisturbed when others get tokens of an address.
Disturbed(r) ==
  [p \in Patient |-> IF p # r.participant /\ r.at = "ip" THEN 0 ELSE refusals[p]]

\* The request goes on to the bucket of another limit, or is done.
GoOn(r, at) ==
  [at |-> at, entered |-> clock, participant |-> r.participant, sender |-> r.sender,
   address |-> r.address]

\* Mutant: the hour is forgotten.
AfterWithoutHour(r) == GoOn(r, IF r.at = "ip" THEN "done" ELSE "ip")

\* AllowParticipantSubmit goes on to the hour and CreateSubmission to the
\* address; after that the request may be read.
After(r) ==
  GoOn(r, CASE r.at = "min" -> "hour" [] r.at = "hour" -> "ip" [] r.at = "ip" -> "done")

Pass(s, r) ==
  LET next == After(r) IN
  IF next.at = "done"
  THEN /\ request' = [request EXCEPT ![s] = NoRequest]
       /\ admitted' = [o \in DOMAIN admitted |->
            IF clock >= since /\ o \in {r.participant, r.sender}
            THEN admitted[o] + 1 ELSE admitted[o]]
       /\ refusals' = [p \in Patient |-> IF p = r.participant THEN 0 ELSE Disturbed(r)[p]]
  ELSE /\ request' = [request EXCEPT ![s] = next]
       /\ refusals' = Disturbed(r)
       /\ UNCHANGED admitted

\* Mutant: Retry-After is that of the shortest limit.
RefuseShort(s, r, seconds) ==
  /\ request' = [request EXCEPT ![s] = NoRequest]
  /\ notBefore' = [p \in Patient |->
       IF p = r.participant THEN clock + Second ELSE notBefore[p]]
  /\ refusals' = [p \in Patient |-> refusals[p] + IF p = r.participant THEN 1 ELSE 0]
  /\ UNCHANGED admitted

\* RateLimitError: 429 with the Retry-After of the bucket that refused.
Refuse(s, r, seconds) ==
  /\ request' = [request EXCEPT ![s] = NoRequest]
  /\ notBefore' = [p \in Patient |->
       IF p = r.participant THEN clock + seconds * Second ELSE notBefore[p]]
  /\ refusals' = [p \in Patient |-> refusals[p] + IF p = r.participant THEN 1 ELSE 0]
  /\ UNCHANGED admitted

\* One call of tokenBucket: the clock is read at some time after the call
\* before returned, the script runs now.
Allow(s) ==
  LET r == request[s]
      k == Key(r)
  IN
  /\ s \in Open
  /\ \/ /\ RateOf(r.at) <= 0
        /\ Pass(s, r)
        /\ UNCHANGED <<bucket, notBefore>>
     \/ /\ RateOf(r.at) > 0
        /\ \E now \in r.entered..clock :
             LET answer == tokenBucket(bucket[k], RateOf(r.at), PeriodOf(r.at), now, clock) IN
             /\ bucket' = [bucket EXCEPT ![k] = answer.bucket]
             /\ \/ answer.retryAfter = 0 /\ Pass(s, r) /\ UNCHANGED notBefore
                \/ answer.retryAfter > 0 /\ Refuse(s, r, answer.retryAfter)
  /\ UNCHANGED <<setting, clock, received, lost, since>>

\* The reply does not arrive, whether the script ran or not: go-redis sends
\* it again, or gives up and the client is told 500.
ReplyLost(s) ==
  LET r == request[s]
      k == Key(r)
  IN
  /\ s \in Open /\ RateOf(r.at) > 0 /\ lost < setting.maxLost
  /\ lost' = lost + 1
  /\ \/ \E now \in r.entered..clock :
          bucket' = [bucket EXCEPT ![k] =
            tokenBucket(@, RateOf(r.at), PeriodOf(r.at), now, clock).bucket]
     \/ UNCHANGED bucket
  /\ request' \in {request, [request EXCEPT ![s] = NoRequest]}
  /\ refusals' = [p \in Patient |-> IF p = r.participant THEN 0 ELSE Disturbed(r)[p]]
  /\ UNCHANGED <<setting, clock, received, since, admitted, notBefore>>

\* Time passes, but no call takes longer than maxDelay.
Tick ==
  /\ clock < MaxTime
  /\ \A s \in Open : clock < request[s].entered + setting.maxDelay
  /\ clock' = clock + 1
  /\ UNCHANGED <<setting, bucket, request, received, lost, since, admitted, notBefore, refusals>>

Next ==
  \/ \E s \in Slots :
       \/ \E p \in Participants, a \in Senders : Receive(s, p, a)
       \/ Allow(s)
       \/ ReplyLost(s)
  \/ Tick

Spec == Init /\ [][Next]_vars

-----------------------------------------------------------------------------
(* Properties.                                                             *)

\* What the bucket of a limit grants in a window that is the longer by the
\* calls that follow it.
Most(kind, calls) ==
  LET interval == Interval(RateOf(kind), PeriodOf(kind))
      length == AtLeast(clock - since, 0) + calls * setting.maxDelay
  IN Capacity(RateOf(kind)) + (length + interval - 1) \div interval

(***************************************************************************)
(* A participant's rates (AllowParticipantSubmit): in any window no more   *)
(* of a participant's requests pass than the minute and the hour bucket    *)
(* each allow, the time a request spends at the later buckets included.    *)
(***************************************************************************)
ParticipantRates ==
  \A p \in Participants :
    /\ RateOf("min") > 0 => admitted[p] <= Most("min", 3)
    /\ RateOf("hour") > 0 => admitted[p] <= Most("hour", 2)

(***************************************************************************)
(* An address's rate (ExtractClientIP, AllowIPSubmit): in any window no    *)
(* more requests pass from one client address than its bucket allows,      *)
(* whichever headers the client sends and whether it comes through the     *)
(* proxy or not.                                                           *)
(***************************************************************************)
SenderRate ==
  RateOf("ip") > 0 => \A a \in Senders : admitted[a] <= Most("ip", 1)

(***************************************************************************)
(* Refused requests have paid at the buckets before the one that refused   *)
(* (CreateSubmission), but a client that obeys Retry-After does not starve *)
(* on its own tokens: unless somebody else uses up its address's, or a     *)
(* reply is lost, each limit refuses it at most once in a row, whichever   *)
(* tokens take longest to grow back.                                       *)
(***************************************************************************)
PatienceRewarded == \A p \in Patient : refusals[p] <= Cardinality(Limits)

\* The single bucket each key is meant to be, in a setting.
Bucket(c, k) == INSTANCE TokenBucket WITH
  Rate <- c.rate[k[1]], Period <- c.period[k[1]], MaxDelay <- c.maxDelay,
  bucket <- bucket[k]

(***************************************************************************)
(* Every key of the shared Redis behaves as a bucket of its own            *)
(* (tokenBucket): the chain, the other keys and the failures around it     *)
(* are steps of TokenBucket or do not touch it, so its rate, expiry and    *)
(* Retry-After guarantees hold of each of the three limits.                *)
(***************************************************************************)
KeysAreBuckets ==
  /\ \A c \in Settings, k \in Keys : Bucket(c, k)!BucketInit
  /\ [][\A c \in Settings, k \in Keys :
          setting = c /\ c.rate[k[1]] > 0 =>
            [Bucket(c, k)!BucketNext]_(Bucket(c, k)!bucketVars)]_vars
=============================================================================
