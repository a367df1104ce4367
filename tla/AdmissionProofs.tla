-------------------------- MODULE AdmissionProofs --------------------------
(***************************************************************************)
(* The rates of participants and addresses, for any number of clients,     *)
(* concurrent requests, settings and faults.  A request is counted when it *)
(* has passed all three buckets, but it paid at the first ones earlier, so *)
(* the requests that are still under way are counted with the admitted     *)
(* ones: those that paid late enough to be admitted inside the window.     *)
(* And the patience of a client that obeys Retry-After.                    *)
(***************************************************************************)
EXTENDS Admission, BucketProofs, FiniteSetTheorems

Requests ==
  [at : Limits, entered : Nat, participant : Participants, sender : Senders,
   address : Addresses]

TypeOK ==
  /\ setting \in Settings
  /\ clock \in Nat /\ since \in Nat
  /\ DOMAIN bucket = Keys
  /\ request \in [Slots -> Requests \cup {NoRequest}]
  /\ admitted \in [Participants \cup Senders -> Nat]

\* No call takes longer than maxDelay, and the client address is the sender's.
RequestsOK ==
  \A s \in Open :
    /\ request[s].entered <= clock
    /\ clock <= request[s].entered + setting.maxDelay
    /\ request[s].address = request[s].sender

BucketsOK ==
  \A k \in Keys : RateOf(k[1]) > 0 =>
    BucketOK(bucket[k], RateOf(k[1]), PeriodOf(k[1]), clock)

\* The requests of p under way that have paid at the hour's bucket, and at
\* the minute's, late enough to be admitted after since.
PaidHour(p) ==
  {s \in Open : /\ request[s].participant = p /\ request[s].at = "ip"
                /\ request[s].entered >= since - setting.maxDelay}
PaidMin(p) ==
  {s \in Open : /\ request[s].participant = p /\ request[s].at = "hour"
                /\ request[s].entered >= since - 2 * setting.maxDelay}
    \cup PaidHour(p)

\* What was paid at a key, where start is the earliest that can be admitted
\* in the window.
PaidAt(k, n, start) ==
  RateOf(k[1]) > 0 =>
    Paid(bucket[k], n, start, setting.maxDelay, RateOf(k[1]), PeriodOf(k[1]))

AdmittedPaid ==
  /\ \A a \in Senders : PaidAt(<<"ip", a>>, admitted[a], since)
  /\ \A p \in Participants :
       /\ PaidAt(<<"hour", p>>, admitted[p] + Cardinality(PaidHour(p)),
                 since - setting.maxDelay)
       /\ PaidAt(<<"min", p>>, admitted[p] + Cardinality(PaidMin(p)),
                 since - 2 * setting.maxDelay)

AdmissionInv == TypeOK /\ RequestsOK /\ BucketsOK /\ AdmittedPaid

-----------------------------------------------------------------------------
(* What a step does to the requests and to the keys.                       *)

LEMMA Settled ==
  ASSUME TypeOK
  PROVE  /\ setting.maxDelay \in Nat
         /\ \A kind \in Limits :
              /\ RateOf(kind) \in Int /\ PeriodOf(kind) \in Nat \ {0}
              /\ RateOf(kind) > 0 =>
                   /\ RateOf(kind) \in Nat \ {0}
                   /\ setting.maxDelay <= Interval(RateOf(kind), PeriodOf(kind)) * RateOf(kind)
  BY AdmissionAssumption DEF TypeOK, RateOf, PeriodOf, Capacity

LEMMA OpenRequest ==
  ASSUME TypeOK, NEW s \in Open
  PROVE  request[s] \in Requests
  BY DEF TypeOK, Open

LEMMA KeyOfRequest ==
  ASSUME NEW r \in Requests
  PROVE  /\ Key(r) \in Keys /\ Key(r)[1] = r.at
         /\ \A p : Key(r) = <<"hour", p>> <=> r.at = "hour" /\ r.participant = p
         /\ \A p : Key(r) = <<"min", p>> <=> r.at = "min" /\ r.participant = p
         /\ \A a : Key(r) = <<"ip", a>> <=> r.at = "ip" /\ r.address = a
<1>1. r.at \in {"min", "hour", "ip"} /\ r.participant \in Participants /\ r.address \in Addresses
  BY DEF Requests, Limits
<1>2. Key(r) = IF r.at = "ip" THEN <<"ip", r.address>> ELSE <<r.at, r.participant>>
  BY DEF Key
<1> QED
  BY <1>1, <1>2 DEF Keys

LEMMA AfterRequest ==
  ASSUME NEW r \in Requests, clock \in Nat
  PROVE  /\ After(r).at = "done" <=> r.at = "ip"
         /\ r.at # "ip" => After(r) \in Requests
         /\ After(r).at = "hour" <=> r.at = "min"
         /\ After(r).at = "ip" <=> r.at = "hour"
         /\ After(r).entered = clock
         /\ After(r).participant = r.participant
         /\ After(r).sender = r.sender
         /\ After(r).address = r.address
  BY DEF After, GoOn, Requests, Limits

\* The script ran under the key, or ran and granted a token, for a caller
\* that read the clock at most maxDelay ago.
AnswerAt(k, now) == tokenBucket(bucket[k], RateOf(k[1]), PeriodOf(k[1]), now, clock)
Recent == {now \in 0..clock : clock - now <= setting.maxDelay}
Ran(k) == \E now \in Recent : bucket'[k] = AnswerAt(k, now).bucket
Granted(k) ==
  \E now \in Recent : AnswerAt(k, now).retryAfter = 0 /\ bucket'[k] = AnswerAt(k, now).bucket

\* A request passed a bucket that granted it a token or that has no limit.
Passes(s) ==
  /\ Pass(s, request[s])
  /\ UNCHANGED <<setting, clock, since>>
  /\ DOMAIN bucket' = Keys
  /\ \A k \in Keys \ {Key(request[s])} : bucket'[k] = bucket[k]
  /\ RateOf(request[s].at) > 0 => Granted(Key(request[s]))

\* A request ended or goes on trying; the script ran under its key or not.
Drops(s) ==
  /\ request' \in {request, [request EXCEPT ![s] = NoRequest]}
  /\ UNCHANGED <<setting, clock, since, admitted>>
  /\ DOMAIN bucket' = Keys
  /\ \A k \in Keys : bucket'[k] = bucket[k] \/ (RateOf(k[1]) > 0 /\ Ran(k))

LEMMA RecentReadings ==
  ASSUME TypeOK, RequestsOK, NEW s \in Open
  PROVE  request[s].entered..clock \subseteq Recent
<1>1. request[s].entered \in Nat
  BY OpenRequest DEF Requests
<1> QED
  BY <1>1, Settled DEF TypeOK, RequestsOK, Recent

LEMMA AllowIs ==
  ASSUME TypeOK, RequestsOK, NEW s \in Slots, Allow(s)
  PROVE  s \in Open /\ (Passes(s) \/ Drops(s))
<1> DEFINE r == request[s]
           k == Key(r)
<1>1. s \in Open
  BY DEF Allow
<1>2. k \in Keys /\ k[1] = r.at /\ DOMAIN bucket = Keys
  BY <1>1, OpenRequest, KeyOfRequest DEF TypeOK
<1>3. UNCHANGED <<setting, clock, since>>
  BY DEF Allow
<1>4. CASE RateOf(r.at) <= 0 /\ Pass(s, r) /\ UNCHANGED <<bucket, notBefore>>
  <2>1. r.at \in Limits
    BY <1>1, OpenRequest DEF Requests
  <2> QED
    BY <1>1, <1>2, <1>3, <1>4, <2>1, Settled DEF Passes
<1>5. ASSUME RateOf(r.at) > 0, NEW now \in r.entered..clock,
             bucket' = [bucket EXCEPT ![k] = AnswerAt(k, now).bucket]
      PROVE  /\ DOMAIN bucket' = Keys
             /\ now \in Recent /\ bucket'[k] = AnswerAt(k, now).bucket
             /\ \A l \in Keys \ {k} : bucket'[l] = bucket[l]
  BY <1>1, <1>2, <1>5, RecentReadings
<1>6. ASSUME RateOf(r.at) > 0, NEW now \in r.entered..clock,
             bucket' = [bucket EXCEPT ![k] = AnswerAt(k, now).bucket],
             AnswerAt(k, now).retryAfter = 0, Pass(s, r)
      PROVE  Passes(s)
  BY <1>3, <1>5, <1>6 DEF Passes, Granted
<1>7. ASSUME RateOf(r.at) > 0, NEW now \in r.entered..clock,
             bucket' = [bucket EXCEPT ![k] = AnswerAt(k, now).bucket],
             Refuse(s, r, AnswerAt(k, now).retryAfter)
      PROVE  Drops(s)
  BY <1>2, <1>3, <1>5, <1>7 DEF Drops, Ran, Refuse
<1>8. \/ RateOf(r.at) <= 0 /\ Pass(s, r) /\ UNCHANGED <<bucket, notBefore>>
      \/ /\ RateOf(r.at) > 0
         /\ \E now \in r.entered..clock :
              /\ bucket' = [bucket EXCEPT ![k] = AnswerAt(k, now).bucket]
              /\ \/ AnswerAt(k, now).retryAfter = 0 /\ Pass(s, r)
                 \/ Refuse(s, r, AnswerAt(k, now).retryAfter)
  BY <1>2 DEF Allow, AnswerAt
<1> QED
  BY <1>1, <1>4, <1>6, <1>7, <1>8

LEMMA ReplyLostIs ==
  ASSUME TypeOK, RequestsOK, NEW s \in Slots, ReplyLost(s)
  PROVE  s \in Open /\ Drops(s)
<1> DEFINE r == request[s]
           k == Key(r)
<1>1. s \in Open
  BY DEF ReplyLost
<1>2. k \in Keys /\ k[1] = r.at /\ DOMAIN bucket = Keys
  BY <1>1, OpenRequest, KeyOfRequest DEF TypeOK
<1>3. /\ UNCHANGED <<setting, clock, since, admitted>>
      /\ request' \in {request, [request EXCEPT ![s] = NoRequest]}
      /\ RateOf(r.at) > 0
  BY DEF ReplyLost
<1>4. CASE UNCHANGED bucket
  BY <1>1, <1>2, <1>3, <1>4 DEF Drops
<1>5. ASSUME NEW now \in r.entered..clock,
             bucket' = [bucket EXCEPT ![k] = AnswerAt(k, now).bucket]
      PROVE  Drops(s)
  BY <1>1, <1>2, <1>3, <1>5, RecentReadings DEF Drops, Ran
<1>6. \/ UNCHANGED bucket
      \/ \E now \in r.entered..clock :
           bucket' = [bucket EXCEPT ![k] = AnswerAt(k, now).bucket]
  BY <1>2 DEF ReplyLost, AnswerAt
<1> QED
  BY <1>1, <1>4, <1>5, <1>6

\* Whatever the headers say, the address is the one the client came from.
LEMMA SenderIsKnown ==
  ASSUME NEW a \in Senders, NEW r \in Arrivals(a)
  PROVE  ExtractClientIP(r) = a
  BY AdmissionAssumption DEF Arrivals, ExtractClientIP, IsTrustedProxy, Addresses

LEMMA ReceiveIs ==
  ASSUME TypeOK, NEW s \in Slots, NEW p \in Participants, NEW a \in Senders, Receive(s, p, a)
  PROVE  /\ s \notin Open
         /\ request' = [request EXCEPT ![s] =
              [at |-> "min", entered |-> clock, participant |-> p, sender |-> a, address |-> a]]
         /\ UNCHANGED <<setting, clock, bucket, since, admitted>>
  BY SenderIsKnown DEF Receive

\* The kinds of steps the proofs distinguish.
LEMMA StepIs ==
  ASSUME TypeOK, RequestsOK, [Next]_vars
  PROVE  \/ \E s \in Slots, p \in Participants, a \in Senders : Receive(s, p, a)
         \/ \E s \in Open : Passes(s)
         \/ \E s \in Open : Drops(s)
         \/ Tick
         \/ UNCHANGED vars
  BY AllowIs, ReplyLostIs DEF Next

LEMMA PassChanges ==
  ASSUME TypeOK, NEW s \in Open, Passes(s)
  PROVE  /\ request' = [request EXCEPT ![s] =
              IF request[s].at = "ip" THEN NoRequest ELSE After(request[s])]
         /\ request[s].at # "ip" => After(request[s]) \in Requests /\ admitted' = admitted
         /\ request[s].at = "ip" =>
              admitted' = [o \in DOMAIN admitted |->
                IF clock >= since /\ o \in {request[s].participant, request[s].sender}
                THEN admitted[o] + 1 ELSE admitted[o]]
<1>1. request[s] \in Requests /\ clock \in Nat
  BY OpenRequest DEF TypeOK
<1> QED
  BY <1>1, AfterRequest DEF Passes, Pass

LEMMA TypeStep ==
  ASSUME TypeOK, RequestsOK, [Next]_vars
  PROVE  TypeOK'
<1>1. ASSUME NEW s \in Slots, NEW p \in Participants, NEW a \in Senders, Receive(s, p, a)
      PROVE  TypeOK'
  <2>1. [at |-> "min", entered |-> clock, participant |-> p, sender |-> a, address |-> a]
          \in Requests
    BY DEF TypeOK, Requests, Limits, Addresses
  <2> QED
    BY <1>1, <2>1, ReceiveIs DEF TypeOK
<1>2. ASSUME NEW s \in Open, Passes(s) PROVE TypeOK'
  BY <1>2, PassChanges DEF TypeOK, Passes
<1>3. ASSUME NEW s \in Open, Drops(s) PROVE TypeOK'
  BY <1>3 DEF TypeOK, Drops
<1>4. CASE Tick
  BY <1>4 DEF TypeOK, Tick
<1>5. CASE UNCHANGED vars
  BY <1>5 DEF TypeOK, vars
<1> QED
  BY <1>1, <1>2, <1>3, <1>4, <1>5, StepIs

LEMMA RequestsStep ==
  ASSUME TypeOK, RequestsOK, [Next]_vars
  PROVE  RequestsOK'
<1> USE DEF RequestsOK, Open
<1>0. /\ clock \in Nat /\ setting.maxDelay \in Nat /\ DOMAIN request = Slots
      /\ \A t \in Open : request[t].entered \in Nat
  BY Settled, OpenRequest DEF TypeOK, Requests
<1>1. ASSUME NEW s \in Slots, NEW p \in Participants, NEW a \in Senders, Receive(s, p, a)
      PROVE  RequestsOK'
  BY <1>0, <1>1, ReceiveIs
<1>2. ASSUME NEW s \in Open, Passes(s) PROVE RequestsOK'
  <2>1. /\ After(request[s]).entered = clock
        /\ After(request[s]).address = After(request[s]).sender
    BY <1>0, OpenRequest, AfterRequest
  <2>2. /\ UNCHANGED <<setting, clock>>
        /\ request' = [request EXCEPT ![s] =
             IF request[s].at = "ip" THEN NoRequest ELSE After(request[s])]
    BY <1>2, PassChanges DEF Passes
  <2> QED
    BY <1>0, <2>1, <2>2
<1>3. ASSUME NEW s \in Open, Drops(s) PROVE RequestsOK'
  BY <1>0, <1>3 DEF Drops
<1>4. CASE Tick
  BY <1>0, <1>4 DEF Tick
<1>5. CASE UNCHANGED vars
  BY <1>5 DEF vars
<1> QED
  BY <1>1, <1>2, <1>3, <1>4, <1>5, StepIs

\* A key is untouched, or the script ran under it once; time does not pass
\* while it runs.
LEMMA KeysStep ==
  ASSUME TypeOK, RequestsOK, [Next]_vars, NEW k \in Keys, RateOf(k[1]) > 0
  PROVE  /\ setting' = setting
         /\ \/ clock' = clock /\ (bucket'[k] = bucket[k] \/ Ran(k))
            \/ clock < MaxTime /\ clock' = clock + 1 /\ bucket'[k] = bucket[k]
<1>1. ASSUME NEW s \in Open, Passes(s) PROVE bucket'[k] = bucket[k] \/ Ran(k)
  <2>1. Key(request[s])[1] = request[s].at
    BY OpenRequest, KeyOfRequest
  <2> QED
    BY <1>1, <2>1 DEF Passes, Granted, Ran
<1> QED
  BY <1>1, StepIs DEF Receive, Passes, Drops, Tick, vars

LEMMA KindOfKey == \A k \in Keys : k[1] \in Limits
  BY DEF Keys, Limits

LEMMA BucketsStep ==
  ASSUME TypeOK, RequestsOK, BucketsOK, [Next]_vars
  PROVE  BucketsOK'
<1> SUFFICES ASSUME NEW k \in Keys, RateOf(k[1])' > 0
             PROVE  BucketOK(bucket[k], RateOf(k[1]), PeriodOf(k[1]), clock)'
  BY DEF BucketsOK
<1> DEFINE rate == RateOf(k[1])
           period == PeriodOf(k[1])
<1>1. UNCHANGED <<setting, rate, period>>
  BY StepIs DEF Receive, Passes, Drops, Tick, vars, RateOf, PeriodOf
<1>2. /\ rate \in Nat \ {0} /\ period \in Nat \ {0} /\ clock \in Nat
      /\ setting.maxDelay \in Nat /\ setting.maxDelay <= Interval(rate, period) * rate
      /\ Interval(rate, period) * rate \in Nat
  BY <1>1, Settled, KindOfKey, IntervalPositive DEF TypeOK
<1>3. BucketOK(bucket[k], rate, period, clock)
  BY <1>1 DEF BucketsOK
<1>4. /\ BucketOK(bucket[k], rate, period, clock + 1)
      /\ \A now \in Recent : BucketOK(AnswerAt(k, now).bucket, rate, period, clock)
  <2>1. ASSUME NEW now \in Recent
        PROVE  BucketOK(AnswerAt(k, now).bucket, rate, period, clock)
    <3>1. now \in 0..clock /\ clock - now <= Interval(rate, period) * rate
      BY <1>2 DEF Recent
    <3> QED
      BY <1>2, <1>3, <3>1, BucketStaysOK DEF AnswerAt
  <2> QED
    BY <1>2, <1>3, <2>1, BucketAges
<1> QED
  BY <1>1, <1>2, <1>3, <1>4, KeysStep DEF Ran

-----------------------------------------------------------------------------
(* How the counts move.                                                    *)

LEMMA Counting ==
  ASSUME NEW S, IsFiniteSet(S), NEW T, NEW x
  PROVE  /\ Cardinality(S) \in Nat
         /\ T \subseteq S \cup {x} => Cardinality(T) \in Nat /\ Cardinality(T) <= Cardinality(S) + 1
         /\ T \subseteq S => Cardinality(T) \in Nat /\ Cardinality(T) <= Cardinality(S)
         /\ x \in S /\ T \subseteq S \ {x} => Cardinality(T) + 1 <= Cardinality(S)
<1>1. Cardinality(S) \in Nat
  BY FS_CardinalityType
<1>2. ASSUME T \subseteq S
      PROVE  IsFiniteSet(T) /\ Cardinality(T) \in Nat /\ Cardinality(T) <= Cardinality(S)
  BY <1>2, FS_Subset, FS_CardinalityType
<1>3. ASSUME T \subseteq S \cup {x}
      PROVE  Cardinality(T) \in Nat /\ Cardinality(T) <= Cardinality(S) + 1
  <2>1. /\ IsFiniteSet(S \cup {x})
        /\ Cardinality(S \cup {x}) \in Nat
        /\ Cardinality(S \cup {x}) <= Cardinality(S) + 1
    BY <1>1, FS_AddElement, FS_CardinalityType
  <2>2. Cardinality(T) \in Nat /\ Cardinality(T) <= Cardinality(S \cup {x})
    BY <1>3, <2>1, FS_Subset, FS_CardinalityType
  <2> QED
    BY <1>1, <2>1, <2>2
<1>4. ASSUME x \in S, T \subseteq S \ {x} PROVE Cardinality(T) + 1 <= Cardinality(S)
  <2>1. /\ IsFiniteSet(S \ {x})
        /\ Cardinality(S \ {x}) = Cardinality(S) - 1
    BY <1>4, FS_RemoveElement
  <2>2. Cardinality(T) \in Nat /\ Cardinality(T) <= Cardinality(S \ {x})
    <3>1. Cardinality(S \ {x}) \in Nat
      BY <2>1, FS_CardinalityType
    <3> QED
      BY <1>4, <2>1, FS_Subset, FS_CardinalityType
  <2> QED
    BY <1>1, <2>1, <2>2
<1> QED
  BY <1>1, <1>2, <1>3, <1>4

HourCount(p) == admitted[p] + Cardinality(PaidHour(p))
MinCount(p) == admitted[p] + Cardinality(PaidMin(p))

LEMMA CountsAreNumbers ==
  ASSUME TypeOK, NEW p \in Participants
  PROVE  /\ IsFiniteSet(PaidHour(p)) /\ IsFiniteSet(PaidMin(p))
         /\ admitted[p] \in Nat /\ HourCount(p) \in Nat /\ MinCount(p) \in Nat
<1>1. PaidHour(p) \subseteq Slots /\ PaidMin(p) \subseteq Slots
  BY DEF PaidHour, PaidMin, Open
<1>2. IsFiniteSet(PaidHour(p)) /\ IsFiniteSet(PaidMin(p))
  BY <1>1, AdmissionAssumption, FS_Subset
<1>3. admitted[p] \in Nat
  BY DEF TypeOK
<1> QED
  BY <1>2, <1>3, FS_CardinalityType DEF HourCount, MinCount

\* A count does not rise, except by one that its bucket has just granted.
RisesByGrant(n, m, k, start) ==
  /\ m \in Nat
  /\ m <= n \/ (m <= n + 1 /\ start <= clock /\ (RateOf(k[1]) > 0 => Granted(k)))

LEMMA SetsUnmoved ==
  ASSUME TypeOK, NEW p \in Participants, UNCHANGED <<setting, since>>,
         admitted'[p] = admitted[p],
         PaidHour(p)' \subseteq PaidHour(p), PaidMin(p)' \subseteq PaidMin(p)
  PROVE  /\ RisesByGrant(HourCount(p), HourCount(p)', <<"hour", p>>, since - setting.maxDelay)
         /\ RisesByGrant(MinCount(p), MinCount(p)', <<"min", p>>, since - 2 * setting.maxDelay)
  BY CountsAreNumbers, Counting DEF RisesByGrant, HourCount, MinCount

LEMMA PassCounts ==
  ASSUME TypeOK, RequestsOK, NEW s \in Open, Passes(s), NEW p \in Participants
  PROVE  /\ RisesByGrant(HourCount(p), HourCount(p)', <<"hour", p>>, since - setting.maxDelay)
         /\ RisesByGrant(MinCount(p), MinCount(p)', <<"min", p>>, since - 2 * setting.maxDelay)
<1> DEFINE r == request[s]
           d == setting.maxDelay
<1>1. /\ r \in Requests /\ r.at \in {"min", "hour", "ip"} /\ r.entered \in Nat
      /\ r.participant \in Participants /\ r.sender \in Senders
  BY OpenRequest DEF Requests, Limits
<1>2. /\ clock \in Nat /\ since \in Nat /\ d \in Nat
      /\ r.entered <= clock /\ clock <= r.entered + d
  BY Settled DEF TypeOK, RequestsOK
<1>3. /\ UNCHANGED <<setting, clock, since>> /\ s \in Slots /\ DOMAIN request = Slots
      /\ request' = [request EXCEPT ![s] = IF r.at = "ip" THEN NoRequest ELSE After(r)]
  BY PassChanges DEF Passes, TypeOK, Open
<1>4. /\ After(r).entered = clock /\ After(r).participant = r.participant
      /\ After(r).at = "hour" <=> r.at = "min"
      /\ After(r).at = "ip" <=> r.at = "hour"
  BY <1>1, <1>2, AfterRequest
<1>5. \A t \in Slots \ {s} : request'[t] = request[t]
  BY <1>3
<1>6. request'[s] = IF r.at = "ip" THEN NoRequest ELSE After(r)
  BY <1>3
<1>7. PaidHour(p)' \ {s} = PaidHour(p) \ {s}
  BY <1>3, <1>5 DEF PaidHour, Open
<1>8. PaidMin(p)' \ {s} = PaidMin(p) \ {s}
  BY <1>3, <1>5 DEF PaidMin, PaidHour, Open
<1>9. IsFiniteSet(PaidHour(p)) /\ IsFiniteSet(PaidMin(p)) /\ admitted[p] \in Nat
  BY CountsAreNumbers
<1>10. CASE r.at = "min"
  <2>1. s \notin PaidHour(p)'
    BY <1>3, <1>4, <1>6, <1>10 DEF PaidHour
  <2>2. s \in PaidMin(p)' => r.participant = p /\ clock >= since - 2 * d
    BY <1>3, <1>4, <1>6, <1>10 DEF PaidMin, PaidHour
  <2>3. admitted' = admitted
    BY <1>10, PassChanges
  <2>4. PaidHour(p)' \subseteq PaidHour(p)
    BY <1>7, <1>8, <2>1
  <2>5. CASE s \notin PaidMin(p)'
    <3>1. PaidMin(p)' \subseteq PaidMin(p)
      BY <1>7, <1>8, <2>5
    <3> QED
      BY <1>3, <2>3, <2>4, <3>1, SetsUnmoved
  <2>6. CASE s \in PaidMin(p)'
    <3>1. Key(r) = <<"min", p>>
      BY <1>1, <1>10, <2>2, <2>6, KeyOfRequest
    <3>2. RateOf("min") > 0 => Granted(<<"min", p>>)
      BY <1>10, <3>1 DEF Passes
    <3>3. PaidMin(p)' \subseteq PaidMin(p) \cup {s}
      BY <1>7, <1>8
    <3>4. /\ HourCount(p)' \in Nat /\ HourCount(p)' <= HourCount(p)
          /\ MinCount(p)' \in Nat /\ MinCount(p)' <= MinCount(p) + 1
      BY <1>9, <2>3, <2>4, <3>3, Counting DEF HourCount, MinCount
    <3> QED
      BY <1>2, <2>2, <2>6, <3>2, <3>4 DEF RisesByGrant
  <2> QED
    BY <2>5, <2>6
<1>11. CASE r.at = "hour"
  <2>1. s \in PaidHour(p)' => r.participant = p /\ clock >= since - d
    BY <1>3, <1>4, <1>6, <1>11 DEF PaidHour
  <2>2. s \in PaidMin(p)' => s \in PaidMin(p)
    BY <1>1, <1>2, <1>3, <1>4, <1>6, <1>11 DEF PaidMin, PaidHour
  <2>3. admitted' = admitted
    BY <1>11, PassChanges
  <2>4. PaidMin(p)' \subseteq PaidMin(p)
    BY <1>7, <1>8, <2>2
  <2>5. CASE s \notin PaidHour(p)'
    <3>1. PaidHour(p)' \subseteq PaidHour(p)
      BY <1>7, <1>8, <2>5
    <3> QED
      BY <1>3, <2>3, <2>4, <3>1, SetsUnmoved
  <2>6. CASE s \in PaidHour(p)'
    <3>1. Key(r) = <<"hour", p>>
      BY <1>1, <1>11, <2>1, <2>6, KeyOfRequest
    <3>2. RateOf("hour") > 0 => Granted(<<"hour", p>>)
      BY <1>11, <3>1 DEF Passes
    <3>3. PaidHour(p)' \subseteq PaidHour(p) \cup {s}
      BY <1>7, <1>8
    <3>4. /\ MinCount(p)' \in Nat /\ MinCount(p)' <= MinCount(p)
          /\ HourCount(p)' \in Nat /\ HourCount(p)' <= HourCount(p) + 1
      BY <1>9, <2>3, <2>4, <3>3, Counting DEF HourCount, MinCount
    <3> QED
      BY <1>2, <2>1, <2>6, <3>2, <3>4 DEF RisesByGrant
  <2> QED
    BY <2>5, <2>6
<1>12. CASE r.at = "ip"
  <2>1. s \notin PaidHour(p)' /\ s \notin PaidMin(p)'
    BY <1>6, <1>12 DEF PaidHour, PaidMin, Open
  <2>2. PaidHour(p)' \subseteq PaidHour(p) \ {s} /\ PaidMin(p)' \subseteq PaidMin(p) \ {s}
    BY <1>7, <1>8, <2>1
  <2>3. admitted'[p] = IF clock >= since /\ p = r.participant THEN admitted[p] + 1 ELSE admitted[p]
    BY <1>1, <1>12, PassChanges, AdmissionAssumption DEF TypeOK
  <2>4. CASE clock >= since /\ p = r.participant
    <3>1. s \in PaidHour(p) /\ s \in PaidMin(p)
      BY <1>1, <1>2, <1>12, <2>4 DEF PaidHour, PaidMin
    <3>2. /\ HourCount(p)' \in Nat /\ HourCount(p)' <= HourCount(p)
          /\ MinCount(p)' \in Nat /\ MinCount(p)' <= MinCount(p)
      BY <1>9, <2>2, <2>3, <2>4, <3>1, Counting DEF HourCount, MinCount
    <3> QED
      BY <3>2 DEF RisesByGrant
  <2>5. CASE ~(clock >= since /\ p = r.participant)
    BY <1>3, <2>2, <2>3, <2>5, SetsUnmoved
  <2> QED
    BY <2>4, <2>5
<1> QED
  BY <1>1, <1>10, <1>11, <1>12

LEMMA ParticipantCounts ==
  ASSUME TypeOK, RequestsOK, [Next]_vars, NEW p \in Participants
  PROVE  /\ RisesByGrant(HourCount(p), HourCount(p)', <<"hour", p>>, since - setting.maxDelay)
         /\ RisesByGrant(MinCount(p), MinCount(p)', <<"min", p>>, since - 2 * setting.maxDelay)
<1>0. DOMAIN request = Slots
  BY DEF TypeOK
<1>1. ASSUME NEW s \in Slots, NEW q \in Participants, NEW a \in Senders, Receive(s, q, a)
      PROVE  /\ UNCHANGED <<setting, since, admitted>>
             /\ PaidHour(p)' \subseteq PaidHour(p) /\ PaidMin(p)' \subseteq PaidMin(p)
  BY <1>0, <1>1, ReceiveIs DEF PaidHour, PaidMin, Open
<1>2. ASSUME NEW s \in Open, Drops(s)
      PROVE  /\ UNCHANGED <<setting, since, admitted>>
             /\ PaidHour(p)' \subseteq PaidHour(p) /\ PaidMin(p)' \subseteq PaidMin(p)
  BY <1>0, <1>2 DEF Drops, PaidHour, PaidMin, Open
<1>3. ASSUME Tick \/ UNCHANGED vars
      PROVE  /\ UNCHANGED <<setting, since, admitted>>
             /\ PaidHour(p)' \subseteq PaidHour(p) /\ PaidMin(p)' \subseteq PaidMin(p)
  BY <1>3 DEF Tick, vars, PaidHour, PaidMin, Open
<1> QED
  BY <1>1, <1>2, <1>3, SetsUnmoved, PassCounts, StepIs

LEMMA SenderCount ==
  ASSUME TypeOK, RequestsOK, [Next]_vars, NEW a \in Senders
  PROVE  RisesByGrant(admitted[a], admitted'[a], <<"ip", a>>, since)
<1>0. admitted[a] \in Nat /\ clock \in Nat /\ since \in Nat
  BY DEF TypeOK
<1>1. ASSUME NEW s \in Open, Passes(s), admitted'[a] # admitted[a]
      PROVE  /\ admitted'[a] = admitted[a] + 1 /\ since <= clock
             /\ RateOf("ip") > 0 => Granted(<<"ip", a>>)
  <2>1. request[s] \in Requests /\ request[s].participant \in Participants
    BY OpenRequest DEF Requests
  <2>2. /\ request[s].at = "ip" /\ since <= clock /\ a = request[s].sender
        /\ admitted'[a] = admitted[a] + 1
    BY <1>0, <1>1, <2>1, PassChanges, AdmissionAssumption DEF TypeOK
  <2>3. Key(request[s]) = <<"ip", a>>
    BY <2>1, <2>2, KeyOfRequest DEF RequestsOK
  <2> QED
    BY <1>1, <2>2, <2>3 DEF Passes
<1>2. CASE admitted'[a] = admitted[a]
  BY <1>0, <1>2 DEF RisesByGrant
<1>3. CASE \E s \in Open : Passes(s)
  BY <1>0, <1>1, <1>2, <1>3 DEF RisesByGrant
<1> QED
  BY <1>2, <1>3, StepIs DEF Receive, Drops, Tick, vars

\* What has been paid for stays paid for, and so does what the step grants.
LEMMA PaidStep ==
  ASSUME TypeOK, RequestsOK, BucketsOK, [Next]_vars, NEW k \in Keys, NEW n \in Nat, NEW m,
         NEW start \in Int, PaidAt(k, n, start), RisesByGrant(n, m, k, start)
  PROVE  RateOf(k[1])' > 0 =>
           Paid(bucket'[k], m, start, setting'.maxDelay, RateOf(k[1])', PeriodOf(k[1])')
<1> DEFINE rate == RateOf(k[1])
           period == PeriodOf(k[1])
           d == setting.maxDelay
<1>1. UNCHANGED <<setting, rate, period>>
  BY StepIs DEF Receive, Passes, Drops, Tick, vars, RateOf, PeriodOf
<1> SUFFICES ASSUME rate > 0 PROVE Paid(bucket'[k], m, start, d, rate, period)
  BY <1>1
<1>2. /\ rate \in Nat \ {0} /\ period \in Nat \ {0} /\ clock \in Nat
      /\ d \in Nat /\ d <= Interval(rate, period) * rate
      /\ Interval(rate, period) * rate \in Nat
  BY Settled, KindOfKey, IntervalPositive DEF TypeOK
<1>3. BucketOK(bucket[k], rate, period, clock) /\ Paid(bucket[k], n, start, d, rate, period)
  BY DEF BucketsOK, PaidAt
<1>4. \A now \in Recent : /\ now \in 0..clock /\ clock - now <= d
                          /\ clock - now <= Interval(rate, period) * rate
  BY <1>2 DEF Recent
<1>5. ASSUME m <= n PROVE Paid(bucket'[k], m, start, d, rate, period)
  <2>1. m \in Nat
    BY DEF RisesByGrant
  <2>2. Paid(bucket[k], m, start, d, rate, period)
    BY <1>2, <1>3, <1>5, <2>1, FewerArePaid
  <2>3. ASSUME NEW now \in Recent
        PROVE  Paid(AnswerAt(k, now).bucket, m, start, d, rate, period)
    BY <1>2, <1>3, <1>4, <2>1, <2>2, ScriptKeepsPaid DEF AnswerAt
  <2> QED
    BY <2>2, <2>3, KeysStep DEF Ran
<1>6. ASSUME ~(m <= n) PROVE Paid(bucket'[k], m, start, d, rate, period)
  <2>1. m = n + 1 /\ start <= clock /\ Granted(k)
    BY <1>6 DEF RisesByGrant
  <2>2. ASSUME NEW now \in Recent, AnswerAt(k, now).retryAfter = 0
        PROVE  Paid(AnswerAt(k, now).bucket, n + 1, start, d, rate, period)
    BY <1>2, <1>3, <1>4, <2>1, <2>2, GrantIsPaid DEF AnswerAt
  <2> QED
    BY <2>1, <2>2 DEF Granted
<1> QED
  BY <1>5, <1>6

LEMMA AdmittedPaidStep ==
  ASSUME TypeOK, RequestsOK, BucketsOK, AdmittedPaid, [Next]_vars
  PROVE  AdmittedPaid'
<1>0. /\ UNCHANGED <<setting, since>> /\ since \in Nat /\ setting.maxDelay \in Nat
  BY StepIs, Settled DEF TypeOK, Receive, Passes, Drops, Tick, vars
<1>1. ASSUME NEW a \in Senders PROVE PaidAt(<<"ip", a>>, admitted[a], since)'
  <2>1. <<"ip", a>> \in Keys /\ <<"ip", a>>[1] = "ip" /\ admitted[a] \in Nat
    BY DEF Keys, Addresses, TypeOK
  <2>2. PaidAt(<<"ip", a>>, admitted[a], since)
    BY DEF AdmittedPaid
  <2> QED
    BY <1>0, <2>1, <2>2, SenderCount, PaidStep DEF PaidAt
<1>2. ASSUME NEW p \in Participants
      PROVE  PaidAt(<<"hour", p>>, HourCount(p), since - setting.maxDelay)'
  <2>1. /\ <<"hour", p>> \in Keys /\ HourCount(p) \in Nat
        /\ since - setting.maxDelay \in Int
    BY <1>0, CountsAreNumbers DEF Keys
  <2>2. PaidAt(<<"hour", p>>, HourCount(p), since - setting.maxDelay)
    BY DEF AdmittedPaid, HourCount
  <2> QED
    BY <1>0, <2>1, <2>2, ParticipantCounts, PaidStep DEF PaidAt
<1>3. ASSUME NEW p \in Participants
      PROVE  PaidAt(<<"min", p>>, MinCount(p), since - 2 * setting.maxDelay)'
  <2>1. /\ <<"min", p>> \in Keys /\ MinCount(p) \in Nat
        /\ since - 2 * setting.maxDelay \in Int
    BY <1>0, CountsAreNumbers DEF Keys
  <2>2. PaidAt(<<"min", p>>, MinCount(p), since - 2 * setting.maxDelay)
    BY DEF AdmittedPaid, MinCount
  <2> QED
    BY <1>0, <2>1, <2>2, ParticipantCounts, PaidStep DEF PaidAt
<1> QED
  BY <1>1, <1>2, <1>3 DEF AdmittedPaid, HourCount, MinCount

LEMMA AdmissionInitially == Init => AdmissionInv
<1> SUFFICES ASSUME Init PROVE AdmissionInv
  OBVIOUS
<1>1. TypeOK
  BY AdmissionAssumption DEF Init, TypeOK
<1>2. Open = {}
  BY DEF Init, Open
<1>3. BucketsOK
  BY DEF Init, BucketsOK, BucketOK
<1>4. \A p : PaidHour(p) = {} /\ PaidMin(p) = {}
  BY <1>2 DEF PaidHour, PaidMin
<1>5. \A p \in Participants : /\ admitted[p] + Cardinality(PaidHour(p)) = 0
                              /\ admitted[p] + Cardinality(PaidMin(p)) = 0
  BY <1>4, FS_EmptySet DEF Init
<1>6. AdmittedPaid
  BY <1>5 DEF Init, AdmittedPaid, PaidAt, Paid
<1> QED
  BY <1>1, <1>2, <1>3, <1>6 DEF AdmissionInv, RequestsOK

LEMMA AdmissionInvariant == Spec => []AdmissionInv
<1>1. AdmissionInv /\ [Next]_vars => AdmissionInv'
  BY TypeStep, RequestsStep, BucketsStep, AdmittedPaidStep DEF AdmissionInv
<1> QED
  BY <1>1, AdmissionInitially, PTL DEF Spec

-----------------------------------------------------------------------------
(* The theorems.                                                           *)

LEMMA PaidIsMost ==
  ASSUME TypeOK, BucketsOK, NEW k \in Keys, RateOf(k[1]) > 0, NEW n \in Nat, NEW calls \in Nat,
         PaidAt(k, n, since - (calls * setting.maxDelay - setting.maxDelay))
  PROVE  n <= Most(k[1], calls)
<1> DEFINE rate == RateOf(k[1])
           period == PeriodOf(k[1])
           d == setting.maxDelay
           start == since - (calls * d - d)
           length == AtLeast(clock - since, 0) + calls * d
<1>1. rate \in Nat \ {0} /\ period \in Nat \ {0} /\ d \in Nat /\ clock \in Nat /\ since \in Nat
  BY Settled, KindOfKey DEF TypeOK
<1>2. calls * d \in Nat
  BY <1>1
<1>3. start \in Int /\ length \in Nat /\ clock - start + d <= length
  BY <1>1, <1>2 DEF AtLeast
<1>4. BucketOK(bucket[k], rate, period, clock) /\ Paid(bucket[k], n, start, d, rate, period)
  BY DEF BucketsOK, PaidAt
<1>5. n <= Capacity(rate) + (length + Interval(rate, period) - 1) \div Interval(rate, period)
  BY <1>1, <1>3, <1>4, PaidIsBounded
<1> QED
  BY <1>5 DEF Most

\* Those admitted are among those counted.
LEMMA AdmittedIsPaid ==
  ASSUME TypeOK, BucketsOK, NEW k \in Keys, NEW n \in Nat, NEW m \in Nat, m <= n,
         NEW start \in Int, PaidAt(k, n, start)
  PROVE  PaidAt(k, m, start)
<1> SUFFICES ASSUME RateOf(k[1]) > 0 PROVE PaidAt(k, m, start)
  BY DEF PaidAt
<1>1. /\ RateOf(k[1]) \in Nat \ {0} /\ PeriodOf(k[1]) \in Nat \ {0}
      /\ setting.maxDelay \in Nat /\ clock \in Nat
  BY Settled, KindOfKey DEF TypeOK
<1> QED
  BY <1>1, FewerArePaid DEF PaidAt, BucketsOK

(***************************************************************************)
(* The rates of a participant (AllowParticipantSubmit) hold for any number *)
(* of its requests in flight, whatever was lost, refused or late, and for  *)
(* every configuration of the limits.                                      *)
(***************************************************************************)
THEOREM ParticipantRatesHold == Spec => []ParticipantRates
<1>1. AdmissionInv => ParticipantRates
  <2> SUFFICES ASSUME AdmissionInv, NEW p \in Participants
               PROVE  /\ RateOf("min") > 0 => admitted[p] <= Most("min", 3)
                      /\ RateOf("hour") > 0 => admitted[p] <= Most("hour", 2)
    BY DEF ParticipantRates
  <2>1. /\ TypeOK /\ BucketsOK
        /\ PaidAt(<<"hour", p>>, HourCount(p), since - setting.maxDelay)
        /\ PaidAt(<<"min", p>>, MinCount(p), since - 2 * setting.maxDelay)
    BY DEF AdmissionInv, AdmittedPaid, HourCount, MinCount
  <2>2. /\ HourCount(p) \in Nat /\ admitted[p] <= HourCount(p)
        /\ MinCount(p) \in Nat /\ admitted[p] <= MinCount(p) /\ admitted[p] \in Nat
    BY <2>1, CountsAreNumbers, FS_CardinalityType DEF HourCount, MinCount
  <2>3. /\ <<"hour", p>> \in Keys /\ <<"hour", p>>[1] = "hour"
        /\ <<"min", p>> \in Keys /\ <<"min", p>>[1] = "min"
    BY DEF Keys
  <2>4. /\ since - setting.maxDelay \in Int /\ since - 2 * setting.maxDelay \in Int
        /\ since - setting.maxDelay = since - (2 * setting.maxDelay - setting.maxDelay)
        /\ since - 2 * setting.maxDelay = since - (3 * setting.maxDelay - setting.maxDelay)
    BY <2>1, Settled DEF TypeOK
  <2>5. PaidAt(<<"hour", p>>, admitted[p], since - (2 * setting.maxDelay - setting.maxDelay))
    BY <2>1, <2>2, <2>3, <2>4, AdmittedIsPaid
  <2>6. PaidAt(<<"min", p>>, admitted[p], since - (3 * setting.maxDelay - setting.maxDelay))
    BY <2>1, <2>2, <2>3, <2>4, AdmittedIsPaid
  <2> QED
    BY <2>1, <2>2, <2>3, <2>5, <2>6, PaidIsMost
<1> QED
  BY <1>1, AdmissionInvariant, PTL

(***************************************************************************)
(* The rate of an address (ExtractClientIP, AllowIPSubmit) holds for every *)
(* client behind it, whichever headers they send, directly or through a    *)
(* proxy, and however many requests run at the same time.                  *)
(***************************************************************************)
THEOREM SenderRateHolds == Spec => []SenderRate
<1>1. AdmissionInv => SenderRate
  <2> SUFFICES ASSUME AdmissionInv, NEW a \in Senders, RateOf("ip") > 0
               PROVE  admitted[a] <= Most("ip", 1)
    BY DEF SenderRate
  <2>1. TypeOK /\ BucketsOK /\ PaidAt(<<"ip", a>>, admitted[a], since)
    BY DEF AdmissionInv, AdmittedPaid
  <2>2. admitted[a] \in Nat /\ since = since - (1 * setting.maxDelay - setting.maxDelay)
    BY <2>1, Settled DEF TypeOK
  <2>3. <<"ip", a>> \in Keys /\ <<"ip", a>>[1] = "ip"
    BY DEF Keys, Addresses
  <2> QED
    BY <2>1, <2>2, <2>3, PaidIsMost
<1> QED
  BY <1>1, AdmissionInvariant, PTL

-----------------------------------------------------------------------------
(* The refinement of TokenBucket, key by key.                              *)

LEMMA SameReadings ==
  ASSUME TypeOK, NEW c \in Settings, NEW k \in Keys, setting = c
  PROVE  Bucket(c, k)!Readings = Recent
  BY Settled DEF TypeOK, Bucket!Readings, Bucket!AtLeast, Recent

LEMMA SameScript ==
  ASSUME NEW c \in Settings, NEW k \in Keys, setting = c, NEW now
  PROVE  Bucket(c, k)!AnswerTo(now) = AnswerAt(k, now)
  BY DEF AnswerAt, RateOf, PeriodOf, tokenBucket, Refilled, Expired, RetrySeconds, TimeToLive,
         Interval, Capacity, Cost, AtLeast, Bucket!AnswerTo, Bucket!tokenBucket,
         Bucket!Refilled, Bucket!Expired, Bucket!RetrySeconds, Bucket!TimeToLive,
         Bucket!Interval, Bucket!Capacity, Bucket!Cost, Bucket!AtLeast

LEMMA KeyStep ==
  ASSUME TypeOK, RequestsOK, [Next]_vars, NEW c \in Settings, NEW k \in Keys,
         setting = c, c.rate[k[1]] > 0
  PROVE  [Bucket(c, k)!BucketNext]_(Bucket(c, k)!bucketVars)
<1>1. RateOf(k[1]) > 0
  BY DEF RateOf
<1>2. CASE clock' = clock /\ bucket'[k] = bucket[k]
  BY <1>2 DEF Bucket!bucketVars
<1>3. CASE clock' = clock /\ Ran(k)
  <2>1. PICK now \in Recent : bucket'[k] = AnswerAt(k, now).bucket
    BY <1>3 DEF Ran
  <2>2. now \in Bucket(c, k)!Readings /\ bucket'[k] = Bucket(c, k)!AnswerTo(now).bucket
    BY <2>1, SameReadings, SameScript
  <2> QED
    BY <1>3, <2>2 DEF Bucket!BucketNext, Bucket!BucketCall
<1>4. CASE clock < MaxTime /\ clock' = clock + 1 /\ bucket'[k] = bucket[k]
  BY <1>4 DEF Bucket!BucketNext, Bucket!BucketTick
<1> QED
  BY <1>1, <1>2, <1>3, <1>4, KeysStep

(***************************************************************************)
(* Every key of the shared Redis is a token bucket (tokenBucket): what the *)
(* chain of limits, the other keys, lost replies and retries do to it are  *)
(* calls of TokenBucket or nothing, for any setting.                       *)
(***************************************************************************)
THEOREM EveryKeyIsABucket == Spec => KeysAreBuckets
<1>1. Init => \A c \in Settings, k \in Keys : Bucket(c, k)!BucketInit
  BY DEF Init, NoBucket, Bucket!BucketInit, Bucket!NoBucket
<1>2. AdmissionInv /\ [Next]_vars =>
        [\A c \in Settings, k \in Keys :
           setting = c /\ c.rate[k[1]] > 0 =>
             [Bucket(c, k)!BucketNext]_(Bucket(c, k)!bucketVars)]_vars
  BY KeyStep DEF AdmissionInv
<1> QED
  BY <1>1, <1>2, AdmissionInvariant, PTL DEF Spec, KeysAreBuckets

-----------------------------------------------------------------------------
(* Patience.  A refusal by a limit makes the client wait as long as a      *)
(* token of that limit takes, so at its next attempt all limits that are   *)
(* not slower serve it: only a slower one can refuse next.                 *)

\* How long a token of a limit takes to grow back.
Pace(kind) == Interval(RateOf(kind), PeriodOf(kind))

\* The bucket has a token for whoever reads the clock at time n or later.
Serves(k, n) ==
  RateOf(k[1]) > 0 /\ ~Expired(bucket[k], clock) =>
    bucket[k].tokens >= 1 \/ bucket[k].ts + Pace(k[1]) <= n

\* The keys a client can meet at a limit, and the limits still before it.
Meets(p, kind) == {k \in Keys : k[1] = kind /\ (kind = "ip" \/ k[2] = p)}
Ahead(at) ==
  IF at = "min" THEN Limits ELSE IF at = "hour" THEN {"hour", "ip"} ELSE {"ip"}

\* The client's requests under way.
Mine(p) == {s \in Open : request[s].participant = p}

\* The limits in S serve p, in the request it has sent or in its next one.
Served(p, S) ==
  \A kind \in S : \A k \in Meets(p, kind) :
    /\ Mine(p) = {} => Serves(k, notBefore[p])
    /\ \A s \in Mine(p) : kind \in Ahead(request[s].at) => Serves(k, request[s].entered)

\* With a limit, S has all that are not slower.
Quickest(S) ==
  \A kind \in S, other \in Limits :
    RateOf(kind) > 0 /\ (RateOf(other) > 0 /\ Pace(other) <= Pace(kind) => other \in S)

\* Each refusal in a row came from another limit, and those serve it next.
Patience(p) ==
  \E S \in SUBSET Limits : refusals[p] <= Cardinality(S) /\ Quickest(S) /\ Served(p, S)

PatienceInv ==
  /\ notBefore \in [Patient -> Nat] /\ refusals \in [Patient -> Nat]
  /\ \A p \in Patient : \A s, t \in Mine(p) : s = t
  /\ \A p \in Patient : Patience(p)

\* Three limits: a proper superset of some of them has at least one more.
LEMMA LimitsCount ==
  ASSUME NEW S \in SUBSET Limits
  PROVE  /\ Cardinality(S) \in Nat /\ Cardinality(S) <= Cardinality(Limits)
         /\ Cardinality(Limits) \in Nat /\ Cardinality({}) = 0
         /\ \A T \in SUBSET Limits : \A x \in T \ S :
              S \subseteq T => Cardinality(S) + 1 <= Cardinality(T)
<1>1. IsFiniteSet(Limits)
  <2>1. IsFiniteSet({"min"} \cup {"hour"} \cup {"ip"})
    BY FS_Singleton, FS_Union
  <2> QED
    BY <2>1, Zenon DEF Limits
<1>2. \A T \in SUBSET Limits : IsFiniteSet(T)
  BY <1>1, FS_Subset
<1>3. Cardinality({}) = 0
  BY FS_EmptySet
<1>4. ASSUME NEW T \in SUBSET Limits, NEW x \in T \ S, S \subseteq T
      PROVE  Cardinality(S) + 1 <= Cardinality(T)
  <2>1. S \subseteq T \ {x} /\ IsFiniteSet(T)
    BY <1>2, <1>4
  <2> QED
    BY <2>1, Counting
<1> QED
  BY <1>1, <1>3, <1>4, Counting

\* A token of an enabled limit takes some time to grow back.
LEMMA PaceIsPositive ==
  ASSUME TypeOK, NEW kind \in Limits, RateOf(kind) > 0
  PROVE  Pace(kind) \in Nat \ {0}
  BY Settled, IntervalPositive DEF Pace

\* A bucket that serves a caller grants its call.
LEMMA ServesGrants ==
  ASSUME TypeOK, BucketsOK, NEW k \in Keys, RateOf(k[1]) > 0, NEW n \in Nat, Serves(k, n),
         NEW now \in Recent, n <= now
  PROVE  AnswerAt(k, now).retryAfter = 0
<1> DEFINE b == bucket[k]
           rate == RateOf(k[1])
           period == PeriodOf(k[1])
           r == Refilled(b, rate, period, now, clock)
<1>1. /\ k[1] \in Limits /\ rate \in Nat \ {0} /\ period \in Nat \ {0}
      /\ clock \in Nat /\ now \in 0..clock
      /\ Interval(rate, period) \in Nat \ {0}
  BY Settled, KindOfKey, IntervalPositive DEF TypeOK, Recent
<1>2. r.tokens >= 1
  <2>1. CASE Expired(b, clock)
    BY <1>1, <2>1 DEF Refilled, Capacity
  <2>2. CASE ~Expired(b, clock)
    <3> DEFINE refill == (now - b.ts) \div Interval(rate, period)
    <3>1. b.tokens \in 0..rate /\ b.ts \in Nat
      BY <1>1, <2>2 DEF BucketsOK, BucketOK, Kept, Expired, NoBucket
    <3>2. refill \in Int /\ (b.ts + Interval(rate, period) <= now => 1 <= refill)
      BY <1>1, <3>1, Quotient, QuotientAtLeast
    <3>3. b.tokens >= 1 \/ 1 <= refill
      BY <1>1, <2>2, <3>1, <3>2 DEF Serves, Pace
    <3>4. r.tokens = IF refill > 0
                     THEN IF b.tokens + refill > rate THEN rate ELSE b.tokens + refill
                     ELSE b.tokens
      BY <2>2 DEF Refilled, Capacity
    <3> HIDE DEF refill, r
    <3> QED
      BY <1>1, <3>1, <3>2, <3>3, <3>4
  <2> QED
    BY <2>1, <2>2
<1> QED
  BY <1>2 DEF AnswerAt, tokenBucket, Cost

\* A refusal: the bucket stays, and the wait lasts for a token of the limit.
LEMMA RefusalWaits ==
  ASSUME TypeOK, BucketsOK, NEW k \in Keys, RateOf(k[1]) > 0, NEW now \in Recent,
         AnswerAt(k, now).retryAfter > 0
  PROVE  /\ AnswerAt(k, now).bucket = bucket[k]
         /\ AnswerAt(k, now).retryAfter \in Nat
         /\ AnswerAt(k, now).retryAfter * Second >= Pace(k[1])
<1> DEFINE rate == RateOf(k[1])
           period == PeriodOf(k[1])
<1>1. /\ rate \in Nat \ {0} /\ period \in Nat \ {0} /\ clock \in Nat /\ setting.maxDelay \in Nat
      /\ setting.maxDelay <= Interval(rate, period) * rate
      /\ Interval(rate, period) \in Nat \ {0}
  BY Settled, KindOfKey, IntervalPositive DEF TypeOK
<1>2. Interval(rate, period) * rate \in Nat
  BY <1>1
<1>3. now \in 0..clock /\ clock - now <= Interval(rate, period) * rate
  BY <1>1, <1>2 DEF Recent
<1>4. BucketOK(bucket[k], rate, period, clock)
  BY DEF BucketsOK
<1>5. tokenBucket(bucket[k], rate, period, now, clock).retryAfter # 0
  BY DEF AnswerAt
<1> QED
  BY <1>1, <1>3, <1>4, <1>5, RefusalIsHonest DEF AnswerAt, Pace

\* After the wait for a limit, no quicker one is empty.
LEMMA WaitIsEnough ==
  ASSUME TypeOK, BucketsOK, NEW k \in Keys, NEW n \in Nat,
         RateOf(k[1]) > 0 => clock + Pace(k[1]) <= n
  PROVE  Serves(k, n)
<1> SUFFICES ASSUME RateOf(k[1]) > 0, ~Expired(bucket[k], clock)
             PROVE  bucket[k].ts + Pace(k[1]) <= n
  BY DEF Serves
<1>1. clock \in Nat /\ Pace(k[1]) \in Nat
  BY KindOfKey, PaceIsPositive DEF TypeOK
<1>2. bucket[k].ts \in Nat /\ bucket[k].ts <= clock
  BY <1>1 DEF BucketsOK, BucketOK, Kept, Expired, NoBucket
<1> QED
  BY <1>1, <1>2

\* A client that was just served or disturbed starts counting again.
LEMMA StartsAfresh ==
  ASSUME NEW p, refusals'[p] = 0
  PROVE  Patience(p)'
<1>1. {} \in SUBSET Limits /\ 0 <= Cardinality({})
  BY LimitsCount
<1> QED
  BY <1>1 DEF Patience, Quickest, Served

\* A bucket nobody touched serves as before, and later callers too.
LEMMA StillServes ==
  ASSUME TypeOK, BucketsOK, NEW k \in Keys, setting' = setting, bucket'[k] = bucket[k],
         clock' \in {clock, clock + 1}, NEW n \in Nat, NEW m \in Nat, n <= m, Serves(k, n)
  PROVE  Serves(k, m)'
<1> SUFFICES ASSUME RateOf(k[1]) > 0, ~Expired(bucket[k], clock')
             PROVE  bucket[k].tokens >= 1 \/ bucket[k].ts + Pace(k[1]) <= m
  BY DEF Serves, RateOf, PeriodOf, Pace
<1>1. clock \in Nat /\ Pace(k[1]) \in Nat
  BY KindOfKey, PaceIsPositive DEF TypeOK
<1>2. /\ ~Expired(bucket[k], clock)
      /\ bucket[k].ts \in Nat
  BY <1>1 DEF BucketsOK, BucketOK, Kept, Expired, NoBucket
<1> QED
  BY <1>1, <1>2 DEF Serves

\* The settings do not change, so neither does the order of the limits.
LEMMA QuickestStays ==
  ASSUME setting' = setting, NEW S, Quickest(S)
  PROVE  Quickest(S)'
  BY DEF Quickest, Pace, RateOf, PeriodOf

\* What others do at other keys, and the passing of time, change nothing.
LEMMA LeftAlone ==
  ASSUME TypeOK, BucketsOK, PatienceInv, NEW p \in Patient,
         setting' = setting, clock' \in {clock, clock + 1},
         \A kind \in Limits : \A k \in Meets(p, kind) : bucket'[k] = bucket[k],
         Mine(p)' = Mine(p), \A s \in Mine(p) : request'[s] = request[s],
         notBefore'[p] = notBefore[p], refusals'[p] = refusals[p]
  PROVE  Patience(p)'
<1> PICK S \in SUBSET Limits : refusals[p] <= Cardinality(S) /\ Quickest(S) /\ Served(p, S)
  BY DEF PatienceInv, Patience
<1>1. /\ notBefore[p] \in Nat
      /\ \A s \in Mine(p) : request[s].entered \in Nat
  BY OpenRequest DEF PatienceInv, Mine, Requests
<1>2. ASSUME NEW kind \in S, NEW k \in Meets(p, kind), NEW n \in Nat, Serves(k, n)
      PROVE  Serves(k, n)'
  BY <1>2, StillServes DEF Meets
<1>3. Served(p, S)'
  BY <1>1, <1>2 DEF Served, Meets
<1> QED
  BY <1>3, QuickestStays DEF Patience

\* A call concerns a client when it is its own or at its address's limit.
LEMMA MeetsOnly ==
  ASSUME NEW p, NEW r \in Requests, NEW kind \in Limits, Key(r) \in Meets(p, kind)
  PROVE  kind = r.at /\ (r.participant = p \/ r.at = "ip")
<1>1. Key(r)[1] = r.at
  BY KeyOfRequest
<1>2. r.at # "ip" => Key(r)[2] = r.participant
  BY DEF Key
<1> QED
  BY <1>1, <1>2 DEF Meets

\* A new request of the client is not sent before its time.
LEMMA PatienceReceive ==
  ASSUME TypeOK, BucketsOK, PatienceInv, NEW p \in Patient,
         NEW s \in Slots, NEW q \in Participants, NEW a \in Senders, Receive(s, q, a)
  PROVE  Patience(p)'
<1> DEFINE r == [at |-> "min", entered |-> clock, participant |-> q, sender |-> a, address |-> a]
<1>1. /\ s \notin Open /\ request' = [request EXCEPT ![s] = r]
      /\ UNCHANGED <<setting, clock, bucket>> /\ UNCHANGED <<notBefore, refusals>>
  BY ReceiveIs DEF Receive
<1>2. r # NoRequest /\ DOMAIN request = Slots
  BY DEF TypeOK, NoRequest
<1>3. CASE q # p
  <2>1. Mine(p)' = Mine(p) /\ \A t \in Mine(p) : request'[t] = request[t]
    BY <1>1, <1>2, <1>3 DEF Mine, Open
  <2> QED
    BY <1>1, <2>1, LeftAlone
<1>4. CASE q = p
  <2>1. Mine(p) = {} /\ notBefore[p] <= clock
    BY <1>4 DEF Receive, Mine
  <2>2. Mine(p)' = {s} /\ request'[s].entered = clock
    BY <1>1, <1>2, <1>4, <2>1 DEF Mine, Open
  <2> PICK S \in SUBSET Limits : refusals[p] <= Cardinality(S) /\ Quickest(S) /\ Served(p, S)
    BY DEF PatienceInv, Patience
  <2>3. notBefore[p] \in Nat /\ clock \in Nat
    BY DEF PatienceInv, TypeOK
  <2>4. ASSUME NEW kind \in S, NEW k \in Meets(p, kind) PROVE Serves(k, clock)'
    <3>1. Serves(k, notBefore[p]) /\ k \in Keys
      BY <2>1 DEF Served, Meets
    <3>2. Serves(k, clock') <=> Serves(k, clock)
      BY <1>1
    <3> QED
      BY <1>1, <2>1, <2>3, <3>1, StillServes
  <2>5. Served(p, S)'
    BY <1>1, <2>2, <2>4 DEF Served, Meets
  <2> QED
    BY <1>1, <2>5, QuickestStays DEF Patience
<1> QED
  BY <1>3, <1>4

\* Somebody else's call: at its own buckets, or refused at an address, or it
\* got the address's token.
LEMMA PatienceOthers ==
  ASSUME TypeOK, RequestsOK, BucketsOK, PatienceInv, NEW p \in Patient,
         NEW s \in Open, request[s].participant # p, Allow(s) \/ ReplyLost(s)
  PROVE  Patience(p)'
<1> DEFINE r == request[s]
           k == Key(r)
<1>1. r \in Requests /\ k \in Keys /\ k[1] = r.at /\ DOMAIN bucket = Keys /\ clock \in Nat
      /\ DOMAIN request = Slots /\ s \in Slots
  BY OpenRequest, KeyOfRequest DEF TypeOK, Open
<1>2. /\ UNCHANGED <<setting, clock>> /\ notBefore'[p] = notBefore[p]
      /\ refusals'[p] = refusals[p] \/ refusals'[p] = 0
  <2>1. notBefore \in [Patient -> Nat] /\ refusals \in [Patient -> Nat]
    BY DEF PatienceInv
  <2> QED
    BY <2>1 DEF Allow, ReplyLost, Pass, Refuse, Disturbed
<1> SUFFICES ASSUME refusals'[p] # 0 PROVE Patience(p)'
  BY StartsAfresh
<1>3. \A l \in Keys \ {k} : bucket'[l] = bucket[l]
  BY <1>1 DEF Allow, ReplyLost
<1>4. r.at = "ip" => bucket'[k] = bucket[k]
  <2> SUFFICES ASSUME r.at = "ip" PROVE bucket'[k] = bucket[k]
    OBVIOUS
  <2>1. After(r).at = "done" /\ Disturbed(r)[p] = 0
    BY <1>1, AfterRequest DEF Disturbed
  <2>2. ~Pass(s, r) /\ ~ReplyLost(s)
    BY <2>1 DEF Pass, ReplyLost
  <2>3. PICK now \in r.entered..clock :
               /\ RateOf(r.at) > 0 /\ AnswerAt(k, now).retryAfter > 0
               /\ bucket' = [bucket EXCEPT ![k] = AnswerAt(k, now).bucket]
    BY <1>1, <2>2 DEF Allow, AnswerAt
  <2> QED
    BY <1>1, <2>3, RecentReadings, RefusalWaits
<1>5. \A kind \in Limits : \A l \in Meets(p, kind) : bucket'[l] = bucket[l]
  BY <1>1, <1>3, <1>4, MeetsOnly DEF Meets
<1>6. \E x : /\ request' = [request EXCEPT ![s] = x]
             /\ x = NoRequest \/ x.participant # p
  <2>1. request = [request EXCEPT ![s] = r]
    BY <1>1 DEF TypeOK
  <2>2. After(r).participant = r.participant
    BY <1>1, AfterRequest
  <2> QED
    BY <2>1, <2>2 DEF Allow, ReplyLost, Pass, Refuse
<1>7. Mine(p)' = Mine(p) /\ \A t \in Mine(p) : request'[t] = request[t]
  BY <1>1, <1>6 DEF Mine, Open
<1> QED
  BY <1>2, <1>5, <1>7, LeftAlone

\* The client's own call at a bucket other than the last: that limit is
\* behind it, those ahead still serve it.
LEMMA PatiencePasses ==
  ASSUME TypeOK, RequestsOK, BucketsOK, PatienceInv, NEW p \in Patient,
         NEW s \in Mine(p), Allow(s), Pass(s, request[s]), notBefore' = notBefore
  PROVE  Patience(p)'
<1> DEFINE r == request[s]
           k == Key(r)
<1>1. /\ s \in Open /\ s \in Slots /\ r \in Requests /\ r.participant = p
      /\ k \in Keys /\ k[1] = r.at /\ DOMAIN bucket = Keys /\ clock \in Nat
      /\ DOMAIN request = Slots /\ UNCHANGED <<setting, clock>>
  BY OpenRequest, KeyOfRequest DEF TypeOK, Open, Mine, Allow
<1>2. CASE r.at = "ip"
  <2>1. refusals'[p] = 0
    BY <1>1, <1>2, AfterRequest DEF Pass
  <2> QED
    BY <2>1, StartsAfresh
<1>3. CASE r.at # "ip"
  <2>1. /\ After(r) \in Requests /\ After(r).participant = p /\ After(r).entered = clock
        /\ After(r).at = "hour" <=> r.at = "min"
        /\ After(r).at = "ip" <=> r.at = "hour"
    BY <1>1, <1>3, AfterRequest
  <2>2. request' = [request EXCEPT ![s] = After(r)] /\ refusals'[p] = refusals[p]
    BY <1>1, <1>3, AfterRequest DEF Pass, Disturbed
  <2>3. After(r) # NoRequest
    BY <2>1 DEF Requests, NoRequest, Limits
  <2>4. Mine(p)' = {s} /\ request'[s] = After(r)
    <3>1. \A t \in Mine(p) : t = s
      BY DEF PatienceInv
    <3> QED
      BY <1>1, <2>1, <2>2, <2>3, <3>1 DEF Mine, Open
  <2> PICK S \in SUBSET Limits : refusals[p] <= Cardinality(S) /\ Quickest(S) /\ Served(p, S)
    BY DEF PatienceInv, Patience
  <2>5. \A l \in Keys \ {k} : bucket'[l] = bucket[l]
    BY <1>1 DEF Allow
  <2>6. r.entered \in Nat /\ r.entered <= clock
    BY <1>1 DEF Requests, RequestsOK
  <2>7. ASSUME NEW kind \in S, NEW l \in Meets(p, kind), kind \in Ahead(After(r).at)
        PROVE  Serves(l, clock)'
    <3>1. kind \in Ahead(r.at) /\ kind # r.at
      BY <1>1, <1>3, <2>1, <2>7 DEF Ahead, Limits, Requests
    <3>2. l \in Keys /\ l # k /\ Serves(l, r.entered)
      BY <1>1, <3>1 DEF Served, Meets
    <3> QED
      BY <1>1, <2>5, <2>6, <3>2, StillServes
  <2>8. Served(p, S)'
    BY <1>1, <2>1, <2>4, <2>7 DEF Served, Meets
  <2> QED
    BY <1>1, <2>2, <2>8, QuickestStays DEF Patience
<1> QED
  BY <1>2, <1>3

\* The client is refused: by a limit that is slower than those before.
LEMMA PatienceRefused ==
  ASSUME TypeOK, RequestsOK, BucketsOK, PatienceInv, NEW p \in Patient,
         NEW s \in Mine(p), RateOf(request[s].at) > 0,
         NEW now \in request[s].entered..clock,
         AnswerAt(Key(request[s]), now).retryAfter > 0,
         bucket' = [bucket EXCEPT ![Key(request[s])] = AnswerAt(Key(request[s]), now).bucket],
         Refuse(s, request[s], AnswerAt(Key(request[s]), now).retryAfter),
         UNCHANGED <<setting, clock>>
  PROVE  Patience(p)'
<1> DEFINE r == request[s]
           k == Key(r)
           wait == AnswerAt(k, now).retryAfter
<1>0. PICK T : T = {kind \in Limits : RateOf(kind) > 0 /\ Pace(kind) <= Pace(r.at)}
  OBVIOUS
<1>1. /\ s \in Open /\ s \in Slots /\ r \in Requests /\ r.participant = p /\ r.at \in Limits
      /\ k \in Keys /\ k[1] = r.at /\ DOMAIN bucket = Keys /\ clock \in Nat
      /\ DOMAIN request = Slots /\ r.entered \in Nat
  BY OpenRequest, KeyOfRequest DEF TypeOK, Open, Mine, Requests
<1>2. now \in Recent
  BY <1>1, RecentReadings
<1>3. AnswerAt(k, now).bucket = bucket[k] /\ wait \in Nat /\ wait * Second >= Pace(r.at)
  BY <1>1, <1>2, RefusalWaits
<1>4. \A l \in Keys : bucket'[l] = bucket[l]
  BY <1>1, <1>3
<1> PICK S \in SUBSET Limits : refusals[p] <= Cardinality(S) /\ Quickest(S) /\ Served(p, S)
  BY DEF PatienceInv, Patience
<1>5. r.at \notin S
  <2> SUFFICES ASSUME r.at \in S PROVE FALSE
    OBVIOUS
  <2>1. k \in Meets(p, r.at)
    BY <1>1 DEF Meets, Key
  <2>2. r.at \in Ahead(r.at)
    BY <1>1 DEF Ahead, Limits
  <2>3. Serves(k, r.entered)
    BY <1>1, <2>1, <2>2 DEF Served
  <2>4. r.entered <= now
    BY <1>1
  <2> QED
    BY <1>1, <1>2, <2>3, <2>4, ServesGrants
<1>6. \A kind \in Limits : RateOf(kind) > 0 => Pace(kind) \in Nat
  BY PaceIsPositive
<1>7. T \in SUBSET Limits /\ r.at \in T \ S /\ S \subseteq T
  BY <1>0, <1>1, <1>5, <1>6 DEF Quickest
<1>8. Quickest(T)'
  <2>1. Quickest(T)
    BY <1>0, <1>1, <1>6 DEF Quickest
  <2> QED
    BY <2>1, QuickestStays
<1>9. /\ Mine(p)' = {} /\ refusals'[p] = refusals[p] + 1 /\ refusals[p] \in Nat
      /\ notBefore'[p] = clock + wait * Second
  <2>1. \A t \in Mine(p) : t = s
    BY DEF PatienceInv
  <2>2. request' = [request EXCEPT ![s] = NoRequest]
    BY DEF Refuse
  <2>3. Mine(p)' = {}
    BY <1>1, <2>1, <2>2 DEF Mine, Open
  <2> QED
    BY <1>1, <2>3 DEF Refuse, PatienceInv
<1>10. PICK n \in Nat : n = clock + wait * Second
  BY <1>1, <1>3, BucketScriptAssumption
<1>11. ASSUME NEW kind \in T, NEW l \in Meets(p, kind) PROVE Serves(l, n)'
  <2>1. l \in Keys /\ l[1] = kind
    BY DEF Meets
  <2>2. clock + Pace(kind) <= n
    <3>1. wait * Second \in Nat
      BY <1>3, BucketScriptAssumption
    <3>2. kind \in Limits /\ RateOf(kind) > 0 /\ Pace(kind) <= Pace(r.at)
      BY <1>0
    <3>3. Pace(kind) \in Nat /\ Pace(r.at) \in Nat
      BY <1>1, <1>6, <3>2
    <3> HIDE DEF wait
    <3> QED
      BY <1>1, <1>3, <1>10, <3>1, <3>2, <3>3
  <2>3. Serves(l, n)
    BY <2>1, <2>2, WaitIsEnough
  <2> QED
    BY <1>4, <2>1, <2>3, StillServes
<1>12. Served(p, T)'
  BY <1>9, <1>10, <1>11 DEF Served, Meets
<1>13. refusals'[p] <= Cardinality(T)
  <2>1. Cardinality(S) \in Nat /\ Cardinality(T) \in Nat /\ Cardinality(S) + 1 <= Cardinality(T)
    BY <1>7, LimitsCount
  <2> QED
    BY <1>9, <2>1
<1> QED
  BY <1>7, <1>8, <1>12, <1>13 DEF Patience

\* Every step of the limiter keeps what patience rests on.
LEMMA PatienceStep ==
  ASSUME TypeOK, RequestsOK, BucketsOK, PatienceInv, [Next]_vars
  PROVE  PatienceInv'
<1>0. /\ notBefore \in [Patient -> Nat] /\ refusals \in [Patient -> Nat] /\ clock \in Nat
      /\ DOMAIN request = Slots
  BY DEF PatienceInv, TypeOK
<1>1. setting' = setting /\ Patient' = Patient
  BY DEF Next, Receive, Allow, ReplyLost, Tick, vars, Patient
<1>2. ASSUME NEW p \in Patient PROVE Patience(p)'
  <2>1. ASSUME NEW s \in Slots, NEW q \in Participants, NEW a \in Senders, Receive(s, q, a)
        PROVE  Patience(p)'
    BY <2>1, PatienceReceive
  <2>2. CASE Tick \/ UNCHANGED vars
    <3>1. /\ clock' \in {clock, clock + 1}
          /\ UNCHANGED <<setting, bucket, request, notBefore, refusals>>
      BY <2>2 DEF Tick, vars
    <3>2. Mine(p)' = Mine(p)
      BY <3>1 DEF Mine, Open
    <3> QED
      BY <3>1, <3>2, LeftAlone
  <2>3. ASSUME NEW s \in Slots, Allow(s) \/ ReplyLost(s) PROVE Patience(p)'
    <3>1. s \in Open
      BY <2>3 DEF Allow, ReplyLost
    <3>2. CASE request[s].participant # p
      BY <2>3, <3>1, <3>2, PatienceOthers
    <3>3. CASE request[s].participant = p /\ ReplyLost(s)
      <4>1. refusals'[p] = 0
        BY <3>3 DEF ReplyLost
      <4> QED
        BY <4>1, StartsAfresh
    <3>4. CASE request[s].participant = p /\ Allow(s)
      <4>1. s \in Mine(p)
        BY <3>1, <3>4 DEF Mine
      <4>2. Key(request[s])[1] = request[s].at
        BY <3>1, OpenRequest, KeyOfRequest
      <4>3. CASE Pass(s, request[s]) /\ notBefore' = notBefore
        BY <3>4, <4>1, <4>3, PatiencePasses
      <4>4. ASSUME NEW now \in request[s].entered..clock,
                   RateOf(request[s].at) > 0,
                   AnswerAt(Key(request[s]), now).retryAfter > 0,
                   bucket' = [bucket EXCEPT ![Key(request[s])] =
                                AnswerAt(Key(request[s]), now).bucket],
                   Refuse(s, request[s], AnswerAt(Key(request[s]), now).retryAfter)
            PROVE  Patience(p)'
        <5>1. UNCHANGED <<setting, clock>>
          BY <3>4 DEF Allow
        <5> QED
          BY <4>1, <4>4, <5>1, PatienceRefused
      <4> QED
        BY <3>4, <4>2, <4>3, <4>4 DEF Allow, AnswerAt
    <3> QED
      BY <2>3, <3>2, <3>3, <3>4
  <2> QED
    BY <2>1, <2>2, <2>3 DEF Next
<1>3. notBefore' \in [Patient -> Nat] /\ refusals' \in [Patient -> Nat]
  <2>1. ASSUME NEW s \in Slots, NEW r, Pass(s, r), notBefore' = notBefore
        PROVE  notBefore' \in [Patient -> Nat] /\ refusals' \in [Patient -> Nat]
    BY <1>0, <2>1 DEF Pass, Disturbed
  <2>2. ASSUME NEW s \in Open, NEW now \in request[s].entered..clock,
               RateOf(request[s].at) > 0,
               AnswerAt(Key(request[s]), now).retryAfter > 0,
               Refuse(s, request[s], AnswerAt(Key(request[s]), now).retryAfter)
        PROVE  notBefore' \in [Patient -> Nat] /\ refusals' \in [Patient -> Nat]
    <3> DEFINE wait == AnswerAt(Key(request[s]), now).retryAfter
    <3>1. wait \in Nat
      BY <2>2, RecentReadings, OpenRequest, KeyOfRequest, RefusalWaits
    <3> HIDE DEF wait
    <3>2. clock + wait * Second \in Nat
      BY <1>0, <3>1, BucketScriptAssumption
    <3> QED
      BY <1>0, <2>2, <3>2 DEF Refuse, wait
  <2>3. ASSUME NEW s \in Slots, Allow(s)
        PROVE  notBefore' \in [Patient -> Nat] /\ refusals' \in [Patient -> Nat]
    <3>1. s \in Open /\ Key(request[s])[1] = request[s].at
      BY <2>3, OpenRequest, KeyOfRequest DEF Allow
    <3> QED
      BY <2>1, <2>2, <2>3, <3>1 DEF Allow, AnswerAt
  <2>4. ASSUME NEW s \in Slots, ReplyLost(s)
        PROVE  notBefore' \in [Patient -> Nat] /\ refusals' \in [Patient -> Nat]
    BY <1>0, <2>4 DEF ReplyLost, Disturbed
  <2>5. CASE UNCHANGED <<notBefore, refusals>>
    BY <1>0, <2>5
  <2> QED
    BY <2>3, <2>4, <2>5 DEF Next, Receive, Tick, vars
<1>4. ASSUME NEW p \in Patient, NEW s \in Mine(p)', NEW t \in Mine(p)' PROVE s = t
  <2>1. \A u, v \in Mine(p) : u = v
    BY DEF PatienceInv
  <2>2. ASSUME NEW u \in Slots, NEW q \in Participants, NEW a \in Senders, Receive(u, q, a)
        PROVE  s = t
    BY <1>0, <1>4, <2>1, <2>2, ReceiveIs DEF Receive, Mine, Open
  <2>3. CASE Mine(p)' \subseteq Mine(p)
    BY <1>4, <2>1, <2>3
  <2>4. ASSUME NEW u \in Slots, Allow(u) \/ ReplyLost(u) PROVE Mine(p)' \subseteq Mine(p)
    <3>1. u \in Open /\ request[u] \in Requests
      BY <2>4, OpenRequest DEF Allow, ReplyLost
    <3>2. After(request[u]).participant = request[u].participant
      BY <1>0, <3>1, AfterRequest
    <3>3. request' \in {request, [request EXCEPT ![u] = NoRequest],
                        [request EXCEPT ![u] = After(request[u])]}
      BY <2>4 DEF Allow, ReplyLost, Pass, Refuse
    <3> QED
      BY <1>0, <3>1, <3>2, <3>3 DEF Mine, Open
  <2>5. CASE UNCHANGED request
    BY <2>3, <2>5 DEF Mine, Open
  <2> QED
    BY <2>2, <2>3, <2>4, <2>5 DEF Next, Tick, vars
<1> QED
  BY <1>1, <1>2, <1>3, <1>4 DEF PatienceInv

(***************************************************************************)
(* Who obeys Retry-After meets each limit's refusal at most once in a row  *)
(* (CreateSubmission, RateLimitError): for any rates, periods, delays and  *)
(* clients sharing an address, although a refused request has paid at the  *)
(* limits before the one that refused it.                                  *)
(***************************************************************************)
THEOREM PatienceIsRewarded == Spec => []PatienceRewarded
<1>1. Init => PatienceInv
  <2> SUFFICES ASSUME Init PROVE PatienceInv
    OBVIOUS
  <2>1. /\ notBefore \in [Patient -> Nat] /\ refusals \in [Patient -> Nat]
        /\ \A p \in Patient : Mine(p) = {} /\ refusals[p] = 0
    BY DEF Init, Mine, Open
  <2>2. {} \in SUBSET Limits /\ 0 <= Cardinality({})
    BY LimitsCount
  <2> QED
    BY <2>1, <2>2 DEF PatienceInv, Patience, Quickest, Served
<1>2. AdmissionInv /\ PatienceInv /\ [Next]_vars => PatienceInv'
  BY PatienceStep DEF AdmissionInv
<1>3. PatienceInv => PatienceRewarded
  <2> SUFFICES ASSUME PatienceInv, NEW p \in Patient PROVE refusals[p] <= Cardinality(Limits)
    BY DEF PatienceRewarded
  <2> PICK S \in SUBSET Limits : refusals[p] <= Cardinality(S)
    BY DEF PatienceInv, Patience
  <2> QED
    BY LimitsCount DEF PatienceInv
<1> QED
  BY <1>1, <1>2, <1>3, AdmissionInvariant, PTL DEF Spec
=============================================================================
