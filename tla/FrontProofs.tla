---------------------------- MODULE FrontProofs ----------------------------
(***************************************************************************)
(* What stands in front of the pipeline: an upload (Intake), the identity  *)
(* it comes with (Session), the page that shows its result (Poller) and    *)
(* the start of the processes (Startup).  The four share no state; each    *)
(* theorem is about the behaviours of one of them.                         *)
(***************************************************************************)
EXTENDS Intake, Session, Poller, Startup, BucketProofs, FiniteSetTheorems, TLAPS

-----------------------------------------------------------------------------
(* Intake.  The proof goes request by request: a request's file, row and   *)
(* reply are touched by its own handler alone, so one request's steps      *)
(* leave the others' facts as they are.                                    *)

\* OneCopy for one request, with nothing seen before the form is opened, and
\* what it leaves behind once it is over.
Placed(r) ==
  /\ pc[r] = "admit" => seen[r] = "none"
  /\ pc[r] \in {"admit", "parts", "upsert", "rename"} =>
       /\ r \notin sources \cup rows \cup mishap
       /\ r \in temps <=> seen[r] # "none"
       /\ r \in tmpPath <=> r \in temps
  /\ pc[r] \in {"upsert", "rename"} => seen[r] # "none"
  /\ pc[r] = "insert" => r \in sources /\ r \notin temps \cup rows \cup mishap
  /\ pc[r] = "respond" => r \in sources \cap rows /\ r \notin temps \cup mishap

LeftBehind(r) ==
  /\ pc[r] # "done" => reply[r] = 0
  /\ pc[r] = "done" /\ r \notin mishap =>
       /\ r \in rows <=> reply[r] = 202
       /\ r \in sources <=> r \in rows
       /\ r \notin temps
  /\ reply[r] = 202 => r \in rows /\ r \in sources
  /\ r \in rows \ mishap => r \in sources

RequestInv == TypeOK /\ \A r \in Requests : Placed(r) /\ LeftBehind(r)

-----------------------------------------------------------------------------
\* Nothing of request q is touched by a step of request r.
Untouched(q) ==
  /\ pc'[q] = pc[q] /\ seen'[q] = seen[q] /\ reply'[q] = reply[q]
  /\ q \in tmpPath' <=> q \in tmpPath
  /\ q \in temps' <=> q \in temps
  /\ q \in sources' <=> q \in sources
  /\ q \in rows' <=> q \in rows
  /\ q \in mishap' <=> q \in mishap

LEMMA OthersKeep ==
  ASSUME NEW q \in Requests, Untouched(q), Placed(q), LeftBehind(q)
  PROVE  Placed(q)' /\ LeftBehind(q)'
  BY DEF Untouched, Placed, LeftBehind

\* Answering with an error before the rename: the temporary file the handler
\* knows of is the only trace, and it goes, or the failure is on record.
LEMMA RefusalStep ==
  ASSUME TypeOK, NEW r \in Requests, Placed(r), LeftBehind(r),
         pc[r] \in {"parts", "upsert", "rename"},
         NEW code \in Codes \ {202}, Refuse(r, code), UNCHANGED <<sources, rows>>
  PROVE  /\ pc' \in [Requests -> PCs] /\ reply' \in [Requests -> Codes \cup {0}]
         /\ seen' = seen /\ tmpPath' \subseteq temps' /\ temps' \subseteq Requests
         /\ mishap' \subseteq Requests
         /\ Placed(r)' /\ LeftBehind(r)'
         /\ \A q \in Requests \ {r} : Untouched(q)
  BY DEF TypeOK, PCs, Codes, Refuse, Answer, cleanupTemp, Placed, LeftBehind, Untouched

\* A step of one request.
Handles(r) ==
  /\ TypeOK'
  /\ Placed(r)' /\ LeftBehind(r)'
  /\ \A q \in Requests \ {r} : Untouched(q)

LEMMA AdmitStep ==
  ASSUME TypeOK, NEW r \in Requests, Placed(r), LeftBehind(r), Admit(r)
  PROVE  Handles(r)
<1>1. pc[r] = "admit" /\ UNCHANGED <<read, seen, tmpPath, temps, sources, rows, mishap>>
  BY DEF Admit, disk
<1>2. CASE Goto(r, "parts")
  BY <1>1, <1>2 DEF Goto, TypeOK, PCs, Placed, LeftBehind, Untouched, Handles
<1>3. ASSUME NEW code \in {403, 429, 500}, Answer(r, code) PROVE Handles(r)
  <2>1. seen[r] = "none"
    BY <1>1 DEF Placed, TypeOK
  <2> QED
    BY <1>1, <1>3, <2>1 DEF Answer, TypeOK, PCs, Codes, Placed, LeftBehind, Untouched, Handles
<1> QED
  BY <1>2, <1>3 DEF Admit

LEMMA NextPartStep ==
  ASSUME TypeOK, NEW r \in Requests, Placed(r), LeftBehind(r), NEW p \in Part, NextPart(r, p)
  PROVE  Handles(r)
<1>1. /\ pc[r] = "parts" /\ UNCHANGED <<sources, rows>>
      /\ read' \in [Requests -> 0..MaxParts]
  BY IntakeAssumption DEF NextPart, TypeOK
<1>2. ASSUME NEW code \in Codes \ {202}, Refuse(r, code) PROVE Handles(r)
  BY <1>1, <1>2, RefusalStep DEF Handles, TypeOK
<1>3. CASE Answer(r, 400) /\ seen[r] = "none" /\ UNCHANGED <<seen, tmpPath, temps, mishap>>
  BY <1>1, <1>3 DEF Answer, TypeOK, PCs, Codes, Placed, LeftBehind, Untouched, Handles
<1>4. CASE /\ p.name # "other"
           /\ seen' = [seen EXCEPT ![r] = p.name]
           /\ tmpPath' = tmpPath \cup {r} /\ temps' = temps \cup {r}
           /\ Goto(r, "parts") /\ UNCHANGED mishap
  <2>1. p.name \in {"source_text", "source_file"}
    BY <1>4 DEF Part, Names
  <2> QED
    BY <1>1, <1>4, <2>1 DEF Goto, TypeOK, PCs, Placed, LeftBehind, Untouched, Handles
<1>5. p.body # "ok" => SaveError(p.body) \in Codes \ {202}
  BY DEF Part, Bodies, SaveError, Codes
<1>6. 400 \in Codes \ {202} /\ 500 \in Codes \ {202}
  BY DEF Codes
<1> QED
  BY <1>2, <1>3, <1>4, <1>5, <1>6 DEF NextPart, SaveStream

LEMMA FormEndStep ==
  ASSUME TypeOK, NEW r \in Requests, Placed(r), LeftBehind(r),
         NextPartFails(r) \/ LastPart(r) \/ UpsertParticipant(r)
  PROVE  Handles(r)
<1>1. /\ pc[r] \in {"parts", "upsert"} /\ UNCHANGED <<read, sources, rows>>
  BY DEF NextPartFails, LastPart, UpsertParticipant
<1>2. ASSUME NEW code \in Codes \ {202}, Refuse(r, code) PROVE Handles(r)
  BY <1>1, <1>2, RefusalStep DEF Handles, TypeOK
<1>3. ASSUME NEW step \in {"upsert", "rename"}, Goto(r, step), seen[r] # "none",
             UNCHANGED <<seen, tmpPath, temps, mishap>>
      PROVE  Handles(r)
  BY <1>1, <1>3 DEF Goto, TypeOK, PCs, Placed, LeftBehind, Untouched, Handles
<1>4. {400, 413, 500} \subseteq Codes \ {202}
  BY DEF Codes
<1> QED
  BY <1>2, <1>3, <1>4 DEF NextPartFails, LastPart, UpsertParticipant, Placed

LEMMA CommitStep ==
  ASSUME TypeOK, NEW r \in Requests, Placed(r), LeftBehind(r), Commit(r)
  PROVE  Handles(r)
<1>1. pc[r] = "rename" /\ UNCHANGED <<read, rows>>
  BY DEF Commit
<1>2. CASE Refuse(r, 500) /\ UNCHANGED sources
  <2>1. 500 \in Codes \ {202}
    BY DEF Codes
  <2> QED
    BY <1>1, <1>2, <2>1, RefusalStep DEF Handles, TypeOK
<1>3. CASE ~(Refuse(r, 500) /\ UNCHANGED sources)
  BY <1>1, <1>3 DEF Commit, Goto, Answer, TypeOK, PCs, Codes, Placed, LeftBehind, Untouched,
                    Handles
<1> QED
  BY <1>2, <1>3

LEMMA InsertStep ==
  ASSUME TypeOK, NEW r \in Requests, Placed(r), LeftBehind(r), CreateSubmissionQueued(r)
  PROVE  Handles(r)
  BY DEF CreateSubmissionQueued, DeleteSource, Goto, Answer, TypeOK, PCs, Codes, Placed,
         LeftBehind, Untouched, Handles

LEMMA RespondStep ==
  ASSUME TypeOK, NEW r \in Requests, Placed(r), LeftBehind(r), Respond(r)
  PROVE  Handles(r)
  BY DEF Respond, Answer, disk, TypeOK, PCs, Codes, Placed, LeftBehind, Untouched, Handles

LEMMA RequestStep == RequestInv /\ [Next]_vars => RequestInv'
<1> SUFFICES ASSUME RequestInv, [Next]_vars PROVE RequestInv'
  OBVIOUS
<1>1. TypeOK /\ \A r \in Requests : Placed(r) /\ LeftBehind(r)
  BY DEF RequestInv
<1>2. ASSUME NEW r \in Requests, Handles(r) PROVE RequestInv'
  BY <1>1, <1>2, OthersKeep DEF Handles, RequestInv
<1>3. CASE Crash
  BY <1>1, <1>3 DEF Crash, disk, RequestInv, TypeOK, PCs, Placed, LeftBehind
<1>4. CASE UNCHANGED vars
  BY <1>1, <1>4 DEF vars, RequestInv, TypeOK, Placed, LeftBehind
<1> QED
  BY <1>1, <1>2, <1>3, <1>4, AdmitStep, NextPartStep, FormEndStep, CommitStep, InsertStep,
     RespondStep
  DEF Next

LEMMA RequestInvariant == Spec => []RequestInv
<1>1. Init => RequestInv
  BY IntakeAssumption DEF Init, RequestInv, TypeOK, PCs, Placed, LeftBehind
<1> QED
  BY <1>1, RequestStep, PTL DEF Spec

(***************************************************************************)
(* Where the bytes of an open request are (CreateSubmission): at every     *)
(* call of the handler there is at most one copy and the handler knows of  *)
(* it, whatever the other requests, the disk and a crash do.               *)
(***************************************************************************)
THEOREM IntakeInvariant == Spec => []IntakeInv
<1>1. RequestInv => IntakeInv
  BY DEF RequestInv, Placed, IntakeInv, OneCopy
<1> QED
  BY <1>1, RequestInvariant, PTL

(***************************************************************************)
(* The early returns of CreateSubmission clean up: for any number of       *)
(* requests, an answer without a mishap left a row and a source together   *)
(* with a 202, and nothing at all with any other code.                     *)
(***************************************************************************)
THEOREM AnswersAreAllOrNothing == Spec => []AllOrNothing
<1>1. RequestInv => AllOrNothing
  BY DEF RequestInv, LeftBehind, AllOrNothing
<1> QED
  BY <1>1, RequestInvariant, PTL

(***************************************************************************)
(* A 202 is never taken back (Commit before CreateSubmissionQueued): its   *)
(* row and its source are there, and stay there through crashes and other  *)
(* requests' failures.                                                     *)
(***************************************************************************)
THEOREM AcceptedStaysDurable == Spec => []AcceptedIsDurable
<1>1. RequestInv => AcceptedIsDurable
  BY DEF RequestInv, LeftBehind, AcceptedIsDurable
<1> QED
  BY <1>1, RequestInvariant, PTL

-----------------------------------------------------------------------------
(* Session.  A cookie that was not live when the middleware resolved it is *)
(* not live later, and without a race all live cookies are the one in the  *)
(* jar.                                                                    *)

Pids == Identities \cup {"nobody"}
Cookies == [pid : Pids, expires : Nat]
PageTokens == [pid : Pids, at : Nat]
AnswerCodes == {200, 202, 403, 404}
Reqs == [stage : {"idle", "sent", "handler", "reply"}, kind : {"index", "post", "poll"},
         cookie : Cookies, token : PageTokens, id : Pids, set : Cookies,
         code : {0} \cup AnswerCodes]
Filed == [owner : Pids, page : Pids, age : Int]

SessionTypes ==
  /\ clock \in Nat /\ jar \in Cookies /\ raced \in BOOLEAN
  /\ token \in [Tabs -> PageTokens] /\ sub \in [Tabs -> Cookies]
  /\ req \in [Tabs -> Reqs] /\ filed \subseteq Filed

LiveAt(c, now) == c # NoCookie /\ now <= c.expires

\* What a request r of a page that shows s has found out by time now.
Found(r, s, now) ==
  /\ r.stage \in {"handler", "reply"} /\ LiveAt(r.cookie, now) => r.id = r.cookie.pid
  /\ r.stage \in {"sent", "handler"} => r.code = 0
  /\ r.stage # "idle" /\ r.kind = "poll" => s # NoCookie
  /\ r.stage # "idle" /\ r.set # NoCookie => ~LiveAt(r.cookie, now)

SessionInv ==
  /\ SessionTypes /\ FiledUnderPageOwner
  /\ \A t \in Tabs : Found(req[t], sub[t], clock)

LEMMA CookieTypes == NoCookie \in Cookies /\ NoToken \in PageTokens /\ Idle \in Reqs
  BY DEF AnswerCodes, NoCookie, NoToken, Idle, Cookies, PageTokens, Reqs, Pids

\* A step of one tab's request.
TabStep(t, r) ==
  /\ req' = [req EXCEPT ![t] = r]
  /\ clock' = clock /\ jar' \in Cookies /\ raced' \in BOOLEAN
  /\ token' \in [Tabs -> PageTokens] /\ sub' \in [Tabs -> Cookies]
  /\ \A u \in Tabs \ {t} : sub'[u] = sub[u]
  /\ filed' \subseteq Filed /\ FiledUnderPageOwner'

LEMMA TabStepKeeps ==
  ASSUME SessionInv, NEW t \in Tabs, NEW r \in Reqs, TabStep(t, r), Found(r, sub'[t], clock)
  PROVE  SessionInv'
<1>1. SessionTypes' /\ FiledUnderPageOwner'
  BY DEF SessionInv, SessionTypes, TabStep
<1>2. ASSUME NEW u \in Tabs PROVE Found(req'[u], sub'[u], clock')
  BY DEF SessionInv, SessionTypes, TabStep
<1> QED
  BY <1>1, <1>2 DEF SessionInv

\* A handler's answer: the page may get a new token, nothing else is new.
Answers(t, code, tok) ==
  /\ req[t].stage = "handler"
  /\ req' = [req EXCEPT ![t] = [req[t] EXCEPT !.stage = "reply", !.code = code, !.token = tok]]
  /\ clock' = clock /\ jar' = jar /\ token' = token /\ sub' = sub /\ raced' = raced
  /\ filed' \subseteq Filed /\ FiledUnderPageOwner'

LEMMA AnswerKeeps ==
  ASSUME SessionInv, NEW t \in Tabs, NEW code \in AnswerCodes, NEW tok \in PageTokens,
         Answers(t, code, tok)
  PROVE  SessionInv'
<1>1. req[t] \in Reqs /\ Found(req[t], sub[t], clock)
  BY DEF SessionInv, SessionTypes
<1> DEFINE r == [req[t] EXCEPT !.stage = "reply", !.code = code, !.token = tok]
<1>2. r \in Reqs /\ TabStep(t, r)
  BY <1>1 DEF Answers, TabStep, SessionInv, SessionTypes, Reqs
<1>3. Found(r, sub'[t], clock)
  BY <1>1 DEF Answers, Found, Reqs
<1> HIDE DEF r
<1> QED
  BY <1>2, <1>3, TabStepKeeps

LEMMA SessionStep ==
  ASSUME SessionInv, [SessionNext]_sessionVars
  PROVE  SessionInv'
<1> USE CookieTypes
<1>1. ASSUME NEW t \in Tabs, NEW kind \in {"index", "post", "poll"}, Send(t, kind),
             kind = "poll" => sub[t] # NoCookie
      PROVE  SessionInv'
  <2>1. PICK c \in Cookies : 
          req' = [req EXCEPT ![t] = [Idle EXCEPT !.stage = "sent", !.kind = kind,
                                              !.cookie = c, !.token = token[t]]]
    BY <1>1 DEF Send, SessionInv, SessionTypes
  <2> DEFINE r == [Idle EXCEPT !.stage = "sent", !.kind = kind,
                               !.cookie = c, !.token = token[t]]
  <2>2. r \in Reqs
    BY DEF SessionInv, SessionTypes, Reqs
  <2>3. TabStep(t, r)
    BY <2>1, <1>1 DEF TabStep, Send, ObserveRace, SessionInv, SessionTypes,
         FiledUnderPageOwner
  <2>4. Found(r, sub'[t], clock)
    BY <1>1 DEF Found, Send, Idle
  <2> HIDE DEF r
  <2> QED
    BY <2>2, <2>3, <2>4, TabStepKeeps
<1>2. ASSUME NEW t \in Tabs, Receive(t) PROVE SessionInv'
  <2>1. TabStep(t, Idle)
    BY <1>2 DEF TabStep, Receive, SessionInv, SessionTypes, FiledUnderPageOwner, Reqs
  <2>2. Found(Idle, sub'[t], clock)
    BY DEF Found, Idle
  <2> QED
    BY <2>1, <2>2, TabStepKeeps
<1>3. ASSUME NEW t \in Tabs, Lost(t) PROVE SessionInv'
  <2>1. TabStep(t, Idle)
    BY <1>3 DEF TabStep, Lost, SessionInv, SessionTypes, FiledUnderPageOwner
  <2>2. Found(Idle, sub'[t], clock)
    BY DEF Found, Idle
  <2> QED
    BY <2>1, <2>2, TabStepKeeps
<1>4. ASSUME NEW t \in Tabs, identityMiddleware(t) PROVE SessionInv'
  <2>0. req[t] \in Reqs /\ Found(req[t], sub[t], clock)
    BY DEF SessionInv, SessionTypes
  <2>1. PICK id \in Pids, set \in Cookies :
           /\ req' = [req EXCEPT ![t] =
                [req[t] EXCEPT !.stage = "handler", !.id = id, !.set = set]]
           /\ \/ id = req[t].cookie.pid /\ set = req[t].set /\ LiveAt(req[t].cookie, clock)
              \/ ~LiveAt(req[t].cookie, clock)
    <3>1. CASE Resolve(req[t].cookie)
      <4>1. req[t].cookie.pid \in Pids /\ req[t].set \in Cookies
        BY <2>0 DEF Reqs, Cookies
      <4>2. req' = [req EXCEPT ![t] = [req[t] EXCEPT !.stage = "handler",
                                         !.id = req[t].cookie.pid, !.set = req[t].set]]
        BY <1>4, <3>1, <2>0 DEF identityMiddleware, SessionInv, SessionTypes, Reqs
      <4> QED
        BY <4>1, <4>2, <3>1 DEF Resolve, LiveAt
    <3>2. CASE ~Resolve(req[t].cookie)
      <4>1. PICK p \in Identities : SetIdentity(t, p)
        BY <3>2, <1>4 DEF identityMiddleware
      <4> DEFINE set == [pid |-> p, expires |-> clock + CookieMaxAge]
      <4>2. p \in Pids /\ set \in Cookies
        BY SessionAssumption DEF Pids, Cookies, SessionInv, SessionTypes
      <4>3. req' = [req EXCEPT ![t] =
              [req[t] EXCEPT !.stage = "handler", !.id = p, !.set = set]]
        BY <4>1, <2>0 DEF SetIdentity, SessionInv, SessionTypes, Reqs
      <4> QED
        BY <4>2, <4>3, <3>2 DEF Resolve, LiveAt
    <3> QED
      BY <3>1, <3>2
  <2> DEFINE r == [req[t] EXCEPT !.stage = "handler", !.id = id, !.set = set]
  <2>2. r \in Reqs /\ TabStep(t, r)
    BY <2>0, <2>1, <1>4 DEF TabStep, identityMiddleware, SessionInv, SessionTypes, Reqs,
         FiledUnderPageOwner
  <2>3. Found(r, sub'[t], clock)
    BY <2>0, <2>1, <1>4 DEF Found, identityMiddleware, Reqs
  <2> HIDE DEF r
  <2> QED
    BY <2>2, <2>3, TabStepKeeps
<1>6. ASSUME NEW t \in Tabs, handleIndex(t) PROVE SessionInv'
  <2> DEFINE tok == [pid |-> req[t].id, at |-> clock]
  <2>1. req[t] \in Reqs /\ tok \in PageTokens
    BY DEF SessionInv, SessionTypes, Reqs, PageTokens
  <2>2. req' = [req EXCEPT ![t] =
          [req[t] EXCEPT !.stage = "reply", !.code = 200, !.token = tok]]
    BY <1>6, <2>1 DEF handleIndex, SessionInv, SessionTypes, Reqs
  <2> HIDE DEF tok
  <2>3. Answers(t, 200, tok)
    BY <1>6, <2>2 DEF Answers, handleIndex, SessionInv, SessionTypes, FiledUnderPageOwner
  <2> QED
    BY <2>1, <2>3, AnswerKeeps DEF AnswerCodes
<1>7. ASSUME NEW t \in Tabs, NEW code \in AnswerCodes, Reply(t, code),
             req[t].stage = "handler", UNCHANGED <<clock, jar, token, sub, raced>>,
             filed' \subseteq Filed, FiledUnderPageOwner'
      PROVE  SessionInv'
  <2>1. req[t] \in Reqs
    BY DEF SessionInv, SessionTypes
  <2> DEFINE tok == req[t].token
  <2>2. tok \in PageTokens
    BY <2>1 DEF Reqs
  <2>3. req' = [req EXCEPT ![t] =
          [req[t] EXCEPT !.stage = "reply", !.code = code, !.token = tok]]
    BY <1>7, <2>1 DEF Reply, SessionInv, SessionTypes, Reqs
  <2> HIDE DEF tok
  <2>4. Answers(t, code, tok)
    BY <1>7, <2>3 DEF Answers
  <2> QED
    BY <2>2, <2>4, AnswerKeeps
<1>8. ASSUME NEW t \in Tabs, CreateSubmission(t) PROVE SessionInv'
  <2>0. req[t] \in Reqs /\ Found(req[t], sub[t], clock) /\ req[t].stage = "handler"
    BY <1>8 DEF SessionInv, SessionTypes, CreateSubmission
  <2>1. filed' \subseteq Filed /\ FiledUnderPageOwner'
    <3>1. CASE UNCHANGED filed
      BY <3>1 DEF SessionInv, SessionTypes, FiledUnderPageOwner
    <3>2. CASE /\ VerifyCSRFToken(t)
               /\ filed' = filed \cup {[owner |-> req[t].id, page |-> req[t].token.pid,
                               age |-> clock - req[t].token.at]}
      <4>1. req[t].id = req[t].token.pid
        BY <2>0, <3>2 DEF VerifyCSRFToken, Resolve, Found, LiveAt
      <4>2. /\ req[t].id \in Pids /\ clock - req[t].token.at \in Int
            /\ clock - req[t].token.at <= CSRFTokenDuration
        BY <2>0, <3>2 DEF VerifyCSRFToken, Reqs, PageTokens, SessionInv, SessionTypes
      <4> QED
        BY <4>1, <4>2, <3>2 DEF SessionInv, SessionTypes, FiledUnderPageOwner, Filed
    <3> QED
      BY <1>8, <3>1, <3>2 DEF CreateSubmission
  <2>2. PICK code \in AnswerCodes : Reply(t, code)
    BY <1>8 DEF CreateSubmission, AnswerCodes
  <2> QED
    BY <1>7, <1>8, <2>1, <2>2 DEF CreateSubmission
<1>9. ASSUME NEW t \in Tabs, handleGetSubmission(t) PROVE SessionInv'
  <2>1. PICK code \in AnswerCodes : Reply(t, code)
    BY <1>9 DEF handleGetSubmission, AnswerCodes
  <2>2. filed' \subseteq Filed /\ FiledUnderPageOwner'
    BY <1>9 DEF handleGetSubmission, SessionInv, SessionTypes, FiledUnderPageOwner
  <2> QED
    BY <1>7, <1>9, <2>1, <2>2 DEF handleGetSubmission
<1>10. CASE Tick
  <2>1. SessionTypes' /\ FiledUnderPageOwner'
    BY <1>10 DEF Tick, ObserveRace, SessionInv, SessionTypes, FiledUnderPageOwner
  <2>2. ASSUME NEW t \in Tabs PROVE Found(req[t], sub[t], clock + 1)
    BY DEF SessionInv, SessionTypes, Found, LiveAt, Reqs, Cookies
  <2> QED
    BY <1>10, <2>1, <2>2 DEF Tick, SessionInv
<1>11. CASE UNCHANGED sessionVars
  BY <1>11 DEF sessionVars, SessionInv, SessionTypes, FiledUnderPageOwner
<1> QED
  BY <1>1, <1>2, <1>3, <1>4, <1>6, <1>8, <1>9, <1>10, <1>11
     DEF SessionNext, Visit, Submit, Poll

\* Under way without a live cookie.
Astray(r, now) == r.stage # "idle" /\ ~LiveAt(r.cookie, now)

OneIdentity ==
  ~raced =>
    /\ \A t, u \in Tabs : Astray(req[t], clock) /\ Astray(req[u], clock) => t = u
    /\ \A t \in Tabs :
         /\ Astray(req[t], clock) => ~LiveAt(jar, clock)
         /\ LiveAt(sub[t], clock) => sub[t] = jar
         /\ req[t].stage # "idle" /\ LiveAt(req[t].cookie, clock) => req[t].cookie = jar

LEMMA TwoAreMoreThanOne ==
  ASSUME NEW S, IsFiniteSet(S), NEW a \in S, NEW b \in S, a # b
  PROVE  Cardinality(S) > 1
<1>1. IsFiniteSet({a}) /\ Cardinality({a}) = 1
  BY FS_Singleton
<1>2. IsFiniteSet({a} \cup {b}) /\ Cardinality({a} \cup {b}) = 2
  <2>1. b \notin {a}
    OBVIOUS
  <2>2. /\ IsFiniteSet({a} \cup {b})
        /\ Cardinality({a} \cup {b}) =
             IF b \in {a} THEN Cardinality({a}) ELSE Cardinality({a}) + 1
    BY <1>1, FS_AddElement
  <2> QED
    BY <1>1, <2>1, <2>2
<1>3. {a} \cup {b} \subseteq S
  OBVIOUS
<1>4. Cardinality(S) \in Nat /\ Cardinality({a} \cup {b}) <= Cardinality(S)
  BY <1>3, FS_Subset, FS_CardinalityType
<1> QED
  BY <1>2, <1>4

LEMMA NoRaceNoTwo ==
  ASSUME SessionTypes', ObserveRace, ~raced',
         NEW t \in Tabs, NEW u \in Tabs, Astray(req'[t], clock'), Astray(req'[u], clock')
  PROVE  t = u /\ ~raced
<1>1. t \in Homeless' /\ u \in Homeless'
  BY DEF Homeless, Astray, LiveAt, SessionTypes, Reqs, Cookies
<1>2. IsFiniteSet(Homeless')
  BY FS_Subset, SessionAssumption DEF Homeless
<1>3. ~raced /\ ~(Cardinality(Homeless') > 1)
  BY DEF ObserveRace, SessionTypes
<1> QED
  BY <1>1, <1>2, <1>3, TwoAreMoreThanOne

\* A request that ends, or goes on with the cookie it was sent with.
GoesOn ==
  /\ clock' = clock /\ jar' = jar /\ sub' = sub /\ raced' = raced
  /\ \A u \in Tabs : \/ req'[u].stage = "idle"
                     \/ req[u].stage # "idle" /\ req'[u].cookie = req[u].cookie

LEMMA IdentityStep ==
  ASSUME SessionInv, SessionInv', OneIdentity, [SessionNext]_sessionVars
  PROVE  OneIdentity'
<1>1. CASE GoesOn
  BY <1>1 DEF GoesOn, OneIdentity, Astray
<1>2. ASSUME NEW t \in Tabs, NEW kind, Send(t, kind) PROVE OneIdentity'
  <2> SUFFICES ASSUME ~raced' PROVE OneIdentity'
    BY DEF OneIdentity
  <2>1. PICK c \in {jar} \cup (IF jar.expires < clock THEN {NoCookie} ELSE {}) :
          req' = [req EXCEPT ![t] = [Idle EXCEPT !.stage = "sent", !.kind = kind,
                                                 !.cookie = c, !.token = token[t]]]
    BY <1>2 DEF Send
  <2>2. /\ req'[t].stage # "idle" /\ req'[t].cookie = c
        /\ \A u \in Tabs \ {t} : req'[u] = req[u]
        /\ UNCHANGED <<clock, jar, sub>> /\ ObserveRace
    BY <1>2, <2>1 DEF Send, SessionInv, SessionTypes, Idle
  <2>3. LiveAt(jar, clock) => c = jar
    BY <2>1 DEF LiveAt, SessionInv, SessionTypes, Cookies
  <2>4. LiveAt(c, clock) => c = jar
    BY <2>1 DEF LiveAt
  <2>5. ~raced /\ \A a, b \in Tabs : Astray(req'[a], clock') /\ Astray(req'[b], clock') => a = b
    BY <2>2, NoRaceNoTwo DEF SessionInv, SessionTypes, ObserveRace
  <2> QED
    BY <2>2, <2>3, <2>4, <2>5 DEF OneIdentity, Astray
<1>3. ASSUME NEW t \in Tabs, Receive(t) PROVE OneIdentity'
  <2> SUFFICES ASSUME ~raced' PROVE OneIdentity'
    BY DEF OneIdentity
  <2>1. /\ ~raced /\ clock' = clock /\ req[t].stage = "reply" /\ req'[t].stage = "idle"
        /\ jar' = IF req[t].set # NoCookie THEN req[t].set ELSE jar
        /\ \A u \in Tabs \ {t} : req'[u] = req[u] /\ sub'[u] = sub[u]
        /\ sub'[t] \in {NoCookie, req[t].cookie, sub[t]}
    BY <1>3 DEF Receive, SessionInv, SessionTypes, Idle
  <2>2. req[t].set # NoCookie => Astray(req[t], clock)
    BY <2>1 DEF SessionInv, Found, Astray
  <2>3. ~LiveAt(NoCookie, clock)
    BY DEF LiveAt
  <2>4. CASE req[t].set # NoCookie
    BY <2>1, <2>2, <2>3, <2>4 DEF OneIdentity, Astray
  <2>5. CASE req[t].set = NoCookie
    BY <2>1, <2>3, <2>5 DEF OneIdentity, Astray
  <2> QED
    BY <2>4, <2>5
<1>4. CASE Tick
  <2> SUFFICES ASSUME ~raced' PROVE OneIdentity'
    BY DEF OneIdentity
  <2>1. clock' = clock + 1 /\ UNCHANGED <<req, jar, sub>> /\ ObserveRace /\ ~raced
    BY <1>4 DEF Tick, ObserveRace, SessionInv, SessionTypes
  <2>2. \A a, b \in Tabs : Astray(req'[a], clock') /\ Astray(req'[b], clock') => a = b
    BY <2>1, NoRaceNoTwo DEF SessionInv
  <2>3. ASSUME NEW c \in Cookies, LiveAt(c, clock') PROVE LiveAt(c, clock)
    BY <2>1, <2>3 DEF LiveAt, Cookies, SessionInv, SessionTypes
  <2>4. \A u \in Tabs : sub[u] \in Cookies /\ req[u].cookie \in Cookies /\ jar \in Cookies
    BY DEF SessionInv, SessionTypes, Reqs
  <2> QED
    BY <2>1, <2>2, <2>3, <2>4 DEF OneIdentity, Astray
<1>5. ASSUME NEW t \in Tabs,
             \/ Lost(t) \/ identityMiddleware(t) \/ handleIndex(t)
             \/ CreateSubmission(t) \/ handleGetSubmission(t)
      PROVE GoesOn
  <2>1. /\ clock' = clock /\ jar' = jar /\ sub' = sub /\ raced' = raced
        /\ Lost(t) \/ req[t].stage \in {"sent", "handler"}
    BY <1>5 DEF Lost, identityMiddleware, handleIndex, CreateSubmission,
         handleGetSubmission
  <2>2. CASE Lost(t)
    <3>1. req'[t].stage = "idle" /\ \A u \in Tabs \ {t} : req'[u] = req[u]
      BY <2>2 DEF Lost, Idle, SessionInv, SessionTypes
    <3> QED
      BY <2>1, <3>1 DEF GoesOn
  <2>3. ASSUME NEW p, SetIdentity(t, p)
        PROVE  req'[t].cookie = req[t].cookie /\ \A u \in Tabs \ {t} : req'[u] = req[u]
    BY <2>3 DEF SetIdentity, SessionInv, SessionTypes, Reqs
  <2>4. CASE identityMiddleware(t)
    <3>1. req'[t].cookie = req[t].cookie /\ \A u \in Tabs \ {t} : req'[u] = req[u]
      BY <2>3, <2>4 DEF identityMiddleware, SessionInv, SessionTypes, Reqs
    <3> QED
      BY <2>1, <2>4, <3>1 DEF GoesOn, identityMiddleware
  <2>5. ASSUME NEW code, Reply(t, code)
        PROVE  req'[t].cookie = req[t].cookie /\ \A u \in Tabs \ {t} : req'[u] = req[u]
    BY <2>5 DEF Reply, SessionInv, SessionTypes, Reqs
  <2>6. CASE CreateSubmission(t) \/ handleGetSubmission(t)
    BY <2>1, <2>5, <2>6 DEF GoesOn, CreateSubmission, handleGetSubmission
  <2>7. CASE handleIndex(t)
    <3>1. req'[t].cookie = req[t].cookie /\ \A u \in Tabs \ {t} : req'[u] = req[u]
      BY <2>7 DEF handleIndex, SessionInv, SessionTypes, Reqs
    <3> QED
      BY <2>1, <2>7, <3>1 DEF GoesOn, handleIndex
  <2> QED
    BY <1>5, <2>2, <2>4, <2>6, <2>7
<1>6. CASE UNCHANGED sessionVars
  BY <1>6 DEF sessionVars, OneIdentity, Astray
<1> QED
  BY <1>1, <1>2, <1>3, <1>4, <1>5, <1>6 DEF SessionNext, Visit, Submit, Poll

LEMMA PollStep ==
  ASSUME SessionInv, OneIdentity, [SessionNext]_sessionVars, NEW t \in Tabs,
         req[t].stage = "handler", req'[t].code = 404
  PROVE  raced \/ clock > sub[t].expires
<1>1. req[t] \in Reqs /\ Found(req[t], sub[t], clock) /\ req[t].code = 0 /\ sub[t] \in Cookies
      /\ clock \in Nat /\ raced \in BOOLEAN
  BY DEF SessionInv, SessionTypes, Found
<1>2. CASE handleGetSubmission(t)
  <2> SUFFICES ASSUME ~raced, ~(clock > sub[t].expires) PROVE FALSE
    OBVIOUS
  <2>1. req[t].kind = "poll" /\ sub[t].pid # req[t].id
    BY <1>1, <1>2 DEF handleGetSubmission, Reply, SessionInv, SessionTypes, Reqs
  <2>2. LiveAt(sub[t], clock)
    BY <1>1, <2>1 DEF Found, LiveAt, Cookies
  <2>3. LiveAt(req[t].cookie, clock) /\ req[t].cookie = jar /\ sub[t] = jar
    BY <2>2 DEF OneIdentity, Astray
  <2> QED
    BY <1>1, <2>1, <2>3 DEF Found
<1>3. ASSUME ~handleGetSubmission(t) PROVE FALSE
  <2>1. ASSUME NEW u \in Tabs, NEW kind, Send(u, kind) PROVE FALSE
    BY <1>1, <2>1 DEF Send, SessionInv, SessionTypes, Idle
  <2>2. ASSUME NEW u \in Tabs, Receive(u) \/ Lost(u) PROVE FALSE
    BY <1>1, <2>2 DEF Receive, Lost, SessionInv, SessionTypes, Idle
  <2>3. ASSUME NEW u \in Tabs, identityMiddleware(u) PROVE FALSE
    <3>1. u # t /\ req'[t] = req[t]
      <4>1. u # t
        BY <2>3 DEF identityMiddleware
      <4>2. ASSUME NEW p, SetIdentity(u, p) PROVE req'[t] = req[t]
        BY <4>1, <4>2 DEF SetIdentity, SessionInv, SessionTypes
      <4> QED
        BY <2>3, <4>1, <4>2 DEF identityMiddleware, SessionInv, SessionTypes
    <3> QED
      BY <1>1, <3>1
  <2>4. ASSUME NEW u \in Tabs, handleIndex(u) PROVE FALSE
    BY <1>1, <2>4 DEF handleIndex, SessionInv, SessionTypes, Reqs
  <2>5. ASSUME NEW u \in Tabs, CreateSubmission(u) PROVE FALSE
    BY <1>1, <2>5 DEF CreateSubmission, Reply, SessionInv, SessionTypes, Reqs
  <2>6. ASSUME NEW u \in Tabs, handleGetSubmission(u) PROVE FALSE
    <3>1. u # t
      BY <1>3, <2>6
    <3>2. PICK code : Reply(u, code)
      BY <2>6 DEF handleGetSubmission
    <3>3. req'[t] = req[t]
      BY <3>1, <3>2 DEF Reply, SessionInv, SessionTypes
    <3> QED
      BY <1>1, <3>3
  <2>7. CASE Tick \/ UNCHANGED sessionVars
    BY <1>1, <2>7 DEF Tick, sessionVars
  <2> QED
    BY <2>1, <2>2, <2>3, <2>4, <2>5, <2>6, <2>7 DEF SessionNext, Visit, Submit, Poll
<1> QED
  BY <1>2, <1>3

IdentityInv == SessionInv /\ OneIdentity

LEMMA IdentityInvariant ==
  SessionSpec => []IdentityInv
<1>1. SessionInit => IdentityInv
  <2> SUFFICES ASSUME SessionInit PROVE IdentityInv
    OBVIOUS
  <2>1. SessionTypes /\ FiledUnderPageOwner
    BY CookieTypes DEF SessionInit, SessionTypes, FiledUnderPageOwner
  <2>2. \A t \in Tabs : req[t].stage = "idle" /\ sub[t] = NoCookie
    BY DEF SessionInit, Idle
  <2> QED
    BY <2>1, <2>2 DEF IdentityInv, SessionInv, OneIdentity, Found, Astray, LiveAt
<1>2. IdentityInv /\ [SessionNext]_sessionVars => IdentityInv'
  BY SessionStep, IdentityStep DEF IdentityInv
<1> QED
  BY <1>1, <1>2, PTL DEF SessionSpec

(***************************************************************************)
(* Nothing is filed under an identity its page does not have               *)
(* (identityMiddleware, VerifyCSRFToken), for any number of tabs and any   *)
(* lifetimes of cookie and token: a cookie the middleware refused is still *)
(* refused when the token is compared with it.                             *)
(***************************************************************************)
THEOREM FiledUnderOwner ==
  SessionSpec => []FiledUnderPageOwner
<1>1. IdentityInv => FiledUnderPageOwner
  BY DEF IdentityInv, SessionInv
<1> QED
  BY <1>1, IdentityInvariant, PTL

(***************************************************************************)
(* A browser reads its own rows (handleGetSubmission): for any number of   *)
(* tabs, a poll is answered 404 only after two requests without a live     *)
(* cookie raced, or when the cookie of the submission has expired.         *)
(***************************************************************************)
THEOREM PollsFindTheirRow ==
  SessionSpec => PollFindsRow
<1>1. IdentityInv /\ [SessionNext]_sessionVars =>
        [\A t \in Tabs : req[t].stage = "handler" /\ req'[t].code = 404 =>
           raced \/ clock > sub[t].expires]_sessionVars
  BY PollStep DEF IdentityInv
<1> QED
  BY <1>1, IdentityInvariant, PTL DEF SessionSpec, PollFindsRow

-----------------------------------------------------------------------------
(* Poller: the result page.                                                *)

PageStates ==
  [at : {"closed", "timeout", "silent"}]
    \cup [at : {"sent", "allowed"}, polls : Nat, entered : Nat]
    \cup [at : {"answered"}, polls : Nat, entered : Nat, code : {429}]
    \cup [at : {"answered"}, polls : Nat, entered : Nat, code : {200, 500},
          status : Rows!Status]
    \cup [at : {"waiting"}, polls : Nat, due : Nat]
    \cup [at : {"shown"}, result : Rows!Status]

\* What page p says of a row whose status is s cannot change any more.
Final(p, s) ==
  /\ p.at = "shown" => p.result \in Rows!Terminal /\ s = p.result
  /\ p.at = "answered" /\ IsDecided(p) => s = p.status

PageInv ==
  /\ time \in Nat
  /\ status \in [Submissions -> Rows!Status]
  /\ page \in [Pages -> PageStates]
  /\ \A t \in Pages : Final(page[t], status[Shows[t]])

LEMMA DecidedStays ==
  ASSUME status \in [Submissions -> Rows!Status], Rows!LifecycleNext
  PROVE  /\ status' \in [Submissions -> Rows!Status]
         /\ \A s \in Submissions : status[s] \in Rows!Terminal => status'[s] = status[s]
  BY DEF Rows!LifecycleNext, Rows!Accept, Rows!Begin, Rows!Complete,
         Rows!GiveUp, Rows!Requeue,
         Rows!Active, Rows!Status, Rows!Terminal

LEMMA PageMoves ==
  ASSUME PageInv, NEW t \in Pages, NEW p \in PageStates, page' = [page EXCEPT ![t] = p],
         UNCHANGED <<status, time>>, Final(p, status[Shows[t]])
  PROVE  PageInv'
<1>1. page' \in [Pages -> PageStates]
  BY DEF PageInv
<1>2. ASSUME NEW u \in Pages PROVE Final(page'[u], status'[Shows[u]])
  BY DEF PageInv
<1> QED
  BY <1>1, <1>2 DEF PageInv

LEMMA PageStep ==
  ASSUME PageInv, [PollerNext]_pollerVars
  PROVE  PageInv'
<1>1. CASE RowMoves
  <2>1. /\ status' \in [Submissions -> Rows!Status]
        /\ \A s \in Submissions : status[s] \in Rows!Terminal => status'[s] = status[s]
        /\ UNCHANGED <<time, page>>
    BY <1>1, DecidedStays DEF RowMoves, PageInv
  <2>2. ASSUME NEW t \in Pages PROVE Final(page[t], status'[Shows[t]])
    <3>1. Shows[t] \in Submissions /\ Final(page[t], status[Shows[t]])
      BY PollerAssumption DEF PageInv
    <3> QED
      BY <2>1, <3>1 DEF Final, IsDecided, Rows!Terminal
  <2> QED
    BY <2>1, <2>2 DEF PageInv
<1>2. ASSUME NEW t \in Pages, NEW polls \in Nat, Fetch(t, polls),
             UNCHANGED <<status, time>>
      PROVE  PageInv'
  <2> DEFINE p == [at |-> "sent", polls |-> polls, entered |-> time]
  <2>1. p \in PageStates /\ Final(p, status[Shows[t]]) /\ page' = [page EXCEPT ![t] = p]
    BY <1>2 DEF Fetch, PageInv, PageStates, Final
  <2> HIDE DEF p
  <2> QED
    BY <1>2, <2>1, PageMoves
<1>3. ASSUME NEW t \in Pages, Open(t) PROVE PageInv'
  BY <1>2, <1>3 DEF Open
<1>4. ASSUME NEW t \in Pages, fetchStatus(t) PROVE PageInv'
  <2>1. page[t].at = "waiting" /\ page[t] \in PageStates
    BY <1>4 DEF fetchStatus, PageInv
  <2>2. page[t].polls + 1 \in Nat
    BY <2>1 DEF PageStates
  <2> QED
    BY <1>2, <1>4, <2>2 DEF fetchStatus
<1>5. ASSUME NEW t \in Pages, page[t].at = "sent", UNCHANGED <<status, time>>,
             page' = [page EXCEPT ![t].at = "allowed"]
      PROVE PageInv'
  <2>1. page[t] \in [at : {"sent", "allowed"}, polls : Nat, entered : Nat]
    BY <1>5 DEF PageInv, PageStates
  <2> DEFINE p == [page[t] EXCEPT !.at = "allowed"]
  <2>2. p \in PageStates /\ p.at = "allowed" /\ page' = [page EXCEPT ![t] = p]
    BY <1>5, <2>1 DEF PageStates
  <2>3. Final(p, status[Shows[t]])
    BY <2>2 DEF Final
  <2> HIDE DEF p
  <2> QED
    BY <1>5, <2>2, <2>3, PageMoves
<1>6. ASSUME NEW t \in Pages, AllowPollFails(t) PROVE PageInv'
  BY <1>5, <1>6 DEF AllowPollFails, CallFails
<1>7. ASSUME NEW t \in Pages, page[t].at \in {"sent", "allowed", "answered"}
      PROVE page[t].polls \in Nat /\ page[t].entered \in Nat
  BY <1>7 DEF PageInv, PageStates
<1>8. ASSUME NEW t \in Pages, AllowPoll(t) PROVE PageInv'
  <2> DEFINE p == [at |-> "answered", polls |-> page[t].polls, entered |-> page[t].entered,
                   code |-> 429]
  <2>1. p \in PageStates /\ Final(p, status[Shows[t]])
    BY <1>7, <1>8 DEF AllowPoll, PageStates, Final, IsDecided
  <2>2. page' = [page EXCEPT ![t].at = "allowed"] \/ page' = [page EXCEPT ![t] = p]
    BY <1>8 DEF AllowPoll
  <2>3. page[t].at = "sent" /\ UNCHANGED <<status, time>>
    BY <1>8 DEF AllowPoll
  <2> HIDE DEF p
  <2> QED
    BY <1>5, <2>1, <2>2, <2>3, PageMoves
<1>9. ASSUME NEW t \in Pages, GetSubmission(t) PROVE PageInv'
  <2>1. PICK code \in {200, 500} :
          page' = [page EXCEPT ![t] =
            [at |-> "answered", polls |-> page[t].polls, entered |-> page[t].entered,
             code |-> code, status |-> status[Shows[t]]]]
    BY <1>9 DEF GetSubmission
  <2> DEFINE p == [at |-> "answered", polls |-> page[t].polls, entered |-> page[t].entered,
                   code |-> code, status |-> status[Shows[t]]]
  <2>2. page[t].at = "allowed" /\ UNCHANGED <<status, time>>
    BY <1>9 DEF GetSubmission
  <2>3. status[Shows[t]] \in Rows!Status
    BY PollerAssumption DEF PageInv
  <2>4. p \in PageStates
    BY <1>7, <2>2, <2>3 DEF PageStates
  <2>5. Final(p, status[Shows[t]])
    BY DEF Final
  <2>6. page' = [page EXCEPT ![t] = p]
    BY <2>1
  <2> HIDE DEF p
  <2> QED
    BY <2>2, <2>4, <2>5, <2>6, PageMoves
<1>10. ASSUME NEW t \in Pages, NEW times \in {1, 2}, Wait(t, times),
              UNCHANGED <<status, time>>,
              page[t].at \in {"sent", "allowed", "answered"}
       PROVE PageInv'
  <2> DEFINE p == [at |-> "waiting", polls |-> page[t].polls, due |-> time + Pause(times)]
  <2>1. time + Pause(times) \in Nat
    BY PollerAssumption DEF Pause, PageInv
  <2>2. p \in PageStates /\ Final(p, status[Shows[t]]) /\ page' = [page EXCEPT ![t] = p]
    BY <1>7, <1>10, <2>1 DEF Wait, PageStates, Final
  <2> HIDE DEF p
  <2> QED
    BY <1>10, <2>2, PageMoves
<1>11. ASSUME NEW t \in Pages, NEW at \in {"timeout", "silent"}, UNCHANGED <<status, time>>,
              page' = [page EXCEPT ![t] = [at |-> at]]
       PROVE PageInv'
  <2> DEFINE p == [at |-> at]
  <2>1. p \in PageStates /\ Final(p, status[Shows[t]]) /\ page' = [page EXCEPT ![t] = p]
    BY <1>11 DEF PageStates, Final
  <2> HIDE DEF p
  <2> QED
    BY <1>11, <2>1, PageMoves
<1>12. ASSUME NEW t \in Pages, onload(t) PROVE PageInv'
  <2>1. page[t].at = "answered" /\ UNCHANGED <<status, time>>
    BY <1>12 DEF onload
  <2>2. CASE /\ IsDecided(page[t])
             /\ page' = [page EXCEPT ![t] = [at |-> "shown", result |-> page[t].status]]
    <3> DEFINE p == [at |-> "shown", result |-> page[t].status]
    <3>1. page[t].status = status[Shows[t]] /\ page[t].status \in Rows!Terminal
      BY <2>1, <2>2 DEF PageInv, Final, IsDecided, Rows!Terminal
    <3>2. p \in PageStates /\ Final(p, status[Shows[t]])
      BY <3>1 DEF PageStates, Final, Rows!Status, Rows!Terminal
    <3>3. page' = [page EXCEPT ![t] = p]
      BY <2>2
    <3> HIDE DEF p
    <3> QED
      BY <2>1, <3>2, <3>3, PageMoves
  <2> QED
    BY <1>10, <1>11, <1>12, <2>1, <2>2 DEF onload
<1>13. ASSUME NEW t \in Pages, onerror(t) PROVE PageInv'
  BY <1>10, <1>11, <1>13 DEF onerror, Underway
<1>14. CASE TimePasses \/ UNCHANGED pollerVars
  BY <1>14 DEF TimePasses, pollerVars, PageInv
<1>15. ASSUME NEW t \in Pages, AllowPollResent(t) PROVE PageInv'
  BY <1>15 DEF AllowPollResent, CallFails, PageInv
<1> QED
  BY <1>1, <1>3, <1>4, <1>6, <1>8, <1>9, <1>12, <1>13, <1>14, <1>15 DEF PollerNext, Step

LEMMA PagesStart ==
  ASSUME PollerInit
  PROVE  PageInv
<1>1. /\ time \in Nat /\ status \in [Submissions -> Rows!Status]
      /\ page \in [Pages -> PageStates] /\ \A t \in Pages : page[t].at = "closed"
  BY DEF PollerInit, Closed, Rows!LifecycleInit, Rows!Status, PageStates
<1> QED
  BY <1>1 DEF PageInv, Final

(***************************************************************************)
(* What a page shows is final (pollResult, GetSubmission), for any number  *)
(* of tabs, submissions and polls: an answer that says decided is true     *)
(* however late it arrives, because no statement moves a decided row.      *)
(***************************************************************************)
THEOREM ShownStaysFinal ==
  PollerSpec => []ShownIsFinal
<1>1. PollerInit => PageInv
  BY PagesStart
<1>2. PageInv /\ [PollerNext]_pollerVars => PageInv'
  BY PageStep
<1>3. PageInv => ShownIsFinal
  BY DEF PageInv, Final, ShownIsFinal
<1> QED
  BY <1>1, <1>2, <1>3, PTL DEF PollerSpec

-----------------------------------------------------------------------------
(* Poller: the tabs and their tokens.  For every reading y of the clock    *)
(* the invariant compares the tokens that a caller reading y would find    *)
(* with the tabs that could be asking by then.  A grant costs one token    *)
(* and takes one tab off the list until a pollInterval later, by when all  *)
(* the tabs' tokens have grown back.  A script that is sent again costs    *)
(* one of the tokens that no tab needs.                                    *)

\* The tokens that a caller would find who reads the time y.
Room(b, rate, period, moment, y) ==
  LET grown == b.tokens + AtLeast((y - b.ts) \div Interval(rate, period), 0) IN
  IF Expired(b, moment) \/ grown > Capacity(rate) THEN Capacity(rate) ELSE grown

\* A page in state p can ask for a token with y on its clock, or earlier.
Asks(p, moment, y) ==
  \/ p.at = "closed" /\ moment <= y
  \/ p.at = "waiting" /\ p.due <= y
  \/ p.at = "sent" /\ p.entered <= y
  \/ p.at \in {"allowed", "answered"} /\ moment + pollInterval <= y

Asking(y) == {t \in Pages : Asks(page[t], time, y)}

\* The tokens that no tab needs, less those that faults may have cost.
Spare == Capacity(Rate) - Cardinality(Pages) - faults

\* Whenever the tabs may ask again, all of them would find a token.
RoomForAll ==
  \A y \in Nat : Cardinality(Asking(y)) + Spare <= Room(bucket, Rate, Minute, time, y)

\* No bucket, or one whose numbers are in range and not of the future.
InRange(b, rate, moment) ==
  \/ b = NoBucket
  \/ b \in [tokens : 0..rate, ts : Nat, deadline : Nat] /\ b.ts <= moment

TabsInv ==
  /\ PageInv
  /\ setting \in Settings /\ faults \in Nat /\ InRange(bucket, Rate, time)
  /\ \A t \in Pages : page[t].at = "sent" => page[t].entered <= time
  /\ TabsFit(faults) => RoomForAll
  /\ TabsFitTheRate

\* The refill, in one formula.
Grown(b, rate, period, y) == AtLeast((y - b.ts) \div Interval(rate, period), 0)

LEMMA GrownNumbers ==
  ASSUME NEW rate \in Nat \ {0}, NEW period \in Nat \ {0}, NEW moment \in Nat, NEW b,
         InRange(b, rate, moment), NEW y \in Nat
  PROVE  LET interval == Interval(rate, period)
             g == Grown(b, rate, period, y) IN
         /\ interval \in Nat \ {0} /\ b.tokens \in 0..rate /\ b.ts \in 0..moment
         /\ g \in Nat /\ interval * g \in Nat
         /\ y <= moment => b.ts + interval * g <= moment
         /\ \A q \in Int : interval * q <= y - b.ts => q <= g
<1> DEFINE interval == Interval(rate, period)
           k == (y - b.ts) \div interval
<1>1. interval \in Nat \ {0} /\ b.tokens \in 0..rate /\ b.ts \in 0..moment
  BY IntervalPositive DEF InRange, NoBucket
<1> HIDE DEF interval
<1>2. y - b.ts \in Int
  BY <1>1
<1>3. k \in Int /\ interval * k <= y - b.ts /\ \A q \in Int : q <= k <=> interval * q <= y - b.ts
  BY <1>1, <1>2, Quotient, QuotientAtLeast
<1> HIDE DEF k
<1>4. CASE k < 0
  <2>1. AtLeast(k, 0) = 0 /\ interval * 0 = 0
    BY <1>1, <1>4 DEF AtLeast
  <2>2. \A q \in Int : interval * q <= y - b.ts => q <= 0
    BY <1>3, <1>4
  <2> QED
    BY <1>1, <2>1, <2>2 DEF Grown, interval, k
<1>5. CASE k >= 0
  <2>1. AtLeast(k, 0) = k /\ interval * k \in Nat
    BY <1>1, <1>3, <1>5 DEF AtLeast
  <2>2. y <= moment => b.ts + interval * k <= moment
    BY <1>1, <1>3, <2>1
  <2>3. k \in Nat /\ Grown(b, rate, period, y) = k
    BY <1>3, <1>5, <2>1 DEF Grown, interval, k
  <2> QED
    BY <1>1, <1>3, <2>1, <2>2, <2>3 DEF interval
<1> QED
  BY <1>3, <1>4, <1>5

LEMMA RoomNumbers ==
  ASSUME NEW rate \in Nat \ {0}, NEW period \in Nat \ {0}, NEW moment \in Nat, NEW b,
         InRange(b, rate, moment), NEW y \in Nat
  PROVE  LET room == Room(b, rate, period, moment, y)
             g == Grown(b, rate, period, y) IN
         /\ room \in 0..rate
         /\ Expired(b, moment) => room = rate
         /\ ~Expired(b, moment) => room = IF b.tokens + g > rate THEN rate ELSE b.tokens + g
  BY GrownNumbers DEF Room, Grown, Capacity

\* A caller that reads now finds as many tokens as there is room.
LEMMA RefillIsRoom ==
  ASSUME NEW rate \in Nat \ {0}, NEW period \in Nat \ {0}, NEW moment \in Nat, NEW b,
         InRange(b, rate, moment), NEW now \in 0..moment
  PROVE  LET r == Refilled(b, rate, period, now, moment)
             interval == Interval(rate, period) IN
         /\ r.tokens = Room(b, rate, period, moment, now)
         /\ r.ts \in 0..moment
         /\ ~Expired(b, moment) => r.ts = b.ts + interval * Grown(b, rate, period, now)
<1> DEFINE interval == Interval(rate, period)
           g == Grown(b, rate, period, now)
           k == (now - b.ts) \div interval
<1>1. /\ interval \in Nat \ {0} /\ b.tokens \in 0..rate /\ b.ts \in 0..moment
      /\ g \in Nat /\ interval * g \in Nat /\ b.ts + interval * g <= moment
  BY GrownNumbers
<1>2. g = AtLeast(k, 0) /\ k \in Int
  BY <1>1, Quotient DEF Grown
<1>3. Refilled(b, rate, period, now, moment) =
        IF Expired(b, moment) THEN [tokens |-> rate, ts |-> now]
        ELSE IF k > 0 THEN [tokens |-> IF b.tokens + k > rate THEN rate ELSE b.tokens + k,
                            ts |-> b.ts + k * interval]
        ELSE [tokens |-> b.tokens, ts |-> b.ts]
  BY DEF Refilled, Capacity
<1>4. /\ Expired(b, moment) => Room(b, rate, period, moment, now) = rate
      /\ ~Expired(b, moment) => Room(b, rate, period, moment, now)
                                  = IF b.tokens + g > rate THEN rate ELSE b.tokens + g
  BY RoomNumbers
<1> HIDE DEF k, g, interval
<1>5. k > 0 => g = k /\ k * interval = interval * g
  BY <1>1, <1>2 DEF AtLeast
<1>6. ~(k > 0) => g = 0 /\ interval * g = 0
  BY <1>1, <1>2 DEF AtLeast
<1>7. CASE Expired(b, moment)
  BY <1>3, <1>4, <1>7 DEF interval
<1>8. CASE ~Expired(b, moment) /\ k > 0
  BY <1>1, <1>3, <1>4, <1>5, <1>8 DEF interval, g
<1>9. CASE ~Expired(b, moment) /\ ~(k > 0)
  BY <1>1, <1>3, <1>4, <1>6, <1>9 DEF interval, g
<1> QED
  BY <1>7, <1>8, <1>9

\* What a granted call leaves: at most one token less, whatever the time read
\* later, and in any case all that has grown since on top of what it left.
LEMMA RoomAfterGrant ==
  ASSUME NEW rate \in Nat \ {0}, NEW period \in Nat \ {0}, NEW moment \in Nat, NEW b,
         InRange(b, rate, moment), NEW now \in 0..moment,
         Room(b, rate, period, moment, now) >= 1
  PROVE  LET answer == tokenBucket(b, rate, period, now, moment)
             c == answer.bucket IN
         /\ answer.retryAfter = 0 /\ InRange(c, rate, moment)
         /\ \A y \in Nat :
              /\ Room(c, rate, period, moment, y) >= Room(b, rate, period, moment, y) - 1
              /\ Room(c, rate, period, moment, y) >= Room(b, rate, period, moment, now) - 1
              /\ \A n \in 0..rate : Interval(rate, period) * n <= y - moment
                   => \/ Room(c, rate, period, moment, y) = rate
                      \/ Room(c, rate, period, moment, y)
                           >= Room(b, rate, period, moment, now) - 1 + n
<1> DEFINE interval == Interval(rate, period)
           r == Refilled(b, rate, period, now, moment)
           live == TimeToLive(rate, period)
           h == Grown(b, rate, period, now)
           c == [tokens |-> r.tokens - 1, ts |-> r.ts, deadline |-> moment + live]
<1>1. /\ interval \in Nat \ {0} /\ live \in Nat
      /\ b.tokens \in 0..rate /\ b.ts \in 0..moment /\ h \in Nat /\ interval * h \in Nat
  BY IntervalPositive, TimeToLiveFills, GrownNumbers
<1>2. /\ r.tokens = Room(b, rate, period, moment, now) /\ r.ts \in 0..moment
      /\ ~Expired(b, moment) => r.ts = b.ts + interval * h
  BY RefillIsRoom
<1>3. r.tokens \in 1..rate
  BY <1>2, RoomNumbers
<1>4. tokenBucket(b, rate, period, now, moment) = [retryAfter |-> 0, bucket |-> c]
  BY <1>3 DEF tokenBucket, Cost
<1>5. ~Expired(c, moment) /\ InRange(c, rate, moment)
  <2>1. /\ r.tokens - 1 \in 0..rate /\ r.ts \in Nat /\ r.ts <= moment
        /\ moment + live \in Nat /\ ~(moment + live < moment)
    BY <1>1, <1>2, <1>3
  <2> HIDE DEF r, live
  <2> QED
    BY <2>1 DEF Expired, InRange
<1>6. ASSUME NEW y \in Nat
      PROVE  /\ Room(c, rate, period, moment, y) >= Room(b, rate, period, moment, y) - 1
             /\ Room(c, rate, period, moment, y) >= Room(b, rate, period, moment, now) - 1
             /\ \A n \in 0..rate : interval * n <= y - moment
                  => \/ Room(c, rate, period, moment, y) = rate
                     \/ Room(c, rate, period, moment, y)
                          >= Room(b, rate, period, moment, now) - 1 + n
  <2> DEFINE g == Grown(b, rate, period, y)
             f == Grown(c, rate, period, y)
             after == Room(c, rate, period, moment, y)
             before == Room(b, rate, period, moment, y)
  <2>1. /\ g \in Nat /\ f \in Nat /\ before \in 0..rate /\ after \in 0..rate
        /\ \A q \in Int : interval * q <= y - r.ts => q <= f
    <3>1. g \in Nat /\ before \in 0..rate
      BY GrownNumbers, RoomNumbers
    <3>2. c.ts = r.ts
      OBVIOUS
    <3> HIDE DEF c
    <3>3. f \in Nat /\ after \in 0..rate /\ \A q \in Int : interval * q <= y - c.ts => q <= f
      BY <1>5, GrownNumbers, RoomNumbers
    <3> QED
      BY <3>1, <3>2, <3>3
  <2>2. after = IF r.tokens - 1 + f > rate THEN rate ELSE r.tokens - 1 + f
    BY <1>5, RoomNumbers
  <2>3. /\ Expired(b, moment) => before = rate /\ r.tokens = rate
        /\ ~Expired(b, moment) =>
             /\ before = IF b.tokens + g > rate THEN rate ELSE b.tokens + g
             /\ r.tokens = IF b.tokens + h > rate THEN rate ELSE b.tokens + h
    BY <1>2, RoomNumbers
  <2>4. ~Expired(b, moment) => g - h <= f
    <3> SUFFICES ASSUME ~Expired(b, moment), g > h PROVE g - h <= f
      BY <1>1, <2>1
    <3>1. interval * g <= y - b.ts
      <4> DEFINE k == (y - b.ts) \div interval
      <4>1. k \in Int /\ interval * k <= y - b.ts
        <5>1. y - b.ts \in Int
          BY <1>1
        <5> HIDE DEF interval
        <5> QED
          BY <1>1, <5>1, Quotient
      <4>2. g = AtLeast(k, 0)
        BY DEF Grown
      <4> HIDE DEF k, g
      <4>3. g = k
        BY <1>1, <2>1, <4>1, <4>2 DEF AtLeast
      <4> QED
        BY <4>1, <4>3
    <3> HIDE DEF g, h, f, r, interval
    <3>2. interval * (g - h) = interval * g - interval * h /\ interval * g \in Int
      BY <1>1, <2>1, ProductOfSum
    <3>3. interval * (g - h) <= y - r.ts
      BY <1>1, <1>2, <3>1, <3>2
    <3> QED
      BY <1>1, <2>1, <3>3
  <2> HIDE DEF g, h, f, r, c, interval, after, before
  <2>5. after >= before - 1
    BY <1>1, <1>3, <2>1, <2>2, <2>3, <2>4
  <2>6. after >= r.tokens - 1
    BY <1>3, <2>1, <2>2
  <2>7. ASSUME NEW n \in 0..rate, interval * n <= y - moment
        PROVE  after = rate \/ after >= r.tokens - 1 + n
    <3>1. interval * n \in Int /\ interval * n <= y - r.ts
      BY <1>1, <1>2, <2>7
    <3>2. n <= f
      BY <2>1, <3>1
    <3> QED
      BY <1>3, <2>1, <2>2, <3>2
  <2> QED
    BY <1>2, <2>5, <2>6, <2>7 DEF after, before
<1> QED
  BY <1>4, <1>5, <1>6

\* The script leaves a bucket in range, whatever it answers.
LEMMA BucketStaysInRange ==
  ASSUME NEW rate \in Nat \ {0}, NEW period \in Nat \ {0}, NEW moment \in Nat, NEW b,
         InRange(b, rate, moment), NEW now \in 0..moment
  PROVE  InRange(tokenBucket(b, rate, period, now, moment).bucket, rate, moment)
<1> DEFINE r == Refilled(b, rate, period, now, moment)
<1>1. r.tokens = Room(b, rate, period, moment, now) /\ r.tokens \in 0..rate
  BY RefillIsRoom, RoomNumbers
<1>2. CASE r.tokens >= 1
  BY <1>1, <1>2, RoomAfterGrant
<1>3. CASE ~(r.tokens >= 1)
  BY <1>3 DEF tokenBucket, Cost
<1> QED
  BY <1>2, <1>3

\* Fewer tabs ask than there are, and the later the more.
LEMMA AskingNumbers ==
  ASSUME NEW y \in Nat
  PROVE  /\ IsFiniteSet(Asking(y)) /\ Cardinality(Asking(y)) \in Nat
         /\ IsFiniteSet(Pages) /\ Cardinality(Pages) \in Nat
         /\ \A S \in SUBSET Asking(y) :
              Cardinality(S) \in Nat /\ Cardinality(S) <= Cardinality(Asking(y))
         /\ \A t \in Asking(y) : \A S \in SUBSET (Asking(y) \ {t}) :
              Cardinality(S) \in Nat /\ Cardinality(S) <= Cardinality(Asking(y)) - 1
         /\ \A S \in SUBSET Pages : Cardinality(S) \in Nat /\ Cardinality(S) <= Cardinality(Pages)
<1>1. IsFiniteSet(Pages) /\ Asking(y) \subseteq Pages
  BY PollerAssumption DEF Asking
<1>2. IsFiniteSet(Asking(y)) /\ Cardinality(Asking(y)) \in Nat /\ Cardinality(Pages) \in Nat
  BY <1>1, FS_Subset, FS_CardinalityType
<1>3. ASSUME NEW T, IsFiniteSet(T), NEW S \in SUBSET T
      PROVE  Cardinality(S) \in Nat /\ Cardinality(S) <= Cardinality(T)
  BY <1>3, FS_Subset, FS_CardinalityType
<1>4. ASSUME NEW t \in Asking(y), NEW S \in SUBSET (Asking(y) \ {t})
      PROVE  Cardinality(S) \in Nat /\ Cardinality(S) <= Cardinality(Asking(y)) - 1
  <2>1. IsFiniteSet(Asking(y) \ {t}) /\ Cardinality(Asking(y) \ {t}) = Cardinality(Asking(y)) - 1
    BY <1>2, <1>4, FS_RemoveElement
  <2> QED
    BY <1>3, <2>1
<1> QED
  BY <1>1, <1>2, <1>3, <1>4

LEMMA SettingNumbers ==
  ASSUME setting \in Settings
  PROVE  Rate \in Nat \ {0} /\ Minute \in Nat \ {0} /\ pollInterval \in Nat \ {0}
  BY PollerAssumption DEF Rate

\* What more faults mean: less to spare.
LEMMA SpareNumbers ==
  ASSUME TabsInv, UNCHANGED setting, faults' \in Nat, faults <= faults'
  PROVE  /\ faults \in Nat /\ Spare \in Int /\ Spare' = Spare - (faults' - faults)
         /\ TabsFit(faults) => Spare >= 0 /\ Cardinality(Pages) + Spare <= Rate
         /\ TabsFit(faults)' => TabsFit(faults) /\ TabsFit(faults')
<1>1. /\ faults \in Nat /\ Rate' = Rate /\ Rate \in Nat /\ Cardinality(Pages) \in Nat
  BY SettingNumbers, PollerAssumption, FS_CardinalityType DEF TabsInv, Rate
<1> QED
  BY <1>1 DEF Spare, TabsFit, Capacity

\* A bucket that is left alone has no less room later.
LEMMA RoomLater ==
  ASSUME setting \in Settings, NEW m \in Nat, NEW n \in Nat, m <= n, InRange(bucket, Rate, m),
         NEW y \in Nat
  PROVE  /\ InRange(bucket, Rate, n)
         /\ Room(bucket, Rate, Minute, m, y) <= Room(bucket, Rate, Minute, n, y)
         /\ Room(bucket, Rate, Minute, m, y) \in Nat /\ Room(bucket, Rate, Minute, n, y) \in Nat
<1>1. InRange(bucket, Rate, n)
  BY DEF InRange
<1>2. Expired(bucket, m) => Expired(bucket, n)
  BY DEF Expired, InRange, NoBucket
<1>3. Rate \in Nat \ {0} /\ Minute \in Nat \ {0}
  BY SettingNumbers
<1> DEFINE room(x) == Room(bucket, Rate, Minute, x, y)
           g == Grown(bucket, Rate, Minute, y)
           grown == IF bucket.tokens + g > Rate THEN Rate ELSE bucket.tokens + g
<1>4. /\ room(m) \in 0..Rate /\ (Expired(bucket, m) => room(m) = Rate)
      /\ ~Expired(bucket, m) => room(m) = grown
  BY <1>3, RoomNumbers
<1>5. /\ room(n) \in 0..Rate /\ (Expired(bucket, n) => room(n) = Rate)
      /\ ~Expired(bucket, n) => room(n) = grown
  BY <1>1, <1>3, RoomNumbers
<1> HIDE DEF room, grown
<1>6. room(m) <= room(n) /\ room(m) \in Nat /\ room(n) \in Nat
  BY <1>2, <1>3, <1>4, <1>5
<1> QED
  BY <1>1, <1>6 DEF room

\* Nobody asks earlier than before, and the bucket has lost no more tokens
\* than there were faults.
LEMMA TabsAskLater ==
  ASSUME TabsInv, PageInv', UNCHANGED setting, time <= time', faults' \in Nat, faults <= faults',
         InRange(bucket', Rate, time'),
         \A y \in Nat : Room(bucket', Rate, Minute, time', y)
                          >= Room(bucket, Rate, Minute, time, y) - (faults' - faults),
         \A t \in Pages, y \in Nat : Asks(page'[t], time', y) => Asks(page[t], time, y),
         \A t \in Pages : page'[t].at = "sent" => page'[t].entered <= time',
         TabsFit(faults') => \A t \in Pages : page'[t].at = "answered" => page'[t].code # 429
  PROVE  TabsInv'
<1>1. /\ time \in Nat /\ time' \in Nat /\ setting \in Settings /\ Rate' = Rate
      /\ Rate \in Nat \ {0} /\ Minute \in Nat \ {0}
  BY SettingNumbers DEF TabsInv, PageInv, Rate
<1>2. /\ faults \in Nat /\ Spare \in Int /\ Spare' = Spare - (faults' - faults)
      /\ TabsFit(faults)' => TabsFit(faults) /\ TabsFit(faults')
  BY SpareNumbers
<1>3. ASSUME NEW y \in Nat, TabsFit(faults)
      PROVE  Cardinality(Asking(y)') + Spare' <= Room(bucket', Rate, Minute, time', y)
  <2>1. Asking(y)' \in SUBSET Asking(y)
    BY DEF Asking
  <2>2. Cardinality(Asking(y)') \in Nat /\ Cardinality(Asking(y)') <= Cardinality(Asking(y))
        /\ Cardinality(Asking(y)) \in Nat
    BY <2>1, AskingNumbers
  <2>3. Cardinality(Asking(y)) + Spare <= Room(bucket, Rate, Minute, time, y)
    BY <1>3 DEF TabsInv, RoomForAll
  <2>4. /\ Room(bucket, Rate, Minute, time, y) \in Nat
        /\ Room(bucket', Rate, Minute, time', y) \in Nat
    BY <1>1, RoomNumbers DEF TabsInv
  <2> QED
    BY <1>2, <2>2, <2>3, <2>4
<1>4. TabsFit(faults)' => RoomForAll'
  BY <1>1, <1>2, <1>3 DEF RoomForAll
<1>5. TabsFitTheRate'
  BY <1>2 DEF TabsFitTheRate
<1> QED
  BY <1>1, <1>4, <1>5 DEF TabsInv

\* The bucket is left alone.
LEMMA BucketLeftAlone ==
  ASSUME TabsInv, PageInv', UNCHANGED <<setting, bucket>>, time <= time',
         faults' \in Nat, faults <= faults'
  PROVE  /\ InRange(bucket', Rate, time')
         /\ \A y \in Nat : Room(bucket', Rate, Minute, time', y)
                             >= Room(bucket, Rate, Minute, time, y) - (faults' - faults)
<1>1. /\ time \in Nat /\ time' \in Nat /\ setting \in Settings /\ faults \in Nat
      /\ InRange(bucket, Rate, time)
  BY DEF TabsInv, PageInv
<1>2. ASSUME NEW y \in Nat
      PROVE  /\ InRange(bucket, Rate, time')
             /\ Room(bucket, Rate, Minute, time, y) <= Room(bucket, Rate, Minute, time', y)
             /\ Room(bucket, Rate, Minute, time, y) \in Nat
             /\ Room(bucket, Rate, Minute, time', y) \in Nat
  BY <1>1, RoomLater
<1>3. ASSUME NEW y \in Nat
      PROVE  Room(bucket, Rate, Minute, time', y)
               >= Room(bucket, Rate, Minute, time, y) - (faults' - faults)
  BY <1>1, <1>2
<1>4. InRange(bucket, Rate, time')
  BY <1>1 DEF InRange
<1> QED
  BY <1>3, <1>4

\* One page moves on.
LEMMA TabAsksLater ==
  ASSUME TabsInv, PageInv', UNCHANGED <<setting, time, bucket>>, NEW t \in Pages,
         faults' \in Nat, faults <= faults',
         \A u \in Pages \ {t} : page'[u] = page[u],
         \A y \in Nat : Asks(page'[t], time, y) => Asks(page[t], time, y),
         page'[t].at = "sent" => page'[t].entered <= time,
         TabsFit(faults') => (page'[t].at = "answered" => page'[t].code # 429)
  PROVE  TabsInv'
<1>1. time \in Nat /\ time <= time'
  BY DEF TabsInv, PageInv
<1>2. \A u \in Pages, y \in Nat : Asks(page'[u], time', y) => Asks(page[u], time, y)
  OBVIOUS
<1>3. TabsFit(faults') => TabsFit(faults)
  BY SettingNumbers, PollerAssumption, FS_CardinalityType DEF TabsInv, TabsFit, Capacity
<1>4. /\ \A u \in Pages : page'[u].at = "sent" => page'[u].entered <= time'
      /\ TabsFit(faults') => \A u \in Pages : page'[u].at = "answered" => page'[u].code # 429
  BY <1>3 DEF TabsInv, TabsFitTheRate
<1> QED
  BY <1>1, <1>2, <1>4, BucketLeftAlone, TabsAskLater

\* The script ran, or it did not, and the caller does not know: a token less
\* is a token fewer to spare.
LEMMA CallFailsStep ==
  ASSUME TabsInv, PageInv', NEW t \in Pages, CallFails(t),
         \A u \in Pages \ {t} : page'[u] = page[u],
         page'[t] = page[t] \/ page'[t].at = "allowed"
  PROVE  TabsInv'
<1>1. /\ time \in Nat /\ setting \in Settings /\ page[t].at = "sent" /\ page[t].entered \in Nat
      /\ page[t].entered <= time /\ UNCHANGED <<setting, time>>
      /\ faults \in Nat /\ faults' = faults + 1 /\ InRange(bucket, Rate, time)
  BY DEF TabsInv, PageInv, PageStates, CallFails, Fault
<1>2. Rate \in Nat \ {0} /\ Minute \in Nat \ {0} /\ pollInterval \in Nat \ {0}
  BY <1>1, SettingNumbers
<1>3. /\ InRange(bucket', Rate, time)
      /\ \A y \in Nat : Room(bucket', Rate, Minute, time, y)
                          >= Room(bucket, Rate, Minute, time, y) - 1
  <2>1. CASE UNCHANGED bucket
    <3>1. \A y \in Nat : Room(bucket, Rate, Minute, time, y) \in 0..Rate
      BY <1>1, <1>2, RoomNumbers
    <3> QED
      BY <1>1, <1>2, <2>1, <3>1
  <2>2. ASSUME NEW now \in page[t].entered..time,
               bucket' = tokenBucket(bucket, Rate, Minute, now, time).bucket, bucket' # bucket
        PROVE  /\ InRange(bucket', Rate, time)
               /\ \A y \in Nat : Room(bucket', Rate, Minute, time, y)
                                   >= Room(bucket, Rate, Minute, time, y) - 1
    <3>1. now \in 0..time /\ now \in Nat
      BY <1>1
    <3>2. Refilled(bucket, Rate, Minute, now, time).tokens >= 1
      BY <2>2 DEF tokenBucket, Cost
    <3>3. Room(bucket, Rate, Minute, time, now) >= 1
      BY <1>1, <1>2, <3>1, <3>2, RefillIsRoom
    <3> QED
      BY <1>1, <1>2, <2>2, <3>1, <3>3, RoomAfterGrant
  <2> QED
    BY <2>1, <2>2 DEF CallFails
<1>4. ASSUME NEW u \in Pages, NEW y \in Nat, Asks(page'[u], time', y)
      PROVE  Asks(page[u], time, y)
  <2>1. CASE page'[u] = page[u]
    BY <1>1, <1>4, <2>1
  <2>2. CASE u = t /\ page'[t].at = "allowed"
    <3>1. time + pollInterval <= y
      BY <1>1, <1>4, <2>2 DEF Asks
    <3>2. page[t].entered <= y
      BY <1>1, <1>2, <3>1
    <3> QED
      BY <1>1, <2>2, <3>2 DEF Asks
  <2> QED
    BY <2>1, <2>2
<1>5. /\ \A u \in Pages : page'[u].at = "sent" => page'[u].entered <= time'
      /\ TabsFit(faults') => \A u \in Pages : page'[u].at = "answered" => page'[u].code # 429
  <2>1. TabsFit(faults') => TabsFit(faults)
    BY <1>1, <1>2, PollerAssumption, FS_CardinalityType DEF TabsFit, Capacity
  <2> QED
    BY <1>1, <2>1 DEF TabsInv, TabsFitTheRate
<1> QED
  BY <1>1, <1>3, <1>4, <1>5, TabsAskLater

\* A poll is let through: the bucket has paid for it.
LEMMA PollGoesOn ==
  ASSUME TabsInv, PageInv', UNCHANGED <<setting, time, faults>>, NEW t \in Pages,
         page[t].at = "sent", page' = [page EXCEPT ![t].at = "allowed"],
         NEW now \in page[t].entered..time,
         bucket' = tokenBucket(bucket, Rate, Minute, now, time).bucket
  PROVE  TabsInv'
<1>1. /\ time \in Nat /\ setting \in Settings /\ Rate' = Rate
      /\ page[t].entered \in Nat /\ now \in 0..time
  BY DEF TabsInv, PageInv, PageStates, Rate
<1>2. Rate \in Nat \ {0} /\ Minute \in Nat \ {0} /\ pollInterval \in Nat \ {0}
  BY <1>1, SettingNumbers
<1>3. InRange(bucket, Rate, time) /\ InRange(bucket', Rate, time)
  BY <1>1, <1>2, BucketStaysInRange DEF TabsInv
<1>4. page'[t].at = "allowed" /\ \A u \in Pages : u # t => page'[u] = page[u]
  BY DEF TabsInv, PageInv, PageStates
<1>0. /\ Spare \in Int /\ Spare' = Spare /\ TabsFit(faults)' = TabsFit(faults)
      /\ TabsFit(faults) => Spare >= 0 /\ Cardinality(Pages) + Spare <= Rate
  <2>1. faults' \in Nat /\ faults <= faults' /\ faults' - faults = 0
    BY DEF TabsInv
  <2> QED
    BY <2>1, SpareNumbers DEF TabsFit, Rate, Spare
<1>5. ASSUME NEW y \in Nat, TabsFit(faults)
      PROVE  Cardinality(Asking(y)') + Spare <= Room(bucket', Rate, Minute, time, y)
  <2> DEFINE room(x) == Room(bucket, Rate, Minute, time, x)
             after == Room(bucket', Rate, Minute, time, y)
  <2>0. Spare \in Nat /\ Cardinality(Pages) + Spare <= Rate
    BY <1>0, <1>5
  <2>1. \A x \in Nat : room(x) \in 0..Rate /\ Cardinality(Asking(x)) + Spare <= room(x)
    BY <1>1, <1>2, <1>3, <1>5, RoomNumbers DEF TabsInv, RoomForAll
  <2>2. /\ now \in Nat /\ t \in Asking(now) /\ Cardinality(Asking(now)) >= 1
        /\ Cardinality(Asking(now)) \in Nat
    <3>1. now \in Nat /\ t \in Asking(now)
      BY <1>1 DEF Asking, Asks
    <3>2. {} \in SUBSET (Asking(now) \ {t})
      OBVIOUS
    <3>3. /\ Cardinality({}) \in Nat /\ Cardinality({}) <= Cardinality(Asking(now)) - 1
          /\ Cardinality(Asking(now)) \in Nat
      BY <3>1, <3>2, AskingNumbers
    <3> QED
      BY <3>1, <3>3
  <2>a. room(now) \in 0..Rate /\ Cardinality(Asking(now)) + Spare <= room(now)
    BY <2>1, <2>2
  <2>3. room(now) >= 1 + Spare /\ room(now) >= 1 /\ after \in 0..Rate
    <3>1. after \in 0..Rate
      BY <1>1, <1>2, <1>3, RoomNumbers
    <3> HIDE DEF room, after
    <3> QED
      BY <1>2, <2>0, <2>2, <2>a, <3>1
  <2>4. /\ after >= room(y) - 1 /\ after >= room(now) - 1
        /\ \A n \in 0..Rate : Interval(Rate, Minute) * n <= y - time
             => after = Rate \/ after >= room(now) - 1 + n
    BY <1>1, <1>2, <1>3, <2>3, RoomAfterGrant
  <2>5. /\ y < time + pollInterval => t \notin Asking(y)'
        /\ Asking(y)' \ {t} \subseteq Asking(y) /\ Asking(y)' \subseteq Pages
    BY <1>1, <1>2, <1>4 DEF Asking, Asks
  <2>b. room(y) \in 0..Rate /\ Cardinality(Asking(y)) + Spare <= room(y)
    BY <2>1
  <2> HIDE DEF room, after
  <2>6. CASE y < now
    <3>1. Asking(y)' \in SUBSET (Asking(now) \ {t})
      <4>1. Asking(y) \subseteq Asking(now)
        BY <1>1, <1>2, <2>6 DEF Asking, Asks, TabsInv, PageInv, PageStates
      <4> QED
        BY <1>1, <1>2, <2>5, <2>6, <4>1
    <3>2. /\ Cardinality(Asking(y)') \in Nat
          /\ Cardinality(Asking(y)') <= Cardinality(Asking(now)) - 1
      BY <2>2, <3>1, AskingNumbers
    <3> QED
      BY <1>2, <2>0, <2>2, <2>a, <2>3, <2>4, <3>2 DEF after
  <2>7. CASE now <= y /\ y < time + pollInterval
    <3>1. t \in Asking(y)
      BY <1>1, <2>7 DEF Asking, Asks
    <3>2. Asking(y)' \in SUBSET (Asking(y) \ {t})
      BY <2>5, <2>7
    <3>3. /\ Cardinality(Asking(y)') \in Nat /\ Cardinality(Asking(y)) \in Nat
          /\ Cardinality(Asking(y)') <= Cardinality(Asking(y)) - 1
      BY <3>1, <3>2, AskingNumbers
    <3> QED
      BY <1>2, <2>0, <2>b, <2>3, <2>4, <3>3 DEF after
  <2>8. CASE time + pollInterval <= y
    <3> DEFINE n == Cardinality(Pages)
    <3>1. n \in Nat /\ n <= Rate /\ n * Interval(Rate, Minute) <= pollInterval
          /\ Cardinality(Asking(y)') <= n /\ Cardinality(Asking(y)') \in Nat
      <4>1. Cardinality(Asking(y)') <= n /\ Cardinality(Asking(y)') \in Nat /\ n \in Nat
        BY <2>5, AskingNumbers
      <4>2. n * Interval(Rate, Minute) <= pollInterval
        BY <1>5 DEF TabsFit
      <4> QED
        BY <1>2, <2>0, <4>1, <4>2
    <3>2. Interval(Rate, Minute) \in Nat \ {0}
      BY <1>2, IntervalPositive
    <3>0. n + Spare <= Rate
      BY <2>0
    <3> HIDE DEF n
    <3>3. Interval(Rate, Minute) * n <= y - time
      <4>1. Interval(Rate, Minute) * n = n * Interval(Rate, Minute)
            /\ n * Interval(Rate, Minute) \in Nat
        BY <3>1, <3>2
      <4> QED
        BY <1>1, <1>2, <2>8, <3>1, <4>1
    <3>4. after = Rate \/ after >= room(now) - 1 + n
      BY <1>2, <2>4, <3>1, <3>3
    <3> QED
      BY <1>2, <2>0, <2>a, <2>3, <3>0, <3>1, <3>4 DEF after
  <2> QED
    BY <1>1, <1>2, <2>6, <2>7, <2>8
<1>6. TabsFit(faults)' => RoomForAll'
  BY <1>0, <1>1, <1>5 DEF RoomForAll
<1>7. TabsFitTheRate' /\ \A u \in Pages : page'[u].at = "sent" => page'[u].entered <= time'
  BY <1>0, <1>1, <1>4 DEF TabsInv, TabsFitTheRate
<1> QED
  BY <1>1, <1>3, <1>6, <1>7 DEF TabsInv

\* A page that asks has a time of entry.
LEMMA TabKnows ==
  ASSUME PageInv, NEW t \in Pages
  PROVE  /\ page[t].at \in {"sent", "allowed", "answered"} => page[t].entered \in Nat
         /\ page[t].at = "waiting" => page[t].due \in Nat
  BY DEF PageInv, PageStates

LEMMA TabsStep ==
  ASSUME TabsInv, [PollerNext]_pollerVars
  PROVE  TabsInv'
<1>1. PageInv /\ PageInv' /\ page \in [Pages -> PageStates]
  BY PageStep DEF TabsInv, PageInv
<1>2. /\ time \in Nat /\ pollInterval \in Nat \ {0} /\ setting \in Settings
      /\ \A t \in Pages : page[t].at = "sent" => page[t].entered <= time
      /\ TabsFit(faults) => \A t \in Pages : page[t].at = "answered" => page[t].code # 429
      /\ faults \in Nat /\ (UNCHANGED faults \/ Fault => faults' \in Nat /\ faults <= faults')
  BY <1>1, SettingNumbers DEF TabsInv, PageInv, TabsFitTheRate, Fault
<1>3. CASE RowMoves \/ TimePasses \/ UNCHANGED pollerVars
  <2>1. /\ UNCHANGED <<setting, bucket, page, faults>> /\ time <= time' /\ time' \in Nat
    BY <1>2, <1>3 DEF RowMoves, TimePasses, pollerVars
  <2>2. ASSUME NEW t \in Pages, NEW y \in Nat, Asks(page'[t], time', y)
        PROVE  Asks(page[t], time, y)
    <3>1. \A a, b \in Nat : a <= b =>
            (b <= y => a <= y) /\ (b + pollInterval <= y => a + pollInterval <= y)
      BY <1>2
    <3> QED
      BY <1>2, <2>1, <2>2, <3>1 DEF Asks
  <2>3. \A t \in Pages : page'[t].at = "sent" => page'[t].entered <= time'
    BY <1>1, <1>2, <2>1, TabKnows
  <2>4. TabsFit(faults') => \A t \in Pages : page'[t].at = "answered" => page'[t].code # 429
    BY <1>2, <2>1
  <2> QED
    BY <1>1, <1>2, <2>1, <2>2, <2>3, <2>4, BucketLeftAlone, TabsAskLater
<1>4. ASSUME NEW t \in Pages, Open(t) \/ fetchStatus(t) PROVE TabsInv'
  <2>1. /\ UNCHANGED <<setting, time, bucket, faults>>
        /\ page'[t].at = "sent" /\ page'[t].entered = time
        /\ \A u \in Pages \ {t} : page'[u] = page[u]
        /\ page[t].at = "closed" \/ (page[t].at = "waiting" /\ page[t].due <= time)
    BY <1>1, <1>4 DEF Open, fetchStatus, Fetch, Closed
  <2>2. ASSUME NEW y \in Nat, Asks(page'[t], time, y) PROVE Asks(page[t], time, y)
    BY <1>1, <1>2, <2>1, <2>2, TabKnows DEF Asks
  <2> QED
    BY <1>1, <1>2, <2>1, <2>2, TabAsksLater
<1>5. ASSUME NEW t \in Pages, UNCHANGED <<setting, time, bucket>>, UNCHANGED faults \/ Fault,
             page[t].at \in {"sent", "allowed"}, page'[t].at \in {"allowed", "answered"},
             \A u \in Pages \ {t} : page'[u] = page[u],
             TabsFit(faults') => (page'[t].at = "answered" => page'[t].code # 429)
      PROVE  TabsInv'
  <2>1. ASSUME NEW y \in Nat, Asks(page'[t], time, y) PROVE Asks(page[t], time, y)
    BY <1>1, <1>2, <1>5, <2>1, TabKnows DEF Asks
  <2> QED
    BY <1>1, <1>2, <1>5, <2>1, TabAsksLater
<1>6. ASSUME NEW t \in Pages, AllowPoll(t) PROVE TabsInv'
  <2>1. PICK now \in page[t].entered..time :
          LET answer == tokenBucket(bucket, Rate, Minute, now, time) IN
          /\ bucket' = answer.bucket
          /\ \/ answer.retryAfter = 0 /\ page' = [page EXCEPT ![t].at = "allowed"]
             \/ /\ answer.retryAfter > 0
                /\ page' = [page EXCEPT ![t] =
                     [at |-> "answered", polls |-> page[t].polls, entered |-> page[t].entered,
                      code |-> 429]]
    BY <1>6 DEF AllowPoll
  <2>2. page[t].at = "sent" /\ UNCHANGED <<setting, time, faults>> /\ now \in 0..time
    BY <1>1, <1>2, <1>6, TabKnows DEF AllowPoll
  <2> DEFINE answer == tokenBucket(bucket, Rate, Minute, now, time)
  <2>3. CASE page' = [page EXCEPT ![t].at = "allowed"]
    BY <1>1, <2>1, <2>2, <2>3, PollGoesOn
  <2>4. CASE /\ answer.retryAfter > 0
             /\ page' = [page EXCEPT ![t] =
                  [at |-> "answered", polls |-> page[t].polls, entered |-> page[t].entered,
                   code |-> 429]]
    <3>1. Rate \in Nat \ {0} /\ Minute \in Nat \ {0} /\ InRange(bucket, Rate, time)
      BY <1>2, SettingNumbers DEF TabsInv
    <3>2. Room(bucket, Rate, Minute, time, now) = 0
      <4>1. answer.retryAfter # 0
        BY <2>4
      <4> HIDE DEF answer
      <4>2. ~(Room(bucket, Rate, Minute, time, now) >= 1)
        BY <1>2, <2>2, <3>1, <4>1, RoomAfterGrant DEF answer
      <4>3. now \in Nat
        BY <2>2
      <4> QED
        BY <1>2, <3>1, <4>2, <4>3, RoomNumbers
    <3>3. bucket' = bucket
      <4>1. Refilled(bucket, Rate, Minute, now, time).tokens
              = Room(bucket, Rate, Minute, time, now)
        BY <1>2, <2>2, <3>1, RefillIsRoom
      <4> QED
        BY <2>1, <3>2, <4>1 DEF tokenBucket, Cost
    <3>4. ~TabsFit(faults)
      <4> SUFFICES ASSUME TabsFit(faults) PROVE FALSE
        OBVIOUS
      <4>1. now \in Nat /\ t \in Asking(now)
        BY <1>1, <1>2, <2>1, <2>2, TabKnows DEF Asking, Asks
      <4>2. Cardinality(Asking(now)) + Spare <= 0 /\ Spare \in Nat
        <5>1. Spare \in Int /\ Spare >= 0
          BY <1>2, <2>2, SpareNumbers
        <5> QED
          BY <3>2, <4>1, <5>1 DEF TabsInv, RoomForAll
      <4>3. {} \in SUBSET (Asking(now) \ {t})
        OBVIOUS
      <4>4. /\ Cardinality({}) \in Nat /\ Cardinality({}) <= Cardinality(Asking(now)) - 1
            /\ Cardinality(Asking(now)) \in Nat
        BY <4>1, <4>3, AskingNumbers
      <4> QED
        BY <4>2, <4>4
    <3>5. page'[t].at = "answered" /\ \A u \in Pages \ {t} : page'[u] = page[u]
      BY <1>1, <2>4
    <3> QED
      BY <1>5, <2>2, <3>3, <3>4, <3>5
  <2> QED
    BY <2>1, <2>3, <2>4
<1>7. ASSUME NEW t \in Pages, AllowPollFails(t) \/ AllowPollResent(t) PROVE TabsInv'
  <2>1. /\ CallFails(t) /\ \A u \in Pages \ {t} : page'[u] = page[u]
        /\ page'[t] = page[t] \/ page'[t].at = "allowed"
    <3>1. CASE AllowPollFails(t)
      <4>1. page[t].at = "sent" /\ page' = [page EXCEPT ![t].at = "allowed"]
        BY <3>1 DEF AllowPollFails, CallFails
      <4> QED
        BY <1>1, <3>1, <4>1 DEF AllowPollFails, PageStates
    <3>2. CASE AllowPollResent(t)
      BY <3>2 DEF AllowPollResent
    <3> QED
      BY <1>7, <3>1, <3>2
  <2> QED
    BY <1>1, <2>1, CallFailsStep
<1>8. ASSUME NEW t \in Pages, GetSubmission(t) PROVE TabsInv'
  <2>1. /\ UNCHANGED <<setting, time, bucket>> /\ page[t].at = "allowed"
        /\ page'[t].at = "answered" /\ page'[t].code \in {200, 500}
        /\ \A u \in Pages \ {t} : page'[u] = page[u]
        /\ UNCHANGED faults \/ Fault
    BY <1>1, <1>8 DEF GetSubmission
  <2> QED
    BY <1>5, <2>1
<1>9. ASSUME NEW t \in Pages, page[t].at \in {"sent", "allowed", "answered"},
             UNCHANGED <<setting, time, bucket>>, \A u \in Pages \ {t} : page'[u] = page[u],
             UNCHANGED faults \/ Fault,
             \/ page'[t].at \in {"shown", "timeout", "silent"}
             \/ page'[t].at = "waiting" /\ page'[t].due \in {time + Pause(1), time + Pause(2)}
      PROVE  TabsInv'
  <2>1. ASSUME NEW y \in Nat, Asks(page'[t], time, y) PROVE Asks(page[t], time, y)
    <3>1. page'[t].at = "waiting" => page'[t].due \in Nat /\ page'[t].due >= time + pollInterval
      BY <1>2, <1>9 DEF Pause
    <3> QED
      BY <1>1, <1>2, <1>9, <2>1, <3>1, TabKnows DEF Asks
  <2> QED
    BY <1>1, <1>2, <1>9, <2>1, TabAsksLater
<1>10. ASSUME NEW t \in Pages, onload(t) PROVE TabsInv'
  <2>1. page[t].at = "answered" /\ UNCHANGED <<setting, time, bucket, faults>>
    BY <1>10 DEF onload
  <2>2. /\ \A u \in Pages \ {t} : page'[u] = page[u]
        /\ \/ page'[t].at \in {"shown", "timeout"}
           \/ page'[t].at = "waiting" /\ page'[t].due = time + Pause(1)
    BY <1>1, <1>10 DEF onload, Wait
  <2> QED
    BY <1>9, <2>1, <2>2
<1>11. ASSUME NEW t \in Pages, onerror(t) PROVE TabsInv'
  <2>1. page[t].at \in {"sent", "allowed", "answered"} /\ UNCHANGED <<setting, time, bucket>>
        /\ Fault
    BY <1>11 DEF onerror, Underway
  <2>2. /\ \A u \in Pages \ {t} : page'[u] = page[u]
        /\ \/ page'[t].at = "silent"
           \/ page'[t].at = "waiting" /\ page'[t].due = time + Pause(2)
    BY <1>1, <1>11 DEF onerror, Wait
  <2> QED
    BY <1>9, <2>1, <2>2
<1> QED
  BY <1>3, <1>4, <1>6, <1>7, <1>8, <1>10, <1>11 DEF PollerNext, Step

(***************************************************************************)
(* The script obeys the limit it is subject to (pollResult against         *)
(* PollRatePerMinute), for any number of tabs, rate, delay and faults: as  *)
(* many tabs as tokens grow back in a pollInterval are never refused,      *)
(* however late their scripts run and however early they read the clock,   *)
(* as long as the bucket holds a token for each of them and one for every  *)
(* fault, which may be a script that go-redis sent again.                  *)
(***************************************************************************)
THEOREM TabsAreNotRefused ==
  PollerSpec => []TabsFitTheRate
<1>1. PollerInit => TabsInv
  <2> SUFFICES ASSUME PollerInit PROVE TabsInv
    OBVIOUS
  <2>1. /\ time = 0 /\ setting \in Settings /\ bucket = NoBucket /\ faults = 0
        /\ \A t \in Pages : page[t].at = "closed"
    BY DEF PollerInit, Closed
  <2>2. PageInv
    BY PagesStart
  <2>3. InRange(bucket, Rate, time) /\ Expired(bucket, time)
    BY <2>1 DEF InRange, Expired, NoBucket
  <2>4. ASSUME NEW y \in Nat
        PROVE  Cardinality(Asking(y)) + Spare <= Room(bucket, Rate, Minute, time, y)
    <3>1. Room(bucket, Rate, Minute, time, y) = Rate
      BY <2>1, <2>3, SettingNumbers, RoomNumbers
    <3>2. Cardinality(Asking(y)) <= Cardinality(Pages) /\ Cardinality(Asking(y)) \in Nat
          /\ Cardinality(Pages) \in Nat /\ Rate \in Nat
      <4>1. Asking(y) \in SUBSET Pages
        BY DEF Asking
      <4> QED
        BY <2>1, <4>1, AskingNumbers, SettingNumbers
    <3> QED
      BY <2>1, <3>1, <3>2 DEF Spare, Capacity
  <2> QED
    BY <2>1, <2>2, <2>3, <2>4 DEF TabsInv, RoomForAll, TabsFitTheRate
<1>2. TabsInv /\ [PollerNext]_pollerVars => TabsInv'
  BY TabsStep
<1>3. TabsInv => TabsFitTheRate
  BY DEF TabsInv
<1> QED
  BY <1>1, <1>2, <1>3, PTL DEF PollerSpec

-----------------------------------------------------------------------------
(* Startup.                                                                *)

Places == {"down", "load", "connect", "migrate", "creating", "ping", "group", "up", "draining"}

StartInv ==
  /\ where \in [Processes -> Places]
  /\ where["api"] # "group"
  /\ where["api"] \in {"ping", "up", "draining"} => schema

\* A process that goes on, or ends, alone or with the other.
LEMMA StepOn ==
  ASSUME StartInv, NEW p \in Processes, schema => schema',
         \/ Exit(p)
         \/ \E place \in Places :
              /\ Reach(p, place)
              /\ p = "api" => place # "group"
              /\ p = "api" /\ place \in {"ping", "up", "draining"} => schema'
  PROVE  StartInv'
<1>1. where' \in [Processes -> Places]
  BY DEF StartInv, Exit, Reach, Places
<1>2. /\ where'["api"] \in {"ping", "up", "draining"} => schema'
      /\ where'["api"] # "group"
  BY DEF StartInv, Exit, Reach, Processes, Services
<1> QED
  BY <1>1, <1>2 DEF StartInv

LEMMA StartStep ==
  ASSUME StartInv, [StartupNext]_startupVars
  PROVE  StartInv'
<1>1. ASSUME NEW p \in Processes, Start(p) PROVE StartInv'
  BY <1>1, StepOn DEF Start, servers, Places
<1>2. ASSUME NEW p \in Processes, Load(p) PROVE StartInv'
  BY <1>2, StepOn DEF Load, servers, Places
<1>3. ASSUME NEW p \in Processes, Connect(p) PROVE StartInv'
  BY <1>3, StepOn DEF Connect, servers, Places
<1>4. ASSUME NEW p \in Processes, RunMigrations(p) \/ CommitMigration(p) PROVE StartInv'
  BY <1>4, StepOn DEF RunMigrations, CommitMigration, Migrated, servers, Places
<1>5. ASSUME NEW p \in Processes, PingRedis(p) \/ EnsureConsumerGroup(p) PROVE StartInv'
  BY <1>5, StepOn DEF PingRedis, EnsureConsumerGroup, servers, Places, StartInv
<1>6. ASSUME NEW p \in Processes,
             MigrationReplyLost(p) \/ GroupReplyLost(p) \/ Shutdown(p) \/ Fail(p)
      PROVE StartInv'
  BY <1>6, StepOn DEF MigrationReplyLost, GroupReplyLost, Shutdown, Fail, servers
<1>7. ASSUME NEW p \in Processes, Sigterm(p) PROVE StartInv'
  BY <1>7, StepOn DEF Sigterm, servers, Places, StartInv
<1>8. ASSUME UNCHANGED <<where, schema>> PROVE StartInv'
  BY <1>8 DEF StartInv
<1>9. CASE PostgresDown \/ PostgresUp \/ RedisDown \/ RedisUp \/ UNCHANGED startupVars
  BY <1>8, <1>9 DEF PostgresDown, PostgresUp, RedisDown, RedisUp, startupVars
<1> QED
  BY <1>1, <1>2, <1>3, <1>4, <1>5, <1>6, <1>7, <1>9 DEF StartupNext, main

LEMMA StartInvariant == StartupSpec => []StartInv
<1>1. StartupInit => StartInv
  <2> SUFFICES ASSUME StartupInit PROVE StartInv
    OBVIOUS
  <2>1. where \in [Processes -> Places] /\ \A p \in Processes : where[p] = "down"
    BY DEF StartupInit, Places
  <2>2. "api" \in Processes
    BY DEF Processes, Services
  <2> QED
    BY <2>1, <2>2 DEF StartInv
<1> QED
  BY <1>1, StartStep, PTL DEF StartupSpec

(***************************************************************************)
(* The API serves only on its tables (RunMigrations before                 *)
(* ListenAndServe): nothing behind the migration is reached without them,  *)
(* through any race, outage or lost reply, and nobody drops them.          *)
(***************************************************************************)
THEOREM ApiHasItsSchema == StartupSpec => []ServesOnSchema
<1>1. StartInv => ServesOnSchema
  BY DEF StartInv, ServesOnSchema
<1> QED
  BY <1>1, StartInvariant, PTL
=============================================================================
