------------------------------ MODULE Session ------------------------------
(***************************************************************************)
(* One browser and the identity it is given.  The server keeps no session: *)
(* identityMiddleware trusts a signed cookie or issues a new participant,  *)
(* the index page embeds a CSRF token for that participant, and rows can   *)
(* only be read by their owner.  Tabs share the cookie jar but send their  *)
(* requests when they like, so a cookie may be replaced, or expire, while  *)
(* another tab's page or request still belongs to the old one.  Signatures *)
(* are abstracted: a cookie or token is the record the server signed.      *)
(***************************************************************************)
EXTENDS Naturals, FiniteSets

CONSTANTS
  Tabs,
  Identities,         \* bound: the ids GenerateParticipantID may return
  CookieMaxAge,       \* cfg.CookieMaxAgeSeconds
  CSRFTokenDuration,  \* cfg.CSRFTokenDuration
  MaxTime             \* bound: the clock

ASSUME SessionAssumption ==
  /\ CookieMaxAge \in Nat /\ CSRFTokenDuration \in Nat /\ MaxTime \in Nat
  /\ "nobody" \notin Identities /\ IsFiniteSet(Tabs)

VARIABLES
  clock,
  issued,  \* participants generated so far
  jar,     \* the browser's hustack_sid cookie
  token,   \* tab -> the CSRF token in its page
  sub,     \* tab -> owner and cookie of the submission its page shows
  req,     \* tab -> its request, and the response on its way back
  filed,   \* what is remembered of every accepted submission
  raced    \* two requests without a live cookie were once under way together

sessionVars == <<clock, issued, jar, token, sub, req, filed, raced>>

NoCookie == [pid |-> "nobody", expires |-> 0]
NoToken == [pid |-> "nobody", at |-> 0]

\* stage: idle, then sent, handler (past identityMiddleware), reply.
Idle == [stage |-> "idle", kind |-> "index", cookie |-> NoCookie, token |-> NoToken,
         id |-> "nobody", set |-> NoCookie, code |-> 0]

SessionInit ==
  /\ clock = 0 /\ issued = {} /\ jar = NoCookie
  /\ token = [t \in Tabs |-> NoToken]
  /\ sub = [t \in Tabs |-> NoCookie]
  /\ req = [t \in Tabs |-> Idle]
  /\ filed = {} /\ raced = FALSE

\* Mutant: a cookie is taken for expired before the browser drops it.
ResolveEarly(c) == c # NoCookie /\ clock < c.expires

\* CookieProvider.Resolve succeeds: signed by the server and now <= expiresAt.
Resolve(c) == c # NoCookie /\ clock <= c.expires

\* Requests under way that will make the server issue an identity.
Homeless == {t \in Tabs : req[t].stage # "idle" /\
                          (req[t].cookie = NoCookie \/ req[t].cookie.expires < clock)}
ObserveRace == raced' = (raced \/ Cardinality(Homeless') > 1)

-----------------------------------------------------------------------------
(* The browser.                                                            *)

\* A cookie past its Max-Age may already be gone.
Send(t, kind) ==
  /\ req[t].stage = "idle"
  /\ \E c \in {jar} \cup (IF jar.expires < clock THEN {NoCookie} ELSE {}) :
       req' = [req EXCEPT ![t] = [Idle EXCEPT !.stage = "sent", !.kind = kind,
                                              !.cookie = c, !.token = token[t]]]
  /\ UNCHANGED <<clock, issued, jar, token, sub, filed>>
  /\ ObserveRace

Visit(t) == Send(t, "index")

\* The form's submit handler: the token comes from the page, the cookie from
\* the jar.
Submit(t) == token[t] # NoToken /\ Send(t, "post")

\* "View result" and fetchStatus on that page: both read the row by its id
\* and the requester's identity.
Poll(t) == sub[t] # NoCookie /\ Send(t, "poll")

\* The response arrives: first its Set-Cookie, then its body.
Receive(t) ==
  LET r == req[t] IN
  /\ r.stage = "reply"
  /\ jar' = IF r.set # NoCookie THEN r.set ELSE jar
  /\ token' = [token EXCEPT ![t] = IF r.kind = "index" THEN r.token ELSE @]
  /\ sub' = [sub EXCEPT ![t] = IF r.kind = "index" THEN NoCookie
                               ELSE IF r.code = 202 THEN r.cookie ELSE @]
  /\ req' = [req EXCEPT ![t] = Idle]
  /\ UNCHANGED <<clock, issued, filed, raced>>

\* xhr.onerror, a page that does not load, or the 500 of a middleware that
\* could not generate an id.
Lost(t) ==
  /\ req[t].stage # "idle"
  /\ req' = [req EXCEPT ![t] = Idle]
  /\ UNCHANGED <<clock, issued, jar, token, sub, filed, raced>>

-----------------------------------------------------------------------------
(* The server.                                                             *)

\* SetIdentity for a generated participant.
SetIdentity(t, p) ==
  /\ p \notin issued
  /\ issued' = issued \cup {p}
  /\ req' = [req EXCEPT ![t].stage = "handler", ![t].id = p,
                        ![t].set = [pid |-> p, expires |-> clock + CookieMaxAge]]

identityMiddleware(t) ==
  /\ req[t].stage = "sent"
  /\ \/ /\ Resolve(req[t].cookie)
        /\ req' = [req EXCEPT ![t].stage = "handler", ![t].id = req[t].cookie.pid]
        /\ UNCHANGED issued
     \/ ~Resolve(req[t].cookie) /\ \E p \in Identities : SetIdentity(t, p)
  /\ UNCHANGED <<clock, jar, token, sub, filed, raced>>

Reply(t, code) == req' = [req EXCEPT ![t].stage = "reply", ![t].code = code]

\* The page carries a CSRF token for whoever the middleware found.
handleIndex(t) ==
  /\ req[t].stage = "handler" /\ req[t].kind = "index"
  /\ req' = [req EXCEPT ![t].stage = "reply", ![t].code = 200,
                        ![t].token = [pid |-> req[t].id, at |-> clock]]
  /\ UNCHANGED <<clock, issued, jar, token, sub, filed, raced>>

\* Mutant: the token's participant is not compared.
VerifyAnyParticipant(t) ==
  /\ Resolve(req[t].cookie)
  /\ clock - req[t].token.at <= CSRFTokenDuration

\* The cookie is resolved a second time, later than in the middleware.
VerifyCSRFToken(t) ==
  /\ Resolve(req[t].cookie)
  /\ req[t].cookie.pid = req[t].token.pid
  /\ clock - req[t].token.at <= CSRFTokenDuration

\* The row belongs to the middleware's identity.  Module Intake has the many
\* other reasons to refuse.
CreateSubmission(t) ==
  /\ req[t].stage = "handler" /\ req[t].kind = "post"
  /\ \/ /\ VerifyCSRFToken(t)
        /\ filed' = filed \cup {[owner |-> req[t].id, page |-> req[t].token.pid,
                               age |-> clock - req[t].token.at]}
        /\ Reply(t, 202)
     \/ Reply(t, 403) /\ UNCHANGED filed
  /\ UNCHANGED <<clock, issued, jar, token, sub, raced>>

\* SELECT ... WHERE id = $1 AND participant_id = $2.
handleGetSubmission(t) ==
  /\ req[t].stage = "handler" /\ req[t].kind = "poll"
  /\ Reply(t, IF sub[t].pid = req[t].id THEN 200 ELSE 404)
  /\ UNCHANGED <<clock, issued, jar, token, sub, filed, raced>>

Tick ==
  /\ clock < MaxTime
  /\ clock' = clock + 1
  /\ UNCHANGED req
  /\ ObserveRace
  /\ UNCHANGED <<issued, jar, token, sub, filed>>

-----------------------------------------------------------------------------
SessionNext ==
  \/ \E t \in Tabs :
       \/ Visit(t) \/ Submit(t) \/ Poll(t) \/ Receive(t) \/ Lost(t)
       \/ identityMiddleware(t) \/ handleIndex(t) \/ CreateSubmission(t)
       \/ handleGetSubmission(t)
  \/ Tick

SessionSpec == SessionInit /\ [][SessionNext]_sessionVars

-----------------------------------------------------------------------------
(* Properties.                                                             *)

(***************************************************************************)
(* A submission belongs to the participant its page was rendered for, and  *)
(* that page was not older than the token's duration (VerifyCSRFToken):    *)
(* whatever another tab did to the cookie between page and submission, and *)
(* although the cookie is resolved twice, nothing is filed under an        *)
(* identity the page does not have.                                        *)
(***************************************************************************)
FiledUnderPageOwner ==
  \A r \in filed : r.owner = r.page /\ r.age <= CSRFTokenDuration

(***************************************************************************)
(* A poll answered 404 (handleGetSubmission) really is one for an identity *)
(* that was lost: without such a race it never happens to a page whose     *)
(* cookie was still good when the poll was answered.                       *)
(***************************************************************************)
PollFindsRow ==
  [][\A t \in Tabs :
       req[t].stage = "handler" /\ req'[t].code = 404 =>
         raced \/ clock > sub[t].expires]_sessionVars
=============================================================================
