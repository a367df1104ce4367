------------------------------- MODULE Intake -------------------------------
(***************************************************************************)
(* POST /api/submissions: handleCreateSubmission and the service method    *)
(* CreateSubmission behind it.  A request streams a multipart form into a  *)
(* temporary file, renames that file to its storage key and only then      *)
(* inserts the row, so that three places (temporary files, sources, rows)  *)
(* have to be brought back in line on every early return.  The contents of *)
(* a part are abstracted to what SaveStream tells apart.                   *)
(***************************************************************************)
EXTENDS Naturals, FiniteSets

CONSTANTS
  Requests,   \* concurrent POST requests, each with its fresh UUID
  MaxParts    \* bound: parts of a form

ASSUME IntakeAssumption == IsFiniteSet(Requests) /\ MaxParts \in Nat

\* A part: its form name, whether a file name ends in .c, and its contents.
\* "cut" is a body that breaks off while the part is being read.
Names == {"source_text", "source_file", "other"}
Bodies == {"ok", "blank", "nul", "big", "cut"}
Part == [name : Names, dotC : BOOLEAN, body : Bodies]

VARIABLES
  pc,       \* request -> the call it makes next
  read,     \* request -> number of parts read
  seen,     \* request -> the source part seen: "none", "source_text", ...
  tmpPath,  \* requests whose handler knows of a temporary file
  temps,    \* requests with a temporary file on disk
  sources,  \* requests with a file under their storage key
  rows,     \* requests with a committed submission row and outbox event
  reply,    \* request -> HTTP status, 0 before the answer
  mishap    \* requests that met an error their handler cannot undo

disk == <<temps, sources>>
vars == <<pc, read, seen, tmpPath, temps, sources, rows, reply, mishap>>

PCs == {"admit", "parts", "upsert", "rename", "insert", "respond", "done", "dead"}
Codes == {202, 400, 403, 409, 413, 429, 500, 503}

Init ==
  /\ pc = [r \in Requests |-> "admit"]
  /\ read = [r \in Requests |-> 0]
  /\ seen = [r \in Requests |-> "none"]
  /\ tmpPath = {} /\ temps = {} /\ sources = {} /\ rows = {}
  /\ reply = [r \in Requests |-> 0]
  /\ mishap = {}

Goto(r, step) == pc' = [pc EXCEPT ![r] = step] /\ UNCHANGED reply

Answer(r, code) ==
  /\ pc' = [pc EXCEPT ![r] = "done"]
  /\ reply' = [reply EXCEPT ![r] = code]

\* Mutant: cleanupTemp is forgotten.
KeepTemp(r) == UNCHANGED <<tmpPath, temps, mishap>>

\* cleanupTemp: unlinks the file the handler knows of, if any, and ignores
\* an error.
cleanupTemp(r) ==
  /\ tmpPath' = tmpPath \ {r}
  /\ \/ temps' = (IF r \in tmpPath THEN temps \ {r} ELSE temps) /\ UNCHANGED mishap
     \/ r \in tmpPath /\ mishap' = mishap \cup {r} /\ UNCHANGED temps

-----------------------------------------------------------------------------
\* CSRF token, origin, participant and IP rate limits, multipart header.  The
\* limiter fails closed.
Admit(r) ==
  /\ pc[r] = "admit"
  /\ Goto(r, "parts") \/ \E code \in {403, 429, 500} : Answer(r, code)
  /\ UNCHANGED <<read, seen, tmpPath, disk, rows, mishap>>

Refuse(r, code) == Answer(r, code) /\ cleanupTemp(r) /\ UNCHANGED seen

\* What SaveStream answers for a body it cannot store.  Its own temporary
\* file is gone by then.
SaveError(body) ==
  CASE body = "blank" -> 400
    [] body = "nul" -> 400
    [] body = "big" -> 413
    [] body = "cut" -> 500

\* The part is streamed to a new temporary file.
SaveStream(r, p) ==
  \/ /\ p.body = "ok"
     /\ seen' = [seen EXCEPT ![r] = p.name]
     /\ tmpPath' = tmpPath \cup {r}
     /\ temps' = temps \cup {r}
     /\ Goto(r, "parts")
     /\ UNCHANGED mishap
  \/ p.body # "ok" /\ Refuse(r, SaveError(p.body))
  \/ Refuse(r, 500)  \* the disk refuses a file or a write

\* One turn of the loop over mr.NextPart with the part p.  A second source
\* part is refused before it is stored, so the handler never has two files.
NextPart(r, p) ==
  /\ pc[r] = "parts" /\ read[r] < MaxParts
  /\ read' = [read EXCEPT ![r] = @ + 1]
  /\ \/ p.name = "other" /\ Refuse(r, 400)
     \/ p.name # "other" /\ seen[r] # "none" /\ Refuse(r, 400)
     \/ /\ p.name = "source_file" /\ seen[r] = "none" /\ ~p.dotC
        /\ Answer(r, 400)
        /\ UNCHANGED <<seen, tmpPath, temps, mishap>>
     \/ /\ p.name # "other" /\ seen[r] = "none"
        /\ p.name = "source_file" => p.dotC
        /\ SaveStream(r, p)
  /\ UNCHANGED <<sources, rows>>

\* NextPart fails: the body is over the request limit, or broken.
NextPartFails(r) ==
  /\ pc[r] = "parts"
  /\ \E code \in {413, 500} : Refuse(r, code)
  /\ UNCHANGED <<read, sources, rows>>

\* io.EOF: go on if there was a source.
LastPart(r) ==
  /\ pc[r] = "parts"
  /\ \/ seen[r] = "none" /\ Refuse(r, 400)
     \/ seen[r] # "none" /\ Goto(r, "upsert") /\ UNCHANGED <<seen, tmpPath, temps, mishap>>
  /\ UNCHANGED <<read, sources, rows>>

UpsertParticipant(r) ==
  /\ pc[r] = "upsert"
  /\ \/ Goto(r, "rename") /\ UNCHANGED <<seen, tmpPath, temps, mishap>>
     \/ Refuse(r, 500)
  /\ UNCHANGED <<read, sources, rows>>

\* Mutant: the row is inserted first, the file is renamed afterwards.
CommitSkipsRename(r) ==
  /\ pc[r] = "rename"
  /\ tmpPath' = tmpPath \ {r}
  /\ Goto(r, "insert")
  /\ UNCHANGED <<read, seen, disk, rows, mishap>>

\* storage.Commit: rename, then chmod.  After a failed chmod the file stays
\* under its key.
Commit(r) ==
  /\ pc[r] = "rename"
  /\ \/ /\ temps' = temps \ {r} /\ sources' = sources \cup {r}
        /\ tmpPath' = tmpPath \ {r}
        /\ Goto(r, "insert")
        /\ UNCHANGED <<seen, mishap>>
     \/ Refuse(r, 500) /\ UNCHANGED sources
     \/ /\ temps' = temps \ {r} /\ sources' = sources \cup {r}
        /\ tmpPath' = tmpPath \ {r}
        /\ mishap' = mishap \cup {r}
        /\ Answer(r, 500)
        /\ UNCHANGED seen
  /\ UNCHANGED <<read, rows>>

\* store.Delete after a failed insert; its own error is ignored.
DeleteSource(r) ==
  \/ sources' = sources \ {r} /\ UNCHANGED mishap
  \/ mishap' = mishap \cup {r} /\ UNCHANGED sources

\* The transaction commits; or it is refused or fails and the source is
\* deleted; or it commits and only the reply is lost, which looks the same.
\* (cleanupTemp has nothing left to do: tmpPath was reset after the rename.)
CreateSubmissionQueued(r) ==
  /\ pc[r] = "insert"
  /\ \/ rows' = rows \cup {r} /\ Goto(r, "respond") /\ UNCHANGED <<sources, mishap>>
     \/ /\ \E code \in {409, 500, 503} : Answer(r, code)
        /\ DeleteSource(r)
        /\ UNCHANGED rows
     \/ /\ rows' = rows \cup {r}
        /\ sources' \in {sources, sources \ {r}}
        /\ mishap' = mishap \cup {r}
        /\ Answer(r, 500)
  /\ UNCHANGED <<read, seen, tmpPath, temps>>

\* writeJSON with StatusAccepted.
Respond(r) ==
  /\ pc[r] = "respond"
  /\ Answer(r, 202)
  /\ UNCHANGED <<read, seen, tmpPath, disk, rows, mishap>>

\* The API process dies: every open request stops where it is.
Crash ==
  /\ \E r \in Requests : pc[r] \notin {"done", "dead"}
  /\ pc' = [r \in Requests |-> IF pc[r] = "done" THEN "done" ELSE "dead"]
  /\ UNCHANGED <<read, seen, tmpPath, disk, rows, reply, mishap>>

-----------------------------------------------------------------------------
Next ==
  \/ \E r \in Requests :
       \/ Admit(r) \/ NextPartFails(r) \/ LastPart(r)
       \/ UpsertParticipant(r) \/ Commit(r) \/ CreateSubmissionQueued(r) \/ Respond(r)
       \/ \E p \in Part : NextPart(r, p)
  \/ Crash

Spec == Init /\ [][Next]_vars

-----------------------------------------------------------------------------
(* Properties.                                                             *)

\* Types.
TypeOK ==
  /\ pc \in [Requests -> PCs]
  /\ read \in [Requests -> 0..MaxParts]
  /\ seen \in [Requests -> {"none", "source_text", "source_file"}]
  /\ tmpPath \subseteq temps /\ temps \subseteq Requests
  /\ sources \subseteq Requests /\ rows \subseteq Requests /\ mishap \subseteq Requests
  /\ reply \in [Requests -> Codes \cup {0}]

(***************************************************************************)
(* All or nothing (every early return of CreateSubmission): once a request *)
(* is answered, and unless a failed chmod or unlink or a lost COMMIT reply *)
(* got in the way, a row exists if and only if the client was told 202, a  *)
(* source if and only if its row does, and no temporary file is left.      *)
(***************************************************************************)
AllOrNothing ==
  \A r \in Requests :
    pc[r] = "done" /\ r \notin mishap =>
      /\ r \in rows <=> reply[r] = 202
      /\ r \in sources <=> r \in rows
      /\ r \notin temps

(***************************************************************************)
(* What survives also those errors and a crash of the API at any moment,   *)
(* because Commit renames before CreateSubmissionQueued inserts: a client  *)
(* that was told 202 has its row and its source, and a row without its     *)
(* source is one whose COMMIT reply was lost.                              *)
(***************************************************************************)
AcceptedIsDurable ==
  \A r \in Requests :
    /\ reply[r] = 202 => r \in rows /\ r \in sources
    /\ r \in rows \ mishap => r \in sources

(***************************************************************************)
(* Where a request is says where its bytes are: at most one copy exists,   *)
(* in the temporary file until the rename and under the key from then on,  *)
(* and the handler knows of the temporary file as long as there is one.    *)
(***************************************************************************)
OneCopy ==
  \A r \in Requests :
    /\ pc[r] \in {"admit", "parts", "upsert", "rename"} =>
         /\ r \notin sources \cup rows \cup mishap
         /\ r \in temps <=> seen[r] # "none"
         /\ r \in tmpPath <=> r \in temps
    /\ pc[r] \in {"upsert", "rename"} => seen[r] # "none"
    /\ pc[r] = "insert" => r \in sources /\ r \notin temps \cup rows \cup mishap
    /\ pc[r] = "respond" => r \in sources \cap rows /\ r \notin temps \cup mishap

(***************************************************************************)
(* The two together: the types, and where the bytes of every open request  *)
(* are at each call of CreateSubmission, whatever the others and the disk  *)
(* did.  AllOrNothing and AcceptedIsDurable rest on it.                    *)
(***************************************************************************)
IntakeInv == TypeOK /\ OneCopy
=============================================================================
