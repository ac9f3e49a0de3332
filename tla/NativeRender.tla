------------------------------ MODULE NativeRender ------------------------------
(***************************************************************************)
(* Native render evidence: AutoCadNativeRenderReader.Capture plots a       *)
(* layout of the open drawing, NativeRenderArtifactBoundary reserves the   *)
(* directory of the request and publishes the file, the Python side        *)
(* validates the evidence (autocad_render_evidence.py) and derives a       *)
(* raster from a published PDF (derived_raster_evidence.py).               *)
(*                                                                         *)
(* Kept: the order of the checks, the claim and the plot of every          *)
(* instance that finds a request, its ways to fail, crashes between the    *)
(* steps, a second delivery of a request, the session variable, and other  *)
(* programs at the drawing and at the files of the request.                *)
(* Abstracted: a drawing's content is a number, an artifact shows that     *)
(* content or is torn; a SHA-256 is what it is of; layout, device, media,  *)
(* paper and the camera's policy are one choice whether the plot works.    *)
(* A temporary file has a name of its own, so it is kept by its instance   *)
(* and forgotten in a crash.  The transport is DotNetIpc.                  *)
(***************************************************************************)
EXTENDS Naturals

CONSTANTS
    Instances,  \* AutoCAD sessions serving one IPC directory
    Requests,   \* request_id
    MaxEvents   \* bound: edits, foreign writes, crashes

Versions == 0 .. MaxEvents
Torn == MaxEvents + 1
Bytes == Versions \cup {Torn}

VARIABLES
    file,           \* the drawing on disk
    memory, dbmod,  \* what each instance holds of it
    background,     \* BACKGROUNDPLOT, kept by AutoCAD across sessions
    \* native-render/<request_id>/
    directories, claims, final,
    \* Capture
    pc, request, modified, saved, temporary, restored, read, attached,
    \* the Python side
    kind,           \* artifact_kind of each request
    camera,         \* capture_class of its camera (REGION and DETAIL: WINDOW), or "NONE"
    asked,          \* drawing_sha256 of each request, once it is sent
    answer, sha, attachment,
    raster,         \* what a derived raster was made from
    events,
    \* history
    moves,          \* how often an artifact was published for a request
    touched,        \* requests whose files another program wrote
    spoiled,        \* requests with a reservation that published nothing
    lookedAt,       \* spoiled, when the instance looked for the directory
    restless        \* sessions whose variable was not put back

session == <<memory, dbmod, background>>
artifacts == <<directories, claims, final>>
capture == <<request, modified, saved, temporary, restored, read, attached>>
client == <<kind, camera, asked, answer, sha, attachment, raster>>
histories == <<moves, touched, spoiled, lookedAt, restless>>
vars == <<file, session, artifacts, pc, capture, client, events, histories>>

NoRequest == CHOOSE r \in Requests : TRUE

Init ==
    /\ file = 0
    /\ memory = [i \in Instances |-> 0] /\ dbmod = [i \in Instances |-> 0]
    /\ background = [i \in Instances |-> "user"]
    /\ directories = {} /\ claims = {} /\ final = [r \in Requests |-> {}]
    /\ pc = [i \in Instances |-> "idle"]
    /\ request = [i \in Instances |-> NoRequest]
    /\ modified = [i \in Instances |-> 0]
    /\ saved = [i \in Instances |-> "user"]
    /\ temporary = [i \in Instances |-> {}]
    /\ restored = [i \in Instances |-> FALSE]
    /\ read = [i \in Instances |-> {}]
    /\ attached = [i \in Instances |-> "none"]
    /\ kind \in [Requests -> {"PNG", "PDF"}]
    /\ camera \in [Requests -> {"NONE", "GLOBAL", "WINDOW"}]
    /\ asked = [r \in Requests |-> {}] /\ answer = [r \in Requests |-> "none"]
    /\ sha = [r \in Requests |-> {}] /\ attachment = [r \in Requests |-> "none"]
    /\ raster = [r \in Requests |-> {}]
    /\ events = 0
    /\ moves = [r \in Requests |-> 0] /\ touched = {} /\ spoiled = {}
    /\ lookedAt = [i \in Instances |-> {}] /\ restless = {}

-----------------------------------------------------------------------------
(* Python: a request and its evidence *)

\* build_render_evidence_request
Send(r) ==
    /\ asked[r] = {}
    /\ asked' = [asked EXCEPT ![r] = {file}]
    /\ UNCHANGED <<file, session, artifacts, pc, capture, kind, camera, answer, sha, attachment,
                   raster, events, histories>>

\* validate_render_evidence: which receipt of the camera the evidence of a
\* request carries, and whether that receipt names a bounding box.
ExpectedAttachment(r) ==
    IF camera[r] = "NONE" THEN "none"
    ELSE IF kind[r] = "PDF"
    THEN IF camera[r] = "GLOBAL" THEN "observation" ELSE "observation of box"
    ELSE IF camera[r] = "GLOBAL" THEN "receipt" ELSE "receipt of box"

Accepted(r) == answer[r] = "success" /\ attachment[r] = ExpectedAttachment(r)

\* derive_raster_evidence_with_png: of the bytes the caller read from the
\* published path.
Derive(r) ==
    /\ Accepted(r) /\ kind[r] = "PDF" /\ final[r] # {}
    /\ final[r] = sha[r] /\ final[r] # {Torn}
    /\ raster' = [raster EXCEPT ![r] = final[r]]
    /\ UNCHANGED <<file, session, artifacts, pc, capture, kind, camera, asked, answer, sha,
                   attachment, events, histories>>

-----------------------------------------------------------------------------
(* Capture *)

At(i, step) == pc[i] = step
Goto(i, step) == pc' = [pc EXCEPT ![i] = step]

\* The dispatcher found the request: the paths and the hash are compared, and
\* DBMOD must not be negative.
Begin(i, r) ==
    /\ At(i, "idle") /\ asked[r] # {} /\ answer[r] = "none"
    /\ request' = [request EXCEPT ![i] = r]
    /\ modified' = [modified EXCEPT ![i] = dbmod[i]]
    /\ read' = [read EXCEPT ![i] = {}] /\ restored' = [restored EXCEPT ![i] = FALSE]
    /\ attached' = [attached EXCEPT ![i] = "none"]
    /\ Goto(i, IF asked[r] = {file} THEN "look" ELSE "failed")
    /\ UNCHANGED <<file, session, artifacts, saved, temporary, client, events, histories>>

\* Reserve: the directory must not exist.
Look(i) ==
    /\ At(i, "look")
    /\ lookedAt' = [lookedAt EXCEPT ![i] = spoiled]
    /\ Goto(i, IF request[i] \in directories THEN "failed" ELSE "claim")
    /\ UNCHANGED <<file, session, artifacts, capture, client, events, moves, touched, spoiled,
                   restless>>

\* Mutant: a claim file that is already there is opened.
ClaimOpened(i) ==
    LET r == request[i]
    IN  /\ At(i, "claim")
        /\ directories' = directories \cup {r} /\ claims' = claims \cup {r}
        /\ Goto(i, IF final[r] # {} THEN "failed" ELSE "reserved")
        /\ UNCHANGED <<file, session, final, capture, client, events, histories>>

\* Creating the directory succeeds also when another instance just did; the
\* claim file is created by one of them.
Claim(i) ==
    LET r == request[i]
    IN  /\ At(i, "claim")
        /\ directories' = directories \cup {r}
        /\ IF r \in claims
           THEN Goto(i, "failed") /\ UNCHANGED claims
           ELSE IF final[r] # {}
           THEN Goto(i, "failed") /\ UNCHANGED claims
           ELSE Goto(i, "reserved") /\ claims' = claims \cup {r}
        /\ UNCHANGED <<file, session, final, capture, client, events, histories>>

\* BACKGROUNDPLOT is read and set to 0.
Foreground(i) ==
    /\ At(i, "reserved")
    /\ saved' = [saved EXCEPT ![i] = background[i]]
    /\ background' = [background EXCEPT ![i] = "off"]
    /\ Goto(i, "plot")
    /\ UNCHANGED <<file, memory, dbmod, artifacts, request, modified, temporary, restored, read,
                   attached, client, events, histories>>

\* PlotLayout writes what the document in memory shows; a plot that fails may
\* leave a torn file, and a plot may touch the document.
Plot(i) ==
    /\ At(i, "plot")
    /\ \E works \in BOOLEAN, out \in {{memory[i]}, {Torn}, {}} :
         /\ works => out # {}
         /\ temporary' = [temporary EXCEPT ![i] = out]
         /\ Goto(i, IF works THEN "restore" ELSE "restore failed")
    /\ \E m \in {dbmod[i], 1} : dbmod' = [dbmod EXCEPT ![i] = m]
    /\ UNCHANGED <<file, memory, background, artifacts, request, modified, saved, restored, read,
                   attached, client, events, histories>>

\* The finally of Capture: the variable is put back, also after a failure.
Restore(i) ==
    /\ At(i, "restore") \/ At(i, "restore failed")
    /\ \E works \in BOOLEAN :
         /\ background' = IF works THEN [background EXCEPT ![i] = saved[i]] ELSE background
         /\ restored' = [restored EXCEPT ![i] = works]
         /\ restless' = IF works THEN restless ELSE restless \cup {i}
         /\ Goto(i, IF At(i, "restore failed") \/ ~works THEN "dispose" ELSE "verify")
    /\ UNCHANGED <<file, memory, dbmod, artifacts, request, modified, saved, temporary, read,
                   attached, client, events, moves, touched, spoiled, lookedAt>>

\* EnsureReadOnly
Verify(i) ==
    /\ At(i, "verify")
    /\ Goto(i, IF dbmod[i] = modified[i] /\ asked[request[i]] = {file} /\ restored[i]
               THEN "validate" ELSE "dispose")
    /\ UNCHANGED <<file, session, artifacts, capture, client, events, histories>>

\* Publish: the temporary file is read once, parsed and hashed, and no final
\* file may exist.
Validate(i) ==
    /\ At(i, "validate")
    /\ IF temporary[i] \in {{}, {Torn}} \/ final[request[i]] # {}
       THEN Goto(i, "dispose") /\ UNCHANGED read
       ELSE Goto(i, "move") /\ read' = [read EXCEPT ![i] = temporary[i]]
    /\ UNCHANGED <<file, session, artifacts, request, modified, saved, temporary, restored,
                   attached, client, events, histories>>

\* File.Move does not overwrite. The evidence of a PDF needs the camera of
\* the request, and asks for it after the move.
Move(i) ==
    LET r == request[i]
    IN  /\ At(i, "move")
        /\ IF temporary[i] # {} /\ final[r] = {}
           THEN /\ final' = [final EXCEPT ![r] = temporary[i]]
                /\ temporary' = [temporary EXCEPT ![i] = {}]
                /\ moves' = [moves EXCEPT ![r] = @ + 1]
                /\ Goto(i, IF kind[r] = "PDF" /\ camera[r] = "NONE" THEN "dispose" ELSE "attach")
           ELSE UNCHANGED <<final, temporary, moves>> /\ Goto(i, "dispose")
        /\ UNCHANGED <<file, session, directories, claims, request, modified, saved, restored,
                       read, attached, client, events, touched, spoiled, lookedAt, restless>>

\* CreateCameraReceipt and CreateCameraObservation
CameraReceipt(r) ==
    IF camera[r] = "NONE" THEN "none"
    ELSE IF camera[r] = "WINDOW" THEN "receipt of box" ELSE "receipt"

CameraObservation(r) == IF camera[r] = "WINDOW" THEN "observation of box" ELSE "observation"

Attach(i) ==
    /\ At(i, "attach")
    /\ attached' = [attached EXCEPT ![i] =
           IF kind[request[i]] = "PNG" THEN CameraReceipt(request[i])
           ELSE CameraObservation(request[i])]
    /\ Goto(i, "dispose published")
    /\ UNCHANGED <<file, session, artifacts, request, modified, saved, temporary, restored, read,
                   client, events, histories>>

\* Dispose of the reservation: its temporary and claim files are deleted, and
\* the failures of both are swallowed. The directory stays.
Dispose(i) ==
    LET r == request[i]
    IN  /\ At(i, "dispose") \/ At(i, "dispose published")
        /\ temporary' = [temporary EXCEPT ![i] = {}]
        /\ claims' \in {claims, claims \ {r}}
        /\ spoiled' = IF moves[r] = 0 THEN spoiled \cup {r} ELSE spoiled
        /\ Goto(i, IF At(i, "dispose") THEN "failed" ELSE "succeeded")
        /\ UNCHANGED <<file, session, directories, final, request, modified, saved, restored,
                       read, attached, client, events, moves, touched, lookedAt, restless>>

\* EnsureMatchesRequest and the result of the dispatcher. The client takes
\* the first result of its request.
Answer(i) ==
    LET r == request[i]
        matches == attached[i] = ExpectedAttachment(r)
        ok == At(i, "succeeded") /\ matches
    IN  /\ At(i, "succeeded") \/ At(i, "failed")
        /\ IF answer[r] # "none" THEN UNCHANGED <<answer, sha, attachment>>
           ELSE /\ answer' = [answer EXCEPT ![r] = IF ok THEN "success" ELSE "failure"]
                /\ sha' = [sha EXCEPT ![r] = IF ok THEN read[i] ELSE {}]
                /\ attachment' = [attachment EXCEPT ![r] = IF ok THEN attached[i] ELSE "none"]
        /\ Goto(i, "idle")
        /\ UNCHANGED <<file, session, artifacts, capture, kind, camera, asked, raster, events,
                       histories>>

-----------------------------------------------------------------------------
(* Everything else *)

Happens == events < MaxEvents /\ events' = events + 1

Edit(i) ==
    /\ Happens /\ At(i, "idle")
    /\ memory' = [memory EXCEPT ![i] = events'] /\ dbmod' = [dbmod EXCEPT ![i] = 1]
    /\ UNCHANGED <<file, background, artifacts, pc, capture, client, histories>>

Save(i) ==
    /\ Happens /\ At(i, "idle") /\ dbmod[i] = 1
    /\ file' = memory[i] /\ dbmod' = [dbmod EXCEPT ![i] = 0]
    /\ UNCHANGED <<memory, background, artifacts, pc, capture, client, histories>>

ForeignSave ==
    /\ Happens /\ file' = events'
    /\ UNCHANGED <<session, artifacts, pc, capture, client, histories>>

ForeignArtifact(r) ==
    /\ Happens /\ final[r] # {}
    /\ final' = [final EXCEPT ![r] = {Torn}] /\ touched' = touched \cup {r}
    /\ UNCHANGED <<file, session, directories, claims, pc, capture, client, moves, spoiled,
                   lookedAt, restless>>

ForeignTemporary(i) ==
    /\ Happens /\ temporary[i] # {}
    /\ temporary' = [temporary EXCEPT ![i] = {Torn}] /\ touched' = touched \cup {request[i]}
    /\ UNCHANGED <<file, session, artifacts, pc, request, modified, saved, restored, read,
                   attached, client, moves, spoiled, lookedAt, restless>>

\* The session ends at any step and a new one opens the drawing. The request
\* may be found again.
Crash(i) ==
    /\ Happens /\ pc[i] # "idle"
    /\ Goto(i, "idle")
    /\ memory' = [memory EXCEPT ![i] = file] /\ dbmod' = [dbmod EXCEPT ![i] = 0]
    /\ temporary' = [temporary EXCEPT ![i] = {}]
    /\ spoiled' = IF request[i] \in directories /\ moves[request[i]] = 0
                  THEN spoiled \cup {request[i]} ELSE spoiled
    /\ restless' = restless \cup {i}
    /\ UNCHANGED <<file, background, artifacts, request, modified, saved, restored, read, attached,
                   client, moves, touched, lookedAt>>

-----------------------------------------------------------------------------
InstanceStep(i) ==
    \/ \E r \in Requests : Begin(i, r)
    \/ Look(i) \/ Claim(i) \/ Foreground(i) \/ Plot(i) \/ Restore(i) \/ Verify(i)
    \/ Validate(i) \/ Move(i) \/ Attach(i) \/ Dispose(i) \/ Answer(i)

Next ==
    \/ \E r \in Requests : Send(r) \/ Derive(r) \/ ForeignArtifact(r)
    \/ \E i \in Instances : InstanceStep(i) \/ Edit(i) \/ Save(i) \/ ForeignTemporary(i) \/ Crash(i)
    \/ ForeignSave

Spec == Init /\ [][Next]_vars

Owns(i) == pc[i] \notin {"idle", "look", "claim", "failed", "succeeded"}

-----------------------------------------------------------------------------
TypeOK ==
    /\ file \in Versions /\ memory \in [Instances -> Versions] /\ dbmod \in [Instances -> {0, 1}]
    /\ background \in [Instances -> {"user", "off"}]
    /\ directories \subseteq Requests /\ claims \subseteq directories
    /\ \A r \in Requests : final[r] \subseteq Bytes /\ \A x, y \in final[r] : x = y

\* A success names the bytes that are at the published path, unless another
\* program wrote the files of the request; a raster was made of the bytes the
\* evidence names; and the Python side accepts every success of the plugin.
EvidenceIsOfTheArtifact ==
    \A r \in Requests :
        answer[r] = "success" =>
            /\ r \notin touched => final[r] = sha[r]
            /\ raster[r] \subseteq sha[r]
            /\ Accepted(r)

\* Of the instances that find one request at most one owns its directory, its
\* claim stays until it lets go, one artifact is published, and a reservation
\* that ended without one is not taken over by who looks for it later.
OneOwner ==
    /\ \A i \in Instances : Owns(i) => request[i] \in claims
    /\ \A i, j \in Instances : Owns(i) /\ Owns(j) /\ request[i] = request[j] => i = j
    /\ \A r \in Requests : moves[r] <= 1
    /\ \A i \in Instances : Owns(i) => request[i] \notin lookedAt[i]

\* A session at rest has the user's BACKGROUNDPLOT, unless it crashed or could
\* not put it back.
SessionIsRestored ==
    \A i \in Instances : pc[i] = "idle" /\ i \notin restless => background[i] = "user"

\* What a render reports and leaves behind.
OutputsAreTrue == TypeOK /\ EvidenceIsOfTheArtifact /\ OneOwner /\ SessionIsRestored
=============================================================================
