------------------------------- MODULE PageOutput -------------------------------
(***************************************************************************)
(* The files that run_pdf (primitive_ir_lib/run_pdf.py) writes for one     *)
(* page into a directory that another run_pdf, or another program, may be  *)
(* writing too: the rendered page, its view candidates, its Primitive IR   *)
(* and the crop of a view, each written under a temporary name, hashed     *)
(* through the open handle, checked by name, moved and checked again.      *)
(* What the manifest says of the page is read back from the files.         *)
(* The open handle keeps others from deleting a temporary file, but not    *)
(* from writing into it: what they write before it is hashed is adopted.   *)
(*                                                                         *)
(* A content is the version of the PDF that it was made from, 0 if another *)
(* program wrote it.  Abstracted: the IR of a view, which is its crop's;   *)
(* links and redirected directories, which make the call fail; the         *)
(* manifest's lock (ManifestLock).                                         *)
(***************************************************************************)
EXTENDS Naturals, Sequences

CONSTANTS Runs, MaxEvents

Names == {"png", "candidates", "ir", "view"}
Versions == {1, 2}    \* the PDF is replaced at any time
Foreign == 0
Contents == {Foreign} \cup Versions
Other == "other"      \* another program, another run_pdf
Owners == Runs \cup {Other}
Absent == {}

VARIABLES
    file,       \* each file: who moved it there, and its content
    manifest,   \* whose it is, its status and what it says of the page
    pc,         \* each run: its next step
    bytes,      \* the version it read
    temporary,  \* its temporary files
    expected,   \* the content each was hashed to, through its handle
    entry,      \* what it has read back for the manifest
    events,
    stuck,      \* history: runs that were killed, or could not delete a temporary file
    changed,    \* history: how often the rendered page changed since the run wrote it
    after,      \* history: files that changed after the run's last check of them
    adopted,    \* history: files that others wrote into before the run hashed them
    swapped     \* history: files read back though others wrote them, before or after

output == <<file, manifest>>
memory == <<bytes, expected, entry>>
history == <<stuck, changed, after, adopted, swapped>>
vars == <<output, pc, memory, temporary, events, history>>

\* The order of a run's steps: a file is written, hashed, moved and verified.
Write(f) == <<"write", f>>
Hash(f) == <<"hash", f>>
Move(f) == <<"move", f>>
Verify(f) == <<"verify", f>>

\* The candidates are hashed and published by the writer of the IR, which is
\* hashed when that returns.
Steps ==
    <<<<"start", "png">>, Write("png"), Hash("png"), Move("png"), Verify("png"),
      Write("candidates"), Write("ir"), <<"look", "png">>,
      Hash("candidates"), Move("candidates"), Verify("candidates"),
      Hash("ir"), Move("ir"), Verify("ir"), <<"read", "ir">>, <<"read", "candidates">>,
      Write("view"), Hash("view"), Move("view"), Verify("view"), <<"read", "view">>,
      <<"look", "png">>, Write("candidates"), Hash("candidates"), Move("candidates"),
      Verify("candidates"), <<"complete", "png">>>>

Failed == Len(Steps) + 1
Done == Len(Steps) + 2
Running(r) == pc[r] \in 2 .. Len(Steps)
At(r, step) == pc[r] \in DOMAIN Steps /\ Steps[pc[r]] = step

Init ==
    /\ file = [f \in Names |-> Absent] /\ manifest = Absent
    /\ pc = [r \in Runs |-> 1]
    /\ bytes = [r \in Runs |-> Foreign]
    /\ temporary = [r \in Runs |-> [f \in Names |-> Absent]]
    /\ expected = [r \in Runs |-> [f \in Names |-> Foreign]]
    /\ entry = [r \in Runs |-> [f \in Names |-> Absent]]
    /\ events = 0
    /\ stuck = {} /\ changed = [r \in Runs |-> 0]
    /\ after = [r \in Runs |-> {}] /\ adopted = [r \in Runs |-> {}]
    /\ swapped = [r \in Runs |-> {}]

Happens == events < MaxEvents /\ events' = events + 1

Go(r) == pc' = [pc EXCEPT ![r] = @ + 1]

Says(r, status) == manifest' = {[run |-> r, status |-> status, entry |-> entry[r]]}

\* The memory of a run that has ended is no longer told apart.
Forget(r) ==
    /\ bytes' = [bytes EXCEPT ![r] = Foreign]
    /\ expected' = [expected EXCEPT ![r] = [f \in Names |-> Foreign]]
    /\ entry' = [entry EXCEPT ![r] = [f \in Names |-> Absent]]
    /\ changed' = [changed EXCEPT ![r] = 0]
    /\ after' = [after EXCEPT ![r] = {}] /\ adopted' = [adopted EXCEPT ![r] = {}]
    /\ swapped' = [swapped EXCEPT ![r] = {}]

\* _cleanup_owned_pdf_output_temp, of each temporary file: Windows refuses to
\* delete one that another program holds open.
Cleanup(r) ==
    \E left \in SUBSET {f \in Names : temporary[r][f] # Absent} :
        /\ temporary' = [temporary EXCEPT ![r] =
              [f \in Names |-> IF f \in left THEN temporary[r][f] ELSE Absent]]
        /\ stuck' = IF left = {} THEN stuck ELSE stuck \cup {r}

\* The finally clauses, and the except clause: the manifest says so, whoever's
\* it was, unless that fails too (or the failure is after the try statement).
Fail(r) ==
    /\ pc' = [pc EXCEPT ![r] = Failed]
    /\ Cleanup(r)
    /\ Says(r, "failed") \/ UNCHANGED manifest
    /\ Forget(r)
    /\ UNCHANGED <<file, events>>

\* A file changes under every run that is not over with it.
Shake(f, who) ==
    LET others == {r \in Runs : r # who /\ (Running(r) \/ pc[r] = Done)}
    IN  /\ changed' = [r \in Runs |->
             IF f # "png" THEN changed[r] ELSE IF r = who THEN 0
             ELSE IF r \in others /\ changed[r] < 2 THEN changed[r] + 1 ELSE changed[r]]
        /\ after' = [r \in Runs |-> IF r = who THEN after[r] \ {f}
                                    ELSE IF r \in others THEN after[r] \cup {f} ELSE after[r]]

-----------------------------------------------------------------------------
(* A run *)

\* run_pdf reads the PDF, once, and writes the manifest.
Start(r) ==
    /\ pc[r] = 1
    /\ \E v \in Versions : bytes' = [bytes EXCEPT ![r] = v]
    /\ Go(r) /\ Says(r, "in_progress")
    /\ UNCHANGED <<file, temporary, expected, entry, events, history>>

\* What a writer writes: of the page in memory; of the page as it is read back
\* (the view's crop); of the candidates as they were read back.
Made(r, f) ==
    IF f = "view" THEN {x.content : x \in file["png"]}
    ELSE IF f = "candidates" /\ entry[r][f] # Absent THEN entry[r][f] ELSE {bytes[r]}

\* _create_pdf_output_temp and the writer, which opens the path by name.
WriteTemporary(r, f) ==
    /\ At(r, Write(f))
    /\ \E c \in Made(r, f) : temporary' = [temporary EXCEPT ![r][f] = {c}]
    /\ adopted' = [adopted EXCEPT ![r] = @ \ {f}]
    /\ Go(r)
    /\ UNCHANGED <<output, memory, events, stuck, changed, after, swapped>>

\* _descriptor_sha256 of the handle, which is closed.
HashTemporary(r, f) ==
    /\ At(r, Hash(f))
    /\ \E c \in temporary[r][f] : expected' = [expected EXCEPT ![r][f] = c]
    /\ Go(r)
    /\ UNCHANGED <<output, bytes, entry, temporary, events, history>>

\* _publish_pdf_output_temp up to os.replace: the temporary file is compared
\* with what was hashed, and moved -- with the bytes of another program if that
\* has come between.
MoveTemporary(r, f) ==
    /\ At(r, Move(f))
    /\ IF temporary[r][f] # {expected[r][f]} THEN Fail(r)
       ELSE /\ \/ /\ file' = [file EXCEPT ![f] = {[by |-> r, content |-> expected[r][f]]}]
                  /\ UNCHANGED events
               \/ Happens /\ file' = [file EXCEPT ![f] = {[by |-> r, content |-> Foreign]}]
            /\ temporary' = [temporary EXCEPT ![r][f] = Absent]
            /\ Shake(f, r)
            /\ Go(r)
            /\ UNCHANGED <<manifest, memory, stuck, adopted, swapped>>

\* Mutant: the published file is only looked for.
VerifyPresence(r, f) ==
    /\ At(r, Verify(f))
    /\ IF file[f] # Absent
       THEN /\ Go(r) /\ after' = [after EXCEPT ![r] = @ \ {f}]
            /\ UNCHANGED <<output, memory, temporary, events, stuck, changed, adopted, swapped>>
       ELSE Fail(r)

\* _verify_published_pdf_output: the run's own file, with the bytes it hashed.
VerifyPublished(r, f) ==
    /\ At(r, Verify(f))
    /\ IF file[f] = {[by |-> r, content |-> expected[r][f]]}
       THEN /\ Go(r) /\ after' = [after EXCEPT ![r] = @ \ {f}]
            /\ UNCHANGED <<output, memory, temporary, events, stuck, changed, adopted, swapped>>
       ELSE Fail(r)

\* Mutant: the rendered page is not compared again.
LookAway(r) ==
    /\ At(r, <<"look", "png">>)
    /\ Go(r) /\ UNCHANGED <<output, memory, temporary, events, history>>

\* The rendered page has the hash of the page in memory.
LookAgain(r) ==
    /\ At(r, <<"look", "png">>)
    /\ IF {x.content : x \in file["png"]} = {bytes[r]}
       THEN Go(r) /\ UNCHANGED <<output, memory, temporary, events, history>>
       ELSE Fail(r)

\* A file is read back by its name.
ReadBack(r, f) ==
    /\ At(r, <<"read", f>>) /\ file[f] # Absent
    /\ entry' = [entry EXCEPT ![r][f] = {x.content : x \in file[f]}]
    /\ swapped' = [swapped EXCEPT ![r] = @ \cup ({f} \cap (after[r] \cup adopted[r]))]
    /\ Go(r)
    /\ UNCHANGED <<output, temporary, bytes, expected, events, stuck, changed, after, adopted>>

\* The manifest says that the page is complete; the call may yet raise, when it
\* gives the manifest's lock back.
Complete(r) ==
    /\ At(r, <<"complete", "png">>)
    /\ pc' = [pc EXCEPT ![r] = Done]
    /\ Says(r, "complete")
    /\ UNCHANGED <<file, temporary, memory, events, history>>

-----------------------------------------------------------------------------
(* Everybody else *)

\* A library or system call fails.
Error(r) == Running(r) /\ Fail(r)

\* The process is killed.
Kill(r) ==
    /\ Running(r) /\ Happens
    /\ pc' = [pc EXCEPT ![r] = Failed]
    /\ stuck' = stuck \cup {r} /\ Forget(r)
    /\ UNCHANGED <<output, temporary>>

\* Another program writes a file in place, puts its own file there, or the file
\* of another run_pdf, or a run's bytes back.
Overwrite(f, by, c) ==
    /\ Happens
    /\ file[f] # Absent /\ [by |-> by, content |-> c] \notin file[f]
    /\ file' = [file EXCEPT ![f] = {[by |-> by, content |-> c]}]
    /\ Shake(f, Other)
    /\ UNCHANGED <<manifest, pc, memory, temporary, stuck, adopted, swapped>>

\* ... writes into a temporary file, from its creation until it is moved: it is
\* hashed so, or was hashed before.
OverwriteTemporary(r, f) ==
    /\ Running(r) /\ temporary[r][f] # Absent
    /\ Happens
    /\ temporary' = [temporary EXCEPT ![r][f] = {Foreign}]
    /\ adopted' = [adopted EXCEPT ![r] = IF At(r, Move(f)) THEN @ ELSE @ \cup {f}]
    /\ UNCHANGED <<output, pc, memory, stuck, changed, after, swapped>>

\* ... deletes it, or puts its own in its place, once its handle is closed.
TakeTemporary(r, f) ==
    /\ At(r, Move(f)) /\ temporary[r][f] # Absent
    /\ Happens
    /\ temporary' = [temporary EXCEPT ![r][f] = Absent]
    /\ UNCHANGED <<output, pc, memory, history>>

Next ==
    \/ \E r \in Runs :
         \/ Start(r) \/ LookAgain(r) \/ Complete(r) \/ Error(r) \/ Kill(r)
         \/ \E f \in Names :
              \/ WriteTemporary(r, f) \/ HashTemporary(r, f) \/ MoveTemporary(r, f)
              \/ VerifyPublished(r, f) \/ ReadBack(r, f)
              \/ OverwriteTemporary(r, f) \/ TakeTemporary(r, f)
    \/ \E f \in Names, by \in Owners, c \in Contents : Overwrite(f, by, c)

Spec == Init /\ [][Next]_vars

-----------------------------------------------------------------------------
TypeOK ==
    /\ pc \in [Runs -> 1 .. Done]
    /\ \A f \in Names : file[f] \subseteq [by : Owners, content : Contents]
    /\ \A m \in manifest : m.run \in Runs /\ m.status \in {"in_progress", "failed", "complete"}

\* What a complete manifest says of its page was read from files made from the
\* PDF it names; unless another run or program wrote into the temporary file
\* between the run's writing and its hash (line 705 to line 708, for the IR all
\* of the publication of the candidates), or changed the file between the run's
\* check and its reading -- and for the view, whose page is compared once more
\* when the view is there, changed the page and changed it back.
PageIsSourced ==
    \A m \in manifest : m.status = "complete" =>
        LET r == m.run IN
        /\ \A f \in {"ir", "candidates"} : m.entry[f] # {bytes[r]} => f \in swapped[r]
        /\ m.entry["view"] # {bytes[r]} => "view" \in swapped[r] \/ changed[r] = 2

\* What the run meant to write: what was read back of the candidates.
Meant(r, f) == IF f = "candidates" THEN entry[r][f] ELSE {bytes[r]}

\* When a run ends, its files are its own with the bytes it hashed, if nobody
\* changed them after its last check: its page is the PDF's, whoever wrote into
\* the temporary file, as it is compared with the page in memory; the others
\* are what was meant, unless the bytes of others were hashed.
EndIsOwn ==
    \A r \in Runs : pc[r] = Done => \A f \in Names \ after[r] :
        \E x \in file[f] :
            /\ x.by = r /\ x.content = expected[r][f]
            /\ x.content \notin Meant(r, f) =>
                  f # "png" /\ (f \in adopted[r] \/ (f = "view" /\ changed[r] = 2))

\* A temporary file is left only by a run that was killed or could not delete it.
LeftoverIsExplained ==
    \A r \in Runs : ~Running(r) /\ r \notin stuck => \A f \in Names : temporary[r][f] = Absent

PageFilesAreTrue == TypeOK /\ PageIsSourced /\ EndIsOwn /\ LeftoverIsExplained
=============================================================================
