----------------------------- MODULE Publication -----------------------------
(***************************************************************************)
(* Verified publication of a candidate drawing over the target drawing:    *)
(* execute_verified_publication (cad_agent/publication_composition.py), the *)
(* file steps it calls (cad_agent/visual_evidence.py) and the lifecycle it *)
(* records in the run manifest (cad_agent/manifest.py).                    *)
(*                                                                         *)
(* Kept: every access to the target, the backup and the manifest as a step *)
(* of its own, the order of the steps, every error path and its recovery,  *)
(* several publishers of one authorization, a crash between any two steps, *)
(* other programs writing the target or the manifest in between.           *)
(* Abstracted: bytes are named ("original", an artifact, "foreign"), a     *)
(* SHA-256 is the content itself, one lifecycle transition is one step     *)
(* (module ManifestLock is about its lock); the candidate and R5 records,  *)
(* passed by value and validated twice, only make a step fail.             *)
(***************************************************************************)
EXTENDS Naturals, FiniteSets

CONSTANTS
    Publishers,     \* calls of execute_verified_publication
    Artifacts,      \* candidate drawings they may publish
    Editors,        \* other programs that rewrite the manifest
    MaxForeign,     \* bound: writes of the target by other programs
    MaxEdits        \* bound: other manifest content, per editor

ASSUME ArtifactsAssumption == Artifacts \cap {"original", "foreign", "none"} = {}
ASSUME PublicationBounds == MaxForeign \in Nat /\ MaxEdits \in Nat

VARIABLES
    target,     \* the target drawing: content and file identity
    backup,     \* the .publication-backup file of each publisher
    manifest,   \* the run manifest: publication_lifecycle and the rest
    pub,        \* locals of each execute_verified_publication
    artifact,   \* what each publisher was asked to publish
    editor,     \* the manifest each editor has read
    foreign,    \* history: number of foreign writes of the target
    replaced,   \* history: publishers whose os.replace succeeded
    unread,     \* history: those that could not read the target after it
    recorded,   \* history: some RECORD_PUBLISHED was written
    clobbered,  \* history: an editor put an older lifecycle back
    wroteAt     \* history: the step of each publisher at the last foreign write

vars == <<target, backup, manifest, pub, artifact, editor, foreign, replaced, unread,
          recorded, clobbered, wroteAt>>
files == <<target, backup, foreign, replaced, unread, wroteAt>>
record == <<manifest, recorded, clobbered>>

Contents == Artifacts \cup {"original", "foreign"}
AuthorizationStates == {"CLAIMED", "CONSUMED"}
PublicationStates == {"INTENT_RECORDED", "PUBLISHED", "FAILED", "RECOVERY_REQUIRED", "ROLLED_BACK"}
Pairs == [artifact : Artifacts, file : Nat]
Lifecycles == [pair : Pairs, authorization : AuthorizationStates, state : PublicationStates]
NoLife == [state |-> "none"]
Manifests == [life : Lifecycles \cup {NoLife}, rest : Nat]
NoManifest == [life |-> [state |-> "unread"], rest |-> 0]

Pcs == {"call", "snapshot", "claim", "guard", "prepare", "check", "replace", "verify",
        "record_published", "cleanup", "consume", "require_recovery", "restore",
        "restore_replace", "restore_verify", "record_rollback", "cleanup_rollback",
        "record_failed", "cleanup_failed", "crashed", "PUBLISHED", "R7_AUTHORIZATION_INVALID",
        "R7_LIFECYCLE_INVALID", "R7_CLAIM_REPLAY", "R7_PUBLICATION_FAILED",
        "R7_PUBLICATION_ROLLED_BACK", "R7_RECOVERY_REQUIRED", "R7_CLEANUP_FAILED"}

Idle == [pc |-> "call", seen |-> NoManifest, life |-> NoLife, pair |-> 0, prepared |-> 0]

Init ==
    /\ target = [content |-> "original", file |-> 0]
    /\ backup = [p \in Publishers |-> "none"]
    /\ manifest = [life |-> NoLife, rest |-> 0]
    /\ pub = [p \in Publishers |-> Idle]
    /\ artifact \in [Publishers -> Artifacts]
    /\ editor = [e \in Editors |-> NoManifest]
    /\ foreign = 0
    /\ replaced = {}
    /\ unread = {}
    /\ recorded = FALSE
    /\ clobbered = FALSE
    /\ wroteAt = [p \in Publishers |-> "call"]

At(p, pc) == pub[p].pc = pc

\* The next step, or the error the call ends with.
Goto(p, pc) == pub' = [pub EXCEPT ![p].pc = pc, ![p].seen = NoManifest]

-----------------------------------------------------------------------------
(* transition_publication_lifecycle *)

Pair(p) == [artifact |-> artifact[p], file |-> pub[p].pair]

Matches(p) == manifest.life # NoLife /\ manifest.life.pair = Pair(p)

\* What the state of the record allows: the guard of the action, and
\* validate_publication_lifecycle of the outcome (CONSUMED only if PUBLISHED).
May(action) ==
    CASE action = "CONSUME" -> manifest.life.state = "PUBLISHED"
      [] action = "RECORD_PUBLISHED" -> manifest.life.state = "INTENT_RECORDED"
      [] OTHER -> manifest.life.authorization = "CLAIMED"

\* Mutant: a failure gives the grant back.
AfterReleases(action) ==
    CASE action = "CONSUME" -> [manifest.life EXCEPT !.authorization = "CONSUMED"]
      [] action = "RECORD_PUBLISHED" -> [manifest.life EXCEPT !.state = "PUBLISHED"]
      [] OTHER -> NoLife

After(action) ==
    CASE action = "CONSUME" -> [manifest.life EXCEPT !.authorization = "CONSUMED"]
      [] action = "RECORD_PUBLISHED" -> [manifest.life EXCEPT !.state = "PUBLISHED"]
      [] action = "RECORD_FAILED" -> [manifest.life EXCEPT !.state = "FAILED"]
      [] action = "REQUIRE_RECOVERY" -> [manifest.life EXCEPT !.state = "RECOVERY_REQUIRED"]
      [] action = "RECORD_ROLLBACK" -> [manifest.life EXCEPT !.state = "ROLLED_BACK"]

RecordPcs == {"record_published", "consume", "require_recovery", "record_rollback", "record_failed"}

\* _manifest_sha(manifest_path), read before the transition takes the lock.
ReadManifest(p) ==
    /\ pub[p].pc \in RecordPcs
    /\ pub[p].seen = NoManifest
    /\ pub' = [pub EXCEPT ![p].seen = manifest]
    /\ UNCHANGED <<files, record, artifact, editor>>

\* The manifest is the one that was hashed and the record allows the action.
\* The lock file of a finished transition may fail to be unlinked: the call
\* then raises although the manifest was written.
Transition(p, pc, action, done, failed) ==
    /\ At(p, pc)
    /\ pub[p].seen = manifest
    /\ Matches(p)
    /\ May(action)
    /\ manifest' = [manifest EXCEPT !.life = After(action)]
    /\ recorded' = (recorded \/ action = "RECORD_PUBLISHED")
    /\ \E next \in {done, failed} : Goto(p, next)
    /\ UNCHANGED <<files, clobbered, artifact, editor>>

\* The manifest cannot be read, is stale, busy, or does not allow the action.
TransitionFails(p, pc, failed) ==
    /\ At(p, pc)
    /\ Goto(p, failed)
    /\ UNCHANGED <<files, record, artifact, editor>>

-----------------------------------------------------------------------------
(* execute_verified_publication, in the order of its calls *)

\* The caller reads the manifest whose hash it passes.
Call(p) ==
    /\ At(p, "call")
    /\ pub' = [pub EXCEPT ![p].pc = "snapshot", ![p].seen = manifest]
    /\ UNCHANGED <<files, record, artifact, editor>>

\* snapshot_publication_file of the target; the authorization names the hash it
\* must have.  The publication id is a digest of the artifact and the target.
Snapshot(p) ==
    /\ At(p, "snapshot")
    /\ IF target.content = "original"
         THEN pub' = [pub EXCEPT ![p].pc = "claim", ![p].pair = target.file]
         ELSE Goto(p, "R7_AUTHORIZATION_INVALID")
    /\ UNCHANGED <<files, record, artifact, editor>>

Claimed(p) == [pair |-> Pair(p), authorization |-> "CLAIMED", state |-> "INTENT_RECORDED"]

\* CLAIM: a first claim is written, the claim of the same pair is returned as it
\* stands, that of another pair is a conflict.
Claim(p) ==
    /\ At(p, "claim")
    /\ pub[p].seen = manifest
    /\ manifest.life = NoLife \/ Matches(p)
    /\ manifest' = [manifest EXCEPT !.life = IF @ = NoLife THEN Claimed(p) ELSE @]
    /\ \/ pub' = [pub EXCEPT ![p].pc = "guard", ![p].life = manifest'.life]
       \/ manifest.life = NoLife /\ Goto(p, "R7_LIFECYCLE_INVALID")
    /\ UNCHANGED <<files, recorded, clobbered, artifact, editor>>

\* A claim that left the manifest as it was is the replay of an earlier one.
GuardReplay(p) ==
    /\ At(p, "guard")
    /\ IF pub[p].life = Claimed(p) /\ manifest # pub[p].seen
         THEN Goto(p, "prepare") ELSE Goto(p, "R7_CLAIM_REPLAY")
    /\ UNCHANGED <<files, record, artifact, editor>>

\* prepare_publication_replacement: the backup and the stage beside the target.
Prepare(p) ==
    /\ At(p, "prepare")
    /\ target.content = "original"
    /\ backup' = [backup EXCEPT ![p] = target.content]
    /\ pub' = [pub EXCEPT ![p].pc = "check", ![p].prepared = target.file]
    /\ UNCHANGED <<target, foreign, replaced, unread, wroteAt, record, artifact, editor>>

\* commit_publication_replacement: every prepared identity is revalidated, ...
CheckPrepared(p) ==
    /\ At(p, "check")
    /\ target = [content |-> "original", file |-> pub[p].prepared]
    /\ Goto(p, "replace")
    /\ UNCHANGED <<files, record, artifact, editor>>

\* ... the stage replaces the target, ...
Replace(p) ==
    /\ At(p, "replace")
    /\ target' = [content |-> artifact[p], file |-> target.file + 1]
    /\ replaced' = replaced \cup {p}
    /\ Goto(p, "verify")
    /\ UNCHANGED <<backup, foreign, unread, wroteAt, record, artifact, editor>>

\* ... and is read back.
Verify(p) ==
    /\ At(p, "verify")
    /\ target.content = artifact[p]
    /\ Goto(p, "record_published")
    /\ UNCHANGED <<files, record, artifact, editor>>

\* Mutant: a failed read-back is a failure like one before the replacement.
VerifyFailsAsBefore(p) ==
    /\ At(p, "verify")
    /\ Goto(p, "record_failed")
    /\ UNCHANGED <<files, record, artifact, editor>>

\* PUBLICATION_VERIFY_FAILED is recovered; an error of the final snapshot is
\* another PublicationFileError and is handled as if nothing had been replaced.
VerifyFails(p) ==
    /\ At(p, "verify")
    /\ \/ Goto(p, "require_recovery") /\ UNCHANGED unread
       \/ Goto(p, "record_failed") /\ unread' = unread \cup {p}
    /\ UNCHANGED <<target, backup, foreign, replaced, wroteAt, record, artifact, editor>>

\* Any error before the target is replaced.
FailBeforeReplace(p) ==
    /\ pub[p].pc \in {"prepare", "check", "replace"}
    /\ Goto(p, "record_failed")
    /\ UNCHANGED <<files, record, artifact, editor>>

RecordPublished(p) ==
    \/ Transition(p, "record_published", "RECORD_PUBLISHED", "cleanup", "require_recovery")
    \/ TransitionFails(p, "record_published", "require_recovery")

\* cleanup_publication_replacement, after the publication, its rollback or its
\* failure, when it is only attempted.
Cleanup(p) ==
    /\ pub[p].pc \in {"cleanup", "cleanup_rollback", "cleanup_failed"}
    /\ \/ /\ backup' = [backup EXCEPT ![p] = "none"]
          /\ Goto(p, CASE At(p, "cleanup") -> "consume"
                       [] At(p, "cleanup_rollback") -> "R7_PUBLICATION_ROLLED_BACK"
                       [] OTHER -> "R7_PUBLICATION_FAILED")
       \/ /\ Goto(p, IF At(p, "cleanup_failed")
                       THEN "R7_PUBLICATION_FAILED" ELSE "R7_CLEANUP_FAILED")
          /\ UNCHANGED backup
    /\ UNCHANGED <<target, foreign, replaced, unread, wroteAt, record, artifact, editor>>

Consume(p) ==
    \/ Transition(p, "consume", "CONSUME", "PUBLISHED", "require_recovery")
    \/ TransitionFails(p, "consume", "require_recovery")

RecordFailed(p) ==
    \/ Transition(p, "record_failed", "RECORD_FAILED", "cleanup_failed", "R7_LIFECYCLE_INVALID")
    \/ TransitionFails(p, "record_failed", "R7_LIFECYCLE_INVALID")

-----------------------------------------------------------------------------
(* _recover_after_replace *)

RequireRecovery(p) ==
    \/ Transition(p, "require_recovery", "REQUIRE_RECOVERY", "restore", "R7_LIFECYCLE_INVALID")
    \/ TransitionFails(p, "require_recovery", "R7_LIFECYCLE_INVALID")

\* Mutant: a rollback is recorded before the backup is moved over the target.
CheckRestoreOnly(p) ==
    /\ At(p, "restore")
    /\ target.content = artifact[p]
    /\ backup[p] = "original"
    /\ Goto(p, "record_rollback")
    /\ UNCHANGED <<files, record, artifact, editor>>

\* restore_publication_target: over the published bytes only, from the backup.
CheckRestore(p) ==
    /\ At(p, "restore")
    /\ target.content = artifact[p]
    /\ backup[p] = "original"
    /\ Goto(p, "restore_replace")
    /\ UNCHANGED <<files, record, artifact, editor>>

Restore(p) ==
    /\ At(p, "restore_replace")
    /\ target' = [content |-> "original", file |-> target.file + 1]
    /\ Goto(p, "restore_verify")
    /\ UNCHANGED <<backup, foreign, replaced, unread, wroteAt, record, artifact, editor>>

VerifyRestored(p) ==
    /\ At(p, "restore_verify")
    /\ target.content = "original"
    /\ Goto(p, "record_rollback")
    /\ UNCHANGED <<files, record, artifact, editor>>

RestoreFails(p) ==
    /\ pub[p].pc \in {"restore", "restore_replace", "restore_verify"}
    /\ Goto(p, "R7_RECOVERY_REQUIRED")
    /\ UNCHANGED <<files, record, artifact, editor>>

RecordRollback(p) ==
    \/ Transition(p, "record_rollback", "RECORD_ROLLBACK", "cleanup_rollback", "R7_LIFECYCLE_INVALID")
    \/ TransitionFails(p, "record_rollback", "R7_LIFECYCLE_INVALID")

-----------------------------------------------------------------------------
(* The environment *)

Running(p) == pub[p].pc \in
    {"call", "snapshot", "claim", "guard", "prepare", "check", "replace", "verify",
     "record_published", "cleanup", "consume", "require_recovery", "restore",
     "restore_replace", "restore_verify", "record_rollback", "cleanup_rollback",
     "record_failed", "cleanup_failed"}

Crash(p) ==
    /\ Running(p)
    /\ Goto(p, "crashed")
    /\ UNCHANGED <<files, record, artifact, editor>>

ForeignWrite ==
    /\ foreign < MaxForeign
    /\ foreign' = foreign + 1
    /\ target' = [target EXCEPT !.content = "foreign"]
    /\ wroteAt' = [p \in Publishers |-> pub[p].pc]
    /\ UNCHANGED <<backup, replaced, unread, record, pub, artifact, editor>>

\* cad_agent commands read the manifest, work, and write it back whole with
\* write_manifest, which takes the lock but compares no hash.
EditorReads(e) ==
    /\ editor[e] = NoManifest
    /\ manifest.rest < MaxEdits
    /\ editor' = [editor EXCEPT ![e] = manifest]
    /\ UNCHANGED <<files, record, pub, artifact>>

EditorWrites(e) ==
    /\ editor[e] # NoManifest
    /\ manifest' = [editor[e] EXCEPT !.rest = @ + 1]
    /\ clobbered' = (clobbered \/ editor[e].life # manifest.life)
    /\ editor' = [editor EXCEPT ![e] = NoManifest]
    /\ UNCHANGED <<files, recorded, pub, artifact>>

Publish(p) ==
    \/ Call(p) \/ Snapshot(p) \/ Claim(p) \/ TransitionFails(p, "claim", "R7_LIFECYCLE_INVALID")
    \/ GuardReplay(p) \/ ReadManifest(p)
    \/ Prepare(p) \/ CheckPrepared(p) \/ Replace(p) \/ Verify(p) \/ VerifyFails(p)
    \/ FailBeforeReplace(p) \/ RecordFailed(p)
    \/ RecordPublished(p) \/ Cleanup(p) \/ Consume(p)
    \/ RequireRecovery(p) \/ CheckRestore(p) \/ Restore(p) \/ VerifyRestored(p)
    \/ RestoreFails(p) \/ RecordRollback(p)

Next ==
    \/ \E p \in Publishers : Publish(p) \/ Crash(p)
    \/ ForeignWrite
    \/ \E e \in Editors : EditorReads(e) \/ EditorWrites(e)

Spec == Init /\ [][Next]_vars

-----------------------------------------------------------------------------
(* What publication promises *)

TypeOK ==
    /\ target \in [content : Contents, file : Nat]
    /\ backup \in [Publishers -> {"none", "original"}]
    /\ manifest \in Manifests
    /\ pub \in [Publishers -> [pc : Pcs, seen : Manifests \cup {NoManifest},
                               life : Lifecycles \cup {NoLife}, pair : Nat, prepared : Nat]]
    /\ artifact \in [Publishers -> Artifacts]
    /\ editor \in [Editors -> Manifests \cup {NoManifest}]
    /\ foreign \in 0..MaxForeign
    /\ unread \subseteq replaced /\ replaced \subseteq Publishers
    /\ recorded \in BOOLEAN /\ clobbered \in BOOLEAN
    /\ wroteAt \in [Publishers -> Pcs]

\* A published drawing that no RECORD_PUBLISHED vouches for can still be taken
\* back: a backup of the original exists, whatever failed or crashed, unless the
\* target could not be read right after a replacement (FailedLeavesTarget).
OriginalSurvives ==
    target.content \in Artifacts /\ ~recorded /\ unread = {} =>
        \E p \in Publishers : backup[p] = "original"

\* "If verification fails before replacement, the target is untouched. If
\* replacement or post-save verification fails, the verified backup is
\* restored": a call that ends as failed did not replace the target.
FailedLeavesTarget ==
    \A p \in Publishers : At(p, "R7_PUBLICATION_FAILED") => p \notin replaced

\* A consumed authorization was spent on a publication that stands: no later
\* recovery, replay or failure takes the published drawing back, unless a
\* write_manifest has put an older lifecycle back.
ConsumedIsPublished ==
    ~clobbered /\ manifest.life # NoLife /\ manifest.life.authorization = "CONSUMED" =>
        target.content \in {manifest.life.pair.artifact, "foreign"}

\* A call that reports a rollback left the original drawing in place, unless
\* another call has replaced it too.
RolledBackIsRestored ==
    \A p \in Publishers :
        At(p, "R7_PUBLICATION_ROLLED_BACK") /\ replaced = {p} =>
            target.content \in {"original", "foreign"}

\* Failure, recovery and rollback never return the grant to unused
\* (tests/test_cad_agent_publication_manifest.py:346), nor does another
\* publication take it.
GrantIsNeverReturned ==
    [][manifest.life # NoLife /\ ~clobbered' => manifest'.life # NoLife /\ manifest'.life.pair = manifest.life.pair]_vars

\* What is recorded and reported of a publication is true of the target.
RecordIsTrue == TypeOK /\ ConsumedIsPublished /\ RolledBackIsRestored

\* No step loses the original drawing, and a publisher replaces the bytes of
\* another program only if they were written between its last look at the
\* target and its os.replace.
BytesSurvive ==
    [][/\ OriginalSurvives'
       /\ target.content = "foreign" /\ target' # target =>
            \/ target'.content = "foreign"
            \/ \E p \in Publishers : /\ pub[p].pc \in {"replace", "restore_replace"}
                                     /\ wroteAt[p] = pub[p].pc
                                     /\ pub'[p] # pub[p]]_vars
=============================================================================
