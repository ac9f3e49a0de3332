--------------------------- MODULE PublicationProofs ---------------------------
(***************************************************************************)
(* Proofs about Publication, for any number of publishers, artifacts and   *)
(* editors and any number of foreign writes and edits; and, at the end,    *)
(* about the evidence chain that a publication rests on.                   *)
(***************************************************************************)
EXTENDS MCReview, TLAPS

\* What a publisher's locals are.
Locals == [pc : Pcs, seen : Manifests \cup {NoManifest},
           life : Lifecycles \cup {NoLife}, pair : Nat, prepared : Nat]

Actions == {"CONSUME", "RECORD_PUBLISHED", "RECORD_FAILED", "REQUIRE_RECOVERY", "RECORD_ROLLBACK"}

\* The steps of a call that holds the claim.
ClaimedPcs == {"guard", "prepare", "check", "replace", "verify", "record_published", "cleanup",
               "consume", "require_recovery", "restore", "restore_replace", "restore_verify",
               "record_rollback", "cleanup_rollback", "record_failed", "cleanup_failed"}

\* The steps, and the ends, of a call whose backup may be the last original.
ExposedPcs == {"verify", "record_published", "require_recovery", "restore", "restore_replace",
               "restore_verify", "crashed", "R7_LIFECYCLE_INVALID", "R7_RECOVERY_REQUIRED"}

-----------------------------------------------------------------------------
(* Lemmas about the operators *)

\* A call goes to a step and forgets the manifest it has hashed.
LEMMA GotoTyped ==
    ASSUME TypeOK, NEW p \in Publishers, NEW pc \in Pcs, Goto(p, pc)
    PROVE  /\ pub' \in [Publishers -> Locals]
           /\ pub'[p].pc = pc /\ pub'[p].pair = pub[p].pair /\ pub'[p].life = pub[p].life
           /\ \A q \in Publishers \ {p} : pub'[q] = pub[q]
  <1>1. pub \in [Publishers -> Locals]
    BY DEF TypeOK, Locals
  <1>2. pub[p] \in Locals
    BY <1>1
  <1>3. pub' = [pub EXCEPT ![p] = [pub[p] EXCEPT !.pc = pc, !.seen = NoManifest]]
    BY <1>1 DEF Goto
  <1>4. [pub[p] EXCEPT !.pc = pc, !.seen = NoManifest] \in Locals
    BY <1>2 DEF Locals
  <1> QED
    BY <1>1, <1>2, <1>3, <1>4 DEF Locals

\* A record of a lifecycle is never the absence of one.
LEMMA LifeIsRecord ==
    ASSUME NEW life \in Lifecycles
    PROVE  life # NoLife
  <1>1. "none" \notin PublicationStates
    BY DEF PublicationStates
  <1>2. life.state \in PublicationStates
    BY DEF Lifecycles
  <1> QED
    BY <1>1, <1>2 DEF NoLife

\* What a transition makes of the record: the pair stays, and only CONSUME
\* touches the authorization.
LEMMA AfterKeeps ==
    ASSUME TypeOK, manifest.life # NoLife, NEW action \in Actions
    PROVE  /\ After(action) \in Lifecycles
           /\ After(action).pair = manifest.life.pair
           /\ action = "CONSUME" => /\ After(action).authorization = "CONSUMED"
                                    /\ After(action).state = manifest.life.state
           /\ action # "CONSUME" => After(action).authorization = manifest.life.authorization
           /\ action = "RECORD_PUBLISHED" => After(action).state = "PUBLISHED"
           /\ action \in {"RECORD_FAILED", "REQUIRE_RECOVERY", "RECORD_ROLLBACK"} =>
                After(action).state \notin {"INTENT_RECORDED", "PUBLISHED"}
  <1> DEFINE life == manifest.life
  <1>1. life \in Lifecycles
    BY DEF TypeOK, Manifests
  <1> HIDE DEF life
  <1>2. \A state \in PublicationStates :
          /\ [life EXCEPT !.state = state] \in Lifecycles
          /\ [life EXCEPT !.state = state].pair = life.pair
          /\ [life EXCEPT !.state = state].authorization = life.authorization
          /\ [life EXCEPT !.state = state].state = state
    BY <1>1 DEF Lifecycles
  <1>3. /\ [life EXCEPT !.authorization = "CONSUMED"] \in Lifecycles
        /\ [life EXCEPT !.authorization = "CONSUMED"].pair = life.pair
        /\ [life EXCEPT !.authorization = "CONSUMED"].authorization = "CONSUMED"
        /\ [life EXCEPT !.authorization = "CONSUMED"].state = life.state
    BY <1>1 DEF Lifecycles, AuthorizationStates
  <1>4. CASE action = "CONSUME"
    BY <1>3, <1>4 DEF After, life
  <1>5. CASE action = "RECORD_PUBLISHED"
    <2>1. After(action) = [life EXCEPT !.state = "PUBLISHED"]
      BY <1>5 DEF After, life
    <2> QED
      BY <1>2, <1>5, <2>1 DEF PublicationStates, life
  <1>6. CASE action = "RECORD_FAILED"
    <2>1. After(action) = [life EXCEPT !.state = "FAILED"]
      BY <1>6 DEF After, life
    <2> QED
      BY <1>2, <1>6, <2>1 DEF PublicationStates, life
  <1>7. CASE action = "REQUIRE_RECOVERY"
    <2>1. After(action) = [life EXCEPT !.state = "RECOVERY_REQUIRED"]
      BY <1>7 DEF After, life
    <2> QED
      BY <1>2, <1>7, <2>1 DEF PublicationStates, life
  <1>8. CASE action = "RECORD_ROLLBACK"
    <2>1. After(action) = [life EXCEPT !.state = "ROLLED_BACK"]
      BY <1>8 DEF After, life
    <2> QED
      BY <1>2, <1>8, <2>1 DEF PublicationStates, life
  <1> QED
    BY <1>4, <1>5, <1>6, <1>7, <1>8 DEF Actions

\* One lifecycle transition, whatever its action.
LEMMA TransitionTyped ==
    ASSUME TypeOK, NEW p \in Publishers, NEW pc \in Pcs, NEW action \in Actions,
           NEW done \in Pcs, NEW failed \in Pcs, Transition(p, pc, action, done, failed)
    PROVE  /\ TypeOK'
           /\ At(p, pc) /\ May(action)
           /\ manifest.life # NoLife /\ manifest.life.pair = Pair(p)
           /\ manifest'.life = After(action)
           /\ recorded' = (recorded \/ action = "RECORD_PUBLISHED")
           /\ pub'[p].pc \in {done, failed}
           /\ pub'[p].pair = pub[p].pair
           /\ \A q \in Publishers \ {p} : pub'[q] = pub[q]
           /\ UNCHANGED <<files, clobbered, artifact, editor>>
  <1>1. /\ At(p, pc) /\ May(action) /\ manifest.life # NoLife /\ manifest.life.pair = Pair(p)
        /\ manifest' = [manifest EXCEPT !.life = After(action)]
        /\ recorded' = (recorded \/ action = "RECORD_PUBLISHED")
        /\ UNCHANGED <<files, clobbered, artifact, editor>>
    BY DEF Transition, Matches
  <1>2. PICK next \in {done, failed} : Goto(p, next)
    BY DEF Transition
  <1>3. After(action) \in Lifecycles
    BY <1>1, AfterKeeps
  <1>4. manifest' \in Manifests /\ manifest'.life = After(action)
    BY <1>1, <1>3 DEF TypeOK, Manifests
  <1>5. /\ pub' \in [Publishers -> Locals] /\ pub'[p].pc \in {done, failed}
        /\ pub'[p].pair = pub[p].pair
        /\ \A q \in Publishers \ {p} : pub'[q] = pub[q]
    BY <1>2, GotoTyped
  <1>6. recorded' \in BOOLEAN
    BY <1>1 DEF TypeOK
  <1>7. TypeOK'
    BY <1>1, <1>4, <1>5, <1>6 DEF TypeOK, files, Locals
  <1> QED
    BY <1>1, <1>4, <1>5, <1>7

-----------------------------------------------------------------------------
(* Type correctness, and what each step of a call changes *)

\* Steps of a call that change nothing but its own locals.
Looks(p) ==
    \/ Call(p) \/ Snapshot(p) \/ GuardReplay(p) \/ ReadManifest(p)
    \/ CheckPrepared(p) \/ Verify(p) \/ FailBeforeReplace(p)
    \/ CheckRestore(p) \/ VerifyRestored(p) \/ RestoreFails(p) \/ Crash(p)
    \/ TransitionFails(p, "claim", "R7_LIFECYCLE_INVALID")
    \/ TransitionFails(p, "record_published", "require_recovery")
    \/ TransitionFails(p, "consume", "require_recovery")
    \/ TransitionFails(p, "record_failed", "R7_LIFECYCLE_INVALID")
    \/ TransitionFails(p, "require_recovery", "R7_LIFECYCLE_INVALID")
    \/ TransitionFails(p, "record_rollback", "R7_LIFECYCLE_INVALID")

\* The lifecycle transitions that follow a claim.
Records(p) ==
    \/ Transition(p, "record_published", "RECORD_PUBLISHED", "cleanup", "require_recovery")
    \/ Transition(p, "consume", "CONSUME", "PUBLISHED", "require_recovery")
    \/ Transition(p, "record_failed", "RECORD_FAILED", "cleanup_failed", "R7_LIFECYCLE_INVALID")
    \/ Transition(p, "require_recovery", "REQUIRE_RECOVERY", "restore", "R7_LIFECYCLE_INVALID")
    \/ Transition(p, "record_rollback", "RECORD_ROLLBACK", "cleanup_rollback",
                  "R7_LIFECYCLE_INVALID")

LEMMA NextSteps ==
    ASSUME Next
    PROVE  \/ \E p \in Publishers : Looks(p)
           \/ \E p \in Publishers : Records(p)
           \/ \E p \in Publishers : Claim(p)
           \/ \E p \in Publishers : Prepare(p)
           \/ \E p \in Publishers : Replace(p)
           \/ \E p \in Publishers : VerifyFails(p)
           \/ \E p \in Publishers : Cleanup(p)
           \/ \E p \in Publishers : Restore(p)
           \/ ForeignWrite
           \/ \E e \in Editors : EditorReads(e)
           \/ \E e \in Editors : EditorWrites(e)
  BY DEF Next, Publish, Looks, Records, RecordFailed, RecordPublished, Consume, RequireRecovery,
         RecordRollback

LEMMA LooksTyped ==
    ASSUME TypeOK, NEW p \in Publishers, Looks(p)
    PROVE  /\ pub' \in [Publishers -> Locals]
           /\ \A q \in Publishers \ {p} : pub'[q] = pub[q]
           /\ UNCHANGED <<files, record, artifact, editor>>
           /\ TypeOK'
  <1>0. /\ pub \in [Publishers -> Locals] /\ manifest \in Manifests /\ target.file \in Nat
        /\ pub[p] \in Locals
    BY DEF TypeOK, Locals
  <1>1. UNCHANGED <<files, record, artifact, editor>>
    BY DEF Looks, Call, Snapshot, GuardReplay, ReadManifest, CheckPrepared, Verify,
           FailBeforeReplace, CheckRestore, VerifyRestored, RestoreFails, Crash, TransitionFails
  <1>2. ASSUME Call(p) \/ ReadManifest(p)
        PROVE  /\ pub' \in [Publishers -> Locals]
               /\ \A q \in Publishers \ {p} : pub'[q] = pub[q]
    <2>1. PICK pc \in Pcs :
            pub' = [pub EXCEPT ![p] = [pub[p] EXCEPT !.pc = pc, !.seen = manifest]]
      <3>1. CASE Call(p)
        BY <1>0, <3>1 DEF Call, Pcs
      <3>2. CASE ReadManifest(p)
        <4>1. pub[p].pc \in Pcs
          BY <1>0 DEF Locals
        <4>2. [pub[p] EXCEPT !.pc = pub[p].pc, !.seen = manifest] = [pub[p] EXCEPT !.seen = manifest]
          BY <1>0 DEF Locals
        <4> QED
          BY <1>0, <3>2, <4>1, <4>2 DEF ReadManifest
      <3> QED
        BY <1>2, <3>1, <3>2
    <2>2. [pub[p] EXCEPT !.pc = pc, !.seen = manifest] \in Locals
      BY <1>0 DEF Locals
    <2> QED
      BY <1>0, <2>1, <2>2
  <1>3. ASSUME Snapshot(p), target.content = "original"
        PROVE  /\ pub' \in [Publishers -> Locals]
               /\ \A q \in Publishers \ {p} : pub'[q] = pub[q]
    <2>1. pub' = [pub EXCEPT ![p] = [pub[p] EXCEPT !.pc = "claim", !.pair = target.file]]
      BY <1>0, <1>3 DEF Snapshot
    <2>2. [pub[p] EXCEPT !.pc = "claim", !.pair = target.file] \in Locals
      BY <1>0 DEF Locals, Pcs
    <2> QED
      BY <1>0, <2>1, <2>2
  <1>4. ASSUME NEW pc \in Pcs, Goto(p, pc)
        PROVE  /\ pub' \in [Publishers -> Locals]
               /\ \A q \in Publishers \ {p} : pub'[q] = pub[q]
    BY <1>4, GotoTyped
  <1>5. \/ Call(p) \/ ReadManifest(p)
        \/ Snapshot(p) /\ target.content = "original"
        \/ \E pc \in Pcs : Goto(p, pc)
    BY DEF Looks, Call, Snapshot, GuardReplay, ReadManifest, CheckPrepared, Verify, Pcs,
           FailBeforeReplace, CheckRestore, VerifyRestored, RestoreFails, Crash, TransitionFails
  <1>6. /\ pub' \in [Publishers -> Locals]
        /\ \A q \in Publishers \ {p} : pub'[q] = pub[q]
    BY <1>2, <1>3, <1>4, <1>5
  <1> QED
    BY <1>1, <1>6 DEF TypeOK, files, record, Locals

\* What such a step can have decided, by the step it goes to.
LEMMA LooksFlow ==
    ASSUME TypeOK, NEW p \in Publishers, Looks(p)
    PROVE  /\ pub'[p].pc \in {"guard", "check", "verify", "cleanup", "consume", "restore",
                              "restore_verify", "cleanup_rollback", "cleanup_failed", "PUBLISHED",
                              "R7_PUBLICATION_ROLLED_BACK", "R7_PUBLICATION_FAILED"} =>
                pub'[p].pc = pub[p].pc
           /\ pub'[p].pc = "replace" => At(p, "check") /\ target.content = "original"
           /\ pub'[p].pc = "restore_replace" =>
                /\ At(p, "restore") /\ target.content = artifact[p] /\ backup[p] = "original"
           /\ pub'[p].pc = "record_rollback" =>
                \/ At(p, "record_rollback")
                \/ At(p, "restore_verify") /\ target.content = "original"
           /\ pub'[p].pc = "record_published" => pub[p].pc \in {"verify", "record_published"}
           /\ pub'[p].pc \in ClaimedPcs => pub[p].pc \in ClaimedPcs /\ pub'[p].pair = pub[p].pair
           /\ pub[p].pc \in ExposedPcs =>
                \/ pub'[p].pc \in ExposedPcs
                \/ At(p, "restore_verify") /\ pub'[p].pc = "record_rollback"
  <1>0. /\ pub \in [Publishers -> Locals] /\ pub[p] \in Locals
    BY DEF TypeOK, Locals
  <1>1. CASE Call(p)
    <2>1. At(p, "call") /\ pub'[p].pc = "snapshot"
      BY <1>0, <1>1 DEF Call, Locals
    <2> QED
      BY <2>1 DEF At, ClaimedPcs, ExposedPcs
  <1>2. CASE Snapshot(p)
    <2>1. At(p, "snapshot") /\ pub'[p].pc \in {"claim", "R7_AUTHORIZATION_INVALID"}
      BY <1>0, <1>2 DEF Snapshot, Goto, Locals
    <2> QED
      BY <2>1 DEF At, ClaimedPcs, ExposedPcs
  <1>3. CASE ReadManifest(p)
    <2>1. pub'[p].pc = pub[p].pc /\ pub'[p].pair = pub[p].pair /\ pub[p].pc \in RecordPcs
      BY <1>0, <1>3 DEF ReadManifest, Locals
    <2> QED
      BY <2>1 DEF At, RecordPcs
  <1>4. ASSUME NEW pc \in Pcs, Goto(p, pc)
        PROVE  pub'[p].pc = pc /\ pub'[p].pair = pub[p].pair
    BY <1>4, GotoTyped
  <1>5. CASE GuardReplay(p)
    <2>1. At(p, "guard") /\ pub'[p].pc \in {"prepare", "R7_CLAIM_REPLAY"} /\ pub'[p].pair = pub[p].pair
      BY <1>4, <1>5 DEF GuardReplay, Pcs
    <2> QED
      BY <2>1 DEF At, ClaimedPcs, ExposedPcs
  <1>6. CASE CheckPrepared(p)
    <2>1. /\ At(p, "check") /\ pub'[p].pc = "replace" /\ pub'[p].pair = pub[p].pair
          /\ target.content = "original"
      BY <1>4, <1>6 DEF CheckPrepared, Pcs
    <2> QED
      BY <2>1 DEF At, ClaimedPcs, ExposedPcs
  <1>7. CASE Verify(p)
    <2>1. At(p, "verify") /\ pub'[p].pc = "record_published" /\ pub'[p].pair = pub[p].pair
      BY <1>4, <1>7 DEF Verify, Pcs
    <2> QED
      BY <2>1 DEF At, ClaimedPcs, ExposedPcs
  <1>8. CASE FailBeforeReplace(p)
    <2>1. /\ pub[p].pc \in {"prepare", "check", "replace"}
          /\ pub'[p].pc = "record_failed" /\ pub'[p].pair = pub[p].pair
      BY <1>4, <1>8 DEF FailBeforeReplace, Pcs
    <2> QED
      BY <2>1 DEF At, ClaimedPcs, ExposedPcs
  <1>9. CASE CheckRestore(p)
    <2>1. /\ At(p, "restore") /\ pub'[p].pc = "restore_replace" /\ pub'[p].pair = pub[p].pair
          /\ target.content = artifact[p] /\ backup[p] = "original"
      BY <1>4, <1>9 DEF CheckRestore, Pcs
    <2> QED
      BY <2>1 DEF At, ClaimedPcs, ExposedPcs
  <1>10. CASE VerifyRestored(p)
    <2>1. /\ At(p, "restore_verify") /\ pub'[p].pc = "record_rollback"
          /\ pub'[p].pair = pub[p].pair /\ target.content = "original"
      BY <1>4, <1>10 DEF VerifyRestored, Pcs
    <2> QED
      BY <2>1 DEF At, ClaimedPcs, ExposedPcs
  <1>11. CASE RestoreFails(p)
    <2>1. /\ pub[p].pc \in {"restore", "restore_replace", "restore_verify"}
          /\ pub'[p].pc = "R7_RECOVERY_REQUIRED"
      BY <1>4, <1>11 DEF RestoreFails, Pcs
    <2> QED
      BY <2>1 DEF At, ClaimedPcs, ExposedPcs
  <1>12. CASE Crash(p)
    <2>1. pub'[p].pc = "crashed"
      BY <1>4, <1>12 DEF Crash, Pcs
    <2> QED
      BY <2>1 DEF At, ClaimedPcs, ExposedPcs
  <1>13. CASE \/ TransitionFails(p, "claim", "R7_LIFECYCLE_INVALID")
              \/ TransitionFails(p, "record_failed", "R7_LIFECYCLE_INVALID")
              \/ TransitionFails(p, "require_recovery", "R7_LIFECYCLE_INVALID")
              \/ TransitionFails(p, "record_rollback", "R7_LIFECYCLE_INVALID")
    <2>1. pub'[p].pc = "R7_LIFECYCLE_INVALID"
      BY <1>4, <1>13 DEF TransitionFails, Pcs
    <2> QED
      BY <2>1 DEF At, ClaimedPcs, ExposedPcs
  <1>14. CASE \/ TransitionFails(p, "record_published", "require_recovery")
              \/ TransitionFails(p, "consume", "require_recovery")
    <2>1. /\ pub[p].pc \in {"record_published", "consume"}
          /\ pub'[p].pc = "require_recovery" /\ pub'[p].pair = pub[p].pair
      BY <1>4, <1>14 DEF TransitionFails, Pcs, At
    <2> QED
      BY <2>1 DEF At, ClaimedPcs, ExposedPcs
  <1> QED
    BY <1>1, <1>2, <1>3, <1>5, <1>6, <1>7, <1>8, <1>9, <1>10, <1>11, <1>12, <1>13, <1>14 DEF Looks

\* The transitions: where each is made, and where it goes.
LEMMA RecordsFlow ==
    ASSUME TypeOK, NEW p \in Publishers, Records(p)
    PROVE  \E pc \in RecordPcs, action \in Actions :
             /\ At(p, pc) /\ May(action)
             /\ manifest'.life = After(action)
             /\ recorded' = (recorded \/ action = "RECORD_PUBLISHED")
             /\ pub'[p].pair = pub[p].pair
             /\ \/ /\ pc = "record_published" /\ action = "RECORD_PUBLISHED"
                   /\ pub'[p].pc \in {"cleanup", "require_recovery"}
                \/ /\ pc = "consume" /\ action = "CONSUME"
                   /\ pub'[p].pc \in {"PUBLISHED", "require_recovery"}
                \/ /\ pc = "record_failed" /\ action = "RECORD_FAILED"
                   /\ pub'[p].pc \in {"cleanup_failed", "R7_LIFECYCLE_INVALID"}
                \/ /\ pc = "require_recovery" /\ action = "REQUIRE_RECOVERY"
                   /\ pub'[p].pc \in {"restore", "R7_LIFECYCLE_INVALID"}
                \/ /\ pc = "record_rollback" /\ action = "RECORD_ROLLBACK"
                   /\ pub'[p].pc \in {"cleanup_rollback", "R7_LIFECYCLE_INVALID"}
  <1>0. /\ RecordPcs \subseteq Pcs
        /\ {"cleanup", "PUBLISHED", "cleanup_failed", "restore", "cleanup_rollback",
            "require_recovery", "R7_LIFECYCLE_INVALID"} \subseteq Pcs
    BY DEF RecordPcs, Pcs
  <1>1. CASE Transition(p, "record_published", "RECORD_PUBLISHED", "cleanup",
                        "require_recovery")
    <2>1. "record_published" \in RecordPcs /\ "RECORD_PUBLISHED" \in Actions
      BY DEF RecordPcs, Actions
    <2>2. /\ At(p, "record_published") /\ May("RECORD_PUBLISHED")
          /\ manifest'.life = After("RECORD_PUBLISHED")
          /\ recorded' = (recorded \/ "RECORD_PUBLISHED" = "RECORD_PUBLISHED")
          /\ pub'[p].pc \in {"cleanup", "require_recovery"}
          /\ pub'[p].pair = pub[p].pair
      BY <1>0, <1>1, <2>1, TransitionTyped
    <2> QED
      BY <2>1, <2>2
  <1>2. CASE Transition(p, "consume", "CONSUME", "PUBLISHED",
                        "require_recovery")
    <2>1. "consume" \in RecordPcs /\ "CONSUME" \in Actions
      BY DEF RecordPcs, Actions
    <2>2. /\ At(p, "consume") /\ May("CONSUME")
          /\ manifest'.life = After("CONSUME")
          /\ recorded' = (recorded \/ "CONSUME" = "RECORD_PUBLISHED")
          /\ pub'[p].pc \in {"PUBLISHED", "require_recovery"}
          /\ pub'[p].pair = pub[p].pair
      BY <1>0, <1>2, <2>1, TransitionTyped
    <2> QED
      BY <2>1, <2>2
  <1>3. CASE Transition(p, "record_failed", "RECORD_FAILED", "cleanup_failed",
                        "R7_LIFECYCLE_INVALID")
    <2>1. "record_failed" \in RecordPcs /\ "RECORD_FAILED" \in Actions
      BY DEF RecordPcs, Actions
    <2>2. /\ At(p, "record_failed") /\ May("RECORD_FAILED")
          /\ manifest'.life = After("RECORD_FAILED")
          /\ recorded' = (recorded \/ "RECORD_FAILED" = "RECORD_PUBLISHED")
          /\ pub'[p].pc \in {"cleanup_failed", "R7_LIFECYCLE_INVALID"}
          /\ pub'[p].pair = pub[p].pair
      BY <1>0, <1>3, <2>1, TransitionTyped
    <2> QED
      BY <2>1, <2>2
  <1>4. CASE Transition(p, "require_recovery", "REQUIRE_RECOVERY", "restore",
                        "R7_LIFECYCLE_INVALID")
    <2>1. "require_recovery" \in RecordPcs /\ "REQUIRE_RECOVERY" \in Actions
      BY DEF RecordPcs, Actions
    <2>2. /\ At(p, "require_recovery") /\ May("REQUIRE_RECOVERY")
          /\ manifest'.life = After("REQUIRE_RECOVERY")
          /\ recorded' = (recorded \/ "REQUIRE_RECOVERY" = "RECORD_PUBLISHED")
          /\ pub'[p].pc \in {"restore", "R7_LIFECYCLE_INVALID"}
          /\ pub'[p].pair = pub[p].pair
      BY <1>0, <1>4, <2>1, TransitionTyped
    <2> QED
      BY <2>1, <2>2
  <1>5. CASE Transition(p, "record_rollback", "RECORD_ROLLBACK", "cleanup_rollback",
                        "R7_LIFECYCLE_INVALID")
    <2>1. "record_rollback" \in RecordPcs /\ "RECORD_ROLLBACK" \in Actions
      BY DEF RecordPcs, Actions
    <2>2. /\ At(p, "record_rollback") /\ May("RECORD_ROLLBACK")
          /\ manifest'.life = After("RECORD_ROLLBACK")
          /\ recorded' = (recorded \/ "RECORD_ROLLBACK" = "RECORD_PUBLISHED")
          /\ pub'[p].pc \in {"cleanup_rollback", "R7_LIFECYCLE_INVALID"}
          /\ pub'[p].pair = pub[p].pair
      BY <1>0, <1>5, <2>1, TransitionTyped
    <2> QED
      BY <2>1, <2>2
  <1> QED
    BY <1>1, <1>2, <1>3, <1>4, <1>5 DEF Records

LEMMA RecordsTyped ==
    ASSUME TypeOK, NEW p \in Publishers, Records(p)
    PROVE  /\ TypeOK'
           /\ manifest.life # NoLife /\ manifest.life.pair = Pair(p)
           /\ \A q \in Publishers \ {p} : pub'[q] = pub[q]
           /\ UNCHANGED <<files, clobbered, artifact, editor>>
  <1>1. ASSUME NEW pc \in Pcs, NEW action \in Actions, NEW done \in Pcs, NEW failed \in Pcs,
               Transition(p, pc, action, done, failed)
        PROVE  /\ TypeOK'
               /\ manifest.life # NoLife /\ manifest.life.pair = Pair(p)
               /\ \A q \in Publishers \ {p} : pub'[q] = pub[q]
               /\ UNCHANGED <<files, clobbered, artifact, editor>>
    BY <1>1, TransitionTyped
  <1>2. /\ RecordPcs \subseteq Pcs
        /\ {"cleanup", "PUBLISHED", "cleanup_failed", "restore", "cleanup_rollback",
            "require_recovery", "R7_LIFECYCLE_INVALID"} \subseteq Pcs
    BY DEF RecordPcs, Pcs
  <1> QED
    BY <1>1, <1>2 DEF Records, RecordPcs, Actions

\* A call that reads its replacement back has made one.
VerifiesItsOwn ==
    \A p \in Publishers : pub[p].pc \in {"verify", "record_published"} => p \in replaced

\* The steps that write a file.
FileStep(p) == Prepare(p) \/ Replace(p) \/ VerifyFails(p) \/ Cleanup(p) \/ Restore(p)

LEMMA FileStepTyped ==
    ASSUME TypeOK, VerifiesItsOwn, NEW p \in Publishers, FileStep(p)
    PROVE  /\ TypeOK'
           /\ pub'[p].pair = pub[p].pair
           /\ \A q \in Publishers \ {p} : pub'[q] = pub[q]
           /\ UNCHANGED <<record, artifact, editor, foreign, wroteAt>>
  <1>0. /\ pub \in [Publishers -> Locals] /\ target.file \in Nat /\ pub[p] \in Locals
        /\ target \in [content : Contents, file : Nat] /\ artifact[p] \in Contents
    BY DEF TypeOK, Locals, Contents
  <1>1. UNCHANGED <<foreign, wroteAt, record, artifact, editor>>
    BY DEF FileStep, Prepare, Replace, VerifyFails, Cleanup, Restore
  <1>2. /\ pub' \in [Publishers -> Locals]
        /\ pub'[p].pair = pub[p].pair
        /\ \A q \in Publishers \ {p} : pub'[q] = pub[q]
    <2>1. CASE Prepare(p)
      <3>1. pub' = [pub EXCEPT ![p] = [pub[p] EXCEPT !.pc = "check", !.prepared = target.file]]
        BY <1>0, <2>1 DEF Prepare
      <3>2. [pub[p] EXCEPT !.pc = "check", !.prepared = target.file] \in Locals
        BY <1>0 DEF Locals, Pcs
      <3> QED
        BY <1>0, <3>1, <3>2 DEF Locals
    <2>2. CASE \E pc \in Pcs : Goto(p, pc)
      BY <2>2, GotoTyped
    <2>3. Prepare(p) \/ \E pc \in Pcs : Goto(p, pc)
      <3>1. CASE Cleanup(p)
        BY <3>1 DEF Cleanup, Pcs
      <3>2. CASE Replace(p) \/ VerifyFails(p) \/ Restore(p)
        BY <3>2 DEF Replace, VerifyFails, Restore, Pcs
      <3> QED
        BY <3>1, <3>2 DEF FileStep
    <2> QED
      BY <2>1, <2>2, <2>3
  <1>3. target' \in [content : Contents, file : Nat]
    <2>1. target' = target \/ \E content \in Contents :
            target' = [content |-> content, file |-> target.file + 1]
      BY <1>0 DEF FileStep, Prepare, Replace, VerifyFails, Cleanup, Restore, Contents
    <2> QED
      BY <1>0, <2>1
  <1>4. backup' \in [Publishers -> {"none", "original"}]
    <2>1. backup' = backup \/ \E bytes \in {"none", "original"} :
            backup' = [backup EXCEPT ![p] = bytes]
      BY DEF FileStep, Prepare, Replace, VerifyFails, Cleanup, Restore
    <2> QED
      BY <2>1 DEF TypeOK
  <1>5. unread' \subseteq replaced' /\ replaced' \subseteq Publishers
    <2>1. CASE VerifyFails(p)
      <3>1. p \in replaced
        BY <2>1 DEF VerifyFails, VerifiesItsOwn, At
      <3> QED
        BY <2>1, <3>1 DEF TypeOK, VerifyFails
    <2>2. CASE ~VerifyFails(p)
      BY <2>2 DEF TypeOK, FileStep, Prepare, Replace, Cleanup, Restore
    <2> QED
      BY <2>1, <2>2
  <1> QED
    BY <1>1, <1>2, <1>3, <1>4, <1>5 DEF TypeOK, record, Locals

\* Where each of them goes, and what it writes.
LEMMA FileStepFlow ==
    ASSUME TypeOK, NEW p \in Publishers, FileStep(p)
    PROVE  \/ /\ At(p, "prepare") /\ pub'[p].pc = "check"
              /\ backup' = [backup EXCEPT ![p] = "original"]
              /\ UNCHANGED <<target, replaced, unread>>
           \/ /\ At(p, "replace") /\ pub'[p].pc = "verify"
              /\ target'.content = artifact[p] /\ replaced' = replaced \cup {p}
              /\ UNCHANGED <<backup, unread>>
           \/ /\ At(p, "verify")
              /\ \/ pub'[p].pc = "require_recovery" /\ UNCHANGED unread
                 \/ pub'[p].pc = "record_failed" /\ unread' = unread \cup {p}
              /\ UNCHANGED <<target, backup, replaced>>
           \/ /\ pub[p].pc \in {"cleanup", "cleanup_rollback", "cleanup_failed"}
              /\ pub'[p].pc \in {"consume", "R7_PUBLICATION_ROLLED_BACK", "R7_PUBLICATION_FAILED",
                                 "R7_CLEANUP_FAILED"}
              /\ pub'[p].pc = "R7_PUBLICATION_ROLLED_BACK" => At(p, "cleanup_rollback")
              /\ \A q \in Publishers \ {p} : backup'[q] = backup[q]
              /\ UNCHANGED <<target, replaced, unread>>
           \/ /\ At(p, "restore_replace") /\ pub'[p].pc = "restore_verify"
              /\ target'.content = "original"
              /\ UNCHANGED <<backup, replaced, unread>>
  <1>0. /\ pub \in [Publishers -> Locals] /\ pub[p] \in Locals
        /\ backup \in [Publishers -> {"none", "original"}]
    BY DEF TypeOK, Locals
  <1>1. ASSUME NEW pc \in Pcs, Goto(p, pc)
        PROVE  pub'[p].pc = pc
    BY <1>1, GotoTyped
  <1>2. CASE Prepare(p)
    <2>1. pub'[p].pc = "check"
      BY <1>0, <1>2 DEF Prepare, Locals
    <2> QED
      BY <1>2, <2>1 DEF Prepare
  <1>3. CASE Replace(p)
    BY <1>1, <1>3 DEF Replace, Pcs
  <1>4. CASE VerifyFails(p)
    BY <1>1, <1>4 DEF VerifyFails, Pcs
  <1>5. CASE Cleanup(p)
    <2>1. /\ pub'[p].pc \in {"consume", "R7_PUBLICATION_ROLLED_BACK", "R7_PUBLICATION_FAILED",
                             "R7_CLEANUP_FAILED"}
          /\ pub'[p].pc = "R7_PUBLICATION_ROLLED_BACK" => At(p, "cleanup_rollback")
      <3>1. CASE At(p, "cleanup")
        BY <1>1, <1>5, <3>1 DEF Cleanup, Pcs, At
      <3>2. CASE At(p, "cleanup_rollback")
        BY <1>1, <1>5, <3>2 DEF Cleanup, Pcs, At
      <3>3. CASE At(p, "cleanup_failed")
        BY <1>1, <1>5, <3>3 DEF Cleanup, Pcs, At
      <3> QED
        BY <1>5, <3>1, <3>2, <3>3 DEF Cleanup, At
    <2>2. \A q \in Publishers \ {p} : backup'[q] = backup[q]
      BY <1>0, <1>5 DEF Cleanup
    <2> QED
      BY <1>5, <2>1, <2>2 DEF Cleanup
  <1>6. CASE Restore(p)
    BY <1>1, <1>6 DEF Restore, Pcs
  <1> QED
    BY <1>2, <1>3, <1>4, <1>5, <1>6 DEF FileStep

\* The claim: the call holds the record it goes on with.
LEMMA ClaimTyped ==
    ASSUME TypeOK, NEW p \in Publishers, Claim(p)
    PROVE  /\ TypeOK'
           /\ At(p, "claim")
           /\ pub'[p].pc \in {"guard", "R7_LIFECYCLE_INVALID"}
           /\ pub'[p].pair = pub[p].pair
           /\ manifest'.life # NoLife /\ manifest'.life.pair = Pair(p)
           /\ manifest.life # NoLife => manifest'.life = manifest.life
           /\ manifest.life = NoLife => manifest'.life = Claimed(p)
           /\ \A q \in Publishers \ {p} : pub'[q] = pub[q]
           /\ UNCHANGED <<files, recorded, clobbered, artifact, editor>>
  <1>0. /\ pub \in [Publishers -> Locals] /\ pub[p] \in Locals /\ manifest \in Manifests
        /\ artifact[p] \in Artifacts
    BY DEF TypeOK, Locals
  <1>1. Claimed(p) \in Lifecycles /\ Claimed(p).pair = Pair(p)
    <2>1. Pair(p) \in Pairs
      BY <1>0 DEF Pair, Pairs, Locals
    <2> QED
      BY <2>1 DEF Claimed, Lifecycles, AuthorizationStates, PublicationStates
  <1>2. /\ manifest' = [manifest EXCEPT !.life = IF manifest.life = NoLife THEN Claimed(p)
                                                 ELSE manifest.life]
        /\ manifest.life = NoLife \/ Matches(p)
        /\ At(p, "claim")
        /\ UNCHANGED <<files, recorded, clobbered, artifact, editor>>
    BY <1>0 DEF Claim, Manifests
  <1>3. /\ manifest.life # NoLife => manifest'.life = manifest.life
        /\ manifest.life = NoLife => manifest'.life = Claimed(p)
    BY <1>0, <1>2 DEF Manifests
  <1>4. manifest' \in Manifests
    BY <1>0, <1>1, <1>2 DEF Manifests
  <1>5. manifest'.life # NoLife /\ manifest'.life.pair = Pair(p)
    BY <1>1, <1>2, <1>3, LifeIsRecord DEF Matches
  <1>6. manifest'.life \in Lifecycles
    BY <1>4, <1>5 DEF Manifests
  <1>7. /\ pub' \in [Publishers -> Locals]
        /\ pub'[p].pc \in {"guard", "R7_LIFECYCLE_INVALID"} /\ pub'[p].pair = pub[p].pair
        /\ \A q \in Publishers \ {p} : pub'[q] = pub[q]
    <2>1. CASE Goto(p, "R7_LIFECYCLE_INVALID")
      BY <2>1, GotoTyped DEF Pcs
    <2>2. CASE pub' = [pub EXCEPT ![p].pc = "guard", ![p].life = manifest'.life]
      <3>1. pub' = [pub EXCEPT ![p] = [pub[p] EXCEPT !.pc = "guard", !.life = manifest'.life]]
        BY <1>0, <2>2
      <3>2. [pub[p] EXCEPT !.pc = "guard", !.life = manifest'.life] \in Locals
        BY <1>0, <1>6 DEF Locals, Pcs
      <3> QED
        BY <1>0, <3>1, <3>2 DEF Locals
    <2> QED
      BY <2>1, <2>2 DEF Claim
  <1> QED
    BY <1>2, <1>3, <1>4, <1>5, <1>7 DEF TypeOK, files, Locals

\* The environment's steps.
LEMMA ForeignTyped ==
    ASSUME TypeOK, ForeignWrite
    PROVE  /\ TypeOK'
           /\ target'.content = "foreign"
           /\ wroteAt' = [p \in Publishers |-> pub[p].pc]
           /\ UNCHANGED <<backup, replaced, unread, record, pub, artifact, editor>>
  <1>0. /\ target \in [content : Contents, file : Nat] /\ foreign \in 0..MaxForeign
        /\ pub \in [Publishers -> Locals]
    BY DEF TypeOK, Locals
  <1>1. /\ foreign' = foreign + 1 /\ foreign < MaxForeign
        /\ target' = [target EXCEPT !.content = "foreign"]
        /\ wroteAt' = [p \in Publishers |-> pub[p].pc]
        /\ UNCHANGED <<backup, replaced, unread, record, pub, artifact, editor>>
    BY DEF ForeignWrite
  <1>2. target' \in [content : Contents, file : Nat] /\ target'.content = "foreign"
    BY <1>0, <1>1 DEF Contents
  <1>3. foreign' \in 0..MaxForeign
    BY <1>0, <1>1, PublicationBounds
  <1>4. wroteAt' \in [Publishers -> Pcs]
    BY <1>0, <1>1 DEF Locals
  <1> QED
    BY <1>1, <1>2, <1>3, <1>4 DEF TypeOK, record

LEMMA EditorTyped ==
    ASSUME TypeOK, NEW e \in Editors, EditorReads(e) \/ EditorWrites(e)
    PROVE  /\ TypeOK'
           /\ ~clobbered' => ~clobbered /\ manifest'.life = manifest.life
           /\ UNCHANGED <<files, recorded, pub, artifact>>
  <1>0. /\ editor \in [Editors -> Manifests \cup {NoManifest}] /\ manifest \in Manifests
        /\ editor[e] \in Manifests \cup {NoManifest}
    BY DEF TypeOK
  <1>1. CASE EditorReads(e)
    <2>1. editor' \in [Editors -> Manifests \cup {NoManifest}]
      BY <1>0, <1>1 DEF EditorReads
    <2> QED
      BY <1>1, <2>1 DEF EditorReads, TypeOK, files, record
  <1>2. CASE EditorWrites(e)
    <2>1. editor[e] \in Manifests
      BY <1>0, <1>2 DEF EditorWrites
    <2>2. /\ manifest' = [editor[e] EXCEPT !.rest = editor[e].rest + 1]
          /\ clobbered' = (clobbered \/ editor[e].life # manifest.life)
          /\ editor' = [editor EXCEPT ![e] = NoManifest]
          /\ UNCHANGED <<files, recorded, pub, artifact>>
      BY <1>2, <2>1 DEF EditorWrites, Manifests
    <2>3. manifest' \in Manifests /\ manifest'.life = editor[e].life
      BY <2>1, <2>2 DEF Manifests
    <2>4. editor' \in [Editors -> Manifests \cup {NoManifest}] /\ clobbered' \in BOOLEAN
      BY <1>0, <2>2 DEF TypeOK
    <2> QED
      BY <2>2, <2>3, <2>4 DEF TypeOK, files
  <1> QED
    BY <1>1, <1>2

-----------------------------------------------------------------------------
(* Type correctness *)

Typed == TypeOK /\ VerifiesItsOwn

LEMMA TypedStep == Typed /\ [Next]_vars => Typed'
  <1> SUFFICES ASSUME Typed, [Next]_vars
               PROVE  Typed'
    OBVIOUS
  <1>0. TypeOK /\ VerifiesItsOwn
    BY DEF Typed
  <1>1. ASSUME NEW p \in Publishers, Looks(p)
        PROVE  Typed'
    <2>1. TypeOK' /\ UNCHANGED replaced /\ \A q \in Publishers \ {p} : pub'[q] = pub[q]
      BY <1>0, <1>1, LooksTyped DEF files
    <2>2. pub'[p].pc \in {"verify", "record_published"} =>
            pub[p].pc \in {"verify", "record_published"}
      BY <1>0, <1>1, LooksFlow
    <2> QED
      BY <1>0, <2>1, <2>2 DEF Typed, VerifiesItsOwn
  <1>2. ASSUME NEW p \in Publishers, Records(p)
        PROVE  Typed'
    <2>1. TypeOK' /\ UNCHANGED replaced /\ \A q \in Publishers \ {p} : pub'[q] = pub[q]
      BY <1>0, <1>2, RecordsTyped DEF files
    <2>2. pub'[p].pc \notin {"verify", "record_published"}
      BY <1>0, <1>2, RecordsFlow
    <2> QED
      BY <1>0, <2>1, <2>2 DEF Typed, VerifiesItsOwn
  <1>3. ASSUME NEW p \in Publishers, Claim(p)
        PROVE  Typed'
    <2>1. /\ TypeOK' /\ UNCHANGED replaced /\ \A q \in Publishers \ {p} : pub'[q] = pub[q]
          /\ pub'[p].pc \notin {"verify", "record_published"}
      BY <1>0, <1>3, ClaimTyped DEF files
    <2> QED
      BY <1>0, <2>1 DEF Typed, VerifiesItsOwn
  <1>4. ASSUME NEW p \in Publishers, FileStep(p)
        PROVE  Typed'
    <2>1. TypeOK' /\ \A q \in Publishers \ {p} : pub'[q] = pub[q]
      BY <1>0, <1>4, FileStepTyped
    <2>2. /\ pub'[p].pc \in {"verify", "record_published"} => p \in replaced'
          /\ replaced \subseteq replaced'
      BY <1>0, <1>4, FileStepFlow
    <2> QED
      BY <1>0, <2>1, <2>2 DEF Typed, VerifiesItsOwn
  <1>5. CASE ForeignWrite
    BY <1>0, <1>5, ForeignTyped DEF Typed, VerifiesItsOwn
  <1>6. ASSUME NEW e \in Editors, EditorReads(e) \/ EditorWrites(e)
        PROVE  Typed'
    BY <1>0, <1>6, EditorTyped DEF Typed, VerifiesItsOwn, files
  <1>7. CASE UNCHANGED vars
    BY <1>0, <1>7 DEF Typed, TypeOK, VerifiesItsOwn, vars
  <1> QED
    BY <1>1, <1>2, <1>3, <1>4, <1>5, <1>6, <1>7, NextSteps DEF FileStep

LEMMA InitTyped == Init => Typed
  <1> SUFFICES ASSUME Init
               PROVE  Typed
    OBVIOUS
  <1>1. Idle \in Locals
    BY DEF Idle, Locals, Pcs
  <1>2. pub \in [Publishers -> Locals]
    BY <1>1 DEF Init
  <1>3. \A p \in Publishers : pub[p].pc = "call"
    BY DEF Init, Idle
  <1>4. [life |-> NoLife, rest |-> 0] \in Manifests
    BY DEF Manifests
  <1>5. wroteAt \in [Publishers -> Pcs]
    BY DEF Init, Pcs
  <1>6. target \in [content : Contents, file : Nat] /\ foreign \in 0..MaxForeign
    BY PublicationBounds DEF Init, Contents
  <1>7. /\ backup \in [Publishers -> {"none", "original"}]
        /\ artifact \in [Publishers -> Artifacts]
        /\ editor \in [Editors -> Manifests \cup {NoManifest}]
    BY DEF Init
  <1>8. unread \subseteq replaced /\ replaced \subseteq Publishers
        /\ recorded \in BOOLEAN /\ clobbered \in BOOLEAN /\ manifest \in Manifests
    BY <1>4 DEF Init
  <1>9. VerifiesItsOwn
    BY <1>3 DEF VerifiesItsOwn
  <1> QED
    BY <1>2, <1>5, <1>6, <1>7, <1>8, <1>9 DEF Typed, TypeOK, Locals

LEMMA TypedAlways == Spec => []Typed
  BY InitTyped, TypedStep, PTL DEF Spec

\* Every variable keeps its type, whatever fails or crashes.
THEOREM TypeCorrect == Spec => []TypeOK
  <1>1. Typed => TypeOK
    BY DEF Typed
  <1> QED
    BY <1>1, TypedAlways, PTL

-----------------------------------------------------------------------------
(* The grant *)

\* No step returns the grant or lets another publication take it, unless an
\* editor has put an older lifecycle back: a transition keeps the pair, a claim
\* on a record that is there leaves it, and nothing else writes the lifecycle.
THEOREM GrantStaysSpent == Spec => GrantIsNeverReturned
  <1>1. TypeOK /\ VerifiesItsOwn /\ [Next]_vars =>
          [manifest.life # NoLife /\ ~clobbered' =>
             manifest'.life # NoLife /\ manifest'.life.pair = manifest.life.pair]_vars
    <2> SUFFICES ASSUME TypeOK, VerifiesItsOwn, Next, manifest.life # NoLife, ~clobbered'
                 PROVE  manifest'.life # NoLife /\ manifest'.life.pair = manifest.life.pair
      BY DEF vars
    <2>1. ASSUME NEW p \in Publishers, Looks(p)
          PROVE  manifest' = manifest
      BY <2>1, LooksTyped DEF record
    <2>2. ASSUME NEW p \in Publishers, Records(p)
          PROVE  manifest'.life # NoLife /\ manifest'.life.pair = manifest.life.pair
      <3>1. PICK action \in Actions : manifest'.life = After(action)
        BY <2>2, RecordsFlow
      <3>2. After(action) \in Lifecycles /\ After(action).pair = manifest.life.pair
        BY AfterKeeps
      <3> QED
        BY <3>1, <3>2, LifeIsRecord
    <2>3. ASSUME NEW p \in Publishers, Claim(p)
          PROVE  manifest'.life = manifest.life
      BY <2>3, ClaimTyped
    <2>4. ASSUME NEW p \in Publishers, FileStep(p)
          PROVE  manifest' = manifest
      BY <2>4, FileStepTyped DEF record
    <2>5. CASE ForeignWrite
      BY <2>5, ForeignTyped DEF record
    <2>6. ASSUME NEW e \in Editors, EditorReads(e) \/ EditorWrites(e)
          PROVE  manifest'.life = manifest.life
      BY <2>6, EditorTyped
    <2> QED
      BY <2>1, <2>2, <2>3, <2>4, <2>5, <2>6, NextSteps DEF FileStep
  <1>2. Typed => TypeOK /\ VerifiesItsOwn
    BY DEF Typed
  <1> QED
    BY <1>1, <1>2, TypedAlways, PTL DEF Spec, GrantIsNeverReturned

-----------------------------------------------------------------------------
(* What is recorded of a publication is true of the target *)

\* A call that goes on holds the claim that is recorded.
Holds ==
    \A p \in Publishers :
        pub[p].pc \in ClaimedPcs => manifest.life # NoLife /\ manifest.life.pair = Pair(p)

RollbackPcs == {"restore", "restore_replace", "restore_verify", "record_rollback",
                "cleanup_rollback"}

\* A call takes its drawing back only once the record says so.
Withdrawn ==
    \A p \in Publishers :
        pub[p].pc \in RollbackPcs => manifest.life.state \notin {"INTENT_RECORDED", "PUBLISHED"}

\* While the record claims or reports a publication, the target that a call has
\* replaced holds the artifact of the record, unless another program wrote it.
Stands ==
    manifest.life # NoLife =>
        /\ manifest.life.state = "PUBLISHED" => replaced # {}
        /\ manifest.life.authorization = "CONSUMED" => manifest.life.state = "PUBLISHED"
        /\ manifest.life.state \in {"INTENT_RECORDED", "PUBLISHED"} /\ replaced # {} =>
             target.content \in {manifest.life.pair.artifact, "foreign"}

\* Nothing is replaced before a claim is recorded.
ClaimedFirst == replaced # {} => manifest.life # NoLife

Recorded == ~clobbered => Holds /\ Withdrawn /\ Stands /\ ClaimedFirst

LEMMA RecordedLooks ==
    ASSUME TypeOK, Recorded, NEW p \in Publishers, Looks(p)
    PROVE  Recorded'
  <1>1. /\ \A q \in Publishers \ {p} : pub'[q] = pub[q]
        /\ UNCHANGED <<target, replaced, manifest, clobbered, artifact>>
    BY LooksTyped DEF files, record
  <1>2. /\ pub'[p].pc \in ClaimedPcs => pub[p].pc \in ClaimedPcs /\ pub'[p].pair = pub[p].pair
        /\ pub'[p].pc \in RollbackPcs => pub[p].pc \in RollbackPcs
    <2>1. pub'[p].pc \in RollbackPcs => pub[p].pc \in RollbackPcs
      BY LooksFlow DEF RollbackPcs, At
    <2> QED
      BY <2>1, LooksFlow
  <1>3. CASE clobbered
    BY <1>1, <1>3 DEF Recorded
  <1>4. CASE ~clobbered
    <2>1. Holds'
      BY <1>1, <1>2, <1>4 DEF Recorded, Holds, Pair
    <2>2. Withdrawn'
      BY <1>1, <1>2, <1>4 DEF Recorded, Withdrawn
    <2>3. Stands' /\ ClaimedFirst'
      BY <1>1, <1>4 DEF Recorded, Stands, ClaimedFirst
    <2> QED
      BY <2>1, <2>2, <2>3 DEF Recorded
  <1> QED
    BY <1>3, <1>4

LEMMA RecordedRecords ==
    ASSUME TypeOK, VerifiesItsOwn, Recorded, NEW p \in Publishers, Records(p)
    PROVE  Recorded'
  <1>1. /\ \A q \in Publishers \ {p} : pub'[q] = pub[q]
        /\ UNCHANGED <<target, replaced, clobbered, artifact>>
        /\ manifest.life # NoLife /\ manifest.life.pair = Pair(p)
    BY RecordsTyped DEF files
  <1>2. PICK pc \in RecordPcs, action \in Actions :
             /\ At(p, pc) /\ May(action)
             /\ manifest'.life = After(action)
             /\ pub'[p].pair = pub[p].pair
             /\ \/ /\ pc = "record_published" /\ action = "RECORD_PUBLISHED"
                   /\ pub'[p].pc \in {"cleanup", "require_recovery"}
                \/ /\ pc = "consume" /\ action = "CONSUME"
                   /\ pub'[p].pc \in {"PUBLISHED", "require_recovery"}
                \/ /\ pc = "record_failed" /\ action = "RECORD_FAILED"
                   /\ pub'[p].pc \in {"cleanup_failed", "R7_LIFECYCLE_INVALID"}
                \/ /\ pc = "require_recovery" /\ action = "REQUIRE_RECOVERY"
                   /\ pub'[p].pc \in {"restore", "R7_LIFECYCLE_INVALID"}
                \/ /\ pc = "record_rollback" /\ action = "RECORD_ROLLBACK"
                   /\ pub'[p].pc \in {"cleanup_rollback", "R7_LIFECYCLE_INVALID"}
    BY RecordsFlow
  <1>3. /\ After(action) \in Lifecycles
        /\ manifest'.life.pair = manifest.life.pair
        /\ action = "CONSUME" => /\ manifest'.life.authorization = "CONSUMED"
                                 /\ manifest'.life.state = manifest.life.state
        /\ action # "CONSUME" => manifest'.life.authorization = manifest.life.authorization
        /\ action = "RECORD_PUBLISHED" => manifest'.life.state = "PUBLISHED"
        /\ action \in {"RECORD_FAILED", "REQUIRE_RECOVERY", "RECORD_ROLLBACK"} =>
             manifest'.life.state \notin {"INTENT_RECORDED", "PUBLISHED"}
    BY <1>1, <1>2, AfterKeeps
  <1>4. manifest'.life # NoLife
    BY <1>2, <1>3, LifeIsRecord
  <1>5. /\ action = "CONSUME" => manifest.life.state = "PUBLISHED"
        /\ action = "RECORD_PUBLISHED" => manifest.life.state = "INTENT_RECORDED"
        /\ action \in {"RECORD_FAILED", "REQUIRE_RECOVERY", "RECORD_ROLLBACK"} =>
             manifest.life.authorization = "CLAIMED"
    BY <1>2 DEF May
  <1>6. CASE clobbered
    BY <1>1, <1>6 DEF Recorded
  <1>7. CASE ~clobbered
    <2>0. Holds /\ Withdrawn /\ Stands /\ ClaimedFirst
      BY <1>7 DEF Recorded
    <2>1. Holds'
      <3>1. ASSUME NEW q \in Publishers, pub'[q].pc \in ClaimedPcs
            PROVE  manifest'.life.pair = Pair(q)'
        <4>1. CASE q = p
          BY <1>1, <1>2, <1>3, <4>1 DEF Pair
        <4>2. CASE q # p
          BY <1>1, <1>3, <2>0, <3>1, <4>2 DEF Holds, Pair
        <4> QED
          BY <4>1, <4>2
      <3> QED
        BY <1>4, <3>1 DEF Holds
    <2>2. Withdrawn'
      <3>1. ASSUME NEW q \in Publishers, pub'[q].pc \in RollbackPcs
            PROVE  manifest'.life.state \notin {"INTENT_RECORDED", "PUBLISHED"}
        <4>1. CASE q = p
          BY <1>2, <1>3, <3>1, <4>1 DEF RollbackPcs
        <4>2. CASE q # p
          <5>1. manifest.life.state \notin {"INTENT_RECORDED", "PUBLISHED"}
            BY <1>1, <2>0, <3>1, <4>2 DEF Withdrawn
          <5> QED
            BY <1>2, <1>3, <1>5, <5>1
        <4> QED
          BY <4>1, <4>2
      <3> QED
        BY <3>1 DEF Withdrawn
    <2>3. Stands'
      <3>1. action = "RECORD_PUBLISHED" => replaced # {}
        BY <1>2 DEF At, VerifiesItsOwn
      <3>2. action = "CONSUME" => manifest'.life.state = "PUBLISHED" /\ replaced # {}
        BY <1>1, <1>3, <1>5, <2>0 DEF Stands
      <3>3. manifest'.life.state = "PUBLISHED" => replaced' # {}
        BY <1>1, <1>2, <1>3, <3>1, <3>2
      <3>4. manifest'.life.authorization = "CONSUMED" => manifest'.life.state = "PUBLISHED"
        BY <1>1, <1>2, <1>3, <1>5, <2>0, <3>2 DEF Stands
      <3>5. manifest'.life.state \in {"INTENT_RECORDED", "PUBLISHED"} /\ replaced' # {} =>
              target'.content \in {manifest'.life.pair.artifact, "foreign"}
        BY <1>1, <1>2, <1>3, <1>5, <2>0 DEF Stands
      <3> QED
        BY <3>3, <3>4, <3>5 DEF Stands
    <2>4. ClaimedFirst'
      BY <1>4 DEF ClaimedFirst
    <2> QED
      BY <2>1, <2>2, <2>3, <2>4 DEF Recorded
  <1> QED
    BY <1>6, <1>7

LEMMA RecordedClaim ==
    ASSUME TypeOK, Recorded, NEW p \in Publishers, Claim(p)
    PROVE  Recorded'
  <1>1. /\ At(p, "claim")
        /\ pub'[p].pc \in {"guard", "R7_LIFECYCLE_INVALID"} /\ pub'[p].pair = pub[p].pair
        /\ manifest'.life # NoLife /\ manifest'.life.pair = Pair(p)
        /\ manifest.life # NoLife => manifest'.life = manifest.life
        /\ manifest.life = NoLife => manifest'.life = Claimed(p)
        /\ \A q \in Publishers \ {p} : pub'[q] = pub[q]
        /\ UNCHANGED <<target, replaced, clobbered, artifact>>
    BY ClaimTyped DEF files
  <1>2. CASE clobbered
    BY <1>1, <1>2 DEF Recorded
  <1>3. CASE ~clobbered
    <2>0. Holds /\ Withdrawn /\ Stands /\ ClaimedFirst
      BY <1>3 DEF Recorded
    <2>1. Holds'
      <3>1. ASSUME NEW q \in Publishers, pub'[q].pc \in ClaimedPcs
            PROVE  manifest'.life.pair = Pair(q)'
        <4>1. CASE q = p
          BY <1>1, <4>1 DEF Pair
        <4>2. CASE q # p
          BY <1>1, <2>0, <3>1, <4>2 DEF Holds, Pair
        <4> QED
          BY <4>1, <4>2
      <3> QED
        BY <1>1, <3>1 DEF Holds
    <2>2. Withdrawn'
      <3>1. ASSUME NEW q \in Publishers, pub'[q].pc \in RollbackPcs
            PROVE  manifest'.life.state \notin {"INTENT_RECORDED", "PUBLISHED"}
        <4>1. q # p /\ pub[q].pc \in RollbackPcs
          BY <1>1, <3>1 DEF RollbackPcs
        <4>2. pub[q].pc \in ClaimedPcs
          BY <4>1 DEF RollbackPcs, ClaimedPcs
        <4>3. manifest'.life = manifest.life
          BY <1>1, <2>0, <4>2 DEF Holds
        <4> QED
          BY <2>0, <4>1, <4>3 DEF Withdrawn
      <3> QED
        BY <3>1 DEF Withdrawn
    <2>3. Stands'
      <3>1. CASE manifest.life # NoLife
        BY <1>1, <2>0, <3>1 DEF Stands
      <3>2. CASE manifest.life = NoLife
        <4>1. replaced' = {}
          BY <1>1, <2>0, <3>2 DEF ClaimedFirst
        <4>2. manifest'.life.state = "INTENT_RECORDED" /\ manifest'.life.authorization = "CLAIMED"
          BY <1>1, <3>2 DEF Claimed
        <4> QED
          BY <4>1, <4>2 DEF Stands
      <3> QED
        BY <3>1, <3>2
    <2>4. ClaimedFirst'
      BY <1>1 DEF ClaimedFirst
    <2> QED
      BY <2>1, <2>2, <2>3, <2>4 DEF Recorded
  <1> QED
    BY <1>2, <1>3

LEMMA RecordedFileStep ==
    ASSUME TypeOK, VerifiesItsOwn, Recorded, NEW p \in Publishers, FileStep(p)
    PROVE  Recorded'
  <1>1. /\ pub'[p].pair = pub[p].pair
        /\ \A q \in Publishers \ {p} : pub'[q] = pub[q]
        /\ UNCHANGED <<manifest, clobbered, artifact>>
    BY FileStepTyped DEF record
  <1>2. /\ pub'[p].pc \in ClaimedPcs => pub[p].pc \in ClaimedPcs
        /\ pub'[p].pc \in RollbackPcs => pub[p].pc \in RollbackPcs
        /\ \/ UNCHANGED <<target, replaced>>
           \/ /\ At(p, "replace") /\ target'.content = artifact[p]
              /\ replaced' = replaced \cup {p}
           \/ At(p, "restore_replace") /\ UNCHANGED replaced
    <2>1. /\ pub'[p].pc \in ClaimedPcs => pub[p].pc \in ClaimedPcs
          /\ pub'[p].pc \in RollbackPcs => pub[p].pc \in RollbackPcs
      BY FileStepFlow DEF At, ClaimedPcs, RollbackPcs
    <2> QED
      BY <2>1, FileStepFlow
  <1>3. CASE clobbered
    BY <1>1, <1>3 DEF Recorded
  <1>4. CASE ~clobbered
    <2>0. Holds /\ Withdrawn /\ Stands /\ ClaimedFirst
      BY <1>4 DEF Recorded
    <2>1. Holds'
      BY <1>1, <1>2, <2>0 DEF Holds, Pair
    <2>2. Withdrawn'
      BY <1>1, <1>2, <2>0 DEF Withdrawn
    <2>3. CASE UNCHANGED <<target, replaced>>
      <3>1. Stands' /\ ClaimedFirst'
        BY <1>1, <2>0, <2>3 DEF Stands, ClaimedFirst
      <3> QED
        BY <2>1, <2>2, <3>1 DEF Recorded
    <2>4. CASE At(p, "replace") /\ target'.content = artifact[p] /\ replaced' = replaced \cup {p}
      <3>1. manifest.life # NoLife /\ manifest.life.pair.artifact = artifact[p]
        <4>1. pub[p].pc \in ClaimedPcs
          BY <2>4 DEF At, ClaimedPcs
        <4>2. manifest.life # NoLife /\ manifest.life.pair = Pair(p)
          BY <2>0, <4>1 DEF Holds
        <4> QED
          BY <4>2 DEF Pair
      <3>2. Stands' /\ ClaimedFirst'
        BY <1>1, <2>0, <2>4, <3>1 DEF Stands, ClaimedFirst
      <3> QED
        BY <2>1, <2>2, <3>2 DEF Recorded
    <2>5. CASE At(p, "restore_replace") /\ UNCHANGED replaced
      <3>1. manifest.life.state \notin {"INTENT_RECORDED", "PUBLISHED"}
        BY <2>0, <2>5 DEF Withdrawn, At, RollbackPcs
      <3>2. Stands' /\ ClaimedFirst'
        BY <1>1, <2>0, <2>5, <3>1 DEF Stands, ClaimedFirst
      <3> QED
        BY <2>1, <2>2, <3>2 DEF Recorded
    <2> QED
      BY <1>2, <2>3, <2>4, <2>5
  <1> QED
    BY <1>3, <1>4

LEMMA RecordedStep == Typed /\ Recorded /\ [Next]_vars => Recorded'
  <1> SUFFICES ASSUME Typed, Recorded, [Next]_vars
               PROVE  Recorded'
    OBVIOUS
  <1>0. TypeOK /\ VerifiesItsOwn
    BY DEF Typed
  <1>1. CASE ForeignWrite
    <2>1. /\ target'.content = "foreign"
          /\ UNCHANGED <<replaced, manifest, clobbered, pub, artifact>>
      BY <1>0, <1>1, ForeignTyped DEF record
    <2> QED
      BY <2>1 DEF Recorded, Holds, Withdrawn, Stands, ClaimedFirst, Pair
  <1>2. ASSUME NEW e \in Editors, EditorReads(e) \/ EditorWrites(e)
        PROVE  Recorded'
    <2>1. /\ ~clobbered' => ~clobbered /\ manifest'.life = manifest.life
          /\ UNCHANGED <<target, replaced, pub, artifact>>
      BY <1>0, <1>2, EditorTyped DEF files
    <2> QED
      BY <2>1 DEF Recorded, Holds, Withdrawn, Stands, ClaimedFirst, Pair
  <1>3. CASE UNCHANGED vars
    BY <1>3 DEF Recorded, Holds, Withdrawn, Stands, ClaimedFirst, Pair, vars
  <1> QED
    BY <1>0, <1>1, <1>2, <1>3, NextSteps, RecordedLooks, RecordedRecords, RecordedClaim,
       RecordedFileStep DEF FileStep

\* From the moment its backup is back, the call that alone replaced the target
\* finds the original there, or what another program wrote.
RestoredPcs == {"restore_verify", "record_rollback", "cleanup_rollback",
                "R7_PUBLICATION_ROLLED_BACK"}

Restored ==
    \A p \in Publishers :
        pub[p].pc \in RestoredPcs /\ replaced \subseteq {p} =>
            target.content \in {"original", "foreign"}

LEMMA RestoredStep == Typed /\ Restored /\ [Next]_vars => Restored'
  <1> SUFFICES ASSUME Typed, Restored, [Next]_vars
               PROVE  Restored'
    OBVIOUS
  <1>0. TypeOK /\ VerifiesItsOwn
    BY DEF Typed
  <1>1. ASSUME NEW p \in Publishers, Looks(p)
        PROVE  Restored'
    <2>1. /\ \A q \in Publishers \ {p} : pub'[q] = pub[q]
          /\ UNCHANGED <<target, replaced>>
      BY <1>0, <1>1, LooksTyped DEF files
    <2>2. pub'[p].pc \in RestoredPcs =>
            pub[p].pc \in RestoredPcs \/ target.content = "original"
      BY <1>0, <1>1, LooksFlow DEF RestoredPcs, At
    <2> QED
      BY <2>1, <2>2 DEF Restored
  <1>2. ASSUME NEW p \in Publishers, Records(p)
        PROVE  Restored'
    <2>1. /\ \A q \in Publishers \ {p} : pub'[q] = pub[q]
          /\ UNCHANGED <<target, replaced>>
      BY <1>0, <1>2, RecordsTyped DEF files
    <2>2. pub'[p].pc \in RestoredPcs => pub[p].pc \in RestoredPcs
      BY <1>0, <1>2, RecordsFlow DEF RestoredPcs, At
    <2> QED
      BY <2>1, <2>2 DEF Restored
  <1>3. ASSUME NEW p \in Publishers, Claim(p)
        PROVE  Restored'
    <2>1. /\ \A q \in Publishers \ {p} : pub'[q] = pub[q]
          /\ pub'[p].pc \notin RestoredPcs
          /\ UNCHANGED <<target, replaced>>
      BY <1>0, <1>3, ClaimTyped DEF files, RestoredPcs
    <2> QED
      BY <2>1 DEF Restored
  <1>4. ASSUME NEW p \in Publishers, FileStep(p)
        PROVE  Restored'
    <2>1. \A q \in Publishers \ {p} : pub'[q] = pub[q]
      BY <1>0, <1>4, FileStepTyped
    <2>2. /\ pub'[p].pc \in RestoredPcs =>
               pub[p].pc \in RestoredPcs \/ target'.content = "original"
          /\ \/ UNCHANGED <<target, replaced>>
             \/ p \in replaced' /\ pub'[p].pc \notin RestoredPcs
             \/ target'.content = "original" /\ UNCHANGED replaced
      <3>1. pub'[p].pc \in RestoredPcs =>
              pub[p].pc \in RestoredPcs \/ target'.content = "original"
        BY <1>0, <1>4, FileStepFlow DEF RestoredPcs, At
      <3>2. \/ UNCHANGED <<target, replaced>>
            \/ p \in replaced' /\ pub'[p].pc \notin RestoredPcs
            \/ target'.content = "original" /\ UNCHANGED replaced
        BY <1>0, <1>4, FileStepFlow DEF RestoredPcs
      <3> QED
        BY <3>1, <3>2
    <2> QED
      BY <2>1, <2>2 DEF Restored
  <1>5. CASE ForeignWrite
    BY <1>0, <1>5, ForeignTyped DEF Restored
  <1>6. ASSUME NEW e \in Editors, EditorReads(e) \/ EditorWrites(e)
        PROVE  Restored'
    BY <1>0, <1>6, EditorTyped DEF Restored, files
  <1>7. CASE UNCHANGED vars
    BY <1>7 DEF Restored, vars
  <1> QED
    BY <1>1, <1>2, <1>3, <1>4, <1>5, <1>6, <1>7, NextSteps DEF FileStep

\* What is recorded and reported of a publication is true of the target: the
\* drawing of a consumed authorization stands, and a call that reports a
\* rollback has left the original.
THEOREM RecordedIsTrue == Spec => []RecordIsTrue
  <1>1. Init => Recorded /\ Restored
    BY DEF Init, Idle, Recorded, Holds, Withdrawn, Stands, ClaimedFirst, Restored, ClaimedPcs,
           RollbackPcs, RestoredPcs
  <1>2. Typed /\ Recorded /\ Restored => RecordIsTrue
    <2> SUFFICES ASSUME TypeOK, Recorded, Restored
                 PROVE  RecordIsTrue
      BY DEF Typed
    <2>1. ConsumedIsPublished
      BY DEF Recorded, Stands, ConsumedIsPublished
    <2>2. RolledBackIsRestored
      BY DEF Restored, RestoredPcs, RolledBackIsRestored, At
    <2> QED
      BY <2>1, <2>2 DEF RecordIsTrue
  <1> QED
    BY <1>1, <1>2, TypedAlways, RecordedStep, RestoredStep, PTL DEF Spec

-----------------------------------------------------------------------------
(* The bytes of the original and of other programs *)

\* The call p can still put the original back.
Exposed(p) == pub[p].pc \in ExposedPcs /\ backup[p] = "original"

\* A call that is about to replace the target has its backup.
BacksUp == \A p \in Publishers : pub[p].pc \in {"check", "replace"} => backup[p] = "original"

Recoverable ==
    target.content \in Artifacts /\ ~recorded /\ unread = {} => \E p \in Publishers : Exposed(p)

\* A step of its call, or of another, leaves the call able to put the original
\* back: the backup goes only after the publication is recorded.
LEMMA ExposedStays ==
    ASSUME Typed, [Next]_vars, NEW p \in Publishers, Exposed(p),
           ~recorded', unread' = {}, target'.content # "original"
    PROVE  Exposed(p)'
  <1>0. TypeOK /\ VerifiesItsOwn
    BY DEF Typed
  <1>1. ASSUME NEW q \in Publishers, Looks(q)
        PROVE  Exposed(p)'
    <2>1. /\ \A r \in Publishers \ {q} : pub'[r] = pub[r]
          /\ UNCHANGED <<target, backup>>
      BY <1>0, <1>1, LooksTyped DEF files
    <2>2. pub[q].pc \in ExposedPcs =>
            \/ pub'[q].pc \in ExposedPcs
            \/ At(q, "restore_verify") /\ target.content = "original"
      BY <1>0, <1>1, LooksFlow DEF At
    <2> QED
      BY <2>1, <2>2 DEF Exposed
  <1>2. ASSUME NEW q \in Publishers, Records(q)
        PROVE  Exposed(p)'
    <2>1. /\ \A r \in Publishers \ {q} : pub'[r] = pub[r]
          /\ UNCHANGED backup
      BY <1>0, <1>2, RecordsTyped DEF files
    <2>2. pub[q].pc \in ExposedPcs => pub'[q].pc \in ExposedPcs
      BY <1>0, <1>2, RecordsFlow DEF ExposedPcs, At
    <2> QED
      BY <2>1, <2>2 DEF Exposed
  <1>3. ASSUME NEW q \in Publishers, Claim(q)
        PROVE  Exposed(p)'
    <2>1. /\ \A r \in Publishers \ {q} : pub'[r] = pub[r]
          /\ At(q, "claim")
          /\ UNCHANGED backup
      BY <1>0, <1>3, ClaimTyped DEF files
    <2> QED
      BY <2>1 DEF Exposed, At, ExposedPcs
  <1>4. ASSUME NEW q \in Publishers, FileStep(q)
        PROVE  Exposed(p)'
    <2>1. \A r \in Publishers \ {q} : pub'[r] = pub[r]
      BY <1>0, <1>4, FileStepTyped
    <2>2. /\ pub[q].pc \in ExposedPcs => pub'[q].pc \in ExposedPcs /\ backup' = backup
          /\ \A r \in Publishers \ {q} : backup'[r] = backup[r]
      <3>1. \A r \in Publishers \ {q} : backup'[r] = backup[r]
        BY <1>0, <1>4, FileStepFlow DEF TypeOK
      <3>2. pub[q].pc \in ExposedPcs => pub'[q].pc \in ExposedPcs /\ backup' = backup
        BY <1>0, <1>4, FileStepFlow DEF ExposedPcs, At
      <3> QED
        BY <3>1, <3>2
    <2> QED
      BY <2>1, <2>2 DEF Exposed
  <1>5. CASE ForeignWrite
    BY <1>0, <1>5, ForeignTyped DEF Exposed
  <1>6. ASSUME NEW e \in Editors, EditorReads(e) \/ EditorWrites(e)
        PROVE  Exposed(p)'
    BY <1>0, <1>6, EditorTyped DEF Exposed, files
  <1>7. CASE UNCHANGED vars
    BY <1>7 DEF Exposed, vars
  <1> QED
    BY <1>1, <1>2, <1>3, <1>4, <1>5, <1>6, <1>7, NextSteps DEF FileStep

\* Only an os.replace puts an artifact into the target.
LEMMA TargetChanges ==
    ASSUME Typed, [Next]_vars, target' # target
    PROVE  \/ ForeignWrite
           \/ \E p \in Publishers :
                \/ /\ At(p, "replace") /\ pub'[p].pc = "verify"
                   /\ target'.content = artifact[p] /\ UNCHANGED backup
                \/ /\ At(p, "restore_replace") /\ pub'[p].pc = "restore_verify"
                   /\ target'.content = "original"
  <1>0. TypeOK /\ VerifiesItsOwn
    BY DEF Typed
  <1>1. ~ UNCHANGED vars
    BY DEF vars
  <1>2. ASSUME NEW p \in Publishers
        PROVE  ~Looks(p) /\ ~Records(p) /\ ~Claim(p)
    BY <1>0, LooksTyped, RecordsTyped, ClaimTyped DEF files
  <1>3. ASSUME NEW e \in Editors
        PROVE  ~(EditorReads(e) \/ EditorWrites(e))
    BY <1>0, EditorTyped DEF files
  <1>4. ForeignWrite \/ \E p \in Publishers : FileStep(p)
    BY <1>1, <1>2, <1>3, NextSteps DEF FileStep
  <1> QED
    BY <1>0, <1>4, FileStepFlow

LEMMA BacksUpStep == Typed /\ BacksUp /\ [Next]_vars => BacksUp'
  <1> SUFFICES ASSUME Typed, BacksUp, [Next]_vars
               PROVE  BacksUp'
    OBVIOUS
  <1>0. TypeOK /\ VerifiesItsOwn
    BY DEF Typed
  <1>1. ASSUME NEW q \in Publishers, Looks(q)
        PROVE  BacksUp'
    <2>1. /\ \A r \in Publishers \ {q} : pub'[r] = pub[r]
          /\ UNCHANGED backup
      BY <1>0, <1>1, LooksTyped DEF files
    <2>2. pub'[q].pc \in {"check", "replace"} => pub[q].pc = "check"
      BY <1>0, <1>1, LooksFlow DEF At
    <2> QED
      BY <2>1, <2>2 DEF BacksUp
  <1>2. ASSUME NEW q \in Publishers, Records(q)
        PROVE  BacksUp'
    <2>1. /\ \A r \in Publishers \ {q} : pub'[r] = pub[r]
          /\ UNCHANGED backup
      BY <1>0, <1>2, RecordsTyped DEF files
    <2>2. pub'[q].pc \notin {"check", "replace"}
      BY <1>0, <1>2, RecordsFlow
    <2> QED
      BY <2>1, <2>2 DEF BacksUp
  <1>3. ASSUME NEW q \in Publishers, Claim(q)
        PROVE  BacksUp'
    <2>1. /\ \A r \in Publishers \ {q} : pub'[r] = pub[r]
          /\ pub'[q].pc \notin {"check", "replace"}
          /\ UNCHANGED backup
      BY <1>0, <1>3, ClaimTyped DEF files
    <2> QED
      BY <2>1 DEF BacksUp
  <1>4. ASSUME NEW q \in Publishers, FileStep(q)
        PROVE  BacksUp'
    <2>1. \A r \in Publishers \ {q} : pub'[r] = pub[r]
      BY <1>0, <1>4, FileStepTyped
    <2>2. pub'[q].pc \in {"check", "replace"} => backup'[q] = "original"
      <3>1. backup \in [Publishers -> {"none", "original"}]
        BY <1>0 DEF TypeOK
      <3>2. pub'[q].pc \in {"check", "replace"} => backup' = [backup EXCEPT ![q] = "original"]
        BY <1>0, <1>4, FileStepFlow
      <3> QED
        BY <3>1, <3>2
    <2>3. \A r \in Publishers \ {q} : backup'[r] = backup[r]
      BY <1>0, <1>4, FileStepFlow DEF TypeOK
    <2> QED
      BY <2>1, <2>2, <2>3 DEF BacksUp
  <1>5. CASE ForeignWrite
    BY <1>0, <1>5, ForeignTyped DEF BacksUp
  <1>6. ASSUME NEW e \in Editors, EditorReads(e) \/ EditorWrites(e)
        PROVE  BacksUp'
    BY <1>0, <1>6, EditorTyped DEF BacksUp, files
  <1>7. CASE UNCHANGED vars
    BY <1>7 DEF BacksUp, vars
  <1> QED
    BY <1>1, <1>2, <1>3, <1>4, <1>5, <1>6, <1>7, NextSteps DEF FileStep

\* What is recorded as failed or not yet read is not taken back.
LEMMA HistoryGrows ==
    ASSUME Typed, [Next]_vars
    PROVE  (recorded => recorded') /\ unread \subseteq unread'
  <1>0. TypeOK /\ VerifiesItsOwn
    BY DEF Typed
  <1>1. ASSUME NEW p \in Publishers, Looks(p)
        PROVE  UNCHANGED <<recorded, unread>>
    BY <1>0, <1>1, LooksTyped DEF files, record
  <1>2. ASSUME NEW p \in Publishers, Records(p)
        PROVE  (recorded => recorded') /\ UNCHANGED unread
    <2>1. UNCHANGED unread
      BY <1>0, <1>2, RecordsTyped DEF files
    <2>2. recorded => recorded'
      BY <1>0, <1>2, RecordsFlow
    <2> QED
      BY <2>1, <2>2
  <1>3. ASSUME NEW p \in Publishers, Claim(p)
        PROVE  UNCHANGED <<recorded, unread>>
    BY <1>0, <1>3, ClaimTyped DEF files
  <1>4. ASSUME NEW p \in Publishers, FileStep(p)
        PROVE  UNCHANGED recorded /\ unread \subseteq unread'
    <2>1. UNCHANGED recorded
      BY <1>0, <1>4, FileStepTyped DEF record
    <2>2. unread \subseteq unread'
      BY <1>0, <1>4, FileStepFlow
    <2> QED
      BY <2>1, <2>2
  <1>5. CASE ForeignWrite
    BY <1>0, <1>5, ForeignTyped DEF record
  <1>6. ASSUME NEW e \in Editors, EditorReads(e) \/ EditorWrites(e)
        PROVE  UNCHANGED <<recorded, unread>>
    BY <1>0, <1>6, EditorTyped DEF files
  <1>7. CASE UNCHANGED vars
    BY <1>7 DEF vars
  <1> QED
    BY <1>1, <1>2, <1>3, <1>4, <1>5, <1>6, <1>7, NextSteps DEF FileStep

LEMMA RecoverableStep == Typed /\ BacksUp /\ Recoverable /\ [Next]_vars => Recoverable'
  <1> SUFFICES ASSUME Typed, BacksUp, Recoverable, [Next]_vars,
                      target'.content \in Artifacts, ~recorded', unread' = {}
               PROVE  \E p \in Publishers : Exposed(p)'
    BY DEF Recoverable
  <1>1. target'.content \notin {"original", "foreign"}
    BY ArtifactsAssumption
  <1>2. ~recorded /\ unread = {}
    BY HistoryGrows
  <1>3. CASE target' = target
    <2>1. PICK p \in Publishers : Exposed(p)
      BY <1>2, <1>3 DEF Recoverable
    <2>2. Exposed(p)'
      BY <1>1, <2>1, ExposedStays
    <2> QED
      BY <2>2
  <1>4. CASE target' # target
    <2>1. ~ForeignWrite
      BY <1>1, ForeignTyped DEF Typed
    <2>2. PICK p \in Publishers :
            /\ At(p, "replace") /\ pub'[p].pc = "verify"
            /\ target'.content = artifact[p] /\ UNCHANGED backup
      BY <1>1, <1>4, <2>1, TargetChanges
    <2>3. backup'[p] = "original"
      BY <2>2 DEF BacksUp, At
    <2>4. Exposed(p)'
      BY <2>2, <2>3 DEF Exposed, ExposedPcs
    <2> QED
      BY <2>4
  <1> QED
    BY <1>3, <1>4

\* The bytes of another program that a call is about to replace were written
\* since its last look at the target.
LooksFirst ==
    target.content = "foreign" =>
        \A p \in Publishers :
            pub[p].pc \in {"replace", "restore_replace"} => wroteAt[p] = pub[p].pc

LEMMA LooksFirstStep == Typed /\ LooksFirst /\ [Next]_vars => LooksFirst'
  <1> SUFFICES ASSUME Typed, LooksFirst, [Next]_vars
               PROVE  LooksFirst'
    OBVIOUS
  <1>0. TypeOK /\ VerifiesItsOwn /\ \A p \in Publishers : artifact[p] # "foreign"
    BY ArtifactsAssumption DEF Typed, TypeOK
  <1>1. ASSUME NEW q \in Publishers, Looks(q)
        PROVE  LooksFirst'
    <2>1. /\ \A r \in Publishers \ {q} : pub'[r] = pub[r]
          /\ UNCHANGED <<target, wroteAt>>
      BY <1>0, <1>1, LooksTyped DEF files
    <2>2. pub'[q].pc \in {"replace", "restore_replace"} => target.content # "foreign"
      BY <1>0, <1>1, LooksFlow
    <2> QED
      BY <2>1, <2>2 DEF LooksFirst
  <1>2. ASSUME NEW q \in Publishers, Records(q)
        PROVE  LooksFirst'
    <2>1. /\ \A r \in Publishers \ {q} : pub'[r] = pub[r]
          /\ UNCHANGED <<target, wroteAt>>
      BY <1>0, <1>2, RecordsTyped DEF files
    <2>2. pub'[q].pc \notin {"replace", "restore_replace"}
      BY <1>0, <1>2, RecordsFlow
    <2> QED
      BY <2>1, <2>2 DEF LooksFirst
  <1>3. ASSUME NEW q \in Publishers, Claim(q)
        PROVE  LooksFirst'
    <2>1. /\ \A r \in Publishers \ {q} : pub'[r] = pub[r]
          /\ pub'[q].pc \notin {"replace", "restore_replace"}
          /\ UNCHANGED <<target, wroteAt>>
      BY <1>0, <1>3, ClaimTyped DEF files
    <2> QED
      BY <2>1 DEF LooksFirst
  <1>4. ASSUME NEW q \in Publishers, FileStep(q)
        PROVE  LooksFirst'
    <2>1. (\A r \in Publishers \ {q} : pub'[r] = pub[r]) /\ UNCHANGED wroteAt
      BY <1>0, <1>4, FileStepTyped
    <2>2. /\ pub'[q].pc \notin {"replace", "restore_replace"}
          /\ UNCHANGED target \/ target'.content # "foreign"
      BY <1>0, <1>4, FileStepFlow
    <2> QED
      BY <2>1, <2>2 DEF LooksFirst
  <1>5. CASE ForeignWrite
    BY <1>0, <1>5, ForeignTyped DEF LooksFirst
  <1>6. ASSUME NEW e \in Editors, EditorReads(e) \/ EditorWrites(e)
        PROVE  LooksFirst'
    BY <1>0, <1>6, EditorTyped DEF LooksFirst, files
  <1>7. CASE UNCHANGED vars
    BY <1>7 DEF LooksFirst, vars
  <1> QED
    BY <1>1, <1>2, <1>3, <1>4, <1>5, <1>6, <1>7, NextSteps DEF FileStep

\* The original can be put back until the publication is recorded, and the bytes
\* of another program are replaced only in the window of an os.replace.
THEOREM NoBytesAreLost == Spec => BytesSurvive
  <1>1. Init => BacksUp /\ Recoverable /\ LooksFirst
    BY ArtifactsAssumption DEF Init, Idle, BacksUp, Recoverable, LooksFirst
  <1>2. Typed /\ BacksUp /\ Recoverable /\ LooksFirst /\ [Next]_vars =>
          [/\ OriginalSurvives'
           /\ target.content = "foreign" /\ target' # target =>
                \/ target'.content = "foreign"
                \/ \E p \in Publishers : /\ pub[p].pc \in {"replace", "restore_replace"}
                                         /\ wroteAt[p] = pub[p].pc
                                         /\ pub'[p] # pub[p]]_vars
    <2> SUFFICES ASSUME Typed, BacksUp, Recoverable, LooksFirst, Next
                 PROVE  /\ OriginalSurvives'
                        /\ target.content = "foreign" /\ target' # target =>
                             \/ target'.content = "foreign"
                             \/ \E p \in Publishers : /\ pub[p].pc \in {"replace", "restore_replace"}
                                                      /\ wroteAt[p] = pub[p].pc
                                                      /\ pub'[p] # pub[p]
      BY DEF vars
    <2>1. OriginalSurvives'
      <3>1. Recoverable'
        BY RecoverableStep
      <3> QED
        BY <3>1 DEF Recoverable, OriginalSurvives, Exposed
    <2>2. ASSUME target.content = "foreign", target' # target
          PROVE  \/ target'.content = "foreign"
                 \/ \E p \in Publishers : /\ pub[p].pc \in {"replace", "restore_replace"}
                                          /\ wroteAt[p] = pub[p].pc
                                          /\ pub'[p] # pub[p]
      <3>1. CASE ForeignWrite
        BY <3>1, ForeignTyped DEF Typed
      <3>2. ASSUME NEW p \in Publishers,
                   \/ At(p, "replace") /\ pub'[p].pc = "verify"
                   \/ At(p, "restore_replace") /\ pub'[p].pc = "restore_verify"
            PROVE  /\ pub[p].pc \in {"replace", "restore_replace"}
                   /\ wroteAt[p] = pub[p].pc
                   /\ pub'[p] # pub[p]
        BY <2>2, <3>2 DEF LooksFirst, At
      <3> QED
        BY <2>2, <3>1, <3>2, TargetChanges
    <2> QED
      BY <2>1, <2>2
  <1> QED
    BY <1>1, <1>2, TypedAlways, BacksUpStep, RecoverableStep, LooksFirstStep, PTL
       DEF Spec, BytesSurvive

-----------------------------------------------------------------------------
(***************************************************************************)
(* The evidence chain (EvidenceChain), for any number of drawing contents, *)
(* turns and events and any answers of the provider.                       *)
(***************************************************************************)
\* Revisions are contents that have come into being, and a child comes after
\* its parent; so does every content after those that are already there.
RevisionInv ==
    /\ fresh \in Nat /\ file \in Nat /\ file < fresh /\ noted \in Nat
    /\ revs \subseteq Chain!Bytes /\ Chain!Root \in revs /\ sel \in revs \cup {0}
    /\ parent \in [Chain!Bytes -> Nat] /\ art \in [Chain!Bytes -> Nat]
    /\ made \in [Chain!Bytes -> Nat]
    /\ \A r \in revs : r < fresh /\ parent[r] < r

\* A repair under way answers a sealed failure, and what it made is newer
\* than every revision.
JobInv ==
    \A j \in job :
        /\ job = {j} /\ j = [step |-> j.step, from |-> j.from, new |-> j.new]
        /\ j.from \in revs
        /\ \E v \in sealed : v.outcome = "FAIL" /\ v.cand = j.from
        /\ j.step # "planned" =>
            j.new \in Chain!Bytes /\ j.new < fresh /\ \A r \in revs : r < j.new
        /\ j.step \in {"issued", "matched"} => made[j.new] = j.from

\* A value read is not later than the value now, unless one came back.
Past(kind, then, now) == then \in Nat /\ (kind \in wavered \/ then <= now)

\* What a review has read, against the world as it is.
ReadInv ==
    /\ \A s \in one["state"] :
        /\ s = [revs |-> s.revs, sel |-> s.sel] /\ s.sel \in s.revs \cup {0}
        /\ s.revs \subseteq revs /\ Past("selection", s.sel, sel)
    /\ \A d \in one["dara"] :
        /\ d = [ref |-> d.ref, bytes |-> d.bytes]
        /\ Past("selection", d.ref, sel) /\ Past("file", d.bytes, file)
    /\ \A m \in one["manifest"] :
        Past("file", m.before, file) /\ Past("manifest", m.mut, noted)

\* A value between two readings that found the same.
Met(kind, again, then, now) == Past(kind, then, now) /\ (again /\ kind \notin wavered => then = now)

\* The moment of the turn: before now, after what was read, and the same as
\* what was found again.
MomentInv ==
    \A w \in moment :
        /\ w = [state |-> [revs |-> w.state.revs, sel |-> w.state.sel],
                file |-> w.file, noted |-> w.noted]
        /\ w.state.revs \subseteq revs /\ Past("selection", w.state.sel, sel)
        /\ Past("file", w.file, file) /\ Past("manifest", w.noted, noted)
        /\ \A s \in one["state"] :
            /\ s.revs \subseteq w.state.revs /\ ("state" \notin left => s.revs = w.state.revs)
            /\ Met("selection", "state" \notin left, s.sel, w.state.sel)
        /\ \A d \in one["dara"] :
            /\ Met("selection", "dara" \notin left, d.ref, w.state.sel)
            /\ Met("file", "dara" \notin left, d.bytes, w.file)
        /\ \A m \in one["manifest"] :
            /\ Met("file", "manifest" \notin left, m.before, w.file)
            /\ Met("manifest", "manifest" \notin left, m.mut, w.noted)

PhaseInv ==
    /\ one = [k \in Chain!Reads |-> one[k]]
    /\ phase = "idle" => one = Chain!Blank
    /\ phase # "second" => moment = {}
    /\ Chain!ValidOwnerState(one)

\* A verdict is of one moment, names its candidate, and was shown the
\* candidate's contents, each unless the values it rests on came back.
SealedInv ==
    \A v \in sealed :
        /\ v.cand \in revs
        /\ v.wavered = {} => v.held /\ v.ref = v.cand
        /\ "selection" \in v.wavered \/ (~v.camera /\ "file" \in v.wavered) \/ v.shown = v.cand

\* What is or will be published is the content of a sealed verdict's revision.
OutputInv ==
    /\ snap \subseteq sealed
    /\ \A p \in published : p.verdict \in sealed /\ p.bytes = art[p.verdict.cand]
    /\ \A r \in revs \ {Chain!Root} :
        \E v \in sealed : v.outcome = "FAIL" /\ v.cand = made[r]

ChainInv ==
    /\ RevisionInv /\ JobInv /\ PhaseInv /\ ReadInv /\ MomentInv /\ SealedInv /\ OutputInv

\* Steps outside the review: what a review has read stays, and what it read
\* of only grows unless a value comes back.
GoesOn ==
    /\ UNCHANGED <<phase, camera, left, one, moment, sealed>>
    /\ RevisionInv'
    /\ revs \subseteq revs' /\ wavered \subseteq wavered'
    /\ phase = "idle" \/ "selection" \in wavered' \/ sel <= sel'
    /\ phase = "idle" \/ "file" \in wavered' \/ file <= file'
    /\ phase = "idle" \/ "manifest" \in wavered' \/ noted <= noted'

-----------------------------------------------------------------------------
LEMMA ChainStarts ==
    ASSUME MaxBytes \in Nat \ {0}, Chain!Init
    PROVE  ChainInv
  <1>1. Chain!Root \in Chain!Bytes /\ Chain!Root = 1
    BY DEF Chain!Root, Chain!Bytes
  <1>2. RevisionInv
    <2>1. parent \in [Chain!Bytes -> Nat] /\ art \in [Chain!Bytes -> Nat]
          /\ made \in [Chain!Bytes -> Nat]
      BY DEF Chain!Init, Chain!Bytes
    <2>2. fresh = 2 /\ file = 1 /\ noted = 1 /\ revs = {1} /\ sel = 0 /\ parent[1] = 0
      BY <1>1 DEF Chain!Init
    <2> QED
      BY <1>1, <2>1, <2>2 DEF RevisionInv
  <1>3. JobInv /\ SealedInv /\ MomentInv
    BY DEF Chain!Init, JobInv, SealedInv, MomentInv
  <1>4. one = Chain!Blank /\ \A k \in Chain!Reads : one[k] = {}
    BY DEF Chain!Init, Chain!Blank
  <1>5. one["state"] = {} /\ one["dara"] = {} /\ one["manifest"] = {} /\ one["evidence"] = {}
    BY <1>4 DEF Chain!Reads
  <1>6. PhaseInv
    BY <1>4, <1>5 DEF Chain!Init, PhaseInv, Chain!Blank, Chain!ValidOwnerState, Chain!DaraHolds,
       Chain!PackageHolds, Chain!CameraHolds
  <1>7. ReadInv
    BY <1>5 DEF ReadInv
  <1>8. OutputInv
    BY DEF Chain!Init, OutputInv
  <1> QED
    BY <1>2, <1>3, <1>6, <1>7, <1>8 DEF ChainInv

-----------------------------------------------------------------------------
(* The steps outside a review *)

\* A selection that moves on, down the tree, or back with notice.
LEMMA MovesGoOn ==
    ASSUME ChainInv, NEW c \in Chain!Bytes, Chain!Select(c) \/ Chain!Supersede(c) \/ Chain!Rollback(c)
    PROVE  GoesOn /\ UNCHANGED <<art, made, job, fresh, revs, snap, published>>
  <1>1. Chain!Moves(c) /\ sel' = c /\ c \in revs /\ wavered \subseteq wavered'
    BY DEF Chain!Select, Chain!Supersede, Chain!Rollback, Chain!Moves, Chain!Wavers
  <1>2. UNCHANGED <<file, noted, revs, parent, art, fresh, job, made, phase, camera, left, one,
                    moment, sealed, snap, published>>
    BY <1>1 DEF Chain!Moves, Chain!repair, Chain!review, Chain!outputs
  <1>3. RevisionInv'
    BY <1>1, <1>2 DEF ChainInv, RevisionInv, Chain!Bytes, Chain!Root
  <1>4. phase = "idle" \/ "selection" \in wavered' \/ sel <= sel'
    <2>1. sel \in Nat /\ c \in Nat
      BY DEF ChainInv, RevisionInv, Chain!Bytes
    <2>2. CASE Chain!Select(c)
      BY <1>1, <2>1, <2>2 DEF Chain!Select
    <2>3. CASE Chain!Supersede(c)
      BY <1>1, <2>1, <2>3 DEF Chain!Supersede, ChainInv, RevisionInv
    <2>4. CASE Chain!Rollback(c)
      BY <2>4 DEF Chain!Rollback, Chain!Wavers
    <2> QED
      BY <2>2, <2>3, <2>4
  <1>5. file <= file' /\ noted <= noted'
    BY <1>2 DEF ChainInv, RevisionInv
  <1> QED
    BY <1>1, <1>2, <1>3, <1>4, <1>5 DEF GoesOn

\* Others edit and restore the drawing and write the manifest.
LEMMA OutsideGoesOn ==
    ASSUME ChainInv, MaxBytes \in Nat,
           \/ Chain!ForeignEdit \/ Chain!NoteMutation \/ Chain!NoteSelected
           \/ \E c \in Chain!Bytes : Chain!Restore(c)
    PROVE  GoesOn /\ UNCHANGED <<art, made, job, revs, snap, published>> /\ fresh <= fresh'
  <1>1. UNCHANGED <<revs, parent, art, sel, job, made, phase, camera, left, one, moment, sealed,
                    snap, published>>
    BY DEF Chain!ForeignEdit, Chain!NoteMutation, Chain!NoteSelected, Chain!Restore,
       Chain!Outside, Chain!owner, Chain!review, Chain!outputs, Chain!repair
  <1>2. fresh \in Nat /\ file \in Nat /\ file < fresh /\ noted \in Nat
    BY DEF ChainInv, RevisionInv
  <1>3. /\ file' \in Nat /\ fresh' \in Nat /\ noted' \in Nat /\ file' < fresh' /\ fresh <= fresh'
        /\ wavered \subseteq wavered'
        /\ phase = "idle" \/ "file" \in wavered' \/ file <= file'
        /\ phase = "idle" \/ "manifest" \in wavered' \/ noted <= noted'
    <2>1. CASE Chain!ForeignEdit
      BY <1>2, <2>1 DEF Chain!ForeignEdit
    <2>2. CASE Chain!NoteMutation
      BY <1>2, <2>2 DEF Chain!NoteMutation, Chain!repair, ChainInv, JobInv, Chain!Bytes
    <2>3. CASE Chain!NoteSelected
      <3>1. sel \in Nat
        BY DEF ChainInv, RevisionInv, Chain!Bytes
      <3>2. noted' = sel /\ UNCHANGED <<file, fresh>>
        BY <2>3 DEF Chain!NoteSelected, Chain!repair
      <3>3. wavered \subseteq wavered' /\ (phase = "idle" \/ "manifest" \in wavered' \/ noted <= sel)
        BY <1>2, <2>3, <3>1 DEF Chain!NoteSelected, Chain!Wavers
      <3> QED
        BY <1>2, <3>1, <3>2, <3>3
    <2>4. CASE \E c \in Chain!Bytes : Chain!Restore(c)
      BY <1>2, <2>4 DEF Chain!Restore, Chain!Wavers, Chain!Bytes, Chain!repair
    <2> QED
      BY <2>1, <2>2, <2>3, <2>4
  <1>4. RevisionInv'
    <2>1. \A r \in revs' : r \in Nat /\ r < fresh' /\ parent'[r] < r
      BY <1>1, <1>2, <1>3 DEF ChainInv, RevisionInv, Chain!Bytes
    <2> QED
      BY <1>1, <1>3, <2>1 DEF ChainInv, RevisionInv
  <1>5. sel <= sel'
    BY <1>1 DEF ChainInv, RevisionInv, Chain!Bytes
  <1> QED
    BY <1>1, <1>3, <1>4, <1>5 DEF GoesOn

\* A repair's steps.
LEMMA RepairGoesOn ==
    ASSUME ChainInv, MaxBytes \in Nat,
           \/ Chain!PreparePlan \/ Chain!Repair \/ Chain!IssueReference
           \/ Chain!FinalizeCorrespondence \/ Chain!BuildRevision \/ Chain!Abandon
    PROVE  GoesOn /\ UNCHANGED <<snap, published>>
  <1>1. UNCHANGED <<noted, sel, phase, camera, left, one, moment, wavered, sealed, snap, published>>
    BY DEF Chain!PreparePlan, Chain!Repair, Chain!IssueReference, Chain!FinalizeCorrespondence,
       Chain!BuildRevision, Chain!Abandon, Chain!RepairOnly, Chain!owner, Chain!review, Chain!outputs
  <1>2. fresh \in Nat /\ file \in Nat /\ file < fresh /\ noted \in Nat /\ sel \in Nat
    BY DEF ChainInv, RevisionInv, Chain!Bytes
  <1>3. RevisionInv' /\ revs \subseteq revs' /\ file <= file'
    <2>1. CASE Chain!Repair
      <3>1. /\ UNCHANGED <<revs, parent, art>>
            /\ file' = fresh /\ fresh' = fresh + 1 /\ fresh <= MaxBytes
            /\ made' = [made EXCEPT ![fresh] = file]
        BY <2>1 DEF Chain!Repair, Chain!owner
      <3>2. made' \in [Chain!Bytes -> Nat]
        BY <1>2, <3>1 DEF ChainInv, RevisionInv
      <3>3. \A r \in revs' : r < fresh' /\ parent'[r] < r
        BY <1>2, <3>1 DEF ChainInv, RevisionInv, Chain!Bytes
      <3> QED
        BY <1>1, <1>2, <3>1, <3>2, <3>3 DEF ChainInv, RevisionInv
    <2>2. CASE Chain!BuildRevision
      <3>1. PICK j \in job : \E p \in {j.from, sel} :
              j.step = "matched" /\ p \in revs /\ Chain!RecordFor(j.new, p)
        BY <2>2 DEF Chain!BuildRevision, Chain!Lineage
      <3>2. PICK p \in revs : Chain!RecordFor(j.new, p)
        BY <3>1
      <3>3. j.new \in Chain!Bytes /\ j.new < fresh /\ \A r \in revs : r < j.new
        BY <3>1 DEF ChainInv, JobInv
      <3>4. UNCHANGED <<file, fresh, made>>
        BY <2>2 DEF Chain!BuildRevision
      <3>5. /\ revs' = revs \cup {j.new} /\ parent' = [parent EXCEPT ![j.new] = p]
            /\ art' = [art EXCEPT ![j.new] = file]
        BY <3>2 DEF Chain!RecordFor
      <3>6. parent' \in [Chain!Bytes -> Nat] /\ art' \in [Chain!Bytes -> Nat]
        <4>1. p \in Nat
          BY DEF ChainInv, RevisionInv, Chain!Bytes
        <4> QED
          BY <1>2, <3>3, <3>5, <4>1 DEF ChainInv, RevisionInv
      <3>7. \A r \in revs' : r < fresh' /\ parent'[r] < r
        <4>1. \A r \in revs : r # j.new
          BY <3>3, SMTT(30) DEF ChainInv, RevisionInv, Chain!Bytes
        <4>2. \A r \in revs : parent'[r] = parent[r]
          BY <3>5, <4>1 DEF ChainInv, RevisionInv
        <4>3. parent'[j.new] = p
          BY <3>3, <3>5 DEF ChainInv, RevisionInv
        <4> QED
          BY <3>2, <3>3, <3>4, <3>5, <4>2, <4>3 DEF ChainInv, RevisionInv
      <3>8. revs' \subseteq Chain!Bytes /\ Chain!Root \in revs' /\ sel' \in revs' \cup {0}
        BY <1>1, <3>3, <3>5 DEF ChainInv, RevisionInv
      <3>9. made' \in [Chain!Bytes -> Nat] /\ file' = file /\ fresh' = fresh /\ noted' = noted
        BY <1>1, <3>4 DEF ChainInv, RevisionInv
      <3> QED
        BY <1>2, <3>5, <3>6, <3>7, <3>8, <3>9 DEF RevisionInv
    <2>3. CASE ~Chain!Repair /\ ~Chain!BuildRevision
      <3>1. UNCHANGED <<file, fresh, made, revs, parent, art>>
        BY <2>3 DEF Chain!PreparePlan, Chain!IssueReference, Chain!FinalizeCorrespondence,
           Chain!Abandon, Chain!owner
      <3> QED
        BY <1>1, <1>2, <3>1 DEF ChainInv, RevisionInv, Chain!Bytes, Chain!Root
    <2> QED
      BY <2>1, <2>2, <2>3
  <1>4. sel <= sel' /\ noted <= noted' /\ wavered \subseteq wavered'
    BY <1>1, <1>2
  <1> QED
    BY <1>1, <1>3, <1>4 DEF GoesOn

\* What a review has read still holds after a step outside it.
LEMMA ReviewKept ==
    ASSUME ChainInv, GoesOn
    PROVE  PhaseInv' /\ ReadInv' /\ MomentInv' /\ SealedInv'
  <1>1. UNCHANGED <<phase, camera, left, one, moment, sealed>>
    BY DEF GoesOn
  <1>2. PhaseInv'
    BY <1>1 DEF ChainInv, PhaseInv, Chain!ValidOwnerState, Chain!DaraHolds,
       Chain!PackageHolds, Chain!CameraHolds
  <1>3. SealedInv'
    BY <1>1 DEF ChainInv, SealedInv, GoesOn
  <1>4. CASE phase = "idle"
    <2>1. one' = Chain!Blank /\ moment' = {}
      BY <1>1, <1>4 DEF ChainInv, PhaseInv
    <2>2. one'["state"] = {} /\ one'["dara"] = {} /\ one'["manifest"] = {}
      BY <2>1 DEF Chain!Blank, Chain!Reads
    <2> QED
      BY <1>2, <1>3, <2>1, <2>2 DEF ReadInv, MomentInv
  <1>5. CASE phase # "idle"
    <2>1. \A kind, then : kind \in wavered => kind \in wavered'
      BY DEF GoesOn
    <2>2. /\ sel \in Nat /\ file \in Nat /\ noted \in Nat
          /\ sel' \in Nat /\ file' \in Nat /\ noted' \in Nat
      BY DEF ChainInv, GoesOn, RevisionInv, Chain!Bytes
    <2>3. \A then : Past("selection", then, sel) =>
            then \in Nat /\ ("selection" \in wavered' \/ then <= sel')
      BY <1>5, <2>2 DEF GoesOn, Past
    <2>4. \A then : Past("file", then, file) =>
            then \in Nat /\ ("file" \in wavered' \/ then <= file')
      BY <1>5, <2>2 DEF GoesOn, Past
    <2>5. \A then : Past("manifest", then, noted) =>
            then \in Nat /\ ("manifest" \in wavered' \/ then <= noted')
      BY <1>5, <2>2 DEF GoesOn, Past
    <2>6. ReadInv'
      <3>1. revs \subseteq revs'
        BY DEF GoesOn
      <3>2. \A s \in one["state"] :
              /\ s = [revs |-> s.revs, sel |-> s.sel] /\ s.sel \in s.revs \cup {0}
              /\ s.revs \subseteq revs' /\ s.sel \in Nat
              /\ "selection" \in wavered' \/ s.sel <= sel'
        BY <2>3, <3>1 DEF ChainInv, ReadInv
      <3>3. \A d \in one["dara"] :
              /\ d = [ref |-> d.ref, bytes |-> d.bytes] /\ d.ref \in Nat /\ d.bytes \in Nat
              /\ "selection" \in wavered' \/ d.ref <= sel'
              /\ "file" \in wavered' \/ d.bytes <= file'
        BY <2>3, <2>4 DEF ChainInv, ReadInv
      <3>4. \A m \in one["manifest"] :
              /\ m.before \in Nat /\ m.mut \in Nat
              /\ "file" \in wavered' \/ m.before <= file'
              /\ "manifest" \in wavered' \/ m.mut <= noted'
        BY <2>4, <2>5 DEF ChainInv, ReadInv
      <3> QED
        BY <1>1, <3>2, <3>3, <3>4 DEF ReadInv, Past
    <2>7. MomentInv'
      <3> SUFFICES ASSUME NEW w \in moment
                   PROVE  /\ w = [state |-> [revs |-> w.state.revs, sel |-> w.state.sel],
                                  file |-> w.file, noted |-> w.noted]
                          /\ w.state.revs \subseteq revs' /\ w.state.sel \in Nat
                          /\ w.file \in Nat /\ w.noted \in Nat
                          /\ "selection" \in wavered' \/ w.state.sel <= sel'
                          /\ "file" \in wavered' \/ w.file <= file'
                          /\ "manifest" \in wavered' \/ w.noted <= noted'
        <4>1. \A kind, again, then, now :
                Met(kind, again, then, now) =>
                  /\ then \in Nat /\ (kind \in wavered' \/ then <= now)
                  /\ again /\ kind \notin wavered' => then = now
          BY <2>1 DEF Met, Past
        <4> QED
          BY <1>1, <4>1 DEF ChainInv, MomentInv, Met, Past
      <3>1. /\ w = [state |-> [revs |-> w.state.revs, sel |-> w.state.sel],
                    file |-> w.file, noted |-> w.noted]
            /\ w.state.revs \subseteq revs /\ Past("selection", w.state.sel, sel)
            /\ Past("file", w.file, file) /\ Past("manifest", w.noted, noted)
        BY DEF ChainInv, MomentInv
      <3>2. w.state.revs \subseteq revs'
        BY <3>1 DEF GoesOn
      <3> QED
        BY <2>3, <2>4, <2>5, <3>1, <3>2
    <2> QED
      BY <1>2, <1>3, <2>6, <2>7
  <1> QED
    BY <1>4, <1>5

-----------------------------------------------------------------------------
(* The steps of a review *)

\* What a review's steps leave alone.
LEMMA ReviewTouchesNothing ==
    ASSUME ChainInv, UNCHANGED <<file, noted, revs, parent, art, sel, fresh, job, made, snap, published>>,
           sealed \subseteq sealed'
    PROVE  RevisionInv' /\ JobInv' /\ OutputInv'
  <1>1. RevisionInv'
    BY DEF ChainInv, RevisionInv, Chain!Bytes, Chain!Root
  <1>2. JobInv'
    BY DEF ChainInv, JobInv, Chain!Bytes
  <1>3. OutputInv'
    BY DEF ChainInv, OutputInv, Chain!Root
  <1> QED
    BY <1>1, <1>2, <1>3

\* A review that ends, or is not there, holds nothing.
LEMMA NothingHeld ==
    ASSUME one' = Chain!Blank, moment' = {}, phase' = "idle" \/ phase' = "first"
    PROVE  PhaseInv' /\ ReadInv' /\ MomentInv'
  <1>1. /\ one'["state"] = {} /\ one'["dara"] = {} /\ one'["manifest"] = {}
        /\ one'["evidence"] = {}
    BY DEF Chain!Blank, Chain!Reads
  <1>2. one' = [k \in Chain!Reads |-> one'[k]]
    BY DEF Chain!Blank
  <1>3. PhaseInv'
    BY <1>1, <1>2 DEF PhaseInv, Chain!ValidOwnerState, Chain!DaraHolds,
       Chain!PackageHolds, Chain!CameraHolds
  <1> QED
    BY <1>1, <1>3 DEF ReadInv, MomentInv

\* A record gathered is what there is.
LEMMA GatherKeeps ==
    ASSUME ChainInv, NEW k \in Chain!Reads, Chain!Gather(k)
    PROVE  PhaseInv' /\ ReadInv' /\ MomentInv'
  <1>1. /\ phase = "first" /\ one' = [one EXCEPT ![k] = {Chain!Value(k)}]
        /\ Chain!ValidOwnerState(one') /\ UNCHANGED <<phase, camera, moment, wavered>>
        /\ UNCHANGED <<file, noted, revs, sel>>
    BY DEF Chain!Gather, Chain!ReviewOnly, Chain!owner
  <1>2. moment' = {}
    BY <1>1 DEF ChainInv, PhaseInv
  <1>3. one = [i \in Chain!Reads |-> one[i]]
    BY DEF ChainInv, PhaseInv
  <1>4. /\ one' = [i \in Chain!Reads |-> one'[i]]
        /\ \A i \in Chain!Reads : one'[i] = IF i = k THEN {Chain!Value(k)} ELSE one[i]
    BY <1>1, <1>3
  <1>5. PhaseInv'
    BY <1>1, <1>2, <1>4 DEF PhaseInv, Chain!ValidOwnerState, Chain!DaraHolds,
       Chain!PackageHolds, Chain!CameraHolds
  <1>6. sel \in Nat /\ file \in Nat /\ noted \in Nat
    BY DEF ChainInv, RevisionInv, Chain!Bytes
  <1>7. \A s \in one'["state"] :
          /\ s = [revs |-> s.revs, sel |-> s.sel] /\ s.sel \in s.revs \cup {0}
          /\ s.revs \subseteq revs /\ Past("selection", s.sel, sel)
    <2>1. CASE k = "state"
      <3>1. one'["state"] = {[revs |-> revs, sel |-> sel]}
        BY <1>4, <2>1 DEF Chain!Value, Chain!State
      <3> QED
        BY <1>6, <3>1 DEF ChainInv, RevisionInv, Past
    <2>2. CASE k # "state"
      BY <1>4, <2>2 DEF ChainInv, ReadInv, Chain!Reads
    <2> QED
      BY <2>1, <2>2
  <1>8. \A d \in one'["dara"] :
          /\ d = [ref |-> d.ref, bytes |-> d.bytes]
          /\ Past("selection", d.ref, sel) /\ Past("file", d.bytes, file)
    <2>1. CASE k = "dara"
      <3>1. one'["dara"] = {[ref |-> sel, bytes |-> file]}
        BY <1>4, <2>1 DEF Chain!Value
      <3> QED
        BY <1>6, <3>1 DEF Past
    <2>2. CASE k # "dara"
      BY <1>4, <2>2 DEF ChainInv, ReadInv, Chain!Reads
    <2> QED
      BY <2>1, <2>2
  <1>9. \A m \in one'["manifest"] : Past("file", m.before, file) /\ Past("manifest", m.mut, noted)
    <2>1. CASE k = "manifest"
      <3>1. one'["manifest"] = {[mut |-> noted, before |-> file]}
        BY <1>4, <2>1 DEF Chain!Value
      <3> QED
        BY <1>6, <3>1 DEF Past
    <2>2. CASE k # "manifest"
      BY <1>4, <2>2 DEF ChainInv, ReadInv, Chain!Reads
    <2> QED
      BY <2>1, <2>2
  <1>10. ReadInv'
    BY <1>1, <1>7, <1>8, <1>9 DEF ReadInv, Past
  <1> QED
    BY <1>2, <1>5, <1>10 DEF MomentInv

\* The turn is taken now, after everything was read and before it is again.
LEMMA TurnKeeps ==
    ASSUME ChainInv, NEW statuses, Chain!Turn(statuses)
    PROVE  PhaseInv' /\ ReadInv' /\ MomentInv'
  <1>1. /\ phase' = "second" /\ left' = Chain!Reads /\ UNCHANGED <<camera, one, wavered>>
        /\ UNCHANGED <<file, noted, revs, sel>>
        /\ moment' = {[state |-> [revs |-> revs, sel |-> sel], file |-> file, noted |-> noted]}
    BY DEF Chain!Turn, Chain!ReviewOnly, Chain!owner, Chain!State
  <1>2. PhaseInv'
    BY <1>1 DEF ChainInv, PhaseInv, Chain!ValidOwnerState, Chain!DaraHolds,
       Chain!PackageHolds, Chain!CameraHolds
  <1>3. ReadInv'
    BY <1>1 DEF ChainInv, ReadInv, Past
  <1>4. "state" \in left' /\ "dara" \in left' /\ "manifest" \in left'
    BY <1>1 DEF Chain!Reads
  <1>5. sel \in Nat /\ file \in Nat /\ noted \in Nat
    BY DEF ChainInv, RevisionInv, Chain!Bytes
  <1>6. MomentInv'
    BY <1>1, <1>4, <1>5 DEF ChainInv, ReadInv, MomentInv, Met, Past
  <1> QED
    BY <1>2, <1>3, <1>6

\* What is found again as it was read was so at the turn in between.
LEMMA GatherAgainKeeps ==
    ASSUME ChainInv, NEW k \in Chain!Reads, Chain!GatherAgain(k)
    PROVE  PhaseInv' /\ ReadInv' /\ MomentInv'
  <1>1. /\ UNCHANGED <<phase, camera, one, moment, wavered, file, noted, revs, sel>>
        /\ left' = left \ {k} /\ (k \in Chain!Unchanging => one[k] = {Chain!Value(k)})
    BY DEF Chain!GatherAgain, Chain!ReviewOnly, Chain!owner
  <1>2. PhaseInv'
    BY <1>1 DEF ChainInv, PhaseInv, Chain!ValidOwnerState, Chain!DaraHolds,
       Chain!PackageHolds, Chain!CameraHolds
  <1>3. ReadInv'
    BY <1>1 DEF ChainInv, ReadInv, Past
  <1>4. MomentInv'
    <2> SUFFICES ASSUME NEW w \in moment
                 PROVE  /\ \A s \in one["state"] :
                            /\ "state" \notin left' => s.revs = w.state.revs
                            /\ Met("selection", "state" \notin left', s.sel, w.state.sel)
                        /\ \A d \in one["dara"] :
                            /\ Met("selection", "dara" \notin left', d.ref, w.state.sel)
                            /\ Met("file", "dara" \notin left', d.bytes, w.file)
                        /\ \A m \in one["manifest"] :
                            /\ Met("file", "manifest" \notin left', m.before, w.file)
                            /\ Met("manifest", "manifest" \notin left', m.mut, w.noted)
      BY <1>1 DEF ChainInv, MomentInv, Met, Past
    <2>1. /\ w.state.revs \subseteq revs /\ Past("selection", w.state.sel, sel)
          /\ Past("file", w.file, file) /\ Past("manifest", w.noted, noted)
      BY DEF ChainInv, MomentInv
    <2>2. sel \in Nat /\ file \in Nat /\ noted \in Nat
      BY DEF ChainInv, RevisionInv, Chain!Bytes
    <2>3. \A s \in one["state"] :
            /\ "state" \notin left' => s.revs = w.state.revs
            /\ Met("selection", "state" \notin left', s.sel, w.state.sel)
      <3>1. CASE k = "state"
        <4>1. one["state"] = {[revs |-> revs, sel |-> sel]}
          BY <1>1, <3>1 DEF Chain!Unchanging, Chain!Reads, Chain!Value, Chain!State
        <4>2. \A s \in one["state"] : s.revs \subseteq w.state.revs
                                      /\ Past("selection", s.sel, w.state.sel)
          BY DEF ChainInv, MomentInv, Met
        <4>3. w.state.revs = revs
          BY <2>1, <4>1, <4>2, ZenonT(30)
        <4> QED
          BY <2>1, <2>2, <4>1, <4>2, <4>3 DEF Met, Past
      <3>2. CASE k # "state"
        BY <1>1, <3>2 DEF ChainInv, MomentInv, Met
      <3> QED
        BY <3>1, <3>2
    <2>4. \A d \in one["dara"] :
            /\ Met("selection", "dara" \notin left', d.ref, w.state.sel)
            /\ Met("file", "dara" \notin left', d.bytes, w.file)
      <3>1. CASE k = "dara"
        <4>1. one["dara"] = {[ref |-> sel, bytes |-> file]}
          BY <1>1, <3>1 DEF Chain!Unchanging, Chain!Reads, Chain!Value
        <4>2. \A d \in one["dara"] : Past("selection", d.ref, w.state.sel)
                                     /\ Past("file", d.bytes, w.file)
          BY DEF ChainInv, MomentInv, Met
        <4> QED
          BY <2>1, <2>2, <4>1, <4>2 DEF Met, Past
      <3>2. CASE k # "dara"
        BY <1>1, <3>2 DEF ChainInv, MomentInv, Met
      <3> QED
        BY <3>1, <3>2
    <2>5. \A m \in one["manifest"] :
            /\ Met("file", "manifest" \notin left', m.before, w.file)
            /\ Met("manifest", "manifest" \notin left', m.mut, w.noted)
      <3>1. CASE k = "manifest"
        <4>1. one["manifest"] = {[mut |-> noted, before |-> file]}
          BY <1>1, <3>1 DEF Chain!Unchanging, Chain!Reads, Chain!Value
        <4>2. \A m \in one["manifest"] : Past("file", m.before, w.file)
                                         /\ Past("manifest", m.mut, w.noted)
          BY DEF ChainInv, MomentInv, Met
        <4> QED
          BY <2>1, <2>2, <4>1, <4>2 DEF Met, Past
      <3>2. CASE k # "manifest"
        BY <1>1, <3>2 DEF ChainInv, MomentInv, Met
      <3> QED
        BY <3>1, <3>2
    <2> QED
      BY <2>3, <2>4, <2>5
  <1> QED
    BY <1>2, <1>3, <1>4

\* What is sealed is of the moment of the turn.
LEMMA FinalizeSeals ==
    ASSUME ChainInv, Chain!FinalizeVerdict
    PROVE  SealedInv'
  <1> DEFINE Verdict(s, d, m, x, w) ==
        [cand |-> s.sel, state |-> s, ref |-> d.ref, mut |-> m.mut, shown |-> x.shown,
         outcome |-> Chain!Verdict(marks), camera |-> camera, wavered |-> wavered,
         held |-> /\ w = [state |-> s, file |-> x.shown, noted |-> m.mut]
                  /\ d = [ref |-> s.sel, bytes |-> x.shown]]
  <1>1. PICK s \in one["state"], d \in one["dara"], m \in one["manifest"],
             x \in one["evidence"], w \in moment : sealed' = sealed \cup {Verdict(s, d, m, x, w)}
    BY DEF Chain!FinalizeVerdict
  <1>2. left = {} /\ revs' = revs
    BY DEF Chain!FinalizeVerdict, Chain!ReviewOnly, Chain!owner
  <1>3. x.shown = m.before /\ x.mut = m.mut
    BY DEF ChainInv, PhaseInv, Chain!ValidOwnerState, Chain!PackageHolds, Chain!Fresh
  <1>4. d.ref # 0 /\ d.bytes = d.ref /\ (camera => m.before = d.ref) /\ s.sel # 0
    BY DEF ChainInv, PhaseInv, Chain!ValidOwnerState, Chain!DaraHolds, Chain!CameraHolds
  <1>5. /\ w = [state |-> [revs |-> w.state.revs, sel |-> w.state.sel],
                file |-> w.file, noted |-> w.noted]
        /\ s.revs = w.state.revs
        /\ "selection" \notin wavered => s.sel = w.state.sel /\ d.ref = w.state.sel
        /\ "file" \notin wavered => d.bytes = w.file /\ m.before = w.file
        /\ "manifest" \notin wavered => m.mut = w.noted
    BY <1>2 DEF ChainInv, MomentInv, Met
  <1>6. /\ s = [revs |-> s.revs, sel |-> s.sel] /\ s.sel \in revs
        /\ d = [ref |-> d.ref, bytes |-> d.bytes]
    BY <1>4 DEF ChainInv, ReadInv
  <1>7. wavered = {} => /\ w = [state |-> s, file |-> x.shown, noted |-> m.mut]
                        /\ d = [ref |-> s.sel, bytes |-> x.shown] /\ d.ref = s.sel
    <2> SUFFICES ASSUME wavered = {}
                 PROVE  /\ w = [state |-> s, file |-> x.shown, noted |-> m.mut]
                        /\ d = [ref |-> s.sel, bytes |-> x.shown] /\ d.ref = s.sel
      OBVIOUS
    <2>1. /\ s.sel = w.state.sel /\ d.ref = w.state.sel /\ d.bytes = w.file
          /\ m.before = w.file /\ m.mut = w.noted
      BY <1>5
    <2>2. s = [revs |-> w.state.revs, sel |-> w.state.sel]
      BY <1>5, <1>6, <2>1
    <2> QED
      BY <1>3, <1>5, <1>6, <2>1, <2>2
  <1>8. "selection" \in wavered \/ (~camera /\ "file" \in wavered) \/ x.shown = s.sel
    BY <1>3, <1>4, <1>5
  <1>9. /\ Verdict(s, d, m, x, w).cand = s.sel /\ Verdict(s, d, m, x, w).ref = d.ref
        /\ Verdict(s, d, m, x, w).shown = x.shown /\ Verdict(s, d, m, x, w).camera = camera
        /\ Verdict(s, d, m, x, w).wavered = wavered
        /\ wavered = {} => Verdict(s, d, m, x, w).held
    BY <1>7
  <1>10. \A v \in sealed' : v \in sealed \/ v = Verdict(s, d, m, x, w)
    BY <1>1
  <1> HIDE DEF Verdict
  <1> QED
    BY <1>2, <1>6, <1>7, <1>8, <1>9, <1>10 DEF ChainInv, SealedInv

\* Every step of a review.
LEMMA ReviewSteps ==
    ASSUME ChainInv,
           \/ Chain!Open \/ \E k \in Chain!Reads : Chain!Gather(k) \/ Chain!GatherAgain(k)
           \/ \E s \in Answers : Chain!Turn(s)
           \/ Chain!FinalizeVerdict \/ Chain!RefuseVerdict
    PROVE  ChainInv'
  <1>1. UNCHANGED <<file, noted, revs, parent, art, sel, fresh, job, made, snap, published>>
    BY DEF Chain!Open, Chain!Gather, Chain!GatherAgain, Chain!Turn, Chain!FinalizeVerdict,
       Chain!RefuseVerdict, Chain!ReviewOnly, Chain!owner, Chain!repair
  <1>2. sealed \subseteq sealed'
    BY DEF Chain!Open, Chain!Gather, Chain!GatherAgain, Chain!Turn, Chain!FinalizeVerdict,
       Chain!RefuseVerdict
  <1>3. RevisionInv' /\ JobInv' /\ OutputInv'
    BY <1>1, <1>2, ReviewTouchesNothing
  <1>4. Chain!FinalizeVerdict \/ SealedInv'
    <2>1. Chain!FinalizeVerdict \/ UNCHANGED sealed
      BY DEF Chain!Open, Chain!Gather, Chain!GatherAgain, Chain!Turn, Chain!RefuseVerdict
    <2> QED
      BY <1>1, <2>1 DEF ChainInv, SealedInv
  <1>5. SealedInv'
    BY <1>4, FinalizeSeals
  <1>6. CASE Chain!Open
    <2>1. one' = Chain!Blank /\ moment' = {} /\ phase' = "first"
      BY <1>6 DEF Chain!Open, ChainInv, PhaseInv
    <2> QED
      BY <1>3, <1>5, <2>1, NothingHeld DEF ChainInv
  <1>7. CASE \E k \in Chain!Reads : Chain!Gather(k)
    BY <1>3, <1>5, <1>7, GatherKeeps DEF ChainInv
  <1>8. CASE \E k \in Chain!Reads : Chain!GatherAgain(k)
    BY <1>3, <1>5, <1>8, GatherAgainKeeps DEF ChainInv
  <1>9. CASE \E s \in Answers : Chain!Turn(s)
    BY <1>3, <1>5, <1>9, TurnKeeps DEF ChainInv
  <1>10. CASE Chain!FinalizeVerdict \/ Chain!RefuseVerdict
    <2>1. one' = Chain!Blank /\ moment' = {} /\ phase' = "idle"
      BY <1>10 DEF Chain!FinalizeVerdict, Chain!RefuseVerdict, Chain!Closes
    <2> QED
      BY <1>3, <1>5, <2>1, NothingHeld DEF ChainInv
  <1> QED
    BY <1>6, <1>7, <1>8, <1>9, <1>10

-----------------------------------------------------------------------------
(* The steps outside a review, continued *)

\* A verdict that is there stays, and so do revisions and what made them.
LEMMA JobKept ==
    ASSUME ChainInv, GoesOn, UNCHANGED <<made, job, revs>>, fresh <= fresh'
    PROVE  JobInv'
  <1>1. fresh \in Nat /\ fresh' \in Nat /\ UNCHANGED sealed
    BY DEF ChainInv, GoesOn, RevisionInv
  <1> SUFFICES ASSUME NEW j \in job
               PROVE  /\ job' = {j} /\ j = [step |-> j.step, from |-> j.from, new |-> j.new]
                      /\ j.from \in revs'
                      /\ \E v \in sealed' : v.outcome = "FAIL" /\ v.cand = j.from
                      /\ j.step # "planned" =>
                          j.new \in Chain!Bytes /\ j.new < fresh' /\ \A r \in revs' : r < j.new
                      /\ j.step \in {"issued", "matched"} => made'[j.new] = j.from
    BY DEF JobInv
  <1>2. j.step # "planned" => j.new \in Chain!Bytes /\ j.new < fresh'
    BY <1>1 DEF ChainInv, JobInv, Chain!Bytes
  <1> QED
    BY <1>1, <1>2 DEF ChainInv, JobInv

\* A plan answers a sealed failure of the selected revision.
LEMMA PlanKeeps ==
    ASSUME ChainInv, Chain!PreparePlan
    PROVE  JobInv' /\ UNCHANGED <<revs, art, made>>
  <1>1. /\ job' = {[step |-> "planned", from |-> sel, new |-> 0]}
        /\ UNCHANGED <<revs, art, made, fresh, sealed>>
    BY DEF Chain!PreparePlan, Chain!RepairOnly, Chain!owner, Chain!outputs
  <1>2. PICK v \in sealed : v.outcome = "FAIL" /\ v.cand = sel
    BY DEF Chain!PreparePlan, Chain!SealedFailure, Chain!BindsTo
  <1>3. sel \in revs
    BY <1>2 DEF ChainInv, SealedInv
  <1> QED
    BY <1>1, <1>2, <1>3 DEF JobInv

\* A repair makes the newest contents.
LEMMA RepairKeeps ==
    ASSUME ChainInv, MaxBytes \in Nat, Chain!Repair
    PROVE  /\ JobInv' /\ UNCHANGED <<revs, art>>
           /\ \A r \in revs : made'[r] = made[r]
  <1>1. PICK j \in job : /\ j.step = "planned" /\ fresh <= MaxBytes /\ fresh' = fresh + 1
                         /\ made' = [made EXCEPT ![fresh] = file]
                         /\ job' = {[step |-> "repaired", from |-> j.from, new |-> fresh]}
                         /\ UNCHANGED <<revs, art, sealed>>
    BY DEF Chain!Repair, Chain!RepairOnly, Chain!owner, Chain!outputs
  <1>2. fresh \in Nat /\ \A r \in revs : r \in Nat /\ r < fresh
    BY DEF ChainInv, RevisionInv, Chain!Bytes
  <1>3. fresh \in Chain!Bytes
    BY <1>1, <1>2 DEF ChainInv, RevisionInv, Chain!Bytes, Chain!Root
  <1>4. /\ j = [step |-> j.step, from |-> j.from, new |-> j.new] /\ j.from \in revs
        /\ \E v \in sealed : v.outcome = "FAIL" /\ v.cand = j.from
    BY DEF ChainInv, JobInv
  <1>5. job' = {[step |-> "repaired", from |-> j.from, new |-> fresh]}
    BY <1>1
  <1>6. JobInv'
    BY <1>1, <1>2, <1>3, <1>4, <1>5 DEF JobInv
  <1>7. \A r \in revs : made'[r] = made[r]
    BY <1>1, <1>2 DEF ChainInv, RevisionInv
  <1> QED
    BY <1>1, <1>6, <1>7

\* The evidence of a repair names the parent's contents.
LEMMA TransitionKeeps ==
    ASSUME ChainInv, Chain!IssueReference \/ Chain!FinalizeCorrespondence
    PROVE  JobInv' /\ UNCHANGED <<revs, art, made>>
  <1>1. UNCHANGED <<revs, art, made, fresh, sealed>>
    BY DEF Chain!IssueReference, Chain!FinalizeCorrespondence, Chain!RepairOnly, Chain!owner,
       Chain!outputs
  <1>2. PICK j \in job, step \in {"issued", "matched"} :
            /\ j.step # "planned" /\ made[j.new] = j.from
            /\ job' = {[j EXCEPT !.step = step]}
    <2>1. CASE Chain!IssueReference
      BY <2>1 DEF Chain!IssueReference, Chain!TransitionHolds, Chain!Advance
    <2>2. CASE Chain!FinalizeCorrespondence
      BY <2>2 DEF Chain!FinalizeCorrespondence, Chain!Advance, ChainInv, JobInv
    <2> QED
      BY <2>1, <2>2
  <1>3. /\ j = [step |-> j.step, from |-> j.from, new |-> j.new] /\ j.from \in revs
        /\ \E v \in sealed : v.outcome = "FAIL" /\ v.cand = j.from
        /\ j.new \in Chain!Bytes /\ j.new < fresh /\ \A r \in revs : r < j.new
    BY <1>2 DEF ChainInv, JobInv
  <1>4. job' = {[step |-> step, from |-> j.from, new |-> j.new]}
    BY <1>2, <1>3
  <1> QED
    BY <1>1, <1>2, <1>3, <1>4 DEF JobInv, Chain!Bytes

\* The child revision was made from what failed.
LEMMA BuildKeeps ==
    ASSUME ChainInv, Chain!BuildRevision
    PROVE  /\ job' = {} /\ UNCHANGED made
           /\ \A r \in revs : art'[r] = art[r]
           /\ \A r \in revs' \ revs : \E v \in sealed : v.outcome = "FAIL" /\ v.cand = made[r]
  <1>1. PICK j \in job : \E p \in {j.from, sel} : j.step = "matched" /\ Chain!RecordFor(j.new, p)
    BY DEF Chain!BuildRevision
  <1>2. job' = {} /\ UNCHANGED made
    BY DEF Chain!BuildRevision
  <1>3. revs' = revs \cup {j.new} /\ art' = [art EXCEPT ![j.new] = file]
    BY <1>1 DEF Chain!RecordFor
  <1>4. /\ made[j.new] = j.from /\ \A r \in revs : r < j.new
        /\ \E v \in sealed : v.outcome = "FAIL" /\ v.cand = j.from
    BY <1>1 DEF ChainInv, JobInv
  <1>5. \A r \in revs : r # j.new
    BY <1>4 DEF ChainInv, RevisionInv, Chain!Bytes
  <1>6. \A r \in revs : art'[r] = art[r]
    BY <1>3, <1>5 DEF ChainInv, RevisionInv
  <1> QED
    BY <1>2, <1>3, <1>4, <1>6

\* What was sealed and published outlives any step that leaves old revisions alone.
LEMMA OutputKept ==
    ASSUME ChainInv, GoesOn, UNCHANGED <<snap, published>>,
           \A r \in revs : art'[r] = art[r] /\ made'[r] = made[r],
           \A r \in revs' \ revs : \E v \in sealed : v.outcome = "FAIL" /\ v.cand = made'[r]
    PROVE  OutputInv'
  <1>1. UNCHANGED sealed
    BY DEF GoesOn
  <1>2. \A v \in sealed : v.cand \in revs
    BY DEF ChainInv, SealedInv
  <1> QED
    BY <1>1, <1>2 DEF ChainInv, OutputInv, Chain!Root

\* Selecting, editing, noting and repairing keep the invariant.
LEMMA OtherSteps ==
    ASSUME ChainInv, MaxBytes \in Nat,
           \/ \E c \in Chain!Bytes :
                Chain!Select(c) \/ Chain!Supersede(c) \/ Chain!Rollback(c) \/ Chain!Restore(c)
           \/ Chain!ForeignEdit \/ Chain!NoteMutation \/ Chain!NoteSelected
           \/ Chain!PreparePlan \/ Chain!Repair \/ Chain!IssueReference
           \/ Chain!FinalizeCorrespondence \/ Chain!BuildRevision \/ Chain!Abandon
    PROVE  ChainInv'
  <1>1. CASE \E c \in Chain!Bytes : Chain!Select(c) \/ Chain!Supersede(c) \/ Chain!Rollback(c)
    <2>1. GoesOn /\ UNCHANGED <<art, made, job, fresh, revs, snap, published>>
      BY <1>1, MovesGoOn
    <2>2. fresh <= fresh'
      BY <2>1 DEF ChainInv, RevisionInv
    <2>3. JobInv' /\ OutputInv'
      BY <2>1, <2>2, JobKept, OutputKept
    <2> QED
      BY <2>1, <2>3, ReviewKept DEF ChainInv, GoesOn
  <1>2. CASE \/ Chain!ForeignEdit \/ Chain!NoteMutation \/ Chain!NoteSelected
             \/ \E c \in Chain!Bytes : Chain!Restore(c)
    <2>1. GoesOn /\ UNCHANGED <<art, made, job, revs, snap, published>> /\ fresh <= fresh'
      BY <1>2, OutsideGoesOn
    <2>2. JobInv' /\ OutputInv'
      BY <2>1, JobKept, OutputKept
    <2> QED
      BY <2>1, <2>2, ReviewKept DEF ChainInv, GoesOn
  <1>3. CASE \/ Chain!PreparePlan \/ Chain!Repair \/ Chain!IssueReference
             \/ Chain!FinalizeCorrespondence \/ Chain!BuildRevision \/ Chain!Abandon
    <2>1. GoesOn /\ UNCHANGED <<snap, published>>
      BY <1>3, RepairGoesOn
    <2>2. CASE Chain!BuildRevision
      <3>1. JobInv'
        BY <2>2, BuildKeeps DEF JobInv
      <3>2. OutputInv'
        BY <2>1, <2>2, BuildKeeps, OutputKept
      <3> QED
        BY <2>1, <3>1, <3>2, ReviewKept DEF ChainInv, GoesOn
    <2>3. CASE ~Chain!BuildRevision
      <3>1. /\ JobInv' /\ UNCHANGED <<revs, art>>
            /\ \A r \in revs : made'[r] = made[r]
        <4>1. CASE Chain!Abandon
          BY <4>1 DEF Chain!Abandon, Chain!owner, JobInv
        <4> QED
          BY <1>3, <2>3, <4>1, PlanKeeps, RepairKeeps, TransitionKeeps
      <3>2. OutputInv'
        BY <2>1, <3>1, OutputKept
      <3> QED
        BY <2>1, <3>1, <3>2, ReviewKept DEF ChainInv, GoesOn
    <2> QED
      BY <2>2, <2>3
  <1> QED
    BY <1>1, <1>2, <1>3

\* A publication is of the content of its verdict's revision.
LEMMA PublicationSteps ==
    ASSUME ChainInv,
           (\E v \in sealed : Chain!TakeSnapshot(v)) \/ Chain!Publish \/ Chain!PublicationRefused
    PROVE  ChainInv'
  <1>1. UNCHANGED <<file, noted, revs, parent, art, sel, fresh, job, made, phase, camera, left,
                    one, moment, wavered, sealed>>
    BY DEF Chain!TakeSnapshot, Chain!Publish, Chain!PublicationRefused, Chain!PublishOnly,
       Chain!owner, Chain!review, Chain!repair
  <1>2. snap' \subseteq sealed
    BY DEF Chain!TakeSnapshot, Chain!Publish, Chain!PublicationRefused, ChainInv, OutputInv
  <1>3. \A p \in published' : p \in published \/ (p.verdict \in sealed /\ p.bytes = art[p.verdict.cand])
    BY DEF Chain!TakeSnapshot, Chain!Publish, Chain!PublicationRefused, ChainInv, OutputInv
  <1>4. OutputInv'
    BY <1>1, <1>2, <1>3 DEF ChainInv, OutputInv, Chain!Root
  <1>5. RevisionInv' /\ JobInv'
    BY <1>1 DEF ChainInv, RevisionInv, JobInv, Chain!Bytes, Chain!Root
  <1>6. GoesOn
    BY <1>1, <1>5 DEF GoesOn, ChainInv, RevisionInv, Chain!Bytes
  <1> QED
    BY <1>4, <1>5, <1>6, ReviewKept DEF ChainInv

\* Nothing changes.
LEMMA ChainStutters ==
    ASSUME ChainInv, UNCHANGED Chain!vars
    PROVE  ChainInv'
  <1>1. UNCHANGED <<file, noted, revs, parent, art, sel, fresh, job, made, phase, camera, left,
                    one, moment, wavered, sealed, snap, published>>
    BY DEF Chain!vars, Chain!owner, Chain!review, Chain!repair, Chain!outputs
  <1>2. RevisionInv' /\ JobInv' /\ OutputInv'
    BY <1>1 DEF ChainInv, RevisionInv, JobInv, OutputInv, Chain!Bytes, Chain!Root
  <1>3. GoesOn
    BY <1>1, <1>2 DEF GoesOn, ChainInv, RevisionInv, Chain!Bytes
  <1> QED
    BY <1>2, <1>3, ReviewKept DEF ChainInv

\* The invariant of the chain is inductive.
LEMMA ChainInvariant ==
    ASSUME MaxBytes \in Nat \ {0}
    PROVE  Chain!Spec => []ChainInv
  <1>1. Chain!Init => ChainInv
    BY ChainStarts
  <1>2. ChainInv /\ [Chain!Next]_Chain!vars => ChainInv'
    BY OtherSteps, ReviewSteps, PublicationSteps, ChainStutters DEF Chain!Next
  <1> QED
    BY <1>1, <1>2, PTL DEF Chain!Spec

\* A sealed verdict is of one moment: selection, revisions, drawing, reference
\* and mutation were all in force together when the provider was asked, unless
\* a value that had gone came back meanwhile.
THEOREM SealedAtOneMoment ==
    ASSUME MaxBytes \in Nat \ {0}
    PROVE  Chain!Spec => []SealedIsOneMoment
  <1>1. ChainInv => SealedIsOneMoment
    BY DEF ChainInv, SealedInv, SealedIsOneMoment, Chain!SealedIsOneMoment
  <1> QED
    BY <1>1, ChainInvariant, PTL

\* What is published is what a passing review was shown, and every repaired
\* revision answers a sealed failure of the contents it was made from.
THEOREM PublishedWasJudged ==
    ASSUME MaxBytes \in Nat \ {0}
    PROVE  Chain!Spec => []VerdictsAreAnswered
  <1>1. ChainInv => Chain!PublishedWasSeen
    BY DEF ChainInv, SealedInv, OutputInv, Chain!PublishedWasSeen
  <1>2. ChainInv => Chain!RevisionsAnswerFailures
    BY DEF ChainInv, SealedInv, OutputInv, Chain!RevisionsAnswerFailures
  <1> QED
    BY <1>1, <1>2, ChainInvariant, PTL DEF VerdictsAreAnswered, Chain!VerdictsAreAnswered
=============================================================================
