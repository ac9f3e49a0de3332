---------------------------- MODULE VisualEvidence ----------------------------
(***************************************************************************)
(* visual_evidence_export: a call of the Python client asks AutoCAD for a  *)
(* render, an entity map and measurements of the open drawing.  The plug-  *)
(* in writes them into artifacts/<request_id> while it holds active.lease  *)
(* open; the client verifies them, hands them to write_visual_evidence,    *)
(* which copies them into an evidence package, and empties the directory.  *)
(* Every call first sweeps the request directories older than a day that   *)
(* no exporter holds.                                                      *)
(*                                                                         *)
(* Kept: each file operation on a request directory and on its lease by    *)
(* the exporter, the sweepers and the caller's own clean-up, as Windows    *)
(* grants it (an open lease can be neither opened nor unlinked), timeouts, *)
(* requests that are served twice, failed exports, restarts of AutoCAD,    *)
(* edits and saves of the drawing and updates of the run manifest between  *)
(* any two steps.                                                          *)
(* Abstracted: a request id (a fresh uuid4) names its call; the bytes of   *)
(* the manifest, of the drawing on disk and of the drawing in memory are   *)
(* version numbers, and an artifact is the version in memory it shows; a   *)
(* request is written and its command posted in one step, listed and read  *)
(* in one, and removed with its result in one (DotNetIpc has the steps);   *)
(* a directory is old whenever it is said to be, one sweeper or step of    *)
(* the exporter may be overtaken by a day.                                 *)
(***************************************************************************)
EXTENDS Naturals, FiniteSets

CONSTANTS
    Calls,          \* calls of visual_evidence_export
    Kinds,          \* artifacts of an export: render, entity_map, measurements
    Lease,          \* stands for active.lease in a directory listing
    MaxEvents       \* bound: edits, saves and restarts of AutoCAD, updates of the
                    \* manifest and days that pass, together

\* An export has artifacts.
ASSUME EvidenceAssumption == Kinds # {} /\ MaxEvents \in Nat

VARIABLES
    manifest,   \* version of the visual run manifest
    disk,       \* version of the drawing in its file
    memory,     \* version of the drawing AutoCAD shows
    pc,         \* the step each call is at
    bound,      \* the manifest and drawing versions each call was made for
    todo,       \* directories a sweeper has still to look at
    target,     \* {} or the directory a call is sweeping
    listing,    \* entries a call has listed and will remove
    reply,      \* {} or the capture the result of a call reports
    copied,     \* artifacts a call has copied into its temporary package
    request,    \* calls whose request file exists
    result,     \* result file of each call: {} or the outcome in it
    commands,   \* CADAGENT_DISPATCH commands posted and not yet started
    exporter,   \* the export AutoCAD is executing
    dir,        \* calls whose artifacts/<request_id> exists
    files,      \* artifacts in each directory
    shows,      \* what the artifacts in each directory were captured from
    lease,      \* active.lease: none, exporter (open), claimed (open) or left
    aged,       \* directories older than the time to live
    events,     \* edits, saves, restarts, updates and days so far
    packages,   \* evidence packages renamed into place
    returned,   \* history: calls that returned their result
    swept       \* history: calls whose directory a sweeper claimed

drawing == <<disk, memory>>
folder == <<dir, files, shows, lease, aged>>
sweep == <<todo, target, listing>>
channel == <<request, result, commands>>
taken == <<reply, copied>>
history == <<packages, returned, swept>>
vars == <<manifest, drawing, pc, bound, sweep, taken, channel, exporter, folder,
          events, history>>

Unbound == [manifest |-> 0, disk |-> 0]
IdleExporter == [pc |-> "idle", call |-> {}, written |-> {}, quiet |-> FALSE]

Init ==
    /\ manifest = 0 /\ disk = 0 /\ memory = 0
    /\ pc = [c \in Calls |-> "new"]
    /\ bound = [c \in Calls |-> Unbound]
    /\ todo = [c \in Calls |-> {}]
    /\ target = [c \in Calls |-> {}]
    /\ listing = [c \in Calls |-> {}]
    /\ reply = [c \in Calls |-> {}]
    /\ copied = [c \in Calls |-> {}]
    /\ request = {}
    /\ result = [c \in Calls |-> {}]
    /\ commands = 0
    /\ exporter = IdleExporter
    /\ dir = {}
    /\ files = [c \in Calls |-> {}]
    /\ shows = [c \in Calls |-> {}]
    /\ lease = [c \in Calls |-> "none"]
    /\ aged = {}
    /\ events = 0
    /\ packages = {} /\ returned = {} /\ swept = {}

Go(c, from, to) == pc[c] = from /\ pc' = [pc EXCEPT ![c] = to]

-----------------------------------------------------------------------------
(* scavenge_visual_evidence_artifacts *)

\* The caller has read the manifest and the drawing; list(root.iterdir()).
Begin(c) ==
    /\ Go(c, "new", "sweeping")
    /\ bound' = [bound EXCEPT ![c] = [manifest |-> manifest, disk |-> disk]]
    /\ todo' = [todo EXCEPT ![c] = dir]
    /\ UNCHANGED <<manifest, drawing, target, listing, taken, channel, exporter, folder,
                   events, history>>

\* A directory that is gone or younger than the time to live is passed over;
\* an older one is a candidate from here on.
Consider(c) ==
    /\ pc[c] = "sweeping"
    /\ \E d \in todo[c] :
         /\ todo' = [todo EXCEPT ![c] = @ \ {d}]
         /\ IF d \in dir \cap aged
              THEN /\ target' = [target EXCEPT ![c] = {d}]
                   /\ pc' = [pc EXCEPT ![c] = "claiming"]
              ELSE UNCHANGED <<target, pc>>
    /\ UNCHANGED <<manifest, drawing, bound, listing, taken, channel, exporter, folder,
                   events, history>>

Open(d) == lease[d] \in {"exporter", "claimed"}

GiveUp(c) ==
    /\ pc' = [pc EXCEPT ![c] = "sweeping"]
    /\ target' = [target EXCEPT ![c] = {}]
    /\ listing' = [listing EXCEPT ![c] = {}]

\* Creating or deleting an entry renews the directory's modification time.
Renew(d) == aged' = aged \ {d}

\* Mutant: the lease is opened for sharing, so an exporter's is no obstacle.
ClaimShared(c) ==
    \E d \in target[c] :
      /\ pc[c] = "claiming"
      /\ d \in dir
      /\ pc' = [pc EXCEPT ![c] = "claimed"]
      /\ lease' = [lease EXCEPT ![d] = "claimed"]
      /\ swept' = swept \cup {d}
      /\ UNCHANGED <<manifest, drawing, bound, sweep, taken, channel, exporter, dir, files,
                     shows, aged, events, packages, returned>>

\* _claim_visual_evidence_lease: a lease left behind is opened, a missing one
\* created; one that somebody holds, or a directory that is gone, is skipped.
Claim(c) ==
    \E d \in target[c] :
      /\ pc[c] = "claiming"
      /\ IF d \in dir /\ ~Open(d)
           THEN /\ pc' = [pc EXCEPT ![c] = "claimed"]
                /\ lease' = [lease EXCEPT ![d] = "claimed"]
                /\ IF lease[d] = "none" THEN Renew(d) ELSE UNCHANGED aged
                /\ swept' = swept \cup {d}
                /\ UNCHANGED <<target, listing>>
           ELSE GiveUp(c) /\ UNCHANGED <<lease, aged, swept>>
      /\ UNCHANGED <<manifest, drawing, bound, todo, taken, channel, exporter, dir, files,
                     shows, events, packages, returned>>

\* lease_handle.close(): from here on nothing keeps an exporter out.
CloseClaim(c) ==
    \E d \in target[c] :
      /\ Go(c, "claimed", "closed")
      /\ lease' = [lease EXCEPT ![d] = "left"]
      /\ UNCHANGED <<manifest, drawing, bound, sweep, taken, channel, exporter, dir, files,
                     shows, aged, events, history>>

\* lease.unlink(missing_ok=True), refused while another process has it open.
UnlinkClaim(c) ==
    \E d \in target[c] :
      /\ pc[c] = "closed"
      /\ IF Open(d)
           THEN GiveUp(c) /\ UNCHANGED <<lease, aged>>
           ELSE /\ pc' = [pc EXCEPT ![c] = "unlinked"]
                /\ lease' = [lease EXCEPT ![d] = "none"]
                /\ Renew(d)
                /\ UNCHANGED <<target, listing>>
      /\ UNCHANGED <<manifest, drawing, bound, todo, taken, channel, exporter, dir, files,
                     shows, events, history>>

Entries(d) == files[d] \cup IF lease[d] = "none" THEN {} ELSE {Lease}

\* _remove_tree_without_reparse: path.iterdir() reads the whole listing ...
List(c) ==
    \E d \in target[c] :
      /\ pc[c] = "unlinked"
      /\ IF d \in dir
           THEN /\ pc' = [pc EXCEPT ![c] = "removing"]
                /\ listing' = [listing EXCEPT ![c] = Entries(d)]
                /\ UNCHANGED target
           ELSE GiveUp(c)
      /\ UNCHANGED <<manifest, drawing, bound, todo, taken, channel, exporter, folder,
                     events, history>>

Delete(d, entry) ==
    /\ files' = [files EXCEPT ![d] = @ \ {entry}]
    /\ lease' = [lease EXCEPT ![d] = IF entry = Lease THEN "none" ELSE @]
    /\ Renew(d)

\* ... and unlinks each entry; one that is open, or no longer a file, ends it.
Remove(c) ==
    \E d \in target[c], entry \in listing[c] :
      /\ pc[c] = "removing"
      /\ IF entry \in Entries(d) /\ (entry = Lease => ~Open(d))
           THEN /\ Delete(d, entry)
                /\ listing' = [listing EXCEPT ![c] = @ \ {entry}]
                /\ UNCHANGED <<pc, target>>
           ELSE GiveUp(c) /\ UNCHANGED <<files, lease, aged>>
      /\ UNCHANGED <<manifest, drawing, bound, todo, taken, channel, exporter, dir, shows,
                     events, history>>

RemoveFolder(d) ==
    /\ dir' = IF Entries(d) = {} THEN dir \ {d} ELSE dir
    /\ shows' = [shows EXCEPT ![d] = IF Entries(d) = {} THEN {} ELSE @]
    /\ aged' = IF Entries(d) = {} THEN aged \ {d} ELSE aged

\* path.rmdir() fails on a directory that has entries again.
RemoveSwept(c) ==
    \E d \in target[c] :
      /\ pc[c] = "removing"
      /\ listing[c] = {}
      /\ RemoveFolder(d)
      /\ GiveUp(c)
      /\ UNCHANGED <<manifest, drawing, bound, todo, taken, channel, exporter, files, lease,
                     events, history>>

-----------------------------------------------------------------------------
(* DotNetIPCClient.visual_evidence_export after the sweep *)

\* _snapshot_vs_t3_manifest, request file and trigger; a manifest that no
\* longer has the hash the caller named raises before anything is written.
Dispatch(c) ==
    /\ pc[c] = "sweeping"
    /\ todo[c] = {} /\ target[c] = {}
    /\ IF manifest = bound[c].manifest
         THEN /\ pc' = [pc EXCEPT ![c] = "polling"]
              /\ request' = request \cup {c}
              /\ commands' = commands + 1
         ELSE pc' = [pc EXCEPT ![c] = "done"] /\ UNCHANGED <<request, commands>>
    /\ UNCHANGED <<manifest, drawing, bound, sweep, taken, result, exporter, folder,
                   events, history>>

\* _poll_result: an unsuccessful result raises, and so does the deadline.
TakeResult(c) ==
    /\ pc[c] = "polling"
    /\ \E outcome \in result[c] :
         /\ reply' = [reply EXCEPT ![c] = outcome]
         /\ pc' = [pc EXCEPT ![c] = IF outcome = {} THEN "cleaning" ELSE "answered"]
    /\ UNCHANGED <<manifest, drawing, bound, sweep, copied, channel, exporter, folder,
                   events, history>>

TimeOut(c) ==
    /\ result[c] = {}
    /\ Go(c, "polling", "cleaning")
    /\ UNCHANGED <<manifest, drawing, bound, sweep, taken, channel, exporter, folder,
                   events, history>>

Continue(c, from, condition, to) ==
    Go(c, from, IF condition THEN to ELSE "cleaning")

\* The bytes of an artifact have the SHA-256 its descriptor gives.
Matches(c) == \E a \in shows[c], r \in reply[c] : a.memory = r.memory

\* _verify_visual_evidence_artifacts, validate_visual_evidence_freshness.
Verify(c) ==
    /\ Continue(c, "answered",
         /\ files[c] = Kinds /\ Matches(c)
         /\ \A r \in reply[c] : r.disk = bound[c].disk, "verified")
    /\ UNCHANGED <<manifest, drawing, bound, sweep, taken, channel, exporter, folder,
                   events, history>>

IsCurrent(c) == manifest = bound[c].manifest

\* _assert_vs_t3_manifest_unchanged; the consumer, write_visual_evidence,
\* takes its own snapshots of the manifest and of the drawing's hash.
Handoff(c) ==
    /\ Continue(c, "verified", IsCurrent(c) /\ disk = bound[c].disk, "copying")
    /\ UNCHANGED <<manifest, drawing, bound, sweep, taken, channel, exporter, folder,
                   events, history>>

\* One artifact is read, compared with its descriptor and written.
Copy(c) ==
    \E k \in Kinds \ {a[1] : a \in copied[c]}, r \in reply[c] :
      /\ pc[c] = "copying"
      /\ IF k \in files[c] /\ Matches(c)
           THEN copied' = [copied EXCEPT ![c] = @ \cup {<<k, r.memory>>}] /\ UNCHANGED pc
           ELSE pc' = [pc EXCEPT ![c] = "cleaning"] /\ UNCHANGED copied
      /\ UNCHANGED <<manifest, drawing, bound, sweep, reply, channel, exporter, folder,
                     events, history>>

\* Manifest and drawing are read once more before the rename.
CheckPackage(c) ==
    /\ {a[1] : a \in copied[c]} = Kinds
    /\ Continue(c, "copying", IsCurrent(c) /\ disk = bound[c].disk, "checked")
    /\ UNCHANGED <<manifest, drawing, bound, sweep, taken, channel, exporter, folder,
                   events, history>>

\* os.rename(temporary, destination)
Promote(c) ==
    \E r \in reply[c] :
      /\ Go(c, "checked", "promoted")
      /\ packages' = packages \cup
           {[call |-> c, shown |-> {a[2] : a \in copied[c]}, asked |-> bound[c].disk,
             disk |-> r.disk, clean |-> r.clean, manifest |-> bound[c].manifest, at |-> manifest]}
      /\ UNCHANGED <<manifest, drawing, bound, sweep, taken, channel, exporter, folder,
                     events, returned, swept>>

\* Mutant: the call returns without the second assertion.
ConfirmUnchecked(c) ==
    /\ Go(c, "promoted", "cleaning")
    /\ returned' = returned \cup {c}
    /\ UNCHANGED <<manifest, drawing, bound, sweep, taken, channel, exporter, folder,
                   events, packages, swept>>

\* The second _assert_vs_t3_manifest_unchanged decides whether the call
\* returns or raises; the package stays where it is.
Confirm(c) ==
    /\ Go(c, "promoted", "cleaning")
    /\ returned' = IF IsCurrent(c) THEN returned \cup {c} ELSE returned
    /\ UNCHANGED <<manifest, drawing, bound, sweep, taken, channel, exporter, folder,
                   events, packages, swept>>

\* finally: cleanup_request_files ...
CleanRequest(c) ==
    /\ Go(c, "cleaning", "tidying")
    /\ request' = request \ {c}
    /\ result' = [result EXCEPT ![c] = {}]
    /\ reply' = [reply EXCEPT ![c] = {}]
    /\ copied' = [copied EXCEPT ![c] = {}]
    /\ bound' = [bound EXCEPT ![c] = Unbound]
    /\ UNCHANGED <<manifest, drawing, sweep, commands, exporter, folder, events, history>>

\* ... _cleanup_request_artifacts_if_lease_free: a lease ends it, ...
TidyLease(c) ==
    /\ Go(c, "tidying", IF c \in dir /\ lease[c] = "none" THEN "free" ELSE "done")
    /\ UNCHANGED <<manifest, drawing, bound, sweep, taken, channel, exporter, folder,
                   events, history>>

TidyList(c) ==
    /\ Go(c, "free", IF c \in dir THEN "emptying" ELSE "done")
    /\ listing' = [listing EXCEPT ![c] = IF c \in dir THEN Entries(c) ELSE {}]
    /\ UNCHANGED <<manifest, drawing, bound, todo, target, taken, channel, exporter,
                   folder, events, history>>

\* ... every listed file that is still there is unlinked, an open one ends it.
TidyRemove(c) ==
    \E entry \in listing[c] :
      /\ pc[c] = "emptying"
      /\ IF entry = Lease /\ Open(c)
           THEN /\ pc' = [pc EXCEPT ![c] = "done"]
                /\ listing' = [listing EXCEPT ![c] = {}]
                /\ UNCHANGED <<files, lease, aged>>
           ELSE /\ Delete(c, entry)
                /\ listing' = [listing EXCEPT ![c] = @ \ {entry}]
                /\ UNCHANGED pc
      /\ UNCHANGED <<manifest, drawing, bound, todo, target, taken, channel, exporter, dir,
                     shows, events, history>>

TidyFolder(c) ==
    /\ listing[c] = {}
    /\ Go(c, "emptying", "done")
    /\ RemoveFolder(c)
    /\ UNCHANGED <<manifest, drawing, bound, sweep, taken, channel, exporter, files, lease,
                   events, history>>

-----------------------------------------------------------------------------
(* CADAGENT_DISPATCH and AutoCadVisualEvidenceReader.Export *)

To(step) == exporter' = [exporter EXCEPT !.pc = step]

\* The next pending request, whether or not it has been served before; the
\* drawing on disk must still have the hash of the request (HashFile).
Pick ==
    /\ exporter.pc = "idle"
    /\ commands > 0
    /\ commands' = commands - 1
    /\ \/ \E c \in request :
            exporter' = [IdleExporter EXCEPT
              !.pc = IF disk = bound[c].disk THEN "read" ELSE "failed", !.call = {c}]
       \/ request = {} /\ UNCHANGED exporter
    /\ UNCHANGED <<manifest, drawing, pc, bound, sweep, taken, request, result, folder,
                   events, history>>

\* RequestOwnedArtifactStore.Create refuses a directory that exists.
Create ==
    \E c \in exporter.call :
      /\ exporter.pc = "read"
      /\ IF c \in dir
           THEN To("failed") /\ UNCHANGED <<dir, files, shows>>
           ELSE /\ dir' = dir \cup {c}
                /\ files' = [files EXCEPT ![c] = {}]
                /\ shows' = [shows EXCEPT ![c] = {}]
                /\ To("created")
      /\ UNCHANGED <<manifest, drawing, pc, bound, sweep, taken, channel, lease, aged,
                     events, history>>

\* Nobody is past the point where the lease would have stopped it.
Quiet(c) ==
    /\ \A s \in Calls : c \in target[s] => pc[s] = "claiming"
    /\ pc[c] \notin {"free", "emptying"}

\* What the artifacts show and the payload reports: the entities in memory,
\* the hash of the file, and DBMOD, which tells of unsaved edits.
Capture == [memory |-> memory, disk |-> disk, clean |-> memory = disk]

\* AcquireLease (FileMode.CreateNew, FileShare.None), then the entities are read.
AcquireLease ==
    \E c \in exporter.call :
      /\ exporter.pc = "created"
      /\ IF c \in dir /\ lease[c] = "none"
           THEN /\ lease' = [lease EXCEPT ![c] = "exporter"]
                /\ Renew(c)
                /\ shows' = [shows EXCEPT ![c] = {Capture}]
                /\ exporter' = [exporter EXCEPT !.pc = "leased", !.quiet = Quiet(c)]
           ELSE To("unleased") /\ UNCHANGED <<lease, aged, shows>>
      /\ UNCHANGED <<manifest, drawing, pc, bound, sweep, taken, channel, dir, files,
                     events, history>>

\* store.Write, FileMode.CreateNew
WriteArtifact ==
    \E c \in exporter.call, k \in Kinds \ exporter.written :
      /\ exporter.pc = "leased"
      /\ IF k \in files[c]
           THEN To("failing") /\ UNCHANGED <<files, aged>>
           ELSE /\ files' = [files EXCEPT ![c] = @ \cup {k}]
                /\ exporter' = [exporter EXCEPT !.written = @ \cup {k}]
                /\ Renew(c)
      /\ UNCHANGED <<manifest, drawing, pc, bound, sweep, taken, channel, dir, shows, lease,
                     events, history>>

\* The session cannot be restored, a limit is exceeded, a write fails ...
ExportFails ==
    /\ exporter.pc = "leased"
    /\ To("failing")
    /\ UNCHANGED <<manifest, drawing, pc, bound, sweep, taken, channel, folder, events,
                   history>>

\* Lease.Dispose closes the stream ...
CloseLease ==
    \E c \in exporter.call :
      /\ \/ exporter.pc = "leased" /\ exporter.written = Kinds /\ To("releasing")
         \/ exporter.pc = "failing" /\ To("undoing")
      /\ lease' = [lease EXCEPT ![c] = "left"]
      /\ UNCHANGED <<manifest, drawing, pc, bound, sweep, taken, channel, dir, files, shows,
                     aged, events, history>>

\* ... and deletes the file, which a sweeper may have opened in between.
DeleteLease ==
    \E c \in exporter.call :
      /\ exporter.pc \in {"releasing", "undoing"}
      /\ IF lease[c] = "claimed"
           THEN /\ To(IF exporter.pc = "releasing" THEN "unleased" ELSE "failed")
                /\ UNCHANGED <<lease, aged>>
           ELSE /\ To(IF exporter.pc = "releasing" THEN "exported" ELSE "unleased")
                /\ lease' = [lease EXCEPT ![c] = "none"]
                /\ Renew(c)
      /\ UNCHANGED <<manifest, drawing, pc, bound, sweep, taken, channel, dir, files, shows,
                     events, history>>

\* CleanupOnFailure: Directory.Delete(recursive) unless a lease is there again.
CleanupOnFailure ==
    \E c \in exporter.call :
      /\ exporter.pc = "unleased"
      /\ IF lease[c] = "none"
           THEN /\ dir' = dir \ {c}
                /\ aged' = aged \ {c}
                /\ files' = [files EXCEPT ![c] = {}]
                /\ shows' = [shows EXCEPT ![c] = {}]
           ELSE UNCHANGED <<dir, aged, files, shows>>
      /\ To("failed")
      /\ UNCHANGED <<manifest, drawing, pc, bound, sweep, taken, channel, lease, events,
                     history>>

\* WriteResult: the payload describes what this execution captured.
WriteResult ==
    \E c \in exporter.call :
      /\ exporter.pc \in {"exported", "failed"}
      /\ result' = [result EXCEPT ![c] = {IF exporter.pc = "exported" THEN shows[c] ELSE {}}]
      /\ exporter' = IdleExporter
      /\ UNCHANGED <<manifest, drawing, pc, bound, sweep, taken, request, commands, folder,
                     events, history>>

Happens == events < MaxEvents /\ events' = events + 1

\* AutoCAD dies: its handle on the lease goes, the file stays.
Restart ==
    /\ Happens
    /\ exporter' = IdleExporter
    /\ commands' = 0
    /\ memory' = disk
    /\ lease' = [d \in Calls |-> IF lease[d] = "exporter" THEN "left" ELSE lease[d]]
    /\ UNCHANGED <<manifest, disk, pc, bound, sweep, taken, request, result, dir, files,
                   shows, aged, history>>

-----------------------------------------------------------------------------
(* What goes on around the calls *)

\* The user edits and saves between AutoCAD's commands.
Edit ==
    /\ exporter.pc = "idle"
    /\ Happens
    /\ memory' = memory + 1
    /\ UNCHANGED <<manifest, disk, pc, bound, sweep, taken, channel, exporter, folder,
                   history>>

Save ==
    /\ exporter.pc = "idle"
    /\ disk # memory
    /\ Happens
    /\ disk' = memory
    /\ UNCHANGED <<manifest, memory, pc, bound, sweep, taken, channel, exporter, folder,
                   history>>

UpdateManifest ==
    /\ Happens
    /\ manifest' = manifest + 1
    /\ UNCHANGED <<drawing, pc, bound, sweep, taken, channel, exporter, folder, history>>

\* A day passes for a directory, whoever is at work in it.
Age ==
    \E d \in dir \ aged :
      /\ Happens
      /\ aged' = aged \cup {d}
      /\ UNCHANGED <<manifest, drawing, pc, bound, sweep, taken, channel, exporter, dir,
                     files, shows, lease, history>>

-----------------------------------------------------------------------------

Sweep(c) ==
    \/ Begin(c)
    \/ Consider(c)
    \/ Claim(c)
    \/ CloseClaim(c)
    \/ UnlinkClaim(c)
    \/ List(c)
    \/ Remove(c)
    \/ RemoveSwept(c)

Call(c) ==
    \/ Dispatch(c)
    \/ TakeResult(c)
    \/ TimeOut(c)
    \/ Verify(c)
    \/ Handoff(c)
    \/ Copy(c)
    \/ CheckPackage(c)
    \/ Promote(c)
    \/ Confirm(c)
    \/ CleanRequest(c)
    \/ TidyLease(c)
    \/ TidyList(c)
    \/ TidyRemove(c)
    \/ TidyFolder(c)

Export ==
    \/ Pick
    \/ Create
    \/ AcquireLease
    \/ WriteArtifact
    \/ ExportFails
    \/ CloseLease
    \/ DeleteLease
    \/ CleanupOnFailure
    \/ WriteResult
    \/ Restart

Next ==
    \/ \E c \in Calls : Sweep(c) \/ Call(c)
    \/ Export
    \/ Edit
    \/ Save
    \/ UpdateManifest
    \/ Age

Spec == Init /\ [][Next]_vars

-----------------------------------------------------------------------------
(* What the exchange of artifacts guarantees *)

Outcomes == {{}} \cup {{[disk |-> d, memory |-> m, clean |-> c]} :
                        d, m \in 0..MaxEvents, c \in BOOLEAN}

\* Every variable has its type.
TypeOK ==
    /\ manifest \in 0..MaxEvents /\ disk \in 0..MaxEvents /\ memory \in 0..MaxEvents
    /\ bound \in [Calls -> [manifest : 0..MaxEvents, disk : 0..MaxEvents]]
    /\ todo \in [Calls -> SUBSET Calls] /\ target \in [Calls -> SUBSET Calls]
    /\ listing \in [Calls -> SUBSET (Kinds \cup {Lease})]
    /\ request \subseteq Calls /\ commands \in Nat
    /\ exporter.call \subseteq Calls /\ exporter.written \subseteq Kinds
    /\ \A c \in Calls : result[c] \subseteq Outcomes /\ files[c] \subseteq Kinds
    /\ dir \subseteq Calls /\ aged \subseteq dir
    /\ lease \in [Calls -> {"none", "exporter", "claimed", "left"}]
    /\ returned \subseteq Calls /\ swept \subseteq Calls
    /\ events \in 0..MaxEvents

\* "A failed exclusive open therefore leaves a live AutoCAD operation alone":
\* while the exporter holds the lease of a directory in which nobody was past
\* the lease when it took it, everything it has written is there, however old
\* the directory grows and whoever sweeps or tidies.
LeaseProtects ==
    exporter.pc = "leased" /\ exporter.quiet =>
        \A c \in exporter.call : c \in dir /\ files[c] = exporter.written

\* A success that its caller still waits for has its artifacts behind it, also
\* when its request was executed again or AutoCAD died since, unless the
\* directory outlived its time and a sweeper claimed it.
ResultIsBacked ==
    \A c \in Calls \ swept :
        pc[c] = "polling" => \A outcome \in result[c] :
            outcome # {} => files[c] = Kinds /\ shows[c] = outcome

\* An evidence package holds the artifacts of one capture, of the drawing the
\* call named; and one that reports no unsaved edits (DBMOD 0) shows the very
\* bytes whose SHA-256 it carries.
PackagesShowOneCapture ==
    \A p \in packages :
        /\ Cardinality(p.shown) = 1
        /\ p.disk = p.asked
        /\ p.clean => p.shown = {p.disk}

\* A call that returns has put its package in place under the run manifest the
\* package names: an update before, during or right after the handoff makes
\* the call raise.
AnswerIsCurrent ==
    \A p \in packages : p.call \in returned => p.at = p.manifest

\* A package is true of the drawing and of the run manifest it names.
PackagesAreTrue == PackagesShowOneCapture /\ AnswerIsCurrent

\* The data are well formed, and nobody removes artifacts that an exporter
\* writes or a caller waits for.
EvidenceIsKept == TypeOK /\ LeaseProtects /\ ResultIsBacked
=============================================================================
