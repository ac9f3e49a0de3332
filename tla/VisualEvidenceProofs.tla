------------------------- MODULE VisualEvidenceProofs -------------------------
(***************************************************************************)
(* Proofs about VisualEvidence, for every set of calls, every non-empty    *)
(* set of artifacts and any number of edits, saves, restarts, updates of   *)
(* the manifest and days that pass; then about FidelityCheckpoint, the     *)
(* manifest such a drawing's fidelity root keeps.                          *)
(***************************************************************************)
EXTENDS MCRecords, FiniteSetTheorems, TLAPS

\* The steps of a sweep before and after the lease of its target was claimed.
Holding == {"claimed", "closed", "unlinked", "removing"}
Sweeping == {"claiming"} \cup Holding

\* The steps of a call before its request is written, and after its package is
\* in place or it has given up.
Early == {"new", "sweeping"} \cup Sweeping
Late == {"cleaning", "tidying", "free", "emptying", "done"}

Steps == Early \cup Late
         \cup {"polling", "answered", "verified", "copying", "checked", "promoted"}

ExportSteps == {"idle", "read", "created", "leased", "failing", "releasing", "undoing",
                "unleased", "exported", "failed"}

\* The steps of an export that has created its directory.
Building == ExportSteps \ {"idle", "read", "failed"}

\* One capture or none, and it tells of unsaved edits.
Honest(X) == \A r, q \in X : r = q /\ (r.clean => r.memory = r.disk)

-----------------------------------------------------------------------------
(* Well-formed data. *)

VersionsTyped ==
    /\ manifest \in 0..MaxEvents /\ disk \in 0..MaxEvents /\ memory \in 0..MaxEvents
    /\ events \in 0..MaxEvents
    /\ manifest <= events /\ disk <= events /\ memory <= events

CallsTyped ==
    /\ pc \in [Calls -> Steps]
    /\ bound \in [Calls -> [manifest : 0..MaxEvents, disk : 0..MaxEvents]]
    /\ todo \in [Calls -> SUBSET Calls] /\ target \in [Calls -> SUBSET Calls]
    /\ listing \in [Calls -> SUBSET (Kinds \cup {Lease})]
    /\ reply \in [Calls -> Outcomes]
    /\ copied \in [Calls -> SUBSET (Kinds \X Nat)]

ChannelTyped ==
    request \subseteq Calls /\ commands \in Nat /\ result \in [Calls -> SUBSET Outcomes]

ExporterTyped ==
    exporter \in [pc : ExportSteps, call : SUBSET Calls, written : SUBSET Kinds, quiet : BOOLEAN]

FolderTyped ==
    /\ dir \subseteq Calls /\ aged \subseteq dir
    /\ files \in [Calls -> SUBSET Kinds] /\ shows \in [Calls -> Outcomes]
    /\ lease \in [Calls -> {"none", "exporter", "claimed", "left"}]

HistoryTyped == returned \subseteq Calls /\ swept \subseteq Calls

Typed ==
    VersionsTyped /\ CallsTyped /\ ChannelTyped /\ ExporterTyped /\ FolderTyped /\ HistoryTyped

-----------------------------------------------------------------------------
(* What a call copies. *)

\* Every capture that is reported, shown or replied is one, and honest.
CaptureInv ==
    \A c \in Calls :
        Honest(shows[c]) /\ Honest(reply[c]) /\ \A outcome \in result[c] : Honest(outcome)

\* What is copied shows the capture that was replied, of the drawing the call
\* was made for, and nothing is copied before that was verified.
CopyInv ==
    \A c \in Calls :
        /\ copied[c] # {} => pc[c] \in {"copying", "checked", "promoted", "cleaning"}
        /\ \A a \in copied[c] : a[1] \in Kinds /\ \A r \in reply[c] : a[2] = r.memory
        /\ pc[c] \in {"verified", "copying", "checked"} =>
             \A r \in reply[c] : r.disk = bound[c].disk
        /\ pc[c] = "checked" => {a[1] : a \in copied[c]} = Kinds

\* A package stands for one capture; it was put in place between the moment its
\* manifest was read and now.
Sound(p) ==
    /\ p.call \in Calls /\ pc[p.call] \in Late \cup {"promoted"}
    /\ p.manifest \in Nat /\ p.at \in Nat
    /\ p.manifest <= p.at /\ p.at <= manifest
    /\ pc[p.call] = "promoted" => p.manifest = bound[p.call].manifest
    /\ p.call \in returned => p.at = p.manifest
    /\ \E m \in p.shown : p.shown = {m} /\ (p.clean => m = p.disk)
    /\ p.disk = p.asked

PackageInv ==
    /\ \A c \in Calls : bound[c].manifest <= manifest
    /\ \A c \in returned : pc[c] \in Late
    /\ \A p \in packages : Sound(p)

-----------------------------------------------------------------------------
(* Who touches a directory. *)

\* A sweeper that is past the lease of a directory has claimed it, and while it
\* holds the claim nobody else has it open.
SweepInv ==
    /\ \A s \in Calls : pc[s] \notin Sweeping => target[s] = {}
    /\ \A s \in Calls : \A d, e \in target[s] : d = e
    /\ \A s \in Calls : \A d \in target[s] :
         /\ pc[s] \in Holding => d \in swept
         /\ pc[s] = "claimed" => lease[d] = "claimed"
    /\ \A s, t \in Calls : \A d \in target[s] \cap target[t] :
         pc[s] = "claimed" /\ pc[t] = "claimed" => s = t

\* The exporter has the lease of what it writes, in a directory it found empty.
ExporterInv ==
    /\ \A c, d \in exporter.call : c = d
    /\ exporter.pc = "read" => exporter.written = {}
    /\ \A c \in exporter.call :
         /\ exporter.pc \in {"leased", "failing"} => lease[c] = "exporter"
         /\ exporter.pc = "created" => exporter.written = {} /\ files[c] = {}
         /\ exporter.pc = "leased" /\ exporter.quiet =>
              Quiet(c) /\ c \in dir /\ files[c] = exporter.written
         /\ exporter.pc \in {"releasing", "exported"} => exporter.written = Kinds

\* Before its request there is nothing of a call; and what a caller waits for
\* stays as it was written, unless a sweeper claims the directory.
AnswerInv ==
    \A c \in Calls :
        /\ pc[c] \in Early =>
             /\ c \notin request /\ c \notin dir /\ result[c] = {} /\ c \notin exporter.call
        /\ pc[c] = "polling" /\ c \notin swept =>
             /\ \A outcome \in result[c] : outcome # {} =>
                  /\ c \in dir /\ files[c] = Kinds /\ shows[c] = outcome
                  /\ ~(c \in exporter.call /\ exporter.pc \in Building)
             /\ c \in exporter.call /\ exporter.pc \in {"leased", "releasing", "exported"} =>
                  c \in dir /\ files[c] = exporter.written

Inv ==
    /\ Typed /\ CaptureInv /\ CopyInv /\ PackageInv
    /\ SweepInv /\ ExporterInv /\ AnswerInv

-----------------------------------------------------------------------------
(* Helpers *)

Moves(c, to) == pc'[c] = to /\ \A d \in Calls \ {c} : pc'[d] = pc[d]

LEMMA Moving ==
    ASSUME Typed, NEW c \in Calls, NEW to \in Steps, pc' = [pc EXCEPT ![c] = to]
    PROVE  Moves(c, to) /\ pc' \in [Calls -> Steps]
BY DEF Typed, CallsTyped, Moves

LEMMA OutcomeFields ==
    ASSUME NEW X \in Outcomes, NEW r \in X
    PROVE  /\ r.memory \in 0..MaxEvents /\ r.disk \in 0..MaxEvents /\ r.clean \in BOOLEAN
           /\ X = {r}
<1>1. PICK d \in 0..MaxEvents, m \in 0..MaxEvents, k \in BOOLEAN :
        X = {[disk |-> d, memory |-> m, clean |-> k]}
  BY DEF Outcomes
<1>2. r = [disk |-> d, memory |-> m, clean |-> k]
  BY <1>1
<1> QED
  BY <1>1, <1>2

LEMMA NoOutcome == {} \in Outcomes
BY DEF Outcomes

LEMMA CaptureTyped ==
    ASSUME VersionsTyped
    PROVE  {Capture} \in Outcomes /\ Honest({Capture})
<1>1. memory \in 0..MaxEvents /\ disk \in 0..MaxEvents /\ (memory = disk) \in BOOLEAN
  BY DEF VersionsTyped
<1>2. {Capture} \in Outcomes
  <2>1. PICK k \in BOOLEAN : k <=> memory = disk
    BY <1>1
  <2>2. Capture = [disk |-> disk, memory |-> memory, clean |-> k]
    BY <2>1 DEF Capture
  <2>3. {[disk |-> disk, memory |-> memory, clean |-> k]} \in Outcomes
    BY <1>1 DEF Outcomes
  <2> QED
    BY <2>2, <2>3
<1>3. Capture.clean = (memory = disk) /\ Capture.memory = memory /\ Capture.disk = disk
  BY DEF Capture
<1>4. Honest({Capture})
  BY <1>3 DEF Honest
<1> QED
  BY <1>2, <1>4

LEMMA HonestNone == Honest({})
BY DEF Honest

-----------------------------------------------------------------------------
(* What leaves packages and directories alone. *)

\* A call that is not about to copy or to promote moves.
LEMMA PackagesStay ==
    ASSUME Inv, UNCHANGED <<bound, reply, copied, packages, returned>>,
           manifest' \in Nat, manifest <= manifest',
           \A c \in Calls :
             \/ pc'[c] = pc[c]
             \/ /\ pc'[c] \notin {"verified", "copying", "checked", "promoted"}
                /\ copied[c] # {} => pc'[c] = "cleaning"
                /\ pc[c] \in Late \cup {"promoted"} => pc'[c] \in Late
    PROVE  CopyInv' /\ PackageInv'
<1>1. CopyInv'
  BY DEF Inv, CopyInv
<1>2. manifest \in Nat /\ bound \in [Calls -> [manifest : 0..MaxEvents, disk : 0..MaxEvents]]
  BY EvidenceAssumption DEF Inv, Typed, VersionsTyped, CallsTyped
<1>3. \A c \in Calls : bound'[c].manifest <= manifest'
  <2> SUFFICES ASSUME NEW c \in Calls PROVE bound[c].manifest <= manifest'
    OBVIOUS
  <2>1. bound[c].manifest \in 0..MaxEvents /\ bound[c].manifest <= manifest
    BY <1>2 DEF Inv, PackageInv
  <2> QED
    BY <2>1, <1>2, EvidenceAssumption
<1>4. \A c \in returned' : pc'[c] \in Late
  BY DEF Inv, PackageInv, Typed, HistoryTyped, Late
<1>5. ASSUME NEW p \in packages PROVE Sound(p)'
  <2>1. Sound(p)
    BY DEF Inv, PackageInv
  <2>2. p.at <= manifest'
    BY <2>1, <1>2 DEF Sound
  <2> QED
    BY <2>1, <2>2 DEF Sound, Late
<1> QED
  BY <1>1, <1>3, <1>4, <1>5 DEF PackageInv

\* Directories, leases and the exporter are left alone, and a request or a
\* result goes at most.
LEMMA FoldersStay ==
    ASSUME Inv, UNCHANGED <<target, swept, exporter, dir, files, shows, lease>>,
           request' \subseteq request, \A c \in Calls : result'[c] \in {result[c], {}},
           \A c \in Calls :
             \/ pc'[c] = pc[c]
             \/ /\ pc[c] \notin Sweeping /\ pc'[c] \notin Sweeping \cup {"polling"}
                /\ pc'[c] \in Early => pc[c] \in Early
                /\ pc'[c] \in {"free", "emptying"} => pc[c] \in {"free", "emptying"}
    PROVE  SweepInv' /\ ExporterInv' /\ AnswerInv'
<1>1. SweepInv'
  BY DEF Inv, SweepInv, Sweeping, Holding
<1>2. \A c \in Calls : Quiet(c) => Quiet(c)'
  BY DEF Quiet, Inv, SweepInv, Sweeping
<1>3. exporter.call \subseteq Calls
  BY DEF Inv, Typed, ExporterTyped
<1>4. ExporterInv'
  BY <1>2, <1>3 DEF Inv, ExporterInv
<1>5. AnswerInv'
  BY DEF Inv, AnswerInv, Early, Sweeping
<1> QED
  BY <1>1, <1>4, <1>5

\* A sweeper moves, and touches only what it has claimed.
LEMMA SweeperStays ==
    ASSUME Inv, NEW s \in Calls, NEW to \in Sweeping \cup {"sweeping"},
           pc[s] \in Sweeping \cup {"sweeping"}, Moves(s, to),
           UNCHANGED <<request, result, exporter>>,
           \A t \in Calls \ {s} : target'[t] = target[t],
           swept \subseteq swept', dir' \subseteq dir,
           to = "sweeping" => target'[s] = {},
           \A d, e \in target'[s] : d = e,
           \A d \in target'[s] : /\ d \in Calls
                                 /\ to \in Holding => d \in swept'
                                 /\ to = "claimed" => lease'[d] = "claimed",
           \A t \in Calls \ {s} : \A d \in target[t] : pc[t] = "claimed" =>
             lease'[d] = "claimed" /\ ~(to = "claimed" /\ d \in target'[s]),
           \A d \in Calls : /\ files'[d] \subseteq files[d]
                            /\ lease[d] = "exporter" => lease'[d] = "exporter",
           \A d \in Calls \ swept' : /\ files'[d] = files[d] /\ shows'[d] = shows[d]
                                     /\ d \in dir' <=> d \in dir,
           \A d \in Calls : lease[d] = "exporter" /\ Quiet(d) =>
             /\ files'[d] = files[d] /\ (d \in dir => d \in dir')
             /\ d \in target'[s] => to = "claiming"
    PROVE  SweepInv' /\ ExporterInv' /\ AnswerInv'
<1>0. exporter.call \subseteq Calls
  BY DEF Inv, Typed, ExporterTyped
<1>1. SweepInv'
  <2>1. \A t \in Calls : pc'[t] \notin Sweeping => target'[t] = {}
    BY DEF Inv, SweepInv, Moves, Sweeping, Holding
  <2>4. \A t \in Calls : \A d, e \in target'[t] : d = e
    BY DEF Inv, SweepInv
  <2>2. ASSUME NEW t \in Calls, NEW d \in target'[t]
        PROVE  /\ pc'[t] \in Holding => d \in swept'
               /\ pc'[t] = "claimed" => lease'[d] = "claimed"
    <3>1. CASE t = s
      BY <3>1, <2>2 DEF Moves
    <3>2. CASE t # s
      BY <3>2, <2>2 DEF Inv, SweepInv, Moves
    <3> QED
      BY <3>1, <3>2
  <2>3. ASSUME NEW t \in Calls, NEW u \in Calls, NEW d \in target'[t] \cap target'[u],
               pc'[t] = "claimed", pc'[u] = "claimed"
        PROVE  t = u
    BY <2>3 DEF Inv, SweepInv, Moves
  <2> QED
    BY <2>1, <2>2, <2>3, <2>4 DEF SweepInv
<1>2. ASSUME NEW c \in exporter.call
      PROVE  /\ exporter.pc \in {"leased", "failing"} => lease'[c] = "exporter"
             /\ exporter.pc = "created" => exporter.written = {} /\ files'[c] = {}
             /\ exporter.pc = "leased" /\ exporter.quiet =>
                  Quiet(c)' /\ c \in dir' /\ files'[c] = exporter.written
             /\ exporter.pc \in {"releasing", "exported"} => exporter.written = Kinds
  <2>1. /\ exporter.pc \in {"leased", "failing"} => lease[c] = "exporter"
        /\ exporter.pc = "created" => exporter.written = {} /\ files[c] = {}
        /\ exporter.pc = "leased" /\ exporter.quiet =>
             Quiet(c) /\ c \in dir /\ files[c] = exporter.written
        /\ exporter.pc \in {"releasing", "exported"} => exporter.written = Kinds
    BY DEF Inv, ExporterInv
  <2>2. c \in Calls
    BY <1>0
  <2>3. exporter.pc = "leased" /\ exporter.quiet => Quiet(c)'
    <3> SUFFICES ASSUME lease[c] = "exporter", Quiet(c) PROVE Quiet(c)'
      BY <2>1
    <3>1. \A t \in Calls : c \in target'[t] => pc'[t] = "claiming"
      BY <2>2 DEF Quiet, Moves
    <3>2. pc'[c] \notin {"free", "emptying"}
      BY <2>2 DEF Quiet, Moves, Sweeping, Holding
    <3> QED
      BY <3>1, <3>2 DEF Quiet
  <2> QED
    BY <2>1, <2>2, <2>3
<1>3. ExporterInv'
  BY <1>2 DEF Inv, ExporterInv
<1>4. AnswerInv'
  <2> SUFFICES ASSUME NEW c \in Calls
               PROVE  /\ pc'[c] \in Early =>
                           /\ c \notin request /\ c \notin dir' /\ result[c] = {}
                           /\ c \notin exporter.call
                      /\ pc'[c] = "polling" /\ c \notin swept' =>
                           /\ \A outcome \in result[c] : outcome # {} =>
                                /\ c \in dir' /\ files'[c] = Kinds /\ shows'[c] = outcome
                                /\ ~(c \in exporter.call /\ exporter.pc \in Building)
                           /\ c \in exporter.call
                                /\ exporter.pc \in {"leased", "releasing", "exported"} =>
                                c \in dir' /\ files'[c] = exporter.written
    BY DEF AnswerInv
  <2>1. pc'[c] \in Early => pc[c] \in Early
    BY DEF Moves, Early
  <2>2. pc'[c] = "polling" => pc[c] = "polling"
    BY DEF Moves, Sweeping, Holding
  <2> QED
    BY <2>1, <2>2 DEF Inv, AnswerInv
<1> QED
  BY <1>1, <1>3, <1>4


-----------------------------------------------------------------------------
(* The sweep *)

\* The data a step leaves alone keep their types.
LEMMA ChangedData ==
    ASSUME Typed
    PROVE  /\ UNCHANGED <<manifest, drawing, events>> => VersionsTyped'
           /\ UNCHANGED channel => ChannelTyped'
           /\ UNCHANGED exporter => ExporterTyped'
           /\ UNCHANGED folder => FolderTyped'
           /\ UNCHANGED <<returned, swept>> => HistoryTyped'
<1>1. UNCHANGED <<manifest, drawing, events>> => VersionsTyped'
  BY DEF Typed, VersionsTyped, drawing
<1>2. UNCHANGED channel => ChannelTyped'
  BY DEF Typed, ChannelTyped, channel
<1>3. UNCHANGED exporter => ExporterTyped'
  BY DEF Typed, ExporterTyped
<1>4. UNCHANGED folder => FolderTyped'
  BY DEF Typed, FolderTyped, folder
<1>5. UNCHANGED <<returned, swept>> => HistoryTyped'
  BY DEF Typed, HistoryTyped
<1> QED
  BY <1>1, <1>2, <1>3, <1>4, <1>5

\* Captures that nobody makes or changes stay what they are.
LEMMA CapturesStay ==
    ASSUME Inv, \A c \in Calls : shows'[c] \in {shows[c], {}},
           \A c \in Calls : reply'[c] \in {reply[c], {}},
           \A c \in Calls : result'[c] \in {result[c], {}}
    PROVE  CaptureInv'
BY HonestNone DEF Inv, CaptureInv

LEMMA BeginStep ==
    ASSUME Inv, NEW c \in Calls, Begin(c) PROVE Inv'
<1> USE DEF Begin, Go, taken, history, folder, channel, drawing
<1>1. Moves(c, "sweeping") /\ pc' \in [Calls -> Steps]
  BY Moving DEF Inv, Steps, Early
<1>2. Typed'
  <2>1. CallsTyped'
    BY <1>1 DEF Inv, Typed, CallsTyped, VersionsTyped, FolderTyped
  <2> QED
    BY <2>1, ChangedData DEF Inv, Typed
<1>3. CaptureInv'
  BY CapturesStay
<1>4. CopyInv'
  BY <1>1 DEF Inv, CopyInv, Moves
<1>5. PackageInv'
  <2>1. \A d \in Calls : bound'[d].manifest <= manifest
    BY EvidenceAssumption DEF Inv, Typed, CallsTyped, VersionsTyped, PackageInv
  <2>2. \A d \in returned : pc'[d] \in Late
    BY <1>1 DEF Inv, PackageInv, Moves, Typed, HistoryTyped, Late
  <2>3. ASSUME NEW p \in packages PROVE Sound(p)'
    <3>1. Sound(p) /\ p.call # c
      BY DEF Inv, PackageInv, Sound, Late
    <3>2. pc'[p.call] = pc[p.call] /\ bound'[p.call] = bound[p.call]
      BY <3>1, <1>1 DEF Moves, Sound, Inv, Typed, CallsTyped
    <3> QED
      BY <3>1, <3>2 DEF Sound
  <2> QED
    BY <2>1, <2>2, <2>3 DEF PackageInv
<1>6. SweepInv' /\ ExporterInv' /\ AnswerInv'
  BY <1>1, FoldersStay DEF Moves, Early, Sweeping, Holding
<1> QED
  BY <1>2, <1>3, <1>4, <1>5, <1>6 DEF Inv

LEMMA ConsiderStep ==
    ASSUME Inv, NEW c \in Calls, Consider(c) PROVE Inv'
<1> USE DEF Consider, taken, history, folder, channel, drawing
<1>1. PICK d \in todo[c] :
        /\ todo' = [todo EXCEPT ![c] = @ \ {d}]
        /\ \/ /\ target' = [target EXCEPT ![c] = {d}]
              /\ pc' = [pc EXCEPT ![c] = "claiming"]
           \/ UNCHANGED <<target, pc>>
  BY DEF Consider
<1>2. d \in Calls /\ target \in [Calls -> SUBSET Calls] /\ todo \in [Calls -> SUBSET Calls]
  BY DEF Inv, Typed, CallsTyped
<1>3. pc' = pc \/ (Moves(c, "claiming") /\ pc' \in [Calls -> Steps])
  BY <1>1, Moving DEF Inv, Steps, Early, Sweeping
<1>4. Typed'
  <2>1. todo' \in [Calls -> SUBSET Calls] /\ target' \in [Calls -> SUBSET Calls]
    BY <1>1, <1>2
  <2>2. CallsTyped'
    BY <2>1, <1>3 DEF Inv, Typed, CallsTyped
  <2> QED
    BY <2>2, ChangedData DEF Inv, Typed
<1>5. CaptureInv'
  BY CapturesStay
<1>6. CopyInv' /\ PackageInv'
  <2>1. manifest \in Nat
    BY EvidenceAssumption DEF Inv, Typed, VersionsTyped
  <2>2. copied[c] = {}
    BY DEF Inv, CopyInv
  <2> QED
    BY <1>3, <2>1, <2>2, PackagesStay DEF Moves, Late
<1>7. SweepInv' /\ ExporterInv' /\ AnswerInv'
  <2>1. CASE UNCHANGED <<target, pc>>
    <3>1. target[c] = {}
      BY DEF Inv, SweepInv, Sweeping, Holding
    <3> QED
      BY <2>1, FoldersStay
  <2>2. CASE target' = [target EXCEPT ![c] = {d}] /\ pc' = [pc EXCEPT ![c] = "claiming"]
    <3>1. Moves(c, "claiming")
      BY <2>2, Moving DEF Inv, Steps, Early, Sweeping
    <3>2. target'[c] = {d} /\ \A t \in Calls \ {c} : target'[t] = target[t]
      BY <2>2, <1>2
    <3>3. \A t \in Calls \ {c} : \A e \in target[t] : pc[t] = "claimed" => lease[e] = "claimed"
      BY DEF Inv, SweepInv
    <3> HIDE DEF Consider
    <3> QED
      BY <3>1, <3>2, <3>3, <1>2, SweeperStays DEF Sweeping, Holding, Consider
  <2> QED
    BY <1>1, <2>1, <2>2
<1> QED
  BY <1>4, <1>5, <1>6, <1>7 DEF Inv

\* A sweeper that gives up.
Leaves(c) ==
    /\ Moves(c, "sweeping")
    /\ target' = [target EXCEPT ![c] = {}]
    /\ listing' = [listing EXCEPT ![c] = {}]

LEMMA GivingUp ==
    ASSUME Inv, NEW c \in Calls, GiveUp(c)
    PROVE  /\ Leaves(c) /\ pc' \in [Calls -> Steps]
           /\ target' \in [Calls -> SUBSET Calls]
           /\ listing' \in [Calls -> SUBSET (Kinds \cup {Lease})]
           /\ target'[c] = {} /\ \A t \in Calls \ {c} : target'[t] = target[t]
<1>1. Moves(c, "sweeping") /\ pc' \in [Calls -> Steps]
  BY Moving DEF GiveUp, Inv, Steps, Early
<1> QED
  BY <1>1 DEF GiveUp, Leaves, Inv, Typed, CallsTyped

\* A call that sweeps has nothing copied and no package.
LEMMA SweepersHavePackedNothing ==
    ASSUME Inv, NEW c \in Calls, pc[c] \in Sweeping,
           UNCHANGED <<manifest, bound, reply, copied, packages, returned>>,
           NEW to \in Sweeping \cup {"sweeping"}, Moves(c, to)
    PROVE  CopyInv' /\ PackageInv'
<1>1. manifest \in Nat
  BY EvidenceAssumption DEF Inv, Typed, VersionsTyped
<1>2. copied[c] = {}
  BY DEF Inv, CopyInv, Sweeping, Holding
<1> QED
  BY <1>1, <1>2, PackagesStay DEF Moves, Late, Holding, Sweeping

\* The claims of others.
LEMMA OtherClaims ==
    ASSUME Inv, NEW c \in Calls
    PROVE  \A t \in Calls \ {c} : \A e \in target[t] :
             pc[t] = "claimed" => /\ lease[e] = "claimed"
                                  /\ ~(pc[c] = "claimed" /\ e \in target[c])
BY DEF Inv, SweepInv

LEMMA ClaimStep ==
    ASSUME Inv, NEW c \in Calls, Claim(c) PROVE Inv'
<1> USE DEF taken, history, folder, channel, drawing
<1>1. PICK d \in target[c] :
        /\ pc[c] = "claiming"
        /\ \/ /\ d \in dir /\ ~Open(d)
              /\ pc' = [pc EXCEPT ![c] = "claimed"]
              /\ lease' = [lease EXCEPT ![d] = "claimed"]
              /\ aged' \in {aged, aged \ {d}}
              /\ swept' = swept \cup {d}
              /\ UNCHANGED <<target, listing>>
           \/ GiveUp(c) /\ UNCHANGED <<lease, aged, swept>>
        /\ UNCHANGED <<manifest, drawing, bound, todo, taken, channel, exporter, dir, files,
                       shows, events, packages, returned>>
  BY DEF Claim, Renew
<1>2. /\ d \in Calls /\ target \in [Calls -> SUBSET Calls]
      /\ listing \in [Calls -> SUBSET (Kinds \cup {Lease})]
      /\ lease \in [Calls -> {"none", "exporter", "claimed", "left"}]
      /\ files \in [Calls -> SUBSET Kinds] /\ shows \in [Calls -> Outcomes]
  BY DEF Inv, Typed, CallsTyped, FolderTyped
<1>3. CASE GiveUp(c) /\ UNCHANGED <<lease, aged, swept>>
  <2>1. /\ Leaves(c) /\ pc' \in [Calls -> Steps] /\ target' \in [Calls -> SUBSET Calls]
        /\ listing' \in [Calls -> SUBSET (Kinds \cup {Lease})]
        /\ target'[c] = {} /\ \A t \in Calls \ {c} : target'[t] = target[t]
    BY <1>3, GivingUp
  <2>2. CallsTyped'
    BY <1>1, <2>1 DEF Inv, Typed, CallsTyped
  <2>3. Typed'
    BY <1>1, <1>3, <2>2, ChangedData DEF Inv, Typed
  <2>4. CaptureInv'
    BY <1>1, CapturesStay
  <2>5. CopyInv' /\ PackageInv'
    BY <1>1, <2>1, SweepersHavePackedNothing DEF Leaves, Sweeping
  <2>6. SweepInv' /\ ExporterInv' /\ AnswerInv'
    BY <1>1, <1>3, <2>1, OtherClaims, SweeperStays DEF Leaves, Sweeping, Holding
  <2> QED
    BY <2>3, <2>4, <2>5, <2>6 DEF Inv
<1>4. CASE /\ d \in dir /\ ~Open(d)
           /\ pc' = [pc EXCEPT ![c] = "claimed"]
           /\ lease' = [lease EXCEPT ![d] = "claimed"]
           /\ aged' \in {aged, aged \ {d}}
           /\ swept' = swept \cup {d}
           /\ UNCHANGED <<target, listing>>
  <2>1. Moves(c, "claimed") /\ pc' \in [Calls -> Steps]
    BY <1>4, Moving DEF Inv, Steps, Early, Sweeping, Holding
  <2>2. CallsTyped' /\ HistoryTyped'
    BY <1>1, <1>2, <1>4, <2>1 DEF Inv, Typed, CallsTyped, HistoryTyped
  <2>3. FolderTyped'
    BY <1>1, <1>2, <1>4 DEF Inv, Typed, FolderTyped
  <2>4. Typed'
    BY <1>1, <2>2, <2>3, ChangedData DEF Inv, Typed
  <2>5. CaptureInv'
    BY <1>1, CapturesStay
  <2>6. CopyInv' /\ PackageInv'
    BY <1>1, <2>1, SweepersHavePackedNothing DEF Sweeping, Holding
  <2>7. SweepInv' /\ ExporterInv' /\ AnswerInv'
    <3>1. target[c] = {d}
      BY <1>1 DEF Inv, SweepInv
    <3>2. lease[d] \notin {"exporter", "claimed"}
      BY <1>4 DEF Open
    <3>3. lease'[d] = "claimed" /\ \A e \in Calls \ {d} : lease'[e] = lease[e]
      BY <1>2, <1>4
    <3>4. ASSUME NEW t \in Calls \ {c}, NEW e \in target[t], pc[t] = "claimed"
          PROVE  lease'[e] = "claimed" /\ ~(e \in target[c])
      <4>1. lease[e] = "claimed" /\ e \in Calls
        BY <1>2, <3>4, OtherClaims
      <4> QED
        BY <3>1, <3>2, <3>3, <4>1
    <3>5. \A e \in Calls : lease[e] = "exporter" => lease'[e] = "exporter" /\ e # d
      BY <3>2, <3>3
    <3> QED
      BY <1>1, <1>2, <1>4, <2>1, <3>1, <3>3, <3>4, <3>5, SweeperStays
         DEF Sweeping, Holding
  <2> QED
    BY <2>4, <2>5, <2>6, <2>7 DEF Inv
<1> QED
  BY <1>1, <1>3, <1>4

\* What a sweeper past the claim may take for granted.
LEMMA Holder ==
    ASSUME Inv, NEW c \in Calls, NEW d \in target[c], pc[c] \in Holding
    PROVE  /\ d \in Calls /\ d \in swept /\ target[c] = {d} /\ ~Quiet(d)
           /\ pc[c] = "claimed" => lease[d] = "claimed"
BY DEF Inv, SweepInv, Typed, CallsTyped, Quiet, Holding

LEMMA CloseClaimStep ==
    ASSUME Inv, NEW c \in Calls, CloseClaim(c) PROVE Inv'
<1> USE DEF taken, history, folder, channel, drawing, sweep
<1>1. PICK d \in target[c] :
        /\ pc[c] = "claimed" /\ pc' = [pc EXCEPT ![c] = "closed"]
        /\ lease' = [lease EXCEPT ![d] = "left"]
        /\ UNCHANGED <<manifest, drawing, bound, sweep, taken, channel, exporter, dir, files,
                       shows, aged, events, history>>
  BY DEF CloseClaim, Go
<1>2. /\ d \in Calls /\ target \in [Calls -> SUBSET Calls]
      /\ listing \in [Calls -> SUBSET (Kinds \cup {Lease})]
      /\ lease \in [Calls -> {"none", "exporter", "claimed", "left"}]
      /\ files \in [Calls -> SUBSET Kinds] /\ shows \in [Calls -> Outcomes]
  BY DEF Inv, Typed, CallsTyped, FolderTyped
<1>3. Moves(c, "closed") /\ pc' \in [Calls -> Steps]
  BY <1>1, Moving DEF Inv, Steps, Early, Sweeping, Holding
<1>4. CallsTyped' /\ FolderTyped'
  BY <1>1, <1>2, <1>3 DEF Inv, Typed, CallsTyped, FolderTyped
<1>5. Typed'
  BY <1>1, <1>4, ChangedData DEF Inv, Typed
<1>6. CaptureInv'
  BY <1>1, CapturesStay
<1>7. CopyInv' /\ PackageInv'
  BY <1>1, <1>3, SweepersHavePackedNothing DEF Sweeping, Holding
<1>8. SweepInv' /\ ExporterInv' /\ AnswerInv'
  <2>1. d \in swept /\ target[c] = {d} /\ lease[d] = "claimed" /\ ~Quiet(d)
    BY <1>1, Holder DEF Holding
  <2>2. lease'[d] = "left" /\ \A e \in Calls \ {d} : lease'[e] = lease[e]
    BY <1>1, <1>2
  <2>3. ASSUME NEW t \in Calls \ {c}, NEW e \in target[t], pc[t] = "claimed"
        PROVE  lease'[e] = "claimed"
    <3>1. lease[e] = "claimed" /\ e \in Calls /\ e # d
      BY <1>1, <1>2, <2>1, <2>3, OtherClaims
    <3> QED
      BY <2>2, <3>1
  <2> QED
    BY <1>1, <1>2, <1>3, <2>1, <2>2, <2>3, SweeperStays DEF Sweeping, Holding
<1> QED
  BY <1>5, <1>6, <1>7, <1>8 DEF Inv

LEMMA UnlinkClaimStep ==
    ASSUME Inv, NEW c \in Calls, UnlinkClaim(c) PROVE Inv'
<1> USE DEF taken, history, folder, channel, drawing
<1>1. PICK d \in target[c] :
        /\ pc[c] = "closed"
        /\ \/ GiveUp(c) /\ UNCHANGED <<lease, aged>>
           \/ /\ ~Open(d)
              /\ pc' = [pc EXCEPT ![c] = "unlinked"]
              /\ lease' = [lease EXCEPT ![d] = "none"]
              /\ aged' = aged \ {d}
              /\ UNCHANGED <<target, listing>>
        /\ UNCHANGED <<manifest, drawing, bound, todo, taken, channel, exporter, dir, files,
                       shows, events, history>>
  BY DEF UnlinkClaim, Renew
<1>2. /\ d \in Calls /\ target \in [Calls -> SUBSET Calls]
      /\ listing \in [Calls -> SUBSET (Kinds \cup {Lease})]
      /\ lease \in [Calls -> {"none", "exporter", "claimed", "left"}]
      /\ files \in [Calls -> SUBSET Kinds] /\ shows \in [Calls -> Outcomes]
  BY DEF Inv, Typed, CallsTyped, FolderTyped
<1>3. CASE GiveUp(c) /\ UNCHANGED <<lease, aged>>
  <2>1. /\ Leaves(c) /\ pc' \in [Calls -> Steps] /\ target' \in [Calls -> SUBSET Calls]
        /\ listing' \in [Calls -> SUBSET (Kinds \cup {Lease})]
        /\ target'[c] = {} /\ \A t \in Calls \ {c} : target'[t] = target[t]
    BY <1>3, GivingUp
  <2>2. CallsTyped'
    BY <1>1, <2>1 DEF Inv, Typed, CallsTyped
  <2>3. Typed'
    BY <1>1, <1>3, <2>2, ChangedData DEF Inv, Typed
  <2>4. CaptureInv'
    BY <1>1, CapturesStay
  <2>5. CopyInv' /\ PackageInv'
    BY <1>1, <2>1, SweepersHavePackedNothing DEF Leaves, Sweeping, Holding
  <2>6. SweepInv' /\ ExporterInv' /\ AnswerInv'
    BY <1>1, <1>3, <2>1, OtherClaims, SweeperStays DEF Leaves, Sweeping, Holding
  <2> QED
    BY <2>3, <2>4, <2>5, <2>6 DEF Inv
<1>4. CASE /\ ~Open(d)
           /\ pc' = [pc EXCEPT ![c] = "unlinked"]
           /\ lease' = [lease EXCEPT ![d] = "none"]
           /\ aged' = aged \ {d}
           /\ UNCHANGED <<target, listing>>
  <2>1. Moves(c, "unlinked") /\ pc' \in [Calls -> Steps]
    BY <1>4, Moving DEF Inv, Steps, Early, Sweeping, Holding
  <2>2. CallsTyped' /\ FolderTyped'
    BY <1>1, <1>2, <1>4, <2>1 DEF Inv, Typed, CallsTyped, FolderTyped
  <2>3. Typed'
    BY <1>1, <2>2, ChangedData DEF Inv, Typed
  <2>4. CaptureInv'
    BY <1>1, CapturesStay
  <2>5. CopyInv' /\ PackageInv'
    BY <1>1, <2>1, SweepersHavePackedNothing DEF Sweeping, Holding
  <2>6. SweepInv' /\ ExporterInv' /\ AnswerInv'
    <3>1. d \in swept /\ target[c] = {d} /\ ~Quiet(d)
      BY <1>1, Holder DEF Holding
    <3>2. lease[d] \notin {"exporter", "claimed"}
      BY <1>4 DEF Open
    <3>3. lease'[d] = "none" /\ \A e \in Calls \ {d} : lease'[e] = lease[e]
      BY <1>2, <1>4
    <3>4. ASSUME NEW t \in Calls \ {c}, NEW e \in target[t], pc[t] = "claimed"
          PROVE  lease'[e] = "claimed"
      <4>1. lease[e] = "claimed" /\ e \in Calls
        BY <1>2, <3>4, OtherClaims
      <4> QED
        BY <3>2, <3>3, <4>1
    <3>5. \A e \in Calls : lease[e] = "exporter" => lease'[e] = "exporter"
      BY <3>2, <3>3
    <3> QED
      BY <1>1, <1>2, <1>4, <2>1, <3>1, <3>4, <3>5, SweeperStays DEF Sweeping, Holding
  <2> QED
    BY <2>3, <2>4, <2>5, <2>6 DEF Inv
<1> QED
  BY <1>1, <1>3, <1>4

LEMMA ListStep ==
    ASSUME Inv, NEW c \in Calls, List(c) PROVE Inv'
<1> USE DEF taken, history, folder, channel, drawing
<1>1. PICK d \in target[c] :
        /\ pc[c] = "unlinked"
        /\ \/ /\ pc' = [pc EXCEPT ![c] = "removing"]
              /\ listing' = [listing EXCEPT ![c] = Entries(d)]
              /\ UNCHANGED target
           \/ GiveUp(c)
        /\ UNCHANGED <<manifest, drawing, bound, todo, taken, channel, exporter, folder,
                       events, history>>
  BY DEF List
<1>2. /\ d \in Calls /\ target \in [Calls -> SUBSET Calls]
      /\ listing \in [Calls -> SUBSET (Kinds \cup {Lease})]
      /\ lease \in [Calls -> {"none", "exporter", "claimed", "left"}]
      /\ files \in [Calls -> SUBSET Kinds] /\ shows \in [Calls -> Outcomes]
  BY DEF Inv, Typed, CallsTyped, FolderTyped
<1>3. CASE GiveUp(c)
  <2>1. /\ Leaves(c) /\ pc' \in [Calls -> Steps] /\ target' \in [Calls -> SUBSET Calls]
        /\ listing' \in [Calls -> SUBSET (Kinds \cup {Lease})]
        /\ target'[c] = {} /\ \A t \in Calls \ {c} : target'[t] = target[t]
    BY <1>3, GivingUp
  <2>2. CallsTyped'
    BY <1>1, <2>1 DEF Inv, Typed, CallsTyped
  <2>3. Typed'
    BY <1>1, <1>3, <2>2, ChangedData DEF Inv, Typed
  <2>4. CaptureInv'
    BY <1>1, CapturesStay
  <2>5. CopyInv' /\ PackageInv'
    BY <1>1, <2>1, SweepersHavePackedNothing DEF Leaves, Sweeping, Holding
  <2>6. SweepInv' /\ ExporterInv' /\ AnswerInv'
    BY <1>1, <1>3, <2>1, OtherClaims, SweeperStays DEF Leaves, Sweeping, Holding
  <2> QED
    BY <2>3, <2>4, <2>5, <2>6 DEF Inv
<1>4. CASE /\ pc' = [pc EXCEPT ![c] = "removing"]
           /\ listing' = [listing EXCEPT ![c] = Entries(d)]
           /\ UNCHANGED target
  <2>1. Moves(c, "removing") /\ pc' \in [Calls -> Steps]
    BY <1>4, Moving DEF Inv, Steps, Early, Sweeping, Holding
  <2>2. Entries(d) \subseteq Kinds \cup {Lease}
    BY <1>2 DEF Entries
  <2>3. CallsTyped'
    BY <1>1, <1>2, <1>4, <2>1, <2>2 DEF Inv, Typed, CallsTyped
  <2>4. Typed'
    BY <1>1, <2>3, ChangedData DEF Inv, Typed
  <2>5. CaptureInv'
    BY <1>1, CapturesStay
  <2>6. CopyInv' /\ PackageInv'
    BY <1>1, <2>1, SweepersHavePackedNothing DEF Sweeping, Holding
  <2>7. SweepInv' /\ ExporterInv' /\ AnswerInv'
    <3>1. d \in swept /\ target[c] = {d} /\ ~Quiet(d)
      BY <1>1, Holder DEF Holding
    <3> QED
      BY <1>1, <1>2, <1>4, <2>1, <3>1, OtherClaims, SweeperStays DEF Sweeping, Holding
  <2> QED
    BY <2>4, <2>5, <2>6, <2>7 DEF Inv
<1> QED
  BY <1>1, <1>3, <1>4

LEMMA DeletedEntry ==
    ASSUME Typed, NEW d \in Calls, NEW entry \in Kinds \cup {Lease}, Delete(d, entry),
           dir' = dir, shows' = shows
    PROVE  /\ FolderTyped'
           /\ files'[d] \subseteq files[d] /\ lease'[d] \in {lease[d], "none"}
           /\ lease'[d] # lease[d] => entry = Lease
           /\ \A e \in Calls \ {d} : files'[e] = files[e] /\ lease'[e] = lease[e]
<1>1. /\ dir \subseteq Calls /\ aged \subseteq dir
      /\ files \in [Calls -> SUBSET Kinds] /\ shows \in [Calls -> Outcomes]
      /\ lease \in [Calls -> {"none", "exporter", "claimed", "left"}]
  BY DEF Typed, FolderTyped
<1>2. files' \in [Calls -> SUBSET Kinds] /\ aged' \subseteq dir'
  BY <1>1 DEF Delete, Renew
<1>3. lease' \in [Calls -> {"none", "exporter", "claimed", "left"}]
  BY <1>1 DEF Delete
<1> QED
  BY <1>1, <1>2, <1>3 DEF Delete, FolderTyped

LEMMA RemoveStep ==
    ASSUME Inv, NEW c \in Calls, Remove(c) PROVE Inv'
<1> USE DEF taken, history, folder, channel, drawing
<1>1. PICK d \in target[c], entry \in listing[c] :
        /\ pc[c] = "removing"
        /\ \/ /\ entry = Lease => ~Open(d)
              /\ Delete(d, entry)
              /\ listing' = [listing EXCEPT ![c] = @ \ {entry}]
              /\ UNCHANGED <<pc, target>>
           \/ GiveUp(c) /\ UNCHANGED <<files, lease, aged>>
        /\ UNCHANGED <<manifest, drawing, bound, todo, taken, channel, exporter, dir, shows,
                       events, history>>
  BY DEF Remove
<1>2. /\ d \in Calls /\ target \in [Calls -> SUBSET Calls]
      /\ listing \in [Calls -> SUBSET (Kinds \cup {Lease})]
      /\ lease \in [Calls -> {"none", "exporter", "claimed", "left"}]
      /\ files \in [Calls -> SUBSET Kinds] /\ shows \in [Calls -> Outcomes]
  BY DEF Inv, Typed, CallsTyped, FolderTyped
<1>3. CASE GiveUp(c) /\ UNCHANGED <<files, lease, aged>>
  <2>1. /\ Leaves(c) /\ pc' \in [Calls -> Steps] /\ target' \in [Calls -> SUBSET Calls]
        /\ listing' \in [Calls -> SUBSET (Kinds \cup {Lease})]
        /\ target'[c] = {} /\ \A t \in Calls \ {c} : target'[t] = target[t]
    BY <1>3, GivingUp
  <2>2. CallsTyped'
    BY <1>1, <2>1 DEF Inv, Typed, CallsTyped
  <2>3. Typed'
    BY <1>1, <1>3, <2>2, ChangedData DEF Inv, Typed
  <2>4. CaptureInv'
    BY <1>1, CapturesStay
  <2>5. CopyInv' /\ PackageInv'
    BY <1>1, <2>1, SweepersHavePackedNothing DEF Leaves, Sweeping, Holding
  <2>6. SweepInv' /\ ExporterInv' /\ AnswerInv'
    BY <1>1, <1>3, <2>1, OtherClaims, SweeperStays DEF Leaves, Sweeping, Holding
  <2> QED
    BY <2>3, <2>4, <2>5, <2>6 DEF Inv
<1>4. CASE /\ entry = Lease => ~Open(d)
           /\ Delete(d, entry)
           /\ listing' = [listing EXCEPT ![c] = @ \ {entry}]
           /\ UNCHANGED <<pc, target>>
  <2>1. Moves(c, "removing")
    BY <1>1, <1>4 DEF Moves
  <2>2. entry \in Kinds \cup {Lease}
    BY <1>2
  <2>3. CallsTyped'
    BY <1>1, <1>2, <1>4 DEF Inv, Typed, CallsTyped
  <2>4. /\ FolderTyped'
        /\ files'[d] \subseteq files[d] /\ lease'[d] \in {lease[d], "none"}
        /\ lease'[d] # lease[d] => entry = Lease
        /\ \A e \in Calls \ {d} : files'[e] = files[e] /\ lease'[e] = lease[e]
    BY <1>1, <1>2, <1>4, <2>2, DeletedEntry DEF Inv
  <2>5. Typed'
    BY <1>1, <2>3, <2>4, ChangedData DEF Inv, Typed
  <2>6. CaptureInv'
    BY <1>1, CapturesStay
  <2>7. CopyInv' /\ PackageInv'
    BY <1>1, <2>1, SweepersHavePackedNothing DEF Sweeping, Holding
  <2>8. SweepInv' /\ ExporterInv' /\ AnswerInv'
    <3>1. d \in swept /\ target[c] = {d} /\ ~Quiet(d)
      BY <1>1, Holder DEF Holding
    <3>2. lease[d] \in {"exporter", "claimed"} => lease'[d] = lease[d]
      BY <1>4, <2>4 DEF Open
    <3>3. ASSUME NEW t \in Calls \ {c}, NEW e \in target[t], pc[t] = "claimed"
          PROVE  lease'[e] = "claimed"
      <4>1. lease[e] = "claimed" /\ e \in Calls
        BY <1>2, <3>3, OtherClaims
      <4> QED
        BY <3>2, <2>4, <4>1
    <3>4. \A e \in Calls : lease[e] = "exporter" => lease'[e] = "exporter"
      BY <3>2, <2>4
    <3>5. \A e \in Calls : files'[e] \subseteq files[e]
      BY <2>4
    <3> QED
      BY <1>1, <1>2, <1>4, <2>1, <2>4, <3>1, <3>3, <3>4, <3>5, SweeperStays
         DEF Sweeping, Holding
  <2> QED
    BY <2>5, <2>6, <2>7, <2>8 DEF Inv
<1> QED
  BY <1>1, <1>3, <1>4

LEMMA RemovedFolder ==
    ASSUME Typed, NEW d \in Calls, RemoveFolder(d), files' = files, lease' = lease
    PROVE  /\ FolderTyped' /\ dir' \subseteq dir
           /\ shows'[d] \in {shows[d], {}}
           /\ \A e \in Calls \ {d} : shows'[e] = shows[e] /\ (e \in dir' <=> e \in dir)
<1>1. /\ dir \subseteq Calls /\ aged \subseteq dir
      /\ files \in [Calls -> SUBSET Kinds] /\ shows \in [Calls -> Outcomes]
      /\ lease \in [Calls -> {"none", "exporter", "claimed", "left"}]
  BY DEF Typed, FolderTyped
<1>2. shows' \in [Calls -> Outcomes]
  BY <1>1, NoOutcome DEF RemoveFolder
<1>3. dir' \subseteq dir /\ aged' \subseteq dir'
  BY <1>1 DEF RemoveFolder
<1> QED
  BY <1>1, <1>2, <1>3 DEF RemoveFolder, FolderTyped

LEMMA RemoveSweptStep ==
    ASSUME Inv, NEW c \in Calls, RemoveSwept(c) PROVE Inv'
<1> USE DEF taken, history, folder, channel, drawing
<1>1. PICK d \in target[c] :
        /\ pc[c] = "removing" /\ RemoveFolder(d) /\ GiveUp(c)
        /\ UNCHANGED <<manifest, drawing, bound, todo, taken, channel, exporter, files, lease,
                       events, history>>
  BY DEF RemoveSwept
<1>2. /\ d \in Calls /\ target \in [Calls -> SUBSET Calls]
      /\ listing \in [Calls -> SUBSET (Kinds \cup {Lease})]
      /\ lease \in [Calls -> {"none", "exporter", "claimed", "left"}]
      /\ files \in [Calls -> SUBSET Kinds] /\ shows \in [Calls -> Outcomes]
  BY DEF Inv, Typed, CallsTyped, FolderTyped
<1>3. /\ Leaves(c) /\ pc' \in [Calls -> Steps] /\ target' \in [Calls -> SUBSET Calls]
      /\ listing' \in [Calls -> SUBSET (Kinds \cup {Lease})]
      /\ target'[c] = {} /\ \A t \in Calls \ {c} : target'[t] = target[t]
  BY <1>1, GivingUp
<1>4. /\ FolderTyped' /\ dir' \subseteq dir
      /\ shows'[d] \in {shows[d], {}}
      /\ \A e \in Calls \ {d} : shows'[e] = shows[e] /\ (e \in dir' <=> e \in dir)
  BY <1>1, <1>2, RemovedFolder DEF Inv
<1>5. CallsTyped'
  BY <1>1, <1>3 DEF Inv, Typed, CallsTyped
<1>6. Typed'
  BY <1>1, <1>4, <1>5, ChangedData DEF Inv, Typed
<1>7. CaptureInv'
  <2>1. \A e \in Calls : shows'[e] \in {shows[e], {}}
    BY <1>4
  <2> QED
    BY <1>1, <2>1, CapturesStay
<1>8. CopyInv' /\ PackageInv'
  BY <1>1, <1>3, SweepersHavePackedNothing DEF Leaves, Sweeping, Holding
<1>9. SweepInv' /\ ExporterInv' /\ AnswerInv'
  <2>1. d \in swept /\ target[c] = {d} /\ ~Quiet(d)
    BY <1>1, Holder DEF Holding
  <2> QED
    BY <1>1, <1>2, <1>3, <1>4, <2>1, OtherClaims, SweeperStays DEF Leaves, Sweeping, Holding
<1> QED
  BY <1>6, <1>7, <1>8, <1>9 DEF Inv

-----------------------------------------------------------------------------
(* The call *)

\* A step that moves its call only.
LEMMA MoveTyped ==
    ASSUME Typed, pc' \in [Calls -> Steps],
           UNCHANGED <<manifest, drawing, bound, sweep, taken, channel, exporter, folder,
                       events, returned, swept>>
    PROVE  Typed'
<1>1. CallsTyped'
  BY DEF Typed, CallsTyped, sweep, taken
<1> QED
  BY <1>1, ChangedData DEF Typed

LEMMA DispatchStep ==
    ASSUME Inv, NEW c \in Calls, Dispatch(c) PROVE Inv'
<1> USE DEF taken, history, folder, channel, drawing, sweep
<1>1. /\ pc[c] = "sweeping" /\ target[c] = {}
      /\ UNCHANGED <<manifest, drawing, bound, sweep, taken, result, exporter, folder,
                     events, history>>
      /\ \/ /\ pc' = [pc EXCEPT ![c] = "polling"]
            /\ request' = request \cup {c} /\ commands' = commands + 1
         \/ pc' = [pc EXCEPT ![c] = "done"] /\ UNCHANGED <<request, commands>>
  BY DEF Dispatch
<1>2. (Moves(c, "polling") \/ (Moves(c, "done") /\ request' = request)) /\ pc' \in [Calls -> Steps]
  BY <1>1, Moving DEF Inv, Steps, Late
<1>3. Typed'
  <2>1. CallsTyped' /\ ChannelTyped'
    BY <1>1, <1>2 DEF Inv, Typed, CallsTyped, ChannelTyped
  <2> QED
    BY <1>1, <2>1, ChangedData DEF Inv, Typed
<1>4. CaptureInv'
  BY <1>1, CapturesStay
<1>5. CopyInv' /\ PackageInv'
  <2>1. manifest \in Nat
    BY EvidenceAssumption DEF Inv, Typed, VersionsTyped
  <2>2. copied[c] = {}
    BY <1>1 DEF Inv, CopyInv
  <2> QED
    BY <1>1, <1>2, <2>1, <2>2, PackagesStay DEF Moves, Late
<1>6. SweepInv'
  BY <1>1, <1>2 DEF Inv, SweepInv, Moves, Sweeping, Holding
<1>7. ExporterInv'
  <2>1. \A d \in Calls : Quiet(d) => Quiet(d)'
    BY <1>1, <1>2 DEF Quiet, Moves
  <2> QED
    BY <1>1, <2>1 DEF Inv, ExporterInv, Typed, ExporterTyped
<1>8. AnswerInv'
  BY <1>1, <1>2 DEF Inv, AnswerInv, Moves, Early, Sweeping, Holding
<1> QED
  BY <1>3, <1>4, <1>5, <1>6, <1>7, <1>8 DEF Inv

LEMMA TakeResultStep ==
    ASSUME Inv, NEW c \in Calls, TakeResult(c) PROVE Inv'
<1> USE DEF taken, history, folder, channel, drawing, sweep
<1>1. PICK outcome \in result[c] :
        /\ pc[c] = "polling"
        /\ reply' = [reply EXCEPT ![c] = outcome]
        /\ pc' = [pc EXCEPT ![c] = IF outcome = {} THEN "cleaning" ELSE "answered"]
        /\ UNCHANGED <<manifest, drawing, bound, sweep, copied, channel, exporter, folder,
                       events, history>>
  BY DEF TakeResult
<1>2. (Moves(c, "cleaning") \/ Moves(c, "answered")) /\ pc' \in [Calls -> Steps]
  BY <1>1, Moving DEF Inv, Steps, Late
<1>3. outcome \in Outcomes /\ reply \in [Calls -> Outcomes]
  BY DEF Inv, Typed, ChannelTyped, CallsTyped
<1>4. reply'[c] = outcome /\ \A d \in Calls \ {c} : reply'[d] = reply[d]
  BY <1>1, <1>3
<1>5. Typed'
  <2>1. CallsTyped'
    BY <1>1, <1>2, <1>3 DEF Inv, Typed, CallsTyped
  <2> QED
    BY <1>1, <2>1, ChangedData DEF Inv, Typed
<1>6. CaptureInv'
  BY <1>1, <1>4 DEF Inv, CaptureInv
<1>7. CopyInv'
  <2>1. copied[c] = {}
    BY <1>1 DEF Inv, CopyInv
  <2> QED
    BY <1>1, <1>2, <1>4, <2>1 DEF Inv, CopyInv, Moves
<1>8. PackageInv'
  <2>1. \A d \in returned : pc'[d] \in Late
    BY <1>1, <1>2 DEF Inv, PackageInv, Moves, Typed, HistoryTyped, Late
  <2>2. ASSUME NEW p \in packages PROVE Sound(p)'
    <3>1. Sound(p) /\ p.call # c
      BY <1>1 DEF Inv, PackageInv, Sound, Late
    <3>2. pc'[p.call] = pc[p.call]
      BY <3>1, <1>2 DEF Moves, Sound
    <3> QED
      BY <1>1, <3>1, <3>2 DEF Sound
  <2> QED
    BY <1>1, <2>1, <2>2 DEF Inv, PackageInv
<1>9. SweepInv' /\ ExporterInv' /\ AnswerInv'
  BY <1>1, <1>2, FoldersStay DEF Moves, Early, Sweeping, Holding
<1> QED
  BY <1>5, <1>6, <1>7, <1>8, <1>9 DEF Inv

LEMMA TimeOutStep ==
    ASSUME Inv, NEW c \in Calls, TimeOut(c) PROVE Inv'
<1> USE DEF TimeOut, Go, taken, history, folder, channel, drawing, sweep
<1>1. Moves(c, "cleaning") /\ pc' \in [Calls -> Steps]
  BY Moving DEF Inv, Steps, Late
<1>2. Typed'
  BY <1>1, MoveTyped DEF Inv
<1>3. CaptureInv'
  BY CapturesStay
<1>4. CopyInv' /\ PackageInv'
  <2>1. manifest \in Nat
    BY EvidenceAssumption DEF Inv, Typed, VersionsTyped
  <2> QED
    BY <1>1, <2>1, PackagesStay DEF Moves, Late
<1>5. SweepInv' /\ ExporterInv' /\ AnswerInv'
  BY <1>1, FoldersStay DEF Moves, Early, Sweeping, Holding
<1> QED
  BY <1>2, <1>3, <1>4, <1>5 DEF Inv

\* A call at work on its answer moves on or cleans up; if it moves on, the
\* drawing it was made for is the one reported, and before the rename it has
\* every artifact.
LEMMA Continues ==
    ASSUME Inv, NEW c \in Calls, NEW to \in {"verified", "copying", "checked", "cleaning"},
           pc[c] \in {"answered", "verified", "copying"}, Moves(c, to),
           to # "cleaning" => \A r \in reply[c] : r.disk = bound[c].disk,
           copied[c] # {} => to \in {"copying", "checked", "cleaning"},
           to = "checked" => {a[1] : a \in copied[c]} = Kinds,
           UNCHANGED <<manifest, bound, sweep, taken, request, result, exporter, folder,
                       history>>
    PROVE  /\ CaptureInv' /\ CopyInv' /\ PackageInv'
           /\ SweepInv' /\ ExporterInv' /\ AnswerInv'
<1> USE DEF taken, history, folder, sweep
<1>1. CaptureInv'
  BY CapturesStay
<1>2. CopyInv'
  BY DEF Inv, CopyInv, Moves
<1>3. PackageInv'
  <2>1. \A d \in returned : pc'[d] \in Late
    BY DEF Inv, PackageInv, Moves, Typed, HistoryTyped, Late
  <2>2. ASSUME NEW p \in packages PROVE Sound(p)'
    <3>1. Sound(p) /\ p.call # c
      BY DEF Inv, PackageInv, Sound, Late
    <3>2. pc'[p.call] = pc[p.call]
      BY <3>1 DEF Moves, Sound
    <3> QED
      BY <3>1, <3>2 DEF Sound
  <2> QED
    BY <2>1, <2>2 DEF Inv, PackageInv
<1>4. SweepInv' /\ ExporterInv' /\ AnswerInv'
  BY FoldersStay DEF Moves, Early, Sweeping, Holding
<1> QED
  BY <1>1, <1>2, <1>3, <1>4

LEMMA VerifyStep ==
    ASSUME Inv, NEW c \in Calls, Verify(c) PROVE Inv'
<1>1. /\ pc[c] = "answered"
      /\ \/ /\ pc' = [pc EXCEPT ![c] = "verified"]
            /\ \A r \in reply[c] : r.disk = bound[c].disk
         \/ pc' = [pc EXCEPT ![c] = "cleaning"]
      /\ UNCHANGED <<manifest, drawing, bound, sweep, taken, channel, exporter, folder,
                     events, history>>
  BY DEF Verify, Continue, Go
<1>2. PICK to \in {"verified", "cleaning"} :
        Moves(c, to) /\ (to # "cleaning" => \A r \in reply[c] : r.disk = bound[c].disk)
  BY <1>1, Moving DEF Inv, Steps, Late
<1>3. pc' \in [Calls -> Steps]
  BY <1>1, Moving DEF Inv, Steps, Late
<1>4. \A r \in reply[c] : to # "cleaning" => r.disk = bound[c].disk
  BY <1>1, <1>2 DEF Inv, CopyInv
<1>5. copied[c] # {} => to \in {"copying", "checked", "cleaning"}
  BY <1>1, <1>2 DEF Inv, CopyInv
<1>6. Typed'
  BY <1>1, <1>3, MoveTyped DEF Inv, history
<1> QED
  BY <1>1, <1>2, <1>4, <1>5, <1>6, Continues DEF Inv, history, channel

LEMMA HandoffStep ==
    ASSUME Inv, NEW c \in Calls, Handoff(c) PROVE Inv'
<1>1. /\ pc[c] = "verified"
      /\ \/ /\ pc' = [pc EXCEPT ![c] = "copying"]
            /\ IsCurrent(c)
         \/ pc' = [pc EXCEPT ![c] = "cleaning"]
      /\ UNCHANGED <<manifest, drawing, bound, sweep, taken, channel, exporter, folder,
                     events, history>>
  BY DEF Handoff, Continue, Go
<1>2. PICK to \in {"copying", "cleaning"} :
        Moves(c, to) /\ (to # "cleaning" => IsCurrent(c))
  BY <1>1, Moving DEF Inv, Steps, Late
<1>3. pc' \in [Calls -> Steps]
  BY <1>1, Moving DEF Inv, Steps, Late
<1>4. \A r \in reply[c] : to # "cleaning" => r.disk = bound[c].disk
  BY <1>1, <1>2 DEF Inv, CopyInv
<1>5. copied[c] # {} => to \in {"copying", "checked", "cleaning"}
  BY <1>1, <1>2 DEF Inv, CopyInv
<1>6. Typed'
  BY <1>1, <1>3, MoveTyped DEF Inv, history
<1> QED
  BY <1>1, <1>2, <1>4, <1>5, <1>6, Continues DEF Inv, history, channel

LEMMA CheckPackageStep ==
    ASSUME Inv, NEW c \in Calls, CheckPackage(c) PROVE Inv'
<1>1. /\ pc[c] = "copying"
      /\ \/ /\ pc' = [pc EXCEPT ![c] = "checked"]
            /\ {a[1] : a \in copied[c]} = Kinds
         \/ pc' = [pc EXCEPT ![c] = "cleaning"]
      /\ UNCHANGED <<manifest, drawing, bound, sweep, taken, channel, exporter, folder,
                     events, history>>
  BY DEF CheckPackage, Continue, Go
<1>2. PICK to \in {"checked", "cleaning"} :
        Moves(c, to) /\ (to # "cleaning" => {a[1] : a \in copied[c]} = Kinds)
  BY <1>1, Moving DEF Inv, Steps, Late
<1>3. pc' \in [Calls -> Steps]
  BY <1>1, Moving DEF Inv, Steps, Late
<1>4. \A r \in reply[c] : to # "cleaning" => r.disk = bound[c].disk
  BY <1>1, <1>2 DEF Inv, CopyInv
<1>5. copied[c] # {} => to \in {"copying", "checked", "cleaning"}
  BY <1>1, <1>2 DEF Inv, CopyInv
<1>6. Typed'
  BY <1>1, <1>3, MoveTyped DEF Inv, history
<1> QED
  BY <1>1, <1>2, <1>4, <1>5, <1>6, Continues DEF Inv, history, channel

LEMMA CopyStep ==
    ASSUME Inv, NEW c \in Calls, Copy(c) PROVE Inv'
<1> USE DEF taken, history, folder, channel, drawing, sweep
<1>1. PICK k \in Kinds, r \in reply[c] :
        /\ pc[c] = "copying"
        /\ \/ copied' = [copied EXCEPT ![c] = @ \cup {<<k, r.memory>>}] /\ UNCHANGED pc
           \/ pc' = [pc EXCEPT ![c] = "cleaning"] /\ UNCHANGED copied
        /\ UNCHANGED <<manifest, drawing, bound, sweep, reply, channel, exporter, folder,
                       events, history>>
  BY DEF Copy
<1>2. CASE pc' = [pc EXCEPT ![c] = "cleaning"] /\ UNCHANGED copied
  <2>1. Moves(c, "cleaning") /\ pc' \in [Calls -> Steps]
    BY <1>2, Moving DEF Inv, Steps, Late
  <2>2. Typed'
    BY <1>1, <1>2, <2>1, MoveTyped DEF Inv
  <2> QED
    BY <1>1, <1>2, <2>1, <2>2, Continues DEF Inv
<1>3. CASE copied' = [copied EXCEPT ![c] = @ \cup {<<k, r.memory>>}] /\ UNCHANGED pc
  <2>1. reply[c] \in Outcomes /\ copied \in [Calls -> SUBSET (Kinds \X Nat)]
    BY DEF Inv, Typed, CallsTyped
  <2>2. r.memory \in Nat
    BY <2>1, OutcomeFields, EvidenceAssumption
  <2>3. <<k, r.memory>> \in Kinds \X Nat
    BY <2>2
  <2>4. /\ copied' \in [Calls -> SUBSET (Kinds \X Nat)]
        /\ copied'[c] = copied[c] \cup {<<k, r.memory>>}
        /\ \A d \in Calls \ {c} : copied'[d] = copied[d]
    BY <1>3, <2>1, <2>3
  <2>5. Typed'
    <3>1. CallsTyped'
      BY <1>1, <1>3, <2>4 DEF Inv, Typed, CallsTyped
    <3> QED
      BY <1>1, <3>1, ChangedData DEF Inv, Typed
  <2>6. CaptureInv'
    BY <1>1, CapturesStay
  <2>7. CopyInv'
    <3>1. \A q \in reply[c] : q.memory = r.memory
      BY DEF Inv, CaptureInv, Honest
    <3>2. ASSUME NEW a \in copied'[c]
          PROVE  a[1] \in Kinds /\ \A q \in reply[c] : a[2] = q.memory
      <4>1. CASE a \in copied[c]
        BY <4>1 DEF Inv, CopyInv
      <4>2. CASE a = <<k, r.memory>>
        BY <3>1, <4>2
      <4> QED
        BY <3>2, <2>4, <4>1, <4>2
    <3>3. \A d \in Calls \ {c} : \A a \in copied'[d] :
            a[1] \in Kinds /\ \A q \in reply[d] : a[2] = q.memory
      BY <2>4 DEF Inv, CopyInv
    <3>4. \A d \in Calls : copied'[d] # {} =>
            pc[d] \in {"copying", "checked", "promoted", "cleaning"}
      BY <1>1, <2>4 DEF Inv, CopyInv
    <3>5. \A d \in Calls : pc[d] = "checked" => {a[1] : a \in copied'[d]} = Kinds
      BY <1>1, <2>4 DEF Inv, CopyInv
    <3>6. \A d \in Calls : pc[d] \in {"verified", "copying", "checked"} =>
            \A q \in reply[d] : q.disk = bound[d].disk
      BY DEF Inv, CopyInv
    <3> QED
      BY <1>1, <1>3, <3>2, <3>3, <3>4, <3>5, <3>6 DEF CopyInv
  <2>8. PackageInv'
    BY <1>1, <1>3 DEF Inv, PackageInv, Sound
  <2>9. SweepInv' /\ ExporterInv' /\ AnswerInv'
    BY <1>1, <1>3, FoldersStay
  <2> QED
    BY <2>5, <2>6, <2>7, <2>8, <2>9 DEF Inv
<1> QED
  BY <1>1, <1>2, <1>3

\* What is promoted shows one capture, whole.
LEMMA WhatIsCopiedIsWhole ==
    ASSUME Inv, NEW c \in Calls, pc[c] = "checked", NEW r \in reply[c]
    PROVE  {a[2] : a \in copied[c]} = {r.memory}
<1>1. {a[1] : a \in copied[c]} = Kinds
  BY DEF Inv, CopyInv
<1>2. PICK a \in copied[c] : TRUE
  BY <1>1, EvidenceAssumption
<1>3. \A b \in copied[c] : b[2] = r.memory
  BY DEF Inv, CopyInv
<1> QED
  BY <1>2, <1>3

LEMMA PromoteStep ==
    ASSUME Inv, NEW c \in Calls, Promote(c) PROVE Inv'
<1> USE DEF taken, history, folder, channel, drawing, sweep
<1>1. PICK r \in reply[c] :
        /\ pc[c] = "checked" /\ pc' = [pc EXCEPT ![c] = "promoted"]
        /\ packages' = packages \cup
             {[call |-> c, shown |-> {a[2] : a \in copied[c]}, asked |-> bound[c].disk,
               disk |-> r.disk, clean |-> r.clean, manifest |-> bound[c].manifest,
               at |-> manifest]}
        /\ UNCHANGED <<manifest, drawing, bound, sweep, taken, channel, exporter, folder,
                       events, returned, swept>>
  BY DEF Promote, Go
<1>2. Moves(c, "promoted") /\ pc' \in [Calls -> Steps]
  BY <1>1, Moving DEF Inv, Steps
<1>3. Typed'
  BY <1>1, <1>2, MoveTyped DEF Inv
<1>4. CaptureInv'
  BY <1>1, CapturesStay
<1>5. CopyInv'
  BY <1>1, <1>2 DEF Inv, CopyInv, Moves
<1>6. PackageInv'
  <2>1. c \notin returned /\ \A d \in returned : pc'[d] \in Late
    BY <1>1, <1>2 DEF Inv, PackageInv, Moves, Typed, HistoryTyped, Late
  <2>2. ASSUME NEW p \in packages PROVE Sound(p)'
    <3>1. Sound(p) /\ p.call # c
      BY <1>1 DEF Inv, PackageInv, Sound, Late
    <3>2. pc'[p.call] = pc[p.call]
      BY <3>1, <1>2 DEF Moves, Sound
    <3> QED
      BY <1>1, <3>1, <3>2 DEF Sound
  <2>3. /\ bound[c].manifest \in Nat /\ bound[c].disk \in Nat /\ manifest \in Nat
        /\ bound[c].manifest <= manifest
    BY EvidenceAssumption DEF Inv, Typed, VersionsTyped, CallsTyped, PackageInv
  <2>4. r.disk = bound[c].disk /\ (r.clean => r.memory = r.disk)
    BY <1>1 DEF Inv, CopyInv, CaptureInv, Honest
  <2>5. {a[2] : a \in copied[c]} = {r.memory}
    BY <1>1, WhatIsCopiedIsWhole
  <2>6. ASSUME NEW p,
               p = [call |-> c, shown |-> {a[2] : a \in copied[c]}, asked |-> bound[c].disk,
                    disk |-> r.disk, clean |-> r.clean, manifest |-> bound[c].manifest,
                    at |-> manifest]
        PROVE  Sound(p)'
    <3>1. /\ p.call = c /\ p.asked = bound[c].disk /\ p.disk = r.disk /\ p.clean = r.clean
          /\ p.manifest = bound[c].manifest /\ p.at = manifest /\ p.shown = {r.memory}
      BY <2>5, <2>6
    <3>2. \E m \in p.shown : p.shown = {m} /\ (p.clean => m = p.disk)
      BY <2>4, <3>1
    <3>3. pc'[p.call] = "promoted"
      BY <1>2, <3>1 DEF Moves
    <3> QED
      BY <1>1, <2>1, <2>3, <2>4, <3>1, <3>2, <3>3 DEF Sound
  <2>7. \A p \in packages' : Sound(p)'
    BY <1>1, <2>2, <2>6
  <2> QED
    BY <1>1, <2>1, <2>7 DEF Inv, PackageInv
<1>7. SweepInv' /\ ExporterInv' /\ AnswerInv'
  BY <1>1, <1>2, FoldersStay DEF Moves, Early, Sweeping, Holding
<1> QED
  BY <1>3, <1>4, <1>5, <1>6, <1>7 DEF Inv

LEMMA ConfirmStep ==
    ASSUME Inv, NEW c \in Calls, Confirm(c) PROVE Inv'
<1> USE DEF taken, history, folder, channel, drawing, sweep
<1>1. /\ pc[c] = "promoted" /\ pc' = [pc EXCEPT ![c] = "cleaning"]
      /\ \/ manifest = bound[c].manifest /\ returned' = returned \cup {c}
         \/ returned' = returned
      /\ UNCHANGED <<manifest, drawing, bound, sweep, taken, channel, exporter, folder,
                     events, packages, swept>>
  BY DEF Confirm, Go, IsCurrent
<1>2. Moves(c, "cleaning") /\ pc' \in [Calls -> Steps]
  BY <1>1, Moving DEF Inv, Steps, Late
<1>3. Typed'
  <2>1. CallsTyped' /\ HistoryTyped'
    BY <1>1, <1>2 DEF Inv, Typed, CallsTyped, HistoryTyped
  <2> QED
    BY <1>1, <2>1, ChangedData DEF Inv, Typed
<1>4. CaptureInv'
  BY <1>1, CapturesStay
<1>5. CopyInv'
  BY <1>1, <1>2 DEF Inv, CopyInv, Moves
<1>6. PackageInv'
  <2>1. \A d \in returned' : pc'[d] \in Late
    BY <1>1, <1>2 DEF Inv, PackageInv, Moves, Typed, HistoryTyped, Late
  <2>2. ASSUME NEW p \in packages PROVE Sound(p)'
    <3>1. Sound(p) /\ manifest \in Nat
      BY EvidenceAssumption DEF Inv, PackageInv, Typed, VersionsTyped
    <3>2. /\ pc'[p.call] \in Late \cup {"promoted"}
          /\ pc'[p.call] = "promoted" => p.manifest = bound[p.call].manifest
      BY <3>1, <1>1, <1>2 DEF Moves, Sound, Late
    <3>3. p.call \in returned' => p.at = p.manifest
      <4>1. CASE p.call = c /\ manifest = bound[c].manifest
        BY <3>1, <4>1, <1>1 DEF Sound
      <4>2. CASE p.call # c \/ returned' = returned
        BY <3>1, <4>2, <1>1 DEF Sound
      <4> QED
        BY <1>1, <4>1, <4>2
    <3> QED
      BY <1>1, <3>1, <3>2, <3>3 DEF Sound, Late
  <2> QED
    BY <1>1, <2>1, <2>2 DEF Inv, PackageInv
<1>7. SweepInv' /\ ExporterInv' /\ AnswerInv'
  BY <1>1, <1>2, FoldersStay DEF Moves, Early, Sweeping, Holding
<1> QED
  BY <1>3, <1>4, <1>5, <1>6, <1>7 DEF Inv

LEMMA CleanRequestStep ==
    ASSUME Inv, NEW c \in Calls, CleanRequest(c) PROVE Inv'
<1> USE DEF taken, history, folder, channel, drawing, sweep
<1>1. /\ pc[c] = "cleaning" /\ pc' = [pc EXCEPT ![c] = "tidying"]
      /\ request' = request \ {c} /\ result' = [result EXCEPT ![c] = {}]
      /\ reply' = [reply EXCEPT ![c] = {}] /\ copied' = [copied EXCEPT ![c] = {}]
      /\ bound' = [bound EXCEPT ![c] = Unbound]
      /\ UNCHANGED <<manifest, drawing, sweep, commands, exporter, folder, events, history>>
  BY DEF CleanRequest, Go
<1>2. Moves(c, "tidying") /\ pc' \in [Calls -> Steps]
  BY <1>1, Moving DEF Inv, Steps, Late
<1>3. /\ result \in [Calls -> SUBSET Outcomes] /\ reply \in [Calls -> Outcomes]
      /\ copied \in [Calls -> SUBSET (Kinds \X Nat)]
      /\ bound \in [Calls -> [manifest : 0..MaxEvents, disk : 0..MaxEvents]]
      /\ Unbound \in [manifest : 0..MaxEvents, disk : 0..MaxEvents]
  BY EvidenceAssumption DEF Inv, Typed, ChannelTyped, CallsTyped, Unbound
<1>4. /\ reply'[c] = {} /\ copied'[c] = {} /\ result'[c] = {} /\ bound'[c].manifest = 0
      /\ \A d \in Calls \ {c} : /\ reply'[d] = reply[d] /\ copied'[d] = copied[d]
                                /\ result'[d] = result[d] /\ bound'[d] = bound[d]
  BY <1>1, <1>3 DEF Unbound
<1>5. Typed'
  <2>1. CallsTyped' /\ ChannelTyped'
    BY <1>1, <1>2, <1>3, NoOutcome DEF Inv, Typed, CallsTyped, ChannelTyped
  <2> QED
    BY <1>1, <2>1, ChangedData DEF Inv, Typed
<1>6. CaptureInv'
  <2>1. \A d \in Calls : reply'[d] \in {reply[d], {}} /\ result'[d] \in {result[d], {}}
    BY <1>4
  <2> QED
    BY <1>1, <2>1, CapturesStay
<1>7. CopyInv'
  BY <1>2, <1>4 DEF Inv, CopyInv, Moves
<1>8. PackageInv'
  <2>1. \A d \in returned : pc'[d] \in Late
    BY <1>1, <1>2 DEF Inv, PackageInv, Moves, Typed, HistoryTyped, Late
  <2>2. ASSUME NEW p \in packages PROVE Sound(p)'
    <3>1. Sound(p)
      BY DEF Inv, PackageInv
    <3>2. /\ pc'[p.call] \in Late \cup {"promoted"}
          /\ pc'[p.call] = "promoted" => p.manifest = bound'[p.call].manifest
      BY <3>1, <1>1, <1>2, <1>4 DEF Moves, Sound, Late
    <3> QED
      BY <1>1, <3>1, <3>2 DEF Sound
  <2>3. \A d \in Calls : bound'[d].manifest <= manifest
    <3>1. 0 <= manifest
      BY EvidenceAssumption DEF Inv, Typed, VersionsTyped
    <3> QED
      BY <3>1, <1>4 DEF Inv, PackageInv
  <2> QED
    BY <1>1, <2>1, <2>2, <2>3 DEF PackageInv
<1>9. SweepInv' /\ ExporterInv' /\ AnswerInv'
  <2>1. \A d \in Calls : result'[d] \in {result[d], {}}
    BY <1>4
  <2> QED
    BY <1>1, <1>2, <2>1, FoldersStay DEF Moves, Early, Sweeping, Holding
<1> QED
  BY <1>5, <1>6, <1>7, <1>8, <1>9 DEF Inv

LEMMA TidyLeaseStep ==
    ASSUME Inv, NEW c \in Calls, TidyLease(c) PROVE Inv'
<1> USE DEF taken, history, folder, channel, drawing, sweep
<1>1. /\ pc[c] = "tidying"
      /\ pc' = [pc EXCEPT ![c] = IF c \in dir /\ lease[c] = "none" THEN "free" ELSE "done"]
      /\ UNCHANGED <<manifest, drawing, bound, sweep, taken, channel, exporter, folder,
                     events, history>>
  BY DEF TidyLease, Go
<1>2. PICK to \in {"free", "done"} : Moves(c, to) /\ (to = "free" => lease[c] = "none")
  BY <1>1, Moving DEF Inv, Steps, Late
<1>3. pc' \in [Calls -> Steps]
  BY <1>1, Moving DEF Inv, Steps, Late
<1>4. Typed'
  BY <1>1, <1>3, MoveTyped DEF Inv
<1>5. CaptureInv'
  BY <1>1, CapturesStay
<1>6. CopyInv' /\ PackageInv'
  <2>1. manifest \in Nat
    BY EvidenceAssumption DEF Inv, Typed, VersionsTyped
  <2>2. copied[c] = {}
    BY <1>1 DEF Inv, CopyInv
  <2> QED
    BY <1>1, <1>2, <2>1, <2>2, PackagesStay DEF Moves, Late
<1>7. SweepInv'
  BY <1>1, <1>2 DEF Inv, SweepInv, Moves, Sweeping, Holding
<1>8. ExporterInv'
  <2>1. \A d \in Calls : Quiet(d) /\ lease[d] = "exporter" => Quiet(d)'
    BY <1>1, <1>2 DEF Quiet, Moves
  <2> QED
    BY <1>1, <2>1 DEF Inv, ExporterInv, Typed, ExporterTyped
<1>9. AnswerInv'
  BY <1>1, <1>2 DEF Inv, AnswerInv, Moves, Early, Sweeping, Holding
<1> QED
  BY <1>4, <1>5, <1>6, <1>7, <1>8, <1>9 DEF Inv

LEMMA TidyListStep ==
    ASSUME Inv, NEW c \in Calls, TidyList(c) PROVE Inv'
<1> USE DEF taken, history, folder, channel, drawing
<1>1. /\ pc[c] = "free"
      /\ pc' = [pc EXCEPT ![c] = IF c \in dir THEN "emptying" ELSE "done"]
      /\ listing' = [listing EXCEPT ![c] = IF c \in dir THEN Entries(c) ELSE {}]
      /\ UNCHANGED <<manifest, drawing, bound, todo, target, taken, channel, exporter,
                     folder, events, history>>
  BY DEF TidyList, Go
<1>2. PICK to \in {"emptying", "done"} : Moves(c, to) /\ pc' \in [Calls -> Steps]
  BY <1>1, Moving DEF Inv, Steps, Late
<1>3. Typed'
  <2>1. Entries(c) \subseteq Kinds \cup {Lease}
    BY DEF Entries, Inv, Typed, FolderTyped
  <2>2. CallsTyped'
    BY <1>1, <1>2, <2>1 DEF Inv, Typed, CallsTyped
  <2> QED
    BY <1>1, <2>2, ChangedData DEF Inv, Typed
<1>4. CaptureInv'
  BY <1>1, CapturesStay
<1>5. CopyInv' /\ PackageInv'
  <2>1. manifest \in Nat
    BY EvidenceAssumption DEF Inv, Typed, VersionsTyped
  <2>2. copied[c] = {}
    BY <1>1 DEF Inv, CopyInv
  <2> QED
    BY <1>1, <1>2, <2>1, <2>2, PackagesStay DEF Moves, Late
<1>6. SweepInv' /\ ExporterInv' /\ AnswerInv'
  BY <1>1, <1>2, FoldersStay DEF Moves, Early, Sweeping, Holding
<1> QED
  BY <1>3, <1>4, <1>5, <1>6 DEF Inv

\* The caller, past its own check of the lease, takes away only what is its own,
\* and never an open lease.
LEMMA TidierStays ==
    ASSUME Inv, NEW c \in Calls, pc[c] = "emptying",
           NEW to \in {"emptying", "done"}, Moves(c, to),
           UNCHANGED <<target, swept, exporter, request, result>>,
           files'[c] \subseteq files[c],
           lease[c] \in {"exporter", "claimed"} => lease'[c] = lease[c],
           dir' \subseteq dir,
           \A d \in Calls \ {c} : /\ files'[d] = files[d] /\ shows'[d] = shows[d]
                                  /\ lease'[d] = lease[d] /\ (d \in dir' <=> d \in dir)
    PROVE  SweepInv' /\ ExporterInv' /\ AnswerInv'
<1>0. exporter.call \subseteq Calls /\ target \in [Calls -> SUBSET Calls]
  BY DEF Inv, Typed, ExporterTyped, CallsTyped
<1>1. \A d \in Calls : lease[d] \in {"exporter", "claimed"} => lease'[d] = lease[d]
  OBVIOUS
<1>2. SweepInv'
  <2>1. ASSUME NEW s \in Calls, NEW d \in target[s]
        PROVE  /\ pc'[s] \in Holding => d \in swept
               /\ pc'[s] = "claimed" => lease'[d] = "claimed"
    BY <1>0, <1>1 DEF Inv, SweepInv, Moves, Holding
  <2> QED
    BY <2>1 DEF Inv, SweepInv, Moves, Sweeping, Holding
<1>3. ASSUME NEW d \in exporter.call
      PROVE  /\ exporter.pc \in {"leased", "failing"} => lease'[d] = "exporter"
             /\ exporter.pc = "created" => exporter.written = {} /\ files'[d] = {}
             /\ exporter.pc = "leased" /\ exporter.quiet =>
                  Quiet(d)' /\ d \in dir' /\ files'[d] = exporter.written
             /\ exporter.pc \in {"releasing", "exported"} => exporter.written = Kinds
  <2>1. d \in Calls /\ ~Quiet(c)
    BY <1>0 DEF Quiet
  <2>2. Quiet(d) => Quiet(d)'
    BY <2>1 DEF Quiet, Moves
  <2>3. /\ exporter.pc \in {"leased", "failing"} => lease[d] = "exporter"
        /\ exporter.pc = "created" => exporter.written = {} /\ files[d] = {}
        /\ exporter.pc = "leased" /\ exporter.quiet =>
             Quiet(d) /\ d \in dir /\ files[d] = exporter.written
        /\ exporter.pc \in {"releasing", "exported"} => exporter.written = Kinds
    BY DEF Inv, ExporterInv
  <2>4. exporter.pc = "leased" /\ exporter.quiet => d # c
    BY <2>1, <2>3
  <2> QED
    BY <1>1, <2>1, <2>2, <2>3, <2>4
<1>4. ExporterInv'
  BY <1>3 DEF Inv, ExporterInv
<1>5. AnswerInv'
  BY DEF Inv, AnswerInv, Moves, Early, Sweeping, Holding
<1> QED
  BY <1>2, <1>4, <1>5

LEMMA TidyRemoveStep ==
    ASSUME Inv, NEW c \in Calls, TidyRemove(c) PROVE Inv'
<1> USE DEF taken, history, folder, channel, drawing
<1>1. PICK entry \in listing[c] :
        /\ pc[c] = "emptying"
        /\ \/ /\ pc' = [pc EXCEPT ![c] = "done"]
              /\ listing' = [listing EXCEPT ![c] = {}]
              /\ UNCHANGED <<files, lease, aged>>
           \/ /\ entry = Lease => ~Open(c)
              /\ Delete(c, entry)
              /\ listing' = [listing EXCEPT ![c] = @ \ {entry}]
              /\ UNCHANGED pc
        /\ UNCHANGED <<manifest, drawing, bound, todo, target, taken, channel, exporter, dir,
                       shows, events, history>>
  BY DEF TidyRemove
<1>2. entry \in Kinds \cup {Lease} /\ listing \in [Calls -> SUBSET (Kinds \cup {Lease})]
  BY DEF Inv, Typed, CallsTyped
<1>3. PICK to \in {"emptying", "done"} : Moves(c, to) /\ pc' \in [Calls -> Steps]
  <2>1. CASE UNCHANGED pc
    BY <1>1, <2>1 DEF Moves, Inv, Typed, CallsTyped
  <2>2. CASE pc' = [pc EXCEPT ![c] = "done"]
    BY <2>2, Moving DEF Inv, Steps, Late
  <2> QED
    BY <1>1, <2>1, <2>2
<1>4. /\ FolderTyped'
      /\ files'[c] \subseteq files[c]
      /\ lease[c] \in {"exporter", "claimed"} => lease'[c] = lease[c]
      /\ \A d \in Calls \ {c} : files'[d] = files[d] /\ lease'[d] = lease[d]
  <2>1. CASE UNCHANGED <<files, lease, aged>>
    BY <1>1, <2>1, ChangedData DEF Inv
  <2>2. CASE (entry = Lease => ~Open(c)) /\ Delete(c, entry)
    BY <1>1, <1>2, <2>2, DeletedEntry DEF Inv, Open
  <2> QED
    BY <1>1, <2>1, <2>2
<1>5. CallsTyped'
  BY <1>1, <1>2, <1>3 DEF Inv, Typed, CallsTyped
<1>6. Typed'
  BY <1>1, <1>4, <1>5, ChangedData DEF Inv, Typed
<1>7. CaptureInv'
  BY <1>1, CapturesStay
<1>8. CopyInv' /\ PackageInv'
  <2>1. manifest \in Nat
    BY EvidenceAssumption DEF Inv, Typed, VersionsTyped
  <2>2. copied[c] = {}
    BY <1>1 DEF Inv, CopyInv
  <2> QED
    BY <1>1, <1>3, <2>1, <2>2, PackagesStay DEF Moves, Late
<1>9. SweepInv' /\ ExporterInv' /\ AnswerInv'
  BY <1>1, <1>3, <1>4, TidierStays
<1> QED
  BY <1>6, <1>7, <1>8, <1>9 DEF Inv

LEMMA TidyFolderStep ==
    ASSUME Inv, NEW c \in Calls, TidyFolder(c) PROVE Inv'
<1> USE DEF taken, history, folder, channel, drawing, sweep
<1>1. /\ pc[c] = "emptying" /\ pc' = [pc EXCEPT ![c] = "done"] /\ RemoveFolder(c)
      /\ UNCHANGED <<manifest, drawing, bound, sweep, taken, channel, exporter, files, lease,
                     events, history>>
  BY DEF TidyFolder, Go
<1>2. Moves(c, "done") /\ pc' \in [Calls -> Steps]
  BY <1>1, Moving DEF Inv, Steps, Late
<1>3. /\ FolderTyped' /\ dir' \subseteq dir
      /\ shows'[c] \in {shows[c], {}}
      /\ \A e \in Calls \ {c} : shows'[e] = shows[e] /\ (e \in dir' <=> e \in dir)
  BY <1>1, RemovedFolder DEF Inv
<1>4. CallsTyped'
  BY <1>1, <1>2 DEF Inv, Typed, CallsTyped
<1>5. Typed'
  BY <1>1, <1>3, <1>4, ChangedData DEF Inv, Typed
<1>6. CaptureInv'
  <2>1. \A e \in Calls : shows'[e] \in {shows[e], {}}
    BY <1>3
  <2> QED
    BY <1>1, <2>1, CapturesStay
<1>7. CopyInv' /\ PackageInv'
  <2>1. manifest \in Nat
    BY EvidenceAssumption DEF Inv, Typed, VersionsTyped
  <2>2. copied[c] = {}
    BY <1>1 DEF Inv, CopyInv
  <2> QED
    BY <1>1, <1>2, <2>1, <2>2, PackagesStay DEF Moves, Late
<1>8. SweepInv' /\ ExporterInv' /\ AnswerInv'
  BY <1>1, <1>2, <1>3, TidierStays
<1> QED
  BY <1>5, <1>6, <1>7, <1>8 DEF Inv

-----------------------------------------------------------------------------
(* The export *)

\* An exporter's step makes no package and moves no call or sweeper.
LEMMA ExporterLeavesCalls ==
    ASSUME Inv, UNCHANGED <<manifest, pc, bound, sweep, taken, history>>
    PROVE  CallsTyped' /\ HistoryTyped' /\ CopyInv' /\ PackageInv'
<1> USE DEF taken, history, sweep
<1>1. CallsTyped' /\ HistoryTyped'
  BY DEF Inv, Typed, CallsTyped, HistoryTyped
<1>2. manifest \in Nat
  BY EvidenceAssumption DEF Inv, Typed, VersionsTyped
<1> QED
  BY <1>1, <1>2, PackagesStay

\* Claims outlast every step that takes no claimed lease.
LEMMA ClaimsStay ==
    ASSUME Inv, UNCHANGED <<pc, target, swept>>,
           \A d \in Calls : lease[d] = "claimed" => lease'[d] = "claimed"
    PROVE  SweepInv'
<1>1. target \in [Calls -> SUBSET Calls]
  BY DEF Inv, Typed, CallsTyped
<1> QED
  BY <1>1 DEF Inv, SweepInv

\* Nobody waits for an answer of the directory that an export is building.
LEMMA Unanswered ==
    ASSUME Inv, NEW c \in exporter.call
    PROVE  /\ c \in Calls /\ exporter.call = {c} /\ pc[c] \notin Early
           /\ pc[c] = "polling" /\ c \notin swept
                /\ (exporter.pc \in Building \/ c \notin dir) =>
                \A outcome \in result[c] : outcome = {}
           /\ pc[c] = "polling" /\ c \notin swept
                /\ exporter.pc \in {"leased", "releasing", "exported"} =>
                c \in dir /\ files[c] = exporter.written
BY DEF Inv, Typed, ExporterTyped, ExporterInv, AnswerInv

\* The directories of other calls do not concern an exporter.
LEMMA ExporterStays ==
    ASSUME Inv, NEW c \in exporter.call, UNCHANGED <<pc, target, swept, request, result>>,
           exporter' \in [pc : ExportSteps, call : SUBSET Calls, written : SUBSET Kinds,
                          quiet : BOOLEAN],
           exporter'.call = {c},
           exporter.pc \in Building \/ c \notin dir \/
             (c \in dir' /\ files'[c] = files[c] /\ shows'[c] = shows[c]
                /\ exporter'.pc \notin Building),
           exporter'.pc \in {"leased", "failing"} => lease'[c] = "exporter",
           exporter'.pc = "created" => exporter'.written = {} /\ files'[c] = {},
           exporter'.pc = "read" => exporter'.written = {},
           exporter'.pc = "leased" /\ exporter'.quiet =>
             Quiet(c) /\ c \in dir' /\ files'[c] = exporter'.written,
           exporter'.pc \in {"releasing", "exported"} => exporter'.written = Kinds,
           pc[c] = "polling" /\ c \notin swept
             /\ exporter'.pc \in {"leased", "releasing", "exported"} =>
             c \in dir' /\ files'[c] = exporter'.written,
           \A d \in Calls \ {c} : /\ files'[d] = files[d] /\ shows'[d] = shows[d]
                                  /\ (d \in dir' <=> d \in dir)
    PROVE  ExporterInv' /\ AnswerInv'
<1>1. /\ c \in Calls /\ exporter.call = {c} /\ pc[c] \notin Early
      /\ pc[c] = "polling" /\ c \notin swept
           /\ (exporter.pc \in Building \/ c \notin dir) =>
           \A outcome \in result[c] : outcome = {}
  BY Unanswered
<1>2. Quiet(c)' <=> Quiet(c)
  BY DEF Quiet
<1>3. ExporterInv'
  BY <1>2 DEF ExporterInv
<1>4. ASSUME NEW d \in Calls
      PROVE  /\ pc[d] \in Early =>
                  /\ d \notin request /\ d \notin dir' /\ result[d] = {}
                  /\ d \notin exporter'.call
             /\ pc[d] = "polling" /\ d \notin swept =>
                  /\ \A outcome \in result[d] : outcome # {} =>
                       /\ d \in dir' /\ files'[d] = Kinds /\ shows'[d] = outcome
                       /\ ~(d \in exporter'.call /\ exporter'.pc \in Building)
                  /\ d \in exporter'.call
                       /\ exporter'.pc \in {"leased", "releasing", "exported"} =>
                       d \in dir' /\ files'[d] = exporter'.written
  <2>1. CASE d = c
    <3>1. CASE exporter.pc \in Building \/ c \notin dir
      BY <1>1, <2>1, <3>1
    <3>2. CASE c \in dir' /\ files'[c] = files[c] /\ shows'[c] = shows[c]
                 /\ exporter'.pc \notin Building
      BY <1>1, <2>1, <3>2 DEF Inv, AnswerInv
    <3> QED
      BY <3>1, <3>2
  <2>2. CASE d # c
    BY <1>1, <2>2 DEF Inv, AnswerInv
  <2> QED
    BY <2>1, <2>2
<1>5. AnswerInv'
  BY <1>4 DEF AnswerInv
<1> QED
  BY <1>3, <1>5

LEMMA PickStep ==
    ASSUME Inv, Pick PROVE Inv'
<1> USE DEF taken, history, folder, channel, drawing, sweep
<1>1. /\ exporter.pc = "idle" /\ commands > 0 /\ commands' = commands - 1
      /\ UNCHANGED <<manifest, drawing, pc, bound, sweep, taken, request, result, folder,
                     events, history>>
      /\ \/ \E c \in request : \E step \in {"read", "failed"} :
              exporter' = [IdleExporter EXCEPT !.pc = step, !.call = {c}]
         \/ UNCHANGED exporter
  BY DEF Pick
<1>2. CallsTyped' /\ HistoryTyped' /\ CopyInv' /\ PackageInv'
  BY <1>1, ExporterLeavesCalls
<1>3. ExporterTyped' /\ ChannelTyped'
  <2>1. /\ request \subseteq Calls /\ commands \in Nat
        /\ result \in [Calls -> SUBSET Outcomes] /\ ExporterTyped
    BY DEF Inv, Typed, ChannelTyped
  <2>2. commands' \in Nat
    <3>1. commands > 0 /\ commands' = commands - 1
      BY <1>1
    <3>2. commands \in Nat
      BY <2>1
    <3> HIDE DEF taken, history, folder, channel, drawing, sweep
    <3> QED
      BY <3>1, <3>2
  <2>3. ChannelTyped'
    BY <1>1, <2>1, <2>2 DEF ChannelTyped
  <2>4. ASSUME NEW c \in request, NEW step \in {"read", "failed"},
               exporter' = [IdleExporter EXCEPT !.pc = step, !.call = {c}]
        PROVE  ExporterTyped'
    BY <2>1, <2>4 DEF ExporterTyped, IdleExporter, ExportSteps
  <2>5. UNCHANGED exporter => ExporterTyped'
    BY <2>1 DEF ExporterTyped
  <2> QED
    BY <1>1, <2>3, <2>4, <2>5
<1>4. Typed'
  BY <1>1, <1>2, <1>3, ChangedData DEF Inv, Typed
<1>5. CaptureInv'
  BY <1>1, CapturesStay
<1>6. SweepInv'
  BY <1>1, ClaimsStay
<1>7. CASE UNCHANGED exporter
  <2>1. ExporterInv' /\ AnswerInv'
    BY <1>1, <1>7, FoldersStay
  <2> QED
    BY <1>2, <1>4, <1>5, <1>6, <2>1 DEF Inv
<1>8. ASSUME NEW c \in request, NEW step \in {"read", "failed"},
             exporter' = [IdleExporter EXCEPT !.pc = step, !.call = {c}]
      PROVE  ExporterInv' /\ AnswerInv'
  <2>1. exporter'.pc = step /\ exporter'.call = {c} /\ exporter'.written = {}
    BY <1>8 DEF IdleExporter
  <2>2. ExporterInv'
    BY <2>1 DEF ExporterInv
  <2>3. AnswerInv'
    BY <1>1, <2>1 DEF Inv, AnswerInv, Building, ExportSteps
  <2> QED
    BY <2>2, <2>3
<1> QED
  BY <1>1, <1>2, <1>4, <1>5, <1>6, <1>7, <1>8 DEF Inv

\* The exporter after one of its steps.
LEMMA ExporterFields ==
    ASSUME Typed, NEW step \in ExportSteps, To(step)
    PROVE  /\ exporter'.pc = step /\ exporter'.call = exporter.call
           /\ exporter'.written = exporter.written /\ exporter'.quiet = exporter.quiet
           /\ ExporterTyped'
           /\ exporter' \in [pc : ExportSteps, call : SUBSET Calls, written : SUBSET Kinds,
                             quiet : BOOLEAN]
BY DEF Typed, ExporterTyped, To

LEMMA CreateStep ==
    ASSUME Inv, Create PROVE Inv'
<1> USE DEF taken, history, folder, channel, drawing, sweep
<1>1. PICK c \in exporter.call :
        /\ exporter.pc = "read"
        /\ \/ c \in dir /\ To("failed") /\ UNCHANGED <<dir, files, shows>>
           \/ /\ c \notin dir /\ dir' = dir \cup {c}
              /\ files' = [files EXCEPT ![c] = {}]
              /\ shows' = [shows EXCEPT ![c] = {}]
              /\ To("created")
        /\ UNCHANGED <<manifest, drawing, pc, bound, sweep, taken, channel, lease, aged,
                       events, history>>
  BY DEF Create
<1>2. c \in Calls /\ exporter.call = {c} /\ exporter.written = {}
  BY <1>1, Unanswered DEF Inv, ExporterInv
<1>3. PICK step \in {"failed", "created"} : To(step) /\ (step = "failed" => c \in dir)
  BY <1>1
<1>4. /\ exporter'.pc = step /\ exporter'.call = {c} /\ exporter'.written = {}
      /\ ExporterTyped'
      /\ exporter' \in [pc : ExportSteps, call : SUBSET Calls, written : SUBSET Kinds,
                        quiet : BOOLEAN]
  BY <1>2, <1>3, ExporterFields DEF Inv, ExportSteps
<1>5. /\ files \in [Calls -> SUBSET Kinds] /\ shows \in [Calls -> Outcomes]
      /\ dir \subseteq Calls /\ aged \subseteq dir
  BY DEF Inv, Typed, FolderTyped
<1>6. /\ FolderTyped'
      /\ \A d \in Calls \ {c} : /\ files'[d] = files[d] /\ shows'[d] = shows[d]
                                /\ (d \in dir' <=> d \in dir)
      /\ shows'[c] \in {shows[c], {}}
      /\ \/ step = "failed" /\ c \in dir' /\ files'[c] = files[c] /\ shows'[c] = shows[c]
         \/ c \notin dir /\ files'[c] = {}
  <2>1. CASE c \in dir /\ To("failed") /\ UNCHANGED <<dir, files, shows>>
    <3>1. step = "failed"
      BY <1>4, <2>1, ExporterFields DEF Inv, ExportSteps
    <3> QED
      BY <1>1, <2>1, <3>1, ChangedData DEF Inv
  <2>2. CASE /\ c \notin dir /\ dir' = dir \cup {c}
             /\ files' = [files EXCEPT ![c] = {}]
             /\ shows' = [shows EXCEPT ![c] = {}]
    <3>1. files' \in [Calls -> SUBSET Kinds] /\ shows' \in [Calls -> Outcomes]
      BY <1>5, <2>2, NoOutcome
    <3>2. FolderTyped'
      BY <1>1, <1>2, <1>5, <2>2, <3>1 DEF Inv, Typed, FolderTyped
    <3> QED
      BY <1>2, <1>5, <2>2, <3>2
  <2> QED
    BY <1>1, <2>1, <2>2
<1>7. CallsTyped' /\ HistoryTyped' /\ CopyInv' /\ PackageInv'
  BY <1>1, ExporterLeavesCalls
<1>8. Typed'
  BY <1>1, <1>4, <1>6, <1>7, ChangedData DEF Inv, Typed
<1>9. CaptureInv'
  <2>1. \A e \in Calls : shows'[e] \in {shows[e], {}}
    BY <1>6
  <2> QED
    BY <1>1, <2>1, CapturesStay
<1>10. SweepInv'
  BY <1>1, ClaimsStay
<1>11. ExporterInv' /\ AnswerInv'
  <2>1. step = "created" => c \notin dir /\ files'[c] = {}
    BY <1>4, <1>6
  <2>2. step = "failed" => step \notin Building
    BY DEF Building
  <2> QED
    BY <1>1, <1>4, <1>6, <2>1, <2>2, ExporterStays
<1> QED
  BY <1>7, <1>8, <1>9, <1>10, <1>11 DEF Inv

LEMMA AcquireLeaseStep ==
    ASSUME Inv, AcquireLease PROVE Inv'
<1> USE DEF taken, history, folder, channel, drawing, sweep
<1>1. PICK c \in exporter.call :
        /\ exporter.pc = "created"
        /\ \/ /\ c \in dir /\ lease[c] = "none"
              /\ lease' = [lease EXCEPT ![c] = "exporter"]
              /\ aged' = aged \ {c}
              /\ shows' = [shows EXCEPT ![c] = {Capture}]
              /\ exporter' = [exporter EXCEPT !.pc = "leased", !.quiet = Quiet(c)]
           \/ To("unleased") /\ UNCHANGED <<lease, aged, shows>>
        /\ UNCHANGED <<manifest, drawing, pc, bound, sweep, taken, channel, dir, files,
                       events, history>>
  BY DEF AcquireLease, Renew
<1>2. /\ c \in Calls /\ exporter.call = {c} /\ exporter.written = {} /\ files[c] = {}
      /\ exporter.pc \in Building
  BY <1>1, Unanswered DEF Inv, ExporterInv, Building, ExportSteps
<1>3. CallsTyped' /\ HistoryTyped' /\ CopyInv' /\ PackageInv'
  BY <1>1, ExporterLeavesCalls
<1>4. CASE To("unleased") /\ UNCHANGED <<lease, aged, shows>>
  <2>1. /\ exporter'.pc = "unleased" /\ exporter'.call = {c} /\ ExporterTyped'
        /\ exporter' \in [pc : ExportSteps, call : SUBSET Calls, written : SUBSET Kinds,
                          quiet : BOOLEAN]
    BY <1>2, <1>4, ExporterFields DEF Inv, ExportSteps
  <2>2. Typed'
    BY <1>1, <1>3, <1>4, <2>1, ChangedData DEF Inv, Typed
  <2>3. CaptureInv'
    BY <1>1, <1>4, CapturesStay
  <2>4. SweepInv'
    BY <1>1, <1>4, ClaimsStay
  <2>5. ExporterInv' /\ AnswerInv'
    BY <1>1, <1>2, <1>4, <2>1, ExporterStays
  <2> QED
    BY <1>3, <2>2, <2>3, <2>4, <2>5 DEF Inv
<1>5. CASE /\ c \in dir /\ lease[c] = "none"
           /\ lease' = [lease EXCEPT ![c] = "exporter"]
           /\ aged' = aged \ {c}
           /\ shows' = [shows EXCEPT ![c] = {Capture}]
           /\ exporter' = [exporter EXCEPT !.pc = "leased", !.quiet = Quiet(c)]
  <2>1. Quiet(c) \in BOOLEAN
    BY DEF Quiet
  <2>2. /\ exporter'.pc = "leased" /\ exporter'.call = {c} /\ exporter'.written = {}
        /\ exporter'.quiet <=> Quiet(c)
        /\ ExporterTyped'
        /\ exporter' \in [pc : ExportSteps, call : SUBSET Calls, written : SUBSET Kinds,
                          quiet : BOOLEAN]
    BY <1>2, <1>5, <2>1 DEF Inv, Typed, ExporterTyped, ExportSteps
  <2>3. {Capture} \in Outcomes /\ Honest({Capture})
    BY CaptureTyped DEF Inv, Typed
  <2>4. /\ shows \in [Calls -> Outcomes] /\ dir \subseteq Calls /\ aged \subseteq dir
        /\ lease \in [Calls -> {"none", "exporter", "claimed", "left"}]
    BY DEF Inv, Typed, FolderTyped
  <2>5. /\ shows' \in [Calls -> Outcomes] /\ shows'[c] = {Capture}
        /\ \A d \in Calls \ {c} : shows'[d] = shows[d]
    BY <1>2, <1>5, <2>3, <2>4
  <2>6. /\ lease' \in [Calls -> {"none", "exporter", "claimed", "left"}]
        /\ lease'[c] = "exporter"
        /\ \A d \in Calls \ {c} : lease'[d] = lease[d]
    BY <1>2, <1>5, <2>4
  <2>7. FolderTyped'
    BY <1>1, <1>5, <2>4, <2>5, <2>6 DEF Inv, Typed, FolderTyped
  <2>8. Typed'
    BY <1>1, <1>3, <2>2, <2>7, ChangedData DEF Inv, Typed
  <2>9. CaptureInv'
    BY <1>1, <2>3, <2>5 DEF Inv, CaptureInv
  <2>10. SweepInv'
    BY <1>1, <1>5, <2>6, ClaimsStay
  <2>11. ExporterInv' /\ AnswerInv'
    BY <1>1, <1>2, <1>5, <2>2, <2>5, <2>6, ExporterStays
  <2> QED
    BY <1>3, <2>8, <2>9, <2>10, <2>11 DEF Inv
<1> QED
  BY <1>1, <1>4, <1>5

LEMMA WriteArtifactStep ==
    ASSUME Inv, WriteArtifact PROVE Inv'
<1> USE DEF taken, history, folder, channel, drawing, sweep
<1>1. PICK c \in exporter.call, k \in Kinds :
        /\ exporter.pc = "leased"
        /\ \/ To("failing") /\ UNCHANGED <<files, aged>>
           \/ /\ files' = [files EXCEPT ![c] = @ \cup {k}]
              /\ exporter' = [exporter EXCEPT !.written = @ \cup {k}]
              /\ aged' = aged \ {c}
        /\ UNCHANGED <<manifest, drawing, pc, bound, sweep, taken, channel, dir, shows, lease,
                       events, history>>
  BY DEF WriteArtifact, Renew
<1>2. /\ c \in Calls /\ exporter.call = {c} /\ lease[c] = "exporter"
      /\ exporter.pc \in Building
      /\ exporter.quiet => Quiet(c) /\ c \in dir /\ files[c] = exporter.written
      /\ pc[c] = "polling" /\ c \notin swept => c \in dir /\ files[c] = exporter.written
  BY <1>1, Unanswered DEF Inv, ExporterInv, Building, ExportSteps
<1>3. CallsTyped' /\ HistoryTyped' /\ CopyInv' /\ PackageInv'
  BY <1>1, ExporterLeavesCalls
<1>4. CaptureInv'
  BY <1>1, CapturesStay
<1>5. SweepInv'
  BY <1>1, ClaimsStay
<1>6. CASE To("failing") /\ UNCHANGED <<files, aged>>
  <2>1. /\ exporter'.pc = "failing" /\ exporter'.call = {c} /\ ExporterTyped'
        /\ exporter' \in [pc : ExportSteps, call : SUBSET Calls, written : SUBSET Kinds,
                          quiet : BOOLEAN]
    BY <1>2, <1>6, ExporterFields DEF Inv, ExportSteps
  <2>2. Typed'
    BY <1>1, <1>3, <1>6, <2>1, ChangedData DEF Inv, Typed
  <2>3. ExporterInv' /\ AnswerInv'
    BY <1>1, <1>2, <1>6, <2>1, ExporterStays
  <2> QED
    BY <1>3, <1>4, <1>5, <2>2, <2>3 DEF Inv
<1>7. CASE /\ files' = [files EXCEPT ![c] = @ \cup {k}]
           /\ exporter' = [exporter EXCEPT !.written = @ \cup {k}]
           /\ aged' = aged \ {c}
  <2>1. /\ exporter'.pc = "leased" /\ exporter'.call = {c}
        /\ exporter'.written = exporter.written \cup {k}
        /\ exporter'.quiet = exporter.quiet
        /\ ExporterTyped'
        /\ exporter' \in [pc : ExportSteps, call : SUBSET Calls, written : SUBSET Kinds,
                          quiet : BOOLEAN]
    BY <1>1, <1>2, <1>7 DEF Inv, Typed, ExporterTyped, ExportSteps
  <2>2. files \in [Calls -> SUBSET Kinds] /\ aged \subseteq dir
    BY DEF Inv, Typed, FolderTyped
  <2>3. /\ files' \in [Calls -> SUBSET Kinds] /\ files'[c] = files[c] \cup {k}
        /\ \A d \in Calls \ {c} : files'[d] = files[d]
    BY <1>2, <1>7, <2>2
  <2>4. FolderTyped'
    BY <1>1, <1>7, <2>2, <2>3 DEF Inv, Typed, FolderTyped
  <2>5. Typed'
    BY <1>1, <1>3, <2>1, <2>4, ChangedData DEF Inv, Typed
  <2>6. ExporterInv' /\ AnswerInv'
    BY <1>1, <1>2, <2>1, <2>3, ExporterStays
  <2> QED
    BY <1>3, <1>4, <1>5, <2>5, <2>6 DEF Inv
<1> QED
  BY <1>1, <1>6, <1>7

LEMMA ExportFailsStep ==
    ASSUME Inv, ExportFails PROVE Inv'
<1> USE DEF ExportFails, taken, history, folder, channel, drawing, sweep
<1>1. CallsTyped' /\ HistoryTyped' /\ CopyInv' /\ PackageInv'
  BY ExporterLeavesCalls
<1>2. CaptureInv'
  BY CapturesStay
<1>3. SweepInv'
  BY ClaimsStay
<1>4. /\ exporter'.pc = "failing" /\ exporter'.call = exporter.call
      /\ exporter'.written = exporter.written /\ ExporterTyped'
  BY ExporterFields DEF Inv, ExportSteps
<1>5. Typed'
  BY <1>1, <1>4, ChangedData DEF Inv, Typed
<1>6. ExporterInv'
  BY <1>4 DEF Inv, ExporterInv
<1>7. AnswerInv'
  BY <1>4 DEF Inv, AnswerInv, Building, ExportSteps
<1> QED
  BY <1>1, <1>2, <1>3, <1>5, <1>6, <1>7 DEF Inv

LEMMA CloseLeaseStep ==
    ASSUME Inv, CloseLease PROVE Inv'
<1> USE DEF taken, history, folder, channel, drawing, sweep
<1>1. PICK c \in exporter.call :
        /\ \/ exporter.pc = "leased" /\ exporter.written = Kinds /\ To("releasing")
           \/ exporter.pc = "failing" /\ To("undoing")
        /\ lease' = [lease EXCEPT ![c] = "left"]
        /\ UNCHANGED <<manifest, drawing, pc, bound, sweep, taken, channel, dir, files, shows,
                       aged, events, history>>
  BY DEF CloseLease
<1>2. /\ c \in Calls /\ exporter.call = {c} /\ lease[c] = "exporter"
      /\ exporter.pc \in Building
      /\ pc[c] = "polling" /\ c \notin swept /\ exporter.pc = "leased" =>
           c \in dir /\ files[c] = exporter.written
  BY <1>1, Unanswered DEF Inv, ExporterInv, Building, ExportSteps
<1>3. CallsTyped' /\ HistoryTyped' /\ CopyInv' /\ PackageInv'
  BY <1>1, ExporterLeavesCalls
<1>4. CaptureInv'
  BY <1>1, CapturesStay
<1>5. lease \in [Calls -> {"none", "exporter", "claimed", "left"}]
  BY DEF Inv, Typed, FolderTyped
<1>6. /\ lease' \in [Calls -> {"none", "exporter", "claimed", "left"}]
      /\ \A d \in Calls : lease[d] = "claimed" => lease'[d] = "claimed"
  BY <1>1, <1>2, <1>5
<1>7. SweepInv'
  BY <1>1, <1>6, ClaimsStay
<1>8. PICK step \in {"releasing", "undoing"} :
        /\ To(step)
        /\ step = "releasing" => exporter.pc = "leased" /\ exporter.written = Kinds
  BY <1>1
<1>9. /\ exporter'.pc = step /\ exporter'.call = {c} /\ exporter'.written = exporter.written
      /\ ExporterTyped'
      /\ exporter' \in [pc : ExportSteps, call : SUBSET Calls, written : SUBSET Kinds,
                        quiet : BOOLEAN]
  BY <1>2, <1>8, ExporterFields DEF Inv, ExportSteps
<1>10. Typed'
  <2>1. FolderTyped'
    BY <1>1, <1>6 DEF Inv, Typed, FolderTyped
  <2> QED
    BY <1>1, <1>3, <1>9, <2>1, ChangedData DEF Inv, Typed
<1>11. ExporterInv' /\ AnswerInv'
  BY <1>1, <1>2, <1>8, <1>9, ExporterStays
<1> QED
  BY <1>3, <1>4, <1>7, <1>10, <1>11 DEF Inv

LEMMA DeleteLeaseStep ==
    ASSUME Inv, DeleteLease PROVE Inv'
<1> USE DEF taken, history, folder, channel, drawing, sweep
<1>1. PICK c \in exporter.call, step \in {"unleased", "failed", "exported"} :
        /\ exporter.pc \in {"releasing", "undoing"}
        /\ step = "exported" => exporter.pc = "releasing"
        /\ To(step)
        /\ \/ UNCHANGED <<lease, aged>>
           \/ /\ lease[c] # "claimed"
              /\ lease' = [lease EXCEPT ![c] = "none"]
              /\ aged' = aged \ {c}
        /\ UNCHANGED <<manifest, drawing, pc, bound, sweep, taken, channel, dir, files, shows,
                       events, history>>
  <2>1. PICK c \in exporter.call :
          /\ exporter.pc \in {"releasing", "undoing"}
          /\ \/ /\ To(IF exporter.pc = "releasing" THEN "unleased" ELSE "failed")
                /\ UNCHANGED <<lease, aged>>
             \/ /\ lease[c] # "claimed"
                /\ To(IF exporter.pc = "releasing" THEN "exported" ELSE "unleased")
                /\ lease' = [lease EXCEPT ![c] = "none"]
                /\ aged' = aged \ {c}
          /\ UNCHANGED <<manifest, drawing, pc, bound, sweep, taken, channel, dir, files,
                         shows, events, history>>
    BY DEF DeleteLease, Renew
  <2>2. CASE exporter.pc = "releasing"
    BY <2>1, <2>2
  <2>3. CASE exporter.pc = "undoing"
    BY <2>1, <2>3
  <2> QED
    BY <2>1, <2>2, <2>3
<1>2. /\ c \in Calls /\ exporter.call = {c}
      /\ exporter.pc \in Building
      /\ exporter.pc = "releasing" => exporter.written = Kinds
      /\ pc[c] = "polling" /\ c \notin swept /\ exporter.pc = "releasing" =>
           c \in dir /\ files[c] = exporter.written
  BY <1>1, Unanswered DEF Inv, ExporterInv, Building, ExportSteps
<1>3. CallsTyped' /\ HistoryTyped' /\ CopyInv' /\ PackageInv'
  BY <1>1, ExporterLeavesCalls
<1>4. CaptureInv'
  BY <1>1, CapturesStay
<1>5. lease \in [Calls -> {"none", "exporter", "claimed", "left"}] /\ aged \subseteq dir
  BY DEF Inv, Typed, FolderTyped
<1>6. /\ lease' \in [Calls -> {"none", "exporter", "claimed", "left"}] /\ aged' \subseteq dir
      /\ \A d \in Calls : lease[d] = "claimed" => lease'[d] = "claimed"
  BY <1>1, <1>2, <1>5
<1>7. SweepInv'
  BY <1>1, <1>6, ClaimsStay
<1>8. /\ exporter'.pc = step /\ exporter'.call = {c} /\ exporter'.written = exporter.written
      /\ ExporterTyped'
      /\ exporter' \in [pc : ExportSteps, call : SUBSET Calls, written : SUBSET Kinds,
                        quiet : BOOLEAN]
  BY <1>1, <1>2, ExporterFields DEF Inv, ExportSteps
<1>9. Typed'
  <2>1. FolderTyped'
    BY <1>1, <1>6 DEF Inv, Typed, FolderTyped
  <2> QED
    BY <1>1, <1>3, <1>8, <2>1, ChangedData DEF Inv, Typed
<1>10. ExporterInv' /\ AnswerInv'
  BY <1>1, <1>2, <1>8, ExporterStays
<1> QED
  BY <1>3, <1>4, <1>7, <1>9, <1>10 DEF Inv

LEMMA CleanupOnFailureStep ==
    ASSUME Inv, CleanupOnFailure PROVE Inv'
<1> USE DEF taken, history, folder, channel, drawing, sweep
<1>1. PICK c \in exporter.call :
        /\ exporter.pc = "unleased"
        /\ \/ /\ dir' = dir \ {c} /\ aged' = aged \ {c}
              /\ files' = [files EXCEPT ![c] = {}]
              /\ shows' = [shows EXCEPT ![c] = {}]
           \/ UNCHANGED <<dir, aged, files, shows>>
        /\ To("failed")
        /\ UNCHANGED <<manifest, drawing, pc, bound, sweep, taken, channel, lease, events,
                       history>>
  BY DEF CleanupOnFailure
<1>2. c \in Calls /\ exporter.call = {c} /\ exporter.pc \in Building
  BY <1>1, Unanswered DEF Building, ExportSteps
<1>3. CallsTyped' /\ HistoryTyped' /\ CopyInv' /\ PackageInv'
  BY <1>1, ExporterLeavesCalls
<1>4. /\ exporter'.pc = "failed" /\ exporter'.call = {c} /\ ExporterTyped'
      /\ exporter' \in [pc : ExportSteps, call : SUBSET Calls, written : SUBSET Kinds,
                        quiet : BOOLEAN]
  BY <1>1, <1>2, ExporterFields DEF Inv, ExportSteps
<1>5. /\ files \in [Calls -> SUBSET Kinds] /\ shows \in [Calls -> Outcomes]
      /\ dir \subseteq Calls /\ aged \subseteq dir
  BY DEF Inv, Typed, FolderTyped
<1>6. /\ files' \in [Calls -> SUBSET Kinds] /\ shows' \in [Calls -> Outcomes]
      /\ dir' \subseteq Calls /\ aged' \subseteq dir' /\ shows'[c] \in {shows[c], {}}
      /\ \A d \in Calls \ {c} : /\ files'[d] = files[d] /\ shows'[d] = shows[d]
                                /\ (d \in dir' <=> d \in dir)
  BY <1>1, <1>2, <1>5, NoOutcome
<1>7. Typed'
  <2>1. FolderTyped'
    BY <1>1, <1>6 DEF Inv, Typed, FolderTyped
  <2> QED
    BY <1>1, <1>3, <1>4, <2>1, ChangedData DEF Inv, Typed
<1>8. CaptureInv'
  <2>1. \A e \in Calls : shows'[e] \in {shows[e], {}}
    BY <1>6
  <2> QED
    BY <1>1, <2>1, CapturesStay
<1>9. SweepInv'
  BY <1>1, ClaimsStay
<1>10. ExporterInv' /\ AnswerInv'
  BY <1>1, <1>2, <1>4, <1>6, ExporterStays
<1> QED
  BY <1>3, <1>7, <1>8, <1>9, <1>10 DEF Inv

LEMMA WriteResultStep ==
    ASSUME Inv, WriteResult PROVE Inv'
<1> USE DEF taken, history, folder, channel, drawing, sweep
<1>1. PICK c \in exporter.call :
        /\ exporter.pc \in {"exported", "failed"}
        /\ result' = [result EXCEPT ![c] = {IF exporter.pc = "exported" THEN shows[c] ELSE {}}]
        /\ exporter' = IdleExporter
        /\ UNCHANGED <<manifest, drawing, pc, bound, sweep, taken, request, commands, folder,
                       events, history>>
  BY DEF WriteResult
<1>2. /\ c \in Calls /\ exporter.call = {c} /\ pc[c] \notin Early
      /\ exporter.pc = "exported" => exporter.written = Kinds
      /\ pc[c] = "polling" /\ c \notin swept /\ exporter.pc = "exported" =>
           c \in dir /\ files[c] = exporter.written
  BY <1>1, Unanswered DEF Inv, ExporterInv
<1>3. CallsTyped' /\ HistoryTyped' /\ CopyInv' /\ PackageInv'
  BY <1>1, ExporterLeavesCalls
<1>4. PICK outcome \in {shows[c], {}} :
        /\ result' = [result EXCEPT ![c] = {outcome}]
        /\ outcome # {} => exporter.pc = "exported"
  BY <1>1
<1>5. outcome \in Outcomes /\ Honest(outcome)
  BY <1>2, NoOutcome, HonestNone DEF Inv, Typed, FolderTyped, CaptureInv
<1>6. /\ result' \in [Calls -> SUBSET Outcomes] /\ result'[c] = {outcome}
      /\ \A d \in Calls \ {c} : result'[d] = result[d]
  <2>1. result \in [Calls -> SUBSET Outcomes]
    BY DEF Inv, Typed, ChannelTyped
  <2> QED
    BY <1>2, <1>4, <1>5, <2>1
<1>7. Typed'
  <2>1. ChannelTyped' /\ ExporterTyped'
    BY <1>1, <1>6 DEF Inv, Typed, ChannelTyped, ExporterTyped, IdleExporter, ExportSteps
  <2> QED
    BY <1>1, <1>3, <2>1, ChangedData DEF Inv, Typed
<1>8. CaptureInv'
  BY <1>1, <1>5, <1>6 DEF Inv, CaptureInv
<1>9. SweepInv'
  BY <1>1, ClaimsStay
<1>10. exporter'.pc = "idle" /\ exporter'.call = {} /\ exporter'.written = {}
  BY <1>1 DEF IdleExporter
<1>11. ExporterInv'
  BY <1>10 DEF ExporterInv
<1>12. AnswerInv'
  BY <1>1, <1>2, <1>4, <1>6, <1>10 DEF Inv, AnswerInv
<1> QED
  BY <1>3, <1>7, <1>8, <1>9, <1>11, <1>12 DEF Inv

LEMMA RestartStep ==
    ASSUME Inv, Restart PROVE Inv'
<1> USE DEF taken, history, folder, channel, drawing, sweep
<1>1. /\ events < MaxEvents /\ events' = events + 1
      /\ exporter' = IdleExporter /\ commands' = 0 /\ memory' = disk
      /\ lease' = [d \in Calls |-> IF lease[d] = "exporter" THEN "left" ELSE lease[d]]
      /\ UNCHANGED <<manifest, disk, pc, bound, sweep, taken, request, result, dir, files,
                     shows, aged, history>>
  BY DEF Restart, Happens
<1>2. CallsTyped' /\ HistoryTyped' /\ CopyInv' /\ PackageInv'
  BY <1>1, ExporterLeavesCalls
<1>3. VersionsTyped'
  BY <1>1, EvidenceAssumption DEF Inv, Typed, VersionsTyped
<1>4. lease \in [Calls -> {"none", "exporter", "claimed", "left"}]
  BY DEF Inv, Typed, FolderTyped
<1>5. /\ lease' \in [Calls -> {"none", "exporter", "claimed", "left"}]
      /\ \A d \in Calls : lease[d] = "claimed" => lease'[d] = "claimed"
  BY <1>1, <1>4
<1>6. FolderTyped'
  BY <1>1, <1>5 DEF Inv, Typed, FolderTyped
<1>7. ChannelTyped' /\ ExporterTyped'
  BY <1>1 DEF Inv, Typed, ChannelTyped, ExporterTyped, IdleExporter, ExportSteps
<1>8. Typed'
  BY <1>2, <1>3, <1>6, <1>7 DEF Typed
<1>9. CaptureInv'
  BY <1>1, CapturesStay
<1>10. SweepInv'
  BY <1>1, <1>5, ClaimsStay
<1>11. exporter'.pc = "idle" /\ exporter'.call = {} /\ exporter'.written = {}
  BY <1>1 DEF IdleExporter
<1>12. ExporterInv'
  BY <1>11 DEF ExporterInv
<1>13. AnswerInv'
  BY <1>1, <1>11 DEF Inv, AnswerInv
<1> QED
  BY <1>2, <1>8, <1>9, <1>10, <1>12, <1>13 DEF Inv

-----------------------------------------------------------------------------
(* Around the calls *)

LEMMA EventStep ==
    ASSUME Inv, Edit \/ Save \/ UpdateManifest \/ Age PROVE Inv'
<1> USE DEF taken, history, folder, channel, drawing, sweep
<1>1. /\ events < MaxEvents /\ events' = events + 1
      /\ manifest' \in {manifest, manifest + 1} /\ disk' \in {disk, memory}
      /\ memory' \in {memory, memory + 1}
      /\ aged' \subseteq aged \cup dir
      /\ UNCHANGED <<pc, bound, sweep, taken, channel, exporter, dir, files, shows, lease,
                     history>>
  BY DEF Edit, Save, UpdateManifest, Age, Happens
<1>2. VersionsTyped'
  BY <1>1, EvidenceAssumption DEF Inv, Typed, VersionsTyped
<1>3. CallsTyped' /\ HistoryTyped' /\ FolderTyped'
  BY <1>1 DEF Inv, Typed, CallsTyped, HistoryTyped, FolderTyped
<1>4. Typed'
  BY <1>1, <1>2, <1>3, ChangedData DEF Inv, Typed
<1>5. CaptureInv'
  BY <1>1, CapturesStay
<1>6. CopyInv' /\ PackageInv'
  <2>1. manifest' \in Nat /\ manifest <= manifest'
    BY <1>1, EvidenceAssumption DEF Inv, Typed, VersionsTyped
  <2> QED
    BY <1>1, <2>1, PackagesStay
<1>7. SweepInv' /\ ExporterInv' /\ AnswerInv'
  BY <1>1, FoldersStay
<1> QED
  BY <1>4, <1>5, <1>6, <1>7 DEF Inv

-----------------------------------------------------------------------------
(* The theorems *)

LEMMA InitInv == Init => Inv
<1> SUFFICES ASSUME Init PROVE Inv
  OBVIOUS
<1> USE DEF Init
<1>1. Typed
  BY NoOutcome, EvidenceAssumption
     DEF Typed, VersionsTyped, CallsTyped, ChannelTyped, ExporterTyped, FolderTyped,
         HistoryTyped, Unbound, IdleExporter, ExportSteps, Steps, Early
<1>2. CaptureInv /\ CopyInv
  BY HonestNone DEF CaptureInv, CopyInv
<1>3. PackageInv
  BY DEF PackageInv, Unbound
<1>4. SweepInv
  BY DEF SweepInv
<1>5. ExporterInv /\ AnswerInv
  BY DEF ExporterInv, AnswerInv, IdleExporter
<1> QED
  BY <1>1, <1>2, <1>3, <1>4, <1>5 DEF Inv

LEMMA NextInv == Inv /\ [Next]_vars => Inv'
<1> SUFFICES ASSUME Inv, [Next]_vars PROVE Inv'
  OBVIOUS
<1>1. CASE UNCHANGED vars
  <2> USE <1>1 DEF vars, drawing, sweep, taken, channel, folder, history
  <2>1. Typed'
    BY MoveTyped DEF Inv, Typed, CallsTyped
  <2>2. CaptureInv'
    BY CapturesStay
  <2>3. CopyInv' /\ PackageInv'
    BY ExporterLeavesCalls
  <2>4. SweepInv' /\ ExporterInv' /\ AnswerInv'
    BY FoldersStay
  <2> QED
    BY <2>1, <2>2, <2>3, <2>4 DEF Inv
<1>2. ASSUME NEW c \in Calls, Sweep(c) PROVE Inv'
  BY <1>2, BeginStep, ConsiderStep, ClaimStep, CloseClaimStep, UnlinkClaimStep, ListStep,
     RemoveStep, RemoveSweptStep DEF Sweep
<1>3. ASSUME NEW c \in Calls, Call(c) PROVE Inv'
  BY <1>3, DispatchStep, TakeResultStep, TimeOutStep, VerifyStep, HandoffStep, CopyStep,
     CheckPackageStep, PromoteStep, ConfirmStep, CleanRequestStep, TidyLeaseStep,
     TidyListStep, TidyRemoveStep, TidyFolderStep DEF Call
<1>4. CASE Export
  BY <1>4, PickStep, CreateStep, AcquireLeaseStep, WriteArtifactStep, ExportFailsStep,
     CloseLeaseStep, DeleteLeaseStep, CleanupOnFailureStep, WriteResultStep, RestartStep
     DEF Export
<1>5. CASE Edit \/ Save \/ UpdateManifest \/ Age
  BY <1>5, EventStep
<1> QED
  BY <1>1, <1>2, <1>3, <1>4, <1>5 DEF Next

\* Every reachable state satisfies the invariant.
THEOREM Invariant == Spec => []Inv
<1> QED
  BY InitInv, NextInv, PTL DEF Spec

\* Every variable has its type, for every number of calls (the model's own type
\* invariant, which the client, the sweepers and the exporter keep).
THEOREM TypeCorrect == Spec => []TypeOK
<1>1. Inv => TypeOK
  BY DEF Inv, Typed, VersionsTyped, CallsTyped, ChannelTyped, ExporterTyped, FolderTyped,
         HistoryTyped, TypeOK
<1> QED
  BY <1>1, Invariant, PTL

\* A package that write_visual_evidence renamed into place shows one capture,
\* of the drawing its call named, and if it reports no unsaved edits it shows
\* the bytes whose hash it carries; and a call that returns did so under the
\* manifest its package names.
THEOREM PackagesTellTheTruth == Spec => []PackagesAreTrue
<1>1. ASSUME Inv, NEW p \in packages
      PROVE  /\ Cardinality(p.shown) = 1 /\ p.disk = p.asked
             /\ p.clean => p.shown = {p.disk}
             /\ p.call \in returned => p.at = p.manifest
  <2>1. Sound(p)
    BY <1>1 DEF Inv, PackageInv
  <2>2. PICK m \in p.shown : p.shown = {m} /\ (p.clean => m = p.disk)
    BY <2>1 DEF Sound
  <2>3. Cardinality({m}) = 1
    BY FS_Singleton
  <2> QED
    BY <2>1, <2>2, <2>3 DEF Sound
<1>2. Inv => PackagesAreTrue
  BY <1>1 DEF PackagesAreTrue, PackagesShowOneCapture, AnswerIsCurrent
<1> QED
  BY <1>2, Invariant, PTL

\* While the exporter holds the lease of a directory that nobody was at work
\* in, what it wrote is there; and a success that its caller still waits for
\* has its artifacts behind it, unless a sweeper claimed the directory.
THEOREM NobodyRemovesArtifacts == Spec => []EvidenceIsKept
<1>1. Inv => LeaseProtects
  BY DEF Inv, ExporterInv, LeaseProtects
<1>2. Inv => ResultIsBacked
  BY DEF Inv, AnswerInv, ResultIsBacked
<1> QED
  BY <1>1, <1>2, TypeCorrect, Invariant, PTL DEF EvidenceIsKept

(***************************************************************************)
(* The manifest of a fidelity root (FidelityCheckpoint), for any pages,    *)
(* commands, revisions and edits.                                          *)
(***************************************************************************)
RootBounds == MaxRevision \in Nat /\ MaxEdits \in Nat /\ Pages # {}

\* What the manifest says of a page, by these promotions, reports and rewritten reviews.
Explained(e, p, filed, reviewed, over) ==
    /\ e.state = "needs_review" <=> e.promotion = {}
    /\ \A f \in e.promotion : filed[p][f.revision] # {}
    /\ \A f, g \in e.promotion : f.revision = g.revision
    /\ e.state \in {"needs_review", "approved_for_mechanical_review"} <=> e.review = {}
    /\ \A w \in e.review :
         /\ \/ <<p, w.of.revision>> \in over
            \/ /\ reviewed[p][w.of.revision] = {w}
               /\ w.passed <=> e.state = "mechanical_reviewed"
         /\ reviewed[p][w.of.revision] # {}
         /\ \A f \in e.promotion : w.of.revision = f.revision

\* A command knows a manifest that is explained, and what it filed is there.
Grounded(c, filed, reviewed, over) ==
    /\ \A p \in Pages : Explained(c.saw[p], p, filed, reviewed, over)
    /\ c.name \in {"promote", "review"} => c.revision \in Checkpoint!Revisions
    /\ c.name = "promote" /\ c.step = "filed" => filed[c.page][c.revision] # {}
    /\ c.name = "review" =>
        /\ c.saw[c.page].promotion # {}
        /\ \A f \in c.saw[c.page].promotion : f.revision = c.revision
    /\ c.name = "review" /\ c.step = "filed" =>
        /\ reviewed[c.page][c.revision] # {}
        /\ \/ <<c.page, c.revision>> \in over
           \/ \A w \in reviewed[c.page][c.revision] : w.passed = c.passed

FiledInv ==
    \A p \in Pages, v \in Checkpoint!Revisions :
        /\ \A f \in promotions[p][v] : f.revision = v
        /\ \A w \in reports[p][v] : reports[p][v] = {w} /\ w.of.revision = v

CommandsInv == \A r \in Runs : \A c \in run[r] : Grounded(c, promotions, reports, rewritten)

KnownInv ==
    \A m \in cManifest, p \in Pages : Explained(m[p], p, promotions, reports, rewritten)

RootInv == Checkpoint!TypeOK /\ FiledInv /\ CommandsInv /\ KnownInv

\* Files come and stay; a report that is written over is noted.
FilesGrow ==
    /\ \A p \in Pages, v \in Checkpoint!Revisions :
        /\ promotions[p][v] # {} => promotions'[p][v] # {}
        /\ reports[p][v] # {} =>
            /\ reports'[p][v] # {}
            /\ reports'[p][v] = reports[p][v] \/ <<p, v>> \in rewritten'
    /\ rewritten \subseteq rewritten'

-----------------------------------------------------------------------------
\* What was explained stays explained while files only come.
LEMMA ExplainedStays ==
    ASSUME FilesGrow, NEW p \in Pages, NEW e \in Checkpoint!Entry,
           Explained(e, p, promotions, reports, rewritten)
    PROVE  Explained(e, p, promotions', reports', rewritten')
  <1>1. \A f \in e.promotion : f.revision \in Checkpoint!Revisions
    BY DEF Checkpoint!Entry, Checkpoint!Promotion
  <1>2. \A w \in e.review : w.of.revision \in Checkpoint!Revisions
    BY DEF Checkpoint!Entry, Checkpoint!Review, Checkpoint!Promotion
  <1>3. \A f \in e.promotion : promotions'[p][f.revision] # {}
    BY <1>1 DEF FilesGrow, Explained
  <1>4. \A w \in e.review :
          /\ \/ <<p, w.of.revision>> \in rewritten'
             \/ /\ reports'[p][w.of.revision] = {w}
                /\ w.passed <=> e.state = "mechanical_reviewed"
          /\ reports'[p][w.of.revision] # {}
    BY <1>2 DEF FilesGrow, Explained
  <1> QED
    BY <1>3, <1>4 DEF Explained

\* So is a command's knowledge.
LEMMA GroundedStays ==
    ASSUME FilesGrow, NEW c \in Checkpoint!Command, Grounded(c, promotions, reports, rewritten)
    PROVE  Grounded(c, promotions', reports', rewritten')
  <1>1. \A p \in Pages : c.saw[p] \in Checkpoint!Entry
    BY DEF Checkpoint!Command
  <1>2. \A p \in Pages : Explained(c.saw[p], p, promotions', reports', rewritten')
    BY <1>1, ExplainedStays DEF Grounded
  <1>3. c.page \in Pages
    BY DEF Checkpoint!Command
  <1>4. c.name = "promote" /\ c.step = "filed" => promotions'[c.page][c.revision] # {}
    BY <1>3 DEF Grounded, FilesGrow
  <1>5. c.name = "review" /\ c.step = "filed" =>
          /\ reports'[c.page][c.revision] # {}
          /\ \/ <<c.page, c.revision>> \in rewritten'
             \/ \A w \in reports'[c.page][c.revision] : w.passed = c.passed
    BY <1>3 DEF Grounded, FilesGrow
  <1> QED
    BY <1>2, <1>4, <1>5 DEF Grounded

LEMMA RootStarts ==
    ASSUME RootBounds, Checkpoint!Init
    PROVE  RootInv
  <1>2. Checkpoint!TypeOK
    <2>1. cManifest = {}
      BY DEF Checkpoint!Init
    <2>2. layout \in [Pages -> Checkpoint!Versions] /\ cBound \in [Pages -> BOOLEAN]
      BY DEF RootBounds, Checkpoint!Init, Checkpoint!Versions
    <2>3. /\ promotions \in [Pages -> [Checkpoint!Revisions -> SUBSET Checkpoint!Promotion]]
          /\ reports \in [Pages -> [Checkpoint!Revisions -> SUBSET Checkpoint!Review]]
      BY DEF Checkpoint!Init
    <2>4. rewritten = {} /\ run \in [Runs -> SUBSET Checkpoint!Command]
      BY DEF Checkpoint!Init
    <2>5. cManifest \subseteq [Pages -> Checkpoint!Entry]
          /\ rewritten \subseteq Pages \X Checkpoint!Revisions
      BY <2>1, <2>4
    <2> QED
      BY <2>1, <2>2, <2>3, <2>4, <2>5 DEF Checkpoint!TypeOK
  <1>3. FiledInv /\ CommandsInv /\ KnownInv
    BY DEF Checkpoint!Init, FiledInv, CommandsInv, KnownInv
  <1> QED
    BY <1>2, <1>3 DEF RootInv

\* No file changes.
LEMMA NoFileChanges ==
    ASSUME UNCHANGED <<promotions, reports, rewritten>>
    PROVE  FilesGrow
  BY DEF FilesGrow

\* One run's command goes on, ends or begins, beside what the files become.
LEMMA CommandGoesOn ==
    ASSUME RootInv, FilesGrow, FiledInv', NEW r \in Runs, NEW D, D \in SUBSET Checkpoint!Command,
           \A d \in D : Grounded(d, promotions', reports', rewritten'),
           run' = [run EXCEPT ![r] = D], cManifest' = cManifest,
           promotions' \in [Pages -> [Checkpoint!Revisions -> SUBSET Checkpoint!Promotion]],
           reports' \in [Pages -> [Checkpoint!Revisions -> SUBSET Checkpoint!Review]],
           rewritten' \subseteq Pages \X Checkpoint!Revisions,
           layout' \in [Pages -> Checkpoint!Versions], cBound' \in [Pages -> BOOLEAN]
    PROVE  RootInv'
  <1>1. run \in [Runs -> SUBSET Checkpoint!Command]
    BY DEF RootInv, Checkpoint!TypeOK
  <1>2. /\ run' \in [Runs -> SUBSET Checkpoint!Command] /\ run'[r] = D
        /\ \A q \in Runs \ {r} : run'[q] = run[q]
    BY <1>1
  <1>3. Checkpoint!TypeOK'
    BY <1>2 DEF RootInv, Checkpoint!TypeOK
  <1>4. \A q \in Runs : \A c \in run'[q] : Grounded(c, promotions', reports', rewritten')
    <2> SUFFICES ASSUME NEW q \in Runs, NEW c \in run'[q]
                 PROVE  Grounded(c, promotions', reports', rewritten')
      OBVIOUS
    <2>1. CASE q = r
      BY <1>2, <2>1
    <2>2. CASE q # r
      <3>1. c \in run[q] /\ c \in Checkpoint!Command
        BY <1>1, <1>2, <2>2
      <3>2. Grounded(c, promotions, reports, rewritten)
        BY <3>1 DEF RootInv, CommandsInv
      <3> QED
        BY <3>1, <3>2, GroundedStays
    <2> QED
      BY <2>1, <2>2
  <1>5. CommandsInv'
    BY <1>4 DEF CommandsInv
  <1>6. \A m \in cManifest, p \in Pages : m[p] \in Checkpoint!Entry
    BY DEF RootInv, Checkpoint!TypeOK
  <1>7. \A m \in cManifest, p \in Pages : Explained(m[p], p, promotions', reports', rewritten')
    BY <1>6, ExplainedStays DEF RootInv, KnownInv
  <1>8. KnownInv'
    BY <1>7 DEF KnownInv
  <1> QED
    BY <1>3, <1>5, <1>8 DEF RootInv

\* Only a run's command changes.
LEMMA OnlyCommand ==
    ASSUME RootInv, NEW r \in Runs, NEW D, D \in SUBSET Checkpoint!Command,
           \A d \in D : Grounded(d, promotions, reports, rewritten),
           run' = [run EXCEPT ![r] = D],
           UNCHANGED <<cManifest, promotions, reports, rewritten, layout, cBound>>
    PROVE  RootInv'
  <1>1. FilesGrow
    BY NoFileChanges
  <1>2. FiledInv'
    BY DEF RootInv, FiledInv
  <1> QED
    BY <1>1, <1>2, CommandGoesOn DEF RootInv, Checkpoint!TypeOK

\* A command starts with the manifest there is, or, for the first, with
\* nothing promoted.
LEMMA CommandStarts ==
    ASSUME RootInv, RootBounds, NEW r \in Runs, NEW p \in Pages,
           \/ Checkpoint!StartPdf(r) \/ Checkpoint!StartOverlay(r) \/ Checkpoint!StartReview(r, p)
           \/ \E v \in Checkpoint!Revisions : Checkpoint!StartPromote(r, p, v)
    PROVE  RootInv'
  <1> USE DEF Checkpoint!files, Checkpoint!pages
  <1>1. Checkpoint!AnyPage \in Pages
    BY DEF RootBounds, Checkpoint!AnyPage
  <1>2. /\ UNCHANGED <<cManifest, promotions, reports, rewritten, layout, cBound>>
        /\ \E name \in {"pdf", "overlay", "promote", "review"}, q \in Pages,
              u \in 0..MaxRevision, saw \in [Pages -> Checkpoint!Entry] :
            /\ Checkpoint!Start(r, name, q, u, saw)
            /\ \A x \in Pages : Explained(saw[x], x, promotions, reports, rewritten)
            /\ name \in {"promote", "review"} => u \in Checkpoint!Revisions
            /\ name = "review" => /\ saw[q].promotion # {}
                                  /\ \A f \in saw[q].promotion : f.revision = u
    <2>0. 0 \in 0..MaxRevision /\ \A v \in Checkpoint!Revisions : v \in 0..MaxRevision
      BY DEF RootBounds, Checkpoint!Revisions
    <2>1. CASE Checkpoint!StartPdf(r)
      <3> DEFINE saw == [q \in Pages |-> Checkpoint!Baseline]
      <3>1. Checkpoint!Baseline \in Checkpoint!Entry
        BY DEF Checkpoint!Baseline, Checkpoint!Entry
      <3>2. saw \in [Pages -> Checkpoint!Entry]
        BY <3>1
      <3>3. \A x \in Pages : Explained(saw[x], x, promotions, reports, rewritten)
        BY DEF Explained, Checkpoint!Baseline
      <3>4. Checkpoint!Start(r, "pdf", Checkpoint!AnyPage, 0, saw)
        BY <2>1 DEF Checkpoint!StartPdf
      <3>5. UNCHANGED <<cManifest, promotions, reports, rewritten, layout, cBound>>
        BY <3>4 DEF Checkpoint!Start
      <3> HIDE DEF saw
      <3> QED
        BY <1>1, <2>0, <3>2, <3>3, <3>4, <3>5
    <2>2. CASE Checkpoint!StartOverlay(r)
      <3>1. PICK m \in cManifest : Checkpoint!Start(r, "overlay", Checkpoint!AnyPage, 0, m)
        BY <2>2 DEF Checkpoint!StartOverlay
      <3>2. m \in [Pages -> Checkpoint!Entry]
        BY DEF RootInv, Checkpoint!TypeOK
      <3>3. \A x \in Pages : Explained(m[x], x, promotions, reports, rewritten)
        BY DEF RootInv, KnownInv
      <3>4. UNCHANGED <<cManifest, promotions, reports, rewritten, layout, cBound>>
        BY <3>1 DEF Checkpoint!Start
      <3> QED
        BY <1>1, <2>0, <3>1, <3>2, <3>3, <3>4
    <2>3. CASE \E v \in Checkpoint!Revisions : Checkpoint!StartPromote(r, p, v)
      <3>0. PICK v \in Checkpoint!Revisions : Checkpoint!StartPromote(r, p, v)
        BY <2>3
      <3>1. PICK m \in cManifest : Checkpoint!Start(r, "promote", p, v, m)
        BY <3>0 DEF Checkpoint!StartPromote
      <3>2. m \in [Pages -> Checkpoint!Entry]
        BY DEF RootInv, Checkpoint!TypeOK
      <3>3. \A x \in Pages : Explained(m[x], x, promotions, reports, rewritten)
        BY DEF RootInv, KnownInv
      <3>4. UNCHANGED <<cManifest, promotions, reports, rewritten, layout, cBound>>
        BY <3>1 DEF Checkpoint!Start
      <3> QED
        BY <2>0, <3>1, <3>2, <3>3, <3>4
    <2>4. CASE Checkpoint!StartReview(r, p)
      <3>1. PICK m \in cManifest : \E f \in m[p].promotion :
              Checkpoint!Start(r, "review", p, f.revision, m)
        BY <2>4 DEF Checkpoint!StartReview
      <3>2. PICK f \in m[p].promotion : Checkpoint!Start(r, "review", p, f.revision, m)
        BY <3>1
      <3>3. m \in [Pages -> Checkpoint!Entry]
        BY DEF RootInv, Checkpoint!TypeOK
      <3>4. \A x \in Pages : Explained(m[x], x, promotions, reports, rewritten)
        BY DEF RootInv, KnownInv
      <3>5. UNCHANGED <<cManifest, promotions, reports, rewritten, layout, cBound>>
        BY <3>2 DEF Checkpoint!Start
      <3>6. f.revision \in Checkpoint!Revisions
        BY <3>3 DEF Checkpoint!Entry, Checkpoint!Promotion
      <3>7. f.revision \in 0..MaxRevision
        BY <3>6 DEF RootBounds, Checkpoint!Revisions
      <3>8. \A g \in m[p].promotion : g.revision = f.revision
        BY <3>4 DEF Explained
      <3> QED
        BY <3>2, <3>3, <3>4, <3>5, <3>6, <3>7, <3>8
    <2> QED
      BY <2>1, <2>2, <2>3, <2>4
  <1>3. PICK name \in {"pdf", "overlay", "promote", "review"}, q \in Pages,
             u \in 0..MaxRevision, saw \in [Pages -> Checkpoint!Entry] :
            /\ Checkpoint!Start(r, name, q, u, saw)
            /\ \A x \in Pages : Explained(saw[x], x, promotions, reports, rewritten)
            /\ name \in {"promote", "review"} => u \in Checkpoint!Revisions
            /\ name = "review" => /\ saw[q].promotion # {}
                                  /\ \A f \in saw[q].promotion : f.revision = u
    BY <1>2
  <1> DEFINE d == [name |-> name, page |-> q, revision |-> u, step |-> "read",
                   saw |-> saw, passed |-> FALSE]
  <1>4. run' = [run EXCEPT ![r] = {d}]
    BY <1>3 DEF Checkpoint!Start
  <1>5. {d} \in SUBSET Checkpoint!Command
    BY DEF Checkpoint!Command
  <1>6. Grounded(d, promotions, reports, rewritten)
    BY <1>3 DEF Grounded
  <1> HIDE DEF d
  <1> QED
    BY <1>2, <1>4, <1>5, <1>6, OnlyCommand

\* A command is one of the run's and typed.
LEMMA OfTheRun ==
    ASSUME RootInv, NEW r \in Runs, NEW name, NEW step, NEW c \in Checkpoint!At(r, name, step)
    PROVE  /\ c \in run[r] /\ c.name = name /\ c.step = step
           /\ c \in Checkpoint!Command /\ Grounded(c, promotions, reports, rewritten)
  <1>1. c \in run[r] /\ c.name = name /\ c.step = step
    BY DEF Checkpoint!At
  <1>2. c \in Checkpoint!Command
    BY <1>1 DEF RootInv, Checkpoint!TypeOK
  <1> QED
    BY <1>1, <1>2 DEF RootInv, CommandsInv

\* A promotion is checked, a drawing opened.
LEMMA CommandAdvances ==
    ASSUME RootInv, NEW r \in Runs, Checkpoint!CheckPromotion(r) \/ Checkpoint!Open(r)
    PROVE  RootInv'
  <1>1. PICK c \in run[r], step \in {"checked", "opened"}, passed \in BOOLEAN :
            run' = [run EXCEPT ![r] = {[c EXCEPT !.step = step, !.passed = passed]}]
    <2>1. CASE Checkpoint!CheckPromotion(r)
      <3>1. PICK c \in Checkpoint!At(r, "promote", "read") : Checkpoint!Step(r, c, "checked")
        BY <2>1 DEF Checkpoint!CheckPromotion
      <3>2. c \in run[r] /\ c \in Checkpoint!Command
        BY <3>1, OfTheRun
      <3>3. [c EXCEPT !.step = "checked"] = [c EXCEPT !.step = "checked", !.passed = c.passed]
            /\ c.passed \in BOOLEAN
        BY <3>2 DEF Checkpoint!Command
      <3> QED
        BY <3>1, <3>2, <3>3 DEF Checkpoint!Step
    <2>2. CASE Checkpoint!Open(r)
      BY <2>2 DEF Checkpoint!Open, Checkpoint!At
    <2> QED
      BY <2>1, <2>2
  <1>2. UNCHANGED <<cManifest, promotions, reports, rewritten, layout, cBound>>
    BY DEF Checkpoint!CheckPromotion, Checkpoint!Open, Checkpoint!files, Checkpoint!pages
  <1>3. c \in Checkpoint!Command /\ Grounded(c, promotions, reports, rewritten)
    BY DEF RootInv, Checkpoint!TypeOK, CommandsInv
  <1> DEFINE d == [c EXCEPT !.step = step, !.passed = passed]
  <1>4. /\ d \in Checkpoint!Command /\ d.name = c.name /\ d.page = c.page /\ d.saw = c.saw
        /\ d.revision = c.revision /\ d.step = step
    BY <1>3 DEF Checkpoint!Command
  <1> HIDE DEF d
  <1>5. Grounded(d, promotions, reports, rewritten)
    BY <1>3, <1>4 DEF Grounded
  <1>6. run' = [run EXCEPT ![r] = {d}]
    BY <1>1 DEF d
  <1> QED
    BY <1>2, <1>4, <1>5, <1>6, OnlyCommand

\* A promotion is filed under its revision.
LEMMA PromotionFiled ==
    ASSUME RootInv, NEW r \in Runs, Checkpoint!FilePromotion(r)
    PROVE  RootInv'
  <1>1. PICK c \in Checkpoint!At(r, "promote", "checked") :
          LET new == {[revision |-> c.revision, by |-> r, drawing |-> layout[c.page]]}
          IN  /\ promotions' = [promotions EXCEPT ![c.page][c.revision] = new]
              /\ run' = [run EXCEPT ![r] = {[c EXCEPT !.step = "filed"]}]
    BY DEF Checkpoint!FilePromotion
  <1> DEFINE new == {[revision |-> c.revision, by |-> r, drawing |-> layout[c.page]]}
             d == [c EXCEPT !.step = "filed"]
  <1>2. UNCHANGED <<cManifest, reports, rewritten, layout, cBound>>
    BY DEF Checkpoint!FilePromotion, Checkpoint!pages
  <1>3. /\ c.name = "promote" /\ c \in Checkpoint!Command
        /\ Grounded(c, promotions, reports, rewritten)
    BY OfTheRun
  <1>4. c.page \in Pages /\ c.revision \in Checkpoint!Revisions
    BY <1>3 DEF Grounded, Checkpoint!Command
  <1>5. new \in SUBSET Checkpoint!Promotion
    BY <1>4 DEF RootInv, Checkpoint!TypeOK, Checkpoint!Promotion
  <1>6. /\ d \in Checkpoint!Command /\ d.name = "promote" /\ d.page = c.page /\ d.saw = c.saw
        /\ d.revision = c.revision /\ d.step = "filed"
    BY <1>3 DEF Checkpoint!Command
  <1>7. \A f \in new : f.revision = c.revision
    OBVIOUS
  <1>8. new # {}
    OBVIOUS
  <1>9. promotions' = [promotions EXCEPT ![c.page][c.revision] = new]
    BY <1>1
  <1>10. run' = [run EXCEPT ![r] = {d}]
    BY <1>1
  <1> HIDE DEF new, d
  <1>11. promotions \in [Pages -> [Checkpoint!Revisions -> SUBSET Checkpoint!Promotion]]
    BY DEF RootInv, Checkpoint!TypeOK
  <1>12. /\ promotions' \in [Pages -> [Checkpoint!Revisions -> SUBSET Checkpoint!Promotion]]
         /\ \A p \in Pages, v \in Checkpoint!Revisions :
              promotions'[p][v] = IF p = c.page /\ v = c.revision THEN new ELSE promotions[p][v]
    BY <1>4, <1>5, <1>9, <1>11
  <1>13. FilesGrow
    BY <1>2, <1>8, <1>12 DEF FilesGrow
  <1>14. FiledInv'
    BY <1>2, <1>7, <1>12 DEF RootInv, FiledInv
  <1>15. Grounded(d, promotions', reports', rewritten')
    <2>1. Grounded(c, promotions', reports', rewritten')
      BY <1>3, <1>13, GroundedStays
    <2>2. promotions'[c.page][c.revision] # {}
      BY <1>4, <1>8, <1>12
    <2> QED
      BY <1>3, <1>6, <2>1, <2>2 DEF Grounded
  <1> DEFINE D == {d}
  <1>16. /\ D \in SUBSET Checkpoint!Command
         /\ \A x \in D : Grounded(x, promotions', reports', rewritten')
         /\ run' = [run EXCEPT ![r] = D]
    BY <1>6, <1>10, <1>15
  <1>17. /\ reports' \in [Pages -> [Checkpoint!Revisions -> SUBSET Checkpoint!Review]]
         /\ rewritten' \subseteq Pages \X Checkpoint!Revisions
         /\ layout' \in [Pages -> Checkpoint!Versions] /\ cBound' \in [Pages -> BOOLEAN]
         /\ cManifest' = cManifest
    BY <1>2 DEF RootInv, Checkpoint!TypeOK
  <1>18. promotions' \in [Pages -> [Checkpoint!Revisions -> SUBSET Checkpoint!Promotion]]
    BY <1>12
  <1> HIDE DEF D
  <1> QED
    BY <1>13, <1>14, <1>16, <1>17, <1>18, CommandGoesOn

\* A report is filed under the revision it is of, perhaps over another's.
LEMMA ReviewFiled ==
    ASSUME RootInv, NEW r \in Runs, Checkpoint!FileReview(r)
    PROVE  RootInv'
  <1>1. PICK c \in Checkpoint!At(r, "review", "opened") :
          \E f \in promotions[c.page][c.revision] :
            LET new == {[of |-> f, drawing |-> layout[c.page], passed |-> c.passed]}
            IN  /\ reports' = [reports EXCEPT ![c.page][c.revision] = new]
                /\ rewritten' = IF reports[c.page][c.revision] = {} THEN rewritten
                                ELSE rewritten \cup {<<c.page, c.revision>>}
                /\ run' = [run EXCEPT ![r] = {[c EXCEPT !.step = "filed"]}]
    BY DEF Checkpoint!FileReview
  <1>2. PICK f \in promotions[c.page][c.revision] :
            LET new == {[of |-> f, drawing |-> layout[c.page], passed |-> c.passed]}
            IN  /\ reports' = [reports EXCEPT ![c.page][c.revision] = new]
                /\ rewritten' = IF reports[c.page][c.revision] = {} THEN rewritten
                                ELSE rewritten \cup {<<c.page, c.revision>>}
                /\ run' = [run EXCEPT ![r] = {[c EXCEPT !.step = "filed"]}]
    BY <1>1
  <1> DEFINE w == [of |-> f, drawing |-> layout[c.page], passed |-> c.passed]
             d == [c EXCEPT !.step = "filed"]
  <1>3. UNCHANGED <<cManifest, promotions, layout, cBound>>
    BY DEF Checkpoint!FileReview, Checkpoint!pages
  <1>4. /\ c.name = "review" /\ c \in Checkpoint!Command
        /\ Grounded(c, promotions, reports, rewritten)
    BY OfTheRun
  <1>5. c.page \in Pages /\ c.revision \in Checkpoint!Revisions /\ c.passed \in BOOLEAN
    BY <1>4 DEF Grounded, Checkpoint!Command
  <1>6. f \in Checkpoint!Promotion /\ f.revision = c.revision
    BY <1>5 DEF RootInv, Checkpoint!TypeOK, FiledInv
  <1>7. w \in Checkpoint!Review /\ w.of.revision = c.revision /\ w.passed = c.passed
    BY <1>5, <1>6 DEF RootInv, Checkpoint!TypeOK, Checkpoint!Review
  <1>8. /\ d \in Checkpoint!Command /\ d.name = "review" /\ d.page = c.page /\ d.saw = c.saw
        /\ d.revision = c.revision /\ d.step = "filed" /\ d.passed = c.passed
    BY <1>4 DEF Checkpoint!Command
  <1>9. reports' = [reports EXCEPT ![c.page][c.revision] = {w}]
    BY <1>2
  <1>10. run' = [run EXCEPT ![r] = {d}]
    BY <1>2
  <1>11. rewritten' = IF reports[c.page][c.revision] = {} THEN rewritten
                      ELSE rewritten \cup {<<c.page, c.revision>>}
    BY <1>2
  <1> HIDE DEF w, d
  <1>12. reports \in [Pages -> [Checkpoint!Revisions -> SUBSET Checkpoint!Review]]
    BY DEF RootInv, Checkpoint!TypeOK
  <1>13. /\ reports' \in [Pages -> [Checkpoint!Revisions -> SUBSET Checkpoint!Review]]
         /\ \A p \in Pages, v \in Checkpoint!Revisions :
              reports'[p][v] = IF p = c.page /\ v = c.revision THEN {w} ELSE reports[p][v]
    BY <1>5, <1>7, <1>9, <1>12
  <1>14. rewritten' \subseteq Pages \X Checkpoint!Revisions
    BY <1>5, <1>11 DEF RootInv, Checkpoint!TypeOK
  <1>15. FilesGrow
    BY <1>3, <1>11, <1>13 DEF FilesGrow
  <1>16. FiledInv'
    BY <1>3, <1>7, <1>13 DEF RootInv, FiledInv
  <1>17. Grounded(d, promotions', reports', rewritten')
    <2>1. Grounded(c, promotions', reports', rewritten')
      BY <1>4, <1>15, GroundedStays
    <2>2. reports'[c.page][c.revision] = {w}
      BY <1>5, <1>13
    <2> QED
      BY <1>4, <1>7, <1>8, <2>1, <2>2 DEF Grounded
  <1> DEFINE D == {d}
  <1>18. /\ D \in SUBSET Checkpoint!Command
         /\ \A x \in D : Grounded(x, promotions', reports', rewritten')
         /\ run' = [run EXCEPT ![r] = D]
    BY <1>8, <1>10, <1>17
  <1>19. /\ promotions' \in [Pages -> [Checkpoint!Revisions -> SUBSET Checkpoint!Promotion]]
         /\ layout' \in [Pages -> Checkpoint!Versions] /\ cBound' \in [Pages -> BOOLEAN]
         /\ cManifest' = cManifest
    BY <1>3 DEF RootInv, Checkpoint!TypeOK
  <1>20. reports' \in [Pages -> [Checkpoint!Revisions -> SUBSET Checkpoint!Review]]
    BY <1>13
  <1> HIDE DEF D
  <1> QED
    BY <1>14, <1>15, <1>16, <1>18, <1>19, <1>20, CommandGoesOn

\* The manifest that a command writes is explained by the files, whatever
\* was written since it read.
LEMMA SavedIsExplained ==
    ASSUME RootInv, NEW r \in Runs, NEW m, m \in [Pages -> Checkpoint!Entry],
           Checkpoint!Save(r, m),
           \A p \in Pages : Explained(m[p], p, promotions, reports, rewritten)
    PROVE  RootInv'
  <1>1. /\ cManifest' = {m} /\ run' = [run EXCEPT ![r] = {}]
        /\ UNCHANGED <<layout, cBound, promotions, reports, rewritten>>
    BY DEF Checkpoint!Save, Checkpoint!pages
  <1>3. /\ run' \in [Runs -> SUBSET Checkpoint!Command]
        /\ \A q \in Runs : run'[q] = {} \/ run'[q] = run[q]
    BY <1>1 DEF RootInv, Checkpoint!TypeOK
  <1>4. Checkpoint!TypeOK'
    <2>1. cManifest' \subseteq [Pages -> Checkpoint!Entry] /\ \A a, b \in cManifest' : a = b
      BY <1>1
    <2> QED
      BY <1>1, <1>3, <2>1 DEF RootInv, Checkpoint!TypeOK
  <1>5. CommandsInv'
    BY <1>1, <1>3 DEF RootInv, CommandsInv
  <1>6. FiledInv' /\ KnownInv'
    BY <1>1 DEF RootInv, FiledInv, KnownInv
  <1> QED
    BY <1>4, <1>5, <1>6 DEF RootInv

\* An entry that replaces one page's.
LEMMA EntryReplaced ==
    ASSUME RootInv, NEW r \in Runs, NEW c \in Checkpoint!Command, NEW e \in Checkpoint!Entry,
           Checkpoint!Save(r, [c.saw EXCEPT ![c.page] = e]),
           Grounded(c, promotions, reports, rewritten),
           Explained(e, c.page, promotions, reports, rewritten)
    PROVE  RootInv'
  <1> DEFINE m == [c.saw EXCEPT ![c.page] = e]
  <1>1. c.saw \in [Pages -> Checkpoint!Entry] /\ c.page \in Pages
    BY DEF Checkpoint!Command
  <1>2. /\ m \in [Pages -> Checkpoint!Entry]
        /\ \A p \in Pages : m[p] = IF p = c.page THEN e ELSE c.saw[p]
    BY <1>1
  <1>3. Checkpoint!Save(r, m)
    OBVIOUS
  <1> HIDE DEF m
  <1>4. \A p \in Pages : Explained(m[p], p, promotions, reports, rewritten)
    BY <1>2 DEF Grounded
  <1> QED
    BY <1>2, <1>3, <1>4, SavedIsExplained

LEMMA ManifestWritten ==
    ASSUME RootInv, NEW r \in Runs,
           \/ Checkpoint!WritePdf(r) \/ Checkpoint!WriteOverlay(r)
           \/ Checkpoint!Promote(r) \/ Checkpoint!SaveReview(r)
    PROVE  RootInv'
  <1>1. CASE Checkpoint!WritePdf(r) \/ Checkpoint!WriteOverlay(r)
    <2>0. PICK name \in {"pdf", "overlay"} :
            \E c \in Checkpoint!At(r, name, "read") : Checkpoint!Save(r, c.saw)
      BY <1>1 DEF Checkpoint!WritePdf, Checkpoint!WriteOverlay
    <2>1. PICK c \in Checkpoint!At(r, name, "read") : Checkpoint!Save(r, c.saw)
      BY <2>0
    <2>2. c \in Checkpoint!Command /\ Grounded(c, promotions, reports, rewritten)
      BY <2>1, OfTheRun
    <2>3. c.saw \in [Pages -> Checkpoint!Entry]
      BY <2>2 DEF Checkpoint!Command
    <2> QED
      BY <2>1, <2>2, <2>3, SavedIsExplained DEF Grounded
  <1>2. CASE Checkpoint!Promote(r)
    <2>1. PICK c \in Checkpoint!At(r, "promote", "filed") :
            Checkpoint!Save(r, [c.saw EXCEPT ![c.page] =
                [promotion |-> promotions[c.page][c.revision],
                 state |-> "approved_for_mechanical_review", review |-> {}]])
      BY <1>2 DEF Checkpoint!Promote
    <2>2. /\ c \in Checkpoint!Command /\ Grounded(c, promotions, reports, rewritten)
          /\ c.name = "promote" /\ c.step = "filed"
      BY OfTheRun
    <2>3. c.page \in Pages /\ c.revision \in Checkpoint!Revisions
      BY <2>2 DEF Checkpoint!Command, Grounded
    <2> DEFINE e == [promotion |-> promotions[c.page][c.revision],
                     state |-> "approved_for_mechanical_review", review |-> {}]
    <2>4. e \in Checkpoint!Entry
      BY <2>3 DEF RootInv, Checkpoint!TypeOK, Checkpoint!Entry
    <2>5. /\ promotions[c.page][c.revision] # {}
          /\ \A f \in promotions[c.page][c.revision] : f.revision = c.revision
      BY <2>2, <2>3 DEF Grounded, RootInv, FiledInv
    <2>6. Explained(e, c.page, promotions, reports, rewritten)
      BY <2>5 DEF Explained
    <2>7. Checkpoint!Save(r, [c.saw EXCEPT ![c.page] = e])
      BY <2>1
    <2> HIDE DEF e
    <2> QED
      BY <2>2, <2>4, <2>6, <2>7, EntryReplaced
  <1>3. CASE Checkpoint!SaveReview(r)
    <2>1. PICK c \in Checkpoint!At(r, "review", "filed") :
            Checkpoint!Save(r, [c.saw EXCEPT ![c.page] =
                [promotion |-> @.promotion,
                 state |-> IF c.passed THEN "mechanical_reviewed"
                           ELSE "mechanical_review_failed",
                 review |-> reports[c.page][c.revision]]])
      BY <1>3 DEF Checkpoint!SaveReview
    <2>2. /\ c \in Checkpoint!Command /\ Grounded(c, promotions, reports, rewritten)
          /\ c.name = "review" /\ c.step = "filed"
      BY OfTheRun
    <2>3. /\ c.page \in Pages /\ c.revision \in Checkpoint!Revisions /\ c.passed \in BOOLEAN
          /\ c.saw \in [Pages -> Checkpoint!Entry]
      BY <2>2 DEF Checkpoint!Command, Grounded
    <2> DEFINE old == c.saw[c.page]
               e == [promotion |-> old.promotion,
                     state |-> IF c.passed THEN "mechanical_reviewed"
                               ELSE "mechanical_review_failed",
                     review |-> reports[c.page][c.revision]]
    <2>4. Checkpoint!Save(r, [c.saw EXCEPT ![c.page] = e])
      BY <2>1, <2>3
    <2>5. old \in Checkpoint!Entry /\ Explained(old, c.page, promotions, reports, rewritten)
      BY <2>2, <2>3 DEF Grounded
    <2>6. e \in Checkpoint!Entry
      BY <2>3, <2>5 DEF RootInv, Checkpoint!TypeOK, Checkpoint!Entry
    <2>7. /\ reports[c.page][c.revision] # {}
          /\ \/ <<c.page, c.revision>> \in rewritten
             \/ \A w \in reports[c.page][c.revision] : w.passed = c.passed
          /\ old.promotion # {} /\ \A f \in old.promotion : f.revision = c.revision
      BY <2>2 DEF Grounded
    <2>8. \A w \in reports[c.page][c.revision] :
            reports[c.page][c.revision] = {w} /\ w.of.revision = c.revision
            /\ w \in Checkpoint!Review
      BY <2>3 DEF RootInv, FiledInv, Checkpoint!TypeOK
    <2>9. e.promotion = old.promotion /\ e.review = reports[c.page][c.revision]
          /\ e.state = IF c.passed THEN "mechanical_reviewed" ELSE "mechanical_review_failed"
      OBVIOUS
    <2> HIDE DEF e, old
    <2>10. \A w \in e.review :
             /\ \/ <<c.page, w.of.revision>> \in rewritten
                \/ /\ reports[c.page][w.of.revision] = {w}
                   /\ w.passed <=> e.state = "mechanical_reviewed"
             /\ reports[c.page][w.of.revision] # {}
             /\ \A f \in e.promotion : w.of.revision = f.revision
      BY <2>3, <2>7, <2>8, <2>9 DEF Checkpoint!Review
    <2>11. /\ e.state = "needs_review" <=> e.promotion = {}
           /\ \A f \in e.promotion : promotions[c.page][f.revision] # {}
           /\ \A f, g \in e.promotion : f.revision = g.revision
           /\ e.state \in {"needs_review", "approved_for_mechanical_review"} <=> e.review = {}
      BY <2>5, <2>7, <2>9 DEF Explained
    <2>12. Explained(e, c.page, promotions, reports, rewritten)
      BY <2>10, <2>11 DEF Explained
    <2> QED
      BY <2>2, <2>4, <2>6, <2>12, EntryReplaced
  <1> QED
    BY <1>1, <1>2, <1>3

\* Drawings are edited, approvals withdrawn.
LEMMA PagesEdited ==
    ASSUME RootInv, RootBounds, NEW p \in Pages,
           Checkpoint!EditLayout(p) \/ Checkpoint!WithdrawApproval(p)
    PROVE  RootInv'
  <1>1. UNCHANGED <<cManifest, promotions, reports, rewritten, run>>
    BY DEF Checkpoint!EditLayout, Checkpoint!WithdrawApproval, Checkpoint!files
  <1>2. layout[p] \in 0..MaxEdits
    BY DEF RootInv, Checkpoint!TypeOK, Checkpoint!Versions
  <1>3. layout' \in [Pages -> Checkpoint!Versions]
    <2>1. CASE Checkpoint!EditLayout(p)
      <3>1. layout[p] < MaxEdits
        BY <1>2, <2>1 DEF RootBounds, Checkpoint!EditLayout, Checkpoint!Edits
      <3>2. layout[p] + 1 \in Checkpoint!Versions
        BY <1>2, <3>1 DEF RootBounds, Checkpoint!Versions
      <3>3. layout' = [layout EXCEPT ![p] = layout[p] + 1]
        BY <2>1 DEF Checkpoint!EditLayout
      <3> QED
        BY <3>2, <3>3 DEF RootInv, Checkpoint!TypeOK
    <2>2. CASE Checkpoint!WithdrawApproval(p)
      BY <2>2 DEF Checkpoint!WithdrawApproval, RootInv, Checkpoint!TypeOK
    <2> QED
      BY <2>1, <2>2
  <1>4. cBound' \in [Pages -> BOOLEAN]
    BY DEF Checkpoint!EditLayout, Checkpoint!WithdrawApproval, RootInv, Checkpoint!TypeOK
  <1>5. Checkpoint!TypeOK'
    BY <1>1, <1>3, <1>4 DEF RootInv, Checkpoint!TypeOK
  <1>6. FiledInv' /\ CommandsInv' /\ KnownInv'
    BY <1>1 DEF RootInv, FiledInv, CommandsInv, KnownInv
  <1> QED
    BY <1>5, <1>6 DEF RootInv

\* The invariant of a fidelity root is inductive.
LEMMA RootInvariant ==
    ASSUME RootBounds
    PROVE  Checkpoint!Spec => []RootInv
  <1>1. Checkpoint!Init => RootInv
    BY RootStarts
  <1>2. ASSUME RootInv, Checkpoint!Next
        PROVE  RootInv'
    <2>1. ASSUME NEW r \in Runs, Checkpoint!Stop(r)
          PROVE  RootInv'
      <3>1. /\ run' = [run EXCEPT ![r] = {}]
            /\ UNCHANGED <<cManifest, promotions, reports, rewritten, layout, cBound>>
        BY <2>1 DEF Checkpoint!Stop, Checkpoint!files, Checkpoint!pages
      <3> QED
        BY <1>2, <3>1, OnlyCommand
    <2>2. ASSUME NEW r \in Runs, Checkpoint!StartPdf(r) \/ Checkpoint!StartOverlay(r)
          PROVE  RootInv'
      <3>1. PICK p \in Pages : TRUE
        BY DEF RootBounds
      <3> QED
        BY <1>2, <2>2, <3>1, CommandStarts
    <2> QED
      BY <1>2, <2>1, <2>2, CommandStarts, CommandAdvances, PromotionFiled, ReviewFiled,
         ManifestWritten, PagesEdited DEF Checkpoint!Next
  <1>3. ASSUME RootInv, UNCHANGED Checkpoint!vars
        PROVE  RootInv'
    <2>1. UNCHANGED <<cManifest, layout, cBound, promotions, reports, rewritten, run>>
      BY <1>3 DEF Checkpoint!vars, Checkpoint!files, Checkpoint!pages
    <2> QED
      BY <1>3, <2>1 DEF RootInv, Checkpoint!TypeOK, FiledInv, CommandsInv, KnownInv
  <1> QED
    BY <1>1, <1>2, <1>3, PTL DEF Checkpoint!Spec

\* What the manifest of a fidelity root says of a page is backed by files,
\* whichever commands interleave, write an older manifest back or are killed.
THEOREM RootIsExplained ==
    ASSUME RootBounds
    PROVE  Checkpoint!Spec => []ManifestIsExplained
  <1>1. RootInv => ManifestIsExplained
    BY DEF RootInv, KnownInv, Explained, ManifestIsExplained, Checkpoint!ManifestIsExplained
  <1> QED
    BY <1>1, RootInvariant, PTL
=============================================================================
