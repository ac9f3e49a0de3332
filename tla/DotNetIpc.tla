------------------------------ MODULE DotNetIpc ------------------------------
(***************************************************************************)
(* The .NET FileIPC bridge: Python clients (mcp_integration_lib/           *)
(* dotnet_ipc.py, DotNetIPCClient) and the AutoCAD plug-in that serves     *)
(* the CADAGENT_DISPATCH command share one directory.  A client writes a   *)
(* request file, posts the command to AutoCAD's window and polls for the   *)
(* result file; the command serves the pending request whose id is first   *)
(* in ordinal order, writes its result file and never deletes a request.   *)
(*                                                                         *)
(* Kept: every file operation of both sides as a step of its own, the      *)
(* queue of posted commands, timeouts, failed triggers, failed result      *)
(* writes, restarts of AutoCAD, the SHA-256 guard of the native edit and   *)
(* the close that is deferred to AutoCAD's Idle event.                     *)
(* Abstracted: a request id is a natural number (its ordinal rank), the    *)
(* bytes of a request are its serial number, its operation and the drawing *)
(* hash it was issued for, and the drawing's SHA-256 is a counter that     *)
(* every save advances (a save never reproduces earlier bytes).            *)
(***************************************************************************)
EXTENDS Naturals, FiniteSets

CONSTANTS
    Clients,        \* callers of DotNetIPCClient.request
    RequestIds,     \* ordinal ranks of the request ids
    Ops,            \* operations used, of "read", "edit", "close", "export"
    MaxIssues,      \* bound: requests issued in a behaviour
    MaxCrashes,     \* bound: restarts of AutoCAD
    CallerNamesIds, \* TRUE: the caller may pass a request_id used before
    NoFile

ASSUME RequestIdsAssumption == RequestIds \subseteq Nat
ASSUME OpsAssumption == Ops \subseteq {"read", "edit", "close", "export"}
ASSUME BoundsAssumption == MaxIssues \in Nat /\ MaxCrashes \in Nat
ASSUME CallerAssumption == CallerNamesIds \in BOOLEAN

VARIABLES
    request,    \* cadagent_dotnet_request_<id>.json
    result,     \* cadagent_dotnet_result_<id>.json
    client,     \* the call each client is in
    commands,   \* CADAGENT_DISPATCH commands posted and not yet started
    plugin,     \* the command AutoCAD is executing
    drawing,    \* the candidate: open in AutoCAD?, SHA-256 on disk
    closing,    \* Idle handlers subscribed by OneShotIdleCloseScheduler
    issued,     \* serial of the last request issued
    usedIds,    \* ids of the requests issued so far
    crashes,
    fate,       \* history: how the call with each serial ended
    writes,     \* history: the executions that wrote the drawing
    persisted   \* history: serials whose successful close was persisted

files == <<request, result>>
caller == <<client, issued, usedIds, fate>>
cad == <<drawing, writes>>
vars == <<files, caller, cad, commands, plugin, closing, crashes, persisted>>

Serials == 1..MaxIssues
\* One execution that wrote: whose edit, bound to which bytes, over which bytes.
Writes == [serial : Serials, base : Nat, over : Nat]
States == {"SAVED", "UNCHANGED", "ROLLED_BACK", "UNCERTAIN", "none"}
Bodies == [serial : Serials, op : Ops, base : Nat]
Replies == [serial : Serials \cup {0}, op : Ops \cup {"health"}, success : BOOLEAN, state : States]

\* An absent file is none of the files either side writes.
ASSUME NoFileAssumption == NoFile \notin Bodies \cup Replies

\* Stand for the fields that hold nothing yet.
NoBody == [serial |-> 0, op |-> "health", base |-> 0]
NoReply == [serial |-> 0, op |-> "health", success |-> FALSE, state |-> "none"]
IdleClient == [pc |-> "idle", id |-> 0, body |-> NoBody, reply |-> NoReply]
IdlePlugin == [pc |-> "idle", id |-> 0, body |-> NoBody, reply |-> NoReply]

ClientPcs == {"idle", "unlinked", "written", "polling", "cleaning", "request_gone"}
PluginPcs == {"idle", "picked", "read", "replied"}
Fates == {"none", "pending", "answered", "failed", "timeout"}

Init ==
    /\ request = [id \in RequestIds |-> NoFile]
    /\ result = [id \in RequestIds |-> NoFile]
    /\ client = [c \in Clients |-> IdleClient]
    /\ commands = 0
    /\ plugin = IdlePlugin
    /\ drawing = [open |-> TRUE, sha |-> 0]
    /\ closing = 0
    /\ issued = 0
    /\ usedIds = {}
    /\ crashes = 0
    /\ fate = [s \in Serials |-> "none"]
    /\ writes = {}
    /\ persisted = {}

-----------------------------------------------------------------------------
(* DotNetIPCClient.request and visual_evidence_export *)

InUse(id) == \E c \in Clients : client[c].pc # "idle" /\ client[c].id = id

\* The prologue of request(): a fresh uuid4, or an id the caller passes, whose
\* old result is unlinked.  The request is bound to the bytes on disk now.
Begin(c, id, op) ==
    /\ client[c].pc = "idle"
    /\ issued < MaxIssues
    /\ ~InUse(id)
    /\ CallerNamesIds \/ id \notin usedIds
    /\ issued' = issued + 1
    /\ usedIds' = usedIds \cup {id}
    /\ client' = [client EXCEPT ![c] =
         [pc |-> "unlinked", id |-> id, reply |-> NoReply,
          body |-> [serial |-> issued + 1, op |-> op, base |-> drawing.sha]]]
    /\ result' = [result EXCEPT ![id] = NoFile]
    /\ fate' = [fate EXCEPT ![issued + 1] = "pending"]
    /\ UNCHANGED <<request, cad, commands, plugin, closing, crashes, persisted>>

\* atomic_write_json: temporary file, then replace.
WriteRequest(c) ==
    /\ client[c].pc = "unlinked"
    /\ request' = [request EXCEPT ![client[c].id] = client[c].body]
    /\ client' = [client EXCEPT ![c].pc = "written"]
    /\ UNCHANGED <<result, issued, usedIds, fate, cad, commands, plugin, closing,
                   crashes, persisted>>

\* trigger(): the command's characters reach AutoCAD's message queue ...
Trigger(c) ==
    /\ client[c].pc = "written"
    /\ commands' = commands + 1
    /\ client' = [client EXCEPT ![c].pc = "polling"]
    /\ UNCHANGED <<files, issued, usedIds, fate, cad, plugin, closing, crashes, persisted>>

\* ... or the request cannot be written, or a window check fails before the
\* final carriage return is posted.
CallFails(c) ==
    /\ client[c].pc \in {"unlinked", "written"}
    /\ client' = [client EXCEPT ![c].pc = "cleaning"]
    /\ fate' = [fate EXCEPT ![client[c].body.serial] = "failed"]
    /\ UNCHANGED <<files, issued, usedIds, cad, commands, plugin, closing, crashes, persisted>>

\* _poll_result finds the result: one of another operation, or one that cannot
\* be read, is refused, and a success=false result is raised as an error that
\* carries it.
TakeResult(c) ==
    LET reply == result[client[c].id]
    IN  /\ client[c].pc = "polling"
        /\ reply # NoFile
        /\ \E accepted \in {reply.op = client[c].body.op, FALSE} :
             /\ client' = [client EXCEPT ![c].pc = "cleaning",
                                         ![c].reply = IF accepted THEN reply ELSE NoReply]
             /\ fate' = [fate EXCEPT ![client[c].body.serial] =
                           IF accepted THEN "answered" ELSE "failed"]
        /\ UNCHANGED <<files, issued, usedIds, cad, commands, plugin, closing, crashes, persisted>>

\* Mutant: the deadline is only looked at while the command has not started.
TimeOutOnlyQueued(c) ==
    /\ commands > 0
    /\ client[c].pc = "polling"
    /\ result[client[c].id] = NoFile
    /\ client' = [client EXCEPT ![c].pc = "idle"]
    /\ fate' = [fate EXCEPT ![client[c].body.serial] = "timeout"]
    /\ UNCHANGED <<files, issued, usedIds, cad, commands, plugin, closing, crashes, persisted>>

\* The deadline passes with no result in sight.  request() keeps the pair;
\* visual_evidence_export has no such exception and cleans it up.
TimeOut(c) ==
    /\ client[c].pc = "polling"
    /\ result[client[c].id] = NoFile
    /\ client' = [client EXCEPT ![c].pc =
                    IF client[c].body.op = "export" THEN "cleaning" ELSE "idle"]
    /\ fate' = [fate EXCEPT ![client[c].body.serial] = "timeout"]
    /\ UNCHANGED <<files, issued, usedIds, cad, commands, plugin, closing, crashes, persisted>>

\* cleanup_request_files: the request first, then the result.
UnlinkRequest(c) ==
    /\ client[c].pc = "cleaning"
    /\ request' = [request EXCEPT ![client[c].id] = NoFile]
    /\ client' = [client EXCEPT ![c].pc = "request_gone"]
    /\ UNCHANGED <<result, issued, usedIds, fate, cad, commands, plugin, closing,
                   crashes, persisted>>

UnlinkResult(c) ==
    /\ client[c].pc = "request_gone"
    /\ result' = [result EXCEPT ![client[c].id] = NoFile]
    /\ client' = [client EXCEPT ![c].pc = "idle"]
    /\ UNCHANGED <<request, issued, usedIds, fate, cad, commands, plugin, closing,
                   crashes, persisted>>

-----------------------------------------------------------------------------
(* CADAGENT_DISPATCH, one command at a time on AutoCAD's main thread *)

Pending == {id \in RequestIds : request[id] # NoFile}

IsFirst(id, ids) == id \in ids /\ \A other \in ids : id <= other

\* GetPendingRequestIds().FirstOrDefault(): whether a result already exists
\* is not looked at.  With nothing pending, or no document for CreateLive to
\* work on, the command ends.
Pick ==
    /\ plugin.pc = "idle"
    /\ commands > 0
    /\ commands' = commands - 1
    /\ \/ \E id \in RequestIds :
            /\ IsFirst(id, Pending)
            /\ plugin' = [plugin EXCEPT !.pc = "picked", !.id = id]
       \/ (Pending = {} \/ ~drawing.open) /\ UNCHANGED plugin
    /\ UNCHANGED <<files, caller, cad, closing, crashes, persisted>>

\* ReadRequestForDispatch; a file unlinked since it was listed becomes a
\* failed "health" result for its id.
ReadRequest ==
    /\ plugin.pc = "picked"
    /\ plugin' = IF request[plugin.id] = NoFile
                   THEN [plugin EXCEPT !.pc = "replied", !.reply = NoReply]
                   ELSE [plugin EXCEPT !.pc = "read", !.body = request[plugin.id]]
    /\ UNCHANGED <<files, caller, cad, commands, closing, crashes, persisted>>

Reply(success, state) ==
    [serial |-> plugin.body.serial, op |-> plugin.body.op, success |-> success, state |-> state]

Answer(reply) == plugin' = [plugin EXCEPT !.pc = "replied", !.reply = reply]

\* TryMatchActiveDocument, and any exception a handler raises.
Refuse ==
    /\ plugin.pc = "read"
    /\ Answer(Reply(FALSE, "none"))
    /\ UNCHANGED <<files, caller, cad, commands, closing, crashes, persisted>>

\* health, review, mechanical_bom, drawing_setup_audit, the two render and
\* evidence exports; close_disposable only reports, the close comes later.
Serve ==
    /\ plugin.pc = "read"
    /\ drawing.open
    /\ plugin.body.op # "edit"
    /\ Answer(Reply(TRUE, "none"))
    /\ UNCHANGED <<files, caller, cad, commands, closing, crashes, persisted>>

\* AcquireNativeEditCustody: the request file still holds the bytes that were
\* read, and cannot be replaced or deleted until the edit returns.
HasCustody == request[plugin.id] = plugin.body

\* Mutant: the drawing hash of the request is not compared with the disk.
IsCurrentUnchecked == plugin.body.base <= drawing.sha

\* The drawing hash of the request is the one on disk immediately before the edit.
IsCurrent == plugin.body.base = drawing.sha

Save ==
    /\ drawing' = [drawing EXCEPT !.sha = @ + 1]
    /\ writes' = writes \cup
         {[serial |-> plugin.body.serial, base |-> plugin.body.base, over |-> drawing.sha]}

\* DispatchBoundedNativeLineEdit, the edit itself being module NativeLineEdit:
\* it saves, saves and rolls back, leaves the file alone, or cannot tell.
EditSaves ==
    /\ plugin.pc = "read"
    /\ plugin.body.op = "edit"
    /\ drawing.open /\ HasCustody /\ IsCurrent
    /\ Save
    /\ \E state \in {"SAVED", "ROLLED_BACK", "UNCERTAIN"} :
         Answer(Reply(state = "SAVED", state))
    /\ UNCHANGED <<files, caller, commands, closing, crashes, persisted>>

\* Mutant: bytes that changed since the request are taken for its own earlier save.
EditLeavesAsSaved ==
    /\ plugin.pc = "read"
    /\ plugin.body.op = "edit"
    /\ drawing.open /\ HasCustody
    /\ IF IsCurrent THEN Answer(Reply(FALSE, "UNCHANGED")) ELSE Answer(Reply(TRUE, "SAVED"))
    /\ UNCHANGED <<files, caller, cad, commands, closing, crashes, persisted>>

EditLeaves ==
    /\ plugin.pc = "read"
    /\ plugin.body.op = "edit"
    /\ drawing.open /\ HasCustody
    /\ \E state \in IF IsCurrent THEN {"UNCHANGED", "UNCERTAIN"} ELSE {"UNCHANGED"} :
         Answer(Reply(FALSE, state))
    /\ UNCHANGED <<files, caller, cad, commands, closing, crashes, persisted>>

Reschedules == plugin.reply.success /\ plugin.reply.op = "close"

\* WriteResult, then ScheduleCloseAfterResultPersistence.
WriteResult ==
    /\ plugin.pc = "replied"
    /\ result' = [result EXCEPT ![plugin.id] = plugin.reply]
    /\ closing' = IF Reschedules THEN closing + 1 ELSE closing
    /\ persisted' = IF Reschedules THEN persisted \cup {plugin.reply.serial} ELSE persisted
    /\ plugin' = IdlePlugin
    /\ UNCHANGED <<request, caller, cad, commands, crashes>>

\* AtomicWrite throws (disk full, or the destination it saw was unlinked
\* before File.Replace): the command ends without a result.
WriteResultFails ==
    /\ plugin.pc = "replied"
    /\ plugin' = IdlePlugin
    /\ UNCHANGED <<files, caller, cad, commands, closing, crashes, persisted>>

\* AutoCAD raises Idle between commands; each handler fires once.
IdleClose ==
    /\ plugin.pc = "idle"
    /\ closing > 0
    /\ closing' = closing - 1
    /\ drawing' = [drawing EXCEPT !.open = FALSE]
    /\ UNCHANGED <<files, caller, writes, commands, plugin, crashes, persisted>>

\* AutoCAD dies and is started again, with the candidate open or not.
Restart ==
    /\ crashes < MaxCrashes
    /\ crashes' = crashes + 1
    /\ commands' = 0
    /\ plugin' = IdlePlugin
    /\ closing' = 0
    /\ \E open \in BOOLEAN : drawing' = [drawing EXCEPT !.open = open]
    /\ UNCHANGED <<files, caller, writes, persisted>>

-----------------------------------------------------------------------------

Call(c) ==
    \/ WriteRequest(c)
    \/ Trigger(c)
    \/ CallFails(c)
    \/ TakeResult(c)
    \/ TimeOut(c)
    \/ UnlinkRequest(c)
    \/ UnlinkResult(c)

Command ==
    \/ Pick
    \/ ReadRequest
    \/ Refuse
    \/ Serve
    \/ EditSaves
    \/ EditLeaves
    \/ WriteResult
    \/ WriteResultFails

Next ==
    \/ \E c \in Clients :
         \/ \E id \in RequestIds, op \in Ops : Begin(c, id, op)
         \/ Call(c)
    \/ Command
    \/ IdleClose
    \/ Restart

\* The poll loop has a deadline, so a call always takes its next step; AutoCAD
\* runs its queued commands and its Idle handlers unless it is restarted.
Fairness ==
    /\ \A c \in Clients : WF_vars(Call(c))
    /\ WF_vars(Command)
    /\ WF_vars(IdleClose)

Spec == Init /\ [][Next]_vars /\ Fairness

-----------------------------------------------------------------------------
(* What the bridge guarantees *)

TypeOK ==
    /\ request \in [RequestIds -> Bodies \cup {NoFile}]
    /\ result \in [RequestIds -> Replies \cup {NoFile}]
    /\ client \in [Clients -> [pc : ClientPcs, id : RequestIds \cup {0},
                               body : Bodies \cup {NoBody}, reply : Replies]]
    /\ commands \in Nat
    /\ plugin \in [pc : PluginPcs, id : RequestIds \cup {0},
                   body : Bodies \cup {NoBody}, reply : Replies]
    /\ drawing \in [open : BOOLEAN, sha : Nat]
    /\ closing \in Nat
    /\ issued \in 0..MaxIssues
    /\ usedIds \subseteq RequestIds
    /\ crashes \in 0..MaxCrashes
    /\ fate \in [Serials -> Fates]
    /\ writes \subseteq Writes
    /\ persisted \subseteq Serials

\* At most one edit is ever written over given drawing bytes: a request that
\* is executed again (a kept pair, a second command, a restart) finds another
\* SHA-256 on disk, and of two clients that read the same bytes one is refused.
OneEditPerDrawing ==
    \A w1, w2 \in writes : w1.base = w2.base => w1 = w2

\* The answer a call returns was computed for the request that call wrote, and
\* a SAVED answer is about a write that happened, once, over the bytes the
\* caller had read. (Of generated ids: one that a caller names twice may be
\* answered by the earlier request, after the unlink meant to prevent it.)
AnswersAreOwn ==
    \A c \in Clients :
        LET reply == client[c].reply  body == client[c].body
        IN  reply # NoReply =>
              /\ reply.serial = body.serial
              /\ reply.state = "SAVED" =>
                   {w \in writes : w.serial = body.serial} =
                     {[serial |-> body.serial, base |-> body.base, over |-> body.base]}

\* "CADAGENT_DISPATCH persists the IPC result before invoking this scheduler":
\* a handler that will close the drawing, and a drawing closed by one, come
\* after the successful result of a close request reached the directory.
CloseFollowsResult ==
    closing > 0 \/ (~drawing.open /\ crashes = 0) => persisted # {}

\* What a caller is told is what was done for it, and is on disk before a
\* close takes the drawing away.
AnswersAreTrue == AnswersAreOwn /\ CloseFollowsResult

\* Every call returns to its caller, whatever AutoCAD does.
CallsReturn == \A c \in Clients : client[c].pc # "idle" ~> client[c].pc = "idle"

-----------------------------------------------------------------------------
(* The promise itself: a register that is written by compare-and-swap. *)

Register == INSTANCE DrawingRegister WITH
    Requests <- Serials, sha <- drawing.sha, applied <- writes

WritesAreCompareAndSwap == Register!Spec
=============================================================================
