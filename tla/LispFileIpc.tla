---------------------------- MODULE LispFileIpc ----------------------------
(***************************************************************************)
(* The File IPC channel between Python clients and the AutoLISP dispatcher *)
(* inside AutoCAD: FileIPCMCPClient._dispatch of mcp_client.py on one      *)
(* side, c:mcp-dispatch and the deferred close of mcp_dispatch.lsp on the  *)
(* other.  They share one directory and a queue of typed commands.         *)
(*                                                                         *)
(* Kept: every file operation is a step of its own, so that a call that    *)
(* gives up can remove its files under a dispatcher that still works on    *)
(* them; commands that wait in AutoCAD after their call has ended; the     *)
(* owner that a deferred close reserves; every error path.                 *)
(* Abstracted: a directory listing is one read; the two sides agree on     *)
(* what a file contains; a call that is refused leaves no trace and is not *)
(* a step.  External: AutoCAD, which may fail an operation, cancel a       *)
(* running expression, or refuse to open or rename a file.                 *)
(***************************************************************************)
EXTENDS Naturals, FiniteSets

CONSTANTS
    Clients,    \* Python processes (or threads) that use the directory
    Operations, \* kinds of commands the clients send, a subset of {"query", "edit", "close"}
    MaxCalls,   \* bound: requests sent
    MaxFaults   \* bound: kills, cancellations, files that cannot be written, renamed or deleted

ASSUME LispBounds ==
    /\ MaxCalls \in Nat /\ MaxFaults \in Nat
    /\ Operations \subseteq {"query", "edit", "close"}

Ids == 1..MaxCalls

VARIABLES
    \* the directory
    requests, requestParts,     \* autocad_mcp_cmd_<id>.json and .json.part
    result, resultParts,        \* autocad_mcp_result_<id>.json, "none" if absent, and .json.part
    \* the clients
    client,     \* the step and the request of each client
    op,         \* the command of each request
    outcome,    \* how the call that sent a request ended
    \* AutoCAD
    commands,   \* (c:mcp-dispatch) commands typed and not yet read
    lisp,       \* the dispatcher's step, its request and the envelope it writes
    owner,      \* *mcp-pending-result-owner*, 0 for nil
    reactor,    \* the deferred close that waits for the end of the expression, 0 if none
    done,       \* history: how often the effect of a request has happened
    \* faults
    kept,       \* history: requests of which a client could not delete a file
    faults

directory == <<requests, requestParts, result, resultParts>>
calls == <<client, op, outcome>>
autocad == <<lisp, owner, reactor, done>>
vars == <<directory, calls, commands, autocad, kept, faults>>

Idle == [pc |-> "idle", id |-> 0]
Asleep == [pc |-> "idle", id |-> 0, envelope |-> "none"]

Init ==
    /\ requests = {} /\ requestParts = {} /\ resultParts = {}
    /\ result = [i \in Ids |-> "none"]
    /\ client = [c \in Clients |-> Idle]
    /\ op = [i \in Ids |-> "none"]
    /\ outcome = [i \in Ids |-> "unsent"]
    /\ commands = 0
    /\ lisp = Asleep
    /\ owner = 0 /\ reactor = 0
    /\ done = [i \in Ids |-> 0]
    /\ kept = {} /\ faults = 0

Results == {i \in Ids : result[i] # "none"}

Fault == faults < MaxFaults /\ faults' = faults + 1

-----------------------------------------------------------------------------
(* A client. *)

At(c, step) == client[c].pc = step

Goto(c, step) == client' = [client EXCEPT ![c].pc = step]

End(c, how) ==
    /\ client' = [client EXCEPT ![c].pc = "unlink request"]
    /\ outcome' = [outcome EXCEPT ![client[c].id] = how]
    /\ UNCHANGED op

\* No request, no result, no part of either.
ChannelFree == requests = {} /\ requestParts = {} /\ Results = {} /\ resultParts = {}

\* The listings of _dispatch find nothing and the call takes a fresh id.
Begin(c) ==
    /\ At(c, "idle")
    /\ ChannelFree
    /\ \E i \in Ids, o \in Operations :
         /\ outcome[i] = "unsent"
         /\ \A j \in 1..(i - 1) : outcome[j] # "unsent"
         /\ client' = [client EXCEPT ![c] = [pc |-> "part", id |-> i]]
         /\ op' = [op EXCEPT ![i] = o]
         /\ outcome' = [outcome EXCEPT ![i] = "waiting"]
    /\ UNCHANGED <<directory, commands, autocad, kept, faults>>

WritePart(c) ==
    /\ At(c, "part")
    /\ requestParts' = requestParts \cup {client[c].id}
    /\ Goto(c, "rename")
    /\ UNCHANGED <<requests, result, resultParts, op, outcome, commands, autocad, kept, faults>>

Publish(c) ==
    /\ At(c, "rename")
    /\ requestParts' = requestParts \ {client[c].id}
    /\ requests' = requests \cup {client[c].id}
    /\ Goto(c, "trigger")
    /\ UNCHANGED <<result, resultParts, op, outcome, commands, autocad, kept, faults>>

Trigger(c) ==
    /\ At(c, "trigger")
    /\ commands' = commands + 1
    /\ Goto(c, "poll")
    /\ UNCHANGED <<directory, op, outcome, autocad, kept, faults>>

\* The call's own result, and no other, is there.
Receive(c) ==
    /\ At(c, "poll")
    /\ Results = {client[c].id}
    /\ End(c, result[client[c].id])
    /\ UNCHANGED <<directory, commands, autocad, kept, faults>>

\* The call ends without an answer: the time is over, another call's result
\* is there, or a file operation or the trigger has raised.
GiveUp(c) ==
    /\ client[c].pc \in {"part", "rename", "trigger", "poll"}
    /\ End(c, "unanswered")
    /\ UNCHANGED <<directory, commands, autocad, kept, faults>>

Unlinked(c) == kept' = kept /\ faults' = faults

NotUnlinked(c) ==
    /\ Fault
    /\ kept' = kept \cup {client[c].id}
    /\ UNCHANGED directory

\* The finally clause: the request and its part, the part of the result, the
\* result.  An OSError is ignored.
UnlinkRequest(c) ==
    /\ At(c, "unlink request")
    /\ \/ /\ requests' = requests \ {client[c].id}
          /\ requestParts' = requestParts \ {client[c].id}
          /\ UNCHANGED <<result, resultParts>>
          /\ Unlinked(c)
       \/ NotUnlinked(c)
    /\ Goto(c, "unlink part")
    /\ UNCHANGED <<op, outcome, commands, autocad>>

UnlinkPart(c) ==
    /\ At(c, "unlink part")
    /\ \/ /\ resultParts' = resultParts \ {client[c].id}
          /\ UNCHANGED <<requests, requestParts, result>>
          /\ Unlinked(c)
       \/ NotUnlinked(c)
    /\ Goto(c, "unlink result")
    /\ UNCHANGED <<op, outcome, commands, autocad>>

UnlinkResult(c) ==
    /\ At(c, "unlink result")
    /\ \/ /\ result' = [result EXCEPT ![client[c].id] = "none"]
          /\ UNCHANGED <<requests, requestParts, resultParts>>
          /\ Unlinked(c)
       \/ NotUnlinked(c)
    /\ client' = [client EXCEPT ![c] = Idle]
    /\ UNCHANGED <<op, outcome, commands, autocad>>

\* The process ends in the middle of a call; a later process takes its place.
Kill(c) ==
    /\ ~ At(c, "idle")
    /\ Fault
    /\ client' = [client EXCEPT ![c] = Idle]
    /\ outcome' = [outcome EXCEPT ![client[c].id] = IF @ = "waiting" THEN "unanswered" ELSE @]
    /\ kept' = kept \cup {client[c].id}
    /\ UNCHANGED <<directory, op, commands, autocad>>

-----------------------------------------------------------------------------
(* AutoCAD. *)

Lisp(step) == lisp.pc = step

LispGoto(step) == lisp' = [lisp EXCEPT !.pc = step]

Stop == lisp' = Asleep

Answer(step, envelope) == lisp' = [lisp EXCEPT !.pc = step, !.envelope = envelope]

\* The result slot of a request is free.
SlotFree(i) == result[i] = "none" /\ i \notin resultParts

\* c:mcp-dispatch takes the only request, if nobody is writing.
Scan ==
    /\ Lisp("idle") /\ reactor = 0
    /\ commands > 0
    /\ commands' = commands - 1
    /\ IF requestParts = {} /\ resultParts = {} /\ Cardinality(requests) = 1
         THEN \E i \in requests : lisp' = [pc |-> "read", id |-> i, envelope |-> "none"]
         ELSE Stop
    /\ UNCHANGED <<directory, calls, owner, reactor, done, kept, faults>>

\* mcp-dispatch-core reads the request, which may be gone.
Read ==
    /\ Lisp("read")
    /\ IF lisp.id \in requests THEN LispGoto("check") ELSE Answer("report", "failed")
    /\ UNCHANGED <<directory, calls, commands, owner, reactor, done, kept, faults>>

\* Mutant: a request is executed whether or not its result stands.
CheckNothing ==
    /\ Lisp("check")
    /\ LispGoto("execute")
    /\ UNCHANGED <<directory, calls, commands, owner, reactor, done, kept, faults>>

\* It refuses while a close is pending or the request has a result.
Check ==
    /\ Lisp("check")
    /\ IF owner = 0 /\ SlotFree(lisp.id)
         THEN LispGoto("execute") ELSE Answer("report", "failed")
    /\ UNCHANGED <<directory, calls, commands, owner, reactor, done, kept, faults>>

Happens(i) == done' = [done EXCEPT ![i] = @ + 1]

\* A query or an edit; one that fails may have had its effect.
Execute ==
    /\ Lisp("execute")
    /\ op[lisp.id] # "close"
    /\ \/ Answer("report", "failed") /\ UNCHANGED done
       \/ /\ \E envelope \in {"ok", "failed"} :
               Answer(IF envelope = "ok" THEN "write" ELSE "report", envelope)
          /\ Happens(lisp.id)
    /\ UNCHANGED <<directory, calls, commands, owner, reactor, kept, faults>>

\* Mutant: the close happens at once and is not held by an owner.
CloseNow ==
    /\ Lisp("execute")
    /\ op[lisp.id] = "close"
    /\ Happens(lisp.id)
    /\ Answer("write", "ok")
    /\ UNCHANGED <<directory, calls, commands, owner, reactor, kept, faults>>

\* mcp-defer-drawing-close reserves the owner and leaves the close to a
\* reactor, unless AutoCAD refuses the reactor.
DeferClose ==
    /\ Lisp("execute")
    /\ op[lisp.id] = "close"
    /\ \/ Answer("report", "failed") /\ UNCHANGED <<owner, reactor>>
       \/ owner' = lisp.id /\ reactor' = lisp.id /\ Stop
    /\ UNCHANGED <<directory, calls, commands, done, kept, faults>>

\* c:mcp-dispatch writes a failure, unless the close of this request is
\* pending or its result stands.
Report ==
    /\ Lisp("report")
    /\ IF owner # lisp.id /\ result[lisp.id] = "none" THEN LispGoto("write") ELSE Stop
    /\ UNCHANGED <<directory, calls, commands, owner, reactor, done, kept, faults>>

\* mcp-deferred-drawing-close at the end of the expression, or on its
\* cancellation.
React ==
    /\ Lisp("idle") /\ reactor # 0
    /\ reactor' = 0
    /\ LET Reply(envelope) == lisp' = [pc |-> "write", id |-> reactor, envelope |-> envelope] IN
       IF SlotFree(reactor)
         THEN \/ Reply("ok") /\ Happens(reactor)
              \/ Reply("failed") /\ UNCHANGED done
         ELSE Stop /\ UNCHANGED done
    /\ UNCHANGED <<directory, calls, commands, owner, kept, faults>>

\* mcp-write-result has returned nil: the failure of a success is reported,
\* a pending close only prints it, and keeps its owner.
NotWritten ==
    IF lisp.envelope = "ok" /\ owner # lisp.id THEN Answer("report", "failed") ELSE Stop

\* mcp-write-result: check the slot and write the part.
WriteResultPart ==
    /\ Lisp("write")
    /\ \/ /\ SlotFree(lisp.id)
          /\ resultParts' = resultParts \cup {lisp.id}
          /\ LispGoto("rename")
          /\ UNCHANGED faults
       \/ /\ ~ SlotFree(lisp.id)
          /\ NotWritten
          /\ UNCHANGED <<resultParts, faults>>
       \/ Fault /\ NotWritten /\ UNCHANGED resultParts
    /\ UNCHANGED <<requests, requestParts, result, calls, commands, owner, reactor, done, kept>>

\* Mutant: the owner stays reserved after the result is committed.
CommitAndHold ==
    /\ Lisp("rename")
    /\ IF lisp.id \in resultParts
         THEN result' = [result EXCEPT ![lisp.id] = lisp.envelope] /\ Stop
         ELSE UNCHANGED result /\ NotWritten
    /\ resultParts' = resultParts \ {lisp.id}
    /\ UNCHANGED <<requests, requestParts, calls, commands, owner, reactor, done, kept, faults>>

\* mcp-write-result renames the part, which may be gone; then the owner of a
\* deferred close is released.
Commit ==
    /\ Lisp("rename")
    /\ \/ /\ lisp.id \in resultParts
          /\ result' = [result EXCEPT ![lisp.id] = lisp.envelope]
          /\ resultParts' = resultParts \ {lisp.id}
          /\ owner' = IF owner = lisp.id THEN 0 ELSE owner
          /\ Stop
          /\ UNCHANGED faults
       \/ /\ \/ lisp.id \notin resultParts /\ UNCHANGED faults
             \/ Fault
          /\ NotWritten
          /\ UNCHANGED <<result, resultParts, owner>>
    /\ UNCHANGED <<requests, requestParts, calls, commands, reactor, done, kept>>

\* The user, or the escapes typed before a later command, cancel the
\* expression that runs.
Cancel ==
    /\ ~ Lisp("idle")
    /\ Fault
    /\ Stop
    /\ UNCHANGED <<directory, calls, commands, owner, reactor, done, kept>>

-----------------------------------------------------------------------------
Call(c) ==
    \/ Begin(c) \/ WritePart(c) \/ Publish(c) \/ Trigger(c) \/ Receive(c) \/ GiveUp(c)
    \/ UnlinkRequest(c) \/ UnlinkPart(c) \/ UnlinkResult(c)

Dispatch ==
    \/ Scan \/ Read \/ Check \/ Execute \/ DeferClose \/ Report
    \/ React \/ WriteResultPart \/ Commit

Next == Dispatch \/ Cancel \/ \E c \in Clients : Call(c) \/ Kill(c)

Spec == Init /\ [][Next]_vars

\* AutoCAD goes on with an expression it has begun.
FairSpec == Spec /\ WF_vars(Dispatch)

-----------------------------------------------------------------------------
(* Properties. *)

TypeOK ==
    /\ requests \subseteq Ids /\ requestParts \subseteq Ids /\ resultParts \subseteq Ids
    /\ result \in [Ids -> {"none", "ok", "failed"}]
    /\ client \in [Clients ->
         [pc : {"idle", "part", "rename", "trigger", "poll",
                "unlink request", "unlink part", "unlink result"}, id : 0..MaxCalls]]
    /\ op \in [Ids -> Operations \cup {"none"}]
    /\ outcome \in [Ids -> {"unsent", "waiting", "ok", "failed", "unanswered"}]
    /\ commands \in 0..MaxCalls
    /\ lisp \in [pc : {"idle", "read", "check", "execute", "report", "write", "rename"},
                 id : 0..MaxCalls, envelope : {"none", "ok", "failed"}]
    /\ owner \in 0..MaxCalls /\ reactor \in {0, owner}
    /\ done \in [Ids -> Nat]
    /\ kept \subseteq Ids /\ faults \in 0..MaxFaults

\* Every call so far has been answered, or waits.
Undisturbed == \A i \in Ids : outcome[i] # "unanswered"

\* While no call has ended without an answer, no request has its effect
\* twice, however the files of two clients and the dispatcher interleave.
OnceUnlessDisturbed == Undisturbed => \A i \in Ids : done[i] <= 1

\* While its caller still waits, a request has had its effect at most once,
\* even when commands typed for earlier calls reach the dispatcher late: the
\* result, its part or the owner of the close refuses the second execution.
\* (An edit whose result could not be written may be executed again.)
OnceWhileWaiting ==
    faults = 0 => \A i \in Ids : outcome[i] = "waiting" => done[i] <= 1

\* What a caller is told is true when it is told: "ok" means that the effect
\* has happened, and a close that is reported to have failed has not
\* happened.
AnswersAreTrue ==
    [][\A i \in Ids : outcome[i] = "waiting" =>
         /\ outcome'[i] = "ok" => done[i] > 0
         /\ outcome'[i] = "failed" /\ op[i] = "close" => done[i] = 0]_vars

\* A close that has happened while its caller waits is known: its result is
\* being written, is there, or its owner still keeps every other command
\* from being executed.
CloseIsHeld ==
    \A i \in Ids :
        op[i] = "close" /\ done[i] > 0 /\ outcome[i] = "waiting" =>
            \/ lisp.id = i
            \/ result[i] # "none"
            \/ owner = i

\* When everybody is at rest, a file left in the directory belongs to a call
\* that was not answered, or that could not delete it -- or some earlier
\* call was not answered and its command came late.
LeftoverIsExplained ==
    (\A c \in Clients : At(c, "idle")) /\ Lisp("idle") /\ reactor = 0 /\ commands = 0 /\ Undisturbed
        => requests \cup requestParts \cup Results \cup resultParts \subseteq kept

\* A reserved owner is released in the end, unless its caller gave up or a
\* fault kept the result from being written.
OwnerIsReleased ==
    \A i \in Ids : (owner = i) ~> (owner # i \/ outcome[i] = "unanswered" \/ faults > 0)

\* The shared directory is sound: a request has its effect once, a close that
\* happened holds the channel, and a file left behind has its reason.
ChannelIsSound ==
    TypeOK /\ OnceUnlessDisturbed /\ OnceWhileWaiting /\ CloseIsHeld /\ LeftoverIsExplained
=============================================================================
