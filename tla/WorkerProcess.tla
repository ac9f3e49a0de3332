----------------------------- MODULE WorkerProcess -----------------------------
(***************************************************************************)
(* agent_lib/codex_worker_process.py: the worker process a session of      *)
(* CodexWorker starts in a Windows job, the two pipes it exchanges framed  *)
(* requests and replies with, the loop of the child that serves them, and  *)
(* the clean-up that terminates the job and verifies that it is empty.     *)
(*                                                                         *)
(* Calls share one handle and take no lock: a step of one may fall between *)
(* two of another. Every call of Windows may fail; an exchange may run out *)
(* of its deadline at any step. Abstracted: a frame is one entry of a      *)
(* pipe; process numbers are "root" and "child"; the environment and the   *)
(* paths of a launch are validated or not.                                 *)
(* CodexWorker says which calls are made and what becomes of their ends.   *)
(***************************************************************************)
EXTENDS Naturals, Sequences

CONSTANTS
    Calls,  \* calls of the session, each made once
    Turns   \* turn ids of the provider

VARIABLES
    \* Windows
    alive,      \* processes of the worker that exist
    suspended,  \* the root was created and not resumed
    member,     \* the root was assigned to the job
    job,        \* the job: "lost" where closing its handle failed
    killed,     \* it was terminated: what is alive is about to die
    \* WorkerProcessHandle
    control,    \* its pipe handles are there
    lastId,     \* _request_id
    sticky,     \* _cleanup_result, if any
    \* pipes and child
    requests, replies,
    garbled,    \* two readers have split a frame
    serving,    \* the request the child is serving, if any
    \* calls
    pc,
    id,         \* request_id of the exchange
    wire,       \* operation it requests
    reply,      \* reply it accepted, if any
    evidence    \* what the clean-up concluded

windows == <<alive, suspended, member, job, killed>>
handle == <<control, lastId, sticky>>
pipes == <<requests, replies, garbled, serving>>
exchange == <<id, wire, reply>>

Operations == {"attest", "start", "resume", "turn", "steer", "interrupt", "close"}
NoTurn == "none"
Requests == [id : Nat, op : Operations]
Replies == [id : Nat, op : Operations, out : {"good", "failed", "late", "bad"},
            turn : Turns \cup {NoTurn}]
Evidences == {"none", "proven", "failed"}

ProcessTypeOK ==
    /\ alive \subseteq {"root", "child"}
    /\ suspended \in BOOLEAN /\ member \in BOOLEAN /\ killed \in BOOLEAN
    /\ job \in {"none", "open", "closed", "lost"}
    /\ control \in BOOLEAN /\ lastId \in Nat /\ sticky \subseteq Evidences
    /\ requests \in Seq(Requests) /\ replies \in Seq(Replies) /\ garbled \in BOOLEAN
    /\ serving \subseteq Requests
    /\ id \in [Calls -> Nat]
    /\ wire \in [Calls -> Operations \cup {"none"}]
    /\ reply \in [Calls -> SUBSET Replies]
    /\ evidence \in [Calls -> Evidences]

ProcessInit ==
    /\ alive = {} /\ suspended = FALSE /\ member = FALSE /\ job = "none" /\ killed = FALSE
    /\ control = FALSE /\ lastId = 0 /\ sticky = {}
    /\ requests = <<>> /\ replies = <<>> /\ garbled = FALSE /\ serving = {}
    /\ pc = [c \in Calls |-> "idle"]
    /\ id = [c \in Calls |-> 0]
    /\ wire = [c \in Calls |-> "none"]
    /\ reply = [c \in Calls |-> {}]
    /\ evidence = [c \in Calls |-> "none"]

-----------------------------------------------------------------------------
At(c, step) == pc[c] = step
Goto(c, step) == pc' = [pc EXCEPT ![c] = step]

\* Nothing of the exchanges of a call is used any more.
Forget(c) ==
    /\ id' = [id EXCEPT ![c] = 0]
    /\ wire' = [wire EXCEPT ![c] = "none"]
    /\ reply' = [reply EXCEPT ![c] = {}]

\* A call ends.
Quit(c, step) ==
    /\ Goto(c, step)
    /\ Forget(c)
    /\ evidence' = [evidence EXCEPT ![c] = "none"]

\* TerminateJobObject or TerminateProcess, whose failure is ignored.
TryTerminate == killed' \in {TRUE, killed}

\* The job kills its members when its last handle is closed.
Dying == killed \/ (member /\ job = "closed")

-----------------------------------------------------------------------------
(* launch_worker_process *)

\* prepare_worker_environment: the disposable directory, the working directory and
\* the environment are what the launch may use, or it is refused.
Prepare(c) ==
    /\ At(c, "prepare")
    /\ \E step \in {"launch", "unlaunched"} : Goto(c, step)
    /\ UNCHANGED <<windows, handle, pipes, exchange, evidence>>

\* The job, then the suspended process. A job without a process is closed.
CreateSuspended(c) ==
    /\ At(c, "launch")
    /\ \/ /\ job' = "open" /\ alive' = {"root"} /\ suspended' = TRUE
          /\ Goto(c, "assign")
       \/ Goto(c, "unlaunched") /\ UNCHANGED <<job, alive, suspended>>
    /\ UNCHANGED <<member, killed, handle, pipes, exchange, evidence>>

AssignProcess(c) ==
    /\ At(c, "assign")
    /\ \/ member' = TRUE /\ Goto(c, "resume") /\ UNCHANGED <<job, killed>>
       \/ /\ TryTerminate
          /\ job' \in {"closed", "lost"}
          /\ Goto(c, "unlaunched") /\ UNCHANGED member
    /\ UNCHANGED <<alive, suspended, handle, pipes, exchange, evidence>>

\* The thread may be resumed although closing its handle fails.
ResumeProcess(c) ==
    /\ At(c, "resume")
    /\ \/ /\ suspended' = FALSE /\ control' = TRUE
          /\ Goto(c, "launched") /\ UNCHANGED <<job, killed>>
       \/ /\ suspended' \in BOOLEAN
          /\ TryTerminate
          /\ job' \in {"closed", "lost"}
          /\ Goto(c, "unlaunched") /\ UNCHANGED control
    /\ UNCHANGED <<alive, member, lastId, sticky, pipes, exchange, evidence>>

-----------------------------------------------------------------------------
(* exchange_worker_control *)

\* `handle._request_id += 1', after the check that the channel is open.
NumberRequest(c) ==
    /\ At(c, "send")
    /\ IF sticky = {} /\ control
         THEN lastId' = lastId + 1 /\ Goto(c, "numbered")
         ELSE Goto(c, "unanswered") /\ UNCHANGED lastId
    /\ UNCHANGED <<windows, control, sticky, pipes, exchange, evidence>>

\* Mutant: the channel is not looked at again before the frame is written.
WriteUnasked(c) ==
    /\ At(c, "numbered")
    /\ id' = [id EXCEPT ![c] = lastId]
    /\ requests' = Append(requests, [id |-> lastId, op |-> wire[c]])
    /\ Goto(c, "waiting")
    /\ UNCHANGED <<windows, handle, replies, garbled, serving, wire, reply, evidence>>

\* The number is read back when the frame is made: another call may have raised it.
WriteRequest(c) ==
    /\ At(c, "numbered") /\ control
    /\ id' = [id EXCEPT ![c] = lastId]
    /\ requests' = Append(requests, [id |-> lastId, op |-> wire[c]])
    /\ Goto(c, "waiting")
    /\ UNCHANGED <<windows, handle, replies, garbled, serving, wire, reply, evidence>>

ReadReply(c) ==
    /\ At(c, "waiting") /\ control /\ replies # <<>>
    /\ replies' = Tail(replies)
    /\ IF Head(replies).id = id[c] /\ ~garbled
         THEN reply' = [reply EXCEPT ![c] = {Head(replies)}] /\ Goto(c, "answered")
         ELSE Goto(c, "unanswered") /\ UNCHANGED reply
    /\ UNCHANGED <<windows, handle, requests, garbled, serving, id, wire, evidence>>

\* Two readers each take bytes of one frame: nothing on the pipe is read well again.
SplitReply(c) ==
    /\ At(c, "waiting") /\ control /\ replies # <<>> /\ ~garbled
    /\ \E d \in Calls \ {c} : At(d, "waiting")
    /\ garbled' = TRUE
    /\ UNCHANGED <<windows, handle, requests, replies, serving, pc, exchange, evidence>>

\* The deadline, a broken pipe, or a handle another call has closed.
GiveUp(c) ==
    /\ pc[c] \in {"numbered", "waiting"}
    /\ Goto(c, "unanswered")
    /\ UNCHANGED <<windows, handle, pipes, exchange, evidence>>

-----------------------------------------------------------------------------
(* run_worker_control_child and its adapter: one request after the other, so *)
(* that an interrupt is only read when the turn it is meant for is over      *)

TakeRequest ==
    /\ "root" \in alive /\ ~suspended
    /\ serving = {} /\ requests # <<>>
    /\ serving' = {Head(requests)}
    /\ requests' = Tail(requests)
    /\ UNCHANGED <<windows, handle, replies, garbled, pc, exchange, evidence>>

\* What the adapter may answer; "late" acknowledges an interrupt with an output.
Answers(r) ==
    [id : {r.id}, op : {r.op}, out : {"bad"}, turn : {NoTurn}]
      \cup CASE r.op \in {"turn", "steer"} ->
                  [id : {r.id}, op : {r.op}, out : {"good"}, turn : Turns]
                    \cup [id : {r.id}, op : {r.op}, out : {"failed"}, turn : {NoTurn}]
             [] r.op = "interrupt" ->
                  [id : {r.id}, op : {r.op}, out : {"good", "late"}, turn : {NoTurn}]
             [] r.op = "close" ->
                  [id : {r.id}, op : {r.op}, out : {"good", "failed"}, turn : {NoTurn}]
             [] OTHER -> [id : {r.id}, op : {r.op}, out : {"good"}, turn : {NoTurn}]

AnswerRequest ==
    /\ "root" \in alive
    /\ \E r \in serving : \E a \in Answers(r) :
          replies' = Append(replies, a)
    /\ serving' = {}
    /\ UNCHANGED <<windows, handle, requests, garbled, pc, exchange, evidence>>

\* A turn starts a process of its own, as a tool; it joins the job.
Spawn ==
    /\ "root" \in alive /\ ~Dying
    /\ \E r \in serving : r.op \in {"turn", "steer"}
    /\ alive' = alive \cup {"child"}
    /\ UNCHANGED <<suspended, member, job, killed, handle, pipes, pc, exchange, evidence>>

\* The worker may end by itself once it runs, and leave what it started.
Die(p) ==
    /\ p \in alive
    /\ Dying \/ (p = "root" /\ ~suspended)
    /\ alive' = alive \ {p}
    /\ UNCHANGED <<suspended, member, job, killed, handle, pipes, pc, exchange, evidence>>

-----------------------------------------------------------------------------
(* cleanup_worker_process *)

Conclude(c, e) ==
    /\ evidence' = [evidence EXCEPT ![c] = e]
    /\ sticky' = {e}
    /\ Goto(c, "cleaned")

\* _close_cleanup_handles: an open job is closed, or its handle is forgotten.
CloseHandles == job' \in (IF job = "open" THEN {"closed", "lost"} ELSE {job})

\* Mutant: a clean-up that failed keeps its handles.
FailAndKeep(c) ==
    /\ Conclude(c, "failed")
    /\ UNCHANGED job

FailCleanUp(c) ==
    /\ Conclude(c, "failed")
    /\ CloseHandles

\* A second clean-up returns what the first has concluded. With its handles the
\* parent loses what is on the pipes; what the child still does with it is not seen.
CloseControl(c) ==
    /\ At(c, "clean")
    /\ IF sticky = {}
         THEN /\ control' = FALSE
              /\ requests' = <<>> /\ replies' = <<>> /\ garbled' = FALSE /\ serving' = {}
              /\ Goto(c, "snapshot") /\ UNCHANGED evidence
         ELSE /\ \E e \in sticky : evidence' = [evidence EXCEPT ![c] = e]
              /\ Goto(c, "cleaned") /\ UNCHANGED <<control, pipes>>
    /\ UNCHANGED <<windows, lastId, sticky, exchange>>

\* The tree before the job is terminated. Where it cannot be read (another
\* clean-up has closed the job), terminating is tried all the same.
SnapshotBefore(c) ==
    /\ At(c, "snapshot")
    /\ \/ job = "open" /\ Goto(c, "kill") /\ UNCHANGED <<job, killed, sticky, evidence>>
       \/ /\ IF job = "open" THEN TryTerminate ELSE UNCHANGED killed
          /\ FailCleanUp(c)
    /\ UNCHANGED <<alive, suspended, member, control, lastId, pipes, exchange>>

TerminateJob(c) ==
    /\ At(c, "kill")
    /\ \/ /\ job = "open" /\ killed' = TRUE
          /\ Goto(c, "verify") /\ UNCHANGED <<job, sticky, evidence>>
       \/ FailCleanUp(c) /\ UNCHANGED killed
    /\ UNCHANGED <<alive, suspended, member, control, lastId, pipes, exchange>>

\* Mutant: the root alone is looked for.
RootIsGone == job = "open" /\ "root" \notin alive

TreeIsEmpty == job = "open" /\ alive = {}

\* The tree is read until it is empty, unreadable or out of time. Any handle may
\* fail to close, which is remembered too of those closed first.
Verify(c) ==
    /\ At(c, "verify")
    /\ \/ /\ TreeIsEmpty
          /\ CloseHandles
          /\ \E ok \in BOOLEAN :
                Conclude(c, IF ok /\ job' = "closed" THEN "proven" ELSE "failed")
       \/ ~TreeIsEmpty /\ FailCleanUp(c)
    /\ UNCHANGED <<alive, suspended, member, killed, control, lastId, pipes, exchange>>

-----------------------------------------------------------------------------
\* A step of call c on its process.
ProcessStep(c) ==
    \/ Prepare(c) \/ CreateSuspended(c) \/ AssignProcess(c) \/ ResumeProcess(c)
    \/ NumberRequest(c) \/ WriteRequest(c) \/ ReadReply(c) \/ GiveUp(c)
    \/ CloseControl(c) \/ SnapshotBefore(c) \/ TerminateJob(c) \/ Verify(c)

\* What the processes and the pipes do by themselves.
Environment ==
    \/ TakeRequest \/ AnswerRequest \/ Spawn
    \/ \E p \in {"root", "child"} : Die(p)
    \/ \E c \in Calls : SplitReply(c)
=============================================================================
