------------------------------ MODULE CodexWorker ------------------------------
(***************************************************************************)
(* agent_lib/codex_worker.py: opening a worker session, its turn, steer,   *)
(* interrupt, cancel and close, and the ledger of results, each of which   *)
(* consume_task6_result lets one caller use. The worker itself, its        *)
(* channel and its clean-up are those of WorkerProcess.                    *)
(*                                                                         *)
(* The session takes no lock. Calls of one thread follow each other; those *)
(* of different threads interleave, since a turn blocks its thread until   *)
(* it is answered and only another can interrupt or cancel it. The ledger  *)
(* has a lock, so that an issue and the use of a result are one step each. *)
(* Abstracted: a candidate output is the turn it came from; a result is    *)
(* the call that made it, and is neither altered nor copied; the run and   *)
(* the thread id are those of the session.                                 *)
(***************************************************************************)
EXTENDS WorkerProcess, FiniteSets

CONSTANTS
    Threads,
    ThreadOf,   \* the thread that makes a call
    MethodsOf,  \* the methods a call may be
    MaxTuples   \* MAX_TASK6_ISSUED_TUPLES

Methods == {"start", "resume", "turn", "steer", "interrupt", "cancel", "close"}

ASSUME WorkerAssumption ==
    /\ MaxTuples \in Nat
    /\ ThreadOf \in [Calls -> Threads]
    /\ MethodsOf \in [Calls -> SUBSET Methods]
    /\ NoTurn \notin Turns

VARIABLES
    \* session
    status,     \* "none" before it is opened, "refused" when that failed
    pending,    \* _pending_candidate
    terminal,   \* the call that made _terminal_result
    \* calls
    method,
    result,     \* the result a call has made
    returned,   \* the calls whose result it returned: its own or the terminal one
    \* ledger
    tuples,     \* _TASK6_ISSUED_BY_TUPLE
    eligible,   \* records of _TASK6_ISSUED_BY_ID that may be consumed
    consumed,
    uses        \* history: how often a result was used; more than two are not counted

session == <<status, pending, terminal>>
answers == <<method, result, returned>>
ledger == <<tuples, eligible, consumed, uses>>
worker == <<windows, handle, pipes>>
process == <<worker, exchange, evidence>>
vars == <<process, pc, session, answers, ledger>>

Results == [status : {"COMPLETED", "FAILED", "CANCELLED", "CLOSED"},
            turn : Turns \cup {NoTurn}, candidate : SUBSET Turns, safe : BOOLEAN]
Tuples == Methods \X (Turns \cup {NoTurn})
Steps == {"idle", "prepare", "launch", "assign", "resume", "launched", "unlaunched", "mark", "send",
          "numbered", "waiting", "answered", "unanswered", "clean", "snapshot", "kill",
          "verify", "cleaned", "issue", "done", "raised"}

TypeOK ==
    /\ ProcessTypeOK
    /\ pc \in [Calls -> Steps]
    /\ status \in {"none", "opening", "refused", "READY", "INTERRUPTED", "CANCELLED",
                   "FAILED", "CLOSED"}
    /\ pending \subseteq Turns /\ terminal \subseteq Calls
    /\ method \in [Calls -> Methods \cup {"none"}]
    /\ result \in [Calls -> SUBSET Results]
    /\ returned \in [Calls -> SUBSET Calls]
    /\ tuples \subseteq Tuples /\ eligible \subseteq Calls /\ consumed \subseteq Calls
    /\ uses \in [Calls -> 0..2]

Init ==
    /\ ProcessInit
    /\ status = "none" /\ pending = {} /\ terminal = {}
    /\ method = [c \in Calls |-> "none"]
    /\ result = [c \in Calls |-> {}]
    /\ returned = [c \in Calls |-> {}]
    /\ tuples = {} /\ eligible = {} /\ consumed = {}
    /\ uses = [c \in Calls |-> 0]

-----------------------------------------------------------------------------
Active(c) == pc[c] \notin {"idle", "done", "raised"}

Begin(c, m) ==
    /\ At(c, "idle")
    /\ m \in MethodsOf[c]
    /\ \A d \in Calls : ThreadOf[d] = ThreadOf[c] => ~Active(d)
    /\ method' = [method EXCEPT ![c] = m]

ReturnFrom(c, d) ==
    /\ returned' = [returned EXCEPT ![c] = {d}]
    /\ Quit(c, "done")

Request(c, o) ==
    /\ wire' = [wire EXCEPT ![c] = o]
    /\ reply' = [reply EXCEPT ![c] = {}]
    /\ Goto(c, "send")

\* start_codex_worker, resume_codex_worker or fork_codex_worker.
Open(c, m) ==
    /\ status = "none"
    /\ m \in {"start", "resume"}
    /\ Begin(c, m)
    /\ status' = "opening"
    /\ Goto(c, "prepare")
    /\ UNCHANGED <<process, pending, terminal, result, returned, ledger>>

\* A launched worker whose evidence is in order is asked to start, or first to attest.
Launched(c) ==
    /\ At(c, "launched")
    /\ \/ /\ Request(c, IF method[c] = "start" THEN "start" ELSE "attest")
          /\ UNCHANGED id
       \/ Goto(c, "clean") /\ UNCHANGED exchange
    /\ UNCHANGED <<worker, evidence, session, answers, ledger>>

Unlaunched(c) ==
    /\ At(c, "unlaunched")
    /\ status' = "refused"
    /\ Quit(c, "raised")
    /\ UNCHANGED <<worker, pending, terminal, answers, ledger>>

\* A method of the session. The request is built, which may refuse it.
Call(c, m) ==
    /\ status \notin {"none", "opening", "refused"}
    /\ m \notin {"start", "resume"}
    /\ Begin(c, m)
    /\ IF terminal # {}
         THEN \E d \in terminal : ReturnFrom(c, d)
         ELSE /\ UNCHANGED <<returned, evidence>>
              /\ CASE m = "cancel" -> Goto(c, "mark") /\ UNCHANGED exchange
                   [] m \in {"turn", "steer"} -> Request(c, "attest") /\ UNCHANGED id
                   [] OTHER -> Request(c, m) /\ UNCHANGED id
    /\ UNCHANGED <<worker, session, result, ledger>>

\* _cleanup_failure, which a terminal result preempts; `close' does not ask for one.
ToCleanUp(c) ==
    IF terminal # {} /\ method[c] \in {"turn", "steer", "interrupt", "cancel"}
      THEN \E d \in terminal : ReturnFrom(c, d)
      ELSE /\ Goto(c, "clean")
           /\ IF method[c] = "close" THEN UNCHANGED exchange ELSE Forget(c)
           /\ UNCHANGED <<evidence, returned>>

\* A limit or the binding is refused when the request is built.
RefuseRequest(c) ==
    /\ pc[c] \in {"mark", "send"}
    /\ ToCleanUp(c)
    /\ UNCHANGED <<worker, session, method, result, ledger>>

\* cancel marks the session before it requests anything.
MarkCancelled(c) ==
    /\ At(c, "mark")
    /\ status' = "CANCELLED"
    /\ pending' = {}
    /\ Request(c, "interrupt")
    /\ UNCHANGED <<worker, evidence, id, terminal, answers, ledger>>

Unanswered(c) ==
    /\ At(c, "unanswered")
    /\ ToCleanUp(c)
    /\ UNCHANGED <<worker, session, method, result, ledger>>

-----------------------------------------------------------------------------
(* The reply a call has accepted *)

\* _normalize_response: the status and the events are those of the operation.
Good(c) ==
    \E r \in reply[c] :
        /\ r.out = "good"
        /\ \/ r.op = wire[c]
           \/ {r.op, wire[c]} \subseteq {"turn", "steer"}

\* The worker attested is now asked for what it was opened or called for.
Attested(c) ==
    /\ At(c, "answered") /\ wire[c] = "attest" /\ Good(c)
    /\ Request(c, method[c])
    /\ UNCHANGED <<worker, evidence, id, session, answers, ledger>>

Opened(c) ==
    /\ At(c, "answered") /\ wire[c] \in {"start", "resume"} /\ Good(c)
    /\ status' = "READY"
    /\ Quit(c, "done")
    /\ UNCHANGED <<worker, pending, terminal, answers, ledger>>

\* A completed turn leaves its candidate, and its result to be issued.
Completed(c) ==
    /\ At(c, "answered") /\ wire[c] \in {"turn", "steer"} /\ Good(c)
    /\ \E r \in reply[c] :
         /\ pending' = {r.turn}
         /\ result' = [result EXCEPT ![c] = {[status |-> "COMPLETED", turn |-> r.turn,
                                              candidate |-> {r.turn}, safe |-> FALSE]}]
    /\ Goto(c, "issue")
    /\ UNCHANGED <<process, status, terminal, method, returned, ledger>>

Interrupted(c) ==
    /\ At(c, "answered") /\ method[c] = "interrupt" /\ Good(c)
    /\ pending' = {}
    /\ status' = "INTERRUPTED"
    /\ ToCleanUp(c)
    /\ UNCHANGED <<worker, terminal, method, result, ledger>>

\* Any other reply ends in the clean-up; so do a cancel and a close whatever the reply.
Rejected(c) ==
    /\ At(c, "answered")
    /\ ~Good(c) \/ method[c] \in {"cancel", "close"}
    /\ ToCleanUp(c)
    /\ UNCHANGED <<worker, session, method, result, ledger>>

-----------------------------------------------------------------------------
(* After the clean-up *)

Terminal(c, s, r) ==
    /\ status' = s
    /\ terminal' = {c}
    /\ result' = [result EXCEPT ![c] = {r}]
    /\ Goto(c, "issue")

Ended(s) == [status |-> s, turn |-> NoTurn, candidate |-> {}, safe |-> FALSE]

\* _raise_open_failure: there is no session to keep a result.
OpenFailed(c) ==
    /\ At(c, "cleaned") /\ method[c] \in {"start", "resume"}
    /\ status' = "refused"
    /\ Quit(c, "raised")
    /\ UNCHANGED <<worker, pending, terminal, answers, ledger>>

\* The end of _cleanup_failure; a turn refused by the ledger comes here too.
Failed(c) ==
    /\ At(c, "cleaned") /\ method[c] \in {"turn", "steer", "interrupt", "cancel"}
    /\ pending' = {}
    /\ LET s == IF status = "CANCELLED" THEN "CANCELLED" ELSE "FAILED"
       IN  Terminal(c, s, Ended(s))
    /\ UNCHANGED <<process, method, returned, ledger>>

ProvenClosed(c) == Good(c) /\ evidence[c] = "proven"

\* close promotes the candidate when the reply and the clean-up are in order.
Closed(c) ==
    /\ At(c, "cleaned") /\ method[c] = "close"
    /\ IF ProvenClosed(c)
         THEN /\ Terminal(c, "CLOSED", [status |-> "CLOSED", turn |-> NoTurn,
                                        candidate |-> pending, safe |-> TRUE])
              /\ UNCHANGED pending
         ELSE Terminal(c, "FAILED", Ended("FAILED")) /\ pending' = {}
    /\ UNCHANGED <<process, method, returned, ledger>>

-----------------------------------------------------------------------------
(* The ledger *)

TupleOf(c) == <<method[c], (CHOOSE r \in result[c] : TRUE).turn>>

Full(c) == TupleOf(c) \notin tuples /\ Cardinality(tuples) >= MaxTuples

\* _task6_result_is_eligible
Eligible(c) ==
    \E r \in result[c] :
        \/ r.status = "COMPLETED" /\ method[c] \in {"turn", "steer"}
        \/ r.status = "CLOSED" /\ r.safe

\* Mutant: a second result of one tuple is issued like the first.
IssuableAgain(c) == Eligible(c)

Issuable(c) == Eligible(c) /\ TupleOf(c) \notin tuples

\* _issue_task6_result where the ledger has room, or knows the tuple.
Issue(c) ==
    /\ At(c, "issue") /\ ~Full(c)
    /\ tuples' = tuples \cup {TupleOf(c)}
    /\ eligible' = IF Issuable(c) THEN eligible \cup {c} ELSE eligible
    /\ ReturnFrom(c, c)
    /\ UNCHANGED <<worker, session, method, result, consumed, uses>>

\* The ledger is full: a completed turn is cleaned up after, a failure returned
\* all the same, and close raises.
IssueRefused(c) ==
    /\ At(c, "issue") /\ Full(c)
    /\ CASE \E r \in result[c] : r.status = "COMPLETED" -> ToCleanUp(c)
         [] method[c] = "close" -> Quit(c, "raised") /\ UNCHANGED returned
         [] OTHER -> ReturnFrom(c, c)
    /\ UNCHANGED <<worker, session, method, result, ledger>>

Usable(c) == c \in eligible /\ c \notin consumed

\* consume_task6_result: a result some call has returned, claimed by its own
\* tuple. What is refused changes nothing.
Consume(c) ==
    /\ \E d \in Calls : c \in returned[d]
    /\ Usable(c)
    /\ consumed' = consumed \cup {c}
    /\ uses[c] < 2
    /\ uses' = [uses EXCEPT ![c] = @ + 1]
    /\ UNCHANGED <<process, pc, session, answers, tuples, eligible>>

-----------------------------------------------------------------------------
SessionStep(c) ==
    \/ Launched(c) \/ Unlaunched(c) \/ RefuseRequest(c) \/ MarkCancelled(c) \/ Unanswered(c)
    \/ Attested(c) \/ Opened(c) \/ Completed(c) \/ Interrupted(c) \/ Rejected(c)
    \/ OpenFailed(c) \/ Failed(c) \/ Closed(c) \/ Issue(c) \/ IssueRefused(c)

\* The step of WorkerProcess of a call, or of what surrounds the calls.
OfProcess(step) == step /\ UNCHANGED <<session, answers, ledger>>

Next ==
    \/ \E c \in Calls :
         \/ \E m \in Methods : Open(c, m) \/ Call(c, m)
         \/ SessionStep(c)
         \/ OfProcess(ProcessStep(c))
         \/ Consume(c)
    \/ OfProcess(Environment)

Spec == Init /\ [][Next]_vars

-----------------------------------------------------------------------------
\* A result that says it may be promoted is one of a worker that is gone, with
\* every process it started: codex_worker.py closes only after the clean-up has
\* terminated the job and seen it empty.
PromotionIsProven == \A c \in Calls : \A r \in result[c] : r.safe => alive = {} /\ ~control

\* Once the session is over, or could not be opened, no process of the worker
\* runs on unless Windows refused both to terminate its job and to close it.
Over == terminal # {} \/ status = "refused"
NothingRunsUnowned ==
    Over /\ alive # {} /\ ~Dying => job = "lost" \/ (suspended /\ ~member)

\* Session and process are well formed, and the process is never left behind.
ProcessIsOwned == TypeOK /\ NothingRunsUnowned

\* A result is used once, and so is its operation and turn: the outputs of two
\* uses are of two tuples, and what was used completed or was closed in order.
OncePerTuple ==
    \A c \in Calls : uses[c] > 0 =>
        /\ uses[c] = 1 /\ Eligible(c)
        /\ \A d \in Calls \ {c} : uses[d] > 0 => TupleOf(c) # TupleOf(d)

\* After the first terminal result nothing more is requested of the worker.
RequestsStopAtTheEnd == [][terminal # {} => Len(requests') <= Len(requests)]_vars

=============================================================================
