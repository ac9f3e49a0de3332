---------------------------- MODULE ApprovedRepair ----------------------------
(***************************************************************************)
(* One approved repair, execute_approved_repair of                         *)
(* cad_agent/approved_repair_adapter.py, called by several threads of one  *)
(* process: it validates the lease of a disposable workspace, consumes a   *)
(* single-use authorization (cad_agent/repair_authorization.py), mutates   *)
(* the drawing through the repair executor (mcp_integration_lib/           *)
(* repair2.py), and closes the workspace and removes its folder (Dot-      *)
(* NetIPCClient.close_disposable_workspace of dotnet_ipc.py).              *)
(*                                                                         *)
(* Kept: validation, consumption, each request to AutoCAD and the removal  *)
(* as steps of their own; the lock of a lease, held over a whole close;    *)
(* both expiry times; requests whose effect is uncertain; cached closures  *)
(* and failures.                                                           *)
(* Abstracted: the fields an authorization binds are the operation it      *)
(* approves; the R4 and R5 records are validated before anything changes   *)
(* and only make a call fail, which leaves no trace.                       *)
(***************************************************************************)
EXTENDS Naturals, FiniteSets

CONSTANTS
    Threads,
    Grants,     \* repair authorizations
    Leases,     \* disposable workspaces
    Operations, \* of "erase", "replace"
    Nothing,
    MaxCalls    \* bound: calls of all the threads

ASSUME RepairAssumption ==
    /\ Operations \subseteq {"erase", "replace"}
    /\ Nothing \notin Grants \cup Leases
    /\ MaxCalls \in Nat

VARIABLES
    \* repair_authorization.py: _ISSUED
    approves,   \* the operation a grant was issued for, or Nothing
    consumed,   \* grants consumed
    \* dotnet_ipc.py: _disposable_states
    state,      \* lifecycle_state of a lease, "none" before it is issued
    closure,    \* leases with a cached closure
    failure,    \* leases with a cached failure
    lock,       \* the thread that holds the lock of a lease
    folder,     \* leases whose folder exists
    \* time
    expired,    \* grants and leases that have expired
    \* AutoCAD
    drawing,    \* leases whose drawing is open
    \* a call: its step, its number and arguments, how the executor ended, how it ended
    pc, serial, grant, lease, operation, executor, outcome,
    calls,
    \* histories
    mutations,  \* requests that may have changed a drawing
    closes      \* how often the close of a lease was requested

authorizations == <<approves, consumed>>
workspaces == <<state, closure, failure, lock, folder>>
arguments == <<serial, grant, lease, operation>>
call == <<pc, arguments, executor, outcome>>
vars == <<authorizations, workspaces, expired, drawing, call, calls, mutations, closes>>

Pcs == {"idle", "validate", "consume", "erase", "create", "close", "closing", "removing"}
Outcomes == {"none", "SUCCESS", "WORKSPACE_INVALID", "AUTHORIZATION_INVALID",
             "EXECUTOR_FAILED", "CLOSURE_FAILED", "closed"}
Mutations == [call : 1..MaxCalls, grant : Grants, lease : Leases,
              operation : Operations, part : {"erase", "create"}]

Init ==
    /\ approves = [g \in Grants |-> "none"]
    /\ consumed = {}
    /\ state = [l \in Leases |-> "none"]
    /\ closure = {} /\ failure = {} /\ folder = {} /\ expired = {} /\ drawing = {}
    /\ lock = [l \in Leases |-> Nothing]
    /\ pc = [t \in Threads |-> "idle"]
    /\ serial = [t \in Threads |-> 0]
    /\ grant = [t \in Threads |-> Nothing]
    /\ lease = [t \in Threads |-> Nothing]
    /\ operation = [t \in Threads |-> "none"]
    /\ executor = [t \in Threads |-> "none"]
    /\ outcome = [t \in Threads |-> "none"]
    /\ calls = 0
    /\ mutations = {}
    /\ closes = [l \in Leases |-> 0]

-----------------------------------------------------------------------------
At(t, step) == pc[t] = step

Goto(t, step) == pc' = [pc EXCEPT ![t] = step] /\ UNCHANGED <<arguments, executor, outcome>>

Return(t, result) ==
    /\ pc' = [pc EXCEPT ![t] = "idle"]
    /\ outcome' = [outcome EXCEPT ![t] = result]
    /\ UNCHANGED <<arguments, executor>>

IssueAuthorization(g, op) ==
    /\ approves[g] = "none"
    /\ approves' = [approves EXCEPT ![g] = op]
    /\ UNCHANGED <<consumed, workspaces, expired, drawing, call, calls, mutations, closes>>

\* The lease is issued and its drawing opened in AutoCAD.
IssueWorkspace(l) ==
    /\ state[l] = "none"
    /\ state' = [state EXCEPT ![l] = "active"]
    /\ folder' = folder \cup {l}
    /\ drawing' = drawing \cup {l}
    /\ UNCHANGED <<authorizations, closure, failure, lock, expired, call, calls, mutations, closes>>

\* Another program removes the folder, or puts a link in its place.
LoseFolder(l) ==
    /\ folder' = folder \ {l}
    /\ UNCHANGED <<authorizations, state, closure, failure, lock, expired, drawing, call,
                   calls, mutations, closes>>

\* time.time() passes expires_at.
Expire(x) ==
    /\ expired' = expired \cup {x}
    /\ UNCHANGED <<authorizations, workspaces, drawing, call, calls, mutations, closes>>

Called(t, g, l, op, step) ==
    /\ At(t, "idle")
    /\ calls < MaxCalls
    /\ calls' = calls + 1
    /\ pc' = [pc EXCEPT ![t] = step]
    /\ serial' = [serial EXCEPT ![t] = calls + 1]
    /\ grant' = [grant EXCEPT ![t] = g]
    /\ lease' = [lease EXCEPT ![t] = l]
    /\ operation' = [operation EXCEPT ![t] = op]
    /\ executor' = [executor EXCEPT ![t] = "none"]
    /\ outcome' = [outcome EXCEPT ![t] = "none"]
    /\ UNCHANGED <<authorizations, workspaces, expired, drawing, mutations, closes>>

\* execute_approved_repair with a grant, an operation and a lease.
Repair(t, g, l, op) ==
    /\ approves[g] # "none"
    /\ state[l] # "none"
    /\ Called(t, g, l, op, "validate")

\* The holder of a lease closes its workspace without a repair.
CloseOnly(t, l) ==
    /\ state[l] # "none"
    /\ Called(t, Nothing, l, "none", "close")

\* The conditions of validate_disposable_workspace that change over time.
Active(l) == state[l] = "active" /\ l \notin failure /\ l \notin expired /\ l \in folder

\* validate_disposable_workspace, under the lock of the lease.
Validate(t) ==
    /\ At(t, "validate")
    /\ lock[lease[t]] = Nothing
    /\ IF Active(lease[t]) THEN Goto(t, "consume") ELSE Return(t, "WORKSPACE_INVALID")
    /\ UNCHANGED <<authorizations, workspaces, expired, drawing, calls, mutations, closes>>

\* Mutant: whether it was consumed is not asked.
UsableAgain(g, op) == g \notin expired /\ approves[g] = op

Usable(g, op) == g \notin consumed /\ g \notin expired /\ approves[g] = op

\* consume_repair_authorization, under the lock of the grant.
Consume(t) ==
    /\ At(t, "consume")
    /\ IF Usable(grant[t], operation[t])
         THEN consumed' = consumed \cup {grant[t]} /\ Goto(t, "erase")
         ELSE Return(t, "AUTHORIZATION_INVALID") /\ UNCHANGED consumed
    /\ UNCHANGED <<approves, workspaces, expired, drawing, calls, mutations, closes>>

\* Mutant: an executor that raises ends the call.
ExecutedOrRaised(t, how) ==
    /\ executor' = [executor EXCEPT ![t] = how]
    /\ pc' = [pc EXCEPT ![t] = IF how = "ok" THEN "close" ELSE "idle"]
    /\ UNCHANGED <<arguments, outcome>>

\* The executor has ended; what it did is closed in any case.
Executed(t, how) ==
    /\ executor' = [executor EXCEPT ![t] = how]
    /\ pc' = [pc EXCEPT ![t] = "close"]
    /\ UNCHANGED <<arguments, outcome>>

Mutate(t, part) ==
    mutations' = mutations \cup {[call |-> serial[t], grant |-> grant[t],
        lease |-> lease[t], operation |-> operation[t], part |-> part]}

\* client.entity_erase, which may raise before or after its effect.
Erase(t) ==
    /\ At(t, "erase")
    /\ \/ /\ Mutate(t, "erase")
          /\ \/ operation[t] = "erase" /\ Executed(t, "ok")
             \/ operation[t] = "replace" /\ Goto(t, "create")
             \/ Executed(t, "failed")
       \/ Executed(t, "failed") /\ UNCHANGED mutations
    /\ UNCHANGED <<authorizations, workspaces, expired, drawing, calls, closes>>

\* The old entity is gone; its replacement is created.
Create(t) ==
    /\ At(t, "create")
    /\ \/ /\ Mutate(t, "create")
          /\ Executed(t, "ok") \/ Executed(t, "failed")
       \/ Executed(t, "failed") /\ UNCHANGED mutations
    /\ UNCHANGED <<authorizations, workspaces, expired, drawing, calls, closes>>

\* Mutant: what the executor did is not looked at.
ClosedAsSuccess(t) == Return(t, IF grant[t] = Nothing THEN "closed" ELSE "SUCCESS")

\* What a call that has its closure returns.
Closed(t) ==
    Return(t, IF grant[t] = Nothing THEN "closed"
              ELSE IF executor[t] = "ok" THEN "SUCCESS" ELSE "EXECUTOR_FAILED")

Fail(l) == failure' = failure \cup {l}

\* close_disposable_workspace takes the lock of the lease and looks at what
\* is cached, at the lifecycle, at the time and at the folder.
Close(t) ==
    /\ At(t, "close")
    /\ lock[lease[t]] = Nothing
    /\ LET l == lease[t] IN
       \/ /\ l \in closure
          /\ Closed(t)
          /\ UNCHANGED <<state, failure, lock>>
       \/ /\ l \notin closure
          /\ l \in failure \/ state[l] # "active" \/ l \in expired
          /\ Return(t, "CLOSURE_FAILED")
          /\ UNCHANGED <<state, failure, lock>>
       \/ /\ l \notin closure \cup failure \cup expired
          /\ state[l] = "active"
          /\ IF l \in folder
               THEN /\ lock' = [lock EXCEPT ![l] = t]
                    /\ state' = [state EXCEPT ![l] = "closing"]
                    /\ Goto(t, "closing")
                    /\ UNCHANGED failure
               ELSE /\ Fail(l)
                    /\ Return(t, "CLOSURE_FAILED")
                    /\ UNCHANGED <<state, lock>>
    /\ UNCHANGED <<authorizations, closure, folder, expired, drawing, calls, mutations, closes>>

\* Mutant: a failure leaves the lifecycle and the lock as they are.
CloseFailsInside(t) ==
    /\ Fail(lease[t])
    /\ Return(t, "CLOSURE_FAILED")
    /\ UNCHANGED <<state, lock>>

\* A close or a removal has failed: the failure is cached.
CloseFails(t) ==
    /\ state' = [state EXCEPT ![lease[t]] = "active"]
    /\ Fail(lease[t])
    /\ lock' = [lock EXCEPT ![lease[t]] = Nothing]
    /\ Return(t, "CLOSURE_FAILED")

\* close_disposable asks the plug-in to close the drawing; a failed request
\* may have closed it.
CloseDrawing(t) ==
    /\ At(t, "closing")
    /\ closes' = [closes EXCEPT ![lease[t]] = @ + 1]
    /\ \/ /\ drawing' = drawing \ {lease[t]}
          /\ Goto(t, "removing")
          /\ UNCHANGED <<state, failure, lock>>
       \/ /\ CloseFails(t)
          /\ drawing' \in {drawing, drawing \ {lease[t]}}
    /\ UNCHANGED <<authorizations, closure, folder, expired, calls, mutations>>

\* _remove_tree_without_reparse, and the look at what survives.
Remove(t) ==
    /\ At(t, "removing")
    /\ \/ /\ state' = [state EXCEPT ![lease[t]] = "closed"]
          /\ closure' = closure \cup {lease[t]}
          /\ folder' = folder \ {lease[t]}
          /\ lock' = [lock EXCEPT ![lease[t]] = Nothing]
          /\ Closed(t)
          /\ UNCHANGED failure
       \/ CloseFails(t) /\ UNCHANGED <<closure, folder>>
    /\ UNCHANGED <<authorizations, expired, drawing, calls, mutations, closes>>

-----------------------------------------------------------------------------
Step(t) ==
    \/ Validate(t) \/ Consume(t) \/ Erase(t) \/ Create(t)
    \/ Close(t) \/ CloseDrawing(t) \/ Remove(t)

Next ==
    \/ \E g \in Grants, op \in Operations : IssueAuthorization(g, op)
    \/ \E l \in Leases : IssueWorkspace(l) \/ LoseFolder(l)
    \/ \E x \in Grants \cup Leases : Expire(x)
    \/ \E t \in Threads :
         \/ \E g \in Grants, l \in Leases, op \in Operations : Repair(t, g, l, op)
         \/ \E l \in Leases : CloseOnly(t, l)
         \/ Step(t)

\* A thread goes on: requests to AutoCAD time out, and a lock that stays free
\* is taken.
Spec == Init /\ [][Next]_vars /\ \A t \in Threads : WF_vars(Step(t))

-----------------------------------------------------------------------------
(* Properties. *)

TypeOK ==
    /\ approves \in [Grants -> Operations \cup {"none"}]
    /\ consumed \subseteq Grants
    /\ state \in [Leases -> {"none", "active", "closing", "closed"}]
    /\ closure \subseteq Leases /\ failure \subseteq Leases /\ folder \subseteq Leases
    /\ lock \in [Leases -> Threads \cup {Nothing}]
    /\ expired \subseteq Grants \cup Leases
    /\ drawing \subseteq Leases
    /\ pc \in [Threads -> Pcs]
    /\ serial \in [Threads -> 0..MaxCalls]
    /\ grant \in [Threads -> Grants \cup {Nothing}]
    /\ lease \in [Threads -> Leases \cup {Nothing}]
    /\ operation \in [Threads -> Operations \cup {"none"}]
    /\ executor \in [Threads -> {"none", "ok", "failed"}]
    /\ outcome \in [Threads -> Outcomes]
    /\ calls \in 0..MaxCalls
    /\ mutations \subseteq Mutations
    /\ closes \in [Leases -> Nat]

\* A grant is good for one repair: all the requests ever made under it belong
\* to one call, and to the operation it was issued for, whatever threads race
\* for it (docs/AI_OPERATING_MODEL.md:255, "authorization consumed exactly
\* once before mutation").
OneRepairPerGrant ==
    \A m, n \in mutations :
        /\ m.grant \in consumed /\ m.operation = approves[m.grant]
        /\ m.grant = n.grant => m.call = n.call

\* A call that reports SUCCESS has done the whole of its operation -- a
\* replacement has erased and created -- and its workspace is gone: closed,
\* the folder removed.
SuccessIsComplete ==
    \A t \in Threads : outcome[t] = "SUCCESS" =>
        /\ {m.part : m \in {n \in mutations : n.call = serial[t]}} =
             IF operation[t] = "erase" THEN {"erase"} ELSE {"erase", "create"}
        /\ lease[t] \notin folder \cup drawing

\* The evidence kept for a lease: a closure means that nothing survives, it
\* is never joined by a failure, and it stands for the only close ever
\* requested (close_disposable_workspace may be called concurrently and
\* again; see mcp_integration_lib/tests/test_dotnet_ipc.py:1866).
ClosureIsTerminal ==
    \A l \in Leases :
        /\ closes[l] <= 1
        /\ l \in closure => l \notin folder \cup drawing \cup failure

\* A mutated workspace is never forgotten: when nobody is at work on it, it
\* is closed, or its failure is kept, or its lease had expired before it
\* could be closed.
MutationIsAccountedFor ==
    \A l \in Leases :
        /\ \E m \in mutations : m.lease = l
        /\ \A t \in Threads : lease[t] = l => At(t, "idle")
        => l \in closure \cup failure \cup expired

\* Every call returns, although threads wait for each other's locks.
CallsReturn == \A t \in Threads : ~ At(t, "idle") ~> At(t, "idle")

\* No lease is lost: a call that succeeded did all of its operation and left
\* nothing, a closure is final and true, and every mutation is known.
LeasesAreAccountedFor == SuccessIsComplete /\ ClosureIsTerminal /\ MutationIsAccountedFor
=============================================================================
