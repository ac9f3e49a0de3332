----------------------------- MODULE ManifestLock -----------------------------
(***************************************************************************)
(* The lock file of the run manifest and the two ways to write under it:   *)
(* _manifest_lock, write_manifest and transition_publication_lifecycle of  *)
(* cad_agent/manifest.py, called by several processes (or threads) that    *)
(* may die at any point.                                                   *)
(*                                                                         *)
(* Kept: creation, identity, handle and deletion of the lock file as steps *)
(* of their own, the sharing rules of Windows (an open handle keeps the    *)
(* file from being deleted; the owner's handle also keeps it from being    *)
(* read), reclamation of a dead owner's lock, every error path.            *)
(* Abstracted: manifest bytes are a version number; a process that dies    *)
(* does not come back (a new process has another identity).                *)
(***************************************************************************)
EXTENDS Naturals, FiniteSets

CONSTANTS
    Transitions,    \* processes that call transition_publication_lifecycle
    Writers,        \* processes that call write_manifest
    Windows,        \* os.name = "nt"
    MaxCalls,       \* bound: calls of all the processes
    Nobody

Processes == Transitions \cup Writers

ASSUME ProcessesAssumption == Transitions \cap Writers = {} /\ Nobody \notin Processes
ASSUME LockBounds == Windows \in BOOLEAN /\ MaxCalls \in Nat

VARIABLES
    lock,       \* the lock file: absent, or its identity and who has it open to write
    readers,    \* processes that have the lock file open to read
    version,    \* version of the manifest
    hashed,     \* the version a caller has hashed before its call
    pc,         \* the next step of each call
    seen,       \* the identity a call has read from the lock file
    outcome,    \* how the last call of a process ended
    calls,      \* calls begun so far
    author,     \* history: who wrote that version
    failed      \* history: processes that could not delete their lock file

vars == <<lock, readers, version, hashed, pc, seen, outcome, calls, author, failed>>
caller == <<pc, seen, outcome>>

Absent == [exists |-> FALSE, identity |-> Nobody, holder |-> Nobody]
Locks == [exists : BOOLEAN, identity : Processes \cup {Nobody}, holder : Processes \cup {Nobody}]

Pcs == {"idle", "open", "identify", "enter", "write", "close", "unlink",
        "exists", "reading", "reclaim", "dead"}
Outcomes == {"none", "ok", "BUSY", "STALE", "IDENTITY_UNAVAILABLE", "WRITE_FAILED", "UNLINK_FAILED"}

Init ==
    /\ lock = Absent
    /\ readers = {}
    /\ version = 0
    /\ hashed = [p \in Processes |-> 0]
    /\ pc = [p \in Processes |-> "idle"]
    /\ seen = [p \in Processes |-> Nobody]
    /\ outcome = [p \in Processes |-> "none"]
    /\ calls = 0
    /\ author = Nobody
    /\ failed = {}

-----------------------------------------------------------------------------
At(p, step) == pc[p] = step

Goto(p, step) == pc' = [pc EXCEPT ![p] = step] /\ UNCHANGED <<seen, outcome>>

\* The call goes on to a step, or ends, with an outcome.
Record(p, step, result) ==
    /\ pc' = [pc EXCEPT ![p] = step]
    /\ outcome' = [outcome EXCEPT ![p] = result]
    /\ UNCHANGED seen

Return(p, result) == Record(p, "idle", result)

\* Windows deletes a file only while nobody has it open.
Deletable == Windows => lock.holder = Nobody /\ readers = {}

\* The caller hashes the manifest, as _manifest_sha does, before it calls.
Hash(p) ==
    /\ At(p, "idle")
    /\ hashed' = [hashed EXCEPT ![p] = version]
    /\ UNCHANGED <<lock, readers, version, caller, calls, author, failed>>

Begin(p) ==
    /\ At(p, "idle")
    /\ calls < MaxCalls
    /\ calls' = calls + 1
    /\ Record(p, "open", "none")
    /\ UNCHANGED <<lock, readers, version, hashed, author, failed>>

\* CREATE_NEW without sharing, or O_CREAT | O_EXCL.
Open(p) ==
    /\ At(p, "open")
    /\ IF lock.exists
         THEN Goto(p, "exists") /\ UNCHANGED lock
         ELSE /\ lock' = [Absent EXCEPT !.exists = TRUE, !.holder = p]
              /\ Goto(p, IF Windows THEN "identify" ELSE "enter")
    /\ UNCHANGED <<readers, version, hashed, calls, author, failed>>

\* _write_windows_manifest_lock_identity, which may fail.
WriteIdentity(p) ==
    /\ At(p, "identify")
    /\ \/ /\ lock' = [lock EXCEPT !.identity = p]
          /\ Goto(p, "enter")
       \/ /\ Record(p, "close", "IDENTITY_UNAVAILABLE")
          /\ UNCHANGED lock
    /\ UNCHANGED <<readers, version, hashed, calls, author, failed>>

\* Mutant: the hash is not compared under the lock.
EnterUnhashed(p) ==
    /\ At(p, "enter")
    /\ Goto(p, "write")
    /\ UNCHANGED <<lock, readers, version, hashed, calls, author, failed>>

\* The body of the lock: a transition compares the manifest with the hash its
\* caller passed; write_manifest goes on to write.
Enter(p) ==
    /\ At(p, "enter")
    /\ IF p \in Transitions /\ hashed[p] # version
         THEN Record(p, "close", "STALE")
         ELSE Goto(p, "write")
    /\ UNCHANGED <<lock, readers, version, hashed, calls, author, failed>>

\* _write_manifest_unlocked: os.replace makes the new version the manifest, or
\* raises and leaves the old one.
Write(p) ==
    /\ At(p, "write")
    /\ \/ /\ version' = version + 1
          /\ author' = p
          /\ Record(p, "close", "ok")
       \/ /\ Record(p, "close", "WRITE_FAILED")
          /\ UNCHANGED <<version, author>>
    /\ UNCHANGED <<lock, readers, hashed, calls, failed>>

\* Mutant: a body that failed gives the handle back, but not the file.
CloseAfterFailure(p) ==
    /\ At(p, "close")
    /\ lock' = [lock EXCEPT !.holder = IF @ = p THEN Nobody ELSE @]
    /\ Goto(p, IF outcome[p] = "ok" THEN "unlink" ELSE "idle")
    /\ UNCHANGED <<readers, version, hashed, calls, author, failed>>

\* The finally block closes the handle ...
Close(p) ==
    /\ At(p, "close")
    /\ lock' = [lock EXCEPT !.holder = IF @ = p THEN Nobody ELSE @]
    /\ Goto(p, "unlink")
    /\ UNCHANGED <<readers, version, hashed, calls, author, failed>>

\* ... and then deletes the file; a missing file is passed over, another error
\* is raised.
Unlink(p) ==
    /\ At(p, "unlink")
    /\ IF ~lock.exists \/ Deletable
         THEN lock' = Absent /\ Goto(p, "idle") /\ UNCHANGED failed
         ELSE Return(p, "UNLINK_FAILED") /\ failed' = failed \cup {p} /\ UNCHANGED lock
    /\ UNCHANGED <<readers, version, hashed, calls, author>>

-----------------------------------------------------------------------------
(* The lock file exists already *)

\* Mutant: a lock whose owner cannot be read is tried again.
FindLockRetries(p) ==
    /\ At(p, "exists")
    /\ IF lock.exists /\ lock.holder = Nobody /\ lock.identity # Nobody
         THEN /\ readers' = readers \cup {p}
              /\ pc' = [pc EXCEPT ![p] = "reading"]
              /\ seen' = [seen EXCEPT ![p] = lock.identity]
              /\ UNCHANGED outcome
         ELSE Goto(p, "open") /\ UNCHANGED readers
    /\ UNCHANGED <<lock, version, hashed, calls, author, failed>>

\* _read_manifest_lock_identity: BUSY when the file is gone, open without
\* sharing, or without an identity (which it never has outside Windows).
FindLock(p) ==
    /\ At(p, "exists")
    /\ IF lock.exists /\ lock.holder = Nobody /\ lock.identity # Nobody
         THEN /\ readers' = readers \cup {p}
              /\ pc' = [pc EXCEPT ![p] = "reading"]
              /\ seen' = [seen EXCEPT ![p] = lock.identity]
              /\ UNCHANGED outcome
         ELSE Return(p, "BUSY") /\ UNCHANGED readers
    /\ UNCHANGED <<lock, version, hashed, calls, author, failed>>

\* The file is closed, and _manifest_lock_owner_state asks after its owner.
AskOwner(p) ==
    /\ At(p, "reading")
    /\ readers' = readers \ {p}
    /\ IF At(seen[p], "dead") THEN Goto(p, "reclaim") ELSE Return(p, "BUSY")
    /\ UNCHANGED <<lock, version, hashed, calls, author, failed>>

\* Mutant: the lock file is deleted even while its new owner has it open.
ReclaimOpen(p) ==
    /\ At(p, "reclaim")
    /\ lock' = Absent
    /\ Goto(p, "open")
    /\ UNCHANGED <<readers, version, hashed, calls, author, failed>>

\* _reclaim_dead_manifest_lock: whatever lock file is there now is deleted, if
\* nobody has it open, and the lock is tried again.
Reclaim(p) ==
    /\ At(p, "reclaim")
    /\ IF ~lock.exists \/ Deletable
         THEN lock' = Absent /\ Goto(p, "open")
         ELSE Return(p, "BUSY") /\ UNCHANGED lock
    /\ UNCHANGED <<readers, version, hashed, calls, author, failed>>

\* The process ends: its handles are closed, the lock file stays.
Die(p) ==
    /\ ~At(p, "dead")
    /\ Goto(p, "dead")
    /\ lock' = [lock EXCEPT !.holder = IF @ = p THEN Nobody ELSE @]
    /\ readers' = readers \ {p}
    /\ UNCHANGED <<version, hashed, calls, author, failed>>

Step(p) ==
    \/ Open(p) \/ WriteIdentity(p) \/ Enter(p) \/ Write(p) \/ Close(p) \/ Unlink(p)
    \/ FindLock(p) \/ AskOwner(p) \/ Reclaim(p)

Next == \E p \in Processes : Hash(p) \/ Begin(p) \/ Step(p) \/ Die(p)

\* A running process takes its next step; none has to call, or to die.
Fairness == \A p \in Processes : WF_vars(Step(p))

Spec == Init /\ [][Next]_vars /\ Fairness

-----------------------------------------------------------------------------
(* What the lock promises *)

TypeOK ==
    /\ lock \in Locks
    /\ ~lock.exists => lock = Absent
    /\ readers = {p \in Processes : At(p, "reading")}
    /\ version \in Nat
    /\ hashed \in [Processes -> Nat]
    /\ pc \in [Processes -> Pcs]
    /\ seen \in [Processes -> Processes \cup {Nobody}]
    /\ outcome \in [Processes -> Outcomes]
    /\ calls \in 0..MaxCalls
    /\ author \in Processes \cup {Nobody}
    /\ failed \subseteq Processes

Inside(p) == pc[p] \in {"enter", "write"}

\* At most one process is between taking the lock and giving it back, whoever
\* dies, and whoever reclaims the lock of the dead at the same moment.
MutualExclusion == \A p, q \in Processes : Inside(p) /\ Inside(q) => p = q

\* Only a crash or a reported error leaves the lock file behind: once every call
\* has ended it names a process that died or could not delete it, or, without
\* an identity, a process died before it had written one.
LeftoverIsExplained ==
    lock.exists /\ (\A p \in Processes : pc[p] \in {"idle", "dead"}) =>
        IF lock.identity = Nobody
          THEN \E p \in Processes : At(p, "dead")
          ELSE At(lock.identity, "dead") \/ lock.identity \in failed

\* Every call returns: finding a lock, reclaiming it and trying again ends.
CallsReturn == \A p \in Processes : At(p, "open") ~> pc[p] \in {"idle", "dead"}

\* test_lock_contention_has_one_transition_success_and_no_lost_update: a
\* contender makes no call fail that has written its version.
ContentionIsHarmless ==
    (\A p \in Processes : ~At(p, "dead")) =>
        failed = {}

Store == INSTANCE ManifestStore

\* Under the lock a transition is an atomic compare-and-swap of the manifest.
ImplementsStore == Store!Spec
=============================================================================
