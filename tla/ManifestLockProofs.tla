-------------------------- MODULE ManifestLockProofs --------------------------
(***************************************************************************)
(* Proofs about ManifestLock, for any number of processes and calls, with  *)
(* and without Windows; and about the runs of the agent (AgentRun).        *)
(***************************************************************************)
EXTENDS MCManifestLock, TLAPS

\* The process whose lock file is open without sharing.
Owns(p) == pc[p] \in {"identify", "enter", "write", "close"}

\* Its handle is what keeps others out on Windows ...
HandleInv == \A p \in Processes : Owns(p) => lock.exists /\ lock.holder = p

\* ... and elsewhere it is that nobody deletes a lock file but its creator.
CreatorInv ==
    ~Windows =>
        /\ lock.identity = Nobody
        /\ \A p \in Processes : pc[p] \notin {"identify", "reading", "reclaim"}
        /\ \A p \in Processes : Owns(p) \/ At(p, "unlink") => lock.exists
        /\ \A p, q \in Processes :
             (Owns(p) \/ At(p, "unlink")) /\ (Owns(q) \/ At(q, "unlink")) => p = q

\* A transition about to write still holds the hash of the manifest.
HashInv ==
    \A p \in Processes : At(p, "write") /\ p \in Transitions => hashed[p] = version

LockInv == TypeOK /\ HandleInv /\ CreatorInv /\ HashInv

LEMMA InitLockInv == Init => LockInv
  BY ProcessesAssumption, LockBounds
     DEF Init, LockInv, TypeOK, HandleInv, CreatorInv, HashInv, Absent, Locks, Pcs,
         Outcomes, Owns, At

LEMMA TypeStep == LockInv /\ [Next]_vars => TypeOK'
  <1> SUFFICES ASSUME LockInv, [Next]_vars PROVE TypeOK'
    OBVIOUS
  <1> USE LockBounds DEF LockInv, TypeOK, Locks, Pcs, Outcomes, At, Goto, Return, Record, caller
  <1>1. ASSUME NEW p \in Processes, Hash(p) PROVE TypeOK'
    BY <1>1 DEF Hash
  <1>2. ASSUME NEW p \in Processes, Begin(p) PROVE TypeOK'
    BY <1>2 DEF Begin
  <1>3. ASSUME NEW p \in Processes, Open(p) PROVE TypeOK'
    <2>1. lock' \in Locks /\ (~lock'.exists => lock' = Absent)
      BY <1>3 DEF Open, Absent
    <2> QED
      BY <1>3, <2>1 DEF Open
  <1>4. ASSUME NEW p \in Processes, WriteIdentity(p) PROVE TypeOK'
    <2>1. lock' \in Locks /\ lock'.exists
      BY <1>4 DEF WriteIdentity, HandleInv, Owns
    <2>2. pc' \in [Processes -> Pcs] /\ outcome' \in [Processes -> Outcomes]
      BY <1>4 DEF WriteIdentity
    <2>3. readers' = {q \in Processes : pc'[q] = "reading"}
      BY <1>4 DEF WriteIdentity
    <2> QED
      BY <1>4, <2>1, <2>2, <2>3 DEF WriteIdentity
  <1>5. ASSUME NEW p \in Processes, Enter(p) PROVE TypeOK'
    BY <1>5 DEF Enter
  <1>6. ASSUME NEW p \in Processes, Write(p) PROVE TypeOK'
    BY <1>6 DEF Write
  <1>7. ASSUME NEW p \in Processes, Close(p) PROVE TypeOK'
    <2>1. lock' \in Locks /\ lock'.exists
      BY <1>7 DEF Close, HandleInv, Owns
    <2> QED
      BY <1>7, <2>1 DEF Close
  <1>8. ASSUME NEW p \in Processes, Unlink(p) PROVE TypeOK'
    <2>1. lock' \in Locks /\ (~lock'.exists => lock' = Absent)
      <3>1. lock' = Absent \/ lock' = lock
        BY <1>8 DEF Unlink
      <3>2. Absent \in Locks
        BY DEF Absent
      <3> QED
        BY <3>1, <3>2
    <2>2. pc' \in [Processes -> Pcs] /\ outcome' \in [Processes -> Outcomes]
      BY <1>8 DEF Unlink
    <2>3. readers' = {q \in Processes : pc'[q] = "reading"}
      BY <1>8 DEF Unlink
    <2>4. failed' \subseteq Processes
      BY <1>8 DEF Unlink
    <2> QED
      BY <1>8, <2>1, <2>2, <2>3, <2>4 DEF Unlink
  <1>9. ASSUME NEW p \in Processes, FindLock(p) PROVE TypeOK'
    BY <1>9 DEF FindLock
  <1>10. ASSUME NEW p \in Processes, AskOwner(p) PROVE TypeOK'
    BY <1>10 DEF AskOwner
  <1>11. ASSUME NEW p \in Processes, Reclaim(p) PROVE TypeOK'
    <2>1. lock' \in Locks /\ (~lock'.exists => lock' = Absent)
      <3>1. lock' = Absent \/ lock' = lock
        BY <1>11 DEF Reclaim
      <3>2. Absent \in Locks
        BY DEF Absent
      <3> QED
        BY <3>1, <3>2
    <2> QED
      BY <1>11, <2>1 DEF Reclaim
  <1>12. ASSUME NEW p \in Processes, Die(p) PROVE TypeOK'
    <2>1. lock' \in Locks /\ (lock.holder # p => lock' = lock)
      BY <1>12 DEF Die
    <2>2. ~lock.exists => lock.holder # p
      BY ProcessesAssumption DEF Absent
    <2>3. lock'.exists = lock.exists
      BY <1>12 DEF Die
    <2>4. lock' \in Locks /\ (~lock'.exists => lock' = Absent)
      BY <2>1, <2>2, <2>3
    <2>5. readers' = {q \in Processes : pc'[q] = "reading"}
      BY <1>12 DEF Die
    <2>6. pc' \in [Processes -> Pcs]
      BY <1>12 DEF Die
    <2> QED
      BY <1>12, <2>4, <2>5, <2>6 DEF Die
  <1>13. CASE UNCHANGED vars
    BY <1>13 DEF vars
  <1> QED
    BY <1>1, <1>2, <1>3, <1>4, <1>5, <1>6, <1>7, <1>8, <1>9, <1>10, <1>11, <1>12, <1>13
       DEF Next, Step

LEMMA HandleStep == LockInv /\ [Next]_vars => HandleInv'
  <1> SUFFICES ASSUME LockInv, [Next]_vars, NEW q \in Processes, Owns(q)'
               PROVE  lock'.exists /\ lock'.holder = q
    BY DEF HandleInv
  <1> USE DEF LockInv, TypeOK, Locks, HandleInv, Owns, At, Goto, Return, Record, caller
  <1>1. ASSUME NEW p \in Processes, Open(p) PROVE lock'.exists /\ lock'.holder = q
    <2>1. CASE p = q
      BY <1>1, <2>1, ZenonT(30) DEF Open, Absent
    <2>2. CASE p # q
      BY <1>1, <2>2 DEF Open
    <2> QED
      BY <2>1, <2>2
  <1>2. ASSUME NEW p \in Processes, WriteIdentity(p) PROVE lock'.exists /\ lock'.holder = q
    BY <1>2 DEF WriteIdentity
  <1>3. ASSUME NEW p \in Processes, Close(p) PROVE lock'.exists /\ lock'.holder = q
    BY <1>3 DEF Close
  <1>4. ASSUME NEW p \in Processes, Unlink(p) PROVE lock'.exists /\ lock'.holder = q
    <2>1. Owns(q) /\ p # q
      BY <1>4 DEF Unlink
    <2>2. ~Deletable \/ ~Windows
      BY <2>1, ProcessesAssumption DEF Deletable
    <2>3. Windows
      BY <1>4, <2>1, LockBounds DEF Unlink, CreatorInv
    <2> QED
      BY <1>4, <2>1, <2>2, <2>3 DEF Unlink
  <1>5. ASSUME NEW p \in Processes, Reclaim(p) PROVE lock'.exists /\ lock'.holder = q
    <2>1. Owns(q) /\ p # q
      BY <1>5 DEF Reclaim
    <2>2. ~Deletable \/ ~Windows
      BY <2>1, ProcessesAssumption DEF Deletable
    <2>3. Windows
      BY <1>5, LockBounds DEF Reclaim, CreatorInv
    <2> QED
      BY <1>5, <2>1, <2>2, <2>3 DEF Reclaim
  <1>6. ASSUME NEW p \in Processes, Die(p) PROVE lock'.exists /\ lock'.holder = q
    BY <1>6 DEF Die
  <1>7. ASSUME NEW p \in Processes,
               \/ Hash(p) \/ Begin(p) \/ Enter(p) \/ Write(p) \/ FindLock(p) \/ AskOwner(p)
        PROVE  lock'.exists /\ lock'.holder = q
    BY <1>7 DEF Hash, Begin, Enter, Write, FindLock, AskOwner
  <1>8. CASE UNCHANGED vars
    BY <1>8 DEF vars
  <1> QED
    BY <1>1, <1>2, <1>3, <1>4, <1>5, <1>6, <1>7, <1>8 DEF Next, Step

LEMMA CreatorStep == LockInv /\ [Next]_vars => CreatorInv'
  <1> SUFFICES ASSUME LockInv, [Next]_vars, ~Windows PROVE CreatorInv'
    BY DEF CreatorInv
  <1> USE ProcessesAssumption DEF LockInv, TypeOK, Locks, CreatorInv, Owns, At, Goto, Return, Record, caller
  <1>1. ASSUME NEW p \in Processes, Open(p) PROVE CreatorInv'
    <2>1. CASE lock.exists
      BY <1>1, <2>1 DEF Open
    <2>2. CASE ~lock.exists
      <3>1. \A q \in Processes : ~Owns(q) /\ ~At(q, "unlink")
        BY <2>2
      <3>2. lock'.exists /\ lock'.identity = Nobody /\ pc' = [pc EXCEPT ![p] = "enter"]
        BY <1>1, <2>2, ZenonT(30) DEF Open, Absent
      <3> QED
        BY <3>1, <3>2
    <2> QED
      BY <2>1, <2>2
  <1>2. ASSUME NEW p \in Processes, Close(p) PROVE CreatorInv'
    BY <1>2 DEF Close
  <1>3. ASSUME NEW p \in Processes, Unlink(p) PROVE CreatorInv'
    BY <1>3 DEF Unlink, Absent
  <1>4. ASSUME NEW p \in Processes, Die(p) PROVE CreatorInv'
    BY <1>4 DEF Die
  <1>5. ASSUME NEW p \in Processes,
               \/ Hash(p) \/ Begin(p) \/ Enter(p) \/ Write(p) \/ FindLock(p)
        PROVE  CreatorInv'
    BY <1>5 DEF Hash, Begin, Enter, Write, FindLock
  <1>6. ASSUME NEW p \in Processes PROVE ~(WriteIdentity(p) \/ AskOwner(p) \/ Reclaim(p))
    BY DEF WriteIdentity, AskOwner, Reclaim
  <1>7. CASE UNCHANGED vars
    BY <1>7 DEF vars
  <1> QED
    BY <1>1, <1>2, <1>3, <1>4, <1>5, <1>6, <1>7 DEF Next, Step

LEMMA HashStep == LockInv /\ [Next]_vars => HashInv'
  <1> SUFFICES ASSUME LockInv, [Next]_vars,
                      NEW q \in Transitions, At(q, "write")'
               PROVE  hashed'[q] = version'
    BY DEF HashInv, Processes
  <1> USE DEF LockInv, TypeOK, HashInv, At, Goto, Return, Record, caller, Processes
  <1>1. ASSUME NEW p \in Processes, Write(p) PROVE hashed'[q] = version'
    <2>1. p # q
      BY <1>1 DEF Write
    <2>2. Owns(p) /\ Owns(q)
      BY <1>1, <2>1 DEF Write, Owns
    <2> QED
      BY <2>1, <2>2 DEF HandleInv
  <1>2. ASSUME NEW p \in Processes, Hash(p) PROVE hashed'[q] = version'
    BY <1>2 DEF Hash
  <1>3. ASSUME NEW p \in Processes, Enter(p) PROVE hashed'[q] = version'
    BY <1>3 DEF Enter
  <1>4. ASSUME NEW p \in Processes,
               \/ Begin(p) \/ Open(p) \/ WriteIdentity(p) \/ Close(p) \/ Unlink(p)
               \/ FindLock(p) \/ AskOwner(p) \/ Reclaim(p) \/ Die(p)
        PROVE  hashed'[q] = version'
    <2>1. hashed' = hashed /\ version' = version
      BY <1>4 DEF Begin, Open, WriteIdentity, Close, Unlink, FindLock, AskOwner, Reclaim, Die
    <2>2. At(q, "write")
      BY <1>4 DEF Begin, Open, WriteIdentity, Close, Unlink, FindLock, AskOwner, Reclaim, Die
    <2> QED
      BY <2>1, <2>2
  <1>5. CASE UNCHANGED vars
    BY <1>5 DEF vars
  <1> QED
    BY <1>1, <1>2, <1>3, <1>4, <1>5 DEF Next, Step

LEMMA Invariance == Spec => []LockInv
  <1>1. LockInv /\ [Next]_vars => LockInv'
    BY TypeStep, HandleStep, CreatorStep, HashStep DEF LockInv
  <1> QED
    BY <1>1, InitLockInv, PTL DEF Spec

-----------------------------------------------------------------------------
(* TypeOK: the lock, its readers and the calls are well formed. *)
THEOREM TypeCorrect == Spec => []TypeOK
  <1>1. LockInv => TypeOK
    BY DEF LockInv
  <1> QED
    BY <1>1, Invariance, PTL

(* MutualExclusion: at most one process is inside the lock of the manifest,    *)
(* however many die and however many reclaim their locks at once.              *)
THEOREM OneInside == Spec => []MutualExclusion
  <1>1. LockInv => MutualExclusion
    BY DEF LockInv, HandleInv, MutualExclusion, Inside, Owns
  <1> QED
    BY <1>1, Invariance, PTL

(* ImplementsStore: under the lock, a transition is an atomic compare-and-swap *)
(* of the manifest and write_manifest an atomic write.                         *)
THEOREM WritesAreAtomic == Spec => ImplementsStore
  <1>1. Init => Store!Init
    BY DEF Init, Store!Init, Processes
  <1>2. LockInv /\ [Next]_vars => [Store!Next]_<<version, author, hashed>>
    <2> SUFFICES ASSUME LockInv, [Next]_vars PROVE [Store!Next]_<<version, author, hashed>>
      OBVIOUS
    <2> USE DEF Store!Next, Store!Hash, Store!CompareAndSwap, Store!Write
    <2>1. ASSUME NEW p \in Processes, Hash(p) PROVE Store!Next
      BY <2>1 DEF Hash, Processes
    <2>2. ASSUME NEW p \in Processes, Write(p) PROVE [Store!Next]_<<version, author, hashed>>
      <3>1. CASE p \in Transitions
        <4>1. hashed[p] = version
          BY <2>2, <3>1 DEF Write, LockInv, HashInv
        <4> QED
          BY <2>2, <3>1, <4>1 DEF Write, Processes
      <3>2. CASE p \in Writers
        BY <2>2, <3>2 DEF Write, Processes
      <3> QED
        BY <3>1, <3>2 DEF Processes
    <2>3. ASSUME NEW p \in Processes,
                 \/ Begin(p) \/ Open(p) \/ WriteIdentity(p) \/ Enter(p) \/ Close(p)
                 \/ Unlink(p) \/ FindLock(p) \/ AskOwner(p) \/ Reclaim(p) \/ Die(p)
          PROVE  UNCHANGED <<version, author, hashed>>
      BY <2>3 DEF Begin, Open, WriteIdentity, Enter, Close, Unlink, FindLock, AskOwner, Reclaim, Die
    <2>4. CASE UNCHANGED vars
      BY <2>4 DEF vars
    <2> QED
      BY <2>1, <2>2, <2>3, <2>4 DEF Next, Step
  <1> QED
    BY <1>1, <1>2, Invariance, PTL DEF Spec, ImplementsStore, Store!Spec

-----------------------------------------------------------------------------
(* A lock file left behind is explained *)

\* The process that will delete a lock file, or has it open.
InCharge(p) == Owns(p) \/ At(p, "unlink")

\* Only an owner has the file open to write ...
HolderInv == lock.holder # Nobody => lock.holder \in Processes /\ Owns(lock.holder)

\* ... and only a file with an identity is read.
ReaderInv ==
    /\ readers # {} => lock.exists /\ lock.identity # Nobody
    /\ \A p \in Processes : At(p, "reading") => seen[p] \in Processes

\* As long as nobody has died nobody reclaims: there is one lock file for the
\* one process in charge, and a file without an identity is in its charge.
AliveInv ==
    (\A p \in Processes : ~At(p, "dead")) =>
        /\ \A p \in Processes : ~At(p, "reclaim")
        /\ \A p \in Processes : InCharge(p) => lock.exists
        /\ \A p, q \in Processes : InCharge(p) /\ InCharge(q) => p = q
        /\ lock.exists /\ lock.identity = Nobody => \E p \in Processes : InCharge(p)

\* The process a lock file names is in charge of it, died, or failed to delete it.
IdentityInv ==
    lock.identity # Nobody =>
        \/ InCharge(lock.identity)
        \/ At(lock.identity, "dead")
        \/ lock.identity \in failed

LeftoverInv == HolderInv /\ ReaderInv /\ AliveInv /\ IdentityInv

\* Steps that leave the lock file alone and take nobody in or out of its charge.
LEMMA LeftoverElsewhere ==
    ASSUME LockInv, LeftoverInv, UNCHANGED <<lock, failed>>,
           NEW p \in Processes, ~InCharge(p), ~InCharge(p)', ~At(p, "dead"),
           \A q \in Processes \ {p} : pc'[q] = pc[q] /\ seen'[q] = seen[q],
           At(p, "reclaim")' => \E q \in Processes : At(q, "dead"),
           readers' # {} => lock.exists /\ lock.identity # Nobody,
           At(p, "reading")' => seen'[p] \in Processes
    PROVE  LeftoverInv'
  <1>1. \A q \in Processes : (InCharge(q)' <=> InCharge(q)) /\ (Owns(q)' <=> Owns(q))
    BY DEF InCharge, Owns, At
  <1>2. \A q \in Processes : At(q, "dead") => At(q, "dead")'
    BY DEF At
  <1>3. HolderInv' /\ ReaderInv'
    BY <1>1 DEF LeftoverInv, HolderInv, ReaderInv, InCharge, Owns, At
  <1>4. AliveInv'
    BY <1>1, <1>2 DEF LeftoverInv, AliveInv, At
  <1>5. IdentityInv'
    BY <1>1, <1>2 DEF LeftoverInv, IdentityInv, LockInv, TypeOK, Locks
  <1> QED
    BY <1>3, <1>4, <1>5 DEF LeftoverInv


\* Whatever is deleted, the lock file or the file of another, nobody reads it.
LEMMA DeletedUnread ==
    ASSUME LockInv, ReaderInv, ~lock.exists \/ Deletable
    PROVE  readers = {}
  <1>1. CASE Windows
    BY <1>1 DEF ReaderInv, Deletable
  <1>2. CASE ~Windows
    BY <1>2 DEF ReaderInv, LockInv, TypeOK, CreatorInv
  <1> QED
    BY <1>1, <1>2

LEMMA LeftoverStep == LockInv /\ LeftoverInv /\ [Next]_vars => LeftoverInv'
  <1> SUFFICES ASSUME LockInv, LeftoverInv, [Next]_vars PROVE LeftoverInv'
    OBVIOUS
  <1> USE DEF Goto, Return, Record, caller
  <1>0. /\ Nobody \notin Processes
        /\ pc \in [Processes -> Pcs] /\ seen \in [Processes -> Processes \cup {Nobody}]
        /\ lock \in Locks /\ readers = {q \in Processes : At(q, "reading")}
    BY ProcessesAssumption DEF LockInv, TypeOK
  <1>1. ASSUME NEW p \in Processes, Hash(p) PROVE LeftoverInv'
    BY <1>1 DEF Hash, LeftoverInv, HolderInv, ReaderInv, AliveInv, IdentityInv, InCharge, Owns, At
  <1>2. ASSUME NEW p \in Processes, Begin(p) PROVE LeftoverInv'
    <2>1. /\ UNCHANGED <<lock, readers, failed>> /\ ~InCharge(p) /\ ~InCharge(p)'
          /\ ~At(p, "dead") /\ ~At(p, "reclaim")' /\ ~At(p, "reading")'
          /\ \A q \in Processes \ {p} : pc'[q] = pc[q] /\ seen'[q] = seen[q]
      BY <1>0, <1>2 DEF Begin, InCharge, Owns, At
    <2> QED
      BY <2>1, LeftoverElsewhere DEF LeftoverInv, ReaderInv
  <1>3. ASSUME NEW p \in Processes, Open(p) PROVE LeftoverInv'
    <2>1. CASE lock.exists
      <3>1. /\ UNCHANGED <<lock, readers, failed>> /\ ~InCharge(p) /\ ~InCharge(p)'
            /\ ~At(p, "dead") /\ ~At(p, "reclaim")' /\ ~At(p, "reading")'
            /\ \A q \in Processes \ {p} : pc'[q] = pc[q] /\ seen'[q] = seen[q]
        BY <1>0, <1>3, <2>1 DEF Open, InCharge, Owns, At
      <3> QED
        BY <3>1, LeftoverElsewhere DEF LeftoverInv, ReaderInv
    <2>2. CASE ~lock.exists
      <3>1. /\ lock'.exists /\ lock'.holder = p /\ lock'.identity = Nobody
            /\ readers' = readers /\ failed' = failed /\ seen' = seen
        BY <1>3, <2>2 DEF Open, Absent
      <3>2. /\ Owns(p)' /\ ~At(p, "reclaim")' /\ ~At(p, "reading")'
            /\ At(p, "open") /\ ~InCharge(p)
            /\ \A q \in Processes \ {p} : pc'[q] = pc[q]
        BY <1>0, <1>3, <2>2 DEF Open, Owns, InCharge, At
      <3>3. readers = {}
        BY <2>2 DEF LeftoverInv, ReaderInv
      <3>4. HolderInv' /\ ReaderInv' /\ IdentityInv'
        BY <3>1, <3>2, <3>3 DEF LeftoverInv, HolderInv, ReaderInv, IdentityInv, At
      <3>5. ASSUME \A q \in Processes : ~At(q, "dead")'
            PROVE  \A q \in Processes : ~At(q, "reclaim") /\ ~InCharge(q)
        BY <2>2, <3>2, <3>5 DEF LeftoverInv, AliveInv, At
      <3>6. AliveInv'
        BY <3>1, <3>2, <3>5 DEF AliveInv, InCharge, Owns, At
      <3> QED
        BY <3>4, <3>6 DEF LeftoverInv
    <2> QED
      BY <2>1, <2>2
  \* The one in charge goes on with its lock file.
  <1>4. ASSUME NEW p \in Processes, InCharge(p), InCharge(p)',
               \A q \in Processes \ {p} : pc'[q] = pc[q],
               seen' = seen, readers' = readers, failed' = failed, lock'.exists,
               (lock'.holder = lock.holder /\ Owns(p)') \/ lock'.holder = Nobody,
               lock'.identity = lock.identity \/ lock'.identity = p
        PROVE  LeftoverInv'
    <2>1. \A q \in Processes : InCharge(q)' <=> InCharge(q)
      BY <1>4 DEF InCharge, Owns, At
    <2>2. HolderInv'
      BY <1>0, <1>4 DEF LeftoverInv, HolderInv, Owns
    <2>3. ReaderInv'
      BY <1>0, <1>4 DEF LeftoverInv, ReaderInv, InCharge, Owns, At
    <2>4. AliveInv'
      <3> SUFFICES ASSUME \A q \in Processes : ~At(q, "dead")' PROVE AliveInv!2'
        BY DEF AliveInv
      <3>1. \A q \in Processes : ~At(q, "dead")
        BY <1>4 DEF InCharge, Owns, At
      <3>2. AliveInv!2
        BY <3>1 DEF LeftoverInv, AliveInv
      <3> QED
        BY <1>4, <2>1, <3>2 DEF InCharge, Owns, At
    <2>5. IdentityInv'
      BY <1>0, <1>4, <2>1 DEF LeftoverInv, IdentityInv, Locks, InCharge, Owns, At
    <2> QED
      BY <2>2, <2>3, <2>4, <2>5 DEF LeftoverInv
  <1>5. ASSUME NEW p \in Processes, WriteIdentity(p) \/ Enter(p) \/ Write(p) PROVE LeftoverInv'
    <2>1. /\ Owns(p) /\ Owns(p)'
          /\ \A q \in Processes \ {p} : pc'[q] = pc[q]
          /\ seen' = seen /\ readers' = readers /\ failed' = failed
      BY <1>0, <1>5 DEF WriteIdentity, Enter, Write, Owns, At
    <2>2. lock.exists
      BY <2>1 DEF LockInv, HandleInv
    <2>3. lock'.exists /\ lock'.holder = lock.holder /\ lock'.identity \in {lock.identity, p}
      BY <1>0, <1>5, <2>2 DEF WriteIdentity, Enter, Write, Locks
    <2> QED
      BY <1>4, <2>1, <2>3 DEF InCharge
  <1>6. ASSUME NEW p \in Processes, Close(p) PROVE LeftoverInv'
    <2>1. Owns(p) /\ At(p, "unlink")' /\ \A q \in Processes \ {p} : pc'[q] = pc[q]
      BY <1>0, <1>6 DEF Close, Owns, At
    <2>2. lock.exists /\ lock.holder = p
      BY <2>1 DEF LockInv, HandleInv
    <2>3. /\ lock'.exists /\ lock'.holder = Nobody /\ lock'.identity = lock.identity
          /\ seen' = seen /\ readers' = readers /\ failed' = failed
      BY <1>0, <1>6, <2>2 DEF Close, Locks
    <2> QED
      BY <1>4, <2>1, <2>3 DEF InCharge
  <1>7. ASSUME NEW p \in Processes, Unlink(p) \/ Reclaim(p), ~lock.exists \/ Deletable
        PROVE  LeftoverInv'
    <2>1. lock' = Absent /\ readers' = readers /\ readers = {} /\ seen' = seen
      BY <1>7, DeletedUnread DEF Unlink, Reclaim, LeftoverInv
    <2>2. /\ \A q \in Processes \ {p} : pc'[q] = pc[q]
          /\ ~InCharge(p)' /\ ~At(p, "reclaim")' /\ ~At(p, "reading")' /\ ~At(p, "dead")
      BY <1>0, <1>7 DEF Unlink, Reclaim, InCharge, Owns, At
    <2>3. HolderInv' /\ IdentityInv'
      BY <2>1 DEF HolderInv, IdentityInv, Absent
    <2>4. ReaderInv'
      BY <2>1, <2>2 DEF LeftoverInv, ReaderInv, At
    <2>5. ASSUME \A q \in Processes : ~At(q, "dead")'
          PROVE  \A q \in Processes : ~At(q, "reclaim")' /\ ~InCharge(q)'
      <3>1. AliveInv!2
        BY <2>2, <2>5 DEF LeftoverInv, AliveInv, At
      <3>2. At(p, "unlink")
        BY <1>7, <3>1 DEF Unlink, Reclaim
      <3>3. \A q \in Processes \ {p} : ~InCharge(q)
        BY <3>1, <3>2 DEF InCharge
      <3> QED
        BY <2>2, <3>1, <3>3 DEF InCharge, Owns, At
    <2>6. AliveInv'
      BY <2>1, <2>5 DEF AliveInv, Absent
    <2> QED
      BY <2>3, <2>4, <2>6 DEF LeftoverInv
  <1>8. ASSUME NEW p \in Processes, Unlink(p), lock.exists /\ ~Deletable
        PROVE  LeftoverInv'
    <2>1. /\ At(p, "unlink") /\ lock' = lock /\ readers' = readers /\ seen' = seen
          /\ failed' = failed \cup {p}
          /\ \A q \in Processes \ {p} : pc'[q] = pc[q]
          /\ At(p, "idle")'
      BY <1>0, <1>8 DEF Unlink, At
    <2>2. \A q \in Processes \ {p} : (InCharge(q)' <=> InCharge(q)) /\ (Owns(q)' <=> Owns(q))
      BY <2>1 DEF InCharge, Owns, At
    <2>3. ~Owns(p) /\ ~InCharge(p)' /\ InCharge(p)
      BY <2>1 DEF InCharge, Owns, At
    <2>4. HolderInv'
      BY <2>1, <2>2, <2>3 DEF LeftoverInv, HolderInv
    <2>5. ReaderInv'
      BY <2>1 DEF LeftoverInv, ReaderInv, At
    <2>6. IdentityInv'
      BY <1>0, <2>1, <2>2 DEF LeftoverInv, IdentityInv, Locks, At
    <2>7. ASSUME \A q \in Processes : ~At(q, "dead")'
          PROVE  AliveInv!2'
      <3>1. AliveInv!2
        BY <2>1, <2>7 DEF LeftoverInv, AliveInv, At
      <3>2. \A q \in Processes : ~InCharge(q)'
        BY <2>2, <2>3, <3>1
      <3>3. lock.holder = Nobody
        BY <2>3, <3>1 DEF LeftoverInv, HolderInv, InCharge
      <3>4. readers # {}
        BY <1>8, <3>3 DEF Deletable
      <3>5. lock.identity # Nobody
        BY <3>4 DEF LeftoverInv, ReaderInv
      <3> QED
        BY <2>1, <3>1, <3>2, <3>5 DEF At
    <2>8. AliveInv'
      BY <2>7 DEF AliveInv
    <2> QED
      BY <2>4, <2>5, <2>6, <2>8 DEF LeftoverInv
  <1>9. ASSUME NEW p \in Processes, FindLock(p) \/ AskOwner(p) PROVE LeftoverInv'
    <2>1. /\ UNCHANGED <<lock, failed>> /\ ~InCharge(p) /\ ~InCharge(p)' /\ ~At(p, "dead")
          /\ \A q \in Processes \ {p} : pc'[q] = pc[q] /\ seen'[q] = seen[q]
      BY <1>0, <1>9 DEF FindLock, AskOwner, InCharge, Owns, At
    <2>2. readers' # {} => lock.exists /\ lock.identity # Nobody
      BY <1>0, <1>9 DEF FindLock, AskOwner, LeftoverInv, ReaderInv
    <2>3. At(p, "reading")' => seen'[p] \in Processes
      BY <1>0, <1>9 DEF FindLock, AskOwner, At, Locks
    <2>4. At(p, "reclaim")' => \E q \in Processes : At(q, "dead")
      BY <1>0, <1>9 DEF FindLock, AskOwner, LeftoverInv, ReaderInv, At
    <2> QED
      BY <2>1, <2>2, <2>3, <2>4, LeftoverElsewhere
  <1>10. ASSUME NEW p \in Processes, Reclaim(p), lock.exists /\ ~Deletable PROVE LeftoverInv'
    <2>1. /\ UNCHANGED <<lock, readers, failed>> /\ ~InCharge(p) /\ ~InCharge(p)'
          /\ ~At(p, "dead") /\ ~At(p, "reclaim")' /\ ~At(p, "reading")'
          /\ \A q \in Processes \ {p} : pc'[q] = pc[q] /\ seen'[q] = seen[q]
      BY <1>0, <1>10 DEF Reclaim, InCharge, Owns, At
    <2> QED
      BY <2>1, LeftoverElsewhere DEF LeftoverInv, ReaderInv
  <1>11. ASSUME NEW p \in Processes, Die(p) PROVE LeftoverInv'
    <2>1. /\ At(p, "dead")' /\ \A q \in Processes \ {p} : pc'[q] = pc[q]
          /\ seen' = seen /\ failed' = failed /\ readers' = readers \ {p}
      BY <1>0, <1>11 DEF Die, At
    <2>2. /\ lock'.exists = lock.exists /\ lock'.identity = lock.identity
          /\ lock'.holder = IF lock.holder = p THEN Nobody ELSE lock.holder
      BY <1>0, <1>11 DEF Die, Locks
    <2>3. HolderInv'
      BY <2>1, <2>2 DEF LeftoverInv, HolderInv, Owns
    <2>4. ReaderInv'
      BY <2>1, <2>2 DEF LeftoverInv, ReaderInv, At
    <2>5. AliveInv'
      BY <2>1 DEF AliveInv
    <2>6. IdentityInv'
      BY <1>0, <2>1, <2>2 DEF LeftoverInv, IdentityInv, Locks, InCharge, Owns, At
    <2> QED
      BY <2>3, <2>4, <2>5, <2>6 DEF LeftoverInv
  <1>12. CASE UNCHANGED vars
    BY <1>12 DEF vars, LeftoverInv, HolderInv, ReaderInv, AliveInv, IdentityInv, InCharge, Owns, At
  <1> QED
    BY <1>1, <1>2, <1>3, <1>5, <1>6, <1>7, <1>8, <1>9, <1>10, <1>11, <1>12 DEF Next, Step

(* LeftoverIsExplained: a lock file that is left when every call has ended     *)
(* names a process that died or that reported it could not delete it; without  *)
(* an identity, a process died before it had written one.                      *)
THEOREM LeftoverHasAnOwner == Spec => []LeftoverIsExplained
  <1>1. Init => LeftoverInv
    BY DEF Init, LeftoverInv, HolderInv, ReaderInv, AliveInv, IdentityInv, InCharge, Owns, At,
       Absent
  <1>2. LockInv /\ LeftoverInv => LeftoverIsExplained
    BY ProcessesAssumption DEF LockInv, TypeOK, Locks, LeftoverInv, AliveInv, IdentityInv,
       LeftoverIsExplained, InCharge, Owns, At
  <1> QED
    BY <1>1, <1>2, LeftoverStep, Invariance, PTL DEF Spec


(***************************************************************************)
(* The runs of the agent (AgentRun), for any advisory runs, applications,  *)
(* inputs and constraints.                                                 *)
(***************************************************************************)
Inputs == Pages \X Semantics

\* A run advises or applies; no file is none of the files.
AgentBounds ==
    /\ Advisers \cap Appliers = {} /\ NoFile \notin Inputs
    /\ NoFile \notin Agent!Reports /\ Torn \notin Agent!Reports

Contents == Agent!Reports \cup {NoFile, Torn}
Statuses == {"none", "okay", "failed"}
Approvals == [path : {"advice", "copy"}, report : Agent!Reports, inputs : Inputs]
Locals == [approval : Approvals \cup {NoFile}, solver : BOOLEAN,
           hashed : Inputs \cup {NoFile}, loaded : Inputs \cup {NoFile},
           list : SUBSET Agent!Constraints, status : Statuses, checked : Contents,
           report : Agent!Reports \cup {Agent!NoReport}, after : Statuses, saved : Contents]

AgentTyped ==
    /\ page \in Pages /\ sem \in Semantics
    /\ files \in [Agent!Names -> Contents]
    /\ approvals \subseteq Approvals
    /\ aPc \in [Agent!Runs -> Agent!Labels] /\ run \in [Agent!Runs -> Locals]

\* A report that an advisory run, of these, made of the inputs it had loaded.
Made(report, runs) ==
    /\ report \in Agent!Reports /\ report.applied = {}
    /\ report.made_for \in Inputs /\ report.made_for = runs[report.maker].loaded
    /\ report.overrides \subseteq Agent!ItemsIn(report.made_for)
    /\ report.drops \subseteq ListOf[report.made_for[2]]

\* An approval of such a report, for the inputs its run had hashed.
Given(a, runs) == Made(a.report, runs) /\ a.inputs = runs[a.report.maker].hashed

\* Another application has loaded its inputs.
Joined(r, runs) == \E s \in Appliers \ {r} : runs[s].loaded \in Inputs

Loaded == {"solve", "reread", "advise", "check", "load_report", "apply", "save", "write",
           "hash_saved", "audit", "draw", "failing"}
Advising == {"advise", "save", "write", "hash_saved", "audit", "draw"}
Applying == {"save", "write", "hash_saved", "audit", "draw", "failing"}

\* What a run knows at its step ...
Reads(label, q) ==
    /\ label \in {"idle", "hash"} => q.hashed = NoFile
    /\ label \in {"idle", "hash", "load"} => q.loaded = NoFile /\ q.status = "none"
    /\ label \in Loaded \cup {"load"} => q.hashed \in Inputs
    /\ label \in Loaded => q.loaded \in Inputs

Solves(q, solved) == q.status = "okay" => Agent!Prune(q.list) \in solved

\* ... an advisory one ...
Advises(r, label, q, runs) ==
    /\ label \notin {"check", "load_report", "apply", "failing"}
    /\ label \in Loaded => q.list = ListOf[q.loaded[2]]
    /\ label \in Advising => Made(q.report, runs) /\ q.report.maker = r

\* ... and one that applies.
Applies(r, label, q, runs, saved, noted) ==
    /\ label \notin {"reread", "advise"}
    /\ label \in Loaded \cup {"hash", "load"} => q.approval \in noted
    /\ label \in Loaded \cup {"load"} => q.hashed = q.approval.inputs
    /\ label \in Applying \cup {"load_report", "apply"} => q.checked = q.approval.report
    /\ label = "apply" => q.report \in Agent!Reports
    /\ label \notin Applying => q.report.applied = {}
    /\ label \in Applying =>
        /\ q.report \in Agent!Reports
        /\ q.report.applied =
               (q.report.overrides \cap Agent!ItemsIn(q.loaded)) \cup q.report.drops
    /\ label = "hash_saved" => saved = q.report \/ Joined(r, runs)
    /\ label \in {"audit", "draw"} =>
        \/ q.saved \in Agent!Reports /\ q.saved.applied = q.report.applied
        \/ Joined(r, runs)

Stands(r, label, q, runs, saved, noted, solved) ==
    /\ Reads(label, q) /\ Solves(q, solved)
    /\ r \in Advisers => Advises(r, label, q, runs)
    /\ r \in Appliers => Applies(r, label, q, runs, saved, noted)

StandInv ==
    \A r \in Agent!Runs : Stands(r, aPc[r], run[r], run, files["applied"], approvals, solvable)

ReportsInv == \A n \in {"advice", "copy"} : files[n] \in Agent!Reports => Made(files[n], run)

ApprovalsInv == \A a \in approvals : Given(a, run)

AuditOf(a, runs, noted) ==
    /\ a.run \in Agent!Runs
    /\ a.run \in Advisers =>
        /\ a.report_id = a.run /\ a.inputs \in Inputs /\ a.inputs = runs[a.run].hashed
        /\ runs[a.run].loaded \in Inputs /\ a.applied = {}
    /\ a.run \in Appliers =>
        /\ a.approval \in noted /\ a.inputs = a.approval.inputs
        /\ \/ a.saved \in Agent!Reports /\ a.saved.applied = a.applied
           \/ Joined(a.run, runs)

AuditInv == audit # NoFile => AuditOf(audit, run, approvals)

AgentInv ==
    AgentTyped /\ StandInv /\ ReportsInv /\ ApprovalsInv /\ AuditInv /\ Agent!DrawnAsSolved

\* What a run has read of its inputs is remembered.
ReadsStay ==
    \A s \in Agent!Runs :
        run[s].loaded \in Inputs => /\ run'[s].loaded = run[s].loaded
                                    /\ run'[s].hashed = run[s].hashed

-----------------------------------------------------------------------------
LEMMA MadeStays ==
    ASSUME ReadsStay, NEW report, Made(report, run)
    PROVE  /\ Made(report, run')
           /\ run'[report.maker].hashed = run[report.maker].hashed
  <1>1. report.maker \in Agent!Runs /\ run[report.maker].loaded \in Inputs
    BY DEF Made, Agent!Reports, Agent!Runs
  <1>2. /\ run'[report.maker].loaded = run[report.maker].loaded
        /\ run'[report.maker].hashed = run[report.maker].hashed
    BY <1>1 DEF ReadsStay
  <1> QED
    BY <1>2 DEF Made

LEMMA JoinedStays ==
    ASSUME ReadsStay, NEW r, Joined(r, run)
    PROVE  Joined(r, run')
  BY DEF ReadsStay, Joined, Agent!Runs

\* One run moves: what it is to show of itself and of the files.
LEMMA AgentMoves ==
    ASSUME AgentBounds, AgentInv, NEW r \in Agent!Runs,
           NEW label \in Agent!Labels, NEW q \in Locals,
           aPc' = [aPc EXCEPT ![r] = label], run' = [run EXCEPT ![r] = q],
           UNCHANGED <<page, sem, solvable, approvals>>,
           run[r].loaded \in Inputs => q.loaded = run[r].loaded /\ q.hashed = run[r].hashed,
           files' \in [Agent!Names -> Contents],
           files'["applied"] = files["applied"] \/ (r \in Appliers /\ q.loaded \in Inputs),
           Stands(r, label, q, run', files'["applied"], approvals, solvable),
           \A n \in {"advice", "copy"} : files'[n] \in Agent!Reports =>
               files'[n] = files[n] \/ Made(files'[n], run'),
           audit' = audit \/ (AuditInv)',
           (Agent!DrawnAsSolved)'
    PROVE  AgentInv'
  <1>1. /\ aPc' \in [Agent!Runs -> Agent!Labels] /\ run' \in [Agent!Runs -> Locals]
        /\ aPc'[r] = label /\ run'[r] = q
        /\ \A s \in Agent!Runs \ {r} : aPc'[s] = aPc[s] /\ run'[s] = run[s]
    BY DEF AgentInv, AgentTyped
  <1>2. AgentTyped'
    BY <1>1 DEF AgentInv, AgentTyped
  <1>3. ReadsStay
    BY <1>1 DEF ReadsStay
  <1>4. StandInv'
    <2> SUFFICES ASSUME NEW s \in Agent!Runs
                 PROVE  Stands(s, aPc'[s], run'[s], run', files'["applied"], approvals, solvable)
      BY DEF StandInv
    <2>1. CASE s = r
      BY <1>1, <2>1
    <2>2. CASE s # r
      <3>1. Stands(s, aPc[s], run[s], run, files["applied"], approvals, solvable)
        BY DEF AgentInv, StandInv
      <3>2. s \in Advisers => Advises(s, aPc[s], run[s], run')
        <4>1. aPc[s] \in Advising /\ s \in Advisers => Made(run[s].report, run')
          BY <1>3, <3>1, MadeStays DEF Stands, Advises
        <4> QED
          BY <3>1, <4>1 DEF Stands, Advises
      <3>3. s \in Appliers => Applies(s, aPc[s], run[s], run', files'["applied"], approvals)
        <4>1. Joined(s, run) => Joined(s, run')
          BY <1>3, JoinedStays
        <4>2. files'["applied"] = files["applied"] \/ Joined(s, run')
          BY <1>1, <2>2 DEF Joined
        <4> QED
          BY <3>1, <4>1, <4>2 DEF Stands, Applies
      <3>4. Reads(aPc[s], run[s]) /\ Solves(run[s], solvable)
        BY <3>1 DEF Stands
      <3> QED
        BY <1>1, <2>2, <3>2, <3>3, <3>4 DEF Stands
    <2> QED
      BY <2>1, <2>2
  <1>5. ReportsInv'
    BY <1>3, MadeStays DEF AgentInv, ReportsInv
  <1>6. ApprovalsInv'
    BY <1>3, MadeStays DEF AgentInv, ApprovalsInv, Given
  <1>7. AuditInv'
    <2>1. CASE audit' = audit /\ audit # NoFile
      <3>1. AuditOf(audit, run, approvals)
        BY <2>1 DEF AgentInv, AuditInv
      <3>2. Joined(audit.run, run) => Joined(audit.run, run')
        BY <1>3, JoinedStays
      <3>3. AuditOf(audit, run', approvals)
        BY <1>3, <3>1, <3>2 DEF AuditOf, ReadsStay
      <3> QED
        BY <2>1, <3>3 DEF AuditInv
    <2>2. CASE audit' = NoFile
      BY <2>2 DEF AuditInv
    <2> QED
      BY <2>1, <2>2 DEF AuditInv
  <1> QED
    BY <1>2, <1>4, <1>5, <1>6, <1>7 DEF AgentInv

\* Nothing but the run's own locals and step changes.
LEMMA AgentAlone ==
    ASSUME AgentBounds, AgentInv, NEW r \in Agent!Runs,
           NEW label \in Agent!Labels, NEW q \in Locals,
           aPc' = [aPc EXCEPT ![r] = label], run' = [run EXCEPT ![r] = q],
           UNCHANGED <<page, sem, solvable, approvals, files, audit, dxf>>,
           run[r].loaded \in Inputs => q.loaded = run[r].loaded /\ q.hashed = run[r].hashed,
           Stands(r, label, q, run', files["applied"], approvals, solvable)
    PROVE  AgentInv'
  <1>1. files' \in [Agent!Names -> Contents] /\ (Agent!DrawnAsSolved)'
    BY DEF AgentInv, AgentTyped, Agent!DrawnAsSolved
  <1> QED
    BY <1>1, AgentMoves

\* A run at its step.
LEMMA AgentStands ==
    ASSUME AgentInv, NEW r \in Agent!Runs
    PROVE  /\ Stands(r, aPc[r], run[r], run, files["applied"], approvals, solvable)
           /\ run[r] \in Locals /\ run \in [Agent!Runs -> Locals]
           /\ run = [run EXCEPT ![r] = run[r]]
           /\ page \in Pages /\ sem \in Semantics /\ <<page, sem>> \in Inputs
  BY DEF AgentInv, AgentTyped, StandInv, Inputs

LEMMA FreshLocals ==
    /\ Agent!Fresh \in Locals
    /\ Agent!Fresh.hashed = NoFile /\ Agent!Fresh.loaded = NoFile
    /\ Agent!Fresh.status = "none" /\ Agent!Fresh.report.applied = {}
  BY DEF Agent!Fresh, Agent!NoReport, Locals, Statuses, Contents

\* The locals of a process that ends.
LEMMA AgentEnds ==
    ASSUME AgentInv, NEW r \in Agent!Runs, NEW label \in {"refused", "dead", "done"},
           Agent!End(r, label)
    PROVE  \E q \in Locals :
             /\ aPc' = [aPc EXCEPT ![r] = label] /\ run' = [run EXCEPT ![r] = q]
             /\ q.loaded = run[r].loaded /\ q.hashed = run[r].hashed
             /\ Stands(r, label, q, run', files["applied"], approvals, solvable)
  <1> DEFINE q == [Agent!Fresh EXCEPT !.hashed = run[r].hashed, !.loaded = run[r].loaded]
  <1>1. run[r] \in Locals
    BY AgentStands
  <1>2. /\ q \in Locals /\ q.loaded = run[r].loaded /\ q.hashed = run[r].hashed
        /\ q.status = "none" /\ q.report.applied = {}
    BY <1>1, FreshLocals DEF Locals
  <1>3. aPc' = [aPc EXCEPT ![r] = label] /\ run' = [run EXCEPT ![r] = q]
    BY DEF Agent!End, Agent!Goto
  <1> HIDE DEF q
  <1>4. Stands(r, label, q, run', files["applied"], approvals, solvable)
    BY <1>2 DEF Stands, Reads, Solves, Advises, Applies, Loaded, Advising, Applying
  <1> QED
    BY <1>2, <1>3, <1>4

\* A run starts and reads its inputs.
LEMMA AgentReads ==
    ASSUME AgentBounds, AgentInv, NEW r \in Agent!Runs,
           Agent!Start(r) \/ Agent!HashInputs(r) \/ Agent!LoadInputs(r)
    PROVE  AgentInv'
  <1>1. UNCHANGED <<page, sem, solvable, approvals, files, audit, dxf>>
    BY DEF Agent!Start, Agent!HashInputs, Agent!LoadInputs
  <1>2. /\ Stands(r, aPc[r], run[r], run, files["applied"], approvals, solvable)
        /\ run[r] \in Locals /\ <<page, sem>> \in Inputs /\ page \in Pages /\ sem \in Semantics
    BY AgentStands
  <1>3. r \in Advisers => r \notin Appliers
    BY DEF AgentBounds
  <1>4. CASE Agent!Start(r)
    <2>1. PICK solver \in BOOLEAN, approval \in approvals \cup {NoFile} :
            /\ (approval # NoFile) <=> (r \in Appliers)
            /\ run' = [run EXCEPT ![r] = [Agent!Fresh EXCEPT !.approval = approval,
                                                             !.solver = solver]]
      BY <1>4 DEF Agent!Start
    <2> DEFINE q == [Agent!Fresh EXCEPT !.approval = approval, !.solver = solver]
    <2>2. approval \in Approvals \cup {NoFile}
      BY DEF AgentInv, AgentTyped
    <2>3. /\ q \in Locals /\ q.hashed = NoFile /\ q.loaded = NoFile /\ q.status = "none"
          /\ q.report.applied = {} /\ q.approval = approval
      BY <2>2, FreshLocals DEF Locals
    <2>4. run' = [run EXCEPT ![r] = q] /\ aPc' = [aPc EXCEPT ![r] = "hash"]
      BY <1>4, <2>1 DEF Agent!Start, Agent!Goto
    <2> HIDE DEF q
    <2>5. Stands(r, "hash", q, run', files["applied"], approvals, solvable)
      BY <1>3, <2>1, <2>3
         DEF Stands, Reads, Solves, Advises, Applies, Loaded, Advising, Applying
    <2>6. run[r].loaded \notin Inputs
      BY <1>2, <1>4 DEF Stands, Reads, Agent!Start, AgentBounds
    <2>7. "hash" \in Agent!Labels
      BY DEF Agent!Labels
    <2> QED
      BY <1>1, <2>3, <2>4, <2>5, <2>6, <2>7, AgentAlone
  <1>5. CASE Agent!HashInputs(r) /\ Agent!End(r, "refused")
    <2>1. "refused" \in Agent!Labels
      BY DEF Agent!Labels
    <2> QED
      BY <1>1, <1>5, <2>1, AgentEnds, AgentAlone
  <1>6. CASE /\ aPc[r] = "hash" /\ Agent!Goto(r, "load")
             /\ Agent!Set(r, "hashed", <<page, sem>>)
             /\ r \in Appliers => run[r].approval.inputs = <<page, sem>>
    <2> DEFINE q == [run[r] EXCEPT !.hashed = <<page, sem>>]
    <2>1. /\ q \in Locals /\ q.hashed = <<page, sem>> /\ q.loaded = run[r].loaded
          /\ q.status = run[r].status /\ q.report = run[r].report
          /\ q.approval = run[r].approval /\ q.list = run[r].list
      BY <1>2 DEF Locals
    <2>2. run' = [run EXCEPT ![r] = q] /\ aPc' = [aPc EXCEPT ![r] = "load"]
      BY <1>2, <1>6 DEF Agent!Set, Agent!Goto, Locals
    <2> HIDE DEF q
    <2>3. Stands(r, "load", q, run', files["applied"], approvals, solvable)
      BY <1>2, <1>3, <1>6, <2>1
         DEF Stands, Reads, Solves, Advises, Applies, Loaded, Advising, Applying
    <2>4. run[r].loaded \notin Inputs
      BY <1>2, <1>6 DEF Stands, Reads, AgentBounds
    <2>5. "load" \in Agent!Labels
      BY DEF Agent!Labels
    <2> QED
      BY <1>1, <2>1, <2>2, <2>3, <2>4, <2>5, AgentAlone
  <1>7. CASE Agent!LoadInputs(r)
    <2> DEFINE q == [run[r] EXCEPT !.loaded = <<page, sem>>, !.list = ListOf[sem]]
    <2>0. ListOf[sem] \in SUBSET Agent!Constraints
      BY <1>2 DEF Agent!Constraints
    <2>1. /\ q \in Locals /\ q.loaded = <<page, sem>> /\ q.hashed = run[r].hashed
          /\ q.status = run[r].status /\ q.report = run[r].report
          /\ q.approval = run[r].approval /\ q.list = ListOf[sem]
      BY <1>2, <2>0 DEF Locals
    <2>2. run' = [run EXCEPT ![r] = q] /\ aPc' = [aPc EXCEPT ![r] = "solve"]
      BY <1>2, <1>7 DEF Agent!LoadInputs, Agent!Goto, Locals
    <2> HIDE DEF q
    <2>3. aPc[r] = "load"
      BY <1>7 DEF Agent!LoadInputs
    <2>4. Stands(r, "solve", q, run', files["applied"], approvals, solvable)
      BY <1>2, <1>3, <2>1, <2>3
         DEF Stands, Reads, Solves, Advises, Applies, Loaded, Advising, Applying
    <2>5. run[r].loaded \notin Inputs
      BY <1>2, <2>3 DEF Stands, Reads, AgentBounds
    <2>6. "solve" \in Agent!Labels
      BY DEF Agent!Labels
    <2> QED
      BY <1>1, <2>1, <2>2, <2>4, <2>5, <2>6, AgentAlone
  <1> QED
    BY <1>4, <1>5, <1>6, <1>7 DEF Agent!HashInputs

\* The model is solved, and doubtful items are asked about.
LEMMA AgentAsks ==
    ASSUME AgentBounds, AgentInv, NEW r \in Agent!Runs,
           Agent!Solve(r) \/ Agent!Reread(r) \/ Agent!AdviseDrop(r)
    PROVE  AgentInv'
  <1>1. UNCHANGED <<page, sem, solvable, approvals, files, audit, dxf>>
    BY DEF Agent!Solve, Agent!Reread, Agent!AdviseDrop
  <1>2. /\ Stands(r, aPc[r], run[r], run, files["applied"], approvals, solvable)
        /\ run[r] \in Locals /\ run \in [Agent!Runs -> Locals]
        /\ run = [run EXCEPT ![r] = run[r]]
    BY AgentStands
  <1>3. (r \in Advisers => r \notin Appliers) /\ (r \in Advisers \/ r \in Appliers)
    BY DEF AgentBounds, Agent!Runs
  <1>4. CASE Agent!Solve(r)
    <2>1. PICK status \in Statuses, label \in {"check", "reread"} :
            /\ run' = [run EXCEPT ![r]["status"] = status]
            /\ status = "okay" => Agent!Prune(run[r].list) \in solvable
            /\ aPc' = [aPc EXCEPT ![r] = label]
            /\ (label = "check") <=> (r \in Appliers)
      BY <1>4 DEF Agent!Solve, Agent!Set, Agent!Goto, Agent!Solved, Statuses
    <2> DEFINE q == [run[r] EXCEPT !.status = status]
    <2>2. /\ q \in Locals /\ q.loaded = run[r].loaded /\ q.hashed = run[r].hashed
          /\ q.status = status /\ q.report = run[r].report
          /\ q.approval = run[r].approval /\ q.list = run[r].list
      BY <1>2 DEF Locals
    <2>3. run' = [run EXCEPT ![r] = q]
      BY <1>2, <2>1 DEF Locals
    <2> HIDE DEF q
    <2>4. aPc[r] = "solve"
      BY <1>4 DEF Agent!Solve
    <2>5. Stands(r, label, q, run', files["applied"], approvals, solvable)
      BY <1>2, <1>3, <2>1, <2>2, <2>4
         DEF Stands, Reads, Solves, Advises, Applies, Loaded, Advising, Applying
    <2>6. label \in Agent!Labels
      BY DEF Agent!Labels
    <2> QED
      BY <1>1, <2>1, <2>2, <2>3, <2>5, <2>6, AgentAlone
  <1>5. CASE Agent!Reread(r)
    <2>1. aPc[r] = "reread" /\ r \in Advisers /\ run[r].loaded \in Inputs
          /\ run[r].list = ListOf[run[r].loaded[2]]
      BY <1>2, <1>3, <1>5 DEF Agent!Reread, Stands, Advises, Applies, Reads, Loaded
    <2>2. PICK overrides \in SUBSET Agent!ItemsIn(run[r].loaded), label \in {"advise", "save"} :
            /\ Agent!Set(r, "report", [maker |-> r, made_for |-> run[r].loaded,
                                       overrides |-> overrides, drops |-> {}, applied |-> {}])
            /\ aPc' = [aPc EXCEPT ![r] = label]
      BY <1>5 DEF Agent!Reread, Agent!RereadTexts, Agent!ReclassifyParts,
         Agent!ResolveConflicts, Agent!ItemsIn, Agent!Goto
    <2> DEFINE new == [maker |-> r, made_for |-> run[r].loaded,
                       overrides |-> overrides, drops |-> {}, applied |-> {}]
               q == [run[r] EXCEPT !.report = new]
    <2>3. overrides \in SUBSET Agent!Items
      BY <2>1 DEF Agent!Items, Inputs
    <2>4. /\ new \in Agent!Reports /\ new.applied = {} /\ new.made_for = run[r].loaded
          /\ new.overrides = overrides /\ new.drops = {} /\ new.maker = r
      BY <2>1, <2>3 DEF Agent!Reports, Inputs
    <2> HIDE DEF new
    <2>5. /\ q \in Locals /\ q.loaded = run[r].loaded /\ q.hashed = run[r].hashed
          /\ q.status = run[r].status /\ q.report = new /\ q.list = run[r].list
      BY <1>2, <2>4 DEF Locals
    <2>6. run' = [run EXCEPT ![r] = q]
      BY <1>2, <2>2 DEF Agent!Set, Locals, new
    <2> HIDE DEF q
    <2>7. run'[r].loaded = run[r].loaded
      BY <1>2, <2>5, <2>6
    <2>8. Made(new, run')
      BY <2>1, <2>4, <2>7 DEF Made
    <2>9. Stands(r, label, q, run', files["applied"], approvals, solvable)
      BY <1>2, <1>3, <2>1, <2>4, <2>5, <2>8
         DEF Stands, Reads, Solves, Advises, Loaded
    <2>10. label \in Agent!Labels
      BY DEF Agent!Labels
    <2> QED
      BY <1>1, <2>2, <2>5, <2>6, <2>9, <2>10, AgentAlone
  <1>6. CASE Agent!AdviseDrop(r)
    <2>0. aPc[r] = "advise"
      BY <1>6 DEF Agent!AdviseDrop
    <2>a. r \in Advisers
      BY <1>2, <1>3, <2>0 DEF Stands, Applies
    <2>1. /\ run[r].loaded \in Inputs /\ run[r].list = ListOf[run[r].loaded[2]]
          /\ Made(run[r].report, run) /\ run[r].report.maker = r
      BY <1>2, <2>0, <2>a DEF Stands, Advises, Reads, Loaded, Advising
    <2>2. CASE run' = run /\ Agent!Goto(r, "save")
      <3>1. aPc' = [aPc EXCEPT ![r] = "save"]
        BY <2>2 DEF Agent!Goto
      <3>2. Stands(r, "save", run[r], run', files["applied"], approvals, solvable)
        BY <1>2, <1>3, <2>0, <2>a, <2>1, <2>2
           DEF Stands, Reads, Solves, Advises, Loaded, Advising
      <3>3. "save" \in Agent!Labels
        BY DEF Agent!Labels
      <3> QED
        BY <1>1, <1>2, <2>2, <3>1, <3>2, <3>3, AgentAlone
    <2>3. CASE \E c \in Agent!Weakest(run[r].list \ run[r].report.drops) :
                 /\ Agent!Set(r, "report", [run[r].report EXCEPT !.drops = @ \cup {c}])
                 /\ \/ aPc' = aPc
                    \/ aPc' = [aPc EXCEPT ![r] = "save"]
      <3>1. PICK c \in Agent!Weakest(run[r].list \ run[r].report.drops) :
                 /\ Agent!Set(r, "report", [run[r].report EXCEPT !.drops = @ \cup {c}])
                 /\ \/ aPc' = aPc
                    \/ aPc' = [aPc EXCEPT ![r] = "save"]
        BY <2>3
      <3> DEFINE new == [run[r].report EXCEPT !.drops = @ \cup {c}]
                 q == [run[r] EXCEPT !.report = new]
      <3>2. c \in run[r].list /\ c \in Agent!Constraints
        BY <1>2 DEF Agent!Weakest, Locals
      <3>3. run[r].report \in Agent!Reports
        BY <2>0, <2>a, <2>1 DEF Made
      <3>4. /\ new \in Agent!Reports /\ new.applied = run[r].report.applied
            /\ new.made_for = run[r].report.made_for /\ new.maker = r
            /\ new.overrides = run[r].report.overrides
            /\ new.drops = run[r].report.drops \cup {c}
        BY <2>0, <2>a, <2>1, <3>2, <3>3 DEF Agent!Reports
      <3> HIDE DEF new
      <3>5. /\ q \in Locals /\ q.loaded = run[r].loaded /\ q.hashed = run[r].hashed
            /\ q.status = run[r].status /\ q.report = new /\ q.list = run[r].list
        BY <1>2, <3>4 DEF Locals
      <3>6. run' = [run EXCEPT ![r] = q]
        BY <1>2, <3>1 DEF Agent!Set, Locals, new
      <3> HIDE DEF q
      <3>7. run'[r].loaded = run[r].loaded
        BY <1>2, <3>5, <3>6
      <3>8. Made(new, run')
        BY <2>0, <2>a, <2>1, <3>2, <3>4, <3>7 DEF Made
      <3>9. PICK label \in {"advise", "save"} : aPc' = [aPc EXCEPT ![r] = label]
        <4>1. aPc = [aPc EXCEPT ![r] = "advise"]
          BY <2>0, <2>a, <2>1 DEF AgentInv, AgentTyped
        <4> QED
          BY <3>1, <4>1
      <3>10. Stands(r, label, q, run', files["applied"], approvals, solvable)
        BY <1>2, <1>3, <2>0, <2>a, <2>1, <3>4, <3>5, <3>8
           DEF Stands, Reads, Solves, Advises, Loaded
      <3>11. label \in Agent!Labels
        BY DEF Agent!Labels
      <3> QED
        BY <1>1, <3>5, <3>6, <3>9, <3>10, <3>11, AgentAlone
    <2> QED
      BY <1>6, <2>2, <2>3 DEF Agent!AdviseDrop, Agent!Goto
  <1> QED
    BY <1>4, <1>5, <1>6

\* The approved report is hashed, read and applied.
LEMMA AgentApplies ==
    ASSUME AgentBounds, AgentInv, NEW r \in Agent!Runs,
           Agent!CheckReport(r) \/ Agent!LoadReport(r) \/ Agent!Apply(r)
    PROVE  AgentInv'
  <1>1. UNCHANGED <<page, sem, solvable, approvals, files, audit, dxf>>
    BY DEF Agent!CheckReport, Agent!LoadReport, Agent!Apply
  <1>2. /\ Stands(r, aPc[r], run[r], run, files["applied"], approvals, solvable)
        /\ run[r] \in Locals /\ run \in [Agent!Runs -> Locals]
    BY AgentStands
  <1>3. aPc[r] \in {"check", "load_report", "apply"}
    BY DEF Agent!CheckReport, Agent!LoadReport, Agent!Apply
  <1>4. /\ r \in Appliers /\ r \notin Advisers /\ run[r].loaded \in Inputs
        /\ run[r].approval \in approvals /\ run[r].approval \in Approvals
    BY <1>2, <1>3 DEF Stands, Advises, Applies, Reads, Loaded, AgentBounds, Agent!Runs,
       AgentInv, AgentTyped
  <1>5. files[run[r].approval.path] \in Contents
    BY <1>4 DEF Approvals, AgentInv, AgentTyped, Agent!Names
  <1>6. CASE \E label \in {"refused", "dead"} : Agent!End(r, label)
    <2>1. "refused" \in Agent!Labels /\ "dead" \in Agent!Labels
      BY DEF Agent!Labels
    <2> QED
      BY <1>1, <1>6, <2>1, AgentEnds, AgentAlone
  <1>7. CASE /\ aPc[r] = "check" /\ Agent!Goto(r, "load_report")
             /\ Agent!Set(r, "checked", files[run[r].approval.path])
             /\ files[run[r].approval.path] = run[r].approval.report
    <2> DEFINE q == [run[r] EXCEPT !.checked = files[run[r].approval.path]]
    <2>1. /\ q \in Locals /\ q.loaded = run[r].loaded /\ q.hashed = run[r].hashed
          /\ q.status = run[r].status /\ q.report = run[r].report
          /\ q.approval = run[r].approval /\ q.list = run[r].list
          /\ q.checked = run[r].approval.report
      BY <1>2, <1>5, <1>7 DEF Locals
    <2>2. run' = [run EXCEPT ![r] = q] /\ aPc' = [aPc EXCEPT ![r] = "load_report"]
      BY <1>2, <1>7 DEF Agent!Set, Agent!Goto, Locals
    <2> HIDE DEF q
    <2>3. Stands(r, "load_report", q, run', files["applied"], approvals, solvable)
      BY <1>2, <1>4, <1>7, <2>1
         DEF Stands, Reads, Solves, Applies, Loaded, Applying
    <2>4. "load_report" \in Agent!Labels
      BY DEF Agent!Labels
    <2> QED
      BY <1>1, <2>1, <2>2, <2>3, <2>4, AgentAlone
  <1>8. CASE /\ aPc[r] = "load_report" /\ Agent!Goto(r, "apply")
             /\ Agent!Set(r, "report", files[run[r].approval.path])
             /\ files[run[r].approval.path] \notin {NoFile, Torn}
             /\ files[run[r].approval.path].applied = {}
    <2> DEFINE report == files[run[r].approval.path]
               q == [run[r] EXCEPT !.report = report]
    <2>0. report \in Agent!Reports
      BY <1>5, <1>8 DEF Contents
    <2>1. /\ q \in Locals /\ q.loaded = run[r].loaded /\ q.hashed = run[r].hashed
          /\ q.status = run[r].status /\ q.report = report
          /\ q.approval = run[r].approval /\ q.list = run[r].list
          /\ q.checked = run[r].checked
      BY <1>2, <2>0 DEF Locals
    <2>2. run' = [run EXCEPT ![r] = q] /\ aPc' = [aPc EXCEPT ![r] = "apply"]
      BY <1>2, <1>8 DEF Agent!Set, Agent!Goto, Locals
    <2> HIDE DEF q
    <2>3. Stands(r, "apply", q, run', files["applied"], approvals, solvable)
      BY <1>2, <1>4, <1>8, <2>0, <2>1
         DEF Stands, Reads, Solves, Applies, Loaded, Applying
    <2>4. "apply" \in Agent!Labels
      BY DEF Agent!Labels
    <2> QED
      BY <1>1, <2>1, <2>2, <2>3, <2>4, AgentAlone
  <1>9. CASE Agent!Apply(r)
    <2> DEFINE report == run[r].report
               overridden == report.overrides \cap Agent!ItemsIn(run[r].loaded)
               remaining == run[r].list \ report.drops
               new == [report EXCEPT !.applied = overridden \cup report.drops]
    <2>0. aPc[r] = "apply"
      BY <1>9 DEF Agent!Apply
    <2>1. report \in Agent!Reports
      BY <1>2, <1>4, <2>0 DEF Stands, Applies
    <2>2. /\ new \in Agent!Reports /\ new.applied = overridden \cup report.drops
          /\ new.overrides = report.overrides /\ new.drops = report.drops
      BY <2>1 DEF Agent!Reports
    <2>3. PICK label \in {"failing", "save"} : aPc' = [aPc EXCEPT ![r] = label]
      BY <1>9 DEF Agent!Apply, Agent!Goto
    <2>4. PICK status \in Statuses, after \in Statuses :
            /\ run' = [run EXCEPT ![r] = [@ EXCEPT !.report = new, !.list = remaining,
                                                   !.status = status, !.after = after]]
            /\ status = "okay" => \/ report.drops = {} /\ run[r].status = "okay"
                                  \/ Agent!Prune(remaining) \in solvable
      <3>1. run[r].status \in Statuses /\ Agent!Solved(remaining) \in Statuses
        BY <1>2 DEF Locals, Agent!Solved, Statuses
      <3>2. "none" \in Statuses
        BY DEF Statuses
      <3> DEFINE status == IF report.drops = {} THEN run[r].status ELSE Agent!Solved(remaining)
                 after == IF report.drops = {} THEN "none" ELSE Agent!Solved(remaining)
      <3>3. status \in Statuses /\ after \in Statuses
        BY <3>1, <3>2
      <3>4. run' = [run EXCEPT ![r] = [@ EXCEPT !.report = new, !.list = remaining,
                                                !.status = status, !.after = after]]
        BY <1>9 DEF Agent!Apply
      <3>5. status = "okay" => \/ report.drops = {} /\ run[r].status = "okay"
                               \/ Agent!Prune(remaining) \in solvable
        BY DEF Agent!Solved
      <3> HIDE DEF status, after, new, remaining
      <3> QED
        BY <3>3, <3>4, <3>5
    <2> HIDE DEF new
    <2> DEFINE q == [run[r] EXCEPT !.report = new, !.list = remaining,
                                   !.status = status, !.after = after]
    <2>5. run[r].list \in SUBSET Agent!Constraints
      BY <1>2 DEF Locals
    <2>6. /\ q \in Locals /\ q.loaded = run[r].loaded /\ q.hashed = run[r].hashed
          /\ q.status = status /\ q.report = new
          /\ q.approval = run[r].approval /\ q.list = remaining
          /\ q.checked = run[r].checked
      BY <1>2, <2>2, <2>5 DEF Locals
    <2>7. run' = [run EXCEPT ![r] = q]
      BY <1>2, <2>4
    <2> HIDE DEF q
    <2>8. Solves(q, solvable)
      <3>1. report.drops = {} => remaining = run[r].list
        OBVIOUS
      <3> QED
        BY <1>2, <2>4, <2>6, <3>1 DEF Stands, Solves
    <2>9. /\ run[r].checked = run[r].approval.report
          /\ run[r].hashed = run[r].approval.inputs /\ run[r].hashed \in Inputs
      BY <1>2, <1>4, <2>0 DEF Stands, Applies, Applying, Loaded, Reads
    <2>10. Applies(r, label, q, run', files["applied"], approvals)
      BY <1>4, <2>2, <2>6, <2>9 DEF Applies, Applying, Loaded
    <2>11. Stands(r, label, q, run', files["applied"], approvals, solvable)
      BY <1>4, <2>6, <2>8, <2>9, <2>10 DEF Stands, Reads, Loaded
    <2>12. label \in Agent!Labels
      BY DEF Agent!Labels
    <2> QED
      BY <1>1, <2>3, <2>6, <2>7, <2>11, <2>12, AgentAlone
  <1>10. Agent!CheckReport(r) \/ Agent!LoadReport(r) =>
           \/ \E label \in {"refused", "dead"} : Agent!End(r, label)
           \/ /\ aPc[r] = "check" /\ Agent!Goto(r, "load_report")
              /\ Agent!Set(r, "checked", files[run[r].approval.path])
              /\ files[run[r].approval.path] = run[r].approval.report
           \/ /\ aPc[r] = "load_report" /\ Agent!Goto(r, "apply")
              /\ Agent!Set(r, "report", files[run[r].approval.path])
              /\ files[run[r].approval.path] \notin {NoFile, Torn}
              /\ files[run[r].approval.path].applied = {}
    BY DEF Agent!CheckReport, Agent!LoadReport
  <1> QED
    BY <1>6, <1>7, <1>8, <1>9, <1>10

\* The report is saved and its digest taken of the file.
LEMMA AgentSaves ==
    ASSUME AgentBounds, AgentInv, NEW r \in Agent!Runs,
           Agent!OpenReport(r) \/ Agent!WriteReport(r) \/ Agent!HashSaved(r)
    PROVE  AgentInv'
  <1>1. UNCHANGED <<page, sem, solvable, approvals, audit, dxf>> /\ (Agent!DrawnAsSolved)'
    BY DEF Agent!OpenReport, Agent!WriteReport, Agent!HashSaved, AgentInv, Agent!DrawnAsSolved
  <1>2. /\ Stands(r, aPc[r], run[r], run, files["applied"], approvals, solvable)
        /\ run[r] \in Locals /\ run \in [Agent!Runs -> Locals]
        /\ run = [run EXCEPT ![r] = run[r]]
    BY AgentStands
  <1>3. (r \in Advisers => r \notin Appliers) /\ (r \in Advisers \/ r \in Appliers)
    BY DEF AgentBounds, Agent!Runs
  <1>4. aPc[r] \in {"save", "write", "hash_saved"}
    BY DEF Agent!OpenReport, Agent!WriteReport, Agent!HashSaved
  <1>5. /\ run[r].loaded \in Inputs
        /\ run[r].report \in Agent!Reports
        /\ r \in Advisers => Made(run[r].report, run)
    <2>1. r \in Advisers => Made(run[r].report, run)
      BY <1>2, <1>4 DEF Stands, Advises, Advising
    <2>2. r \in Appliers => run[r].report \in Agent!Reports
      BY <1>2, <1>4 DEF Stands, Applies, Applying
    <2> QED
      BY <1>2, <1>3, <1>4, <2>1, <2>2 DEF Stands, Reads, Loaded, Made
  <1>6. /\ files \in [Agent!Names -> Contents]
        /\ Torn \in Contents /\ run[r].report \in Contents
        /\ Agent!ReportName(r) \in Agent!Names
        /\ Agent!ReportName(r) = IF r \in Appliers THEN "applied" ELSE "advice"
        /\ "applied" \in Agent!Names /\ "advice" \in Agent!Names /\ "copy" \in Agent!Names
    BY <1>5 DEF AgentInv, AgentTyped, Contents, Agent!ReportName, Agent!Names
  <1>7. "write" \in Agent!Labels /\ "hash_saved" \in Agent!Labels /\ "audit" \in Agent!Labels
    BY DEF Agent!Labels
  <1>8. CASE Agent!OpenReport(r)
    <2>1. /\ aPc[r] = "save" /\ aPc' = [aPc EXCEPT ![r] = "write"] /\ run' = run
          /\ files' = [files EXCEPT ![Agent!ReportName(r)] = Torn]
      BY <1>8 DEF Agent!OpenReport, Agent!Goto
    <2>2. /\ files' \in [Agent!Names -> Contents]
          /\ files'["applied"] = files["applied"] \/ r \in Appliers
          /\ \A n \in {"advice", "copy"} : files'[n] = files[n] \/ files'[n] = Torn
      BY <1>6, <2>1
    <2>3. Stands(r, "write", run[r], run', files'["applied"], approvals, solvable)
      BY <1>2, <1>3, <2>1
         DEF Stands, Reads, Solves, Advises, Applies, Loaded, Advising, Applying
    <2>4. \A n \in {"advice", "copy"} : files'[n] \in Agent!Reports =>
              files'[n] = files[n] \/ Made(files'[n], run')
      BY <2>2 DEF AgentBounds
    <2> QED
      BY <1>1, <1>2, <1>5, <1>7, <2>1, <2>2, <2>3, <2>4, AgentMoves
  <1>9. CASE Agent!WriteReport(r)
    <2>1. /\ aPc[r] = "write" /\ aPc' = [aPc EXCEPT ![r] = "hash_saved"] /\ run' = run
          /\ files' = [files EXCEPT ![Agent!ReportName(r)] = run[r].report]
      BY <1>9 DEF Agent!WriteReport, Agent!Goto
    <2>2. /\ files' \in [Agent!Names -> Contents]
          /\ files'["applied"] = files["applied"] \/ r \in Appliers
          /\ r \in Appliers => files'["applied"] = run[r].report
          /\ r \in Appliers => files'["advice"] = files["advice"]
          /\ r \notin Appliers => files'["advice"] = run[r].report
          /\ files'["copy"] = files["copy"]
      BY <1>6, <2>1
    <2>3. Stands(r, "hash_saved", run[r], run', files'["applied"], approvals, solvable)
      BY <1>2, <1>3, <2>1, <2>2
         DEF Stands, Reads, Solves, Advises, Applies, Loaded, Advising, Applying
    <2>4. \A n \in {"advice", "copy"} : files'[n] \in Agent!Reports =>
              files'[n] = files[n] \/ Made(files'[n], run')
      BY <1>3, <1>5, <2>1, <2>2
    <2> QED
      BY <1>1, <1>2, <1>5, <1>7, <2>1, <2>2, <2>3, <2>4, AgentMoves
  <1>10. CASE Agent!HashSaved(r)
    <2> DEFINE saved == files[Agent!ReportName(r)]
               q == [run[r] EXCEPT !.saved = saved]
    <2>1. saved \in Contents
      BY <1>6
    <2>2. /\ q \in Locals /\ q.loaded = run[r].loaded /\ q.hashed = run[r].hashed
          /\ q.status = run[r].status /\ q.report = run[r].report /\ q.list = run[r].list
          /\ q.approval = run[r].approval /\ q.checked = run[r].checked /\ q.saved = saved
      BY <1>2, <2>1 DEF Locals
    <2>3. /\ aPc[r] = "hash_saved" /\ aPc' = [aPc EXCEPT ![r] = "audit"]
          /\ run' = [run EXCEPT ![r] = q] /\ files' = files
      BY <1>2, <1>10 DEF Agent!HashSaved, Agent!Goto, Agent!Set, Locals
    <2>4. r \in Appliers => saved = files["applied"]
      BY <1>6
    <2> HIDE DEF q, saved
    <2>5. ReadsStay
      BY <1>2, <2>2, <2>3 DEF ReadsStay
    <2>6. r \in Advisers => Advises(r, "audit", q, run')
      <3>1. r \in Advisers => Made(run[r].report, run')
        BY <1>5, <2>5, MadeStays
      <3> QED
        BY <1>2, <2>2, <2>3, <3>1 DEF Stands, Advises, Loaded, Advising
    <2>7. r \in Appliers => Applies(r, "audit", q, run', files["applied"], approvals)
      <3> SUFFICES ASSUME r \in Appliers
                   PROVE  Applies(r, "audit", q, run', files["applied"], approvals)
        OBVIOUS
      <3>1. Applies(r, "hash_saved", run[r], run, files["applied"], approvals)
        BY <1>2, <2>3 DEF Stands
      <3>2. Joined(r, run) => Joined(r, run')
        BY <2>5, JoinedStays
      <3>3. \/ q.saved \in Agent!Reports /\ q.saved.applied = q.report.applied
            \/ Joined(r, run')
        BY <1>5, <2>2, <2>4, <3>1, <3>2 DEF Applies
      <3> QED
        BY <2>2, <3>1, <3>3 DEF Applies, Loaded, Applying
    <2>8. Stands(r, "audit", q, run', files["applied"], approvals, solvable)
      BY <1>2, <2>2, <2>3, <2>6, <2>7 DEF Stands, Reads, Solves, Loaded
    <2> QED
      BY <1>1, <1>7, <2>2, <2>3, <2>8, AgentAlone
  <1> QED
    BY <1>8, <1>9, <1>10

\* The audit and the drawing are saved, or the process dies.
LEMMA AgentConcludes ==
    ASSUME AgentBounds, AgentInv, NEW r \in Agent!Runs,
           Agent!SaveAudit(r) \/ Agent!BuildDxf(r) \/ Agent!Die(r)
    PROVE  AgentInv'
  <1>1. UNCHANGED <<page, sem, solvable, approvals, files>>
    BY DEF Agent!SaveAudit, Agent!BuildDxf, Agent!Die
  <1>2. /\ Stands(r, aPc[r], run[r], run, files["applied"], approvals, solvable)
        /\ run[r] \in Locals /\ run \in [Agent!Runs -> Locals]
        /\ run = [run EXCEPT ![r] = run[r]]
    BY AgentStands
  <1>3. (r \in Advisers => r \notin Appliers) /\ (r \in Advisers \/ r \in Appliers)
    BY DEF AgentBounds, Agent!Runs
  <1>4. /\ files' \in [Agent!Names -> Contents] /\ files'["applied"] = files["applied"]
        /\ \A n \in {"advice", "copy"} : files'[n] = files[n]
    BY <1>1 DEF AgentInv, AgentTyped
  <1>5. "draw" \in Agent!Labels /\ "done" \in Agent!Labels /\ "dead" \in Agent!Labels
    BY DEF Agent!Labels
  <1>6. CASE Agent!SaveAudit(r)
    <2>1. /\ aPc[r] = "audit" /\ aPc' = [aPc EXCEPT ![r] = "draw"] /\ run' = run
          /\ audit' = Agent!Audit(r, run[r].hashed) /\ dxf' = dxf
      BY <1>6 DEF Agent!SaveAudit, Agent!Goto
    <2>2. Stands(r, "draw", run[r], run', files["applied"], approvals, solvable)
      BY <1>2, <1>3, <2>1
         DEF Stands, Reads, Solves, Advises, Applies, Loaded, Advising, Applying
    <2>3. /\ audit'.run = r /\ audit'.report_id = run[r].report.maker
          /\ audit'.inputs = run[r].hashed /\ audit'.saved = run[r].saved
          /\ audit'.approval = run[r].approval /\ audit'.applied = run[r].report.applied
      BY <2>1 DEF Agent!Audit
    <2>4. run[r].hashed \in Inputs /\ run[r].loaded \in Inputs
      BY <1>2, <2>1 DEF Stands, Reads, Loaded
    <2>5. r \in Advisers => Made(run[r].report, run) /\ run[r].report.maker = r
      BY <1>2, <2>1 DEF Stands, Advises, Advising
    <2>6. r \in Appliers =>
            /\ run[r].approval \in approvals /\ run[r].hashed = run[r].approval.inputs
            /\ \/ run[r].saved \in Agent!Reports /\ run[r].saved.applied = run[r].report.applied
               \/ Joined(r, run)
      BY <1>2, <2>1 DEF Stands, Applies, Loaded
    <2>7. AuditOf(audit', run, approvals)
      BY <1>3, <2>3, <2>4, <2>5, <2>6 DEF AuditOf, Made
    <2>8. (AuditInv)' /\ (Agent!DrawnAsSolved)'
      BY <1>1, <2>1, <2>7 DEF AuditInv, AgentInv, Agent!DrawnAsSolved
    <2> QED
      BY <1>1, <1>2, <1>4, <1>5, <2>1, <2>2, <2>8, AgentMoves
  <1>7. CASE Agent!BuildDxf(r)
    <2>1. Agent!End(r, "done") /\ audit' = audit /\ aPc[r] = "draw"
          /\ dxf' = [list |-> run[r].list, solved |-> run[r].status = "okay"]
      BY <1>7 DEF Agent!BuildDxf
    <2>2. (Agent!DrawnAsSolved)'
      <3>1. run[r].status = "okay" => Agent!Prune(run[r].list) \in solvable
        BY <1>2 DEF Stands, Solves
      <3>2. dxf'.list = run[r].list /\ (dxf'.solved => run[r].status = "okay")
        BY <2>1
      <3> QED
        BY <1>1, <3>1, <3>2 DEF Agent!DrawnAsSolved
    <2> QED
      BY <1>1, <1>4, <1>5, <2>1, <2>2, AgentEnds, AgentMoves
  <1>8. CASE Agent!Die(r)
    <2>1. /\ Agent!End(r, "dead") /\ dxf' = dxf /\ audit' \in {audit, NoFile}
          /\ aPc[r] \in {"failing", "write", "hash_saved", "audit"}
      BY <1>8 DEF Agent!Die
    <2>2. audit' = audit \/ (AuditInv)'
      BY <2>1 DEF AuditInv
    <2>3. (Agent!DrawnAsSolved)'
      BY <1>1, <2>1 DEF AgentInv, Agent!DrawnAsSolved
    <2> QED
      BY <1>1, <1>4, <1>5, <2>1, <2>2, <2>3, AgentEnds, AgentMoves
  <1> QED
    BY <1>6, <1>7, <1>8

\* A person approves: the report is the one whose run the audit names.
LEMMA AgentApproves ==
    ASSUME AgentBounds, AgentInv, Agent!Approve
    PROVE  AgentInv'
  <1>1. PICK path \in {"advice", "copy"} :
          /\ approvals' = {[path |-> path, report |-> files["advice"], inputs |-> audit.inputs]}
          /\ files' = [files EXCEPT ![path] = files["advice"]]
    BY DEF Agent!Approve
  <1>2. /\ UNCHANGED <<page, sem, audit, dxf, solvable, aPc, run>> /\ approvals = {}
        /\ files["advice"] \notin {NoFile, Torn} /\ audit # NoFile
        /\ audit.report_id = files["advice"].maker /\ audit.run \in Advisers
    BY DEF Agent!Approve
  <1>3. /\ files \in [Agent!Names -> Contents] /\ path \in Agent!Names
        /\ "advice" \in Agent!Names /\ "copy" \in Agent!Names /\ "applied" \in Agent!Names
    BY DEF AgentInv, AgentTyped, Agent!Names
  <1>4. files["advice"] \in Agent!Reports /\ Made(files["advice"], run)
    BY <1>2, <1>3 DEF Contents, AgentInv, ReportsInv
  <1>5. audit.inputs \in Inputs /\ audit.inputs = run[files["advice"].maker].hashed
    BY <1>2 DEF AgentInv, AuditInv, AuditOf
  <1>6. \A a \in approvals' : a \in Approvals /\ Given(a, run)
    BY <1>1, <1>4, <1>5 DEF Approvals, Given
  <1>7. /\ files' \in [Agent!Names -> Contents] /\ files'["applied"] = files["applied"]
        /\ \A n \in {"advice", "copy"} : files'[n] = files[n] \/ files'[n] = files["advice"]
    BY <1>1, <1>3
  <1>8. AgentTyped'
    BY <1>2, <1>6, <1>7 DEF AgentInv, AgentTyped
  <1>9. StandInv'
    BY <1>2, <1>7 DEF AgentInv, StandInv, Stands, Applies
  <1>10. ReportsInv'
    BY <1>2, <1>4, <1>7 DEF AgentInv, ReportsInv
  <1>11. ApprovalsInv' /\ AuditInv' /\ (Agent!DrawnAsSolved)'
    BY <1>2, <1>6 DEF AgentInv, ApprovalsInv, AuditInv, AuditOf, Agent!DrawnAsSolved
  <1> QED
    BY <1>8, <1>9, <1>10, <1>11 DEF AgentInv

LEMMA AgentInvariant ==
    ASSUME AgentBounds
    PROVE  Agent!AgentSpec => []AgentInv
  <1>1. Agent!AgentInit => AgentInv
    <2> SUFFICES ASSUME Agent!AgentInit
                 PROVE  AgentInv
      OBVIOUS
    <2>1. /\ page \in Pages /\ sem \in Semantics /\ files = [n \in Agent!Names |-> NoFile]
          /\ audit = NoFile /\ dxf = NoFile /\ approvals = {}
          /\ aPc = [r \in Agent!Runs |-> "idle"] /\ run = [r \in Agent!Runs |-> Agent!Fresh]
      BY DEF Agent!AgentInit
    <2>2. AgentTyped
      BY <2>1, FreshLocals DEF AgentTyped, Contents, Agent!Labels
    <2>3. StandInv
      BY <2>1, FreshLocals
         DEF StandInv, Stands, Reads, Solves, Advises, Applies, Loaded, Advising, Applying
    <2>4. ReportsInv
      BY <2>1 DEF ReportsInv, AgentBounds, Agent!Names
    <2> QED
      BY <2>1, <2>2, <2>3, <2>4 DEF AgentInv, ApprovalsInv, AuditInv, Agent!DrawnAsSolved
  <1>2. AgentInv /\ [Agent!AgentNext]_(Agent!avars) => AgentInv'
    <2> SUFFICES ASSUME AgentInv, [Agent!AgentNext]_(Agent!avars)
                 PROVE  AgentInv'
      OBVIOUS
    <2>1. CASE Agent!Approve
      BY <2>1, AgentApproves
    <2>2. CASE Agent!RewriteInput
      <3>1. /\ UNCHANGED <<files, audit, dxf, solvable, approvals, aPc, run>>
            /\ page' \in Pages /\ sem' \in Semantics
        BY <2>2 DEF Agent!RewriteInput, AgentInv, AgentTyped
      <3> QED
        BY <3>1 DEF AgentInv, AgentTyped, StandInv, ReportsInv, ApprovalsInv, AuditInv,
           Agent!DrawnAsSolved
    <2>3. CASE \E r \in Agent!Runs : Agent!RunNext(r)
      BY <2>3, AgentReads, AgentAsks, AgentApplies, AgentSaves, AgentConcludes
         DEF Agent!RunNext
    <2>4. CASE UNCHANGED Agent!avars
      BY <2>4 DEF Agent!avars, AgentInv, AgentTyped, StandInv, ReportsInv, ApprovalsInv,
         AuditInv, Agent!DrawnAsSolved
    <2> QED
      BY <2>1, <2>2, <2>3, <2>4 DEF Agent!AgentNext
  <1> QED
    BY <1>1, <1>2, PTL DEF Agent!AgentSpec

LEMMA AppliedInvariant ==
    ASSUME AgentBounds, AgentInv
    PROVE  Agent!AppliedWasApproved
  <1> SUFFICES ASSUME NEW r \in Appliers, run[r].report.applied # {}
               PROVE  LET report == [run[r].report EXCEPT !.applied = {}]
                      IN  /\ run[r].hashed = run[r].approval.inputs
                          /\ run[r].checked = run[r].approval.report
                          /\ report = run[r].checked =>
                               \/ Agent!Raced(r) \/ Agent!Raced(report.maker)
                               \/ /\ report.made_for = run[r].loaded
                                  /\ run[r].report.applied = report.overrides \cup report.drops
                                  /\ report.drops \subseteq ListOf[run[r].loaded[2]]
    BY DEF Agent!AppliedWasApproved, Agent!Applied
  <1>1. Stands(r, aPc[r], run[r], run, files["applied"], approvals, solvable)
    BY DEF AgentInv, StandInv, Agent!Runs
  <1>2. Applies(r, aPc[r], run[r], run, files["applied"], approvals)
    BY <1>1 DEF Stands
  <1>3. aPc[r] \in Applying
    BY <1>2 DEF Applies
  <1>4. /\ run[r].report \in Agent!Reports /\ run[r].approval \in approvals
        /\ run[r].hashed = run[r].approval.inputs /\ run[r].checked = run[r].approval.report
        /\ run[r].report.applied =
              (run[r].report.overrides \cap Agent!ItemsIn(run[r].loaded)) \cup run[r].report.drops
    BY <1>2, <1>3 DEF Applies, Applying, Loaded
  <1>5. run[r].loaded \in Inputs
    BY <1>1, <1>3 DEF Stands, Reads, Loaded, Applying
  <1> DEFINE report == [run[r].report EXCEPT !.applied = {}]
  <1>6. /\ report.maker = run[r].report.maker /\ report.made_for = run[r].report.made_for
        /\ report.overrides = run[r].report.overrides /\ report.drops = run[r].report.drops
    BY <1>4 DEF Agent!Reports
  <1> HIDE DEF report
  <1>7. ASSUME report = run[r].checked, ~Agent!Raced(r), ~Agent!Raced(report.maker)
        PROVE  /\ report.made_for = run[r].loaded
               /\ run[r].report.applied = report.overrides \cup report.drops
               /\ report.drops \subseteq ListOf[run[r].loaded[2]]
    <2>1. Made(report, run) /\ run[r].approval.inputs = run[report.maker].hashed
      BY <1>4, <1>7 DEF AgentInv, ApprovalsInv, Given
    <2>2. run[r].loaded = run[r].hashed
      BY <1>5, <1>7 DEF Agent!Raced, AgentBounds
    <2>3. run[report.maker].loaded = run[report.maker].hashed
      BY <1>7, <2>1 DEF Agent!Raced, AgentBounds, Made
    <2>4. report.made_for = run[r].loaded
      BY <1>4, <2>1, <2>2, <2>3 DEF Made
    <2> QED
      BY <1>4, <1>6, <2>1, <2>4 DEF Made
  <1> QED
    BY <1>4, <1>7 DEF report

\* Whatever is applied is what a person approved, for the inputs the approval
\* names, each action of it about something in those documents, unless an
\* input was rewritten between its digest and its reading or the report
\* between its own; the audit names that approval and what was done; and a
\* drawing made with solved geometry holds constraints the solver agreed to
\* (apply_agent_report and run in agent_lib).
THEOREM ApplicationsAreApproved ==
    ASSUME AgentBounds
    PROVE  Agent!AgentSpec => []AgentIsSound
  <1>1. AgentInv => Agent!AppliedWasApproved
    BY AppliedInvariant
  <1>2. AgentInv => Agent!AuditIsTrue
    <2> SUFFICES ASSUME AgentInv, audit # NoFile, audit.applied # {}
                 PROVE  /\ audit.approval \in approvals /\ audit.inputs = audit.approval.inputs
                        /\ audit.run \in Appliers
                        /\ \/ Agent!OthersApplied(audit.run)
                           \/ /\ audit.saved \notin {NoFile, Torn}
                              /\ audit.saved.applied = audit.applied
      BY DEF Agent!AuditIsTrue
    <2>1. AuditOf(audit, run, approvals)
      BY DEF AgentInv, AuditInv
    <2>2. audit.run \in Appliers
      BY <2>1 DEF AuditOf, Agent!Runs
    <2>3. Joined(audit.run, run) => Agent!OthersApplied(audit.run)
      BY DEF Joined, Agent!OthersApplied, AgentBounds
    <2> QED
      BY <2>1, <2>2, <2>3 DEF AuditOf, AgentBounds
  <1>3. AgentInv => Agent!DrawnAsSolved
    BY DEF AgentInv
  <1>4. AgentInv => Agent!AgentTypeOK
    <2> SUFFICES ASSUME AgentTyped PROVE Agent!AgentTypeOK
      BY DEF AgentInv
    <2>1. \A n \in Agent!Names : files[n] \in {NoFile, Torn} \/ files[n] \in Agent!Reports
      BY DEF AgentTyped, Contents
    <2>2. \A r \in Agent!Runs : run[r] \in Locals
      BY DEF AgentTyped
    <2>3. \A r \in Agent!Runs :
            /\ run[r].list \subseteq Agent!Constraints
            /\ run[r].status \in {"none", "okay", "failed"}
            /\ run[r].report = Agent!NoReport \/ run[r].report \in Agent!Reports
      BY <2>2 DEF Locals, Statuses
    <2> QED
      BY <2>1, <2>3 DEF AgentTyped, Agent!AgentTypeOK
  <1>5. AgentInv => AgentIsSound
    BY <1>1, <1>2, <1>3, <1>4 DEF AgentIsSound, Agent!AgentIsSound, Agent!ApplicationIsApproved
  <1> QED
    BY <1>5, AgentInvariant, PTL
=============================================================================
