-------------------------- MODULE CodexWorkerProofs --------------------------
(***************************************************************************)
(* Proofs about CodexWorker and WorkerProcess, for every number of calls,  *)
(* threads and turns, and every interleaving of the calls; then about the  *)
(* staged runs of the command line (StagedRun), for every number of        *)
(* commands, pages, edits and kills.                                       *)
(***************************************************************************)
EXTENDS MCCodexWorker, TLAPS

Opens(c) == method[c] \in {"start", "resume"}

\* The steps of an opening before the worker runs.
Launching(c) == pc[c] \in {"prepare", "launch", "assign", "resume", "launched", "unlaunched"}

\* The steps of a clean-up after the pipes were closed.
Cleaning(c) == pc[c] \in {"snapshot", "kill", "verify", "cleaned"}

\* A session is there: opened, and perhaps already over.
HasSession == status \notin {"none", "opening", "refused"}

\* A good reply to a turn has a turn of the provider.
Turned == {r \in Replies : r.out = "good" /\ r.op \in {"turn", "steer"} => r.turn \in Turns}

\* Well-formed data, and what the step of a call says of its request and result.
Exchanging ==
    /\ replies \in Seq(Turned)
    /\ \A c \in Calls :
         /\ reply[c] \subseteq Turned
         /\ \A r, s \in reply[c] : r = s
         /\ pc[c] \in {"send", "numbered", "waiting"} => wire[c] \in Operations
         /\ wire[c] = "attest" => method[c] \in {"resume", "turn", "steer"}
         /\ wire[c] \in {"start", "resume"} => Opens(c)
         /\ At(c, "idle") <=> method[c] = "none"
         /\ At(c, "mark") => method[c] = "cancel"
         /\ At(c, "issue") => result[c] # {}
         /\ Launching(c) => Opens(c)

Typed == TypeOK /\ Exchanging

\* One call opens the session, and no other begins before it is open.
Opening ==
    /\ \A c, d \in Calls : Opens(c) /\ Opens(d) => c = d
    /\ status = "none" => \A c \in Calls : At(c, "idle")
    /\ ~HasSession => \A c \in Calls : At(c, "idle") \/ Opens(c)
    /\ \A c \in Calls : Opens(c) /\ Active(c) => status = "opening"

\* Nothing of the worker runs that its job would not end.
Gone == alive = {} \/ Dying \/ job = "lost" \/ (suspended /\ ~member)

\* Nothing of it runs at all, and nobody talks to it.
Quiet == alive = {} /\ ~control

\* What the session and its clean-up say of the processes.
Owning ==
    /\ status = "none" => alive = {} /\ ~control /\ ~member
    /\ HasSession => member
    /\ status = "refused" => Gone
    /\ member => job # "none"
    /\ control => member
    /\ sticky # {} => member /\ ~control /\ job \in {"closed", "lost"}
    /\ "proven" \in sticky => Quiet
    /\ "none" \notin sticky
    /\ terminal # {} => sticky # {}

\* The same of one call.
Held(c) ==
    /\ pc[c] \in {"prepare", "launch"} => alive = {} /\ ~control /\ ~member
    /\ At(c, "assign") => suspended /\ ~member /\ ~control /\ job # "none"
    /\ At(c, "resume") => member /\ ~control
    /\ At(c, "unlaunched") => Gone
    /\ Active(c) /\ pc[c] \notin {"prepare", "launch", "assign", "unlaunched"} => member
    /\ Launching(c) => sticky = {}
    /\ Cleaning(c) => ~control
    /\ At(c, "cleaned") => evidence[c] # "none"
    /\ evidence[c] # "none" => sticky # {}
    /\ evidence[c] = "proven" => Quiet
    /\ \A r \in result[c] : r.safe => Quiet /\ terminal # {}

WorkerInv == Typed /\ Opening /\ Owning /\ \A c \in Calls : Held(c)

\* What was issued is of a call that has ended, one for each tuple.
Issued(c) == At(c, "done") /\ Eligible(c) /\ TupleOf(c) \in tuples

LedgerInv ==
    /\ \A c \in eligible : Issued(c)
    /\ \A c, d \in eligible : c # d => TupleOf(c) # TupleOf(d)
    /\ consumed \subseteq eligible
    /\ \A c \in Calls : uses[c] = IF c \in consumed THEN 1 ELSE 0

-----------------------------------------------------------------------------
(* The data are well formed. *)

\* A step moves one call; the others keep their step, request and result.
Others(c) ==
    \A d \in Calls \ {c} :
        /\ pc'[d] = pc[d] /\ id'[d] = id[d] /\ wire'[d] = wire[d] /\ reply'[d] = reply[d]
        /\ evidence'[d] = evidence[d] /\ method'[d] = method[d] /\ result'[d] = result[d]
        /\ returned'[d] = returned[d]

LEMMA TurnedIsReply == Turned \subseteq Replies
BY DEF Turned

\* A call that stays within its exchange or its clean-up.
LEMMA TypedMove ==
    ASSUME Typed, NEW c \in Calls, NEW step \in Steps \ {"idle", "mark", "issue"}, Goto(c, step),
           UNCHANGED <<session, answers, ledger, wire>>,
           ~At(c, "idle"),
           step \in {"send", "numbered", "waiting"} => wire[c] \in Operations,
           step \in {"prepare", "launch", "assign", "resume", "launched", "unlaunched"} =>
             Launching(c),
           alive' \subseteq {"root", "child"}, suspended' \in BOOLEAN, member' \in BOOLEAN,
           killed' \in BOOLEAN, job' \in {"none", "open", "closed", "lost"},
           control' \in BOOLEAN, lastId' \in Nat, sticky' \subseteq Evidences,
           requests' \in Seq(Requests), replies' \in Seq(Turned), garbled' \in BOOLEAN,
           serving' \subseteq Requests, id' \in [Calls -> Nat],
           evidence' \in [Calls -> Evidences],
           NEW new \in SUBSET Turned, \A r, s \in new : r = s,
           reply' = [reply EXCEPT ![c] = new]
    PROVE  Typed'
<1>1. /\ pc' \in [Calls -> Steps] /\ pc'[c] = step
      /\ \A d \in Calls \ {c} : pc'[d] = pc[d]
  BY DEF Goto, Typed, TypeOK
<1>2. /\ reply' \in [Calls -> SUBSET Replies] /\ reply'[c] = new
      /\ \A d \in Calls \ {c} : reply'[d] = reply[d]
  BY TurnedIsReply DEF Typed, TypeOK, ProcessTypeOK
<1>3. replies' \in Seq(Replies)
  BY TurnedIsReply
<1>4. TypeOK'
  BY <1>1, <1>2, <1>3 DEF Typed, TypeOK, ProcessTypeOK, session, answers, ledger
<1>5. Exchanging'
  <2> SUFFICES ASSUME NEW d \in Calls PROVE Exchanging!2!(d)'
    BY DEF Exchanging
  <2>1. Exchanging!2!(d)
    BY DEF Typed, Exchanging
  <2>2. CASE d = c
    BY <1>1, <1>2, <2>1, <2>2 DEF session, answers, At, Opens, Launching
  <2>3. CASE d # c
    BY <1>1, <1>2, <2>1, <2>3 DEF session, answers, At, Opens, Launching
  <2> QED
    BY <2>2, <2>3
<1> QED
  BY <1>4, <1>5 DEF Typed

LEMMA TypedProcess ==
    ASSUME Typed, NEW c \in Calls, OfProcess(ProcessStep(c))
    PROVE  Typed'
<1>1. /\ UNCHANGED <<session, answers, ledger>>
      /\ replies \in Seq(Turned) /\ reply[c] \subseteq Turned /\ \A r, s \in reply[c] : r = s
      /\ [reply EXCEPT ![c] = reply[c]] = reply
  BY DEF OfProcess, Typed, TypeOK, ProcessTypeOK, Exchanging
<1>2. CASE Prepare(c)
  <2>1. At(c, "prepare") /\ wire' = wire /\ \E step \in {"launch", "unlaunched"} : Goto(c, step)
    BY <1>2 DEF Prepare, exchange
  <2>2. /\ alive' \subseteq {"root", "child"} /\ suspended' \in BOOLEAN /\ member' \in BOOLEAN
        /\ killed' \in BOOLEAN /\ job' \in {"none", "open", "closed", "lost"}
        /\ control' \in BOOLEAN /\ lastId' \in Nat /\ sticky' \subseteq Evidences
    BY <1>2 DEF Prepare, Typed, TypeOK, ProcessTypeOK, windows, handle, Evidences
  <2>3. /\ requests' \in Seq(Requests) /\ replies' \in Seq(Turned) /\ garbled' \in BOOLEAN
        /\ serving' \subseteq Requests /\ id' \in [Calls -> Nat]
    BY <1>1, <1>2, SMT DEF Prepare, Typed, TypeOK, ProcessTypeOK, pipes, exchange
  <2>4. evidence' \in [Calls -> Evidences]
    BY <1>2 DEF Prepare, Typed, TypeOK, ProcessTypeOK, Evidences
  <2>5. reply' = [reply EXCEPT ![c] = reply[c]]
    BY <1>1, <1>2 DEF Prepare, exchange
  <2>6. PICK step \in {"launch", "unlaunched"} : Goto(c, step)
    BY <2>1
  <2>7. /\ step \in Steps \ {"idle", "mark", "issue"} /\ ~At(c, "idle")
        /\ step \in {"send", "numbered", "waiting"} => wire[c] \in Operations
        /\ step \in {"prepare", "launch", "assign", "resume", "launched", "unlaunched"} =>
             Launching(c)
    BY <2>1, <2>6 DEF Steps, At, Launching, Typed, Exchanging
  <2> QED
    BY <1>1, <2>1, <1>1, <2>5, <2>2, <2>3, <2>4, <2>6, <2>7, TypedMove
<1>3. CASE CreateSuspended(c)
  <2>1. At(c, "launch") /\ wire' = wire /\ \E step \in {"assign", "unlaunched"} : Goto(c, step)
    BY <1>3 DEF CreateSuspended, exchange
  <2>2. /\ alive' \subseteq {"root", "child"} /\ suspended' \in BOOLEAN /\ member' \in BOOLEAN
        /\ killed' \in BOOLEAN /\ job' \in {"none", "open", "closed", "lost"}
        /\ control' \in BOOLEAN /\ lastId' \in Nat /\ sticky' \subseteq Evidences
    BY <1>3 DEF CreateSuspended, Typed, TypeOK, ProcessTypeOK, windows, handle, Evidences
  <2>3. /\ requests' \in Seq(Requests) /\ replies' \in Seq(Turned) /\ garbled' \in BOOLEAN
        /\ serving' \subseteq Requests /\ id' \in [Calls -> Nat]
    BY <1>1, <1>3, SMT DEF CreateSuspended, Typed, TypeOK, ProcessTypeOK, pipes, exchange
  <2>4. evidence' \in [Calls -> Evidences]
    BY <1>3 DEF CreateSuspended, Typed, TypeOK, ProcessTypeOK, Evidences
  <2>5. reply' = [reply EXCEPT ![c] = reply[c]]
    BY <1>1, <1>3 DEF CreateSuspended, exchange
  <2>6. PICK step \in {"assign", "unlaunched"} : Goto(c, step)
    BY <2>1
  <2>7. /\ step \in Steps \ {"idle", "mark", "issue"} /\ ~At(c, "idle")
        /\ step \in {"send", "numbered", "waiting"} => wire[c] \in Operations
        /\ step \in {"prepare", "launch", "assign", "resume", "launched", "unlaunched"} =>
             Launching(c)
    BY <2>1, <2>6 DEF Steps, At, Launching, Typed, Exchanging
  <2> QED
    BY <1>1, <2>1, <1>1, <2>5, <2>2, <2>3, <2>4, <2>6, <2>7, TypedMove
<1>4. CASE AssignProcess(c)
  <2>1. At(c, "assign") /\ wire' = wire /\ \E step \in {"resume", "unlaunched"} : Goto(c, step)
    BY <1>4 DEF AssignProcess, exchange, TryTerminate
  <2>2. /\ alive' \subseteq {"root", "child"} /\ suspended' \in BOOLEAN /\ member' \in BOOLEAN
        /\ killed' \in BOOLEAN /\ job' \in {"none", "open", "closed", "lost"}
        /\ control' \in BOOLEAN /\ lastId' \in Nat /\ sticky' \subseteq Evidences
    BY <1>4 DEF AssignProcess, Typed, TypeOK, ProcessTypeOK, windows, handle, Evidences,
       TryTerminate
  <2>3. /\ requests' \in Seq(Requests) /\ replies' \in Seq(Turned) /\ garbled' \in BOOLEAN
        /\ serving' \subseteq Requests /\ id' \in [Calls -> Nat]
    BY <1>1, <1>4, SMT DEF AssignProcess, Typed, TypeOK, ProcessTypeOK, pipes, exchange
  <2>4. evidence' \in [Calls -> Evidences]
    BY <1>4 DEF AssignProcess, Typed, TypeOK, ProcessTypeOK, Evidences, TryTerminate
  <2>5. reply' = [reply EXCEPT ![c] = reply[c]]
    BY <1>1, <1>4 DEF AssignProcess, exchange
  <2>6. PICK step \in {"resume", "unlaunched"} : Goto(c, step)
    BY <2>1
  <2>7. /\ step \in Steps \ {"idle", "mark", "issue"} /\ ~At(c, "idle")
        /\ step \in {"send", "numbered", "waiting"} => wire[c] \in Operations
        /\ step \in {"prepare", "launch", "assign", "resume", "launched", "unlaunched"} =>
             Launching(c)
    BY <2>1, <2>6 DEF Steps, At, Launching, Typed, Exchanging
  <2> QED
    BY <1>1, <2>1, <1>1, <2>5, <2>2, <2>3, <2>4, <2>6, <2>7, TypedMove
<1>5. CASE ResumeProcess(c)
  <2>1. At(c, "resume") /\ wire' = wire /\ \E step \in {"launched", "unlaunched"} : Goto(c, step)
    BY <1>5 DEF ResumeProcess, exchange, TryTerminate
  <2>2. /\ alive' \subseteq {"root", "child"} /\ suspended' \in BOOLEAN /\ member' \in BOOLEAN
        /\ killed' \in BOOLEAN /\ job' \in {"none", "open", "closed", "lost"}
        /\ control' \in BOOLEAN /\ lastId' \in Nat /\ sticky' \subseteq Evidences
    BY <1>5 DEF ResumeProcess, Typed, TypeOK, ProcessTypeOK, windows, handle, Evidences,
       TryTerminate
  <2>3. /\ requests' \in Seq(Requests) /\ replies' \in Seq(Turned) /\ garbled' \in BOOLEAN
        /\ serving' \subseteq Requests /\ id' \in [Calls -> Nat]
    BY <1>1, <1>5, SMT DEF ResumeProcess, Typed, TypeOK, ProcessTypeOK, pipes, exchange
  <2>4. evidence' \in [Calls -> Evidences]
    BY <1>5 DEF ResumeProcess, Typed, TypeOK, ProcessTypeOK, Evidences, TryTerminate
  <2>5. reply' = [reply EXCEPT ![c] = reply[c]]
    BY <1>1, <1>5 DEF ResumeProcess, exchange
  <2>6. PICK step \in {"launched", "unlaunched"} : Goto(c, step)
    BY <2>1
  <2>7. /\ step \in Steps \ {"idle", "mark", "issue"} /\ ~At(c, "idle")
        /\ step \in {"send", "numbered", "waiting"} => wire[c] \in Operations
        /\ step \in {"prepare", "launch", "assign", "resume", "launched", "unlaunched"} =>
             Launching(c)
    BY <2>1, <2>6 DEF Steps, At, Launching, Typed, Exchanging
  <2> QED
    BY <1>1, <2>1, <1>1, <2>5, <2>2, <2>3, <2>4, <2>6, <2>7, TypedMove
<1>6. CASE NumberRequest(c)
  <2>1. At(c, "send") /\ wire' = wire /\ \E step \in {"numbered", "unanswered"} : Goto(c, step)
    BY <1>6 DEF NumberRequest, exchange
  <2>2. /\ alive' \subseteq {"root", "child"} /\ suspended' \in BOOLEAN /\ member' \in BOOLEAN
        /\ killed' \in BOOLEAN /\ job' \in {"none", "open", "closed", "lost"}
        /\ control' \in BOOLEAN /\ lastId' \in Nat /\ sticky' \subseteq Evidences
    BY <1>6 DEF NumberRequest, Typed, TypeOK, ProcessTypeOK, windows, handle, Evidences
  <2>3. /\ requests' \in Seq(Requests) /\ replies' \in Seq(Turned) /\ garbled' \in BOOLEAN
        /\ serving' \subseteq Requests /\ id' \in [Calls -> Nat]
    BY <1>1, <1>6, SMT DEF NumberRequest, Typed, TypeOK, ProcessTypeOK, pipes, exchange
  <2>4. evidence' \in [Calls -> Evidences]
    BY <1>6 DEF NumberRequest, Typed, TypeOK, ProcessTypeOK, Evidences
  <2>5. reply' = [reply EXCEPT ![c] = reply[c]]
    BY <1>1, <1>6 DEF NumberRequest, exchange
  <2>6. PICK step \in {"numbered", "unanswered"} : Goto(c, step)
    BY <2>1
  <2>7. /\ step \in Steps \ {"idle", "mark", "issue"} /\ ~At(c, "idle")
        /\ step \in {"send", "numbered", "waiting"} => wire[c] \in Operations
        /\ step \in {"prepare", "launch", "assign", "resume", "launched", "unlaunched"} =>
             Launching(c)
    BY <2>1, <2>6 DEF Steps, At, Launching, Typed, Exchanging
  <2> QED
    BY <1>1, <2>1, <1>1, <2>5, <2>2, <2>3, <2>4, <2>6, <2>7, TypedMove
<1>7. CASE WriteRequest(c)
  <2>1. At(c, "numbered") /\ wire' = wire /\ \E step \in {"waiting"} : Goto(c, step)
    BY <1>7 DEF WriteRequest, exchange
  <2>2. [id |-> lastId, op |-> wire[c]] \in Requests /\ requests' \in Seq(Requests)
    <3>1. wire[c] \in Operations /\ lastId \in Nat /\ requests \in Seq(Requests)
      BY <2>1 DEF Typed, TypeOK, ProcessTypeOK, Exchanging, At
    <3> QED
      BY <1>7, <3>1 DEF WriteRequest, Requests
  <2>3. /\ alive' \subseteq {"root", "child"} /\ suspended' \in BOOLEAN /\ member' \in BOOLEAN
        /\ killed' \in BOOLEAN /\ job' \in {"none", "open", "closed", "lost"}
        /\ control' \in BOOLEAN /\ lastId' \in Nat /\ sticky' \subseteq Evidences
    BY <1>7 DEF WriteRequest, Typed, TypeOK, ProcessTypeOK, windows, handle, Evidences
  <2>4. /\ requests' \in Seq(Requests) /\ replies' \in Seq(Turned) /\ garbled' \in BOOLEAN
        /\ serving' \subseteq Requests /\ id' \in [Calls -> Nat]
    BY <1>1, <1>7, <2>2, SMT DEF WriteRequest, Typed, TypeOK, ProcessTypeOK, pipes, exchange
  <2>5. evidence' \in [Calls -> Evidences]
    BY <1>7 DEF WriteRequest, Typed, TypeOK, ProcessTypeOK, Evidences
  <2>6. reply' = [reply EXCEPT ![c] = reply[c]]
    BY <1>1, <1>7 DEF WriteRequest, exchange
  <2>7. PICK step \in {"waiting"} : Goto(c, step)
    BY <2>1
  <2>8. /\ step \in Steps \ {"idle", "mark", "issue"} /\ ~At(c, "idle")
        /\ step \in {"send", "numbered", "waiting"} => wire[c] \in Operations
        /\ step \in {"prepare", "launch", "assign", "resume", "launched", "unlaunched"} =>
             Launching(c)
    BY <2>1, <2>7 DEF Steps, At, Launching, Typed, Exchanging
  <2> QED
    BY <1>1, <2>1, <1>1, <2>6, <2>3, <2>4, <2>5, <2>7, <2>8, TypedMove
<1>8. CASE ReadReply(c)
  <2>1. At(c, "waiting") /\ wire' = wire /\ \E step \in {"answered", "unanswered"} : Goto(c, step)
    BY <1>8 DEF ReadReply, exchange
  <2>2. Head(replies) \in Turned /\ replies' \in Seq(Turned)
    BY <1>1, <1>8 DEF ReadReply
  <2>3. \E new \in SUBSET Turned : (\A r, s \in new : r = s) /\ reply' = [reply EXCEPT ![c] = new]
    <3>1. CASE reply' = reply
      BY <1>1, <3>1
    <3>2. CASE reply' = [reply EXCEPT ![c] = {Head(replies)}]
      BY <2>2, <3>2
    <3> QED
      BY <1>8, <3>1, <3>2 DEF ReadReply
  <2>4. /\ alive' \subseteq {"root", "child"} /\ suspended' \in BOOLEAN /\ member' \in BOOLEAN
        /\ killed' \in BOOLEAN /\ job' \in {"none", "open", "closed", "lost"}
        /\ control' \in BOOLEAN /\ lastId' \in Nat /\ sticky' \subseteq Evidences
    BY <1>8 DEF ReadReply, Typed, TypeOK, ProcessTypeOK, windows, handle, Evidences
  <2>5. /\ requests' \in Seq(Requests) /\ replies' \in Seq(Turned) /\ garbled' \in BOOLEAN
        /\ serving' \subseteq Requests /\ id' \in [Calls -> Nat]
    BY <1>1, <1>8, <2>2, <2>3, SMT DEF ReadReply, Typed, TypeOK, ProcessTypeOK, pipes, exchange
  <2>6. evidence' \in [Calls -> Evidences]
    BY <1>8 DEF ReadReply, Typed, TypeOK, ProcessTypeOK, Evidences
  <2>8. PICK step \in {"answered", "unanswered"} : Goto(c, step)
    BY <2>1
  <2>9. /\ step \in Steps \ {"idle", "mark", "issue"} /\ ~At(c, "idle")
        /\ step \in {"send", "numbered", "waiting"} => wire[c] \in Operations
        /\ step \in {"prepare", "launch", "assign", "resume", "launched", "unlaunched"} =>
             Launching(c)
    BY <2>1, <2>8 DEF Steps, At, Launching, Typed, Exchanging
  <2> QED
    BY <1>1, <2>1, <2>3, <2>4, <2>5, <2>6, <2>8, <2>9, TypedMove
<1>9. CASE GiveUp(c)
  <2>1. pc[c] \in {"numbered", "waiting"} /\ wire' = wire /\ \E step \in {"unanswered"} : Goto(c, step)
    BY <1>9 DEF GiveUp, exchange
  <2>2. /\ alive' \subseteq {"root", "child"} /\ suspended' \in BOOLEAN /\ member' \in BOOLEAN
        /\ killed' \in BOOLEAN /\ job' \in {"none", "open", "closed", "lost"}
        /\ control' \in BOOLEAN /\ lastId' \in Nat /\ sticky' \subseteq Evidences
    BY <1>9 DEF GiveUp, Typed, TypeOK, ProcessTypeOK, windows, handle, Evidences
  <2>3. /\ requests' \in Seq(Requests) /\ replies' \in Seq(Turned) /\ garbled' \in BOOLEAN
        /\ serving' \subseteq Requests /\ id' \in [Calls -> Nat]
    BY <1>1, <1>9, SMT DEF GiveUp, Typed, TypeOK, ProcessTypeOK, pipes, exchange
  <2>4. evidence' \in [Calls -> Evidences]
    BY <1>9 DEF GiveUp, Typed, TypeOK, ProcessTypeOK, Evidences
  <2>5. reply' = [reply EXCEPT ![c] = reply[c]]
    BY <1>1, <1>9 DEF GiveUp, exchange
  <2>6. PICK step \in {"unanswered"} : Goto(c, step)
    BY <2>1
  <2>7. /\ step \in Steps \ {"idle", "mark", "issue"} /\ ~At(c, "idle")
        /\ step \in {"send", "numbered", "waiting"} => wire[c] \in Operations
        /\ step \in {"prepare", "launch", "assign", "resume", "launched", "unlaunched"} =>
             Launching(c)
    BY <2>1, <2>6 DEF Steps, At, Launching, Typed, Exchanging
  <2> QED
    BY <1>1, <2>1, <1>1, <2>5, <2>2, <2>3, <2>4, <2>6, <2>7, TypedMove
<1>10. CASE CloseControl(c)
  <2>1. At(c, "clean") /\ wire' = wire /\ \E step \in {"snapshot", "cleaned"} : Goto(c, step)
    BY <1>10 DEF CloseControl, exchange
  <2>2. /\ alive' \subseteq {"root", "child"} /\ suspended' \in BOOLEAN /\ member' \in BOOLEAN
        /\ killed' \in BOOLEAN /\ job' \in {"none", "open", "closed", "lost"}
        /\ control' \in BOOLEAN /\ lastId' \in Nat /\ sticky' \subseteq Evidences
    BY <1>10 DEF CloseControl, Typed, TypeOK, ProcessTypeOK, windows, handle, Evidences
  <2>3. /\ requests' \in Seq(Requests) /\ replies' \in Seq(Turned) /\ garbled' \in BOOLEAN
        /\ serving' \subseteq Requests /\ id' \in [Calls -> Nat]
    <3>1. CASE sticky = {}
      <4>1. requests' = <<>> /\ replies' = <<>> /\ garbled' = FALSE /\ serving' = {} /\ id' = id
        BY <1>10, <3>1 DEF CloseControl, exchange
      <4>2. << >> \in Seq(Requests) /\ << >> \in Seq(Turned)
        OBVIOUS
      <4> QED
        BY <4>1, <4>2 DEF Typed, TypeOK, ProcessTypeOK
    <3>2. CASE sticky # {}
      BY <1>1, <1>10, <3>2 DEF CloseControl, Typed, TypeOK, ProcessTypeOK, pipes, exchange
    <3> QED
      BY <3>1, <3>2
  <2>4. evidence' \in [Calls -> Evidences]
    BY <1>10 DEF CloseControl, Typed, TypeOK, ProcessTypeOK, Evidences
  <2>5. reply' = [reply EXCEPT ![c] = reply[c]]
    BY <1>1, <1>10 DEF CloseControl, exchange
  <2>6. PICK step \in {"snapshot", "cleaned"} : Goto(c, step)
    BY <2>1
  <2>7. /\ step \in Steps \ {"idle", "mark", "issue"} /\ ~At(c, "idle")
        /\ step \in {"send", "numbered", "waiting"} => wire[c] \in Operations
        /\ step \in {"prepare", "launch", "assign", "resume", "launched", "unlaunched"} =>
             Launching(c)
    BY <2>1, <2>6 DEF Steps, At, Launching, Typed, Exchanging
  <2> QED
    BY <1>1, <2>1, <1>1, <2>5, <2>2, <2>3, <2>4, <2>6, <2>7, TypedMove
<1>11. CASE SnapshotBefore(c)
  <2>1. At(c, "snapshot") /\ wire' = wire /\ \E step \in {"kill", "cleaned"} : Goto(c, step)
    BY <1>11 DEF SnapshotBefore, exchange, TryTerminate, FailCleanUp, Conclude, CloseHandles
  <2>2. /\ alive' \subseteq {"root", "child"} /\ suspended' \in BOOLEAN /\ member' \in BOOLEAN
        /\ killed' \in BOOLEAN /\ job' \in {"none", "open", "closed", "lost"}
        /\ control' \in BOOLEAN /\ lastId' \in Nat /\ sticky' \subseteq Evidences
    BY <1>11 DEF SnapshotBefore, Typed, TypeOK, ProcessTypeOK, windows, handle, Evidences,
       TryTerminate, FailCleanUp, Conclude, CloseHandles
  <2>3. /\ requests' \in Seq(Requests) /\ replies' \in Seq(Turned) /\ garbled' \in BOOLEAN
        /\ serving' \subseteq Requests /\ id' \in [Calls -> Nat]
    BY <1>1, <1>11, SMT DEF SnapshotBefore, Typed, TypeOK, ProcessTypeOK, pipes, exchange
  <2>4. evidence' \in [Calls -> Evidences]
    BY <1>11 DEF SnapshotBefore, Typed, TypeOK, ProcessTypeOK, Evidences, TryTerminate,
       FailCleanUp, Conclude, CloseHandles
  <2>5. reply' = [reply EXCEPT ![c] = reply[c]]
    BY <1>1, <1>11 DEF SnapshotBefore, exchange
  <2>6. PICK step \in {"kill", "cleaned"} : Goto(c, step)
    BY <2>1
  <2>7. /\ step \in Steps \ {"idle", "mark", "issue"} /\ ~At(c, "idle")
        /\ step \in {"send", "numbered", "waiting"} => wire[c] \in Operations
        /\ step \in {"prepare", "launch", "assign", "resume", "launched", "unlaunched"} =>
             Launching(c)
    BY <2>1, <2>6 DEF Steps, At, Launching, Typed, Exchanging
  <2> QED
    BY <1>1, <2>1, <1>1, <2>5, <2>2, <2>3, <2>4, <2>6, <2>7, TypedMove
<1>12. CASE TerminateJob(c)
  <2>1. At(c, "kill") /\ wire' = wire /\ \E step \in {"verify", "cleaned"} : Goto(c, step)
    BY <1>12 DEF TerminateJob, exchange, FailCleanUp, Conclude, CloseHandles
  <2>2. /\ alive' \subseteq {"root", "child"} /\ suspended' \in BOOLEAN /\ member' \in BOOLEAN
        /\ killed' \in BOOLEAN /\ job' \in {"none", "open", "closed", "lost"}
        /\ control' \in BOOLEAN /\ lastId' \in Nat /\ sticky' \subseteq Evidences
    BY <1>12 DEF TerminateJob, Typed, TypeOK, ProcessTypeOK, windows, handle, Evidences,
       FailCleanUp, Conclude, CloseHandles
  <2>3. /\ requests' \in Seq(Requests) /\ replies' \in Seq(Turned) /\ garbled' \in BOOLEAN
        /\ serving' \subseteq Requests /\ id' \in [Calls -> Nat]
    BY <1>1, <1>12, SMT DEF TerminateJob, Typed, TypeOK, ProcessTypeOK, pipes, exchange
  <2>4. evidence' \in [Calls -> Evidences]
    BY <1>12 DEF TerminateJob, Typed, TypeOK, ProcessTypeOK, Evidences, FailCleanUp, Conclude,
       CloseHandles
  <2>5. reply' = [reply EXCEPT ![c] = reply[c]]
    BY <1>1, <1>12 DEF TerminateJob, exchange
  <2>6. PICK step \in {"verify", "cleaned"} : Goto(c, step)
    BY <2>1
  <2>7. /\ step \in Steps \ {"idle", "mark", "issue"} /\ ~At(c, "idle")
        /\ step \in {"send", "numbered", "waiting"} => wire[c] \in Operations
        /\ step \in {"prepare", "launch", "assign", "resume", "launched", "unlaunched"} =>
             Launching(c)
    BY <2>1, <2>6 DEF Steps, At, Launching, Typed, Exchanging
  <2> QED
    BY <1>1, <2>1, <1>1, <2>5, <2>2, <2>3, <2>4, <2>6, <2>7, TypedMove
<1>13. CASE Verify(c)
  <2>1. At(c, "verify") /\ wire' = wire /\ \E step \in {"cleaned"} : Goto(c, step)
    BY <1>13 DEF Verify, exchange, FailCleanUp, Conclude, CloseHandles
  <2>2. /\ alive' \subseteq {"root", "child"} /\ suspended' \in BOOLEAN /\ member' \in BOOLEAN
        /\ killed' \in BOOLEAN /\ job' \in {"none", "open", "closed", "lost"}
        /\ control' \in BOOLEAN /\ lastId' \in Nat /\ sticky' \subseteq Evidences
    BY <1>13 DEF Verify, Typed, TypeOK, ProcessTypeOK, windows, handle, Evidences, FailCleanUp,
       Conclude, CloseHandles
  <2>3. /\ requests' \in Seq(Requests) /\ replies' \in Seq(Turned) /\ garbled' \in BOOLEAN
        /\ serving' \subseteq Requests /\ id' \in [Calls -> Nat]
    BY <1>1, <1>13, SMT DEF Verify, Typed, TypeOK, ProcessTypeOK, pipes, exchange
  <2>4. evidence' \in [Calls -> Evidences]
    BY <1>13 DEF Verify, Typed, TypeOK, ProcessTypeOK, Evidences, FailCleanUp, Conclude,
       CloseHandles
  <2>5. reply' = [reply EXCEPT ![c] = reply[c]]
    BY <1>1, <1>13 DEF Verify, exchange
  <2>6. PICK step \in {"cleaned"} : Goto(c, step)
    BY <2>1
  <2>7. /\ step \in Steps \ {"idle", "mark", "issue"} /\ ~At(c, "idle")
        /\ step \in {"send", "numbered", "waiting"} => wire[c] \in Operations
        /\ step \in {"prepare", "launch", "assign", "resume", "launched", "unlaunched"} =>
             Launching(c)
    BY <2>1, <2>6 DEF Steps, At, Launching, Typed, Exchanging
  <2> QED
    BY <1>1, <2>1, <1>1, <2>5, <2>2, <2>3, <2>4, <2>6, <2>7, TypedMove
<1> QED
  BY <1>2, <1>3, <1>4, <1>5, <1>6, <1>7, <1>8, <1>9, <1>10, <1>11, <1>12, <1>13
     DEF OfProcess, ProcessStep

LEMMA TypedEnvironment ==
    ASSUME Typed, OfProcess(Environment)
    PROVE  Typed'
<1> USE DEF Typed, TypeOK, ProcessTypeOK, Exchanging, OfProcess, session, answers, ledger,
            windows, handle, pipes, exchange, At, Opens, Launching
<1>1. CASE TakeRequest
  BY <1>1, SMTT(30) DEF TakeRequest
<1>2. CASE AnswerRequest
  <2>1. PICK r \in serving : \E a \in Answers(r) : replies' = Append(replies, a)
    BY <1>2 DEF AnswerRequest
  <2>2. PICK a \in Answers(r) : replies' = Append(replies, a)
    BY <2>1
  <2>3. a \in Turned
    BY <2>1, <2>2 DEF Answers, Turned, Replies, Requests, NoTurn
  <2>4. replies' \in Seq(Turned) /\ replies' \in Seq(Replies)
    BY <2>2, <2>3, TurnedIsReply
  <2> QED
    BY <1>2, <2>4 DEF AnswerRequest
<1>3. CASE Spawn
  BY <1>3 DEF Spawn
<1>4. ASSUME NEW p \in {"root", "child"}, Die(p) PROVE Typed'
  BY <1>4 DEF Die
<1>5. ASSUME NEW c \in Calls, SplitReply(c) PROVE Typed'
  BY <1>5 DEF SplitReply
<1> QED
  BY <1>1, <1>2, <1>3, <1>4, <1>5 DEF Environment

\* A step changes the records of one call.
Moves(c) ==
    /\ pc' = [pc EXCEPT ![c] = pc'[c]]
    /\ method' = [method EXCEPT ![c] = method'[c]]
    /\ wire' = [wire EXCEPT ![c] = wire'[c]]
    /\ reply' = [reply EXCEPT ![c] = reply'[c]]
    /\ result' = [result EXCEPT ![c] = result'[c]]

\* A call that begins, ends or goes on, with what it now requests and has made.
LEMMA TypedCall ==
    ASSUME Typed, NEW c \in Calls, UNCHANGED <<worker, consumed, uses>>, Moves(c),
           pc'[c] \in Steps \ {"idle"}, method'[c] \in Methods,
           wire'[c] \in Operations \cup {"none"}, result'[c] \subseteq Results,
           reply'[c] \subseteq Turned, \A r, s \in reply'[c] : r = s,
           id' \in [Calls -> Nat], evidence' \in [Calls -> Evidences],
           returned' \in [Calls -> SUBSET Calls],
           status' \in {"opening", "refused", "READY", "INTERRUPTED", "CANCELLED",
                        "FAILED", "CLOSED", status},
           pending' \subseteq Turns, terminal' \subseteq Calls,
           tuples' \subseteq Tuples, eligible' \subseteq Calls,
           pc'[c] \in {"send", "numbered", "waiting"} => wire'[c] \in Operations,
           wire'[c] = "attest" => method'[c] \in {"resume", "turn", "steer"},
           wire'[c] \in {"start", "resume"} => method'[c] \in {"start", "resume"},
           pc'[c] = "mark" => method'[c] = "cancel",
           pc'[c] = "issue" => result'[c] # {},
           pc'[c] \in {"prepare", "launch", "assign", "resume", "launched", "unlaunched"} =>
             method'[c] \in {"start", "resume"}
    PROVE  Typed'
<1>1. /\ pc' \in [Calls -> Steps] /\ \A d \in Calls \ {c} : pc'[d] = pc[d]
      /\ method' \in [Calls -> Methods \cup {"none"}]
      /\ \A d \in Calls \ {c} : method'[d] = method[d]
  BY DEF Moves, Typed, TypeOK
<1>2. /\ reply' \in [Calls -> SUBSET Replies] /\ \A d \in Calls \ {c} : reply'[d] = reply[d]
      /\ wire' \in [Calls -> Operations \cup {"none"}]
      /\ \A d \in Calls \ {c} : wire'[d] = wire[d]
  <2>1. reply'[c] \in SUBSET Replies /\ reply \in [Calls -> SUBSET Replies]
        /\ wire \in [Calls -> Operations \cup {"none"}]
    BY TurnedIsReply DEF Typed, TypeOK, ProcessTypeOK
  <2> QED
    BY <2>1 DEF Moves
<1>3. /\ result' \in [Calls -> SUBSET Results]
      /\ \A d \in Calls \ {c} : result'[d] = result[d]
  BY DEF Moves, Typed, TypeOK
<1>4. status' \in {"none", "opening", "refused", "READY", "INTERRUPTED", "CANCELLED",
                   "FAILED", "CLOSED"}
  BY DEF Typed, TypeOK
<1>5. TypeOK'
  BY <1>1, <1>2, <1>3, <1>4
     DEF Typed, TypeOK, ProcessTypeOK, worker, windows, handle, pipes
<1>6. Exchanging'
  <2>1. replies' \in Seq(Turned)
    BY DEF Typed, Exchanging, worker, pipes
  <2>2. ASSUME NEW d \in Calls PROVE Exchanging!2!(d)'
    <3>1. Exchanging!2!(d)
      BY DEF Typed, Exchanging
    <3>2. CASE d = c
      BY <3>2 DEF At, Opens, Launching, Methods
    <3>3. CASE d # c
      BY <1>1, <1>2, <1>3, <3>1, <3>3 DEF At, Opens, Launching
    <3> QED
      BY <3>2, <3>3
  <2> QED
    BY <2>1, <2>2 DEF Exchanging
<1> QED
  BY <1>5, <1>6 DEF Typed

LEMMA Itself ==
    ASSUME Typed, NEW c \in Calls
    PROVE  /\ wire[c] \in Operations \cup {"none"} /\ reply[c] \subseteq Turned
           /\ result[c] \subseteq Results /\ \A r, s \in reply[c] : r = s
           /\ ~At(c, "idle") => method[c] \in Methods
           /\ wire[c] = "attest" => method[c] \in {"resume", "turn", "steer"}
           /\ wire[c] \in {"start", "resume"} => method[c] \in {"start", "resume"}
BY DEF Typed, TypeOK, ProcessTypeOK, Exchanging, Opens

\* A call that ends or comes to the clean-up.
LEMMA TypedEnd ==
    ASSUME Typed, NEW c \in Calls, UNCHANGED <<worker, method, result, consumed, uses>>,
           ~At(c, "idle"), NEW step \in {"done", "raised", "clean"}, Goto(c, step),
           wire' \in {wire, [wire EXCEPT ![c] = "none"]},
           reply' \in {reply, [reply EXCEPT ![c] = {}]},
           id' \in [Calls -> Nat], evidence' \in [Calls -> Evidences],
           returned' \in [Calls -> SUBSET Calls],
           status' \in {"opening", "refused", "READY", "INTERRUPTED", "CANCELLED",
                        "FAILED", "CLOSED", status},
           pending' \subseteq Turns, terminal' \subseteq Calls,
           tuples' \subseteq Tuples, eligible' \subseteq Calls
    PROVE  Typed'
<1>1. Moves(c) /\ pc'[c] = step /\ wire'[c] \in {wire[c], "none"} /\ reply'[c] \in {reply[c], {}}
  BY DEF Goto, Moves, Typed, TypeOK, ProcessTypeOK
<1>2. /\ pc'[c] \in Steps \ {"idle"} /\ method'[c] \in Methods
      /\ wire'[c] \in Operations \cup {"none"} /\ result'[c] \subseteq Results
      /\ reply'[c] \subseteq Turned /\ \A r, s \in reply'[c] : r = s
      /\ wire'[c] = "attest" => method'[c] \in {"resume", "turn", "steer"}
      /\ wire'[c] \in {"start", "resume"} => method'[c] \in {"start", "resume"}
  BY Itself, <1>1 DEF Steps
<1>3. /\ pc'[c] \notin {"send", "numbered", "waiting", "mark", "issue"}
      /\ pc'[c] \notin {"prepare", "launch", "assign", "resume", "launched", "unlaunched"}
      /\ UNCHANGED <<worker, consumed, uses>>
  BY <1>1
<1> QED
  BY <1>1, <1>2, <1>3, TypedCall

\* A call that asks the worker for something.
LEMMA TypedRequest ==
    ASSUME Typed, NEW c \in Calls, NEW o \in Operations, Request(c, o), ~At(c, "idle"),
           UNCHANGED <<worker, evidence, id, terminal, answers, ledger>>,
           status' \in {"opening", "refused", "READY", "INTERRUPTED", "CANCELLED",
                        "FAILED", "CLOSED", status},
           pending' \subseteq Turns,
           o = "attest" => method[c] \in {"resume", "turn", "steer"},
           o \in {"start", "resume"} => method[c] \in {"start", "resume"}
    PROVE  Typed'
<1>1. /\ Moves(c) /\ pc'[c] = "send" /\ wire'[c] = o /\ reply'[c] = {}
      /\ UNCHANGED <<worker, consumed, uses>> /\ method'[c] = method[c] /\ result'[c] = result[c]
  BY DEF Request, Goto, Moves, Typed, TypeOK, ProcessTypeOK, answers, ledger
<1>2. /\ id' \in [Calls -> Nat] /\ evidence' \in [Calls -> Evidences]
      /\ returned' \in [Calls -> SUBSET Calls] /\ terminal' \subseteq Calls
      /\ tuples' \subseteq Tuples /\ eligible' \subseteq Calls
  BY DEF Typed, TypeOK, ProcessTypeOK, answers, ledger
<1>3. /\ pc'[c] \in Steps \ {"idle"} /\ method'[c] \in Methods
      /\ wire'[c] \in Operations \cup {"none"} /\ result'[c] \subseteq Results
      /\ reply'[c] \subseteq Turned /\ \A r, s \in reply'[c] : r = s
      /\ wire'[c] = "attest" => method'[c] \in {"resume", "turn", "steer"}
      /\ wire'[c] \in {"start", "resume"} => method'[c] \in {"start", "resume"}
  BY Itself, <1>1 DEF Steps
<1> QED
  BY <1>1, <1>2, <1>3, TypedCall

LEMMA TypedQuit ==
    ASSUME Typed, NEW c \in Calls, NEW step \in {"done", "raised"}, Quit(c, step)
    PROVE  /\ Goto(c, step) /\ wire' = [wire EXCEPT ![c] = "none"]
           /\ reply' = [reply EXCEPT ![c] = {}]
           /\ id' \in [Calls -> Nat] /\ evidence' \in [Calls -> Evidences]
           /\ evidence' = [evidence EXCEPT ![c] = "none"]
BY DEF Quit, Forget, Typed, TypeOK, ProcessTypeOK, Evidences

LEMMA TypedReturnFrom ==
    ASSUME Typed, NEW c \in Calls, NEW d \in Calls, ReturnFrom(c, d)
    PROVE  returned' \in [Calls -> SUBSET Calls] /\ Quit(c, "done")
BY DEF ReturnFrom, Typed, TypeOK

\* What the way to the clean-up changes.
LEMMA ToCleanUpIs ==
    ASSUME Typed, NEW c \in Calls, ToCleanUp(c)
    PROVE  /\ \/ Goto(c, "done") /\ terminal # {} /\ evidence' = [evidence EXCEPT ![c] = "none"]
              \/ Goto(c, "clean") /\ evidence' = evidence
           /\ wire' \in {wire, [wire EXCEPT ![c] = "none"]}
           /\ reply' \in {reply, [reply EXCEPT ![c] = {}]}
           /\ id' \in [Calls -> Nat] /\ evidence' \in [Calls -> Evidences]
           /\ returned' \in [Calls -> SUBSET Calls]
<1>1. CASE terminal # {} /\ method[c] \in {"turn", "steer", "interrupt", "cancel"}
  <2>1. PICK d \in Calls : ReturnFrom(c, d)
    BY <1>1 DEF ToCleanUp, Typed, TypeOK
  <2> QED
    BY <1>1, <2>1, TypedReturnFrom, TypedQuit
<1>2. CASE ~(terminal # {} /\ method[c] \in {"turn", "steer", "interrupt", "cancel"})
  <2>1. Goto(c, "clean") /\ evidence' = evidence /\ returned' = returned
        /\ (UNCHANGED <<id, wire, reply>> \/ Forget(c))
    BY <1>2 DEF ToCleanUp, exchange
  <2>2. /\ wire' \in {wire, [wire EXCEPT ![c] = "none"]}
        /\ reply' \in {reply, [reply EXCEPT ![c] = {}]}
        /\ id' \in [Calls -> Nat]
    <3>1. id \in [Calls -> Nat]
      BY DEF Typed, TypeOK, ProcessTypeOK
    <3>2. CASE UNCHANGED <<id, wire, reply>>
      BY <3>1, <3>2
    <3>3. CASE Forget(c)
      BY <3>1, <3>3 DEF Forget
    <3> QED
      BY <2>1, <3>2, <3>3
  <2> QED
    BY <2>1, <2>2 DEF Typed, TypeOK, ProcessTypeOK
<1> QED
  BY <1>1, <1>2

LEMMA TypedSession ==
    ASSUME Typed, NEW c \in Calls, SessionStep(c)
    PROVE  Typed'
<1> USE DEF At
<1>0. /\ "done" \in {"done", "raised", "clean"} /\ "raised" \in {"done", "raised", "clean"}
      /\ "clean" \in {"done", "raised", "clean"}
      /\ "done" \in {"done", "raised"} /\ "raised" \in {"done", "raised"}
      /\ {"attest", "start", "resume", "turn", "steer", "interrupt", "close"} \subseteq Operations
  BY DEF Operations
<1>1. /\ id \in [Calls -> Nat] /\ evidence \in [Calls -> Evidences]
      /\ returned \in [Calls -> SUBSET Calls] /\ pending \subseteq Turns
      /\ terminal \subseteq Calls /\ tuples \subseteq Tuples /\ eligible \subseteq Calls
  BY DEF Typed, TypeOK, ProcessTypeOK
<1>2. CASE Launched(c)
  <2>1. method[c] \in {"start", "resume"} /\ ~At(c, "idle")
        /\ UNCHANGED <<worker, evidence, id, session, answers, ledger>>
    BY <1>2 DEF Launched, Typed, Exchanging, Launching, Opens, exchange
  <2>2. CASE Request(c, IF method[c] = "start" THEN "start" ELSE "attest")
    BY <1>0, <1>1, <2>1, <2>2, TypedRequest DEF session
  <2>3. CASE Goto(c, "clean") /\ UNCHANGED exchange
    BY <1>0, <1>1, <2>1, <2>3, TypedEnd DEF exchange, session, answers, ledger
  <2> QED
    BY <1>2, <2>2, <2>3 DEF Launched
<1>3. CASE Unlaunched(c) \/ OpenFailed(c)
  <2>1. /\ Quit(c, "raised") /\ status' = "refused" /\ ~At(c, "idle")
        /\ UNCHANGED <<worker, pending, terminal, answers, ledger>>
    BY <1>3 DEF Unlaunched, OpenFailed
  <2> QED
    BY <1>0, <1>1, <2>1, TypedQuit, TypedEnd DEF answers, ledger
<1>4. CASE RefuseRequest(c) \/ Unanswered(c) \/ Rejected(c) \/ Interrupted(c)
  <2>1. /\ ToCleanUp(c) /\ ~At(c, "idle") /\ status' \in {status, "INTERRUPTED"}
        /\ pending' \in {pending, {}}
        /\ UNCHANGED <<worker, terminal, method, result, ledger>>
    BY <1>4 DEF RefuseRequest, Unanswered, Rejected, Interrupted, session
  <2>2. \E step \in {"done", "raised", "clean"} : Goto(c, step)
    BY <2>1, ToCleanUpIs
  <2> QED
    BY <1>1, <2>1, <2>2, ToCleanUpIs, TypedEnd DEF ledger
<1>5. CASE MarkCancelled(c)
  BY <1>0, <1>1, <1>5, TypedRequest DEF MarkCancelled
<1>6. CASE Attested(c)
  <2>1. method[c] \in {"resume", "turn", "steer"}
    BY <1>6 DEF Attested, Typed, Exchanging
  <2> QED
    BY <1>0, <1>1, <1>6, <2>1, TypedRequest DEF Attested, session
<1>7. CASE Opened(c)
  BY <1>0, <1>1, <1>7, TypedQuit, TypedEnd DEF Opened, answers, ledger
<1>8. CASE Issue(c)
  <2>1. Quit(c, "done") /\ returned' \in [Calls -> SUBSET Calls]
    BY <1>8, TypedReturnFrom DEF Issue
  <2>2. method[c] \in Methods /\ result[c] # {} /\ result[c] \subseteq Results
    BY <1>8, Itself DEF Issue, Typed, Exchanging
  <2>3. TupleOf(c) \in Tuples
    BY <2>2 DEF TupleOf, Tuples, Results
  <2>4. /\ tuples' \subseteq Tuples /\ eligible' \subseteq Calls
        /\ UNCHANGED <<worker, session, method, result, consumed, uses>> /\ ~At(c, "idle")
    BY <1>1, <1>8, <2>3 DEF Issue
  <2> QED
    BY <1>0, <1>1, <2>1, <2>4, TypedQuit, TypedEnd DEF session
<1>9. CASE IssueRefused(c)
  <2>1. UNCHANGED <<worker, session, method, result, ledger>> /\ ~At(c, "idle")
    BY <1>9 DEF IssueRefused
  <2>2. CASE ToCleanUp(c)
    <3>1. \E step \in {"done", "raised", "clean"} : Goto(c, step)
      BY <2>2, ToCleanUpIs
    <3> QED
      BY <1>1, <2>1, <2>2, <3>1, ToCleanUpIs, TypedEnd DEF session, ledger
  <2>3. CASE Quit(c, "raised") /\ UNCHANGED returned
    BY <1>0, <1>1, <2>1, <2>3, TypedQuit, TypedEnd DEF session, ledger
  <2>4. CASE ReturnFrom(c, c)
    BY <1>0, <1>1, <2>1, <2>4, TypedReturnFrom, TypedQuit, TypedEnd DEF session, ledger
  <2> QED
    BY <1>9, <2>2, <2>3, <2>4 DEF IssueRefused
<1>10. ASSUME Goto(c, "issue"), UNCHANGED <<process, method, returned, ledger>>, ~At(c, "idle"),
              NEW r \in Results, result' = [result EXCEPT ![c] = {r}],
              status' \in {"CANCELLED", "FAILED", "CLOSED", status},
              pending' \subseteq Turns, terminal' \in {terminal, {c}}
       PROVE  Typed'
  <2>1. /\ Moves(c) /\ pc'[c] = "issue" /\ result'[c] = {r} /\ wire'[c] = wire[c]
        /\ reply'[c] = reply[c] /\ method'[c] = method[c]
        /\ UNCHANGED <<worker, consumed, uses, id, evidence, returned, tuples, eligible>>
    BY <1>10 DEF Goto, Moves, Typed, TypeOK, ProcessTypeOK, process, exchange, ledger
  <2>2. pc'[c] \in Steps \ {"idle"} /\ terminal' \subseteq Calls
    BY <1>1, <1>10, <2>1 DEF Steps
  <2> QED
    BY <1>1, <1>10, <2>1, <2>2, Itself, TypedCall
<1>11. CASE Completed(c)
  <2>1. PICK r \in reply[c] :
          /\ pending' = {r.turn}
          /\ result' = [result EXCEPT ![c] = {[status |-> "COMPLETED", turn |-> r.turn,
                                               candidate |-> {r.turn}, safe |-> FALSE]}]
    BY <1>11 DEF Completed
  <2>2. r.turn \in Turns
    <3>1. PICK s \in reply[c] : s.out = "good" /\ s.op \in {"turn", "steer"}
      BY <1>11 DEF Completed, Good
    <3> QED
      BY <3>1, Itself DEF Turned
  <2> HIDE DEF At
  <2>3. [status |-> "COMPLETED", turn |-> r.turn, candidate |-> {r.turn}, safe |-> FALSE] \in Results
    BY <2>2 DEF Results
  <2>4. /\ Goto(c, "issue") /\ ~At(c, "idle")
        /\ UNCHANGED <<process, status, terminal, method, returned, ledger>>
    BY <1>11 DEF Completed, At
  <2> QED
    BY <1>10, <2>1, <2>2, <2>3, <2>4
<1>12. CASE Failed(c) \/ Closed(c)
  <2>1. \A s \in {"FAILED", "CANCELLED"} : Ended(s) \in Results
    BY DEF Ended, Results
  <2>2. [status |-> "CLOSED", turn |-> NoTurn, candidate |-> pending, safe |-> TRUE] \in Results
    BY <1>1 DEF Results
  <2>3. /\ ~At(c, "idle") /\ UNCHANGED <<process, method, returned, ledger>>
        /\ pending' \subseteq Turns
        /\ \E r \in Results, s \in {"CANCELLED", "FAILED", "CLOSED"} : Terminal(c, s, r)
    BY <1>1, <1>12, <2>1, <2>2 DEF Failed, Closed
  <2> QED
    BY <1>10, <2>3 DEF Terminal
<1> QED
  BY <1>2, <1>3, <1>4, <1>5, <1>6, <1>7, <1>8, <1>9, <1>11, <1>12 DEF SessionStep

LEMMA TypedBegin ==
    ASSUME Typed, NEW c \in Calls, NEW m \in Methods, Open(c, m) \/ Call(c, m)
    PROVE  Typed'
<1>1. /\ At(c, "idle") /\ method' = [method EXCEPT ![c] = m] /\ result' = result
      /\ UNCHANGED <<worker, consumed, uses, tuples, eligible, pending, terminal>>
      /\ status' \in {"opening", status}
  BY DEF Open, Call, Begin, process, session, ledger
<1>2. /\ id \in [Calls -> Nat] /\ evidence \in [Calls -> Evidences]
      /\ returned \in [Calls -> SUBSET Calls] /\ pending \subseteq Turns
      /\ terminal \subseteq Calls /\ tuples \subseteq Tuples /\ eligible \subseteq Calls
      /\ wire \in [Calls -> Operations \cup {"none"}] /\ reply \in [Calls -> SUBSET Replies]
      /\ pc \in [Calls -> Steps] /\ method \in [Calls -> Methods \cup {"none"}]
      /\ result \in [Calls -> SUBSET Results]
  BY DEF Typed, TypeOK, ProcessTypeOK
<1>3. /\ method'[c] = m /\ result'[c] = result[c] /\ result'[c] \subseteq Results
      /\ method' = [method EXCEPT ![c] = method'[c]] /\ result' = [result EXCEPT ![c] = result'[c]]
  BY <1>1, <1>2
<1>4. wire[c] \notin {"attest", "start", "resume"}
  BY <1>1 DEF Typed, Exchanging, At, Opens
<1>5. CASE Goto(c, "prepare") /\ UNCHANGED <<id, wire, reply, evidence, returned>>
           /\ m \in {"start", "resume"}
  <2>1. Moves(c) /\ pc'[c] = "prepare" /\ wire'[c] = wire[c] /\ reply'[c] = reply[c]
    BY <1>2, <1>3, <1>5 DEF Goto, Moves
  <2>2. pc'[c] \in Steps \ {"idle"}
    BY <2>1 DEF Steps
  <2>3. wire'[c] # "attest" /\ wire'[c] \notin {"start", "resume"}
    BY <1>4, <2>1
  <2> QED
    BY <1>1, <1>2, <1>3, <1>5, <2>1, <2>2, <2>3, Itself, TypedCall
<1>6. CASE Quit(c, "done") /\ returned' \in [Calls -> SUBSET Calls]
  <2>1. Moves(c) /\ pc'[c] = "done" /\ wire'[c] = "none" /\ reply'[c] = {}
    BY <1>2, <1>3, <1>6, TypedQuit DEF Goto, Moves
  <2>2. pc'[c] \in Steps \ {"idle"}
    BY <2>1 DEF Steps
  <2> QED
    BY <1>1, <1>2, <1>3, <1>6, <2>1, <2>2, TypedQuit, TypedCall
<1>7. CASE Goto(c, "mark") /\ m = "cancel" /\ UNCHANGED <<id, wire, reply, evidence, returned>>
  <2>1. Moves(c) /\ pc'[c] = "mark" /\ wire'[c] = wire[c] /\ reply'[c] = reply[c]
    BY <1>2, <1>3, <1>7 DEF Goto, Moves
  <2>2. pc'[c] \in Steps \ {"idle"}
    BY <2>1 DEF Steps
  <2>3. wire'[c] # "attest" /\ wire'[c] \notin {"start", "resume"}
    BY <1>4, <2>1
  <2> QED
    BY <1>1, <1>2, <1>3, <1>7, <2>1, <2>2, <2>3, Itself, TypedCall
<1>8. ASSUME NEW o \in {"attest", "interrupt", "close"}, Request(c, o),
             UNCHANGED <<id, evidence, returned>>,
             o = "attest" => m \in {"turn", "steer"}
      PROVE  Typed'
  <2>1. Moves(c) /\ pc'[c] = "send" /\ wire'[c] = o /\ reply'[c] = {}
    BY <1>2, <1>3, <1>8 DEF Request, Goto, Moves
  <2>2. pc'[c] \in Steps \ {"idle"} /\ wire'[c] \in Operations
    BY <2>1 DEF Steps, Operations
  <2>3. wire'[c] = "attest" => method'[c] \in {"resume", "turn", "steer"}
    BY <1>3, <1>8, <2>1
  <2>4. wire'[c] \notin {"start", "resume"}
    BY <2>1
  <2> QED
    BY <1>1, <1>2, <1>3, <1>8, <2>1, <2>2, <2>3, <2>4, TypedCall
<1>9. CASE Open(c, m)
  BY <1>5, <1>9 DEF Open, process, exchange
<1>10. CASE Call(c, m)
  <2>1. m \in {"turn", "steer", "interrupt", "cancel", "close"}
    BY <1>10 DEF Call, Methods
  <2>2. CASE terminal # {}
    <3>1. PICK d \in Calls : ReturnFrom(c, d)
      BY <1>2, <1>10, <2>2 DEF Call
    <3> QED
      BY <1>6, <3>1, TypedReturnFrom
  <2>3. CASE terminal = {}
    <3>1. CASE m = "cancel"
      BY <1>7, <1>10, <2>3, <3>1 DEF Call, exchange
    <3>2. CASE m \in {"turn", "steer"}
      BY <1>8, <1>10, <2>3, <3>2 DEF Call
    <3>3. CASE m \in {"interrupt", "close"}
      BY <1>8, <1>10, <2>3, <3>3 DEF Call
    <3> QED
      BY <2>1, <3>1, <3>2, <3>3
  <2> QED
    BY <2>2, <2>3
<1> QED
  BY <1>9, <1>10

LEMMA TypedConsume ==
    ASSUME Typed, NEW c \in Calls, Consume(c)
    PROVE  Typed'
<1>1. uses' \in [Calls -> 0..2] /\ consumed' \subseteq Calls
  BY DEF Consume, Typed, TypeOK
<1> QED
  BY <1>1, SMTT(30) DEF Consume, Typed, TypeOK, ProcessTypeOK, Exchanging, process, worker, windows,
     handle, pipes, exchange, session, answers, At, Opens, Launching

LEMMA TypedStep == Typed /\ [Next]_vars => Typed'
<1> SUFFICES ASSUME Typed, [Next]_vars PROVE Typed'
  OBVIOUS
<1>1. CASE UNCHANGED vars
  BY <1>1, SMTT(30) DEF vars, Typed, TypeOK, ProcessTypeOK, Exchanging, process, worker, windows,
     handle, pipes, exchange, session, answers, ledger, At, Opens, Launching
<1> QED
  BY <1>1, TypedProcess, TypedEnvironment, TypedSession, TypedBegin, TypedConsume DEF Next

LEMMA InitTyped == Init => Typed
<1> SUFFICES ASSUME Init PROVE Typed
  OBVIOUS
<1>1. << >> \in Seq(Requests) /\ << >> \in Seq(Replies) /\ << >> \in Seq(Turned)
  OBVIOUS
<1>2. TypeOK
  <2>1. ProcessTypeOK
    BY <1>1 DEF Init, ProcessInit, ProcessTypeOK, Evidences
  <2> QED
    BY <2>1 DEF Init, ProcessInit, TypeOK, Steps
<1>3. Exchanging
  BY <1>1 DEF Init, ProcessInit, Exchanging, At, Opens, Launching
<1> QED
  BY <1>2, <1>3 DEF Typed

\* The job, the pipes, the session, its calls and the ledger hold data of their
\* kinds, and what a call asks for and has been answered fits its method.
THEOREM TypeCorrect == Spec => []TypeOK
<1>1. Typed => TypeOK
  BY DEF Typed
<1> QED
  BY <1>1, InitTyped, TypedStep, PTL DEF Spec

-----------------------------------------------------------------------------
(* One call opens the session, before all others. *)

LEMMA OpeningCall ==
    ASSUME Typed, Opening, NEW c \in Calls, Active(c), method' = method,
           \A d \in Calls \ {c} : pc'[d] = pc[d],
           pc'[c] # "idle",
           \/ status' = status
           \/ Opens(c) /\ pc'[c] \in {"done", "raised"} /\ status' \notin {"none", "opening"}
           \/ ~Opens(c) /\ status' \notin {"none", "opening", "refused"}
    PROVE  Opening'
<1>1. \A d \in Calls : Opens(d)' <=> Opens(d)
  BY DEF Opens
<1>2. ~At(c, "idle") /\ status # "none"
  BY DEF Active, At, Opening
<1>3. Opens(c) => status = "opening"
  BY DEF Opening
<1>4. \A d \in Calls \ {c} : (Active(d)' <=> Active(d)) /\ (At(d, "idle")' <=> At(d, "idle"))
  BY DEF Active, At
<1>5. ~At(c, "idle")' /\ (pc'[c] \in {"done", "raised"} => ~Active(c)')
  BY DEF At, Active
<1>6. ~HasSession => Opens(c)
  BY <1>2 DEF Opening
<1>7. status' # "none"
  BY <1>2
<1>8. ~HasSession' => \A d \in Calls : At(d, "idle")' \/ Opens(d)'
  BY <1>1, <1>3, <1>4, <1>6 DEF Opening, HasSession
<1>9. ASSUME NEW d \in Calls, Opens(d), Active(d)' PROVE status' = "opening"
  <2>1. CASE d = c
    BY <1>3, <1>5, <1>9, <2>1
  <2>2. CASE d # c
    BY <1>4, <1>6, <1>9, <2>2 DEF Opening, HasSession
  <2> QED
    BY <2>1, <2>2
<1> QED
  BY <1>1, <1>7, <1>8, <1>9 DEF Opening

LEMMA OpeningBegin ==
    ASSUME Typed, Opening, NEW c \in Calls, NEW m \in Methods, Open(c, m) \/ Call(c, m)
    PROVE  Opening'
<1>1. /\ At(c, "idle") /\ method'[c] = m /\ \A d \in Calls \ {c} : method'[d] = method[d]
  BY DEF Open, Call, Begin, Typed, TypeOK
<1>2. CASE Open(c, m)
  <2>1. status = "none" /\ status' = "opening" /\ m \in {"start", "resume"} /\ pc'[c] = "prepare"
        /\ \A d \in Calls \ {c} : pc'[d] = pc[d]
    BY <1>2 DEF Open, Goto, Typed, TypeOK
  <2>2. \A d \in Calls : At(d, "idle") /\ ~Opens(d)
    BY <2>1 DEF Opening, Typed, Exchanging, Opens
  <2> QED
    BY <1>1, <2>1, <2>2 DEF Opening, HasSession, At, Active, Opens
<1>3. CASE Call(c, m)
  <2>1. HasSession /\ status' = status /\ m \notin {"start", "resume"}
    BY <1>3 DEF Call, HasSession, session
  <2>2. \A d \in Calls \ {c} : pc'[d] = pc[d]
    BY <1>3 DEF Call, Request, ReturnFrom, Quit, Goto, Typed, TypeOK
  <2>3. \A d \in Calls : (Opens(d)' <=> d # c /\ Opens(d))
    BY <1>1, <2>1 DEF Opens
  <2>4. \A d \in Calls \ {c} : Active(d)' <=> Active(d)
    BY <2>2 DEF Active
  <2> QED
    BY <2>1, <2>3, <2>4 DEF Opening, HasSession
<1> QED
  BY <1>2, <1>3

LEMMA OpeningUnchanged ==
    ASSUME Opening, UNCHANGED <<pc, method, status>>
    PROVE  Opening'
BY DEF Opening, HasSession, At, Active, Opens

\* What a step of a call on the session may do to status and step.
LEMMA SessionMoves ==
    ASSUME Typed, NEW c \in Calls, SessionStep(c)
    PROVE  /\ Active(c) /\ method' = method
           /\ \E step \in Steps \ {"idle"} : Goto(c, step)
           /\ \/ status' = status
              \/ Opens(c) /\ pc'[c] \in {"done", "raised"} /\ status' \notin {"none", "opening"}
              \/ ~Opens(c) /\ status' \notin {"none", "opening", "refused"}
<1> USE DEF At, Active
<1>1. /\ "done" \in {"done", "raised"} /\ "raised" \in {"done", "raised"}
      /\ {"clean", "send", "issue", "done", "raised"} \subseteq Steps \ {"idle"}
  BY DEF Steps
<1>2. \A step : Goto(c, step) => pc'[c] = step
  BY DEF Goto, Typed, TypeOK
<1>3. CASE Launched(c)
  BY <1>1, <1>3 DEF Launched, Request, session, answers
<1>4. CASE Unlaunched(c) \/ OpenFailed(c)
  <2>1. Opens(c)
    BY <1>4 DEF Unlaunched, OpenFailed, Typed, Exchanging, Launching, Opens
  <2> QED
    BY <1>1, <1>2, <1>4, <2>1, TypedQuit DEF Unlaunched, OpenFailed, answers
<1>5. CASE RefuseRequest(c) \/ Unanswered(c) \/ Rejected(c)
  <2>1. ToCleanUp(c) /\ UNCHANGED <<session, method>> /\ Active(c)
    BY <1>5 DEF RefuseRequest, Unanswered, Rejected
  <2> QED
    BY <1>1, <2>1, ToCleanUpIs DEF session
<1>6. CASE Interrupted(c)
  <2>1. ToCleanUp(c) /\ method' = method /\ Active(c) /\ status' = "INTERRUPTED" /\ ~Opens(c)
    BY <1>6 DEF Interrupted, Opens
  <2> QED
    BY <1>1, <2>1, ToCleanUpIs
<1>7. CASE MarkCancelled(c)
  <2>1. ~Opens(c)
    BY <1>7 DEF MarkCancelled, Typed, Exchanging, Opens
  <2> QED
    BY <1>1, <1>7, <2>1 DEF MarkCancelled, Request, answers
<1>8. CASE Attested(c)
  BY <1>1, <1>8 DEF Attested, Request, session, answers
<1>9. CASE Opened(c)
  <2>1. Opens(c)
    BY <1>9 DEF Opened, Typed, Exchanging
  <2> QED
    BY <1>1, <1>2, <1>9, <2>1, TypedQuit DEF Opened, answers
<1>10. CASE Completed(c)
  BY <1>1, <1>10 DEF Completed
<1>11. CASE Failed(c)
  <2>1. ~Opens(c)
    BY <1>11 DEF Failed, Opens
  <2> QED
    BY <1>1, <1>11, <2>1 DEF Failed, Terminal
<1>12. CASE Closed(c)
  <2>1. ~Opens(c)
    BY <1>12 DEF Closed, Opens
  <2> QED
    BY <1>1, <1>12, <2>1 DEF Closed, Terminal
<1>13. CASE Issue(c)
  BY <1>1, <1>13, TypedReturnFrom, TypedQuit DEF Issue, session
<1>14. CASE IssueRefused(c)
  <2>1. UNCHANGED <<status, method>> /\ Active(c)
        /\ (ToCleanUp(c) \/ Quit(c, "raised") \/ ReturnFrom(c, c))
    BY <1>14 DEF IssueRefused, session
  <2> QED
    BY <1>1, <2>1, ToCleanUpIs, TypedReturnFrom, TypedQuit
<1> QED
  BY <1>3, <1>4, <1>5, <1>6, <1>7, <1>8, <1>9, <1>10, <1>11, <1>12, <1>13, <1>14 DEF SessionStep

\* And a step on the process.
LEMMA ProcessMoves ==
    ASSUME Typed, NEW c \in Calls, OfProcess(ProcessStep(c))
    PROVE  /\ Active(c) /\ UNCHANGED <<method, status, terminal, result>>
           /\ \E step \in Steps \ {"idle"} : Goto(c, step)
<1>1. Active(c) /\ \E step \in Steps \ {"idle"} : Goto(c, step)
  BY SMTT(30) DEF OfProcess, ProcessStep, Prepare, CreateSuspended, AssignProcess, ResumeProcess,
     NumberRequest, WriteRequest, ReadReply, GiveUp, CloseControl, SnapshotBefore, TerminateJob,
     Verify, FailCleanUp, Conclude, Goto, At, Active, Steps
<1> QED
  BY <1>1 DEF OfProcess, session, answers

LEMMA OpeningStep == Typed /\ Opening /\ [Next]_vars => Opening'
<1> SUFFICES ASSUME Typed, Opening, [Next]_vars PROVE Opening'
  OBVIOUS
<1>1. ASSUME NEW c \in Calls, SessionStep(c) \/ OfProcess(ProcessStep(c)) PROVE Opening'
  <2>1. PICK step \in Steps \ {"idle"} : Goto(c, step)
    BY <1>1, SessionMoves, ProcessMoves
  <2>2. pc'[c] # "idle" /\ \A d \in Calls \ {c} : pc'[d] = pc[d]
    BY <2>1 DEF Goto, Typed, TypeOK
  <2> QED
    BY <1>1, <2>2, SessionMoves, ProcessMoves, OpeningCall
<1>2. ASSUME \/ UNCHANGED vars \/ OfProcess(Environment) \/ \E c \in Calls : Consume(c)
      PROVE  Opening'
  BY <1>2, OpeningUnchanged, SMTT(30) DEF vars, session, answers, OfProcess, Environment,
     Consume, TakeRequest,
     AnswerRequest, Spawn, Die, SplitReply
<1> QED
  BY <1>1, <1>2, OpeningBegin DEF Next

-----------------------------------------------------------------------------
(* Whose the processes are. *)

\* While the session is opened nothing else has happened yet.
LEMMA LaunchesAlone ==
    ASSUME WorkerInv, NEW c \in Calls, Launching(c)
    PROVE  /\ status = "opening" /\ sticky = {} /\ terminal = {}
           /\ \A d \in Calls \ {c} : At(d, "idle")
           /\ \A d \in Calls : evidence[d] = "none" /\ \A r \in result[d] : ~r.safe
<1>1. Opens(c) /\ Active(c)
  BY DEF WorkerInv, Typed, Exchanging, Launching, Active
<1>2. status = "opening" /\ sticky = {}
  BY <1>1 DEF WorkerInv, Opening, Held
<1>3. \A d \in Calls : At(d, "idle") \/ d = c
  BY <1>1, <1>2 DEF WorkerInv, Opening, HasSession
<1>4. terminal = {}
  BY <1>2 DEF WorkerInv, Owning
<1> QED
  BY <1>2, <1>3, <1>4 DEF WorkerInv, Held

\* Steps that leave the processes, their job and the pipes alone.
LEMMA OwningElsewhere ==
    ASSUME WorkerInv, NEW c \in Calls,
           UNCHANGED <<alive, suspended, member, job, killed, control, sticky>>,
           \A d \in Calls \ {c} :
             pc'[d] = pc[d] /\ evidence'[d] = evidence[d] /\ result'[d] = result[d],
           evidence'[c] \in {evidence[c], "none"},
           pc'[c] \notin {"assign", "resume", "launched", "snapshot", "kill", "verify", "cleaned"},
           pc'[c] \in {"prepare", "launch"} =>
             alive = {} /\ ~control /\ ~member /\ sticky = {},
           pc'[c] = "unlaunched" => Gone /\ sticky = {},
           Active(c)' /\ pc'[c] \notin {"prepare", "launch", "unlaunched"} => member,
           status' # "none", HasSession' => member, status' = "refused" => Gone,
           terminal' # {} => sticky # {}, terminal # {} => terminal' # {},
           \A r \in result'[c] : r.safe => Quiet /\ terminal' # {}
    PROVE  Owning' /\ \A d \in Calls : Held(d)'
<1>1. (Gone' <=> Gone) /\ (Quiet' <=> Quiet)
  BY DEF Gone, Quiet, Dying
<1>2. Owning'
  BY <1>1 DEF WorkerInv, Owning
<1>3. Held(c)'
  <2>1. Held(c)
    BY DEF WorkerInv
  <2> QED
    BY <1>1, <2>1 DEF Held, At, Launching, Cleaning, Active
<1>4. ASSUME NEW d \in Calls, d # c PROVE Held(d)'
  <2>1. Held(d)
    BY DEF WorkerInv
  <2> QED
    BY <1>1, <1>4, <2>1 DEF Held, At, Launching, Cleaning, Active
<1> QED
  BY <1>2, <1>3, <1>4

\* The three steps that create the worker.
LEMMA OwningLaunch ==
    ASSUME WorkerInv, NEW c \in Calls, OfProcess(CreateSuspended(c) \/ AssignProcess(c) \/ ResumeProcess(c))
    PROVE  Owning' /\ \A d \in Calls : Held(d)'
<1>1. Launching(c) /\ UNCHANGED <<sticky, evidence, status, terminal, result>>
      /\ \A d \in Calls \ {c} : pc'[d] = pc[d]
  BY SMTT(30) DEF OfProcess, CreateSuspended, AssignProcess, ResumeProcess, Launching, At, handle,
     session, answers, Goto, WorkerInv, Typed, TypeOK
<1>2. /\ status = "opening" /\ sticky = {} /\ terminal = {}
      /\ \A d \in Calls \ {c} : At(d, "idle")
      /\ \A d \in Calls : evidence[d] = "none" /\ \A r \in result[d] : ~r.safe
  BY <1>1, LaunchesAlone
<1>3. Held(c) /\ (member => job # "none") /\ (control => member)
  BY DEF WorkerInv, Owning
<1>4. /\ \/ pc'[c] \in {"assign", "resume", "launched"}
         \/ pc'[c] = "unlaunched" /\ Gone'
      /\ pc'[c] = "assign" => suspended' /\ ~member' /\ ~control' /\ job' # "none"
      /\ pc'[c] = "resume" => member' /\ ~control'
      /\ pc'[c] = "launched" => member'
      /\ member' => job' # "none"
      /\ control' => member'
  <2>1. CASE CreateSuspended(c)
    BY <1>3, <2>1, SMTT(30) DEF CreateSuspended, Goto, handle, Held, Gone, At, WorkerInv, Typed,
       TypeOK
  <2>2. CASE AssignProcess(c)
    <3>1. suspended /\ ~member /\ ~control /\ job # "none" /\ UNCHANGED <<alive, suspended, control>>
      BY <1>3, <2>2 DEF AssignProcess, Held, At, handle
    <3>2. CASE member' = TRUE /\ Goto(c, "resume") /\ UNCHANGED <<job, killed>>
      BY <3>1, <3>2 DEF Goto, WorkerInv, Typed, TypeOK
    <3>3. CASE job' \in {"closed", "lost"} /\ Goto(c, "unlaunched") /\ UNCHANGED member
      BY <3>1, <3>3 DEF Goto, Gone, WorkerInv, Typed, TypeOK
    <3> QED
      BY <2>2, <3>2, <3>3 DEF AssignProcess
  <2>3. CASE ResumeProcess(c)
    <3>1. member /\ ~control /\ job # "none" /\ UNCHANGED <<alive, member>>
      BY <1>3, <2>3 DEF ResumeProcess, Held, At
    <3>2. CASE Goto(c, "launched") /\ UNCHANGED <<job, killed>>
      BY <3>1, <3>2 DEF Goto, WorkerInv, Typed, TypeOK
    <3>3. CASE job' \in {"closed", "lost"} /\ Goto(c, "unlaunched") /\ UNCHANGED control
      BY <3>1, <3>3 DEF Goto, Gone, Dying, WorkerInv, Typed, TypeOK
    <3> QED
      BY <2>3, <3>2, <3>3 DEF ResumeProcess
  <2> QED
    BY <2>1, <2>2, <2>3 DEF OfProcess
<1>5. Owning'
  BY <1>1, <1>2, <1>4 DEF Owning, HasSession
<1>6. Held(c)'
  BY <1>1, <1>2, <1>4 DEF Held, At, Launching, Cleaning, Active
<1>7. ASSUME NEW d \in Calls, d # c PROVE Held(d)'
  BY <1>1, <1>2, <1>7 DEF Held, At, Launching, Cleaning, Active
<1> QED
  BY <1>5, <1>6, <1>7

\* The clean-up closes the pipes, terminates the job and looks at what is left.
LEMMA OwningCleanUp ==
    ASSUME WorkerInv, NEW c \in Calls,
           OfProcess(CloseControl(c) \/ SnapshotBefore(c) \/ TerminateJob(c) \/ Verify(c))
    PROVE  Owning' /\ \A d \in Calls : Held(d)'
<1> USE DEF At
<1>1. /\ pc[c] \in {"clean", "snapshot", "kill", "verify"}
      /\ UNCHANGED <<alive, suspended, member, status, terminal, result>>
      /\ \A d \in Calls \ {c} : pc'[d] = pc[d] /\ evidence'[d] = evidence[d]
  BY SMTT(30) DEF OfProcess, CloseControl, SnapshotBefore, TerminateJob, Verify, FailCleanUp,
     Conclude, windows, session, answers, Goto, WorkerInv, Typed, TypeOK, ProcessTypeOK
<1>2. member /\ job # "none" /\ (pc[c] # "clean" => ~control)
  BY <1>1 DEF WorkerInv, Owning, Held, Active, Cleaning
<1>3. \A d \in Calls : ~Launching(d)
  BY <1>1, LaunchesAlone DEF Launching
<1>4. /\ pc'[c] \in {"snapshot", "kill", "verify", "cleaned"} /\ ~control'
      /\ pc'[c] = "cleaned" => evidence'[c] # "none"
      /\ evidence'[c] # "none" => sticky' # {}
      /\ evidence'[c] = "proven" => Quiet'
      /\ "proven" \in sticky' => Quiet'
      /\ "none" \notin sticky'
      /\ sticky' # {} => job' \in {"closed", "lost"}
      /\ sticky # {} => sticky' # {}
      /\ job' = job \/ (job = "open" /\ job' \in {"closed", "lost"})
      /\ killed => killed'
  <2>1. evidence[c] # "none" => sticky # {}
    BY DEF WorkerInv, Held
  <2>2. evidence[c] = "proven" => Quiet
    BY DEF WorkerInv, Held
  <2>3. /\ sticky # {} => ~control /\ job \in {"closed", "lost"}
        /\ "proven" \in sticky => Quiet
        /\ "none" \notin sticky
    BY DEF WorkerInv, Owning
  <2>4. /\ pc \in [Calls -> Steps] /\ evidence \in [Calls -> Evidences] /\ sticky \subseteq Evidences
        /\ job \in {"none", "open", "closed", "lost"} /\ control \in BOOLEAN /\ killed \in BOOLEAN
    BY DEF WorkerInv, Typed, TypeOK, ProcessTypeOK
  <2>5. CASE CloseControl(c)
    <3>1. CASE sticky = {}
      BY <2>1, <2>4, <2>5, <3>1 DEF CloseControl, windows, Goto
    <3>2. CASE sticky # {}
      <4>1. PICK e \in sticky : evidence' = [evidence EXCEPT ![c] = e]
        BY <2>5, <3>2 DEF CloseControl
      <4>2. UNCHANGED <<control, alive, job, killed, sticky>> /\ pc'[c] = "cleaned" /\ evidence'[c] = e
        BY <2>4, <2>5, <3>2, <4>1 DEF CloseControl, windows, Goto
      <4> QED
        BY <2>3, <2>4, <3>2, <4>1, <4>2 DEF Quiet
    <3> QED
      BY <3>1, <3>2
  <2>6. CASE SnapshotBefore(c)
    <3>1. ~control /\ control' = control /\ alive' = alive /\ (killed => killed')
      BY <1>2, <2>4, <2>6 DEF SnapshotBefore, TryTerminate
    <3>2. CASE job = "open" /\ Goto(c, "kill") /\ UNCHANGED <<job, killed, sticky, evidence>>
      BY <2>1, <2>2, <2>3, <2>4, <3>1, <3>2 DEF Goto, Quiet
    <3>3. CASE FailCleanUp(c)
      BY <1>2, <2>4, <3>1, <3>3 DEF FailCleanUp, Conclude, CloseHandles, Goto, Quiet
    <3> QED
      BY <2>6, <3>2, <3>3 DEF SnapshotBefore
  <2>7. CASE TerminateJob(c)
    <3>1. ~control /\ control' = control /\ alive' = alive /\ (killed => killed')
      BY <1>2, <2>4, <2>7 DEF TerminateJob
    <3>2. CASE job = "open" /\ Goto(c, "verify") /\ UNCHANGED <<job, sticky, evidence>>
      BY <2>1, <2>2, <2>3, <2>4, <3>1, <3>2 DEF Goto, Quiet
    <3>3. CASE FailCleanUp(c)
      BY <1>2, <2>4, <3>1, <3>3 DEF FailCleanUp, Conclude, CloseHandles, Goto, Quiet
    <3> QED
      BY <2>7, <3>2, <3>3 DEF TerminateJob
  <2>8. CASE Verify(c)
    <3>1. ~control /\ control' = control /\ alive' = alive /\ killed' = killed
      BY <1>2, <2>4, <2>8 DEF Verify
    <3>2. CASE FailCleanUp(c)
      BY <1>2, <2>4, <3>1, <3>2 DEF FailCleanUp, Conclude, CloseHandles, Goto, Quiet
    <3>3. CASE TreeIsEmpty /\ CloseHandles /\ \E e \in {"proven", "failed"} : Conclude(c, e)
      BY <1>2, <2>4, <3>1, <3>3 DEF TreeIsEmpty, Conclude, CloseHandles, Goto, Quiet
    <3> QED
      BY <2>8, <3>2, <3>3 DEF Verify
  <2> QED
    BY <2>5, <2>6, <2>7, <2>8 DEF OfProcess
<1>5. Gone => Gone'
  BY <1>1, <1>4 DEF Gone, Dying
<1>6. Quiet => Quiet'
  BY <1>1, <1>4 DEF Quiet
<1>7. Owning'
  BY <1>1, <1>2, <1>4, <1>5 DEF WorkerInv, Owning, HasSession
<1>8. Held(c)'
  <2>1. Held(c)
    BY DEF WorkerInv
  <2> QED
    BY <1>1, <1>2, <1>4, <1>6, <2>1 DEF Held, Launching, Cleaning, Active
<1>9. ASSUME NEW d \in Calls, d # c PROVE Held(d)'
  <2>1. Held(d) /\ ~Launching(d)
    BY <1>3 DEF WorkerInv
  <2> QED
    BY <1>1, <1>2, <1>4, <1>6, <1>9, <2>1 DEF Held, Launching, Cleaning, Active
<1> QED
  BY <1>7, <1>8, <1>9

\* The steps of a call that leave the processes alone.
LEMMA OwningExchange ==
    ASSUME WorkerInv, NEW c \in Calls,
           OfProcess(\/ Prepare(c) \/ NumberRequest(c) \/ WriteRequest(c) \/ ReadReply(c) \/ GiveUp(c))
    PROVE  Owning' /\ \A d \in Calls : Held(d)'
<1> USE DEF At
<1>1. /\ UNCHANGED <<alive, suspended, member, job, killed, control, sticky, evidence,
                     status, terminal, result>>
      /\ \A d \in Calls \ {c} : pc'[d] = pc[d]
      /\ \/ pc[c] = "prepare" /\ pc'[c] \in {"launch", "unlaunched"}
         \/ /\ pc[c] \in {"send", "numbered", "waiting"}
            /\ pc'[c] \in {"numbered", "waiting", "answered", "unanswered"}
  BY SMTT(30) DEF OfProcess, Prepare, NumberRequest, WriteRequest, ReadReply, GiveUp, Goto,
     windows, handle, session, answers, WorkerInv, Typed, TypeOK
<1>2. Held(c) /\ Owning
  BY DEF WorkerInv
<1>3. /\ pc[c] = "prepare" => alive = {} /\ ~control /\ ~member /\ sticky = {}
      /\ pc[c] \in {"send", "numbered", "waiting"} => member
  BY <1>1, <1>2 DEF Held, Active, Launching
<1>4. /\ status # "none" /\ (HasSession => member) /\ (status = "refused" => Gone)
      /\ terminal # {} => sticky # {}
      /\ \A r \in result[c] : r.safe => Quiet /\ terminal # {}
  <2>1. status # "none"
    BY <1>1 DEF WorkerInv, Opening
  <2> QED
    BY <1>2, <2>1 DEF Owning, Held
<1>5. HasSession' <=> HasSession
  BY <1>1 DEF HasSession
<1>6. alive = {} => Gone
  BY DEF Gone
<1> QED
  BY <1>1, <1>3, <1>4, <1>5, <1>6, OwningElsewhere

\* What the processes do by themselves.
LEMMA OwningEnvironment ==
    ASSUME WorkerInv, OfProcess(Environment)
    PROVE  Owning' /\ \A d \in Calls : Held(d)'
<1>1. UNCHANGED <<suspended, member, job, killed, control, sticky, evidence, pc, status, terminal, result>>
  BY SMTT(30) DEF OfProcess, Environment, TakeRequest, AnswerRequest, Spawn, Die, SplitReply,
     windows, handle, session, answers
<1>2. (Gone => Gone') /\ (Quiet => Quiet') /\ (alive = {} => alive' = {})
  BY <1>1, SMTT(30) DEF OfProcess, Environment, TakeRequest, AnswerRequest, Spawn, Die, SplitReply,
     windows, handle, Gone, Quiet, Dying
<1>3. Owning'
  BY <1>1, <1>2 DEF WorkerInv, Owning, HasSession
<1>4. ASSUME NEW d \in Calls PROVE Held(d)'
  <2>1. Held(d)
    BY DEF WorkerInv
  <2> QED
    BY <1>1, <1>2, <2>1 DEF Held, At, Launching, Cleaning, Active
<1> QED
  BY <1>3, <1>4

LEMMA OwningUnchanged ==
    ASSUME WorkerInv,
           UNCHANGED <<alive, suspended, member, job, killed, control, sticky, evidence, pc, status,
                       terminal, result>>
    PROVE  Owning' /\ \A d \in Calls : Held(d)'
<1>1. (Gone' <=> Gone) /\ (Quiet' <=> Quiet)
  BY DEF Gone, Quiet, Dying
<1>2. Owning'
  BY <1>1 DEF WorkerInv, Owning, HasSession
<1>3. ASSUME NEW d \in Calls PROVE Held(d)'
  <2>1. Held(d)
    BY DEF WorkerInv
  <2> QED
    BY <1>1, <2>1 DEF Held, At, Launching, Cleaning, Active
<1> QED
  BY <1>2, <1>3

LEMMA OwningBegin ==
    ASSUME WorkerInv, NEW c \in Calls, NEW m \in Methods, Open(c, m) \/ Call(c, m)
    PROVE  Owning' /\ \A d \in Calls : Held(d)'
<1>1. /\ UNCHANGED <<alive, suspended, member, job, killed, control, sticky, terminal, result>>
      /\ \A d \in Calls \ {c} : pc'[d] = pc[d] /\ evidence'[d] = evidence[d]
      /\ evidence'[c] \in {evidence[c], "none"}
  BY SMTT(30) DEF Open, Call, Request, ReturnFrom, Quit, Goto, process, worker, windows, handle,
     session, WorkerInv, Typed, TypeOK, ProcessTypeOK
<1>2. Held(c) /\ Owning
  BY DEF WorkerInv
<1>3. /\ terminal # {} => sticky # {}
      /\ \A r \in result[c] : r.safe => Quiet /\ terminal # {}
  BY <1>2 DEF Owning, Held
<1>4. CASE Open(c, m)
  <2>1. pc'[c] = "prepare" /\ status = "none" /\ status' = "opening"
    BY <1>4 DEF Open, Goto, WorkerInv, Typed, TypeOK
  <2>2. alive = {} /\ ~control /\ ~member /\ sticky = {}
    BY <1>2, <2>1 DEF Owning
  <2>3. ~HasSession'
    BY <2>1 DEF HasSession
  <2> QED
    BY <1>1, <1>3, <2>1, <2>2, <2>3, OwningElsewhere
<1>5. CASE Call(c, m)
  <2>1. pc'[c] \in {"done", "mark", "send"} /\ HasSession /\ status' = status
    BY <1>5, SMTT(30) DEF Call, Request, ReturnFrom, Quit, Goto, session, HasSession,
       WorkerInv, Typed, TypeOK
  <2>2. member /\ status' # "none" /\ status' # "refused"
    BY <1>2, <2>1 DEF Owning, HasSession
  <2> QED
    BY <1>1, <1>3, <2>1, <2>2, OwningElsewhere
<1> QED
  BY <1>4, <1>5

\* A step on the session leaves the processes alone, and ends, asks, issues or
\* comes to the clean-up.
LEMMA SessionKeeps ==
    ASSUME Typed, NEW c \in Calls, SessionStep(c)
    PROVE  /\ UNCHANGED <<alive, suspended, member, job, killed, control, sticky>>
           /\ \A d \in Calls \ {c} : /\ pc'[d] = pc[d] /\ evidence'[d] = evidence[d]
                                     /\ result'[d] = result[d]
           /\ evidence'[c] \in {evidence[c], "none"}
           /\ pc'[c] \in {"clean", "send", "issue", "done", "raised"}
           /\ pc[c] \notin {"prepare", "launch", "assign", "resume", "snapshot", "kill", "verify"}
<1>1. /\ pc \in [Calls -> Steps] /\ evidence \in [Calls -> Evidences]
      /\ result \in [Calls -> SUBSET Results]
  BY DEF Typed, TypeOK, ProcessTypeOK
<1>2. UNCHANGED <<alive, suspended, member, job, killed, control, sticky>>
  BY DEF SessionStep, Launched, Unlaunched, RefuseRequest, MarkCancelled, Unanswered, Attested,
     Opened, Completed, Interrupted, Rejected, OpenFailed, Failed, Closed, Issue, IssueRefused,
     process, worker, windows, handle
<1>3. /\ \A d \in Calls \ {c} : result'[d] = result[d]
      /\ pc[c] \notin {"prepare", "launch", "assign", "resume", "snapshot", "kill", "verify"}
  BY <1>1 DEF SessionStep, Launched, Unlaunched, RefuseRequest, MarkCancelled, Unanswered, Attested,
     Opened, Completed, Interrupted, Rejected, OpenFailed, Failed, Closed, Issue, IssueRefused,
     Terminal, answers, At
<1>4. \/ \E step \in {"done", "raised"} : Quit(c, step)
      \/ ToCleanUp(c)
      \/ \E step \in {"send", "issue", "clean"} : Goto(c, step) /\ evidence' = evidence
  BY DEF SessionStep, Launched, Unlaunched, RefuseRequest, MarkCancelled, Unanswered, Attested,
     Opened, Completed, Interrupted, Rejected, OpenFailed, Failed, Closed, Issue, IssueRefused,
     Terminal, Request, ReturnFrom, process
<1>5. /\ \A d \in Calls \ {c} : pc'[d] = pc[d] /\ evidence'[d] = evidence[d]
      /\ evidence'[c] \in {evidence[c], "none"}
      /\ pc'[c] \in {"clean", "send", "issue", "done", "raised"}
  BY <1>1, <1>4, TypedQuit, ToCleanUpIs DEF Goto
<1> QED
  BY <1>2, <1>3, <1>5

LEMMA OwningSession ==
    ASSUME WorkerInv, NEW c \in Calls, SessionStep(c)
    PROVE  Owning' /\ \A d \in Calls : Held(d)'
<1>1. /\ UNCHANGED <<alive, suspended, member, job, killed, control, sticky>>
      /\ \A d \in Calls \ {c} : /\ pc'[d] = pc[d] /\ evidence'[d] = evidence[d]
                                /\ result'[d] = result[d]
      /\ evidence'[c] \in {evidence[c], "none"}
      /\ pc'[c] \in {"clean", "send", "issue", "done", "raised"}
      /\ pc[c] \notin {"prepare", "launch", "assign", "resume", "snapshot", "kill", "verify"}
  BY SessionKeeps DEF WorkerInv
<1>2. Active(c) /\ Held(c) /\ Owning /\ status # "none"
  BY SessionMoves DEF WorkerInv, Opening, Active, At
<1>3. ~At(c, "unlaunched") => member
  BY <1>1, <1>2 DEF Held, At
<1>4. At(c, "cleaned") => sticky # {} /\ Gone
  <2>1. At(c, "cleaned") => sticky # {}
    BY <1>2 DEF Held
  <2> QED
    BY <1>2, <2>1 DEF Owning, Gone, Dying
<1>5. /\ At(c, "unlaunched") => status' = "refused" /\ Gone /\ pc'[c] = "raised"
      /\ status' = "refused" => status = "refused" \/ At(c, "unlaunched") \/ At(c, "cleaned")
      /\ status' # "none"
  <2>1. At(c, "unlaunched") => Unlaunched(c)
    BY DEF SessionStep, Launched, Unlaunched, RefuseRequest, MarkCancelled, Unanswered, Attested,
       Opened, Completed, Interrupted, Rejected, OpenFailed, Failed, Closed, Issue, IssueRefused, At
  <2>2. Unlaunched(c) => status' = "refused" /\ Gone /\ pc'[c] = "raised"
    BY <1>2 DEF Unlaunched, Quit, Goto, Held, WorkerInv, Typed, TypeOK
  <2>3. status' = "refused" => status = "refused" \/ At(c, "unlaunched") \/ At(c, "cleaned")
    BY DEF SessionStep, Launched, Unlaunched, RefuseRequest, MarkCancelled, Unanswered, Attested,
       Opened, Completed, Interrupted, Rejected, OpenFailed, Failed, Closed, Issue, IssueRefused,
       Terminal, session, process
  <2>4. status' # "none"
    BY <1>2, SessionMoves DEF WorkerInv
  <2> QED
    BY <2>1, <2>2, <2>3, <2>4
<1>6. /\ terminal' # {} => sticky # {}
      /\ terminal # {} => terminal' # {}
      /\ \A r \in result'[c] : r.safe => Quiet /\ terminal' # {}
  <2>1. terminal # {} => sticky # {}
    BY <1>2 DEF Owning
  <2>2. \A r \in result[c] : r.safe => Quiet /\ terminal # {}
    BY <1>2 DEF Held
  <2>3. result \in [Calls -> SUBSET Results]
    BY DEF WorkerInv, Typed, TypeOK
  <2>4. CASE UNCHANGED <<terminal, result>>
    BY <2>1, <2>2, <2>4
  <2>5. CASE Completed(c)
    BY <2>1, <2>3, <2>5 DEF Completed
  <2>6. CASE Failed(c)
    <3>1. PICK s : Terminal(c, s, Ended(s)) /\ At(c, "cleaned")
      BY <2>6 DEF Failed
    <3> QED
      BY <1>4, <2>3, <3>1 DEF Terminal, Ended
  <2>7. CASE Closed(c)
    <3>1. At(c, "cleaned") /\ terminal' = {c}
      BY <2>7 DEF Closed, Terminal
    <3>2. CASE ProvenClosed(c)
      <4>1. Quiet
        BY <1>2, <3>2 DEF ProvenClosed, Held
      <4> QED
        BY <1>4, <3>1, <4>1
    <3>3. CASE ~ProvenClosed(c)
      BY <1>4, <2>3, <2>7, <3>1, <3>3 DEF Closed, Terminal, Ended
    <3> QED
      BY <3>2, <3>3
  <2> QED
    BY <2>4, <2>5, <2>6, <2>7 DEF SessionStep, Launched, Unlaunched, RefuseRequest, MarkCancelled,
       Unanswered, Attested, Opened, Interrupted, Rejected, OpenFailed, Issue, IssueRefused,
       session, answers
<1>7. Active(c)' => member
  BY <1>3, <1>5 DEF Active
<1>8. status' = "refused" => Gone
  BY <1>2, <1>4, <1>5 DEF Owning
<1>9. HasSession' => member
  BY <1>3, <1>5 DEF HasSession
<1> QED
  BY <1>1, <1>5, <1>6, <1>7, <1>8, <1>9, OwningElsewhere

LEMMA WorkerStep == WorkerInv /\ [Next]_vars => WorkerInv'
<1> SUFFICES ASSUME WorkerInv, [Next]_vars PROVE WorkerInv'
  OBVIOUS
<1>1. Typed' /\ Opening'
  BY TypedStep, OpeningStep DEF WorkerInv
<1>2. Owning' /\ \A d \in Calls : Held(d)'
  <2>1. CASE UNCHANGED vars
    BY <2>1, OwningUnchanged DEF vars, process, worker, windows, handle, session, answers
  <2>2. ASSUME NEW c \in Calls, Consume(c) PROVE Owning' /\ \A d \in Calls : Held(d)'
    BY <2>2, OwningUnchanged DEF Consume, process, worker, windows, handle, session, answers
  <2>3. ASSUME NEW c \in Calls, OfProcess(ProcessStep(c))
        PROVE  Owning' /\ \A d \in Calls : Held(d)'
    BY <2>3, OwningLaunch, OwningCleanUp, OwningExchange DEF OfProcess, ProcessStep
  <2> QED
    BY <2>1, <2>2, <2>3, OwningEnvironment, OwningSession, OwningBegin DEF Next
<1> QED
  BY <1>1, <1>2 DEF WorkerInv

LEMMA InitWorker == Init => WorkerInv
<1> SUFFICES ASSUME Init PROVE WorkerInv
  OBVIOUS
<1>1. Opening
  BY DEF Init, ProcessInit, Opening, HasSession, At, Opens, Active
<1>2. Owning
  BY DEF Init, ProcessInit, Owning, HasSession
<1>3. \A c \in Calls : Held(c)
  BY DEF Init, ProcessInit, Held, At, Launching, Cleaning, Active
<1> QED
  BY <1>1, <1>2, <1>3, InitTyped DEF WorkerInv

LEMMA AlwaysWorkerInv == Spec => []WorkerInv
BY InitWorker, WorkerStep, PTL DEF Spec

\* However calls, their deadlines and the failures of Windows interleave: a
\* result that says it may be promoted is one of a worker that is gone, with
\* every process it started.
THEOREM PromotionIsOfTheDead == Spec => []PromotionIsProven
<1>1. WorkerInv => PromotionIsProven
  BY DEF WorkerInv, Held, Quiet, PromotionIsProven
<1> QED
  BY <1>1, AlwaysWorkerInv, PTL

\* Once the session is over, or could not be opened, its processes are gone or
\* dying, unless Windows refused both to terminate the job and to close it.
THEOREM NoProcessIsForgotten == Spec => []ProcessIsOwned
<1>1. WorkerInv => ProcessIsOwned
  <2> SUFFICES ASSUME WorkerInv PROVE ProcessIsOwned
    OBVIOUS
  <2>1. TypeOK
    BY DEF WorkerInv, Typed
  <2>2. NothingRunsUnowned
    BY DEF WorkerInv, Owning, NothingRunsUnowned, Over, Gone, Dying
  <2> QED
    BY <2>1, <2>2 DEF ProcessIsOwned
<1> QED
  BY <1>1, AlwaysWorkerInv, PTL

\* No step but the writing of a request makes the pipe to the worker longer.
LEMMA RequestsShrink ==
    ASSUME Typed, [Next]_vars, ~ \E c \in Calls : OfProcess(WriteRequest(c))
    PROVE  Len(requests') <= Len(requests)
<1>1. requests \in Seq(Requests) /\ Len(requests) \in Nat
  BY DEF Typed, TypeOK, ProcessTypeOK
<1>2. \/ requests' = requests
      \/ requests' = << >>
      \/ requests # << >> /\ requests' = Tail(requests)
  <2>1. ASSUME NEW c \in Calls, SessionStep(c) PROVE requests' = requests
    BY <2>1 DEF SessionStep, Launched, Unlaunched, RefuseRequest, MarkCancelled, Unanswered,
       Attested, Opened, Completed, Interrupted, Rejected, OpenFailed, Failed, Closed, Issue,
       IssueRefused, process, worker, pipes
  <2>2. ASSUME NEW c \in Calls, NEW m \in Methods, Open(c, m) \/ Call(c, m)
        PROVE  requests' = requests
    BY <2>2 DEF Open, Call, process, worker, pipes
  <2>3. ASSUME NEW c \in Calls, ProcessStep(c), ~WriteRequest(c)
        PROVE  requests' = requests \/ requests' = << >>
    BY <2>3 DEF ProcessStep, Prepare, CreateSuspended, AssignProcess, ResumeProcess, NumberRequest,
       ReadReply, GiveUp, CloseControl, SnapshotBefore, TerminateJob, Verify, pipes
  <2>4. ASSUME Environment
        PROVE  requests' = requests \/ (requests # << >> /\ requests' = Tail(requests))
    BY <2>4 DEF Environment, TakeRequest, AnswerRequest, Spawn, Die, SplitReply, pipes
  <2>5. ASSUME UNCHANGED vars \/ \E c \in Calls : Consume(c) PROVE requests' = requests
    BY <2>5 DEF Consume, vars, process, worker, pipes
  <2> QED
    BY <2>1, <2>2, <2>3, <2>4, <2>5 DEF Next, OfProcess
<1>3. Len(<< >>) = 0
  OBVIOUS
<1>4. ASSUME requests # << >> PROVE Len(Tail(requests)) <= Len(requests)
  BY <1>1, <1>4
<1> QED
  BY <1>1, <1>2, <1>3, <1>4

\* After the first terminal result nothing more is requested of the worker, by
\* whatever call is still on its way.
THEOREM NothingIsRequestedAfterTheEnd == Spec => RequestsStopAtTheEnd
<1>1. WorkerInv /\ [Next]_vars =>
        [terminal # {} => Len(requests') <= Len(requests)]_vars
  <2> SUFFICES ASSUME WorkerInv, [Next]_vars, terminal # {}
               PROVE  Len(requests') <= Len(requests)
    OBVIOUS
  <2>1. ~control
    BY DEF WorkerInv, Owning
  <2>2. ~ \E c \in Calls : OfProcess(WriteRequest(c))
    BY <2>1 DEF OfProcess, WriteRequest
  <2> QED
    BY <2>2, RequestsShrink DEF WorkerInv
<1> QED
  BY <1>1, AlwaysWorkerInv, PTL DEF Spec, RequestsStopAtTheEnd

-----------------------------------------------------------------------------
(* The ledger. *)

\* Steps that issue and use nothing: what was issued is of calls that are over.
LEMMA LedgerElsewhere ==
    ASSUME Typed, LedgerInv, UNCHANGED <<tuples, eligible, consumed, uses>>,
           \A d \in Calls : At(d, "done") =>
             pc'[d] = "done" /\ result'[d] = result[d] /\ method'[d] = method[d]
    PROVE  LedgerInv'
<1>1. eligible \subseteq Calls
  BY DEF Typed, TypeOK
<1>2. ASSUME NEW d \in eligible
      PROVE  Issued(d)' /\ TupleOf(d)' = TupleOf(d)
  <2>1. Issued(d) /\ d \in Calls
    BY <1>1, <1>2 DEF LedgerInv
  <2>2. pc'[d] = "done" /\ result'[d] = result[d] /\ method'[d] = method[d]
    BY <2>1 DEF Issued
  <2>3. TupleOf(d)' = TupleOf(d)
    BY <2>2 DEF TupleOf
  <2>4. Eligible(d)' <=> Eligible(d)
    BY <2>2 DEF Eligible
  <2> QED
    BY <2>1, <2>2, <2>3, <2>4 DEF Issued, At
<1>3. \A c, d \in eligible : c # d => TupleOf(c)' # TupleOf(d)'
  BY <1>2 DEF LedgerInv
<1> QED
  BY <1>2, <1>3 DEF LedgerInv

LEMMA LedgerIssue ==
    ASSUME Typed, LedgerInv, NEW c \in Calls, Issue(c)
    PROVE  LedgerInv'
<1>1. /\ pc'[c] = "done" /\ At(c, "issue") /\ \A d \in Calls \ {c} : pc'[d] = pc[d]
      /\ UNCHANGED <<method, result, consumed, uses>> /\ tuples' = tuples \cup {TupleOf(c)}
      /\ eligible' = IF Issuable(c) THEN eligible \cup {c} ELSE eligible
  BY DEF Issue, ReturnFrom, Quit, Goto, Typed, TypeOK
<1>2. \A d \in Calls : (Eligible(d)' <=> Eligible(d)) /\ TupleOf(d)' = TupleOf(d)
  BY <1>1 DEF Eligible, TupleOf
<1>3. eligible \subseteq Calls
  BY DEF Typed, TypeOK
<1>4. \A d \in eligible : d # c /\ Issued(d)
  BY <1>1 DEF LedgerInv, Issued, At
<1>5. \A d \in eligible' : Issued(d)'
  BY <1>1, <1>2, <1>3, <1>4 DEF Issued, At, Issuable
<1>6. \A a, b \in eligible' : a # b => TupleOf(a)' # TupleOf(b)'
  <2>1. \A d \in eligible : TupleOf(d) \in tuples
    BY <1>4 DEF Issued
  <2> QED
    BY <1>1, <1>2, <1>3, <2>1 DEF LedgerInv, Issuable
<1> QED
  BY <1>1, <1>5, <1>6 DEF LedgerInv

LEMMA LedgerStep == Typed /\ LedgerInv /\ [Next]_vars => LedgerInv'
<1> SUFFICES ASSUME Typed, LedgerInv, [Next]_vars PROVE LedgerInv'
  OBVIOUS
<1>1. /\ pc \in [Calls -> Steps] /\ result \in [Calls -> SUBSET Results]
      /\ method \in [Calls -> Methods \cup {"none"}] /\ uses \in [Calls -> 0..2]
  BY DEF Typed, TypeOK
<1>2. ASSUME NEW c \in Calls, SessionStep(c), ~Issue(c) PROVE LedgerInv'
  <2>1. UNCHANGED <<tuples, eligible, consumed, uses>>
    BY <1>2 DEF SessionStep, Launched, Unlaunched, RefuseRequest, MarkCancelled, Unanswered,
       Attested, Opened, Completed, Interrupted, Rejected, OpenFailed, Failed, Closed,
       IssueRefused, ledger
  <2>2. \A d \in Calls : At(d, "done") =>
          pc'[d] = "done" /\ result'[d] = result[d] /\ method'[d] = method[d]
    BY <1>2, SessionKeeps, SessionMoves DEF At, Active
  <2> QED
    BY <2>1, <2>2, LedgerElsewhere
<1>3. ASSUME NEW c \in Calls, OfProcess(ProcessStep(c)) PROVE LedgerInv'
  <2>1. UNCHANGED <<tuples, eligible, consumed, uses, result, method>>
    BY <1>3 DEF OfProcess, answers, ledger
  <2>2. \A d \in Calls : At(d, "done") => pc'[d] = "done"
    BY <1>1, <1>3, ProcessMoves DEF At, Active, Goto
  <2> QED
    BY <2>1, <2>2, LedgerElsewhere
<1>4. ASSUME OfProcess(Environment) \/ UNCHANGED vars PROVE LedgerInv'
  <2>1. UNCHANGED <<tuples, eligible, consumed, uses, result, method, pc>>
    BY <1>4, SMTT(30) DEF OfProcess, Environment, TakeRequest, AnswerRequest, Spawn, Die,
       SplitReply,
       answers, ledger, vars
  <2> QED
    BY <2>1, LedgerElsewhere DEF At
<1>5. ASSUME NEW c \in Calls, NEW m \in Methods, Open(c, m) \/ Call(c, m) PROVE LedgerInv'
  <2>1. /\ UNCHANGED <<tuples, eligible, consumed, uses, result>> /\ At(c, "idle")
        /\ \A d \in Calls \ {c} : pc'[d] = pc[d] /\ method'[d] = method[d]
    BY <1>1, <1>5, SMTT(30) DEF Open, Call, Begin, Request, ReturnFrom, Quit, Goto, ledger
  <2> QED
    BY <2>1, LedgerElsewhere DEF At
<1>6. ASSUME NEW c \in Calls, Consume(c) PROVE LedgerInv'
  <2>1. UNCHANGED <<pc, method, result, tuples, eligible>> /\ c \in eligible /\ c \notin consumed
    BY <1>6 DEF Consume, Usable, answers
  <2>2. consumed' = consumed \cup {c} /\ \A d \in Calls : uses'[d] = IF d = c THEN uses[c] + 1 ELSE uses[d]
    BY <1>1, <1>6 DEF Consume
  <2>3. \A d \in Calls : (Issued(d)' <=> Issued(d)) /\ TupleOf(d)' = TupleOf(d)
    BY <2>1 DEF Issued, At, Eligible, TupleOf
  <2>4. eligible \subseteq Calls /\ uses[c] = 0
    BY <2>1 DEF LedgerInv, Typed, TypeOK
  <2> QED
    BY <2>1, <2>2, <2>3, <2>4 DEF LedgerInv
<1> QED
  BY <1>2, <1>3, <1>4, <1>5, <1>6, LedgerIssue DEF Next

\* Whatever is issued, refused and claimed again: a result is used once, and so
\* is its operation and turn.
THEOREM ResultsAreUsedOnce == Spec => []OncePerTuple
<1>1. Init => LedgerInv
  BY DEF Init, LedgerInv
<1>2. Typed /\ LedgerInv => OncePerTuple
  <2> SUFFICES ASSUME Typed, LedgerInv, NEW c \in Calls, uses[c] > 0
               PROVE  /\ uses[c] = 1 /\ Eligible(c)
                      /\ \A d \in Calls \ {c} : uses[d] > 0 => TupleOf(c) # TupleOf(d)
    BY DEF OncePerTuple
  <2>1. \A d \in Calls : uses[d] > 0 => d \in eligible /\ uses[d] = 1
    BY DEF LedgerInv
  <2> QED
    BY <2>1 DEF LedgerInv, Issued
<1> QED
  BY <1>1, <1>2, InitTyped, TypedStep, LedgerStep, PTL DEF Spec
-----------------------------------------------------------------------------
(***************************************************************************)
(* The staged runs of the command line (StagedRun).                        *)
(*                                                                         *)
(* The invariants: what every variable may hold (StagedTyped); no stage is *)
(* built on an estimated scale (CandidateInv); the DXF of a page names     *)
(* commands that have built it (BuiltInv); records never pair a DXF with   *)
(* the evidence of another (EvidenceInv); what is recorded was made from   *)
(* what is recorded (DerivedInv); and what a command that met nobody has   *)
(* of the pages it passed (CalmInv).                                       *)
(***************************************************************************)

\* What the content of a file is made of.
StagedMarks ==
    Staged!Sources \cup {"partial", "edited render", "edited primitives", "edited semantics",
                  "edited dxf", "edited evidence", "edited listing"}
StagedBounds == LastPage \in Nat \ {0} /\ Commands \cap StagedMarks = {}

PageContents == SUBSET (StagedMarks \cup Commands)
PageFiles == {{}} \cup {{x} : x \in PageContents}
RunManifests == [of : Staged!Sources \cup {"none"}, mode : {"manual", "candidate"}, render : PageFiles,
                 page : [Staged!Pages -> [Staged!Stages -> PageFiles]]]
StagedSteps ==
    {"save new", "verify", "render", "record render", "validate", "candidate", "record candidate",
     "primitive", "regenerate", "record primitive", "semantic", "record semantic", "reset dxf",
     "dxf", "evidence", "record dxf", "record evidence"}

DataTyped ==
    /\ kind \in {"image", "pdf"} /\ source \in Staged!Sources
    /\ disk \in [Staged!Pages -> [Staged!Stages -> PageFiles]] /\ listing \in PageFiles
    /\ manifest = {} \/ \E m \in RunManifests : manifest = {m}
    /\ \A m \in manifest : m.mode = "candidate" => kind = "pdf"
    /\ raced \subseteq Staged!Pages /\ met \in BOOLEAN /\ cut \in BOOLEAN

\* Steps only a document run takes, and the step of the first page.
DocumentSteps == {"render", "record render", "validate", "candidate", "record candidate",
                  "regenerate", "reset dxf", "record evidence"}
FirstSteps == {"save new", "verify", "render", "record render", "validate", "candidate", "record candidate"}

ControlTyped ==
    /\ sPc \in [Commands -> StagedSteps \cup Staged!Resting]
    /\ copy \in [Commands -> RunManifests]
    /\ at \in [Commands -> Staged!Pages]
    /\ calm \subseteq Commands
    /\ \A c \in Commands :
         /\ sPc[c] \in Staged!Resting => copy[c] = Staged!NoRun /\ c \in calm
         /\ sPc[c] \in Staged!Resting \cup FirstSteps \/ kind = "image" => at[c] = 1
         /\ sPc[c] \in DocumentSteps \/ copy[c].mode = "candidate" => kind = "pdf"

StagedTyped == DataTyped /\ ControlTyped

-----------------------------------------------------------------------------
\* A manifest of estimates holds nothing built on them.
HonestCandidate(m) ==
    m.mode = "candidate" =>
      \A p \in Staged!Pages : /\ m.page[p]["semantic"] = {} /\ m.page[p]["dxf"] = {} /\ m.page[p]["evidence"] = {}
                              /\ m.page[p]["rendered"] = m.page[p]["primitive"]

EstimateSteps == {"candidate", "record candidate"}

CandidateInv ==
    /\ \A m \in manifest : HonestCandidate(m)
    /\ \A c \in Commands :
         /\ HonestCandidate(copy[c])
         /\ sPc[c] \in EstimateSteps => copy[c].mode = "candidate"
         /\ sPc[c] \in StagedSteps \ (EstimateSteps \cup {"save new", "verify"}) => copy[c].mode = "manual"

-----------------------------------------------------------------------------
\* The command has built the DXF of the page.
Built(c, p) ==
    \/ sPc[c] \in {"done", "failed", "killed"}
    \/ at[c] > p
    \/ at[c] = p /\ sPc[c] \in Staged!Building

\* Those of a content, of file k of page p, have built the page
Known(F, p) == \A x \in F : \A c \in x \cap Commands : Built(c, p)
Plain(F) == \A x \in F : x \cap Commands = {}

BuiltInv ==
    /\ \A p \in Staged!Pages : Plain(disk[p]["primitive"]) /\ Plain(disk[p]["semantic"])
    /\ \A p \in Staged!Pages, k \in {"dxf", "evidence"} :
         /\ Known(disk[p][k], p)
         /\ \A m \in manifest : Known(m.page[p][k], p)
         /\ \A c \in Commands : Known(copy[c].page[p][k], p)

Apart(f) ==
    /\ f["dxf"] # {} /\ f["evidence"] # {}
    /\ f["dxf"] # {Staged!Edited("dxf")} /\ f["evidence"] # {Staged!Edited("evidence")} /\ f["dxf"] # f["evidence"]

\* A page's records r do not pass evidence of another DXF, with the files f.
Binds(r, f) ==
    r["dxf"] # {Staged!Partial} /\ ~(r["dxf"] = f["dxf"] /\ r["evidence"] = f["evidence"] /\ Apart(f))

BuildsAlone(p) ==
    \A c, d \in Commands : at[c] = p /\ at[d] = p /\ sPc[c] \in Staged!Building /\ sPc[d] \in Staged!Building => c = d
BuiltTogether(p) ==
    \A c \in Commands : at[c] = p /\ sPc[c] \in Staged!Building =>
        /\ disk[p]["dxf"] # {Staged!Partial}
        /\ sPc[c] # "evidence" => ~Apart(disk[p])

EvidenceInv ==
    kind = "pdf" =>
      \A p \in Staged!Pages \ raced :
        /\ \A m \in manifest : Binds(m.page[p], disk[p])
        /\ \A c \in Commands : Binds(copy[c].page[p], disk[p])
        /\ BuildsAlone(p) /\ BuiltTogether(p)

-----------------------------------------------------------------------------
\* The record of the stage is, or may become again by hand, that of the file.
Fits(r, f, k) == r[k] # {} /\ (r[k] = f[k] \/ r[k] = {Staged!Edited(k)})
Near(r, f, k) == f[k] \in {r[k], {}, {Staged!Edited(k)}}

MadeOf(dxf, semantic, primitive) ==
    \A d \in dxf, s \in semantic, i \in primitive : d \ Commands = s \cup i

SameSource(r) ==
    \/ r["rendered"] = {} \/ r["primitive"] = {}
    \/ r["rendered"] = {Staged!Edited("rendered")} \/ r["primitive"] = {Staged!Edited("primitive")}
    \/ r["rendered"] = r["primitive"]

FromPrimitive(r, f) ==
    Fits(r, f, "primitive") => r["semantic"] \in {{}, {Staged!Edited("semantic")}, r["primitive"]}

FromBoth(r, f) ==
    Fits(r, f, "primitive") /\ Fits(r, f, "semantic") =>
        r["dxf"] = {Staged!Edited("dxf")} \/ MadeOf(r["dxf"], r["semantic"], r["primitive"])

\* Between a render or a semantics and the write that forgets what was made
\* from the old one.
Rerendering == \E c \in Commands : sPc[c] = "record render"
Remaking(p) == \E c \in Commands : at[c] = p /\ sPc[c] \in {"record semantic", "reset dxf"}

Derived(m) ==
    \A p \in Staged!Pages :
      /\ SameSource(m.page[p]) /\ m.page[p]["semantic"] # {Staged!Partial}
      /\ Rerendering \/ FromPrimitive(m.page[p], disk[p])
      /\ Rerendering \/ Remaking(p) \/ FromBoth(m.page[p], disk[p])

Manifested == \A c \in Staged!Alive : sPc[c] = "save new" \/ manifest = {copy[c]}

AfterPrimitive == {"semantic", "record semantic", "reset dxf", "dxf"}

\* What a document command at step s knows of the records and files of its page.
Working(s, r, f) ==
    /\ s \in {"regenerate", "record primitive"} =>
         r["primitive"] = {} /\ r["semantic"] = {} /\ r["dxf"] = {}
    /\ s = "record primitive" => f["primitive"] \in {{}, {Staged!Edited("primitive")}, r["rendered"]}
    /\ s \in AfterPrimitive => Near(r, f, "primitive")
    /\ s \in {"reset dxf", "dxf"} => Near(r, f, "semantic")
    /\ s = "record semantic" =>
         /\ f["semantic"] # {Staged!Partial}
         /\ f["semantic"] \in {{}, {Staged!Edited("semantic")}, r["primitive"]} \/ ~Fits(r, f, "primitive")
         /\ \/ r["semantic"] # {Staged!Edited("semantic")} \/ ~Fits(r, f, "primitive")
            \/ r["dxf"] = {Staged!Edited("dxf")} \/ MadeOf(r["dxf"], r["semantic"], r["primitive"])
    /\ s \in Staged!Building =>
         \/ f["dxf"] = {Staged!Edited("dxf")}
         \/ ~Fits(r, f, "primitive") \/ ~Fits(r, f, "semantic")
         \/ MadeOf(f["dxf"], r["semantic"], r["primitive"])

AtWork(c) ==
    /\ sPc[c] = "save new" => \A p \in Staged!Pages, k \in Staged!Stages : copy[c].page[p][k] = {}
    /\ sPc[c] = "record render" => \A p \in Staged!Pages : SameSource(disk[p])
    /\ Working(sPc[c], copy[c].page[at[c]], disk[at[c]])

DerivedInv ==
    ~met =>
      /\ Staged!AtMostOne(Staged!Alive)
      /\ Manifested
      /\ kind = "pdf" /\ ~cut =>
           /\ \A m \in manifest : Derived(m)
           /\ \A c \in Staged!Alive : AtWork(c)

-----------------------------------------------------------------------------
\* The steps at a page.
AfterRender == StagedSteps \ FirstSteps
Has(r, f, k) == Staged!Complete(r[k], f[k])

\* What a command that met nobody has of the page at work, at step s.
Ready(s, r, f) ==
    /\ s \in AfterPrimitive \cup Staged!Building => Has(r, f, "primitive")
    /\ s \in {"reset dxf", "dxf"} \cup Staged!Building => Has(r, f, "semantic")
    /\ s = "record primitive" => f["primitive"] # {}
    /\ s = "record semantic" => f["semantic"] # {}
    /\ s \in Staged!Building => f["dxf"] # {}
    /\ s \in {"record dxf", "record evidence"} => f["evidence"] # {}
    /\ s = "record evidence" => Has(r, f, "dxf")

CalmCommand(c) ==
    /\ sPc[c] # "save new" => manifest = {copy[c]}
    /\ kind = "pdf" /\ sPc[c] = "record render" => listing # {}
    /\ kind = "pdf" /\ sPc[c] = "validate" => copy[c].render # {}
    /\ kind = "pdf" /\ sPc[c] \in AfterRender => \A p \in Staged!Pages : Has(copy[c].page[p], disk[p], "rendered")
    /\ \A p \in Staged!Pages : p < at[c] => \A k \in Staged!Needed : Has(copy[c].page[p], disk[p], k)
    /\ Ready(sPc[c], copy[c].page[at[c]], disk[at[c]])

CalmInv == \A c \in calm \cap Staged!Alive : Staged!Alive = {c} /\ CalmCommand(c)

-----------------------------------------------------------------------------
(* The names, and what the operators on records and files give. *)

LEMMA StageNames ==
    /\ Staged!Stages = {"rendered", "primitive", "semantic", "dxf", "evidence"}
    /\ Staged!Edited("rendered") = {"edited render"} /\ Staged!Edited("primitive") = {"edited primitives"}
    /\ Staged!Edited("semantic") = {"edited semantics"} /\ Staged!Edited("dxf") = {"edited dxf"}
    /\ Staged!Edited("evidence") = {"edited evidence"}
BY DEF Staged!Stages, Staged!Edited

\* What is written by hand, extracted or left in part is the content of a file,
\* and no command is named in it.
LEMMA MarksArePlain ==
    ASSUME StagedBounds
    PROVE  /\ \A k \in Staged!Stages : /\ Staged!Edited(k) \in PageContents /\ Staged!Edited(k) \cap Commands = {}
                                       /\ Staged!Edited(k) # Staged!Partial /\ {Staged!Edited(k)} \in PageFiles
           /\ \A s \in Staged!Sources : {s} \in PageContents /\ {s} \cap Commands = {} /\ {{s}} \in PageFiles
                                 /\ {s} # Staged!Partial
           /\ Staged!Partial \in PageContents /\ Staged!Partial \cap Commands = {} /\ {Staged!Partial} \in PageFiles
           /\ {} \in PageFiles /\ {{"edited listing"}} \in PageFiles
<1>1. \A x \in StagedMarks : {x} \in PageContents /\ {x} \cap Commands = {} /\ {{x}} \in PageFiles
  BY DEF StagedBounds, PageContents, PageFiles
<1>2. \A k \in Staged!Stages : \E x \in StagedMarks \ {"partial"} : Staged!Edited(k) = {x}
  BY StageNames DEF StagedMarks
<1>3. Staged!Sources \subseteq StagedMarks \ {"partial"} /\ "partial" \in StagedMarks /\ "edited listing" \in StagedMarks
  BY DEF Staged!Sources, StagedMarks
<1>4. {} \in PageFiles
  BY DEF PageFiles
<1>. QED BY <1>1, <1>2, <1>3, <1>4 DEF Staged!Partial

LEMMA FileFacts ==
    ASSUME NEW F \in PageFiles
    PROVE  /\ \A x, y \in F : x = y
           /\ \A x \in F : F = {x} /\ x \in PageContents
BY DEF PageFiles

LEMMA ManifestFacts ==
    ASSUME NEW m \in RunManifests
    PROVE  /\ m = [of |-> m.of, mode |-> m.mode, render |-> m.render, page |-> m.page]
           /\ m.of \in Staged!Sources \cup {"none"} /\ m.mode \in {"manual", "candidate"} /\ m.render \in PageFiles
           /\ m.page \in [Staged!Pages -> [Staged!Stages -> PageFiles]]
           /\ \A p \in Staged!Pages : m.page[p] \in [Staged!Stages -> PageFiles] /\ \A k \in Staged!Stages : m.page[p][k] \in PageFiles
BY DEF RunManifests

LEMMA RecordedIs ==
    ASSUME StagedTyped, NEW c \in Commands, NEW k \in Staged!Stages
    PROVE  /\ Staged!Recorded(c, k) \in RunManifests
           /\ Staged!Recorded(c, k).of = copy[c].of /\ Staged!Recorded(c, k).mode = copy[c].mode
           /\ Staged!Recorded(c, k).render = copy[c].render
           /\ \A p \in Staged!Pages, j \in Staged!Stages :
                Staged!Recorded(c, k).page[p][j] = IF p = at[c] /\ j = k THEN disk[p][k] ELSE copy[c].page[p][j]
<1> DEFINE row == [copy[c].page[at[c]] EXCEPT ![k] = disk[at[c]][k]]
           page == [copy[c].page EXCEPT ![at[c]] = row]
           m == [copy[c] EXCEPT !.page = page]
<1>1. copy[c] \in RunManifests /\ at[c] \in Staged!Pages /\ disk[at[c]][k] \in PageFiles
  BY DEF StagedTyped, DataTyped, ControlTyped
<1>2. copy[c].page \in [Staged!Pages -> [Staged!Stages -> PageFiles]]
  BY <1>1, ManifestFacts
<1>3. row \in [Staged!Stages -> PageFiles] /\ \A j \in Staged!Stages : row[j] = IF j = k THEN disk[at[c]][k] ELSE copy[c].page[at[c]][j]
  BY <1>1, <1>2
<1>4. page \in [Staged!Pages -> [Staged!Stages -> PageFiles]] /\ \A p \in Staged!Pages : page[p] = IF p = at[c] THEN row ELSE copy[c].page[p]
  <2>. HIDE DEF row
  <2>. QED BY <1>1, <1>2, <1>3
<1>5. Staged!Recorded(c, k) = m
  <2>1. copy[c] = [of |-> copy[c].of, mode |-> copy[c].mode, render |-> copy[c].render, page |-> copy[c].page]
    BY <1>1, ManifestFacts
  <2>. QED BY <2>1, <1>1, <1>2 DEF Staged!Recorded, Staged!File
<1>6. m = [of |-> copy[c].of, mode |-> copy[c].mode, render |-> copy[c].render, page |-> page]
  <2>. HIDE DEF page
  <2>1. copy[c] = [of |-> copy[c].of, mode |-> copy[c].mode, render |-> copy[c].render, page |-> copy[c].page]
    BY <1>1, ManifestFacts
  <2>. QED BY <2>1
<1>7. m \in RunManifests
  <2>. HIDE DEF page
  <2>1. copy[c].of \in Staged!Sources \cup {"none"} /\ copy[c].mode \in {"manual", "candidate"} /\ copy[c].render \in PageFiles
    BY <1>1, ManifestFacts
  <2>. QED BY <1>4, <1>6, <2>1 DEF RunManifests
<1>. HIDE DEF m
<1>. QED BY <1>3, <1>4, <1>5, <1>6, <1>7

LEMMA ForgottenIs ==
    ASSUME StagedTyped, NEW c \in Commands, NEW S
    PROVE  /\ Staged!Forgotten(c, S) \in RunManifests
           /\ Staged!Forgotten(c, S).of = copy[c].of /\ Staged!Forgotten(c, S).mode = copy[c].mode
           /\ Staged!Forgotten(c, S).render = copy[c].render
           /\ \A p \in Staged!Pages, j \in Staged!Stages :
                Staged!Forgotten(c, S).page[p][j] = IF p = at[c] /\ j \in S THEN {} ELSE copy[c].page[p][j]
<1> DEFINE row == [j \in Staged!Stages |-> IF j \in S THEN {} ELSE copy[c].page[at[c]][j]]
           page == [copy[c].page EXCEPT ![at[c]] = row]
           m == [copy[c] EXCEPT !.page = page]
<1>1. copy[c] \in RunManifests /\ at[c] \in Staged!Pages
  BY DEF StagedTyped, DataTyped, ControlTyped
<1>2. copy[c].page \in [Staged!Pages -> [Staged!Stages -> PageFiles]]
  BY <1>1, ManifestFacts
<1>3. row \in [Staged!Stages -> PageFiles] /\ \A j \in Staged!Stages : row[j] = IF j \in S THEN {} ELSE copy[c].page[at[c]][j]
  BY <1>1, <1>2 DEF PageFiles
<1>4. page \in [Staged!Pages -> [Staged!Stages -> PageFiles]] /\ \A p \in Staged!Pages : page[p] = IF p = at[c] THEN row ELSE copy[c].page[p]
  <2>. HIDE DEF row
  <2>. QED BY <1>1, <1>2, <1>3
<1>5. Staged!Forgotten(c, S) = m
  <2>1. copy[c] = [of |-> copy[c].of, mode |-> copy[c].mode, render |-> copy[c].render, page |-> copy[c].page]
    BY <1>1, ManifestFacts
  <2>. QED BY <2>1, <1>1, <1>2 DEF Staged!Forgotten
<1>6. m = [of |-> copy[c].of, mode |-> copy[c].mode, render |-> copy[c].render, page |-> page]
  <2>. HIDE DEF page
  <2>1. copy[c] = [of |-> copy[c].of, mode |-> copy[c].mode, render |-> copy[c].render, page |-> copy[c].page]
    BY <1>1, ManifestFacts
  <2>. QED BY <2>1
<1>7. m \in RunManifests
  <2>. HIDE DEF page
  <2>1. copy[c].of \in Staged!Sources \cup {"none"} /\ copy[c].mode \in {"manual", "candidate"} /\ copy[c].render \in PageFiles
    BY <1>1, ManifestFacts
  <2>. QED BY <1>4, <1>6, <2>1 DEF RunManifests
<1>. HIDE DEF m
<1>. QED BY <1>3, <1>4, <1>5, <1>6, <1>7

LEMMA PutIs ==
    ASSUME StagedTyped, NEW c \in Commands, NEW k \in Staged!Stages, NEW F \in PageFiles, Staged!Put(c, k, F)
    PROVE  /\ disk' \in [Staged!Pages -> [Staged!Stages -> PageFiles]]
           /\ \A p \in Staged!Pages, j \in Staged!Stages :
                disk'[p][j] = IF p = at[c] /\ j = k THEN F ELSE disk[p][j]
<1>1. disk \in [Staged!Pages -> [Staged!Stages -> PageFiles]] /\ at[c] \in Staged!Pages
  BY DEF StagedTyped, DataTyped, ControlTyped
<1>2. disk' = [disk EXCEPT ![at[c]] = [disk[at[c]] EXCEPT ![k] = F]]
  BY <1>1 DEF Staged!Put
<1>3. disk[at[c]] \in [Staged!Stages -> PageFiles]
  BY <1>1
<1> DEFINE row == [disk[at[c]] EXCEPT ![k] = F]
<1>4. row \in [Staged!Stages -> PageFiles] /\ \A j \in Staged!Stages : row[j] = IF j = k THEN F ELSE disk[at[c]][j]
  BY <1>3
<1>. HIDE DEF row
<1>. QED BY <1>1, <1>2, <1>4 DEF row
LEMMA RenderedIs ==
    ASSUME StagedTyped, NEW c \in Commands
    PROVE  /\ Staged!Rendered(c) \in RunManifests
           /\ Staged!Rendered(c).of = copy[c].of /\ Staged!Rendered(c).mode = copy[c].mode
           /\ Staged!Rendered(c).render = listing
           /\ \A p \in Staged!Pages, j \in Staged!Stages :
                Staged!Rendered(c).page[p][j] = IF j \in {"rendered", "primitive"} THEN disk[p][j] ELSE {}
<1>1. copy[c] \in RunManifests /\ listing \in PageFiles
  BY DEF StagedTyped, DataTyped, ControlTyped
<1>2. Staged!Extracted \in [Staged!Pages -> [Staged!Stages -> PageFiles]]
      /\ \A p \in Staged!Pages, j \in Staged!Stages : Staged!Extracted[p][j] = IF j \in {"rendered", "primitive"} THEN disk[p][j] ELSE {}
  BY DEF Staged!Extracted, StagedTyped, DataTyped, PageFiles
<1>4. Staged!Rendered(c) = [of |-> copy[c].of, mode |-> copy[c].mode, render |-> listing, page |-> Staged!Extracted]
  BY DEF Staged!Rendered
<1>5. copy[c].of \in Staged!Sources \cup {"none"} /\ copy[c].mode \in {"manual", "candidate"}
  BY <1>1, ManifestFacts
<1>6. Staged!Rendered(c) \in RunManifests
  BY <1>1, <1>2, <1>4, <1>5 DEF RunManifests
<1>. QED BY <1>2, <1>4, <1>6

LEMMA WritePagesIs ==
    ASSUME StagedBounds, StagedTyped, NEW written, Staged!WritePages(written)
    PROVE  /\ disk' \in [Staged!Pages -> [Staged!Stages -> PageFiles]]
           /\ \A p \in Staged!Pages, j \in Staged!Stages :
                disk'[p][j] = IF p \in written /\ j \in {"rendered", "primitive"} THEN {{source}} ELSE disk[p][j]
<1>1. disk \in [Staged!Pages -> [Staged!Stages -> PageFiles]] /\ {{source}} \in PageFiles
  BY MarksArePlain DEF StagedTyped, DataTyped, ControlTyped
<1> DEFINE row(p) == [disk[p] EXCEPT !["rendered"] = {{source}}, !["primitive"] = {{source}}]
<1>2. \A p \in Staged!Pages : /\ row(p) \in [Staged!Stages -> PageFiles]
                              /\ \A j \in Staged!Stages : row(p)[j] = IF j \in {"rendered", "primitive"} THEN {{source}} ELSE disk[p][j]
  <2>. SUFFICES ASSUME NEW p \in Staged!Pages
                PROVE  /\ row(p) \in [Staged!Stages -> PageFiles]
                       /\ \A j \in Staged!Stages : row(p)[j] = IF j \in {"rendered", "primitive"} THEN {{source}} ELSE disk[p][j]
    OBVIOUS
  <2>1. disk[p] \in [Staged!Stages -> PageFiles]
    BY <1>1
  <2>. QED BY <1>1, <2>1
<1>3. disk' = [p \in Staged!Pages |-> IF p \in written THEN row(p) ELSE disk[p]]
  BY DEF Staged!WritePages
<1>. HIDE DEF row
<1>. QED BY <1>1, <1>2, <1>3

LEMMA NewRunIs ==
    ASSUME NEW o \in Staged!Sources \cup {"none"}, NEW how \in {"manual", "candidate"}
    PROVE  /\ Staged!NewRun(o, how) \in RunManifests
           /\ Staged!NewRun(o, how).render = {} /\ Staged!NewRun(o, how).mode = how
           /\ \A p \in Staged!Pages, k \in Staged!Stages : Staged!NewRun(o, how).page[p][k] = {}
<1>1. {} \in PageFiles
  BY DEF PageFiles
<1>2. [p \in Staged!Pages |-> Staged!Empty] \in [Staged!Pages -> [Staged!Stages -> PageFiles]]
  BY <1>1 DEF Staged!Empty
<1>3. \A p \in Staged!Pages, k \in Staged!Stages : [q \in Staged!Pages |-> Staged!Empty][p][k] = {}
  BY DEF Staged!Empty
<1>. QED BY <1>1, <1>2, <1>3 DEF Staged!NewRun, RunManifests

LEMMA NoRunIs ==
    /\ Staged!NoRun \in RunManifests /\ Staged!NoRun.render = {} /\ Staged!NoRun.mode = "manual"
    /\ \A p \in Staged!Pages, k \in Staged!Stages : Staged!NoRun.page[p][k] = {}
BY NewRunIs DEF Staged!NoRun

-----------------------------------------------------------------------------
(* Every step keeps the types. *)

\* A command goes to a step, holds a manifest and works on a page.
StagedMoves(c, where, m, p) ==
    /\ sPc' = [sPc EXCEPT ![c] = where]
    /\ copy' = [copy EXCEPT ![c] = m]
    /\ at' = [at EXCEPT ![c] = p]

LEMMA MovesFacts ==
    ASSUME StagedTyped, NEW c \in Commands, NEW where, NEW m, NEW p, StagedMoves(c, where, m, p)
    PROVE  /\ sPc'[c] = where /\ copy'[c] = m /\ at'[c] = p
           /\ \A d \in Commands \ {c} : sPc'[d] = sPc[d] /\ copy'[d] = copy[d] /\ at'[d] = at[d]
BY DEF StagedMoves, StagedTyped, ControlTyped

LEMMA GotoMoves ==
    ASSUME StagedTyped, NEW c \in Commands, NEW where, Staged!Goto(c, where), copy' = copy, at' = at
    PROVE  StagedMoves(c, where, copy[c], at[c])
BY DEF StagedMoves, StagedTyped, ControlTyped, Staged!Goto

LEMMA EndMoves ==
    ASSUME NEW c \in Commands, NEW how, Staged!End(c, how)
    PROVE  StagedMoves(c, how, Staged!NoRun, 1) /\ calm' = calm \cup {c}
BY DEF StagedMoves, Staged!End, Staged!Goto

LEMMA SaveMoves ==
    ASSUME StagedTyped, NEW c \in Commands, NEW where, NEW m, Staged!Save(c, m), Staged!Goto(c, where), at' = at
    PROVE  StagedMoves(c, where, m, at[c]) /\ manifest' = {m}
BY DEF StagedMoves, StagedTyped, ControlTyped, Staged!Goto, Staged!Save

LEMMA ControlMoves ==
    ASSUME StagedTyped, NEW c \in Commands, NEW where \in StagedSteps \cup Staged!Resting, NEW m \in RunManifests,
           NEW p \in Staged!Pages, StagedMoves(c, where, m, p), kind' = kind, calm' \subseteq Commands,
           \A d \in Commands \ {c} : sPc[d] \in Staged!Resting => d \in calm',
           where \in Staged!Resting => m = Staged!NoRun /\ c \in calm',
           where \in Staged!Resting \cup FirstSteps \/ kind = "image" => p = 1,
           where \in DocumentSteps \/ m.mode = "candidate" => kind = "pdf"
    PROVE  ControlTyped'
<1>1. sPc' \in [Commands -> StagedSteps \cup Staged!Resting]
  BY DEF StagedMoves, StagedTyped, ControlTyped
<1>2. copy' \in [Commands -> RunManifests]
  BY DEF StagedMoves, StagedTyped, ControlTyped
<1>3. at' \in [Commands -> Staged!Pages]
  BY DEF StagedMoves, StagedTyped, ControlTyped
<1>4. ASSUME NEW d \in Commands
      PROVE  /\ sPc'[d] \in Staged!Resting => copy'[d] = Staged!NoRun /\ d \in calm'
             /\ sPc'[d] \in Staged!Resting \cup FirstSteps \/ kind' = "image" => at'[d] = 1
             /\ sPc'[d] \in DocumentSteps \/ copy'[d].mode = "candidate" => kind' = "pdf"
  <2>1. CASE d = c
    BY <2>1, MovesFacts
  <2>2. CASE d # c
    BY <2>2, MovesFacts DEF StagedTyped, ControlTyped
  <2>. QED BY <2>1, <2>2
<1>. QED BY <1>1, <1>2, <1>3, <1>4 DEF ControlTyped

LEMMA ControlGoto ==
    ASSUME StagedTyped, NEW c \in Commands, NEW where \in StagedSteps, Staged!Goto(c, where), copy' = copy, at' = at,
           kind' = kind, calm' = calm, where \in FirstSteps => at[c] = 1, where \in DocumentSteps => kind = "pdf"
    PROVE  ControlTyped'
<1>1. where \notin Staged!Resting
  BY DEF StagedSteps, Staged!Resting
<1>2. copy[c] \in RunManifests /\ at[c] \in Staged!Pages /\ calm \subseteq Commands
      /\ (copy[c].mode = "candidate" => kind = "pdf") /\ (kind = "image" => at[c] = 1)
      /\ \A d \in Commands : sPc[d] \in Staged!Resting => d \in calm
  BY DEF StagedTyped, ControlTyped
<1>3. StagedMoves(c, where, copy[c], at[c])
  BY GotoMoves
<1>. QED BY <1>1, <1>2, <1>3, ControlMoves

LEMMA ControlEnd ==
    ASSUME StagedBounds, StagedTyped, NEW c \in Commands, NEW how \in Staged!Resting, Staged!End(c, how), kind' = kind
    PROVE  ControlTyped'
<1>1. how \notin DocumentSteps
  BY DEF DocumentSteps, Staged!Resting
<1>2. StagedMoves(c, how, Staged!NoRun, 1) /\ calm' = calm \cup {c}
  BY EndMoves
<1>3. Staged!NoRun \in RunManifests /\ Staged!NoRun.mode = "manual" /\ 1 \in Staged!Pages
  BY NoRunIs DEF StagedBounds, Staged!Pages
<1>4. calm' \subseteq Commands /\ \A d \in Commands : sPc[d] \in Staged!Resting => d \in calm'
  BY <1>2 DEF StagedTyped, ControlTyped
<1>. QED BY <1>1, <1>2, <1>3, <1>4, ControlMoves

LEMMA ControlSave ==
    ASSUME StagedTyped, NEW c \in Commands, NEW where \in StagedSteps, NEW m \in RunManifests,
           Staged!Goto(c, where), Staged!Save(c, m), at' = at, kind' = kind, calm' = calm, m.mode = copy[c].mode,
           where \in FirstSteps => at[c] = 1, where \in DocumentSteps => kind = "pdf"
    PROVE  ControlTyped'
<1>1. where \notin Staged!Resting
  BY DEF StagedSteps, Staged!Resting
<1>2. at[c] \in Staged!Pages /\ calm \subseteq Commands
      /\ (copy[c].mode = "candidate" => kind = "pdf") /\ (kind = "image" => at[c] = 1)
      /\ \A d \in Commands : sPc[d] \in Staged!Resting => d \in calm
  BY DEF StagedTyped, ControlTyped
<1>3. StagedMoves(c, where, m, at[c])
  BY SaveMoves
<1>. QED BY <1>1, <1>2, <1>3, ControlMoves

\* A command begins on page one.
LEMMA ControlBegin ==
    ASSUME StagedTyped, NEW c \in Commands, NEW where \in {"save new", "verify"}, NEW m \in RunManifests,
           sPc[c] = "idle", copy' = [copy EXCEPT ![c] = m], Staged!Goto(c, where), Staged!Meet(c), at' = at, kind' = kind,
           m.mode = "candidate" => kind = "pdf"
    PROVE  ControlTyped'
<1>1. where \in StagedSteps /\ where \notin Staged!Resting \cup DocumentSteps
  BY DEF StagedSteps, Staged!Resting, DocumentSteps
<1>2. at[c] \in Staged!Pages /\ at[c] = 1 /\ calm \subseteq Commands
      /\ \A d \in Commands : sPc[d] \in Staged!Resting => d \in calm
  BY DEF StagedTyped, ControlTyped, Staged!Resting
<1>3. StagedMoves(c, where, m, at[c])
  BY DEF StagedTyped, ControlTyped, Staged!Goto, StagedMoves
<1>4. calm' \subseteq Commands /\ \A d \in Commands \ {c} : sPc[d] \in Staged!Resting => d \in calm'
  BY <1>2 DEF Staged!Meet, Staged!Alive
<1>. QED BY <1>1, <1>2, <1>3, <1>4, ControlMoves

\* A command goes on to the next page.
LEMMA ControlNext ==
    ASSUME StagedBounds, StagedTyped, NEW c \in Commands, NEW m \in RunManifests, at[c] # Staged!Last,
           sPc' = [sPc EXCEPT ![c] = "primitive"], copy' = [copy EXCEPT ![c] = m],
           at' = [at EXCEPT ![c] = @ + 1], kind' = kind, calm' = calm, m.mode = copy[c].mode
    PROVE  ControlTyped' /\ StagedMoves(c, "primitive", m, at[c] + 1)
<1>1. "primitive" \in StagedSteps /\ "primitive" \notin Staged!Resting \cup DocumentSteps \cup FirstSteps
  BY DEF StagedSteps, Staged!Resting, DocumentSteps, FirstSteps
<1>2. kind = "pdf" /\ at[c] \in Staged!Pages /\ calm \subseteq Commands
      /\ \A d \in Commands : sPc[d] \in Staged!Resting => d \in calm
  BY DEF StagedTyped, ControlTyped, DataTyped, Staged!Last
<1>3. at[c] + 1 \in Staged!Pages
  BY <1>2 DEF Staged!Last, Staged!Pages, StagedBounds
<1>4. StagedMoves(c, "primitive", m, at[c] + 1)
  BY DEF StagedTyped, ControlTyped, StagedMoves
<1>. QED BY <1>1, <1>2, <1>3, <1>4, ControlMoves

LEMMA StepActions ==
    ASSUME NEW c, Staged!Step(c)
    PROVE  \/ Staged!Create(c) \/ Staged!Calibrate(c) \/ Staged!SaveNew(c) \/ Staged!ExtractCandidate(c) \/ Staged!RecordCandidate(c)
           \/ Staged!Resume(c) \/ Staged!Verify(c) \/ Staged!Extract(c) \/ Staged!RecordRender(c) \/ Staged!Validate(c)
           \/ Staged!KeepPrimitive(c) \/ Staged!ExtractImage(c) \/ Staged!ResetPage(c) \/ Staged!Regenerate(c) \/ Staged!RecordPrimitive(c)
           \/ Staged!KeepSemantic(c) \/ Staged!MakeSemantic(c) \/ Staged!RecordSemantic(c) \/ Staged!ResetDxf(c) \/ Staged!KeepDxf(c)
           \/ Staged!ForgetDxf(c) \/ Staged!BuildDxf(c) \/ Staged!WriteEvidence(c) \/ Staged!RecordDxf(c) \/ Staged!RecordEvidence(c)
           \/ Staged!Fail(c) \/ Staged!Kill(c)
BY DEF Staged!Step

LEMMA StepNames ==
    /\ \A s \in {"save new", "verify", "render", "record render", "validate", "candidate", "record candidate",
                 "primitive", "regenerate", "record primitive", "semantic", "record semantic", "reset dxf",
                 "dxf", "evidence", "record dxf", "record evidence"} : s \in StagedSteps /\ s \notin Staged!Resting
    /\ \A s \in {"done", "failed", "killed"} : s \in Staged!Resting
    /\ FirstSteps = {"save new", "verify", "render", "record render", "validate", "candidate", "record candidate"}
    /\ DocumentSteps = {"render", "record render", "validate", "candidate", "record candidate",
                       "regenerate", "reset dxf", "record evidence"}
BY DEF StagedSteps, Staged!Resting, FirstSteps, DocumentSteps

LEMMA ControlStays ==
    ASSUME StagedBounds, StagedTyped, NEW c \in Commands, Staged!Step(c)
    PROVE  ControlTyped'
<1>0. /\ copy[c] \in RunManifests /\ copy[c].mode \in {"manual", "candidate"}
      /\ (copy[c].mode = "candidate" => kind = "pdf")
      /\ (sPc[c] \in FirstSteps => at[c] = 1) /\ (sPc[c] \in DocumentSteps => kind = "pdf")
      /\ \A m \in manifest : m \in RunManifests /\ (m.mode = "candidate" => kind = "pdf")
      /\ source \in Staged!Sources \cup {"none"} /\ kind \in {"image", "pdf"}
  BY ManifestFacts DEF StagedTyped, DataTyped, ControlTyped
<1>. DEFINE reset == Staged!Forgotten(c, Staged!Stages \ {"rendered"})
            resetDxf == Staged!Forgotten(c, {"dxf", "evidence"})
            withEvidence == Staged!Recorded(c, "evidence")
<1>30. /\ reset \in RunManifests /\ reset.mode = copy[c].mode
       /\ resetDxf \in RunManifests /\ resetDxf.mode = copy[c].mode
       /\ withEvidence \in RunManifests /\ withEvidence.mode = copy[c].mode
  <2>1. reset \in RunManifests /\ reset.mode = copy[c].mode
    BY ForgottenIs
  <2>2. resetDxf \in RunManifests /\ resetDxf.mode = copy[c].mode
    BY ForgottenIs
  <2>3. withEvidence \in RunManifests /\ withEvidence.mode = copy[c].mode
    BY RecordedIs, StageNames
  <2>. HIDE DEF reset, resetDxf, withEvidence
  <2>. QED BY <2>1, <2>2, <2>3
<1>1. CASE Staged!Create(c)
  BY <1>0, <1>1, StepNames, NewRunIs, ControlBegin DEF Staged!Create
<1>2. CASE Staged!Calibrate(c)
  BY <1>0, <1>2, StepNames, NewRunIs, ControlBegin DEF Staged!Calibrate
<1>3. CASE Staged!SaveNew(c)
  BY <1>0, <1>3, StepNames, ControlSave DEF Staged!SaveNew, Staged!World
<1>4. CASE Staged!ExtractCandidate(c)
  BY <1>0, <1>4, StepNames, ControlGoto, ControlEnd DEF Staged!ExtractCandidate, Staged!World
<1>5. CASE Staged!RecordCandidate(c)
  BY <1>0, <1>5, StepNames, ControlEnd DEF Staged!RecordCandidate, Staged!World
<1>6. CASE Staged!Resume(c)
  <2>1. PICK m \in manifest : copy' = [copy EXCEPT ![c] = m]
    BY <1>6 DEF Staged!Resume
  <2>. QED BY <1>0, <1>6, <2>1, ControlBegin DEF Staged!Resume
<1>7. CASE Staged!Verify(c)
  BY <1>0, <1>7, StepNames, ControlGoto, ControlEnd DEF Staged!Verify, Staged!World
<1>8. CASE Staged!Extract(c)
  BY <1>0, <1>8, StepNames, ControlGoto, ControlEnd DEF Staged!Extract, Staged!World
<1>9. CASE Staged!RecordRender(c)
  BY <1>0, <1>9, StepNames, RenderedIs, ControlSave, ControlEnd DEF Staged!RecordRender, Staged!World
<1>10. CASE Staged!Validate(c)
  BY <1>0, <1>10, StepNames, ControlGoto, ControlEnd DEF Staged!Validate, Staged!World
<1>11. CASE Staged!KeepPrimitive(c)
  BY <1>0, <1>11, StepNames, ControlGoto DEF Staged!KeepPrimitive, Staged!World
<1>12. CASE Staged!ExtractImage(c)
  BY <1>0, <1>12, StepNames, ControlGoto DEF Staged!ExtractImage, Staged!World
<1>13. CASE Staged!ResetPage(c)
  <2>1. Staged!Save(c, reset) /\ Staged!Goto(c, "regenerate") /\ at' = at /\ calm' = calm /\ kind' = kind /\ kind = "pdf"
    BY <1>0, <1>13, StepNames DEF Staged!ResetPage, Staged!World, Staged!Reset
  <2>. HIDE DEF reset
  <2>. QED BY <1>30, <2>1, StepNames, ControlSave
<1>14. CASE Staged!Regenerate(c)
  BY <1>0, <1>14, StepNames, ControlGoto, ControlEnd DEF Staged!Regenerate, Staged!World
<1>15. CASE Staged!RecordPrimitive(c)
  <2>1. CASE Staged!Missing(c, "primitive")
    BY <1>0, <1>15, <2>1, StepNames, ControlEnd DEF Staged!RecordPrimitive, Staged!World
  <2>2. CASE ~Staged!Missing(c, "primitive")
    BY <1>0, <1>15, <2>2, StepNames, RecordedIs, StageNames, ControlSave DEF Staged!RecordPrimitive, Staged!World
  <2>. QED BY <2>1, <2>2
<1>16. CASE Staged!KeepSemantic(c)
  BY <1>0, <1>16, StepNames, ControlGoto DEF Staged!KeepSemantic, Staged!World
<1>17. CASE Staged!MakeSemantic(c)
  BY <1>0, <1>17, StepNames, ControlGoto DEF Staged!MakeSemantic, Staged!World
<1>18. CASE Staged!RecordSemantic(c)
  <2>1. CASE Staged!Missing(c, "semantic")
    BY <1>0, <1>18, <2>1, StepNames, ControlEnd DEF Staged!RecordSemantic, Staged!World
  <2>2. CASE ~Staged!Missing(c, "semantic")
    BY <1>0, <1>18, <2>2, StepNames, RecordedIs, StageNames, ControlSave DEF Staged!RecordSemantic, Staged!World
  <2>. QED BY <2>1, <2>2
<1>19. CASE Staged!ResetDxf(c)
  <2>1. Staged!Save(c, resetDxf) /\ Staged!Goto(c, "dxf") /\ at' = at /\ calm' = calm /\ kind' = kind /\ kind = "pdf"
    BY <1>0, <1>19, StepNames DEF Staged!ResetDxf, Staged!World, Staged!Reset
  <2>. HIDE DEF resetDxf
  <2>. QED BY <1>30, <2>1, StepNames, ControlSave
<1>20. CASE Staged!KeepDxf(c)
  <2>1. CASE at[c] = Staged!Last
    BY <1>20, <2>1, StepNames, ControlEnd DEF Staged!KeepDxf, Staged!NextPage, Staged!World
  <2>2. CASE at[c] # Staged!Last
    <3>1. copy' = [copy EXCEPT ![c] = copy[c]]
      BY <1>20, <2>2 DEF Staged!KeepDxf, Staged!NextPage, StagedTyped, ControlTyped
    <3>. QED BY <1>0, <1>20, <2>2, <3>1, ControlNext DEF Staged!KeepDxf, Staged!NextPage,
                Staged!World, Staged!Goto
  <2>. QED BY <2>1, <2>2
<1>21. CASE Staged!ForgetDxf(c)
  <2>1. Staged!Save(c, resetDxf) /\ sPc[c] = "dxf" /\ at' = at /\ calm' = calm
        /\ sPc' = sPc /\ kind' = kind
    BY <1>21 DEF Staged!ForgetDxf, Staged!World
  <2>2. Staged!Goto(c, "dxf")
    BY <2>1 DEF Staged!Goto, StagedTyped, ControlTyped
  <2>. HIDE DEF resetDxf
  <2>. QED BY <1>30, <2>1, <2>2, StepNames, ControlSave
<1>22. CASE Staged!BuildDxf(c)
  BY <1>0, <1>22, StepNames, ControlGoto DEF Staged!BuildDxf, Staged!World
<1>23. CASE Staged!WriteEvidence(c)
  BY <1>0, <1>23, StepNames, ControlGoto, ControlEnd DEF Staged!WriteEvidence, Staged!World
<1>24. CASE Staged!RecordDxf(c)
  BY <1>0, <1>24, StepNames, RecordedIs, StageNames, ControlSave, ControlEnd DEF Staged!RecordDxf,
     Staged!World
<1>25. CASE Staged!RecordEvidence(c)
  <2>1. CASE Staged!Missing(c, "evidence") \/ at[c] = Staged!Last
    BY <1>25, <2>1, StepNames, ControlEnd DEF Staged!RecordEvidence, Staged!World
  <2>2. CASE ~Staged!Missing(c, "evidence") /\ at[c] # Staged!Last
    <3>1. /\ copy' = [copy EXCEPT ![c] = withEvidence] /\ sPc' = [sPc EXCEPT ![c] = "primitive"]
          /\ at' = [at EXCEPT ![c] = @ + 1] /\ kind' = kind /\ calm' = calm
      BY <1>25, <2>2 DEF Staged!RecordEvidence, Staged!Save, Staged!World, Staged!Goto
    <3>. HIDE DEF withEvidence
    <3>. QED BY <1>30, <2>2, <3>1, ControlNext
  <2>. QED BY <2>1, <2>2
<1>26. CASE Staged!Fail(c)
  BY <1>0, <1>26, StepNames, ControlEnd DEF Staged!Fail, Staged!World
<1>27. CASE Staged!Kill(c)
  BY <1>0, <1>27, StepNames, ControlEnd DEF Staged!Kill, Staged!World
<1>. QED BY StepActions, <1>1, <1>2, <1>3, <1>4, <1>5, <1>6, <1>7, <1>8, <1>9, <1>10, <1>11, <1>12,
            <1>13, <1>14, <1>15, <1>16, <1>17, <1>18, <1>19, <1>20, <1>21, <1>22, <1>23, <1>24,
            <1>25, <1>26, <1>27

\* Every record of m is of the command's copy, or of a file, or none.
RecordsOf(c, m) ==
    \A p \in Staged!Pages, k \in Staged!Stages : m.page[p][k] = {} \/ m.page[p][k] = disk[p][k] \/ m.page[p][k] = copy[c].page[p][k]

\* What a step writes to the manifest is the command's copy, changed.
LEMMA StepManifest ==
    ASSUME StagedBounds, StagedTyped, NEW c \in Commands, Staged!Step(c)
    PROVE  \/ manifest' = manifest
           \/ \E m \in RunManifests : manifest' = {m} /\ m.mode = copy[c].mode /\ RecordsOf(c, m)
<1>0. copy[c] \in RunManifests
  BY DEF StagedTyped, ControlTyped
<1>01. RecordsOf(c, copy[c])
  BY DEF RecordsOf
<1>1. \A S : Staged!Forgotten(c, S) \in RunManifests /\ Staged!Forgotten(c, S).mode = copy[c].mode /\ RecordsOf(c, Staged!Forgotten(c, S))
  BY ForgottenIs DEF RecordsOf
<1>2. \A k \in Staged!Stages : Staged!Recorded(c, k) \in RunManifests /\ Staged!Recorded(c, k).mode = copy[c].mode
                         /\ RecordsOf(c, Staged!Recorded(c, k))
  BY RecordedIs DEF RecordsOf
<1>3. Staged!Rendered(c) \in RunManifests /\ Staged!Rendered(c).mode = copy[c].mode /\ RecordsOf(c, Staged!Rendered(c))
  BY RenderedIs DEF RecordsOf
<1>4. CASE Staged!Save(c, Staged!Reset(c)) \/ Staged!Save(c, Staged!Forgotten(c, {"dxf", "evidence"})) \/ manifest' = {Staged!Forgotten(c, {sPc[c]})}
  BY <1>1, <1>4 DEF Staged!Save, Staged!Reset
<1>5. CASE \E k \in Staged!Stages : Staged!Save(c, Staged!Recorded(c, k)) \/ manifest' = {Staged!Recorded(c, k)}
  BY <1>2, <1>5 DEF Staged!Save
<1>6. CASE Staged!Save(c, Staged!Rendered(c)) \/ manifest' = {Staged!Rendered(c)}
  BY <1>3, <1>6 DEF Staged!Save
<1>7. CASE Staged!Save(c, copy[c]) \/ manifest' = {copy[c]}
  BY <1>0, <1>01, <1>7 DEF Staged!Save
<1>8. \/ manifest' = manifest
      \/ Staged!Save(c, Staged!Reset(c)) \/ Staged!Save(c, Staged!Forgotten(c, {"dxf", "evidence"})) \/ manifest' = {Staged!Forgotten(c, {sPc[c]})}
      \/ \E k \in Staged!Stages : Staged!Save(c, Staged!Recorded(c, k)) \/ manifest' = {Staged!Recorded(c, k)}
      \/ Staged!Save(c, Staged!Rendered(c)) \/ manifest' = {Staged!Rendered(c)}
      \/ Staged!Save(c, copy[c]) \/ manifest' = {copy[c]}
  <2>1. CASE Staged!Create(c)
    BY <2>1, StageNames DEF Staged!Create, Staged!World
  <2>2. CASE Staged!Calibrate(c)
    BY <2>2, StageNames DEF Staged!Calibrate, Staged!World
  <2>3. CASE Staged!SaveNew(c)
    BY <2>3, StageNames DEF Staged!SaveNew, Staged!World
  <2>4. CASE Staged!ExtractCandidate(c)
    BY <2>4, StageNames DEF Staged!ExtractCandidate, Staged!World
  <2>5. CASE Staged!RecordCandidate(c)
    BY <2>5, StageNames DEF Staged!RecordCandidate, Staged!World
  <2>6. CASE Staged!Resume(c)
    BY <2>6, StageNames DEF Staged!Resume, Staged!World
  <2>7. CASE Staged!Verify(c)
    BY <2>7, StageNames DEF Staged!Verify, Staged!World
  <2>8. CASE Staged!Extract(c)
    BY <2>8, StageNames DEF Staged!Extract, Staged!World
  <2>9. CASE Staged!RecordRender(c)
    BY <2>9, StageNames DEF Staged!RecordRender, Staged!World
  <2>10. CASE Staged!Validate(c)
    BY <2>10, StageNames DEF Staged!Validate, Staged!World
  <2>11. CASE Staged!KeepPrimitive(c)
    BY <2>11, StageNames DEF Staged!KeepPrimitive, Staged!World
  <2>12. CASE Staged!ExtractImage(c)
    BY <2>12, StageNames DEF Staged!ExtractImage, Staged!World
  <2>13. CASE Staged!ResetPage(c)
    BY <2>13, StageNames DEF Staged!ResetPage, Staged!World
  <2>14. CASE Staged!Regenerate(c)
    BY <2>14, StageNames DEF Staged!Regenerate, Staged!World
  <2>15. CASE Staged!RecordPrimitive(c)
    BY <2>15, StageNames DEF Staged!RecordPrimitive, Staged!World
  <2>16. CASE Staged!KeepSemantic(c)
    BY <2>16, StageNames DEF Staged!KeepSemantic, Staged!World
  <2>17. CASE Staged!MakeSemantic(c)
    BY <2>17, StageNames DEF Staged!MakeSemantic, Staged!World
  <2>18. CASE Staged!RecordSemantic(c)
    BY <2>18, StageNames DEF Staged!RecordSemantic, Staged!World
  <2>19. CASE Staged!ResetDxf(c)
    BY <2>19, StageNames DEF Staged!ResetDxf, Staged!World
  <2>20. CASE Staged!KeepDxf(c)
    BY <2>20, StageNames DEF Staged!KeepDxf, Staged!World
  <2>21. CASE Staged!ForgetDxf(c)
    BY <2>21, StageNames DEF Staged!ForgetDxf, Staged!World
  <2>22. CASE Staged!BuildDxf(c)
    BY <2>22, StageNames DEF Staged!BuildDxf, Staged!World
  <2>23. CASE Staged!WriteEvidence(c)
    BY <2>23, StageNames DEF Staged!WriteEvidence, Staged!World
  <2>24. CASE Staged!RecordDxf(c)
    BY <2>24, StageNames DEF Staged!RecordDxf, Staged!World
  <2>25. CASE Staged!RecordEvidence(c)
    BY <2>25, StageNames DEF Staged!RecordEvidence, Staged!World
  <2>26. CASE Staged!Fail(c)
    BY <2>26, StageNames DEF Staged!Fail, Staged!World
  <2>27. CASE Staged!Kill(c)
    BY <2>27, StageNames DEF Staged!Kill, Staged!World
  <2>. QED BY StepActions, <2>1, <2>2, <2>3, <2>4, <2>5, <2>6, <2>7, <2>8, <2>9, <2>10, <2>11,
              <2>12, <2>13, <2>14, <2>15, <2>16, <2>17, <2>18, <2>19, <2>20, <2>21, <2>22, <2>23,
              <2>24, <2>25, <2>26, <2>27
<1>. QED BY <1>4, <1>5, <1>6, <1>7, <1>8

LEMMA StepDisk ==
    ASSUME StagedBounds, StagedTyped, NEW c \in Commands, Staged!Step(c)
    PROVE  /\ disk' \in [Staged!Pages -> [Staged!Stages -> PageFiles]] /\ listing' \in PageFiles
           /\ kind' = kind /\ source' = source /\ edits' = edits
           /\ raced' \subseteq Staged!Pages /\ met' \in BOOLEAN /\ cut' \in BOOLEAN
<1>0. /\ disk \in [Staged!Pages -> [Staged!Stages -> PageFiles]] /\ listing \in PageFiles
      /\ raced \subseteq Staged!Pages /\ met \in BOOLEAN /\ cut \in BOOLEAN
      /\ at \in [Commands -> Staged!Pages] /\ source \in Staged!Sources
      /\ {{source}} \in PageFiles /\ {Staged!Partial} \in PageFiles
      /\ \A k \in Staged!Stages : Staged!File(c, k) \in PageFiles
  <2>1. /\ disk \in [Staged!Pages -> [Staged!Stages -> PageFiles]] /\ listing \in PageFiles
        /\ raced \subseteq Staged!Pages /\ met \in BOOLEAN /\ cut \in BOOLEAN
        /\ at \in [Commands -> Staged!Pages] /\ source \in Staged!Sources
    BY DEF StagedTyped, DataTyped, ControlTyped
  <2>2. {{source}} \in PageFiles /\ {Staged!Partial} \in PageFiles
    BY <2>1, MarksArePlain
  <2>3. \A k \in Staged!Stages : Staged!File(c, k) \in PageFiles
    BY <2>1 DEF Staged!File
  <2>. QED BY <2>1, <2>2, <2>3
<1>1. disk' \in [Staged!Pages -> [Staged!Stages -> PageFiles]]
  <2>1. CASE disk' = disk
    BY <1>0, <2>1
  <2>2. CASE \E written : Staged!WritePages(written)
    BY <2>2, WritePagesIs
  <2>3. CASE \E k \in Staged!Stages, F \in PageFiles : Staged!Put(c, k, F)
    BY <2>3, PutIs
  <2>4. CASE Staged!BuildDxf(c)
    <3>1. PICK p \in Staged!File(c, "primitive"), s \in Staged!File(c, "semantic") : Staged!Put(c, "dxf", {p \cup s \cup {c}})
      BY <2>4 DEF Staged!BuildDxf
    <3>0. Staged!File(c, "primitive") \in PageFiles /\ Staged!File(c, "semantic") \in PageFiles
      BY <1>0, StageNames
    <3>2. p \in PageContents /\ s \in PageContents
      BY <3>0, <3>1, FileFacts
    <3>3. {p \cup s \cup {c}} \in PageFiles
      BY <3>2 DEF PageFiles, PageContents
    <3>. QED BY <3>1, <3>3, PutIs, StageNames
  <2>5. CASE Staged!Fail(c) \/ Staged!Kill(c)
    <3>1. disk' = disk \/ \E k \in Staged!Stages : Staged!Put(c, k, {Staged!Partial})
      BY <2>5, StageNames DEF Staged!Fail, Staged!Kill, Staged!WritePart, Staged!Making
    <3>. QED BY <1>0, <2>1, <2>3, <3>1
  <2>6. CASE Staged!Create(c)
    BY <2>1, <2>6 DEF Staged!Create, Staged!World
  <2>7. CASE Staged!Calibrate(c)
    BY <2>1, <2>7 DEF Staged!Calibrate, Staged!World
  <2>8. CASE Staged!SaveNew(c)
    BY <2>1, <2>8 DEF Staged!SaveNew, Staged!World
  <2>9. CASE Staged!ExtractCandidate(c)
    BY <2>1, <2>2, <2>9 DEF Staged!ExtractCandidate, Staged!World
  <2>10. CASE Staged!RecordCandidate(c)
    BY <2>1, <2>10 DEF Staged!RecordCandidate, Staged!World
  <2>11. CASE Staged!Resume(c)
    BY <2>1, <2>11 DEF Staged!Resume, Staged!World
  <2>12. CASE Staged!Verify(c)
    BY <2>1, <2>12 DEF Staged!Verify, Staged!World
  <2>13. CASE Staged!Extract(c)
    BY <2>1, <2>2, <2>13 DEF Staged!Extract, Staged!World
  <2>14. CASE Staged!RecordRender(c)
    BY <2>1, <2>14 DEF Staged!RecordRender, Staged!World
  <2>15. CASE Staged!Validate(c)
    BY <2>1, <2>15 DEF Staged!Validate, Staged!World
  <2>16. CASE Staged!KeepPrimitive(c)
    BY <2>1, <2>16 DEF Staged!KeepPrimitive, Staged!World
  <2>17. CASE Staged!ExtractImage(c)
    BY <1>0, <2>1, <2>3, <2>17, StageNames DEF Staged!ExtractImage, Staged!World
  <2>18. CASE Staged!ResetPage(c)
    BY <2>1, <2>18 DEF Staged!ResetPage, Staged!World
  <2>19. CASE Staged!Regenerate(c)
    BY <1>0, <2>1, <2>3, <2>19, StageNames DEF Staged!Regenerate, Staged!World
  <2>20. CASE Staged!RecordPrimitive(c)
    BY <2>1, <2>20 DEF Staged!RecordPrimitive, Staged!World
  <2>21. CASE Staged!KeepSemantic(c)
    BY <2>1, <2>21 DEF Staged!KeepSemantic, Staged!World
  <2>22. CASE Staged!MakeSemantic(c)
    BY <1>0, <2>1, <2>3, <2>22, StageNames DEF Staged!MakeSemantic, Staged!World
  <2>23. CASE Staged!RecordSemantic(c)
    BY <2>1, <2>23 DEF Staged!RecordSemantic, Staged!World
  <2>24. CASE Staged!ResetDxf(c)
    BY <2>1, <2>24 DEF Staged!ResetDxf, Staged!World
  <2>25. CASE Staged!KeepDxf(c)
    BY <2>1, <2>25 DEF Staged!KeepDxf, Staged!World
  <2>26. CASE Staged!ForgetDxf(c)
    BY <2>1, <2>26 DEF Staged!ForgetDxf, Staged!World
  <2>27. CASE Staged!WriteEvidence(c)
    BY <1>0, <2>1, <2>3, <2>27, StageNames DEF Staged!WriteEvidence, Staged!World
  <2>28. CASE Staged!RecordDxf(c)
    BY <2>1, <2>28 DEF Staged!RecordDxf, Staged!World
  <2>29. CASE Staged!RecordEvidence(c)
    BY <2>1, <2>29 DEF Staged!RecordEvidence, Staged!World
  <2>. QED BY StepActions, <2>4, <2>5, <2>6, <2>7, <2>8, <2>9, <2>10, <2>11, <2>12, <2>13, <2>14,
              <2>15, <2>16, <2>17, <2>18, <2>19, <2>20, <2>21, <2>22, <2>23, <2>24, <2>25, <2>26,
              <2>27, <2>28, <2>29
<1>2. listing' \in PageFiles
  <2>1. listing' \in {listing, {{source}}, {Staged!Partial}}
    <3>1. CASE Staged!Create(c)
      BY <3>1 DEF Staged!Create, Staged!World
    <3>2. CASE Staged!Calibrate(c)
      BY <3>2 DEF Staged!Calibrate, Staged!World
    <3>3. CASE Staged!SaveNew(c)
      BY <3>3 DEF Staged!SaveNew, Staged!World
    <3>4. CASE Staged!ExtractCandidate(c)
      BY <3>4 DEF Staged!ExtractCandidate, Staged!World
    <3>5. CASE Staged!RecordCandidate(c)
      BY <3>5 DEF Staged!RecordCandidate, Staged!World
    <3>6. CASE Staged!Resume(c)
      BY <3>6 DEF Staged!Resume, Staged!World
    <3>7. CASE Staged!Verify(c)
      BY <3>7 DEF Staged!Verify, Staged!World
    <3>8. CASE Staged!Extract(c)
      BY <3>8 DEF Staged!Extract, Staged!World
    <3>9. CASE Staged!RecordRender(c)
      BY <3>9 DEF Staged!RecordRender, Staged!World
    <3>10. CASE Staged!Validate(c)
      BY <3>10 DEF Staged!Validate, Staged!World
    <3>11. CASE Staged!KeepPrimitive(c)
      BY <3>11 DEF Staged!KeepPrimitive, Staged!World
    <3>12. CASE Staged!ExtractImage(c)
      BY <3>12 DEF Staged!ExtractImage, Staged!World
    <3>13. CASE Staged!ResetPage(c)
      BY <3>13 DEF Staged!ResetPage, Staged!World
    <3>14. CASE Staged!Regenerate(c)
      BY <3>14 DEF Staged!Regenerate, Staged!World
    <3>15. CASE Staged!RecordPrimitive(c)
      BY <3>15 DEF Staged!RecordPrimitive, Staged!World
    <3>16. CASE Staged!KeepSemantic(c)
      BY <3>16 DEF Staged!KeepSemantic, Staged!World
    <3>17. CASE Staged!MakeSemantic(c)
      BY <3>17 DEF Staged!MakeSemantic, Staged!World
    <3>18. CASE Staged!RecordSemantic(c)
      BY <3>18 DEF Staged!RecordSemantic, Staged!World
    <3>19. CASE Staged!ResetDxf(c)
      BY <3>19 DEF Staged!ResetDxf, Staged!World
    <3>20. CASE Staged!KeepDxf(c)
      BY <3>20 DEF Staged!KeepDxf, Staged!World
    <3>21. CASE Staged!ForgetDxf(c)
      BY <3>21 DEF Staged!ForgetDxf, Staged!World
    <3>22. CASE Staged!BuildDxf(c)
      BY <3>22 DEF Staged!BuildDxf, Staged!World
    <3>23. CASE Staged!WriteEvidence(c)
      BY <3>23 DEF Staged!WriteEvidence, Staged!World
    <3>24. CASE Staged!RecordDxf(c)
      BY <3>24 DEF Staged!RecordDxf, Staged!World
    <3>25. CASE Staged!RecordEvidence(c)
      BY <3>25 DEF Staged!RecordEvidence, Staged!World
    <3>26. CASE Staged!Fail(c)
      BY <3>26 DEF Staged!Fail, Staged!World
    <3>27. CASE Staged!Kill(c)
      BY <3>27 DEF Staged!Kill, Staged!World
    <3>. QED BY StepActions, <3>1, <3>2, <3>3, <3>4, <3>5, <3>6, <3>7, <3>8, <3>9, <3>10, <3>11,
                <3>12, <3>13, <3>14, <3>15, <3>16, <3>17, <3>18, <3>19, <3>20, <3>21, <3>22, <3>23,
                <3>24, <3>25, <3>26, <3>27
  <2>. QED BY <1>0, <2>1
<1>3. kind' = kind /\ source' = source /\ edits' = edits
  <2>1. CASE Staged!Create(c)
    BY <2>1 DEF Staged!Create, Staged!World
  <2>2. CASE Staged!Calibrate(c)
    BY <2>2 DEF Staged!Calibrate, Staged!World
  <2>3. CASE Staged!SaveNew(c)
    BY <2>3 DEF Staged!SaveNew, Staged!World
  <2>4. CASE Staged!ExtractCandidate(c)
    BY <2>4 DEF Staged!ExtractCandidate, Staged!World
  <2>5. CASE Staged!RecordCandidate(c)
    BY <2>5 DEF Staged!RecordCandidate, Staged!World
  <2>6. CASE Staged!Resume(c)
    BY <2>6 DEF Staged!Resume, Staged!World
  <2>7. CASE Staged!Verify(c)
    BY <2>7 DEF Staged!Verify, Staged!World
  <2>8. CASE Staged!Extract(c)
    BY <2>8 DEF Staged!Extract, Staged!World
  <2>9. CASE Staged!RecordRender(c)
    BY <2>9 DEF Staged!RecordRender, Staged!World
  <2>10. CASE Staged!Validate(c)
    BY <2>10 DEF Staged!Validate, Staged!World
  <2>11. CASE Staged!KeepPrimitive(c)
    BY <2>11 DEF Staged!KeepPrimitive, Staged!World
  <2>12. CASE Staged!ExtractImage(c)
    BY <2>12 DEF Staged!ExtractImage, Staged!World
  <2>13. CASE Staged!ResetPage(c)
    BY <2>13 DEF Staged!ResetPage, Staged!World
  <2>14. CASE Staged!Regenerate(c)
    BY <2>14 DEF Staged!Regenerate, Staged!World
  <2>15. CASE Staged!RecordPrimitive(c)
    BY <2>15 DEF Staged!RecordPrimitive, Staged!World
  <2>16. CASE Staged!KeepSemantic(c)
    BY <2>16 DEF Staged!KeepSemantic, Staged!World
  <2>17. CASE Staged!MakeSemantic(c)
    BY <2>17 DEF Staged!MakeSemantic, Staged!World
  <2>18. CASE Staged!RecordSemantic(c)
    BY <2>18 DEF Staged!RecordSemantic, Staged!World
  <2>19. CASE Staged!ResetDxf(c)
    BY <2>19 DEF Staged!ResetDxf, Staged!World
  <2>20. CASE Staged!KeepDxf(c)
    BY <2>20 DEF Staged!KeepDxf, Staged!World
  <2>21. CASE Staged!ForgetDxf(c)
    BY <2>21 DEF Staged!ForgetDxf, Staged!World
  <2>22. CASE Staged!BuildDxf(c)
    BY <2>22 DEF Staged!BuildDxf, Staged!World
  <2>23. CASE Staged!WriteEvidence(c)
    BY <2>23 DEF Staged!WriteEvidence, Staged!World
  <2>24. CASE Staged!RecordDxf(c)
    BY <2>24 DEF Staged!RecordDxf, Staged!World
  <2>25. CASE Staged!RecordEvidence(c)
    BY <2>25 DEF Staged!RecordEvidence, Staged!World
  <2>26. CASE Staged!Fail(c)
    BY <2>26 DEF Staged!Fail, Staged!World
  <2>27. CASE Staged!Kill(c)
    BY <2>27 DEF Staged!Kill, Staged!World
  <2>. QED BY StepActions, <2>1, <2>2, <2>3, <2>4, <2>5, <2>6, <2>7, <2>8, <2>9, <2>10, <2>11,
              <2>12, <2>13, <2>14, <2>15, <2>16, <2>17, <2>18, <2>19, <2>20, <2>21, <2>22, <2>23,
              <2>24, <2>25, <2>26, <2>27
<1>4. raced' \subseteq Staged!Pages
  <2>1. raced' = raced \/ Staged!Race(c)
    <3>1. CASE Staged!Create(c)
      BY <3>1 DEF Staged!Create, Staged!World
    <3>2. CASE Staged!Calibrate(c)
      BY <3>2 DEF Staged!Calibrate, Staged!World
    <3>3. CASE Staged!SaveNew(c)
      BY <3>3 DEF Staged!SaveNew, Staged!World
    <3>4. CASE Staged!ExtractCandidate(c)
      BY <3>4 DEF Staged!ExtractCandidate, Staged!World
    <3>5. CASE Staged!RecordCandidate(c)
      BY <3>5 DEF Staged!RecordCandidate, Staged!World
    <3>6. CASE Staged!Resume(c)
      BY <3>6 DEF Staged!Resume, Staged!World
    <3>7. CASE Staged!Verify(c)
      BY <3>7 DEF Staged!Verify, Staged!World
    <3>8. CASE Staged!Extract(c)
      BY <3>8 DEF Staged!Extract, Staged!World
    <3>9. CASE Staged!RecordRender(c)
      BY <3>9 DEF Staged!RecordRender, Staged!World
    <3>10. CASE Staged!Validate(c)
      BY <3>10 DEF Staged!Validate, Staged!World
    <3>11. CASE Staged!KeepPrimitive(c)
      BY <3>11 DEF Staged!KeepPrimitive, Staged!World
    <3>12. CASE Staged!ExtractImage(c)
      BY <3>12 DEF Staged!ExtractImage, Staged!World
    <3>13. CASE Staged!ResetPage(c)
      BY <3>13 DEF Staged!ResetPage, Staged!World
    <3>14. CASE Staged!Regenerate(c)
      BY <3>14 DEF Staged!Regenerate, Staged!World
    <3>15. CASE Staged!RecordPrimitive(c)
      BY <3>15 DEF Staged!RecordPrimitive, Staged!World
    <3>16. CASE Staged!KeepSemantic(c)
      BY <3>16 DEF Staged!KeepSemantic, Staged!World
    <3>17. CASE Staged!MakeSemantic(c)
      BY <3>17 DEF Staged!MakeSemantic, Staged!World
    <3>18. CASE Staged!RecordSemantic(c)
      BY <3>18 DEF Staged!RecordSemantic, Staged!World
    <3>19. CASE Staged!ResetDxf(c)
      BY <3>19 DEF Staged!ResetDxf, Staged!World
    <3>20. CASE Staged!KeepDxf(c)
      BY <3>20 DEF Staged!KeepDxf, Staged!World
    <3>21. CASE Staged!ForgetDxf(c)
      BY <3>21 DEF Staged!ForgetDxf, Staged!World
    <3>22. CASE Staged!BuildDxf(c)
      BY <3>22 DEF Staged!BuildDxf, Staged!World
    <3>23. CASE Staged!WriteEvidence(c)
      BY <3>23 DEF Staged!WriteEvidence, Staged!World
    <3>24. CASE Staged!RecordDxf(c)
      BY <3>24 DEF Staged!RecordDxf, Staged!World
    <3>25. CASE Staged!RecordEvidence(c)
      BY <3>25 DEF Staged!RecordEvidence, Staged!World
    <3>26. CASE Staged!Fail(c)
      BY <3>26 DEF Staged!Fail, Staged!World, Staged!WritePart
    <3>27. CASE Staged!Kill(c)
      BY <3>27 DEF Staged!Kill, Staged!World, Staged!WritePart
    <3>. QED BY StepActions, <3>1, <3>2, <3>3, <3>4, <3>5, <3>6, <3>7, <3>8, <3>9, <3>10, <3>11,
                <3>12, <3>13, <3>14, <3>15, <3>16, <3>17, <3>18, <3>19, <3>20, <3>21, <3>22, <3>23,
                <3>24, <3>25, <3>26, <3>27
  <2>. QED BY <1>0, <2>1 DEF Staged!Race, Staged!Alive
<1>5. met' \in BOOLEAN /\ cut' \in BOOLEAN
  <2>1. CASE Staged!Create(c)
    BY <1>0, <2>1 DEF Staged!Create, Staged!World, Staged!Meet
  <2>2. CASE Staged!Calibrate(c)
    BY <1>0, <2>2 DEF Staged!Calibrate, Staged!World, Staged!Meet
  <2>3. CASE Staged!SaveNew(c)
    BY <1>0, <2>3 DEF Staged!SaveNew, Staged!World
  <2>4. CASE Staged!ExtractCandidate(c)
    BY <1>0, <2>4 DEF Staged!ExtractCandidate, Staged!World
  <2>5. CASE Staged!RecordCandidate(c)
    BY <1>0, <2>5 DEF Staged!RecordCandidate, Staged!World
  <2>6. CASE Staged!Resume(c)
    BY <1>0, <2>6 DEF Staged!Resume, Staged!World, Staged!Meet
  <2>7. CASE Staged!Verify(c)
    BY <1>0, <2>7 DEF Staged!Verify, Staged!World
  <2>8. CASE Staged!Extract(c)
    BY <1>0, <2>8 DEF Staged!Extract, Staged!World
  <2>9. CASE Staged!RecordRender(c)
    BY <1>0, <2>9 DEF Staged!RecordRender, Staged!World
  <2>10. CASE Staged!Validate(c)
    BY <1>0, <2>10 DEF Staged!Validate, Staged!World
  <2>11. CASE Staged!KeepPrimitive(c)
    BY <1>0, <2>11 DEF Staged!KeepPrimitive, Staged!World
  <2>12. CASE Staged!ExtractImage(c)
    BY <1>0, <2>12 DEF Staged!ExtractImage, Staged!World
  <2>13. CASE Staged!ResetPage(c)
    BY <1>0, <2>13 DEF Staged!ResetPage, Staged!World
  <2>14. CASE Staged!Regenerate(c)
    BY <1>0, <2>14 DEF Staged!Regenerate, Staged!World
  <2>15. CASE Staged!RecordPrimitive(c)
    BY <1>0, <2>15 DEF Staged!RecordPrimitive, Staged!World
  <2>16. CASE Staged!KeepSemantic(c)
    BY <1>0, <2>16 DEF Staged!KeepSemantic, Staged!World
  <2>17. CASE Staged!MakeSemantic(c)
    BY <1>0, <2>17 DEF Staged!MakeSemantic, Staged!World
  <2>18. CASE Staged!RecordSemantic(c)
    BY <1>0, <2>18 DEF Staged!RecordSemantic, Staged!World
  <2>19. CASE Staged!ResetDxf(c)
    BY <1>0, <2>19 DEF Staged!ResetDxf, Staged!World
  <2>20. CASE Staged!KeepDxf(c)
    BY <1>0, <2>20 DEF Staged!KeepDxf, Staged!World
  <2>21. CASE Staged!ForgetDxf(c)
    BY <1>0, <2>21 DEF Staged!ForgetDxf, Staged!World
  <2>22. CASE Staged!BuildDxf(c)
    BY <1>0, <2>22 DEF Staged!BuildDxf, Staged!World
  <2>23. CASE Staged!WriteEvidence(c)
    BY <1>0, <2>23 DEF Staged!WriteEvidence, Staged!World
  <2>24. CASE Staged!RecordDxf(c)
    BY <1>0, <2>24 DEF Staged!RecordDxf, Staged!World
  <2>25. CASE Staged!RecordEvidence(c)
    BY <1>0, <2>25 DEF Staged!RecordEvidence, Staged!World
  <2>26. CASE Staged!Fail(c)
    BY <1>0, <2>26 DEF Staged!Fail, Staged!World
  <2>27. CASE Staged!Kill(c)
    BY <1>0, <2>27 DEF Staged!Kill, Staged!World
  <2>. QED BY StepActions, <2>1, <2>2, <2>3, <2>4, <2>5, <2>6, <2>7, <2>8, <2>9, <2>10, <2>11,
              <2>12, <2>13, <2>14, <2>15, <2>16, <2>17, <2>18, <2>19, <2>20, <2>21, <2>22, <2>23,
              <2>24, <2>25, <2>26, <2>27
<1>. QED BY <1>1, <1>2, <1>3, <1>4, <1>5

LEMMA DataStays ==
    ASSUME StagedBounds, StagedTyped, NEW c \in Commands, Staged!Step(c)
    PROVE  DataTyped'
<1>1. /\ manifest = {} \/ \E m \in RunManifests : manifest = {m}
      /\ \A m \in manifest : m.mode = "candidate" => kind = "pdf"
      /\ copy[c].mode = "candidate" => kind = "pdf"
      /\ kind \in {"image", "pdf"} /\ source \in Staged!Sources
  BY DEF StagedTyped, DataTyped, ControlTyped
<1>2. /\ manifest' = {} \/ \E m \in RunManifests : manifest' = {m}
      /\ \A m \in manifest' : m.mode = "candidate" => kind = "pdf"
  BY <1>1, StepManifest
<1>. QED BY <1>1, <1>2, StepDisk DEF DataTyped

\* A person's edit leaves the commands alone.
LEMMA StagedEditStays ==
    ASSUME StagedBounds, StagedTyped,
           (\E p \in Staged!Pages, k \in Staged!Stages : Staged!EditFile(p, k)) \/ Staged!EditListing \/ Staged!ReplaceSource
    PROVE  /\ StagedTyped'
           /\ UNCHANGED <<kind, manifest, sPc, copy, at, kills, met, raced, cut>>
           /\ calm' = calm \ Staged!Alive
           /\ \/ disk' = disk
              \/ \E p \in Staged!Pages, k \in Staged!Stages :
                   /\ disk[p][k] # {}
                   /\ disk'[p][k] \in {{}, {Staged!Edited(k)}}
                   /\ \A q \in Staged!Pages, j \in Staged!Stages : <<q, j>> # <<p, k>> => disk'[q][j] = disk[q][j]
<1>1. UNCHANGED <<kind, manifest, sPc, copy, at, kills, met, raced, cut>> /\ calm' = calm \ Staged!Alive
  BY DEF Staged!EditFile, Staged!EditListing, Staged!ReplaceSource, Staged!Disturb
<1>2. source' \in Staged!Sources
  BY DEF Staged!EditFile, Staged!EditListing, Staged!ReplaceSource, StagedTyped, DataTyped
<1>3. listing' \in PageFiles
  BY MarksArePlain DEF Staged!EditFile, Staged!EditListing, Staged!ReplaceSource, StagedTyped, DataTyped
<1>4. ASSUME NEW p \in Staged!Pages, NEW k \in Staged!Stages, Staged!EditFile(p, k)
      PROVE  /\ disk' \in [Staged!Pages -> [Staged!Stages -> PageFiles]] /\ disk[p][k] # {}
             /\ disk'[p][k] \in {{}, {Staged!Edited(k)}}
             /\ \A q \in Staged!Pages, j \in Staged!Stages : <<q, j>> # <<p, k>> => disk'[q][j] = disk[q][j]
  <2>1. PICK new \in {{}, {Staged!Edited(k)}} : disk' = [disk EXCEPT ![p][k] = new]
    BY <1>4 DEF Staged!EditFile
  <2>2. new \in PageFiles
    BY MarksArePlain
  <2>3. disk \in [Staged!Pages -> [Staged!Stages -> PageFiles]]
    BY DEF StagedTyped, DataTyped
  <2>4. disk[p][k] # {}
    BY <1>4 DEF Staged!EditFile
  <2>. QED BY <2>1, <2>2, <2>3, <2>4
<1>5. CASE Staged!EditListing \/ Staged!ReplaceSource
  <2>1. disk' = disk
    BY <1>5 DEF Staged!EditListing, Staged!ReplaceSource
  <2>. QED BY <1>1, <1>2, <1>3, <2>1 DEF StagedTyped, DataTyped, ControlTyped, Staged!Alive
<1>6. CASE \E p \in Staged!Pages, k \in Staged!Stages : Staged!EditFile(p, k)
  <2>1. PICK p \in Staged!Pages, k \in Staged!Stages : Staged!EditFile(p, k)
    BY <1>6
  <2>2. disk' \in [Staged!Pages -> [Staged!Stages -> PageFiles]]
    BY <1>4, <2>1
  <2>3. DataTyped'
    BY <1>1, <1>2, <1>3, <2>2 DEF StagedTyped, DataTyped
  <2>4. ControlTyped'
    BY <1>1 DEF StagedTyped, ControlTyped, Staged!Alive
  <2>. QED BY <1>1, <1>4, <2>1, <2>3, <2>4 DEF StagedTyped
<1>. QED BY <1>5, <1>6

LEMMA StagedTypedStart ==
    ASSUME StagedBounds, Staged!Init
    PROVE  StagedTyped
<1>1. {} \in PageFiles /\ 1 \in Staged!Pages /\ Staged!Empty \in [Staged!Stages -> PageFiles]
  BY DEF PageFiles, StagedBounds, Staged!Pages, Staged!Empty
<1>2. Staged!NoRun \in RunManifests /\ Staged!NoRun.mode = "manual"
  BY NoRunIs
<1>3. "idle" \in Staged!Resting /\ "idle" \notin DocumentSteps
  BY DEF Staged!Resting, DocumentSteps
<1>4. DataTyped
  BY <1>1 DEF Staged!Init, DataTyped, Staged!Sources
<1>5. ControlTyped
  BY <1>1, <1>2, <1>3 DEF Staged!Init, ControlTyped
<1>. QED BY <1>4, <1>5 DEF StagedTyped

\* A command leaves the others where they are.
LEMMA OthersWait ==
    ASSUME StagedTyped, NEW c \in Commands, Staged!Step(c)
    PROVE  \A d \in Commands \ {c} : sPc'[d] = sPc[d] /\ copy'[d] = copy[d] /\ at'[d] = at[d]
<1> DEFINE Waits == \A d \in Commands \ {c} : sPc'[d] = sPc[d] /\ copy'[d] = copy[d] /\ at'[d] = at[d]
<1>0. ASSUME NEW how, Staged!End(c, how) PROVE Waits
  BY <1>0 DEF Staged!End, Staged!Goto, StagedTyped, ControlTyped
<1>1. CASE Staged!Create(c)
  BY <1>0, <1>1 DEF Staged!Create, Staged!World, Staged!Goto, Staged!Save, Staged!NextPage,
     StagedTyped, ControlTyped
<1>2. CASE Staged!Calibrate(c)
  BY <1>0, <1>2 DEF Staged!Calibrate, Staged!World, Staged!Goto, Staged!Save, Staged!NextPage,
     StagedTyped, ControlTyped
<1>3. CASE Staged!SaveNew(c)
  BY <1>0, <1>3 DEF Staged!SaveNew, Staged!World, Staged!Goto, Staged!Save, Staged!NextPage,
     StagedTyped, ControlTyped
<1>4. CASE Staged!ExtractCandidate(c)
  BY <1>0, <1>4 DEF Staged!ExtractCandidate, Staged!World, Staged!Goto, Staged!Save,
     Staged!NextPage, StagedTyped, ControlTyped
<1>5. CASE Staged!RecordCandidate(c)
  BY <1>0, <1>5 DEF Staged!RecordCandidate, Staged!World, Staged!Goto, Staged!Save, Staged!NextPage,
     StagedTyped, ControlTyped
<1>6. CASE Staged!Resume(c)
  BY <1>0, <1>6 DEF Staged!Resume, Staged!World, Staged!Goto, Staged!Save, Staged!NextPage,
     StagedTyped, ControlTyped
<1>7. CASE Staged!Verify(c)
  BY <1>0, <1>7 DEF Staged!Verify, Staged!World, Staged!Goto, Staged!Save, Staged!NextPage,
     StagedTyped, ControlTyped
<1>8. CASE Staged!Extract(c)
  BY <1>0, <1>8 DEF Staged!Extract, Staged!World, Staged!Goto, Staged!Save, Staged!NextPage,
     StagedTyped, ControlTyped
<1>9. CASE Staged!RecordRender(c)
  BY <1>0, <1>9 DEF Staged!RecordRender, Staged!World, Staged!Goto, Staged!Save, Staged!NextPage,
     StagedTyped, ControlTyped
<1>10. CASE Staged!Validate(c)
  BY <1>0, <1>10 DEF Staged!Validate, Staged!World, Staged!Goto, Staged!Save, Staged!NextPage,
     StagedTyped, ControlTyped
<1>11. CASE Staged!KeepPrimitive(c)
  BY <1>0, <1>11 DEF Staged!KeepPrimitive, Staged!World, Staged!Goto, Staged!Save, Staged!NextPage,
     StagedTyped, ControlTyped
<1>12. CASE Staged!ExtractImage(c)
  BY <1>0, <1>12 DEF Staged!ExtractImage, Staged!World, Staged!Goto, Staged!Save, Staged!NextPage,
     StagedTyped, ControlTyped
<1>13. CASE Staged!ResetPage(c)
  BY <1>0, <1>13 DEF Staged!ResetPage, Staged!World, Staged!Goto, Staged!Save, Staged!NextPage,
     StagedTyped, ControlTyped
<1>14. CASE Staged!Regenerate(c)
  BY <1>0, <1>14 DEF Staged!Regenerate, Staged!World, Staged!Goto, Staged!Save, Staged!NextPage,
     StagedTyped, ControlTyped
<1>15. CASE Staged!RecordPrimitive(c)
  BY <1>0, <1>15 DEF Staged!RecordPrimitive, Staged!World, Staged!Goto, Staged!Save,
     Staged!NextPage, StagedTyped, ControlTyped
<1>16. CASE Staged!KeepSemantic(c)
  BY <1>0, <1>16 DEF Staged!KeepSemantic, Staged!World, Staged!Goto, Staged!Save, Staged!NextPage,
     StagedTyped, ControlTyped
<1>17. CASE Staged!MakeSemantic(c)
  BY <1>0, <1>17 DEF Staged!MakeSemantic, Staged!World, Staged!Goto, Staged!Save, Staged!NextPage,
     StagedTyped, ControlTyped
<1>18. CASE Staged!RecordSemantic(c)
  BY <1>0, <1>18 DEF Staged!RecordSemantic, Staged!World, Staged!Goto, Staged!Save, Staged!NextPage,
     StagedTyped, ControlTyped
<1>19. CASE Staged!ResetDxf(c)
  BY <1>0, <1>19 DEF Staged!ResetDxf, Staged!World, Staged!Goto, Staged!Save, Staged!NextPage,
     StagedTyped, ControlTyped
<1>20. CASE Staged!KeepDxf(c)
  BY <1>0, <1>20 DEF Staged!KeepDxf, Staged!World, Staged!Goto, Staged!Save, Staged!NextPage,
     StagedTyped, ControlTyped
<1>21. CASE Staged!ForgetDxf(c)
  BY <1>0, <1>21 DEF Staged!ForgetDxf, Staged!World, Staged!Goto, Staged!Save, Staged!NextPage,
     StagedTyped, ControlTyped
<1>22. CASE Staged!BuildDxf(c)
  BY <1>0, <1>22 DEF Staged!BuildDxf, Staged!World, Staged!Goto, Staged!Save, Staged!NextPage,
     StagedTyped, ControlTyped
<1>23. CASE Staged!WriteEvidence(c)
  BY <1>0, <1>23 DEF Staged!WriteEvidence, Staged!World, Staged!Goto, Staged!Save, Staged!NextPage,
     StagedTyped, ControlTyped
<1>24. CASE Staged!RecordDxf(c)
  BY <1>0, <1>24 DEF Staged!RecordDxf, Staged!World, Staged!Goto, Staged!Save, Staged!NextPage,
     StagedTyped, ControlTyped
<1>25. CASE Staged!RecordEvidence(c)
  BY <1>0, <1>25 DEF Staged!RecordEvidence, Staged!World, Staged!Goto, Staged!Save, Staged!NextPage,
     StagedTyped, ControlTyped
<1>26. CASE Staged!Fail(c)
  BY <1>0, <1>26 DEF Staged!Fail, Staged!World, Staged!Goto, Staged!Save, Staged!NextPage,
     StagedTyped, ControlTyped
<1>27. CASE Staged!Kill(c)
  BY <1>0, <1>27 DEF Staged!Kill, Staged!World, Staged!Goto, Staged!Save, Staged!NextPage,
     StagedTyped, ControlTyped
<1>. QED BY StepActions, <1>1, <1>2, <1>3, <1>4, <1>5, <1>6, <1>7, <1>8, <1>9, <1>10, <1>11, <1>12,
            <1>13, <1>14, <1>15, <1>16, <1>17, <1>18, <1>19, <1>20, <1>21, <1>22, <1>23, <1>24,
            <1>25, <1>26, <1>27

-----------------------------------------------------------------------------
(* Which steps come after an estimate was refused, and what they hold. *)

\* Past its verification a command holds what it held, what it has saved, or
\* nothing any more.
Late(c) == sPc[c] \in StagedSteps \ {"save new", "verify", "candidate", "record candidate"}

LEMMA LateCopy ==
    ASSUME StagedTyped, NEW c \in Commands, Staged!Step(c), Late(c)
    PROVE  /\ Late(c)' \/ sPc'[c] \in {"done", "failed", "killed"}
           /\ \/ copy'[c] = copy[c]
              \/ copy'[c] = Staged!NoRun
              \/ copy'[c].mode = copy[c].mode /\ manifest' = {copy'[c]}
<1> DEFINE Goes == Late(c)' \/ sPc'[c] \in {"done", "failed", "killed"}
           Holds == \/ copy'[c] = copy[c]
                    \/ copy'[c] = Staged!NoRun
                    \/ copy'[c].mode = copy[c].mode /\ manifest' = {copy'[c]}
<1>0. sPc[c] \in StagedSteps \ {"save new", "verify", "candidate", "record candidate"} /\ sPc[c] # "idle"
  BY DEF Late, StagedSteps
<1>1. ASSUME NEW how \in {"done", "failed", "killed"}, Staged!End(c, how) PROVE Goes /\ Holds
  BY <1>1 DEF Staged!End, Staged!Goto, StagedTyped, ControlTyped
<1>2. ASSUME NEW s, Staged!Goto(c, s), s \in StagedSteps \ {"save new", "verify", "candidate", "record candidate"} PROVE Goes
  BY <1>2 DEF Staged!Goto, Late, StagedTyped, ControlTyped
<1>3. ASSUME NEW m, Staged!Save(c, m), m.mode = copy[c].mode PROVE Holds
  BY <1>3 DEF Staged!Save, StagedTyped, ControlTyped
<1>50. /\ Staged!Rendered(c).mode = copy[c].mode
       /\ \A S : Staged!Forgotten(c, S).mode = copy[c].mode
       /\ \A k \in Staged!Stages : Staged!Recorded(c, k).mode = copy[c].mode
  BY ForgottenIs, RecordedIs, RenderedIs
<1>4. \A s \in {"render", "record render", "validate",
       "primitive", "regenerate", "record primitive", "semantic", "record semantic", "reset dxf",
       "dxf", "evidence", "record dxf", "record evidence"} :
         s \in StagedSteps \ {"save new", "verify", "candidate", "record candidate"}
  BY DEF StagedSteps
<1>. SUFFICES Goes /\ Holds
  OBVIOUS
<1>. HIDE DEF Goes, Holds
<1>5. CASE Staged!Extract(c)
  BY <1>1, <1>2, <1>3, <1>4, <1>50, <1>5, StageNames DEF Staged!Extract, Staged!World, Holds, Staged!Reset
<1>6. CASE Staged!RecordRender(c)
  BY <1>1, <1>2, <1>3, <1>4, <1>50, <1>6, StageNames DEF Staged!RecordRender, Staged!World, Holds,
     Staged!Reset
<1>7. CASE Staged!Validate(c)
  BY <1>1, <1>2, <1>3, <1>4, <1>50, <1>7, StageNames DEF Staged!Validate, Staged!World, Holds, Staged!Reset
<1>8. CASE Staged!KeepPrimitive(c)
  BY <1>1, <1>2, <1>3, <1>4, <1>50, <1>8, StageNames DEF Staged!KeepPrimitive, Staged!World, Holds,
     Staged!Reset
<1>9. CASE Staged!ExtractImage(c)
  BY <1>1, <1>2, <1>3, <1>4, <1>50, <1>9, StageNames DEF Staged!ExtractImage, Staged!World, Holds,
     Staged!Reset
<1>10. CASE Staged!ResetPage(c)
  BY <1>1, <1>2, <1>3, <1>4, <1>50, <1>10, StageNames DEF Staged!ResetPage, Staged!World, Holds, Staged!Reset
<1>11. CASE Staged!Regenerate(c)
  BY <1>1, <1>2, <1>3, <1>4, <1>50, <1>11, StageNames DEF Staged!Regenerate, Staged!World, Holds, Staged!Reset
<1>12. CASE Staged!RecordPrimitive(c)
  BY <1>1, <1>2, <1>3, <1>4, <1>50, <1>12, StageNames DEF Staged!RecordPrimitive, Staged!World,
     Holds, Staged!Reset
<1>13. CASE Staged!KeepSemantic(c)
  BY <1>1, <1>2, <1>3, <1>4, <1>50, <1>13, StageNames DEF Staged!KeepSemantic, Staged!World, Holds,
     Staged!Reset
<1>14. CASE Staged!MakeSemantic(c)
  BY <1>1, <1>2, <1>3, <1>4, <1>50, <1>14, StageNames DEF Staged!MakeSemantic, Staged!World, Holds,
     Staged!Reset
<1>15. CASE Staged!RecordSemantic(c)
  BY <1>1, <1>2, <1>3, <1>4, <1>50, <1>15, StageNames DEF Staged!RecordSemantic, Staged!World,
     Holds, Staged!Reset
<1>16. CASE Staged!ResetDxf(c)
  BY <1>1, <1>2, <1>3, <1>4, <1>50, <1>16, StageNames DEF Staged!ResetDxf, Staged!World, Holds, Staged!Reset
<1>17. CASE Staged!KeepDxf(c)
  <2>1. CASE at[c] = Staged!Last
    BY <1>1, <1>17, <2>1 DEF Staged!KeepDxf, Staged!NextPage
  <2>2. CASE at[c] # Staged!Last
    <3>1. Staged!Goto(c, "primitive")
      BY <1>17, <2>2 DEF Staged!KeepDxf, Staged!NextPage
    <3>2. Goes
      BY <1>2, <1>4, <3>1
    <3>3. Holds
      BY <1>3, <1>50, <1>17, <2>2, StageNames DEF Staged!KeepDxf, Staged!NextPage, Holds
    <3>. QED BY <3>2, <3>3
  <2>. QED BY <2>1, <2>2
<1>18. CASE Staged!ForgetDxf(c)
  BY <1>0, <1>3, <1>50, <1>18 DEF Staged!ForgetDxf, Goes, Late
<1>19. CASE Staged!BuildDxf(c)
  BY <1>1, <1>2, <1>3, <1>4, <1>50, <1>19, StageNames DEF Staged!BuildDxf, Staged!World, Holds, Staged!Reset
<1>20. CASE Staged!WriteEvidence(c)
  BY <1>1, <1>2, <1>3, <1>4, <1>50, <1>20, StageNames DEF Staged!WriteEvidence, Staged!World, Holds,
     Staged!Reset
<1>21. CASE Staged!RecordDxf(c)
  BY <1>1, <1>2, <1>3, <1>4, <1>50, <1>21, StageNames DEF Staged!RecordDxf, Staged!World, Holds, Staged!Reset
<1>22. CASE Staged!RecordEvidence(c)
  <2>1. CASE Staged!Missing(c, "evidence") \/ at[c] = Staged!Last
    BY <1>1, <1>22, <2>1 DEF Staged!RecordEvidence, Staged!NextPage
  <2>2. CASE ~Staged!Missing(c, "evidence") /\ at[c] # Staged!Last
    <3>1. Staged!Goto(c, "primitive")
      BY <1>22, <2>2 DEF Staged!RecordEvidence, Staged!NextPage
    <3>2. Goes
      BY <1>2, <1>4, <3>1
    <3>3. Holds
      BY <1>3, <1>50, <1>22, <2>2, StageNames DEF Staged!RecordEvidence, Staged!NextPage, Holds
    <3>. QED BY <3>2, <3>3
  <2>. QED BY <2>1, <2>2
<1>23. CASE Staged!Fail(c)
  BY <1>1, <1>23 DEF Staged!Fail
<1>24. ~Staged!Create(c)
  BY <1>0 DEF Staged!Create
<1>25. ~Staged!Calibrate(c)
  BY <1>0 DEF Staged!Calibrate
<1>26. ~Staged!Resume(c)
  BY <1>0 DEF Staged!Resume
<1>27. ~Staged!SaveNew(c)
  BY <1>0 DEF Staged!SaveNew
<1>28. ~Staged!ExtractCandidate(c)
  BY <1>0 DEF Staged!ExtractCandidate
<1>29. ~Staged!RecordCandidate(c)
  BY <1>0 DEF Staged!RecordCandidate
<1>30. ~Staged!Verify(c)
  BY <1>0 DEF Staged!Verify
<1>31. CASE Staged!Kill(c)
  BY <1>1, <1>31 DEF Staged!Kill
<1>. QED BY StepActions, <1>5, <1>6, <1>7, <1>8, <1>9, <1>10, <1>11, <1>12, <1>13, <1>14, <1>15,
            <1>16, <1>17, <1>18, <1>19, <1>20, <1>21, <1>22, <1>23, <1>24, <1>25, <1>26, <1>27,
            <1>28, <1>29, <1>30, <1>31 DEF Goes, Holds

LEMMA EarlyOrLate ==
    ASSUME NEW c, Staged!Step(c)
    PROVE  \/ Late(c) \/ Staged!Create(c) \/ Staged!Calibrate(c) \/ Staged!Resume(c) \/ Staged!SaveNew(c) \/ Staged!ExtractCandidate(c)
           \/ Staged!RecordCandidate(c) \/ Staged!Verify(c) \/ Staged!Kill(c)
<1>. SUFFICES ASSUME ~Late(c), ~Staged!Kill(c)
              PROVE  \/ Staged!Create(c) \/ Staged!Calibrate(c) \/ Staged!Resume(c) \/ Staged!SaveNew(c) \/ Staged!ExtractCandidate(c)
                     \/ Staged!RecordCandidate(c) \/ Staged!Verify(c)
  OBVIOUS
<1>1. sPc[c] \notin {"render", "record render", "validate", "primitive", "regenerate", "record primitive",
                  "semantic", "record semantic", "reset dxf", "dxf", "evidence", "record dxf",
                  "record evidence"}
  BY DEF Late, StagedSteps
<1>2. ~Staged!Extract(c) /\ ~Staged!RecordRender(c) /\ ~Staged!Validate(c) /\ ~Staged!KeepPrimitive(c) /\ ~Staged!ExtractImage(c) /\ ~Staged!ResetPage(c)
  BY <1>1 DEF Staged!Extract, Staged!RecordRender, Staged!Validate, Staged!KeepPrimitive,
     Staged!ExtractImage, Staged!ResetPage
<1>3. ~Staged!Regenerate(c) /\ ~Staged!RecordPrimitive(c) /\ ~Staged!KeepSemantic(c) /\ ~Staged!MakeSemantic(c) /\ ~Staged!RecordSemantic(c)
  BY <1>1 DEF Staged!Regenerate, Staged!RecordPrimitive, Staged!KeepSemantic, Staged!MakeSemantic,
     Staged!RecordSemantic
<1>4. ~Staged!ResetDxf(c) /\ ~Staged!KeepDxf(c) /\ ~Staged!ForgetDxf(c) /\ ~Staged!BuildDxf(c) /\ ~Staged!WriteEvidence(c) /\ ~Staged!RecordDxf(c)
      /\ ~Staged!RecordEvidence(c) /\ ~Staged!Fail(c)
  BY <1>1 DEF Staged!ResetDxf, Staged!KeepDxf, Staged!ForgetDxf, Staged!BuildDxf,
     Staged!WriteEvidence, Staged!RecordDxf, Staged!RecordEvidence, Staged!Fail, Staged!Making
<1>. QED BY <1>2, <1>3, <1>4, StepActions

LEMMA CandidateStays ==
    ASSUME StagedBounds, StagedTyped, CandidateInv, NEW c \in Commands, Staged!Step(c)
    PROVE  CandidateInv'
<1>0. \A m : m.mode = "manual" => HonestCandidate(m)
  BY DEF HonestCandidate
<1>1. /\ copy[c] \in RunManifests /\ copy[c].mode \in {"manual", "candidate"}
      /\ HonestCandidate(copy[c]) /\ \A m \in manifest : HonestCandidate(m)
  BY ManifestFacts DEF CandidateInv, StagedTyped, ControlTyped
<1> DEFINE Candid(d) == /\ HonestCandidate(copy[d])
                        /\ sPc[d] \in EstimateSteps => copy[d].mode = "candidate"
                        /\ Late(d) => copy[d].mode = "manual"
<1>2. \A d \in Commands : Candid(d)
  BY DEF CandidateInv, Late, EstimateSteps
<1>3. ASSUME Candid(c)', \A m \in manifest' : HonestCandidate(m)
      PROVE  CandidateInv'
  <2>1. \A d \in Commands \ {c} : Candid(d)'
    <3>. SUFFICES ASSUME NEW d \in Commands \ {c} PROVE Candid(d)'
      OBVIOUS
    <3>1. sPc'[d] = sPc[d] /\ copy'[d] = copy[d]
      BY OthersWait
    <3>2. Candid(d)
      BY <1>2
    <3>3. HonestCandidate(copy'[d])
      BY <3>1, <3>2
    <3>. QED BY <3>1, <3>2, <3>3 DEF HonestCandidate, Late
  <2>2. \A d \in Commands : Candid(d)'
    BY <1>3, <2>1
  <2>3. \A m \in manifest' : HonestCandidate(m)'
    BY <1>3 DEF HonestCandidate
  <2>. QED BY <2>2, <2>3 DEF CandidateInv, Late, EstimateSteps
<1>4. ASSUME NEW how \in {"done", "failed", "killed"}, Staged!End(c, how) PROVE Candid(c)'
  <2>1. copy'[c] = Staged!NoRun /\ sPc'[c] = how
    BY <1>4 DEF Staged!End, Staged!Goto, StagedTyped, ControlTyped
  <2>2. HonestCandidate(Staged!NoRun)
    BY <1>0, NoRunIs
  <2>. QED BY <2>1, <2>2 DEF HonestCandidate, Late, StagedSteps, EstimateSteps
<1>5. CASE Late(c)
  <2>1. copy[c].mode = "manual"
    BY <1>2, <1>5
  <2>2. \A m \in manifest' : HonestCandidate(m)
    BY <1>0, <1>1, <2>1, StepManifest
  <2>3. copy'[c].mode = "manual"
    BY <1>5, <2>1, LateCopy, NoRunIs
  <2>4. HonestCandidate(copy[c])'
    BY <2>3 DEF HonestCandidate
  <2>5. sPc'[c] \notin EstimateSteps
    BY <1>5, LateCopy DEF Late, EstimateSteps
  <2>. QED BY <1>3, <2>2, <2>3, <2>4, <2>5
<1>6. CASE Staged!Create(c) \/ Staged!Calibrate(c)
  <2>1. PICK how \in {"manual", "candidate"} : copy' = [copy EXCEPT ![c] = Staged!NewRun(source, how)]
    BY <1>6 DEF Staged!Create, Staged!Calibrate
  <2>2. sPc' = [sPc EXCEPT ![c] = "save new"] /\ manifest' = manifest
    BY <1>6 DEF Staged!Create, Staged!Calibrate, Staged!Goto
  <2>3. copy'[c] = Staged!NewRun(source, how) /\ sPc'[c] = "save new"
    BY <2>1, <2>2 DEF StagedTyped, ControlTyped
  <2>4. source \in Staged!Sources \cup {"none"}
    BY DEF StagedTyped, DataTyped
  <2>5. HonestCandidate(copy[c])'
    <3>1. HonestCandidate(Staged!NewRun(source, how))
      <4>1. "rendered" \in Staged!Stages /\ "primitive" \in Staged!Stages /\ "semantic" \in Staged!Stages
            /\ "dxf" \in Staged!Stages /\ "evidence" \in Staged!Stages
        BY StageNames
      <4>2. \A p \in Staged!Pages, k \in Staged!Stages : Staged!NewRun(source, how).page[p][k] = {}
        BY <2>4, NewRunIs
      <4>. QED BY <4>1, <4>2 DEF HonestCandidate
    <3>. QED BY <2>3, <3>1 DEF HonestCandidate
  <2>. QED BY <1>1, <1>3, <2>2, <2>3, <2>5 DEF Late, EstimateSteps
<1>7. CASE Staged!Resume(c)
  <2>1. PICK m \in manifest : copy' = [copy EXCEPT ![c] = m]
    BY <1>7 DEF Staged!Resume
  <2>2. sPc' = [sPc EXCEPT ![c] = "verify"] /\ manifest' = manifest
    BY <1>7 DEF Staged!Resume, Staged!Goto
  <2>3. copy'[c] = m /\ sPc'[c] = "verify"
    BY <2>1, <2>2 DEF StagedTyped, ControlTyped
  <2>5. HonestCandidate(copy[c])'
    BY <1>1, <2>3 DEF HonestCandidate
  <2>. QED BY <1>1, <1>3, <2>2, <2>3, <2>5 DEF Late, EstimateSteps
<1>8. CASE Staged!SaveNew(c)
  <2>1. copy' = [copy EXCEPT ![c] = copy[c]] /\ manifest' = {copy[c]}
        /\ sPc' = [sPc EXCEPT ![c] = IF copy[c].mode = "manual" THEN "verify" ELSE "candidate"]
    BY <1>8 DEF Staged!SaveNew, Staged!Save, Staged!Goto
  <2>2. copy'[c] = copy[c] /\ sPc'[c] = IF copy[c].mode = "manual" THEN "verify" ELSE "candidate"
    BY <2>1 DEF StagedTyped, ControlTyped
  <2>3. HonestCandidate(copy[c])'
    BY <1>1, <2>2 DEF HonestCandidate
  <2>4. \A m \in manifest' : HonestCandidate(m)
    BY <1>1, <2>1
  <2>5. ~Late(c)'
    BY <2>2 DEF Late
  <2>. QED BY <1>1, <1>3, <2>2, <2>3, <2>4, <2>5 DEF EstimateSteps
<1>9. CASE Staged!ExtractCandidate(c)
  <2>1. copy[c].mode = "candidate"
    BY <1>2, <1>9 DEF Staged!ExtractCandidate, EstimateSteps
  <2>2. \A m \in manifest' : HonestCandidate(m)
    BY <1>1, <1>9 DEF Staged!ExtractCandidate
  <2>3. \/ Staged!End(c, "done") \/ Staged!End(c, "failed")
        \/ Staged!Goto(c, "record candidate") /\ copy' = copy
    BY <1>9 DEF Staged!ExtractCandidate
  <2>4. CASE Staged!Goto(c, "record candidate") /\ copy' = copy
    <3>1. sPc'[c] = "record candidate" /\ copy'[c] = copy[c]
      BY <2>4 DEF Staged!Goto, StagedTyped, ControlTyped
    <3>2. HonestCandidate(copy[c])'
      BY <1>1, <3>1 DEF HonestCandidate
    <3>. QED BY <1>3, <2>1, <2>2, <3>1, <3>2 DEF Late
  <2>. QED BY <1>3, <1>4, <2>2, <2>3, <2>4
<1>10. CASE Staged!RecordCandidate(c)
  <2>1. Staged!End(c, "done") \/ Staged!End(c, "failed")
    BY <1>10 DEF Staged!RecordCandidate
  <2>2. ASSUME NEW m \in manifest' PROVE HonestCandidate(m)
    <3>1. CASE m \in manifest
      BY <1>1, <3>1
    <3>2. CASE m \notin manifest
      <4>1. m = Staged!Rendered(c) /\ \A p \in Staged!Pages : disk[p]["rendered"] = disk[p]["primitive"]
        BY <1>10, <2>2, <3>2 DEF Staged!RecordCandidate
      <4>2. "rendered" \in Staged!Stages /\ "primitive" \in Staged!Stages /\ "semantic" \in Staged!Stages
            /\ "dxf" \in Staged!Stages /\ "evidence" \in Staged!Stages
        BY StageNames
      <4>3. \A p \in Staged!Pages, j \in Staged!Stages :
              m.page[p][j] = IF j \in {"rendered", "primitive"} THEN disk[p][j] ELSE {}
        BY <4>1, RenderedIs
      <4>. QED BY <4>1, <4>2, <4>3 DEF HonestCandidate
    <3>. QED BY <3>1, <3>2
  <2>. QED BY <1>3, <1>4, <2>1, <2>2
<1>11. CASE Staged!Verify(c)
  <2>1. manifest' = manifest
    BY <1>11 DEF Staged!Verify
  <2>2. \/ Staged!End(c, "failed")
        \/ copy[c].mode = "manual" /\ copy' = copy /\ \E s \in {"render", "primitive"} : Staged!Goto(c, s)
    BY <1>11 DEF Staged!Verify
  <2>3. CASE copy[c].mode = "manual" /\ copy' = copy /\ \E s \in {"render", "primitive"} : Staged!Goto(c, s)
    <3>1. sPc'[c] \in {"render", "primitive"} /\ copy'[c] = copy[c]
      BY <2>3 DEF Staged!Goto, StagedTyped, ControlTyped
    <3>2. HonestCandidate(copy[c])'
      BY <1>1, <3>1 DEF HonestCandidate
    <3>. QED BY <1>1, <1>3, <2>1, <2>3, <3>1, <3>2 DEF Late, EstimateSteps
  <2>. QED BY <1>1, <1>3, <1>4, <2>1, <2>2, <2>3
<1>12. CASE Staged!Kill(c)
  BY <1>1, <1>3, <1>4, <1>12 DEF Staged!Kill
<1>. QED BY <1>5, <1>6, <1>7, <1>8, <1>9, <1>10, <1>11, <1>12, EarlyOrLate

-----------------------------------------------------------------------------
(* Whose builds the files and records name. *)

\* What a command holds after a step.
LEMMA StepCopy ==
    ASSUME StagedTyped, NEW c \in Commands, Staged!Step(c)
    PROVE  \/ copy'[c] = copy[c]
           \/ \A p \in Staged!Pages, k \in Staged!Stages : copy'[c].page[p][k] = {}
           \/ copy'[c] \in manifest
           \/ manifest' = {copy'[c]}
<1>0. source \in Staged!Sources \cup {"none"}
  BY DEF StagedTyped, DataTyped
<1>1. ASSUME NEW m, copy' = [copy EXCEPT ![c] = m] PROVE copy'[c] = m
  BY <1>1 DEF StagedTyped, ControlTyped
<1>2. CASE Staged!Create(c) \/ Staged!Calibrate(c)
  <2>1. PICK how \in {"manual", "candidate"} : copy' = [copy EXCEPT ![c] = Staged!NewRun(source, how)]
    BY <1>2 DEF Staged!Create, Staged!Calibrate
  <2>2. copy'[c] = Staged!NewRun(source, how)
    BY <1>1, <2>1
  <2>. QED BY <1>0, <2>2, NewRunIs
<1>3. CASE Staged!Resume(c)
  <2>1. PICK m \in manifest : copy' = [copy EXCEPT ![c] = m]
    BY <1>3 DEF Staged!Resume
  <2>2. copy'[c] = m
    BY <1>1, <2>1
  <2>. QED BY <2>2
<1>4. ASSUME NEW how, Staged!End(c, how) PROVE \A p \in Staged!Pages, k \in Staged!Stages : copy'[c].page[p][k] = {}
  <2>1. copy'[c] = Staged!NoRun
    BY <1>1, <1>4 DEF Staged!End
  <2>. QED BY <2>1, NoRunIs
<1>5. CASE Staged!SaveNew(c)
  BY <1>1, <1>5 DEF Staged!SaveNew, Staged!Save
<1>6. CASE Staged!ExtractCandidate(c) \/ Staged!RecordCandidate(c) \/ Staged!Verify(c) \/ Staged!Kill(c)
  BY <1>4, <1>6 DEF Staged!ExtractCandidate, Staged!RecordCandidate, Staged!Verify, Staged!Kill
<1>7. CASE Late(c)
  BY <1>7, LateCopy, NoRunIs
<1>. QED BY <1>2, <1>3, <1>5, <1>6, <1>7, EarlyOrLate

\* Who has built a page has built it for good.
LEMMA BuiltStays ==
    ASSUME StagedTyped, NEW c \in Commands, Staged!Step(c), NEW d \in Commands, NEW p \in Staged!Pages, Built(d, p)
    PROVE  Built(d, p)'
<1>1. CASE d # c
  BY <1>1, OthersWait DEF Built
<1>2. CASE d = c
  <2>0. /\ at[c] \in Nat /\ p \in Nat
        /\ sPc[c] \notin {"done", "failed", "killed"}
    <3>1. sPc[c] \notin {"done", "failed", "killed"}
      <4>1. CASE Staged!Create(c)
        BY <4>1 DEF Staged!Create
      <4>2. CASE Staged!Calibrate(c)
        BY <4>2 DEF Staged!Calibrate
      <4>3. CASE Staged!SaveNew(c)
        BY <4>3 DEF Staged!SaveNew
      <4>4. CASE Staged!ExtractCandidate(c)
        BY <4>4 DEF Staged!ExtractCandidate
      <4>5. CASE Staged!RecordCandidate(c)
        BY <4>5 DEF Staged!RecordCandidate
      <4>6. CASE Staged!Resume(c)
        BY <4>6 DEF Staged!Resume
      <4>7. CASE Staged!Verify(c)
        BY <4>7 DEF Staged!Verify
      <4>8. CASE Staged!Extract(c)
        BY <4>8 DEF Staged!Extract
      <4>9. CASE Staged!RecordRender(c)
        BY <4>9 DEF Staged!RecordRender
      <4>10. CASE Staged!Validate(c)
        BY <4>10 DEF Staged!Validate
      <4>11. CASE Staged!KeepPrimitive(c)
        BY <4>11 DEF Staged!KeepPrimitive
      <4>12. CASE Staged!ExtractImage(c)
        BY <4>12 DEF Staged!ExtractImage
      <4>13. CASE Staged!ResetPage(c)
        BY <4>13 DEF Staged!ResetPage
      <4>14. CASE Staged!Regenerate(c)
        BY <4>14 DEF Staged!Regenerate
      <4>15. CASE Staged!RecordPrimitive(c)
        BY <4>15 DEF Staged!RecordPrimitive
      <4>16. CASE Staged!KeepSemantic(c)
        BY <4>16 DEF Staged!KeepSemantic
      <4>17. CASE Staged!MakeSemantic(c)
        BY <4>17 DEF Staged!MakeSemantic
      <4>18. CASE Staged!RecordSemantic(c)
        BY <4>18 DEF Staged!RecordSemantic
      <4>19. CASE Staged!ResetDxf(c)
        BY <4>19 DEF Staged!ResetDxf
      <4>20. CASE Staged!KeepDxf(c)
        BY <4>20 DEF Staged!KeepDxf
      <4>21. CASE Staged!ForgetDxf(c)
        BY <4>21 DEF Staged!ForgetDxf
      <4>22. CASE Staged!BuildDxf(c)
        BY <4>22 DEF Staged!BuildDxf
      <4>23. CASE Staged!WriteEvidence(c)
        BY <4>23 DEF Staged!WriteEvidence
      <4>24. CASE Staged!RecordDxf(c)
        BY <4>24 DEF Staged!RecordDxf
      <4>25. CASE Staged!RecordEvidence(c)
        BY <4>25 DEF Staged!RecordEvidence
      <4>26. CASE Staged!Fail(c)
        BY <4>26 DEF Staged!Fail, Staged!Making
      <4>27. CASE Staged!Kill(c)
        BY <4>27 DEF Staged!Kill, Staged!Alive, Staged!Resting
      <4>. QED BY StepActions, <4>1, <4>2, <4>3, <4>4, <4>5, <4>6, <4>7, <4>8, <4>9, <4>10, <4>11,
                  <4>12, <4>13, <4>14, <4>15, <4>16, <4>17, <4>18, <4>19, <4>20, <4>21, <4>22,
                  <4>23, <4>24, <4>25, <4>26, <4>27
    <3>. QED BY <3>1 DEF StagedTyped, ControlTyped, Staged!Pages
  <2>1. at[c] > p \/ (at[c] = p /\ sPc[c] \in Staged!Building)
    BY <1>2, <2>0 DEF Built
  <2>2. CASE sPc'[c] \in {"done", "failed", "killed"}
    BY <1>2, <2>2 DEF Built
  <2>3. CASE at'[c] = at[c] + 1
    BY <1>2, <2>0, <2>1, <2>3 DEF Built
  <2>4. CASE at'[c] = at[c] /\ (sPc[c] \in Staged!Building => sPc'[c] \in Staged!Building)
    BY <1>2, <2>0, <2>1, <2>4 DEF Built
  <2>5. \/ sPc'[c] \in {"done", "failed", "killed"}
        \/ at'[c] = at[c] + 1
        \/ at'[c] = at[c] /\ (sPc[c] \in Staged!Building => sPc'[c] \in Staged!Building)
    <3> DEFINE Onward == \/ sPc'[c] \in {"done", "failed", "killed"}
                         \/ at'[c] = at[c] + 1
                         \/ at'[c] = at[c] /\ (sPc[c] \in Staged!Building => sPc'[c] \in Staged!Building)
    <3>1. ASSUME NEW how \in {"done", "failed", "killed"}, Staged!End(c, how) PROVE Onward
      BY <3>1 DEF Staged!End, Staged!Goto, StagedTyped, ControlTyped
    <3>2. ASSUME at' = at, sPc[c] \notin Staged!Building PROVE Onward
      BY <3>2
    <3>3. ASSUME at' = at, NEW s \in Staged!Building, Staged!Goto(c, s) PROVE Onward
      BY <3>3 DEF Staged!Goto, StagedTyped, ControlTyped
    <3>4. ASSUME at' = [at EXCEPT ![c] = @ + 1] PROVE Onward
      BY <3>4 DEF StagedTyped, ControlTyped
    <3>5. Staged!Building = {"evidence", "record dxf", "record evidence"}
      BY DEF Staged!Building
    <3>. SUFFICES Onward
      OBVIOUS
    <3>. HIDE DEF Onward
    <3>6. CASE Staged!Create(c)
      BY <3>1, <3>2, <3>3, <3>4, <3>5, <3>6 DEF Staged!Create, Staged!World
    <3>7. CASE Staged!Calibrate(c)
      BY <3>1, <3>2, <3>3, <3>4, <3>5, <3>7 DEF Staged!Calibrate, Staged!World
    <3>8. CASE Staged!SaveNew(c)
      BY <3>1, <3>2, <3>3, <3>4, <3>5, <3>8 DEF Staged!SaveNew, Staged!World
    <3>9. CASE Staged!ExtractCandidate(c)
      BY <3>1, <3>2, <3>3, <3>4, <3>5, <3>9 DEF Staged!ExtractCandidate, Staged!World
    <3>10. CASE Staged!RecordCandidate(c)
      BY <3>1, <3>2, <3>3, <3>4, <3>5, <3>10 DEF Staged!RecordCandidate, Staged!World
    <3>11. CASE Staged!Resume(c)
      BY <3>1, <3>2, <3>3, <3>4, <3>5, <3>11 DEF Staged!Resume, Staged!World
    <3>12. CASE Staged!Verify(c)
      BY <3>1, <3>2, <3>3, <3>4, <3>5, <3>12 DEF Staged!Verify, Staged!World
    <3>13. CASE Staged!Extract(c)
      BY <3>1, <3>2, <3>3, <3>4, <3>5, <3>13 DEF Staged!Extract, Staged!World
    <3>14. CASE Staged!RecordRender(c)
      BY <3>1, <3>2, <3>3, <3>4, <3>5, <3>14 DEF Staged!RecordRender, Staged!World
    <3>15. CASE Staged!Validate(c)
      BY <3>1, <3>2, <3>3, <3>4, <3>5, <3>15 DEF Staged!Validate, Staged!World
    <3>16. CASE Staged!KeepPrimitive(c)
      BY <3>1, <3>2, <3>3, <3>4, <3>5, <3>16 DEF Staged!KeepPrimitive, Staged!World
    <3>17. CASE Staged!ExtractImage(c)
      BY <3>1, <3>2, <3>3, <3>4, <3>5, <3>17 DEF Staged!ExtractImage, Staged!World
    <3>18. CASE Staged!ResetPage(c)
      BY <3>1, <3>2, <3>3, <3>4, <3>5, <3>18 DEF Staged!ResetPage, Staged!World
    <3>19. CASE Staged!Regenerate(c)
      BY <3>1, <3>2, <3>3, <3>4, <3>5, <3>19 DEF Staged!Regenerate, Staged!World
    <3>20. CASE Staged!RecordPrimitive(c)
      BY <3>1, <3>2, <3>3, <3>4, <3>5, <3>20 DEF Staged!RecordPrimitive, Staged!World
    <3>21. CASE Staged!KeepSemantic(c)
      BY <3>1, <3>2, <3>3, <3>4, <3>5, <3>21 DEF Staged!KeepSemantic, Staged!World
    <3>22. CASE Staged!MakeSemantic(c)
      BY <3>1, <3>2, <3>3, <3>4, <3>5, <3>22 DEF Staged!MakeSemantic, Staged!World
    <3>23. CASE Staged!RecordSemantic(c)
      BY <3>1, <3>2, <3>3, <3>4, <3>5, <3>23 DEF Staged!RecordSemantic, Staged!World
    <3>24. CASE Staged!ResetDxf(c)
      BY <3>1, <3>2, <3>3, <3>4, <3>5, <3>24 DEF Staged!ResetDxf, Staged!World
    <3>25. CASE Staged!KeepDxf(c)
      BY <3>1, <3>2, <3>3, <3>4, <3>5, <3>25 DEF Staged!KeepDxf, Staged!World, Staged!NextPage
    <3>26. CASE Staged!ForgetDxf(c)
      BY <3>1, <3>2, <3>3, <3>4, <3>5, <3>26 DEF Staged!ForgetDxf, Staged!World
    <3>27. CASE Staged!BuildDxf(c)
      BY <3>1, <3>2, <3>3, <3>4, <3>5, <3>27 DEF Staged!BuildDxf, Staged!World
    <3>28. CASE Staged!WriteEvidence(c)
      BY <3>1, <3>2, <3>3, <3>4, <3>5, <3>28 DEF Staged!WriteEvidence, Staged!World
    <3>29. CASE Staged!RecordDxf(c)
      BY <3>1, <3>2, <3>3, <3>4, <3>5, <3>29 DEF Staged!RecordDxf, Staged!World
    <3>30. CASE Staged!RecordEvidence(c)
      BY <3>1, <3>2, <3>3, <3>4, <3>5, <3>30 DEF Staged!RecordEvidence, Staged!World
    <3>31. CASE Staged!Fail(c)
      BY <3>1, <3>2, <3>3, <3>4, <3>5, <3>31 DEF Staged!Fail, Staged!World
    <3>32. CASE Staged!Kill(c)
      BY <3>1, <3>2, <3>3, <3>4, <3>5, <3>32 DEF Staged!Kill, Staged!World
    <3>. QED BY StepActions, <3>6, <3>7, <3>8, <3>9, <3>10, <3>11, <3>12, <3>13, <3>14, <3>15,
                <3>16, <3>17, <3>18, <3>19, <3>20, <3>21, <3>22, <3>23, <3>24, <3>25, <3>26, <3>27,
                <3>28, <3>29, <3>30, <3>31, <3>32
  <2>. QED BY <2>2, <2>3, <2>4, <2>5
<1>. QED BY <1>1, <1>2

\* What a step makes of the files of a page.
LEMMA StepFiles ==
    ASSUME StagedBounds, StagedTyped, NEW c \in Commands, Staged!Step(c), NEW p \in Staged!Pages
    PROVE  /\ disk'[p]["primitive"] \in {disk[p]["primitive"], {{source}}, {Staged!Partial}}
           /\ disk'[p]["semantic"] \in {disk[p]["semantic"], disk[p]["primitive"], {Staged!Partial}}
           /\ disk'[p]["evidence"] \in {disk[p]["evidence"], disk[p]["dxf"], {Staged!Partial}}
           /\ disk'[p]["dxf"] \in {disk[p]["dxf"], {Staged!Partial}} \/ Staged!BuildDxf(c)
<1> DEFINE Result == /\ disk'[p]["primitive"] \in {disk[p]["primitive"], {{source}}, {Staged!Partial}}
                     /\ disk'[p]["semantic"] \in {disk[p]["semantic"], disk[p]["primitive"], {Staged!Partial}}
                     /\ disk'[p]["evidence"] \in {disk[p]["evidence"], disk[p]["dxf"], {Staged!Partial}}
                     /\ disk'[p]["dxf"] \in {disk[p]["dxf"], {Staged!Partial}} \/ Staged!BuildDxf(c)
<1>0. /\ {Staged!Partial} \in PageFiles /\ {{source}} \in PageFiles
      /\ Staged!File(c, "dxf") \in PageFiles /\ Staged!File(c, "primitive") \in PageFiles
  <2>1. source \in Staged!Sources
    BY DEF StagedTyped, DataTyped
  <2>2. {Staged!Partial} \in PageFiles /\ {{source}} \in PageFiles
    BY <2>1, MarksArePlain
  <2>3. \A j \in Staged!Stages : Staged!File(c, j) \in PageFiles
    BY DEF Staged!File, StagedTyped, DataTyped, ControlTyped
  <2>. QED BY <2>2, <2>3, StageNames
<1>1. CASE disk' = disk
  BY <1>1
<1>2. ASSUME NEW written, Staged!WritePages(written) PROVE Result
  BY <1>2, WritePagesIs, StageNames
<1>3. ASSUME NEW k \in Staged!Stages, NEW F \in PageFiles, Staged!Put(c, k, F)
      PROVE  \A j \in Staged!Stages : disk'[p][j] = IF p = at[c] /\ j = k THEN F ELSE disk[p][j]
  BY <1>3, PutIs
<1>4. ASSUME NEW k \in Staged!Stages, Staged!Put(c, k, {Staged!Partial}) PROVE Result
  BY <1>0, <1>3, <1>4, StageNames
<1>5. CASE Staged!Put(c, "primitive", {{source}})
  BY <1>0, <1>3, <1>5, StageNames
<1>6. CASE Staged!Put(c, "semantic", Staged!File(c, "primitive"))
  BY <1>0, <1>3, <1>6, StageNames DEF Staged!File
<1>7. CASE Staged!Put(c, "evidence", Staged!File(c, "dxf"))
  BY <1>0, <1>3, <1>7, StageNames DEF Staged!File
<1>8. CASE Staged!BuildDxf(c)
  <2>1. PICK i \in Staged!File(c, "primitive"), s \in Staged!File(c, "semantic") : Staged!Put(c, "dxf", {i \cup s \cup {c}})
    BY <1>8 DEF Staged!BuildDxf
  <2>2. i \in PageContents /\ s \in PageContents
    <3>0. \A j \in Staged!Stages : Staged!File(c, j) \in PageFiles
      BY DEF Staged!File, StagedTyped, DataTyped, ControlTyped
    <3>1. Staged!File(c, "primitive") \in PageFiles /\ Staged!File(c, "semantic") \in PageFiles
      BY <3>0, StageNames
    <3>. QED BY <2>1, <3>1, FileFacts
  <2>3. {i \cup s \cup {c}} \in PageFiles
    BY <2>2 DEF PageFiles, PageContents
  <2>4. \A j \in Staged!Stages : disk'[p][j] = IF p = at[c] /\ j = "dxf" THEN {i \cup s \cup {c}} ELSE disk[p][j]
    BY <1>3, <2>1, <2>3, StageNames
  <2>. QED BY <1>8, <2>4, StageNames
<1>9. \/ disk' = disk \/ (\E written : Staged!WritePages(written)) \/ (\E j \in Staged!Stages : Staged!Put(c, j, {Staged!Partial}))
      \/ Staged!Put(c, "primitive", {{source}}) \/ Staged!Put(c, "semantic", Staged!File(c, "primitive"))
      \/ Staged!Put(c, "evidence", Staged!File(c, "dxf")) \/ Staged!BuildDxf(c)
  <2>1. CASE Staged!Create(c)
    BY <2>1 DEF Staged!Create, Staged!World
  <2>2. CASE Staged!Calibrate(c)
    BY <2>2 DEF Staged!Calibrate, Staged!World
  <2>3. CASE Staged!SaveNew(c)
    BY <2>3 DEF Staged!SaveNew, Staged!World
  <2>4. CASE Staged!ExtractCandidate(c)
    BY <2>4 DEF Staged!ExtractCandidate, Staged!World
  <2>5. CASE Staged!RecordCandidate(c)
    BY <2>5 DEF Staged!RecordCandidate, Staged!World
  <2>6. CASE Staged!Resume(c)
    BY <2>6 DEF Staged!Resume, Staged!World
  <2>7. CASE Staged!Verify(c)
    BY <2>7 DEF Staged!Verify, Staged!World
  <2>8. CASE Staged!Extract(c)
    BY <2>8 DEF Staged!Extract, Staged!World
  <2>9. CASE Staged!RecordRender(c)
    BY <2>9 DEF Staged!RecordRender, Staged!World
  <2>10. CASE Staged!Validate(c)
    BY <2>10 DEF Staged!Validate, Staged!World
  <2>11. CASE Staged!KeepPrimitive(c)
    BY <2>11 DEF Staged!KeepPrimitive, Staged!World
  <2>12. CASE Staged!ExtractImage(c)
    BY <2>12 DEF Staged!ExtractImage, Staged!World
  <2>13. CASE Staged!ResetPage(c)
    BY <2>13 DEF Staged!ResetPage, Staged!World
  <2>14. CASE Staged!Regenerate(c)
    BY <2>14 DEF Staged!Regenerate, Staged!World
  <2>15. CASE Staged!RecordPrimitive(c)
    BY <2>15 DEF Staged!RecordPrimitive, Staged!World
  <2>16. CASE Staged!KeepSemantic(c)
    BY <2>16 DEF Staged!KeepSemantic, Staged!World
  <2>17. CASE Staged!MakeSemantic(c)
    BY <2>17 DEF Staged!MakeSemantic, Staged!World
  <2>18. CASE Staged!RecordSemantic(c)
    BY <2>18 DEF Staged!RecordSemantic, Staged!World
  <2>19. CASE Staged!ResetDxf(c)
    BY <2>19 DEF Staged!ResetDxf, Staged!World
  <2>20. CASE Staged!KeepDxf(c)
    BY <2>20 DEF Staged!KeepDxf, Staged!World
  <2>21. CASE Staged!ForgetDxf(c)
    BY <2>21 DEF Staged!ForgetDxf, Staged!World
  <2>22. CASE Staged!WriteEvidence(c)
    BY <2>22 DEF Staged!WriteEvidence, Staged!World
  <2>23. CASE Staged!RecordDxf(c)
    BY <2>23 DEF Staged!RecordDxf, Staged!World
  <2>24. CASE Staged!RecordEvidence(c)
    BY <2>24 DEF Staged!RecordEvidence, Staged!World
  <2>25. CASE Staged!Fail(c)
    BY <2>25, StageNames DEF Staged!Fail, Staged!World, Staged!WritePart, Staged!Making
  <2>26. CASE Staged!Kill(c)
    BY <2>26, StageNames DEF Staged!Kill, Staged!World, Staged!WritePart, Staged!Making
  <2>. QED BY StepActions, <2>1, <2>2, <2>3, <2>4, <2>5, <2>6, <2>7, <2>8, <2>9, <2>10, <2>11,
              <2>12, <2>13, <2>14, <2>15, <2>16, <2>17, <2>18, <2>19, <2>20, <2>21, <2>22, <2>23,
              <2>24, <2>25, <2>26
<1>. SUFFICES Result
  OBVIOUS
<1>10. (disk' = disk \/ Staged!Put(c, "primitive", {{source}}) \/ Staged!Put(c, "semantic", Staged!File(c, "primitive"))
          \/ Staged!Put(c, "evidence", Staged!File(c, "dxf")) \/ Staged!BuildDxf(c)) => Result
  BY <1>1, <1>5, <1>6, <1>7, <1>8
<1>. HIDE DEF Result
<1>. QED BY <1>2, <1>4, <1>9, <1>10

LEMMA BuiltInvStays ==
    ASSUME StagedBounds, StagedTyped, BuiltInv, NEW c \in Commands, Staged!Step(c)
    PROVE  BuiltInv'
<1>0. \A d \in Commands, p \in Staged!Pages : Built(d, p) => Built(d, p)'
  BY BuiltStays
<1>1. ASSUME NEW F, NEW p \in Staged!Pages, Known(F, p) PROVE \A x \in F : \A d \in x \cap Commands : Built(d, p)'
  BY <1>0, <1>1 DEF Known
<1>2. ASSUME NEW p \in Staged!Pages
      PROVE  Plain(disk'[p]["primitive"]) /\ Plain(disk'[p]["semantic"])
  <2>0. Plain(disk[p]["primitive"]) /\ Plain(disk[p]["semantic"]) /\ Plain({{source}}) /\ Plain({Staged!Partial})
    <3>1. source \in Staged!Sources
      BY DEF StagedTyped, DataTyped
    <3>2. Plain({{source}}) /\ Plain({Staged!Partial})
      BY <3>1, MarksArePlain DEF Plain
    <3>. QED BY <3>2 DEF BuiltInv
  <2>1. /\ disk'[p]["primitive"] \in {disk[p]["primitive"], {{source}}, {Staged!Partial}}
        /\ disk'[p]["semantic"] \in {disk[p]["semantic"], disk[p]["primitive"], {Staged!Partial}}
    BY StepFiles
  <2>. QED BY <2>0, <2>1
<1>3. ASSUME NEW p \in Staged!Pages, NEW k \in {"dxf", "evidence"} PROVE \A x \in disk'[p][k] : \A d \in x \cap Commands : Built(d, p)'
  <2>0. Known(disk[p][k], p) /\ Known(disk[p]["dxf"], p) /\ Known({Staged!Partial}, p)
    BY MarksArePlain DEF BuiltInv, Known
  <2>1. CASE ~Staged!BuildDxf(c)
    BY <1>1, <2>0, <2>1, StepFiles
  <2>2. CASE Staged!BuildDxf(c)
    <3>1. PICK i \in Staged!File(c, "primitive"), s \in Staged!File(c, "semantic") : Staged!Put(c, "dxf", {i \cup s \cup {c}})
      BY <2>2 DEF Staged!BuildDxf
    <3>2. i \cap Commands = {} /\ s \cap Commands = {}
      BY <3>1 DEF BuiltInv, Plain, Staged!File, StagedTyped, ControlTyped
    <3>3. i \in PageContents /\ s \in PageContents
      <4>0. \A j \in Staged!Stages : Staged!File(c, j) \in PageFiles
        BY DEF Staged!File, StagedTyped, DataTyped, ControlTyped
      <4>1. Staged!File(c, "primitive") \in PageFiles /\ Staged!File(c, "semantic") \in PageFiles
        BY <4>0, StageNames
      <4>. QED BY <3>1, <4>1, FileFacts
    <3>4. {i \cup s \cup {c}} \in PageFiles
      BY <3>3 DEF PageFiles, PageContents
    <3>5. disk'[p][k] = IF p = at[c] /\ k = "dxf" THEN {i \cup s \cup {c}} ELSE disk[p][k]
      <4>1. k \in Staged!Stages /\ "dxf" \in Staged!Stages
        BY StageNames
      <4>2. \A q \in Staged!Pages, j \in Staged!Stages :
              disk'[q][j] = IF q = at[c] /\ j = "dxf" THEN {i \cup s \cup {c}} ELSE disk[q][j]
        BY <3>1, <3>4, <4>1, PutIs
      <4>. QED BY <4>1, <4>2
    <3>6. CASE p = at[c] /\ k = "dxf"
      <4>1. Built(c, p)'
        BY <2>2, <3>6 DEF Staged!BuildDxf, Staged!Goto, Built, Staged!Building, StagedTyped, ControlTyped
      <4>. QED BY <3>2, <3>5, <3>6, <4>1
    <3>. QED BY <1>1, <2>0, <3>5, <3>6
  <2>. QED BY <2>1, <2>2
<1>4. ASSUME NEW p \in Staged!Pages, NEW k \in {"dxf", "evidence"}, NEW m, RecordsOf(c, m) \/ m \in manifest
      PROVE  \A x \in m.page[p][k] : \A d \in x \cap Commands : Built(d, p)'
  <2>1. Known(m.page[p][k], p)
    <3>1. /\ Known({}, p) /\ Known(disk[p][k], p) /\ Known(copy[c].page[p][k], p)
          /\ \A n \in manifest : Known(n.page[p][k], p)
      BY DEF BuiltInv, Known
    <3>2. k \in Staged!Stages
      BY StageNames
    <3>. QED BY <1>4, <3>1, <3>2 DEF RecordsOf
  <2>. QED BY <1>1, <2>1
<1>5. \A m \in manifest' : RecordsOf(c, m) \/ m \in manifest
  BY StepManifest
<1>6. ASSUME NEW p \in Staged!Pages, NEW k \in {"dxf", "evidence"}, NEW d \in Commands
      PROVE  \A x \in copy'[d].page[p][k] : \A e \in x \cap Commands : Built(e, p)'
  <2>0. k \in Staged!Stages
    BY StageNames
  <2>1. CASE d # c
    <3>1. copy'[d] = copy[d]
      BY <2>1, OthersWait
    <3>2. Known(copy[d].page[p][k], p)
      BY DEF BuiltInv
    <3>. QED BY <1>1, <3>1, <3>2
  <2>2. CASE d = c
    <3>1. RecordsOf(c, copy[c])
      BY DEF RecordsOf
    <3>2. \/ copy'[c] = copy[c] \/ (\A q \in Staged!Pages, j \in Staged!Stages : copy'[c].page[q][j] = {})
          \/ copy'[c] \in manifest \/ copy'[c] \in manifest'
      BY StepCopy
    <3>3. CASE \A q \in Staged!Pages, j \in Staged!Stages : copy'[c].page[q][j] = {}
      BY <2>0, <2>2, <3>3
    <3>. QED BY <1>4, <1>5, <2>2, <3>1, <3>2, <3>3
  <2>. QED BY <2>1, <2>2
<1>7. \A p \in Staged!Pages : Plain(disk[p]["primitive"])' /\ Plain(disk[p]["semantic"])'
  BY <1>2 DEF Plain
<1>8. ASSUME NEW p \in Staged!Pages, NEW k \in {"dxf", "evidence"}
      PROVE  /\ Known(disk[p][k], p)'
             /\ \A m \in manifest' : Known(m.page[p][k], p)'
             /\ \A d \in Commands : Known(copy[d].page[p][k], p)'
  <2>1. Known(disk[p][k], p)'
    BY <1>3 DEF Known
  <2>2. ASSUME NEW m \in manifest' PROVE Known(m.page[p][k], p)'
    BY <1>4, <1>5, <2>2 DEF Known
  <2>3. ASSUME NEW d \in Commands PROVE Known(copy[d].page[p][k], p)'
    BY <1>6 DEF Known
  <2>. QED BY <2>1, <2>2, <2>3
<1>. QED BY <1>7, <1>8 DEF BuiltInv

-----------------------------------------------------------------------------
(* What a step writes, and that no DXF is paired with the evidence of another. *)

\* A step writes no file, or the files of one of these steps.
LEMMA StepWrites ==
    ASSUME NEW c, Staged!Step(c)
    PROVE  \/ disk' = disk \/ (\E written : Staged!WritePages(written))
           \/ Staged!Put(c, "primitive", {{source}}) \/ Staged!Put(c, "semantic", Staged!File(c, "primitive"))
           \/ Staged!WriteEvidence(c) \/ Staged!BuildDxf(c)
           \/ (Staged!Fail(c) \/ Staged!Kill(c)) /\ sPc[c] \in Staged!Making /\ Staged!WritePart(c)
<1>1. CASE Staged!Create(c)
  BY <1>1 DEF Staged!Create, Staged!World
<1>2. CASE Staged!Calibrate(c)
  BY <1>2 DEF Staged!Calibrate, Staged!World
<1>3. CASE Staged!SaveNew(c)
  BY <1>3 DEF Staged!SaveNew, Staged!World
<1>4. CASE Staged!ExtractCandidate(c)
  BY <1>4 DEF Staged!ExtractCandidate, Staged!World
<1>5. CASE Staged!RecordCandidate(c)
  BY <1>5 DEF Staged!RecordCandidate, Staged!World
<1>6. CASE Staged!Resume(c)
  BY <1>6 DEF Staged!Resume, Staged!World
<1>7. CASE Staged!Verify(c)
  BY <1>7 DEF Staged!Verify, Staged!World
<1>8. CASE Staged!Extract(c)
  BY <1>8 DEF Staged!Extract, Staged!World
<1>9. CASE Staged!RecordRender(c)
  BY <1>9 DEF Staged!RecordRender, Staged!World
<1>10. CASE Staged!Validate(c)
  BY <1>10 DEF Staged!Validate, Staged!World
<1>11. CASE Staged!KeepPrimitive(c)
  BY <1>11 DEF Staged!KeepPrimitive, Staged!World
<1>12. CASE Staged!ExtractImage(c)
  BY <1>12 DEF Staged!ExtractImage, Staged!World
<1>13. CASE Staged!ResetPage(c)
  BY <1>13 DEF Staged!ResetPage, Staged!World
<1>14. CASE Staged!Regenerate(c)
  BY <1>14 DEF Staged!Regenerate, Staged!World
<1>15. CASE Staged!RecordPrimitive(c)
  BY <1>15 DEF Staged!RecordPrimitive, Staged!World
<1>16. CASE Staged!KeepSemantic(c)
  BY <1>16 DEF Staged!KeepSemantic, Staged!World
<1>17. CASE Staged!MakeSemantic(c)
  BY <1>17 DEF Staged!MakeSemantic, Staged!World
<1>18. CASE Staged!RecordSemantic(c)
  BY <1>18 DEF Staged!RecordSemantic, Staged!World
<1>19. CASE Staged!ResetDxf(c)
  BY <1>19 DEF Staged!ResetDxf, Staged!World
<1>20. CASE Staged!KeepDxf(c)
  BY <1>20 DEF Staged!KeepDxf, Staged!World
<1>21. CASE Staged!ForgetDxf(c)
  BY <1>21 DEF Staged!ForgetDxf, Staged!World
<1>22. CASE Staged!BuildDxf(c)
  BY <1>22 DEF Staged!BuildDxf, Staged!World
<1>23. CASE Staged!WriteEvidence(c)
  BY <1>23 DEF Staged!WriteEvidence, Staged!World
<1>24. CASE Staged!RecordDxf(c)
  BY <1>24 DEF Staged!RecordDxf, Staged!World
<1>25. CASE Staged!RecordEvidence(c)
  BY <1>25 DEF Staged!RecordEvidence, Staged!World
<1>26. CASE Staged!Fail(c)
  BY <1>26 DEF Staged!Fail, Staged!World
<1>27. CASE Staged!Kill(c)
  BY <1>27 DEF Staged!Kill, Staged!World
<1>. QED BY StepActions, <1>1, <1>2, <1>3, <1>4, <1>5, <1>6, <1>7, <1>8, <1>9, <1>10, <1>11, <1>12,
            <1>13, <1>14, <1>15, <1>16, <1>17, <1>18, <1>19, <1>20, <1>21, <1>22, <1>23, <1>24,
            <1>25, <1>26, <1>27

\* What has happened has happened.
LEMMA StepHistory ==
    ASSUME NEW c, Staged!Step(c)
    PROVE  (met => met') /\ (cut => cut') /\ raced \subseteq raced'
<1>1. CASE Staged!Create(c)
  BY <1>1 DEF Staged!Create, Staged!World, Staged!Meet, Staged!Race, Staged!WritePart
<1>2. CASE Staged!Calibrate(c)
  BY <1>2 DEF Staged!Calibrate, Staged!World, Staged!Meet, Staged!Race, Staged!WritePart
<1>3. CASE Staged!SaveNew(c)
  BY <1>3 DEF Staged!SaveNew, Staged!World, Staged!Meet, Staged!Race, Staged!WritePart
<1>4. CASE Staged!ExtractCandidate(c)
  BY <1>4 DEF Staged!ExtractCandidate, Staged!World, Staged!Meet, Staged!Race, Staged!WritePart
<1>5. CASE Staged!RecordCandidate(c)
  BY <1>5 DEF Staged!RecordCandidate, Staged!World, Staged!Meet, Staged!Race, Staged!WritePart
<1>6. CASE Staged!Resume(c)
  BY <1>6 DEF Staged!Resume, Staged!World, Staged!Meet, Staged!Race, Staged!WritePart
<1>7. CASE Staged!Verify(c)
  BY <1>7 DEF Staged!Verify, Staged!World, Staged!Meet, Staged!Race, Staged!WritePart
<1>8. CASE Staged!Extract(c)
  BY <1>8 DEF Staged!Extract, Staged!World, Staged!Meet, Staged!Race, Staged!WritePart
<1>9. CASE Staged!RecordRender(c)
  BY <1>9 DEF Staged!RecordRender, Staged!World, Staged!Meet, Staged!Race, Staged!WritePart
<1>10. CASE Staged!Validate(c)
  BY <1>10 DEF Staged!Validate, Staged!World, Staged!Meet, Staged!Race, Staged!WritePart
<1>11. CASE Staged!KeepPrimitive(c)
  BY <1>11 DEF Staged!KeepPrimitive, Staged!World, Staged!Meet, Staged!Race, Staged!WritePart
<1>12. CASE Staged!ExtractImage(c)
  BY <1>12 DEF Staged!ExtractImage, Staged!World, Staged!Meet, Staged!Race, Staged!WritePart
<1>13. CASE Staged!ResetPage(c)
  BY <1>13 DEF Staged!ResetPage, Staged!World, Staged!Meet, Staged!Race, Staged!WritePart
<1>14. CASE Staged!Regenerate(c)
  BY <1>14 DEF Staged!Regenerate, Staged!World, Staged!Meet, Staged!Race, Staged!WritePart
<1>15. CASE Staged!RecordPrimitive(c)
  BY <1>15 DEF Staged!RecordPrimitive, Staged!World, Staged!Meet, Staged!Race, Staged!WritePart
<1>16. CASE Staged!KeepSemantic(c)
  BY <1>16 DEF Staged!KeepSemantic, Staged!World, Staged!Meet, Staged!Race, Staged!WritePart
<1>17. CASE Staged!MakeSemantic(c)
  BY <1>17 DEF Staged!MakeSemantic, Staged!World, Staged!Meet, Staged!Race, Staged!WritePart
<1>18. CASE Staged!RecordSemantic(c)
  BY <1>18 DEF Staged!RecordSemantic, Staged!World, Staged!Meet, Staged!Race, Staged!WritePart
<1>19. CASE Staged!ResetDxf(c)
  BY <1>19 DEF Staged!ResetDxf, Staged!World, Staged!Meet, Staged!Race, Staged!WritePart
<1>20. CASE Staged!KeepDxf(c)
  BY <1>20 DEF Staged!KeepDxf, Staged!World, Staged!Meet, Staged!Race, Staged!WritePart
<1>21. CASE Staged!ForgetDxf(c)
  BY <1>21 DEF Staged!ForgetDxf, Staged!World, Staged!Meet, Staged!Race, Staged!WritePart
<1>22. CASE Staged!BuildDxf(c)
  BY <1>22 DEF Staged!BuildDxf, Staged!World, Staged!Meet, Staged!Race, Staged!WritePart
<1>23. CASE Staged!WriteEvidence(c)
  BY <1>23 DEF Staged!WriteEvidence, Staged!World, Staged!Meet, Staged!Race, Staged!WritePart
<1>24. CASE Staged!RecordDxf(c)
  BY <1>24 DEF Staged!RecordDxf, Staged!World, Staged!Meet, Staged!Race, Staged!WritePart
<1>25. CASE Staged!RecordEvidence(c)
  BY <1>25 DEF Staged!RecordEvidence, Staged!World, Staged!Meet, Staged!Race, Staged!WritePart
<1>26. CASE Staged!Fail(c)
  BY <1>26 DEF Staged!Fail, Staged!World, Staged!Meet, Staged!Race, Staged!WritePart
<1>27. CASE Staged!Kill(c)
  BY <1>27 DEF Staged!Kill, Staged!World, Staged!Meet, Staged!Race, Staged!WritePart
<1>. QED BY StepActions, <1>1, <1>2, <1>3, <1>4, <1>5, <1>6, <1>7, <1>8, <1>9, <1>10, <1>11, <1>12,
            <1>13, <1>14, <1>15, <1>16, <1>17, <1>18, <1>19, <1>20, <1>21, <1>22, <1>23, <1>24,
            <1>25, <1>26, <1>27

\* What a step makes of the DXF and the evidence of a page.
LEMMA StepBuilding ==
    ASSUME StagedBounds, StagedTyped, NEW c \in Commands, Staged!Step(c), NEW p \in Staged!Pages
    PROVE  \/ disk'[p]["dxf"] = disk[p]["dxf"] /\ disk'[p]["evidence"] = disk[p]["evidence"]
           \/ p = at[c] /\ Staged!BuildDxf(c)
           \/ /\ p = at[c] /\ Staged!WriteEvidence(c) /\ sPc'[c] = "record dxf" /\ copy' = copy
              /\ disk'[p]["dxf"] = disk[p]["dxf"] /\ disk'[p]["evidence"] = disk[p]["dxf"]
           \/ /\ p = at[c] /\ Staged!Race(c) /\ sPc'[c] \in Staged!Resting /\ copy'[c] = Staged!NoRun
              /\ kind = "pdf" => manifest' = manifest
              /\ disk'[p]["dxf"] = {Staged!Partial}
<1>0. /\ {Staged!Partial} \in PageFiles /\ {{source}} \in PageFiles
      /\ Staged!File(c, "dxf") \in PageFiles /\ Staged!File(c, "primitive") \in PageFiles
  <2>1. source \in Staged!Sources
    BY DEF StagedTyped, DataTyped
  <2>2. {Staged!Partial} \in PageFiles /\ {{source}} \in PageFiles
    BY <2>1, MarksArePlain
  <2>3. \A j \in Staged!Stages : Staged!File(c, j) \in PageFiles
    BY DEF Staged!File, StagedTyped, DataTyped, ControlTyped
  <2>. QED BY <2>2, <2>3, StageNames
<1>1. ASSUME NEW k \in Staged!Stages, NEW F \in PageFiles, Staged!Put(c, k, F)
      PROVE  \A j \in Staged!Stages : disk'[p][j] = IF p = at[c] /\ j = k THEN F ELSE disk[p][j]
  BY <1>1, PutIs
<1>2. ASSUME NEW k \in Staged!Stages \ {"dxf", "evidence"}, NEW F \in PageFiles, Staged!Put(c, k, F)
      PROVE  disk'[p]["dxf"] = disk[p]["dxf"] /\ disk'[p]["evidence"] = disk[p]["evidence"]
  BY <1>1, <1>2, StageNames
<1>3. CASE disk' = disk
  BY <1>3
<1>4. CASE \E written : Staged!WritePages(written)
  <2>1. PICK written : Staged!WritePages(written)
    BY <1>4
  <2>. QED BY <2>1, WritePagesIs, StageNames
<1>5. CASE Staged!Put(c, "primitive", {{source}}) \/ Staged!Put(c, "semantic", Staged!File(c, "primitive"))
  BY <1>0, <1>2, <1>5, StageNames
<1>6. CASE Staged!WriteEvidence(c)
  <2>1. CASE Staged!File(c, "dxf") = {}
    BY <1>6, <2>1 DEF Staged!WriteEvidence
  <2>2. CASE Staged!File(c, "dxf") # {}
    <3>1. Staged!Put(c, "evidence", Staged!File(c, "dxf")) /\ Staged!Goto(c, "record dxf") /\ copy' = copy
      BY <1>6, <2>2 DEF Staged!WriteEvidence
    <3>2. sPc'[c] = "record dxf"
      BY <3>1 DEF Staged!Goto, StagedTyped, ControlTyped
    <3>3. \A j \in Staged!Stages : disk'[p][j] = IF p = at[c] /\ j = "evidence" THEN Staged!File(c, "dxf") ELSE disk[p][j]
      BY <1>0, <1>1, <3>1, StageNames
    <3>. QED BY <1>6, <3>1, <3>2, <3>3, StageNames DEF Staged!File
  <2>. QED BY <2>1, <2>2
<1>7. CASE Staged!BuildDxf(c)
  <2>1. PICK i \in Staged!File(c, "primitive"), s \in Staged!File(c, "semantic") : Staged!Put(c, "dxf", {i \cup s \cup {c}})
    BY <1>7 DEF Staged!BuildDxf
  <2>0. \A j \in Staged!Stages : Staged!File(c, j) \in PageFiles
    BY DEF Staged!File, StagedTyped, DataTyped, ControlTyped
  <2>2. Staged!File(c, "primitive") \in PageFiles /\ Staged!File(c, "semantic") \in PageFiles
    BY <2>0, StageNames
  <2>3. i \in PageContents /\ s \in PageContents
    BY <2>1, <2>2, FileFacts
  <2>4. {i \cup s \cup {c}} \in PageFiles
    BY <2>3 DEF PageFiles, PageContents
  <2>5. \A j \in Staged!Stages : disk'[p][j] = IF p = at[c] /\ j = "dxf" THEN {i \cup s \cup {c}} ELSE disk[p][j]
    BY <1>1, <2>1, <2>4, StageNames
  <2>. QED BY <1>7, <2>5, StageNames
<1>8. CASE (Staged!Fail(c) \/ Staged!Kill(c)) /\ sPc[c] \in Staged!Making /\ Staged!WritePart(c)
  <2>1. Staged!Put(c, sPc[c], {Staged!Partial}) /\ sPc[c] \in Staged!Stages /\ sPc[c] \in {"primitive", "semantic", "dxf"}
    BY <1>8, StageNames DEF Staged!WritePart, Staged!Making
  <2>2. CASE sPc[c] # "dxf"
    BY <1>0, <1>2, <2>1, <2>2
  <2>3. CASE sPc[c] = "dxf"
    <3>1. \A j \in Staged!Stages : disk'[p][j] = IF p = at[c] /\ j = "dxf" THEN {Staged!Partial} ELSE disk[p][j]
      BY <1>0, <1>1, <2>1, <2>3
    <3>2. Staged!Race(c)
      BY <1>8, <2>3 DEF Staged!WritePart
    <3>3. PICK how \in {"failed", "killed"} : Staged!End(c, how)
      BY <1>8 DEF Staged!Fail, Staged!Kill
    <3>4. sPc'[c] = how /\ copy'[c] = Staged!NoRun
      BY <3>3 DEF Staged!End, Staged!Goto, StagedTyped, ControlTyped
    <3>5. kind = "pdf" => manifest' = manifest
      BY <1>8 DEF Staged!Fail, Staged!Kill
    <3>. QED BY <3>1, <3>2, <3>4, <3>5, StageNames DEF Staged!Resting
  <2>. QED BY <2>1, <2>2, <2>3
<1>. QED BY <1>3, <1>4, <1>5, <1>6, <1>7, <1>8, StepWrites

\* Who is building after a step was building that page before it, or begins.
LEMMA StepBuilders ==
    ASSUME StagedTyped, NEW c \in Commands, Staged!Step(c), sPc'[c] \in Staged!Building
    PROVE  /\ at'[c] = at[c]
           /\ Staged!BuildDxf(c) \/ (sPc[c] \in Staged!Building /\ (sPc[c] = "evidence" => Staged!WriteEvidence(c)))
<1>0. Staged!Building = {"evidence", "record dxf", "record evidence"} /\ Staged!Resting = {"idle", "done", "failed", "killed"}
  BY DEF Staged!Building, Staged!Resting
<1>1. ASSUME NEW s, Staged!Goto(c, s) PROVE sPc'[c] = s
  BY <1>1 DEF Staged!Goto, StagedTyped, ControlTyped
<1>2. \A s \in {"idle", "done", "failed", "killed"} : ~Staged!End(c, s)
  BY <1>0, <1>1 DEF Staged!End
<1>3. CASE Staged!Create(c)
  BY <1>0, <1>1, <1>2, <1>3 DEF Staged!Create, Staged!World, Staged!NextPage
<1>4. CASE Staged!Calibrate(c)
  BY <1>0, <1>1, <1>2, <1>4 DEF Staged!Calibrate, Staged!World, Staged!NextPage
<1>5. CASE Staged!SaveNew(c)
  BY <1>0, <1>1, <1>2, <1>5 DEF Staged!SaveNew, Staged!World, Staged!NextPage
<1>6. CASE Staged!ExtractCandidate(c)
  BY <1>0, <1>1, <1>2, <1>6 DEF Staged!ExtractCandidate, Staged!World, Staged!NextPage
<1>7. CASE Staged!RecordCandidate(c)
  BY <1>0, <1>1, <1>2, <1>7 DEF Staged!RecordCandidate, Staged!World, Staged!NextPage
<1>8. CASE Staged!Resume(c)
  BY <1>0, <1>1, <1>2, <1>8 DEF Staged!Resume, Staged!World, Staged!NextPage
<1>9. CASE Staged!Verify(c)
  BY <1>0, <1>1, <1>2, <1>9 DEF Staged!Verify, Staged!World, Staged!NextPage
<1>10. CASE Staged!Extract(c)
  BY <1>0, <1>1, <1>2, <1>10 DEF Staged!Extract, Staged!World, Staged!NextPage
<1>11. CASE Staged!RecordRender(c)
  BY <1>0, <1>1, <1>2, <1>11 DEF Staged!RecordRender, Staged!World, Staged!NextPage
<1>12. CASE Staged!Validate(c)
  BY <1>0, <1>1, <1>2, <1>12 DEF Staged!Validate, Staged!World, Staged!NextPage
<1>13. CASE Staged!KeepPrimitive(c)
  BY <1>0, <1>1, <1>2, <1>13 DEF Staged!KeepPrimitive, Staged!World, Staged!NextPage
<1>14. CASE Staged!ExtractImage(c)
  BY <1>0, <1>1, <1>2, <1>14 DEF Staged!ExtractImage, Staged!World, Staged!NextPage
<1>15. CASE Staged!ResetPage(c)
  BY <1>0, <1>1, <1>2, <1>15 DEF Staged!ResetPage, Staged!World, Staged!NextPage
<1>16. CASE Staged!Regenerate(c)
  BY <1>0, <1>1, <1>2, <1>16 DEF Staged!Regenerate, Staged!World, Staged!NextPage
<1>17. CASE Staged!RecordPrimitive(c)
  BY <1>0, <1>1, <1>2, <1>17 DEF Staged!RecordPrimitive, Staged!World, Staged!NextPage
<1>18. CASE Staged!KeepSemantic(c)
  BY <1>0, <1>1, <1>2, <1>18 DEF Staged!KeepSemantic, Staged!World, Staged!NextPage
<1>19. CASE Staged!MakeSemantic(c)
  BY <1>0, <1>1, <1>2, <1>19 DEF Staged!MakeSemantic, Staged!World, Staged!NextPage
<1>20. CASE Staged!RecordSemantic(c)
  BY <1>0, <1>1, <1>2, <1>20 DEF Staged!RecordSemantic, Staged!World, Staged!NextPage
<1>21. CASE Staged!ResetDxf(c)
  BY <1>0, <1>1, <1>2, <1>21 DEF Staged!ResetDxf, Staged!World, Staged!NextPage
<1>22. CASE Staged!KeepDxf(c)
  BY <1>0, <1>1, <1>2, <1>22 DEF Staged!KeepDxf, Staged!World, Staged!NextPage
<1>23. CASE Staged!ForgetDxf(c)
  BY <1>0, <1>1, <1>2, <1>23 DEF Staged!ForgetDxf, Staged!World, Staged!NextPage
<1>24. CASE Staged!BuildDxf(c)
  BY <1>0, <1>1, <1>2, <1>24 DEF Staged!BuildDxf, Staged!World, Staged!NextPage
<1>25. CASE Staged!WriteEvidence(c)
  BY <1>0, <1>1, <1>2, <1>25 DEF Staged!WriteEvidence, Staged!World, Staged!NextPage
<1>26. CASE Staged!RecordDxf(c)
  BY <1>0, <1>1, <1>2, <1>26 DEF Staged!RecordDxf, Staged!World, Staged!NextPage
<1>27. CASE Staged!RecordEvidence(c)
  BY <1>0, <1>1, <1>2, <1>27 DEF Staged!RecordEvidence, Staged!World, Staged!NextPage
<1>28. CASE Staged!Fail(c)
  BY <1>0, <1>1, <1>2, <1>28 DEF Staged!Fail, Staged!World, Staged!NextPage
<1>29. CASE Staged!Kill(c)
  BY <1>0, <1>1, <1>2, <1>29 DEF Staged!Kill, Staged!World, Staged!NextPage
<1>. QED BY StepActions, <1>3, <1>4, <1>5, <1>6, <1>7, <1>8, <1>9, <1>10, <1>11, <1>12, <1>13,
            <1>14, <1>15, <1>16, <1>17, <1>18, <1>19, <1>20, <1>21, <1>22, <1>23, <1>24, <1>25,
            <1>26, <1>27, <1>28, <1>29

\* The evidence a record of page p may pass is that of the copy, or what the
\* command is recording.
Copied(c, m, p) ==
    /\ m.page[p]["dxf"] \in {{}, copy[c].page[p]["dxf"]}
    /\ m.page[p]["evidence"] \in {{}, copy[c].page[p]["evidence"]}
Recording(c, m, p) ==
    /\ p = at[c] /\ sPc[c] \in {"record dxf", "record evidence"} /\ disk' = disk
    /\ m.page[p]["dxf"] \in {copy[c].page[p]["dxf"], disk[p]["dxf"]}
    /\ m.page[p]["evidence"] \in {copy[c].page[p]["evidence"], disk[p]["evidence"]}

LEMMA StepRecords ==
    ASSUME StagedBounds, StagedTyped, NEW c \in Commands, Staged!Step(c)
    PROVE  \/ manifest' = manifest
           \/ \E m : manifest' = {m} /\ \A p \in Staged!Pages : Copied(c, m, p) \/ Recording(c, m, p)
<1>1. \A p \in Staged!Pages : Copied(c, copy[c], p)
  BY DEF Copied
<1>2. \A S : \A p \in Staged!Pages : Copied(c, Staged!Forgotten(c, S), p)
  <2>. SUFFICES ASSUME NEW S, NEW p \in Staged!Pages PROVE Copied(c, Staged!Forgotten(c, S), p)
    OBVIOUS
  <2>1. \A j \in Staged!Stages : Staged!Forgotten(c, S).page[p][j] \in {{}, copy[c].page[p][j]}
    BY ForgottenIs
  <2>. QED BY <2>1, StageNames DEF Copied
<1>3. \A k \in {"primitive", "semantic"}, p \in Staged!Pages : Copied(c, Staged!Recorded(c, k), p)
  <2>. SUFFICES ASSUME NEW k \in {"primitive", "semantic"}, NEW p \in Staged!Pages PROVE Copied(c, Staged!Recorded(c, k), p)
    OBVIOUS
  <2>0. k \in Staged!Stages
    BY StageNames
  <2>1. \A j \in Staged!Stages \ {k} : Staged!Recorded(c, k).page[p][j] = copy[c].page[p][j]
    BY <2>0, RecordedIs
  <2>. QED BY <2>1, StageNames DEF Copied
<1>4. \A p \in Staged!Pages : Copied(c, Staged!Rendered(c), p)
  BY RenderedIs, StageNames DEF Copied
<1>5. ASSUME Staged!RecordDxf(c) \/ Staged!RecordEvidence(c)
      PROVE  \A k \in {"dxf", "evidence"}, p \in Staged!Pages : Copied(c, Staged!Recorded(c, k), p) \/ Recording(c, Staged!Recorded(c, k), p)
  <2>1. disk' = disk /\ sPc[c] \in {"record dxf", "record evidence"}
    BY <1>5 DEF Staged!RecordDxf, Staged!RecordEvidence
  <2>. SUFFICES ASSUME NEW k \in {"dxf", "evidence"}, NEW p \in Staged!Pages
                PROVE  Copied(c, Staged!Recorded(c, k), p) \/ Recording(c, Staged!Recorded(c, k), p)
    OBVIOUS
  <2>2. k \in Staged!Stages
    BY StageNames
  <2>3. \A j \in Staged!Stages : Staged!Recorded(c, k).page[p][j] = IF p = at[c] /\ j = k THEN disk[p][k] ELSE copy[c].page[p][j]
    BY <2>2, RecordedIs
  <2>. QED BY <2>1, <2>3, StageNames DEF Copied, Recording
<1>6. CASE manifest' = {copy[c]}
  BY <1>1, <1>6
<1>7. CASE \E S : manifest' = {Staged!Forgotten(c, S)}
  <2>1. PICK S : manifest' = {Staged!Forgotten(c, S)}
    BY <1>7
  <2>2. \A p \in Staged!Pages : Copied(c, Staged!Forgotten(c, S), p)
    BY <1>2
  <2> DEFINE m == Staged!Forgotten(c, S)
  <2>3. manifest' = {m} /\ \A p \in Staged!Pages : Copied(c, m, p)
    BY <2>1, <2>2
  <2>. HIDE DEF m
  <2>. QED BY <2>3
<1>8. CASE \E k \in {"primitive", "semantic"} : manifest' = {Staged!Recorded(c, k)}
  BY <1>3, <1>8
<1>9. CASE manifest' = {Staged!Rendered(c)}
  BY <1>4, <1>9
<1>10. CASE (Staged!RecordDxf(c) \/ Staged!RecordEvidence(c)) /\ \E k \in {"dxf", "evidence"} : manifest' = {Staged!Recorded(c, k)}
  BY <1>5, <1>10
<1>11. \/ manifest' = manifest \/ manifest' = {copy[c]} \/ (\E S : manifest' = {Staged!Forgotten(c, S)})
       \/ (\E k \in {"primitive", "semantic"} : manifest' = {Staged!Recorded(c, k)}) \/ manifest' = {Staged!Rendered(c)}
       \/ (Staged!RecordDxf(c) \/ Staged!RecordEvidence(c)) /\ \E k \in {"dxf", "evidence"} : manifest' = {Staged!Recorded(c, k)}
  <2>1. CASE Staged!Create(c)
    BY <2>1 DEF Staged!Create, Staged!World, Staged!Save, Staged!Reset
  <2>2. CASE Staged!Calibrate(c)
    BY <2>2 DEF Staged!Calibrate, Staged!World, Staged!Save, Staged!Reset
  <2>3. CASE Staged!SaveNew(c)
    BY <2>3 DEF Staged!SaveNew, Staged!World, Staged!Save, Staged!Reset
  <2>4. CASE Staged!ExtractCandidate(c)
    BY <2>4 DEF Staged!ExtractCandidate, Staged!World, Staged!Save, Staged!Reset
  <2>5. CASE Staged!RecordCandidate(c)
    BY <2>5 DEF Staged!RecordCandidate, Staged!World, Staged!Save, Staged!Reset
  <2>6. CASE Staged!Resume(c)
    BY <2>6 DEF Staged!Resume, Staged!World, Staged!Save, Staged!Reset
  <2>7. CASE Staged!Verify(c)
    BY <2>7 DEF Staged!Verify, Staged!World, Staged!Save, Staged!Reset
  <2>8. CASE Staged!Extract(c)
    BY <2>8 DEF Staged!Extract, Staged!World, Staged!Save, Staged!Reset
  <2>9. CASE Staged!RecordRender(c)
    BY <2>9 DEF Staged!RecordRender, Staged!World, Staged!Save, Staged!Reset
  <2>10. CASE Staged!Validate(c)
    BY <2>10 DEF Staged!Validate, Staged!World, Staged!Save, Staged!Reset
  <2>11. CASE Staged!KeepPrimitive(c)
    BY <2>11 DEF Staged!KeepPrimitive, Staged!World, Staged!Save, Staged!Reset
  <2>12. CASE Staged!ExtractImage(c)
    BY <2>12 DEF Staged!ExtractImage, Staged!World, Staged!Save, Staged!Reset
  <2>13. CASE Staged!ResetPage(c)
    BY <2>13 DEF Staged!ResetPage, Staged!World, Staged!Save, Staged!Reset
  <2>14. CASE Staged!Regenerate(c)
    BY <2>14 DEF Staged!Regenerate, Staged!World, Staged!Save, Staged!Reset
  <2>15. CASE Staged!RecordPrimitive(c)
    BY <2>15 DEF Staged!RecordPrimitive, Staged!World, Staged!Save, Staged!Reset
  <2>16. CASE Staged!KeepSemantic(c)
    BY <2>16 DEF Staged!KeepSemantic, Staged!World, Staged!Save, Staged!Reset
  <2>17. CASE Staged!MakeSemantic(c)
    BY <2>17 DEF Staged!MakeSemantic, Staged!World, Staged!Save, Staged!Reset
  <2>18. CASE Staged!RecordSemantic(c)
    BY <2>18 DEF Staged!RecordSemantic, Staged!World, Staged!Save, Staged!Reset
  <2>19. CASE Staged!ResetDxf(c)
    BY <2>19 DEF Staged!ResetDxf, Staged!World, Staged!Save, Staged!Reset
  <2>20. CASE Staged!KeepDxf(c)
    BY <2>20 DEF Staged!KeepDxf, Staged!World, Staged!Save, Staged!Reset
  <2>21. CASE Staged!ForgetDxf(c)
    BY <2>21 DEF Staged!ForgetDxf, Staged!World, Staged!Save, Staged!Reset
  <2>22. CASE Staged!BuildDxf(c)
    BY <2>22 DEF Staged!BuildDxf, Staged!World, Staged!Save, Staged!Reset
  <2>23. CASE Staged!WriteEvidence(c)
    BY <2>23 DEF Staged!WriteEvidence, Staged!World, Staged!Save, Staged!Reset
  <2>24. CASE Staged!RecordDxf(c)
    BY <2>24 DEF Staged!RecordDxf, Staged!World, Staged!Save, Staged!Reset
  <2>25. CASE Staged!RecordEvidence(c)
    BY <2>25 DEF Staged!RecordEvidence, Staged!World, Staged!Save, Staged!Reset
  <2>26. CASE Staged!Fail(c)
    BY <2>26 DEF Staged!Fail, Staged!World, Staged!Save, Staged!Reset
  <2>27. CASE Staged!Kill(c)
    BY <2>27 DEF Staged!Kill, Staged!World, Staged!Save, Staged!Reset
  <2>. QED BY StepActions, <2>1, <2>2, <2>3, <2>4, <2>5, <2>6, <2>7, <2>8, <2>9, <2>10, <2>11,
              <2>12, <2>13, <2>14, <2>15, <2>16, <2>17, <2>18, <2>19, <2>20, <2>21, <2>22, <2>23,
              <2>24, <2>25, <2>26, <2>27
<1>. QED BY <1>6, <1>7, <1>8, <1>9, <1>10, <1>11

LEMMA BindsFacts ==
    ASSUME NEW r, NEW f, NEW r2, NEW f2,
           Binds(r, f),
           f2["dxf"] = f["dxf"], f2["evidence"] = f["evidence"],
           r2["dxf"] \in {{}, r["dxf"]}, r2["evidence"] \in {{}, r["evidence"]}
    PROVE  Binds(r2, f2)
BY DEF Binds, Apart, Staged!Partial

\* What is built names the command.
LEMMA BuildingIs ==
    ASSUME StagedBounds, StagedTyped, NEW c \in Commands, Staged!BuildDxf(c)
    PROVE  \E i \in Staged!File(c, "primitive"), s \in Staged!File(c, "semantic") :
             /\ Staged!Partial \notin {i, s} /\ {i \cup s \cup {c}} # {Staged!Partial}
             /\ \A p \in Staged!Pages, j \in Staged!Stages :
                  disk'[p][j] = IF p = at[c] /\ j = "dxf" THEN {i \cup s \cup {c}} ELSE disk[p][j]
             /\ disk'[at[c]]["dxf"] = {i \cup s \cup {c}}
             /\ sPc'[c] = "evidence"
<1>1. PICK i \in Staged!File(c, "primitive"), s \in Staged!File(c, "semantic") :
        Staged!Partial \notin {i, s} /\ Staged!Put(c, "dxf", {i \cup s \cup {c}})
  BY DEF Staged!BuildDxf
<1>2. \A j \in Staged!Stages : Staged!File(c, j) \in PageFiles
  BY DEF Staged!File, StagedTyped, DataTyped, ControlTyped
<1>3. Staged!File(c, "primitive") \in PageFiles /\ Staged!File(c, "semantic") \in PageFiles /\ "dxf" \in Staged!Stages
  BY <1>2, StageNames
<1>4. i \in PageContents /\ s \in PageContents
  BY <1>1, <1>3, FileFacts
<1>5. {i \cup s \cup {c}} \in PageFiles
  BY <1>4 DEF PageFiles, PageContents
<1>6. \A p \in Staged!Pages, j \in Staged!Stages :
        disk'[p][j] = IF p = at[c] /\ j = "dxf" THEN {i \cup s \cup {c}} ELSE disk[p][j]
  BY <1>1, <1>3, <1>5, PutIs
<1>7. {i \cup s \cup {c}} # {Staged!Partial}
  <2>1. c \notin Staged!Partial
    BY MarksArePlain
  <2>. QED BY <2>1
<1>8. sPc'[c] = "evidence" /\ at[c] \in Staged!Pages
  BY DEF Staged!BuildDxf, Staged!Goto, StagedTyped, ControlTyped
<1>. QED BY <1>1, <1>3, <1>6, <1>7, <1>8

LEMMA EvidenceStays ==
    ASSUME StagedBounds, StagedTyped, BuiltInv, EvidenceInv, NEW c \in Commands, Staged!Step(c)
    PROVE  EvidenceInv'
<1>0. kind' = kind
  BY StepDisk
<1>. SUFFICES ASSUME kind = "pdf", NEW p \in Staged!Pages, p \notin raced'
              PROVE  /\ \A m \in manifest' : Binds(m.page[p], disk'[p])
                     /\ \A d \in Commands : Binds(copy'[d].page[p], disk'[p])
                     /\ BuildsAlone(p)' /\ BuiltTogether(p)'
  <2>1. \A p \in Staged!Pages \ raced' :
          ((kind = "pdf") => /\ \A m \in manifest' : Binds(m.page[p], disk'[p])
                             /\ \A d \in Commands : Binds(copy'[d].page[p], disk'[p])
                             /\ BuildsAlone(p)' /\ BuiltTogether(p)') 
    OBVIOUS
  <2>. QED BY <1>0, <2>1 DEF EvidenceInv, Binds, Apart
<1>1. /\ \A m \in manifest : Binds(m.page[p], disk[p])
      /\ \A d \in Commands : Binds(copy[d].page[p], disk[p])
      /\ BuildsAlone(p) /\ BuiltTogether(p)
  BY StepHistory DEF EvidenceInv
<1>2. Staged!Partial # {} /\ \A k \in Staged!Stages : Staged!Edited(k) # Staged!Partial
  BY MarksArePlain DEF Staged!Partial
\* Another builder of this page would have made it raced.
<1>3. ASSUME Staged!Race(c), at[c] = p PROVE \A d \in Commands \ {c} : ~(at[d] = p /\ sPc[d] \in Staged!Building)
  <2>1. ASSUME NEW d \in Commands \ {c}, at[d] = p, sPc[d] \in Staged!Building PROVE FALSE
    <3>1. d \in Staged!Alive \ {c}
      BY <2>1 DEF Staged!Alive, Staged!Building, Staged!Resting
    <3>2. at[d] \in raced'
      BY <1>3, <2>1, <3>1 DEF Staged!Race
    <3>. QED BY <2>1, <3>2
  <2>. QED BY <2>1
<1>4. BuildsAlone(p)'
  <2>. SUFFICES ASSUME NEW d \in Commands, NEW e \in Commands, at'[d] = p, at'[e] = p,
                       sPc'[d] \in Staged!Building, sPc'[e] \in Staged!Building
                PROVE  d = e
    BY DEF BuildsAlone
  <2>1. ASSUME NEW b \in Commands \ {c}, at'[b] = p, sPc'[b] \in Staged!Building PROVE at[b] = p /\ sPc[b] \in Staged!Building
    BY <2>1, OthersWait
  <2>2. ASSUME at'[c] = p, sPc'[c] \in Staged!Building, NEW b \in Commands \ {c}, at'[b] = p, sPc'[b] \in Staged!Building PROVE FALSE
    <3>1. at[b] = p /\ sPc[b] \in Staged!Building
      BY <2>1, <2>2
    <3>2. at[c] = p /\ (Staged!BuildDxf(c) \/ sPc[c] \in Staged!Building)
      BY <2>2, StepBuilders
    <3>3. CASE Staged!BuildDxf(c)
      BY <1>3, <3>1, <3>2, <3>3 DEF Staged!BuildDxf
    <3>4. CASE sPc[c] \in Staged!Building
      BY <1>1, <3>1, <3>2, <3>4 DEF BuildsAlone
    <3>. QED BY <3>2, <3>3, <3>4
  <2>. QED BY <1>1, <2>1, <2>2 DEF BuildsAlone
<1> DEFINE Bound == (\A m \in manifest' : Binds(m.page[p], disk'[p])) /\ (\A d \in Commands : Binds(copy'[d].page[p], disk'[p]))
\* With the records of before, it is enough that they bind to the files of now.
<1>5. ASSUME \A m \in manifest : Binds(m.page[p], disk'[p]), \A d \in Commands : Binds(copy[d].page[p], disk'[p]),
             manifest' = manifest \/ \E m : manifest' = {m} /\ Binds(m.page[p], disk'[p])
      PROVE  Bound
  <2>1. \A m \in manifest' : Binds(m.page[p], disk'[p])
    BY <1>5
  <2>2. ASSUME NEW d \in Commands \ {c} PROVE Binds(copy'[d].page[p], disk'[p])
    BY <1>5, <2>2, OthersWait
  <2>3. Binds(copy'[c].page[p], disk'[p])
    <3>1. CASE copy'[c].page[p]["dxf"] = {} /\ copy'[c].page[p]["evidence"] = {}
      BY <3>1 DEF Binds, Apart, Staged!Partial
    <3>2. \/ copy'[c] = copy[c] \/ (\A q \in Staged!Pages, k \in Staged!Stages : copy'[c].page[q][k] = {})
          \/ copy'[c] \in manifest \/ manifest' = {copy'[c]}
      BY StepCopy
    <3>. QED BY <1>5, <2>1, <3>1, <3>2, StageNames
  <2>. QED BY <2>1, <2>2, <2>3
<1>6. CASE disk'[p]["dxf"] = disk[p]["dxf"] /\ disk'[p]["evidence"] = disk[p]["evidence"]
  <2>1. Bound
    <3>1. ASSUME NEW r, NEW r2, Binds(r, disk[p]), r2["dxf"] \in {{}, r["dxf"]}, r2["evidence"] \in {{}, r["evidence"]}
          PROVE  Binds(r2, disk'[p])
      BY <1>6, <3>1, BindsFacts
    <3>2. (\A m \in manifest : Binds(m.page[p], disk'[p])) /\ \A d \in Commands : Binds(copy[d].page[p], disk'[p])
      BY <1>1, <3>1
    <3>3. ASSUME NEW m, Copied(c, m, p) PROVE Binds(m.page[p], disk'[p])
      BY <1>1, <3>1, <3>3 DEF Copied
    <3>4. ASSUME NEW m, Recording(c, m, p) PROVE Binds(m.page[p], disk'[p])
      <4>1. disk[p]["dxf"] # {Staged!Partial} /\ ~Apart(disk[p]) /\ disk' = disk
        BY <1>1, <3>4 DEF Recording, BuiltTogether, Staged!Building
      <4>2. copy[c].page[p]["dxf"] # {Staged!Partial}
        BY <1>1 DEF Binds
      <4>. QED BY <3>4, <4>1, <4>2 DEF Recording, Binds
    <3>5. manifest' = manifest \/ \E m : manifest' = {m} /\ Binds(m.page[p], disk'[p])
      BY <3>3, <3>4, StepRecords
    <3>. QED BY <1>5, <3>2, <3>5
  <2>2. BuiltTogether(p)'
    <3>. SUFFICES ASSUME NEW d \in Commands, at'[d] = p, sPc'[d] \in Staged!Building
                  PROVE  disk'[p]["dxf"] # {Staged!Partial} /\ (sPc'[d] # "evidence" => ~Apart(disk'[p]))
      BY DEF BuiltTogether, Apart
    <3>0. Apart(disk'[p]) <=> Apart(disk[p])
      BY <1>6 DEF Apart
    <3>1. CASE d # c
      BY <1>1, <1>6, <3>0, <3>1, OthersWait DEF BuiltTogether
    <3>2. CASE d = c
      <4>1. at[c] = p /\ (Staged!BuildDxf(c) \/ (sPc[c] \in Staged!Building /\ (sPc[c] = "evidence" => Staged!WriteEvidence(c))))
        BY <3>2, StepBuilders
      <4>2. CASE sPc[c] \in Staged!Building /\ sPc[c] # "evidence"
        BY <1>1, <1>6, <3>0, <3>2, <4>1, <4>2 DEF BuiltTogether
      <4>3. CASE sPc[c] = "evidence"
        <5>1. Staged!WriteEvidence(c) /\ disk[p]["dxf"] # {Staged!Partial}
          BY <1>1, <4>1, <4>3 DEF Staged!BuildDxf, BuiltTogether, Staged!Building
        <5>2. Staged!File(c, "dxf") # {} 
          BY <3>2, <4>3, <5>1 DEF Staged!WriteEvidence, Staged!End, Staged!Goto, StagedTyped,
             ControlTyped, Staged!Building
        <5>3. Staged!Put(c, "evidence", Staged!File(c, "dxf"))
          BY <5>1, <5>2 DEF Staged!WriteEvidence
        <5>4. \A j \in Staged!Stages : Staged!File(c, j) \in PageFiles
          BY DEF Staged!File, StagedTyped, DataTyped, ControlTyped
        <5>5. "evidence" \in Staged!Stages /\ Staged!File(c, "dxf") \in PageFiles
          BY <5>4, StageNames
        <5>6. disk'[p]["evidence"] = disk[p]["dxf"]
          BY <4>1, <5>3, <5>5, PutIs DEF Staged!File
        <5>. QED BY <1>6, <5>1, <5>6 DEF Apart
      <4>4. CASE Staged!BuildDxf(c)
        <5>1. disk'[p]["dxf"] # {Staged!Partial} /\ sPc'[c] = "evidence"
          BY <4>1, <4>4, BuildingIs
        <5>. QED BY <3>2, <5>1
      <4>. QED BY <4>1, <4>2, <4>3, <4>4
    <3>. QED BY <3>1, <3>2
  <2>. QED BY <1>4, <2>1, <2>2
<1>7. CASE p = at[c] /\ Staged!BuildDxf(c)
  <2>1. PICK i \in Staged!File(c, "primitive"), s \in Staged!File(c, "semantic") :
          /\ disk'[p]["dxf"] = {i \cup s \cup {c}} /\ {i \cup s \cup {c}} # {Staged!Partial} /\ sPc'[c] = "evidence"
    BY <1>7, BuildingIs
  <2>2. ~Built(c, p)
    BY <1>7 DEF Staged!BuildDxf, Built, Staged!Building, StagedTyped, ControlTyped, Staged!Pages
  <2>3. ASSUME NEW F, Known(F, p) PROVE F # disk'[p]["dxf"]
    BY <2>1, <2>2, <2>3 DEF Known
  <2>4. (\A m \in manifest : Known(m.page[p]["dxf"], p)) /\ \A d \in Commands : Known(copy[d].page[p]["dxf"], p)
    BY DEF BuiltInv
  <2>5. (\A m \in manifest : Binds(m.page[p], disk'[p])) /\ \A d \in Commands : Binds(copy[d].page[p], disk'[p])
    BY <1>1, <2>3, <2>4 DEF Binds
  <2>6. manifest' = manifest /\ Staged!Race(c)
    BY <1>7 DEF Staged!BuildDxf
  <2>7. Bound
    BY <1>5, <2>5, <2>6
  <2>8. BuiltTogether(p)'
    <3>. SUFFICES ASSUME NEW d \in Commands, at'[d] = p, sPc'[d] \in Staged!Building
                  PROVE  disk'[p]["dxf"] # {Staged!Partial} /\ (sPc'[d] # "evidence" => ~Apart(disk'[p]))
      BY DEF BuiltTogether, Apart
    <3>1. d = c
      BY <1>3, <1>7, <2>6, OthersWait
    <3>. QED BY <2>1, <3>1
  <2>. QED BY <1>4, <2>7, <2>8
<1>8. CASE /\ p = at[c] /\ Staged!WriteEvidence(c) /\ sPc'[c] = "record dxf" /\ copy' = copy
           /\ disk'[p]["dxf"] = disk[p]["dxf"] /\ disk'[p]["evidence"] = disk[p]["dxf"]
  <2>1. ~Apart(disk'[p])
    BY <1>8 DEF Apart
  <2>2. manifest' = manifest /\ sPc[c] = "evidence"
    BY <1>8 DEF Staged!WriteEvidence
  <2>3. (\A m \in manifest : Binds(m.page[p], disk'[p])) /\ \A d \in Commands : Binds(copy[d].page[p], disk'[p])
    BY <1>1, <2>1 DEF Binds
  <2>4. Bound
    BY <1>5, <2>2, <2>3
  <2>5. disk'[p]["dxf"] # {Staged!Partial}
    BY <1>1, <1>8, <2>2 DEF BuiltTogether, Staged!Building
  <2>6. BuiltTogether(p)'
    BY <2>1, <2>5 DEF BuiltTogether, Apart
  <2>. QED BY <1>4, <2>4, <2>6
<1>9. CASE /\ p = at[c] /\ Staged!Race(c) /\ sPc'[c] \in Staged!Resting /\ copy'[c] = Staged!NoRun
           /\ kind = "pdf" => manifest' = manifest
           /\ disk'[p]["dxf"] = {Staged!Partial}
  <2>1. (\A m \in manifest : Binds(m.page[p], disk'[p])) /\ \A d \in Commands : Binds(copy[d].page[p], disk'[p])
    BY <1>1, <1>9 DEF Binds
  <2>2. Bound
    BY <1>5, <1>9, <2>1
  <2>3. BuiltTogether(p)'
    <3>. SUFFICES ASSUME NEW d \in Commands, at'[d] = p, sPc'[d] \in Staged!Building PROVE FALSE
      BY DEF BuiltTogether
    <3>1. d # c
      BY <1>9 DEF Staged!Resting, Staged!Building
    <3>. QED BY <1>3, <1>9, <3>1, OthersWait
  <2>. QED BY <1>4, <2>2, <2>3
<1>. QED BY <1>6, <1>7, <1>8, <1>9, StepBuilding

-----------------------------------------------------------------------------
(* One command at a time: what is recorded was made from what is recorded. *)

\* Only a command that is alive takes a step, or one that begins.
Begins(c) == Staged!Create(c) \/ Staged!Calibrate(c) \/ Staged!Resume(c)

LEMMA StepAlive ==
    ASSUME NEW c \in Commands, Staged!Step(c)
    PROVE  c \in Staged!Alive \/ (Begins(c) /\ c \notin Staged!Alive)
<1>0. \A s \in {"save new", "verify", "render", "record render", "validate", "candidate", "record candidate",
                 "primitive", "regenerate", "record primitive", "semantic", "record semantic", "reset dxf",
                 "dxf", "evidence", "record dxf", "record evidence"} : s \notin Staged!Resting
  BY StepNames
<1>00. "idle" \in Staged!Resting
  BY DEF Staged!Resting
<1>. SUFFICES ASSUME ~(Begins(c) /\ c \notin Staged!Alive) PROVE c \in Staged!Alive
  OBVIOUS
<1>1. CASE Staged!Create(c)
  BY <1>0, <1>00, <1>1 DEF Staged!Create, Begins, Staged!Alive, Staged!Making
<1>2. CASE Staged!Calibrate(c)
  BY <1>0, <1>00, <1>2 DEF Staged!Calibrate, Begins, Staged!Alive, Staged!Making
<1>3. CASE Staged!SaveNew(c)
  BY <1>0, <1>00, <1>3 DEF Staged!SaveNew, Begins, Staged!Alive, Staged!Making
<1>4. CASE Staged!ExtractCandidate(c)
  BY <1>0, <1>00, <1>4 DEF Staged!ExtractCandidate, Begins, Staged!Alive, Staged!Making
<1>5. CASE Staged!RecordCandidate(c)
  BY <1>0, <1>00, <1>5 DEF Staged!RecordCandidate, Begins, Staged!Alive, Staged!Making
<1>6. CASE Staged!Resume(c)
  BY <1>0, <1>00, <1>6 DEF Staged!Resume, Begins, Staged!Alive, Staged!Making
<1>7. CASE Staged!Verify(c)
  BY <1>0, <1>00, <1>7 DEF Staged!Verify, Begins, Staged!Alive, Staged!Making
<1>8. CASE Staged!Extract(c)
  BY <1>0, <1>00, <1>8 DEF Staged!Extract, Begins, Staged!Alive, Staged!Making
<1>9. CASE Staged!RecordRender(c)
  BY <1>0, <1>00, <1>9 DEF Staged!RecordRender, Begins, Staged!Alive, Staged!Making
<1>10. CASE Staged!Validate(c)
  BY <1>0, <1>00, <1>10 DEF Staged!Validate, Begins, Staged!Alive, Staged!Making
<1>11. CASE Staged!KeepPrimitive(c)
  BY <1>0, <1>00, <1>11 DEF Staged!KeepPrimitive, Begins, Staged!Alive, Staged!Making
<1>12. CASE Staged!ExtractImage(c)
  BY <1>0, <1>00, <1>12 DEF Staged!ExtractImage, Begins, Staged!Alive, Staged!Making
<1>13. CASE Staged!ResetPage(c)
  BY <1>0, <1>00, <1>13 DEF Staged!ResetPage, Begins, Staged!Alive, Staged!Making
<1>14. CASE Staged!Regenerate(c)
  BY <1>0, <1>00, <1>14 DEF Staged!Regenerate, Begins, Staged!Alive, Staged!Making
<1>15. CASE Staged!RecordPrimitive(c)
  BY <1>0, <1>00, <1>15 DEF Staged!RecordPrimitive, Begins, Staged!Alive, Staged!Making
<1>16. CASE Staged!KeepSemantic(c)
  BY <1>0, <1>00, <1>16 DEF Staged!KeepSemantic, Begins, Staged!Alive, Staged!Making
<1>17. CASE Staged!MakeSemantic(c)
  BY <1>0, <1>00, <1>17 DEF Staged!MakeSemantic, Begins, Staged!Alive, Staged!Making
<1>18. CASE Staged!RecordSemantic(c)
  BY <1>0, <1>00, <1>18 DEF Staged!RecordSemantic, Begins, Staged!Alive, Staged!Making
<1>19. CASE Staged!ResetDxf(c)
  BY <1>0, <1>00, <1>19 DEF Staged!ResetDxf, Begins, Staged!Alive, Staged!Making
<1>20. CASE Staged!KeepDxf(c)
  BY <1>0, <1>00, <1>20 DEF Staged!KeepDxf, Begins, Staged!Alive, Staged!Making
<1>21. CASE Staged!ForgetDxf(c)
  BY <1>0, <1>00, <1>21 DEF Staged!ForgetDxf, Begins, Staged!Alive, Staged!Making
<1>22. CASE Staged!BuildDxf(c)
  BY <1>0, <1>00, <1>22 DEF Staged!BuildDxf, Begins, Staged!Alive, Staged!Making
<1>23. CASE Staged!WriteEvidence(c)
  BY <1>0, <1>00, <1>23 DEF Staged!WriteEvidence, Begins, Staged!Alive, Staged!Making
<1>24. CASE Staged!RecordDxf(c)
  BY <1>0, <1>00, <1>24 DEF Staged!RecordDxf, Begins, Staged!Alive, Staged!Making
<1>25. CASE Staged!RecordEvidence(c)
  BY <1>0, <1>00, <1>25 DEF Staged!RecordEvidence, Begins, Staged!Alive, Staged!Making
<1>26. CASE Staged!Fail(c)
  BY <1>0, <1>00, <1>26 DEF Staged!Fail, Begins, Staged!Alive, Staged!Making
<1>27. CASE Staged!Kill(c)
  BY <1>0, <1>00, <1>27 DEF Staged!Kill, Begins, Staged!Alive, Staged!Making
<1>. QED BY StepActions, <1>1, <1>2, <1>3, <1>4, <1>5, <1>6, <1>7, <1>8, <1>9, <1>10, <1>11, <1>12,
            <1>13, <1>14, <1>15, <1>16, <1>17, <1>18, <1>19, <1>20, <1>21, <1>22, <1>23, <1>24,
            <1>25, <1>26, <1>27

LEMMA StepMeets ==
    ASSUME NEW c, Staged!Step(c), ~Begins(c)
    PROVE  met' = met
<1>1. CASE Staged!Create(c)
  BY <1>1 DEF Staged!Create, Staged!World, Begins
<1>2. CASE Staged!Calibrate(c)
  BY <1>2 DEF Staged!Calibrate, Staged!World, Begins
<1>3. CASE Staged!SaveNew(c)
  BY <1>3 DEF Staged!SaveNew, Staged!World, Begins
<1>4. CASE Staged!ExtractCandidate(c)
  BY <1>4 DEF Staged!ExtractCandidate, Staged!World, Begins
<1>5. CASE Staged!RecordCandidate(c)
  BY <1>5 DEF Staged!RecordCandidate, Staged!World, Begins
<1>6. CASE Staged!Resume(c)
  BY <1>6 DEF Staged!Resume, Staged!World, Begins
<1>7. CASE Staged!Verify(c)
  BY <1>7 DEF Staged!Verify, Staged!World, Begins
<1>8. CASE Staged!Extract(c)
  BY <1>8 DEF Staged!Extract, Staged!World, Begins
<1>9. CASE Staged!RecordRender(c)
  BY <1>9 DEF Staged!RecordRender, Staged!World, Begins
<1>10. CASE Staged!Validate(c)
  BY <1>10 DEF Staged!Validate, Staged!World, Begins
<1>11. CASE Staged!KeepPrimitive(c)
  BY <1>11 DEF Staged!KeepPrimitive, Staged!World, Begins
<1>12. CASE Staged!ExtractImage(c)
  BY <1>12 DEF Staged!ExtractImage, Staged!World, Begins
<1>13. CASE Staged!ResetPage(c)
  BY <1>13 DEF Staged!ResetPage, Staged!World, Begins
<1>14. CASE Staged!Regenerate(c)
  BY <1>14 DEF Staged!Regenerate, Staged!World, Begins
<1>15. CASE Staged!RecordPrimitive(c)
  BY <1>15 DEF Staged!RecordPrimitive, Staged!World, Begins
<1>16. CASE Staged!KeepSemantic(c)
  BY <1>16 DEF Staged!KeepSemantic, Staged!World, Begins
<1>17. CASE Staged!MakeSemantic(c)
  BY <1>17 DEF Staged!MakeSemantic, Staged!World, Begins
<1>18. CASE Staged!RecordSemantic(c)
  BY <1>18 DEF Staged!RecordSemantic, Staged!World, Begins
<1>19. CASE Staged!ResetDxf(c)
  BY <1>19 DEF Staged!ResetDxf, Staged!World, Begins
<1>20. CASE Staged!KeepDxf(c)
  BY <1>20 DEF Staged!KeepDxf, Staged!World, Begins
<1>21. CASE Staged!ForgetDxf(c)
  BY <1>21 DEF Staged!ForgetDxf, Staged!World, Begins
<1>22. CASE Staged!BuildDxf(c)
  BY <1>22 DEF Staged!BuildDxf, Staged!World, Begins
<1>23. CASE Staged!WriteEvidence(c)
  BY <1>23 DEF Staged!WriteEvidence, Staged!World, Begins
<1>24. CASE Staged!RecordDxf(c)
  BY <1>24 DEF Staged!RecordDxf, Staged!World, Begins
<1>25. CASE Staged!RecordEvidence(c)
  BY <1>25 DEF Staged!RecordEvidence, Staged!World, Begins
<1>26. CASE Staged!Fail(c)
  BY <1>26 DEF Staged!Fail, Staged!World, Begins
<1>27. CASE Staged!Kill(c)
  BY <1>27 DEF Staged!Kill, Staged!World, Begins
<1>. QED BY StepActions, <1>1, <1>2, <1>3, <1>4, <1>5, <1>6, <1>7, <1>8, <1>9, <1>10, <1>11, <1>12,
            <1>13, <1>14, <1>15, <1>16, <1>17, <1>18, <1>19, <1>20, <1>21, <1>22, <1>23, <1>24,
            <1>25, <1>26, <1>27

LEMMA StagedAlone ==
    ASSUME StagedTyped, NEW c \in Commands, Staged!Step(c), ~met', Staged!AtMostOne(Staged!Alive)
    PROVE  /\ ~met /\ Staged!Alive \subseteq {c} /\ Staged!Alive' \subseteq {c}
           /\ Begins(c) \/ (~Begins(c) /\ Staged!Alive = {c})
<1>1. ~met
  BY StepHistory
<1>2. CASE Begins(c)
  <2>1. Staged!Alive = {}
    BY <1>2 DEF Begins, Staged!Create, Staged!Calibrate, Staged!Resume, Staged!Meet
  <2>2. Staged!Alive' \subseteq {c}
    BY <2>1, OthersWait DEF Staged!Alive
  <2>. QED BY <1>1, <1>2, <2>1, <2>2
<1>3. CASE ~Begins(c)
  <2>1. Staged!Alive = {c}
    BY <1>3, StepAlive DEF Staged!AtMostOne
  <2>2. Staged!Alive' \subseteq {c}
    BY <2>1, OthersWait DEF Staged!Alive
  <2>. QED BY <1>1, <1>3, <2>1, <2>2
<1>. QED BY <1>2, <1>3

\* A command that goes on has saved what it holds.
LEMMA StepSaves ==
    ASSUME StagedTyped, NEW c \in Commands, Staged!Step(c), sPc[c] \in Staged!Resting \/ sPc[c] = "save new" \/ manifest = {copy[c]}
    PROVE  sPc'[c] \in Staged!Resting \/ sPc'[c] = "save new" \/ manifest' = {copy'[c]}
<1> DEFINE Saved == sPc'[c] \in Staged!Resting \/ sPc'[c] = "save new" \/ manifest' = {copy'[c]}
<1>0. \A s \in {"idle", "done", "failed", "killed"} : s \in Staged!Resting
  BY DEF Staged!Resting
<1>1. ASSUME NEW how \in {"done", "failed", "killed"}, Staged!End(c, how) PROVE Saved
  BY <1>0, <1>1 DEF Staged!End, Staged!Goto, StagedTyped, ControlTyped
<1>2. ASSUME NEW m, Staged!Save(c, m) PROVE Saved
  BY <1>2 DEF Staged!Save, StagedTyped, ControlTyped
<1>3. ASSUME copy' = copy, manifest' = manifest, sPc[c] \notin {"idle", "done", "failed", "killed", "save new"} PROVE Saved
  BY <1>3 DEF Staged!Resting
<1>4. CASE Staged!Create(c) \/ Staged!Calibrate(c)
  BY <1>4 DEF Staged!Create, Staged!Calibrate, Staged!Goto, StagedTyped, ControlTyped
<1>5. CASE Staged!Resume(c)
  <2>1. PICK m \in manifest : copy' = [copy EXCEPT ![c] = m]
    BY <1>5 DEF Staged!Resume
  <2>2. manifest' = {m}
    BY <1>5, <2>1 DEF Staged!Resume, StagedTyped, DataTyped
  <2>3. copy'[c] = m
    BY <2>1 DEF StagedTyped, ControlTyped
  <2>. QED BY <2>2, <2>3
<1>. SUFFICES Saved
  OBVIOUS
<1>6. (Staged!Create(c) \/ Staged!Calibrate(c) \/ Staged!Resume(c)) => Saved
  BY <1>4, <1>5
<1>. HIDE DEF Saved
<1>9. CASE Staged!SaveNew(c)
  BY <1>1, <1>2, <1>3, <1>9 DEF Staged!SaveNew, Staged!NextPage, Staged!World
<1>10. CASE Staged!ExtractCandidate(c)
  BY <1>1, <1>2, <1>3, <1>10 DEF Staged!ExtractCandidate, Staged!NextPage, Staged!World
<1>11. CASE Staged!RecordCandidate(c)
  BY <1>1, <1>2, <1>3, <1>11 DEF Staged!RecordCandidate, Staged!NextPage, Staged!World
<1>13. CASE Staged!Verify(c)
  BY <1>1, <1>2, <1>3, <1>13 DEF Staged!Verify, Staged!NextPage, Staged!World
<1>14. CASE Staged!Extract(c)
  BY <1>1, <1>2, <1>3, <1>14 DEF Staged!Extract, Staged!NextPage, Staged!World
<1>15. CASE Staged!RecordRender(c)
  BY <1>1, <1>2, <1>3, <1>15 DEF Staged!RecordRender, Staged!NextPage, Staged!World
<1>16. CASE Staged!Validate(c)
  BY <1>1, <1>2, <1>3, <1>16 DEF Staged!Validate, Staged!NextPage, Staged!World
<1>17. CASE Staged!KeepPrimitive(c)
  BY <1>1, <1>2, <1>3, <1>17 DEF Staged!KeepPrimitive, Staged!NextPage, Staged!World
<1>18. CASE Staged!ExtractImage(c)
  BY <1>1, <1>2, <1>3, <1>18 DEF Staged!ExtractImage, Staged!NextPage, Staged!World
<1>19. CASE Staged!ResetPage(c)
  BY <1>1, <1>2, <1>3, <1>19 DEF Staged!ResetPage, Staged!NextPage, Staged!World
<1>20. CASE Staged!Regenerate(c)
  BY <1>1, <1>2, <1>3, <1>20 DEF Staged!Regenerate, Staged!NextPage, Staged!World
<1>21. CASE Staged!RecordPrimitive(c)
  BY <1>1, <1>2, <1>3, <1>21 DEF Staged!RecordPrimitive, Staged!NextPage, Staged!World
<1>22. CASE Staged!KeepSemantic(c)
  BY <1>1, <1>2, <1>3, <1>22 DEF Staged!KeepSemantic, Staged!NextPage, Staged!World
<1>23. CASE Staged!MakeSemantic(c)
  BY <1>1, <1>2, <1>3, <1>23 DEF Staged!MakeSemantic, Staged!NextPage, Staged!World
<1>24. CASE Staged!RecordSemantic(c)
  BY <1>1, <1>2, <1>3, <1>24 DEF Staged!RecordSemantic, Staged!NextPage, Staged!World
<1>25. CASE Staged!ResetDxf(c)
  BY <1>1, <1>2, <1>3, <1>25 DEF Staged!ResetDxf, Staged!NextPage, Staged!World
<1>26. CASE Staged!KeepDxf(c)
  BY <1>1, <1>2, <1>3, <1>26 DEF Staged!KeepDxf, Staged!NextPage, Staged!World
<1>27. CASE Staged!ForgetDxf(c)
  BY <1>1, <1>2, <1>3, <1>27 DEF Staged!ForgetDxf, Staged!NextPage, Staged!World
<1>28. CASE Staged!BuildDxf(c)
  BY <1>1, <1>2, <1>3, <1>28 DEF Staged!BuildDxf, Staged!NextPage, Staged!World
<1>29. CASE Staged!WriteEvidence(c)
  BY <1>1, <1>2, <1>3, <1>29 DEF Staged!WriteEvidence, Staged!NextPage, Staged!World
<1>30. CASE Staged!RecordDxf(c)
  BY <1>1, <1>2, <1>3, <1>30 DEF Staged!RecordDxf, Staged!NextPage, Staged!World
<1>31. CASE Staged!RecordEvidence(c)
  BY <1>1, <1>2, <1>3, <1>31 DEF Staged!RecordEvidence, Staged!NextPage, Staged!World
<1>32. CASE Staged!Fail(c)
  BY <1>1, <1>2, <1>3, <1>32 DEF Staged!Fail, Staged!NextPage, Staged!World
<1>33. CASE Staged!Kill(c)
  BY <1>1, <1>2, <1>3, <1>33 DEF Staged!Kill, Staged!NextPage, Staged!World
<1>. QED BY StepActions, <1>6, <1>9, <1>10, <1>11, <1>13, <1>14, <1>15, <1>16, <1>17, <1>18, <1>19,
            <1>20, <1>21, <1>22, <1>23, <1>24, <1>25, <1>26, <1>27, <1>28, <1>29, <1>30, <1>31,
            <1>32, <1>33

\* With a fit the record is the file's content, or what was put there by hand.
LEMMA NearFits ==
    ASSUME NEW k, NEW r, NEW f, Near(r, f, k), Fits(r, f, k), f[k] # {}
    PROVE  r[k] = f[k]
BY DEF Near, Fits

\* What a step keeps, for a page whose row the manifest does not change.
LEMMA RowKept ==
    ASSUME NEW r, NEW f, NEW f2,
           Fits(r, f2, "primitive") => Fits(r, f, "primitive"),
           Fits(r, f2, "semantic") => Fits(r, f, "semantic")
    PROVE  /\ FromPrimitive(r, f) => FromPrimitive(r, f2)
           /\ FromBoth(r, f) => FromBoth(r, f2)
BY DEF FromPrimitive, FromBoth

LEMMA RowSame ==
    ASSUME NEW r, NEW f, NEW r2, NEW f2,
           \A k \in {"rendered", "primitive", "semantic", "dxf"} : r2[k] = r[k],
           \A k \in {"primitive", "semantic"} : f2[k] = f[k]
    PROVE  /\ SameSource(r) => SameSource(r2)
           /\ r["semantic"] # {Staged!Partial} => r2["semantic"] # {Staged!Partial}
           /\ FromPrimitive(r, f) => FromPrimitive(r2, f2)
           /\ FromBoth(r, f) => FromBoth(r2, f2)
BY DEF FromPrimitive, FromBoth, SameSource, Fits

LEMMA RowBare ==
    ASSUME NEW r, NEW f, r["semantic"] = {}, r["dxf"] = {}
    PROVE  r["semantic"] # {Staged!Partial} /\ FromPrimitive(r, f) /\ FromBoth(r, f)
BY DEF FromPrimitive, FromBoth, MadeOf, Staged!Partial, Fits

\* A document command that is alone, in a run nothing has cut.
Context(c) ==
    /\ StagedBounds /\ StagedTyped /\ CandidateInv /\ BuiltInv /\ ~met /\ kind = "pdf" /\ ~cut
    /\ Staged!Step(c) /\ c \in Staged!Alive /\ Staged!Alive \subseteq {c} /\ Staged!Alive' \subseteq {c} /\ ~cut'
    /\ AtWork(c)
    /\ sPc[c] # "save new" => manifest = {copy[c]}
    /\ \A m \in manifest : Derived(m)

RowSound(c, r, f, p) ==
    /\ SameSource(r) /\ r["semantic"] # {Staged!Partial}
    /\ sPc[c] = "record render" \/ FromPrimitive(r, f)
    /\ sPc[c] = "record render" \/ (at[c] = p /\ sPc[c] \in {"record semantic", "reset dxf"}) \/ FromBoth(r, f)

LEMMA Before ==
    ASSUME NEW c \in Commands, Context(c)
    PROVE  /\ \A m \in manifest, p \in Staged!Pages : RowSound(c, m.page[p], disk[p], p)
           /\ sPc[c] # "save new" => \A p \in Staged!Pages : RowSound(c, copy[c].page[p], disk[p], p)
<1>1. \A d \in Commands \ {c} : sPc[d] \notin {"record render", "record semantic", "reset dxf"}
  BY DEF Context, Staged!Alive, Staged!Resting
<1>2. /\ Rerendering => sPc[c] = "record render"
      /\ \A p \in Staged!Pages : Remaking(p) => at[c] = p /\ sPc[c] \in {"record semantic", "reset dxf"}
  BY <1>1 DEF Rerendering, Remaking
<1>3. \A m \in manifest : Derived(m)
  BY DEF Context
<1>4. \A m \in manifest, p \in Staged!Pages : RowSound(c, m.page[p], disk[p], p)
  BY <1>2, <1>3 DEF Derived, RowSound
<1>. QED BY <1>4 DEF Context

\* It is enough to show this of the next state.
Sound(c) ==
    /\ \A m \in manifest', p \in Staged!Pages :
         /\ SameSource(m.page[p]) /\ m.page[p]["semantic"] # {Staged!Partial}
         /\ sPc'[c] = "record render" \/ FromPrimitive(m.page[p], disk'[p])
         /\ \/ sPc'[c] = "record render" \/ (at'[c] = p /\ sPc'[c] \in {"record semantic", "reset dxf"})
            \/ FromBoth(m.page[p], disk'[p])
    /\ sPc'[c] = "save new" => \A p \in Staged!Pages, k \in Staged!Stages : copy'[c].page[p][k] = {}
    /\ sPc'[c] = "record render" => \A p \in Staged!Pages : SameSource(disk'[p])
    /\ Working(sPc'[c], copy'[c].page[at'[c]], disk'[at'[c]])

LEMMA After ==
    ASSUME NEW c \in Commands, Sound(c)
    PROVE  AtWork(c)' /\ \A m \in manifest' : Derived(m)'
<1>1. AtWork(c)'
  BY DEF Sound, AtWork, Working, SameSource, Fits, Near, MadeOf
<1>2. /\ sPc'[c] = "record render" => Rerendering'
      /\ \A p \in Staged!Pages : at'[c] = p /\ sPc'[c] \in {"record semantic", "reset dxf"} => Remaking(p)'
  BY DEF Rerendering, Remaking
<1>3. ASSUME NEW m \in manifest' PROVE Derived(m)'
  <2>. SUFFICES ASSUME NEW p \in Staged!Pages
                PROVE  /\ SameSource(m.page[p])' /\ (m.page[p]["semantic"] # {Staged!Partial})'
                       /\ Rerendering' \/ FromPrimitive(m.page[p], disk[p])'
                       /\ Rerendering' \/ Remaking(p)' \/ FromBoth(m.page[p], disk[p])'
    BY DEF Derived
  <2>1. SameSource(m.page[p])' /\ (m.page[p]["semantic"] # {Staged!Partial})'
    BY DEF Sound, SameSource
  <2>2. Rerendering' \/ FromPrimitive(m.page[p], disk'[p])
    BY <1>2 DEF Sound
  <2>3. Rerendering' \/ Remaking(p)' \/ FromBoth(m.page[p], disk'[p])
    BY <1>2 DEF Sound
  <2>4. FromPrimitive(m.page[p], disk'[p]) => FromPrimitive(m.page[p], disk[p])'
    BY DEF FromPrimitive, Fits
  <2>5. FromBoth(m.page[p], disk'[p]) => FromBoth(m.page[p], disk[p])'
    BY DEF FromBoth, Fits, MadeOf
  <2>. QED BY <2>1, <2>2, <2>3, <2>4, <2>5
<1>. QED BY <1>1, <1>3

\* Steps of no interest to a page's records.
LEMMA RestingWorks ==
    ASSUME NEW s \in Staged!Resting \cup {"save new", "verify", "render", "record render", "validate", "candidate",
                                    "record candidate", "primitive"}, NEW r, NEW f
    PROVE  Working(s, r, f) /\ s \notin {"record semantic", "reset dxf"}
BY DEF Working, Staged!Resting, AfterPrimitive, Staged!Building

\* A step that leaves the manifest, and makes no record fit that did not.
LEMMA ManifestKept ==
    ASSUME NEW c \in Commands, Context(c), manifest' = manifest,
           sPc[c] \notin {"record render", "record semantic", "reset dxf"},
           \A m \in manifest, p \in Staged!Pages :
             /\ Fits(m.page[p], disk'[p], "primitive") => Fits(m.page[p], disk[p], "primitive")
             /\ Fits(m.page[p], disk'[p], "semantic") => Fits(m.page[p], disk[p], "semantic"),
           sPc'[c] = "save new" => \A p \in Staged!Pages, k \in Staged!Stages : copy'[c].page[p][k] = {},
           sPc'[c] = "record render" => \A p \in Staged!Pages : SameSource(disk'[p]),
           Working(sPc'[c], copy'[c].page[at'[c]], disk'[at'[c]])
    PROVE  Sound(c)
<1>1. \A m \in manifest, p \in Staged!Pages :
        SameSource(m.page[p]) /\ m.page[p]["semantic"] # {Staged!Partial}
        /\ FromPrimitive(m.page[p], disk[p]) /\ FromBoth(m.page[p], disk[p])
  BY Before DEF RowSound
<1>2. \A m \in manifest, p \in Staged!Pages : FromPrimitive(m.page[p], disk'[p]) /\ FromBoth(m.page[p], disk'[p])
  BY <1>1, RowKept
<1>. QED BY <1>1, <1>2 DEF Sound

\* A step that saves the copy, with other records for the page at work only.
LEMMA ManifestSaved ==
    ASSUME NEW c \in Commands, Context(c), NEW m, manifest' = {m}, disk' = disk,
           sPc[c] \notin {"record render", "save new"},
           sPc'[c] \notin {"record render", "save new"},
           \A p \in Staged!Pages \ {at[c]}, k \in Staged!Stages : m.page[p][k] = copy[c].page[p][k],
           SameSource(m.page[at[c]]), m.page[at[c]]["semantic"] # {Staged!Partial},
           FromPrimitive(m.page[at[c]], disk[at[c]]),
           \/ at'[c] = at[c] /\ sPc'[c] \in {"record semantic", "reset dxf"}
           \/ FromBoth(m.page[at[c]], disk[at[c]]),
           Working(sPc'[c], copy'[c].page[at'[c]], disk'[at'[c]])
    PROVE  Sound(c)
<1>1. ASSUME NEW p \in Staged!Pages \ {at[c]}
      PROVE  SameSource(m.page[p]) /\ m.page[p]["semantic"] # {Staged!Partial}
             /\ FromPrimitive(m.page[p], disk'[p]) /\ FromBoth(m.page[p], disk'[p])
  <2>1. RowSound(c, copy[c].page[p], disk[p], p)
    BY Before
  <2>2. SameSource(copy[c].page[p]) /\ copy[c].page[p]["semantic"] # {Staged!Partial}
        /\ FromPrimitive(copy[c].page[p], disk[p]) /\ FromBoth(copy[c].page[p], disk[p])
    BY <2>1 DEF RowSound
  <2>3. \A k \in {"rendered", "primitive", "semantic", "dxf"} : m.page[p][k] = copy[c].page[p][k]
    BY StageNames
  <2>4. /\ SameSource(copy[c].page[p]) => SameSource(m.page[p])
        /\ copy[c].page[p]["semantic"] # {Staged!Partial} => m.page[p]["semantic"] # {Staged!Partial}
        /\ FromPrimitive(copy[c].page[p], disk[p]) => FromPrimitive(m.page[p], disk[p])
        /\ FromBoth(copy[c].page[p], disk[p]) => FromBoth(m.page[p], disk[p])
    <3> DEFINE r == copy[c].page[p]
               r2 == m.page[p]
               f == disk[p]
    <3>1. \A k \in {"rendered", "primitive", "semantic", "dxf"} : r2[k] = r[k]
      BY <2>3
    <3>. HIDE DEF r, r2, f
    <3>2. /\ SameSource(r) => SameSource(r2)
          /\ r["semantic"] # {Staged!Partial} => r2["semantic"] # {Staged!Partial}
          /\ FromPrimitive(r, f) => FromPrimitive(r2, f)
          /\ FromBoth(r, f) => FromBoth(r2, f)
      BY <3>1, RowSame
    <3>. QED BY <3>2 DEF r, r2, f
  <2>. QED BY <2>2, <2>4
<1>. QED BY <1>1 DEF Sound

LEMMA SoundStep ==
    ASSUME NEW c \in Commands, Context(c)
    PROVE  Sound(c)
<1>0. /\ StagedBounds /\ StagedTyped /\ Staged!Step(c) /\ kind = "pdf" /\ ~cut /\ ~cut'
      /\ sPc[c] # "save new" => manifest = {copy[c]}
      /\ Working(sPc[c], copy[c].page[at[c]], disk[at[c]])
  BY DEF Context, AtWork
<1>00. StagedBounds /\ StagedTyped
  BY <1>0
<1>06. /\ \A k \in Staged!Stages : \A p \in Staged!Pages, j \in Staged!Stages :
            Staged!Recorded(c, k).page[p][j] = IF p = at[c] /\ j = k THEN disk[p][k] ELSE copy[c].page[p][j]
       /\ \A S : \A p \in Staged!Pages, j \in Staged!Stages :
            Staged!Forgotten(c, S).page[p][j] = IF p = at[c] /\ j \in S THEN {} ELSE copy[c].page[p][j]
  BY <1>00, RecordedIs, ForgottenIs
<1>07. ASSUME NEW k \in Staged!Stages, NEW F \in PageFiles, Staged!Put(c, k, F)
       PROVE  \A p \in Staged!Pages, j \in Staged!Stages : disk'[p][j] = IF p = at[c] /\ j = k THEN F ELSE disk[p][j]
  BY <1>00, <1>07, PutIs
<1>08. "rendered" \in Staged!Stages /\ "primitive" \in Staged!Stages /\ "semantic" \in Staged!Stages /\ "dxf" \in Staged!Stages /\ "evidence" \in Staged!Stages
  BY StageNames
<1>01. /\ copy[c] \in RunManifests /\ at[c] \in Staged!Pages /\ \A k \in Staged!Stages : Staged!File(c, k) \in PageFiles
       /\ sPc \in [Commands -> StagedSteps \cup Staged!Resting] /\ at \in [Commands -> Staged!Pages]
       /\ copy \in [Commands -> RunManifests]
  BY <1>0 DEF StagedTyped, DataTyped, ControlTyped, Staged!File
<1>02. {{source}} \in PageFiles /\ {Staged!Partial} \in PageFiles
  BY <1>0, MarksArePlain DEF StagedTyped, DataTyped
<1>03. ASSUME NEW s, Staged!Goto(c, s) PROVE sPc'[c] = s
  BY <1>01, <1>03 DEF Staged!Goto
<1>04. ASSUME NEW s, Staged!End(c, s) PROVE sPc'[c] = s
  BY <1>03, <1>04 DEF Staged!End
<1>05. ASSUME NEW m, Staged!Save(c, m) PROVE copy'[c] = m /\ manifest' = {m}
  BY <1>01, <1>05 DEF Staged!Save
\* The command ends, and leaves the manifest.
<1>1. ASSUME NEW how \in {"done", "failed", "killed"}, Staged!End(c, how), manifest' = manifest,
             sPc[c] \notin {"record render", "record semantic", "reset dxf"},
             \A m \in manifest, p \in Staged!Pages :
               /\ Fits(m.page[p], disk'[p], "primitive") => Fits(m.page[p], disk[p], "primitive")
               /\ Fits(m.page[p], disk'[p], "semantic") => Fits(m.page[p], disk[p], "semantic")
      PROVE  Sound(c)
  <2>1. sPc'[c] = how /\ how \in Staged!Resting
    BY <1>1, <1>04 DEF Staged!Resting
  <2>2. Working(sPc'[c], copy'[c].page[at'[c]], disk'[at'[c]])
    BY <2>1, RestingWorks
  <2>. QED BY <1>1, <2>1, <2>2, ManifestKept
\* It goes on, and nothing else changes.
<1>2. ASSUME NEW s, s \notin {"save new", "record render"}, Staged!Goto(c, s), UNCHANGED <<manifest, disk, copy, at>>,
             sPc[c] \notin {"record render", "record semantic", "reset dxf"},
             Working(s, copy[c].page[at[c]], disk[at[c]])
      PROVE  Sound(c)
  BY <1>03, <1>2, ManifestKept
<1>3. ASSUME NEW s \in {"verify", "render", "validate", "candidate", "record candidate", "primitive"}
      PROVE  \A r, f : Working(s, r, f)
  BY RestingWorks
<1>4. CASE Staged!SaveNew(c)
  <2>1. copy'[c] = copy[c] /\ manifest' = {copy[c]} /\ disk' = disk
    BY <1>05, <1>4 DEF Staged!SaveNew
  <2>2. sPc'[c] \in {"verify", "candidate"}
    BY <1>03, <1>4 DEF Staged!SaveNew
  <2>3. \A p \in Staged!Pages, k \in Staged!Stages : copy[c].page[p][k] = {}
    BY <1>4 DEF Staged!SaveNew, Context, AtWork
  <2>4. ASSUME NEW p \in Staged!Pages
        PROVE  SameSource(copy[c].page[p]) /\ copy[c].page[p]["semantic"] # {Staged!Partial}
               /\ FromPrimitive(copy[c].page[p], disk'[p]) /\ FromBoth(copy[c].page[p], disk'[p])
    BY <2>3, StageNames, RowBare DEF SameSource
  <2>. QED BY <1>3, <2>1, <2>2, <2>4 DEF Sound
<1>5. CASE Staged!ExtractCandidate(c)
  <2>0. /\ \A p \in Staged!Pages : copy[c].page[p]["semantic"] = {} /\ copy[c].page[p]["dxf"] = {}
        /\ manifest = {copy[c]} /\ sPc[c] = "candidate"
    BY <1>0, <1>5 DEF Staged!ExtractCandidate, Context, CandidateInv, HonestCandidate, EstimateSteps
  <2>1. manifest' = {copy[c]}
    BY <2>0, <1>5 DEF Staged!ExtractCandidate
  <2>2. sPc'[c] \in Staged!Resting \cup {"record candidate"} /\ sPc'[c] \notin {"save new", "record render"}
    BY <1>03, <1>04, <1>5 DEF Staged!ExtractCandidate, Staged!Resting
  <2>3. \A p \in Staged!Pages : SameSource(copy[c].page[p])
    BY <2>0, Before DEF RowSound
  <2>4. ASSUME NEW p \in Staged!Pages
        PROVE  copy[c].page[p]["semantic"] # {Staged!Partial}
               /\ FromPrimitive(copy[c].page[p], disk'[p]) /\ FromBoth(copy[c].page[p], disk'[p])
    BY <2>0, RowBare
  <2>5. Working(sPc'[c], copy'[c].page[at'[c]], disk'[at'[c]])
    BY <2>2, RestingWorks
  <2>. QED BY <2>1, <2>2, <2>3, <2>4, <2>5 DEF Sound
<1>6. CASE Staged!RecordCandidate(c)
  <2>1. CASE manifest' = {Staged!Rendered(c)} /\ Staged!End(c, "done") /\ \A p \in Staged!Pages : disk[p]["rendered"] = disk[p]["primitive"]
    <3>1. \A p \in Staged!Pages, j \in Staged!Stages : Staged!Rendered(c).page[p][j] = IF j \in {"rendered", "primitive"} THEN disk[p][j] ELSE {}
      BY <1>0, RenderedIs
    <3> DEFINE m == Staged!Rendered(c)
    <3>2. \A p \in Staged!Pages : m.page[p]["semantic"] = {} /\ m.page[p]["dxf"] = {} /\ m.page[p]["rendered"] = m.page[p]["primitive"]
      BY <2>1, <3>1, StageNames
    <3>3. manifest' = {m}
      BY <2>1
    <3>. HIDE DEF m
    <3>4. sPc'[c] \in Staged!Resting /\ sPc'[c] \notin {"save new", "record render"}
      BY <1>04, <2>1 DEF Staged!Resting
    <3>5. Working(sPc'[c], copy'[c].page[at'[c]], disk'[at'[c]])
      BY <3>4, RestingWorks
    <3>6. ASSUME NEW p \in Staged!Pages
          PROVE  SameSource(m.page[p]) /\ m.page[p]["semantic"] # {Staged!Partial}
                 /\ FromPrimitive(m.page[p], disk'[p]) /\ FromBoth(m.page[p], disk'[p])
      BY <3>2, RowBare DEF SameSource
    <3>. QED BY <3>3, <3>4, <3>5, <3>6 DEF Sound
  <2>2. CASE manifest' = manifest /\ Staged!End(c, "failed")
    BY <1>1, <1>6, <2>2 DEF Staged!RecordCandidate
  <2>. QED BY <1>6, <2>1, <2>2 DEF Staged!RecordCandidate
<1>7. CASE Staged!Verify(c)
  BY <1>0, <1>1, <1>2, <1>3, <1>7 DEF Staged!Verify
<1>8. CASE Staged!Extract(c)
  <2>0. sPc[c] = "render" /\ manifest' = manifest
    BY <1>8 DEF Staged!Extract
  <2>1. CASE Staged!Complete(copy[c].render, listing)
    BY <1>2, <1>3, <1>8, <2>1 DEF Staged!Extract
  <2>2. CASE ~Staged!Complete(copy[c].render, listing)
    <3>1. PICK n \in 0..LastPage :
            /\ Staged!WritePages(0..n)
            /\ \/ Staged!Pages \subseteq 0..n /\ Staged!Goto(c, "record render")
               \/ Staged!End(c, "failed") /\ cut' = (cut \/ 1 \in 0..n)
      BY <1>8, <2>2 DEF Staged!Extract
    <3>2. \A p \in Staged!Pages, j \in Staged!Stages :
            disk'[p][j] = IF p \in 0..n /\ j \in {"rendered", "primitive"} THEN {{source}} ELSE disk[p][j]
      BY <1>0, <3>1, WritePagesIs
    <3>3. CASE Staged!Pages \subseteq 0..n /\ Staged!Goto(c, "record render")
      <4>1. sPc'[c] = "record render"
        BY <1>03, <3>3
      <4>2. \A p \in Staged!Pages : SameSource(disk'[p])
        BY <3>2, <3>3, StageNames DEF SameSource
      <4>3. \A m \in manifest, p \in Staged!Pages : SameSource(m.page[p]) /\ m.page[p]["semantic"] # {Staged!Partial}
        BY Before DEF RowSound
      <4>4. Working(sPc'[c], copy'[c].page[at'[c]], disk'[at'[c]])
        BY <4>1, RestingWorks
      <4>. QED BY <2>0, <4>1, <4>2, <4>3, <4>4 DEF Sound
    <3>4. CASE Staged!End(c, "failed") /\ cut' = (cut \/ 1 \in 0..n)
      <4>1. n = 0
        <5>1. ~(1 \in 0..n)
          BY <1>0, <3>4, Zenon
        <5>2. LastPage \in Nat
          BY <1>00 DEF StagedBounds
        <5>3. n \in 0..LastPage
          BY <3>1
        <5>4. n \in Nat
          BY <5>2, <5>3
        <5>. QED BY <5>1, <5>4
      <4>2. \A p \in Staged!Pages : p \notin 0..n
        BY <4>1 DEF Staged!Pages
      <4>3. \A p \in Staged!Pages : disk'[p]["primitive"] = disk[p]["primitive"] /\ disk'[p]["semantic"] = disk[p]["semantic"]
        BY <3>2, <4>2, StageNames
      <4>. QED BY <1>1, <2>0, <3>4, <4>3 DEF Fits
    <3>. QED BY <3>1, <3>3, <3>4
  <2>. QED BY <2>1, <2>2
<1>9. CASE Staged!RecordRender(c)
  <2>1. Staged!Save(c, Staged!Rendered(c)) /\ Staged!Goto(c, "validate")
    BY <1>0, <1>9 DEF Staged!RecordRender
  <2>2. sPc'[c] = "validate" /\ manifest' = {Staged!Rendered(c)}
    BY <1>03, <1>05, <2>1
  <2>3. \A p \in Staged!Pages : SameSource(disk[p])
    BY <1>9 DEF Staged!RecordRender, Context, AtWork
  <2>4. \A p \in Staged!Pages, j \in Staged!Stages : Staged!Rendered(c).page[p][j] = IF j \in {"rendered", "primitive"} THEN disk[p][j] ELSE {}
    BY <1>0, RenderedIs
  <2> DEFINE m == Staged!Rendered(c)
  <2>5. \A p \in Staged!Pages : /\ m.page[p]["semantic"] = {} /\ m.page[p]["dxf"] = {}
                                /\ m.page[p]["rendered"] = disk[p]["rendered"] /\ m.page[p]["primitive"] = disk[p]["primitive"]
    BY <2>4, StageNames
  <2>6. manifest' = {m}
    BY <2>2
  <2>. HIDE DEF m
  <2>7. ASSUME NEW p \in Staged!Pages
        PROVE  SameSource(m.page[p]) /\ m.page[p]["semantic"] # {Staged!Partial}
               /\ FromPrimitive(m.page[p], disk'[p]) /\ FromBoth(m.page[p], disk'[p])
    <3>1. SameSource(m.page[p])
      BY <2>3, <2>5 DEF SameSource
    <3>. QED BY <2>5, <3>1, RowBare
  <2>. QED BY <1>3, <2>2, <2>6, <2>7 DEF Sound
<1>10. CASE Staged!Validate(c)
  BY <1>1, <1>2, <1>3, <1>10 DEF Staged!Validate
<1>11. CASE Staged!KeepPrimitive(c)
  <2>1. copy[c].page[at[c]]["primitive"] = disk[at[c]]["primitive"]
    BY <1>11 DEF Staged!KeepPrimitive, Staged!Done, Staged!Complete
  <2>2. Working("semantic", copy[c].page[at[c]], disk[at[c]])
    BY <2>1 DEF Working, AfterPrimitive, Staged!Building, Near
  <2>. QED BY <1>2, <1>11, <2>2 DEF Staged!KeepPrimitive
<1>12. CASE Staged!ExtractImage(c)
  BY <1>0, <1>12 DEF Staged!ExtractImage
<1>13. CASE Staged!ResetPage(c)
  <2> DEFINE m == Staged!Forgotten(c, Staged!Stages \ {"rendered"})
  <2>1. Staged!Save(c, m) /\ Staged!Goto(c, "regenerate") /\ disk' = disk /\ at' = at /\ sPc[c] = "primitive"
    BY <1>13 DEF Staged!ResetPage, Staged!Reset
  <2>2. \A p \in Staged!Pages, j \in Staged!Stages : m.page[p][j] = IF p = at[c] /\ j \in Staged!Stages \ {"rendered"} THEN {} ELSE copy[c].page[p][j]
    BY <1>06
  <2>. HIDE DEF m
  <2>3. sPc'[c] = "regenerate" /\ copy'[c] = m /\ manifest' = {m} /\ at'[c] = at[c]
    BY <1>03, <1>05, <2>1
  <2> DEFINE r == m.page[at[c]]
  <2>4. r["primitive"] = {} /\ r["semantic"] = {} /\ r["dxf"] = {}
    BY <1>01, <2>2, StageNames
  <2>5. SameSource(r)
    BY <2>4 DEF SameSource
  <2>. HIDE DEF r
  <2>6. r["semantic"] # {Staged!Partial} /\ FromPrimitive(r, disk[at[c]]) /\ FromBoth(r, disk[at[c]])
    BY <2>4, RowBare
  <2>7. Working("regenerate", r, disk[at[c]])
    BY <2>4 DEF Working, AfterPrimitive, Staged!Building
  <2>8. Working(sPc'[c], copy'[c].page[at'[c]], disk'[at'[c]])
    BY <2>1, <2>3, <2>7 DEF r
  <2>9. \A p \in Staged!Pages \ {at[c]}, k \in Staged!Stages : m.page[p][k] = copy[c].page[p][k]
    BY <2>2
  <2>. QED BY <2>1, <2>3, <2>5, <2>6, <2>8, <2>9, ManifestSaved DEF r
<1>14. CASE Staged!Regenerate(c)
  <2>0. manifest' = manifest /\ manifest = {copy[c]} /\ sPc[c] = "regenerate"
    BY <1>0, <1>14 DEF Staged!Regenerate
  <2>1. CASE ~Staged!SameRender(c)
    BY <1>1, <1>14, <2>0, <2>1 DEF Staged!Regenerate
  <2>2. CASE Staged!SameRender(c)
    <3>1. Staged!Put(c, "primitive", {{source}}) /\ Staged!Goto(c, "record primitive") /\ copy' = copy /\ at' = at
      BY <1>14, <2>2 DEF Staged!Regenerate
    <3>2. \A p \in Staged!Pages, j \in Staged!Stages : disk'[p][j] = IF p = at[c] /\ j = "primitive" THEN {{source}} ELSE disk[p][j]
      <4>1. Staged!Put(c, "primitive", {{source}})
        BY <3>1
      <4>. QED BY <1>00, <1>02, <1>08, <4>1, PutIs
    <3> DEFINE r == copy[c].page[at[c]]
               f == disk'[at[c]]
    <3>3. r["primitive"] = {} /\ r["semantic"] = {} /\ r["dxf"] = {}
      BY <1>0, <2>0 DEF Working
    <3>4. r["rendered"] = {{source}}
      BY <2>2 DEF Staged!SameRender, Staged!Done, Staged!Complete, Staged!File
    <3>5. f["primitive"] = {{source}}
      BY <1>01, <3>2, StageNames
    <3>. HIDE DEF r, f
    <3>6. Working("record primitive", r, f)
      BY <3>3, <3>4, <3>5 DEF Working, AfterPrimitive, Staged!Building
    <3>7. sPc'[c] = "record primitive"
      BY <1>03, <3>1
    <3>8. Working(sPc'[c], copy'[c].page[at'[c]], disk'[at'[c]])
      BY <3>1, <3>6, <3>7 DEF r, f
    <3>9. ASSUME NEW p \in Staged!Pages
          PROVE  /\ Fits(copy[c].page[p], disk'[p], "primitive") => Fits(copy[c].page[p], disk[p], "primitive")
                 /\ Fits(copy[c].page[p], disk'[p], "semantic") => Fits(copy[c].page[p], disk[p], "semantic")
      <4>1. CASE p = at[c]
        BY <3>3, <4>1 DEF Fits, r
      <4>2. CASE p # at[c]
        BY <3>2, <4>2, StageNames DEF Fits
      <4>. QED BY <4>1, <4>2
    <3>. QED BY <2>0, <3>7, <3>8, <3>9, ManifestKept
  <2>. QED BY <2>1, <2>2
<1>151. CASE Staged!RecordPrimitive(c) /\ Staged!Missing(c, "primitive")
  BY <1>1, <1>151 DEF Staged!RecordPrimitive
<1>15. CASE Staged!RecordPrimitive(c) /\ ~Staged!Missing(c, "primitive")
  <2> DEFINE m == Staged!Recorded(c, "primitive")
  <2>1. Staged!Save(c, m) /\ Staged!Goto(c, "semantic") /\ disk' = disk /\ at' = at /\ sPc[c] = "record primitive"
    BY <1>15 DEF Staged!RecordPrimitive
  <2>2. \A p \in Staged!Pages, j \in Staged!Stages : m.page[p][j] = IF p = at[c] /\ j = "primitive" THEN disk[p][j] ELSE copy[c].page[p][j]
    BY <1>06, <1>08
  <2>. HIDE DEF m
  <2>3. sPc'[c] = "semantic" /\ copy'[c] = m /\ manifest' = {m} /\ at'[c] = at[c]
    BY <1>03, <1>05, <2>1
  <2> DEFINE r == m.page[at[c]]
             f == disk[at[c]]
  <2>4. /\ r["primitive"] = f["primitive"] /\ r["semantic"] = {} /\ r["dxf"] = {}
        /\ f["primitive"] \in {{}, {Staged!Edited("primitive")}, r["rendered"]}
    BY <1>0, <1>01, <2>1, <2>2, StageNames DEF Working
  <2>. HIDE DEF r, f
  <2>5. SameSource(r)
    BY <2>4 DEF SameSource
  <2>6. r["semantic"] # {Staged!Partial} /\ FromPrimitive(r, f) /\ FromBoth(r, f)
    BY <2>4, RowBare
  <2>7. Working("semantic", r, f)
    BY <2>4 DEF Working, AfterPrimitive, Staged!Building, Near
  <2>8. Working(sPc'[c], copy'[c].page[at'[c]], disk'[at'[c]])
    BY <2>1, <2>3, <2>7 DEF r, f
  <2>9. \A p \in Staged!Pages \ {at[c]}, k \in Staged!Stages : m.page[p][k] = copy[c].page[p][k]
    BY <2>2
  <2>. QED BY <2>1, <2>3, <2>5, <2>6, <2>8, <2>9, ManifestSaved DEF r, f
<1>16. CASE Staged!KeepSemantic(c)
  <2>0. sPc[c] = "semantic"
    BY <1>16 DEF Staged!KeepSemantic
  <2>1. copy[c].page[at[c]]["semantic"] = disk[at[c]]["semantic"]
    BY <1>16 DEF Staged!KeepSemantic, Staged!Done, Staged!Complete
  <2>2. Near(copy[c].page[at[c]], disk[at[c]], "primitive")
    BY <1>0, <2>0 DEF Working, AfterPrimitive
  <2>3. Near(copy[c].page[at[c]], disk[at[c]], "semantic")
    BY <2>1 DEF Near
  <2>4. Working("dxf", copy[c].page[at[c]], disk[at[c]])
    BY <2>2, <2>3 DEF Working, AfterPrimitive, Staged!Building
  <2>. QED BY <1>2, <1>16, <2>4 DEF Staged!KeepSemantic
<1>17. CASE Staged!MakeSemantic(c)
  <2>0. manifest' = manifest /\ manifest = {copy[c]} /\ sPc[c] = "semantic"
    BY <1>0, <1>17 DEF Staged!MakeSemantic
  <2>1. /\ Staged!Put(c, "semantic", Staged!File(c, "primitive")) /\ Staged!Goto(c, "record semantic") /\ copy' = copy /\ at' = at
        /\ Staged!File(c, "primitive") \notin {{}, {Staged!Partial}}
    BY <1>17 DEF Staged!MakeSemantic
  <2>2. \A p \in Staged!Pages, j \in Staged!Stages : disk'[p][j] = IF p = at[c] /\ j = "semantic" THEN Staged!File(c, "primitive") ELSE disk[p][j]
    <3>1. Staged!Put(c, "semantic", Staged!File(c, "primitive"))
      BY <2>1
    <3>2. Staged!File(c, "primitive") \in PageFiles
      BY <1>01, <1>08
    <3>. QED BY <1>00, <1>08, <3>1, <3>2, PutIs
  <2> DEFINE r == copy[c].page[at[c]]
             f == disk[at[c]]
             f2 == disk'[at[c]]
  <2>3. f2["semantic"] = f["primitive"] /\ f2["primitive"] = f["primitive"] /\ f["primitive"] \notin {{}, {Staged!Partial}}
    BY <1>01, <2>1, <2>2, StageNames DEF Staged!File
  <2>4. Near(r, f, "primitive")
    BY <1>0, <2>0 DEF Working, AfterPrimitive
  <2>5. \A p \in Staged!Pages : SameSource(copy[c].page[p]) /\ copy[c].page[p]["semantic"] # {Staged!Partial}
                         /\ FromPrimitive(copy[c].page[p], disk[p]) /\ FromBoth(copy[c].page[p], disk[p])
    BY <2>0, Before DEF RowSound
  <2>6. sPc'[c] = "record semantic" /\ at'[c] = at[c]
    BY <1>03, <2>1
  <2>7. FromPrimitive(r, f2)
    <3>1. FromPrimitive(r, f)
      BY <1>01, <2>5
    <3>. HIDE DEF r, f, f2
    <3>. QED BY <2>3, <3>1 DEF FromPrimitive, Fits
  <2>81. FromBoth(r, f)
    BY <1>01, <2>5
  <2>8. Working("record semantic", r, f2)
    <3>. HIDE DEF r, f, f2
    <3>1. \/ r["semantic"] # {Staged!Edited("semantic")} \/ ~Fits(r, f2, "primitive")
          \/ r["dxf"] = {Staged!Edited("dxf")} \/ MadeOf(r["dxf"], r["semantic"], r["primitive"])
      BY <2>3, <2>81 DEF FromBoth, Fits
    <3>. QED BY <2>3, <2>4, <3>1 DEF Working, AfterPrimitive, Staged!Building, Near, Fits
  <2>9. Working(sPc'[c], copy'[c].page[at'[c]], disk'[at'[c]])
    BY <2>1, <2>6, <2>8
  <2>10. ASSUME NEW p \in Staged!Pages \ {at[c]}
         PROVE  FromPrimitive(copy[c].page[p], disk'[p]) /\ FromBoth(copy[c].page[p], disk'[p])
    <3>1. disk'[p]["primitive"] = disk[p]["primitive"] /\ disk'[p]["semantic"] = disk[p]["semantic"]
      BY <2>2, StageNames
    <3>2. FromPrimitive(copy[c].page[p], disk[p]) /\ FromBoth(copy[c].page[p], disk[p])
      BY <2>5
    <3>. QED BY <3>1, <3>2 DEF FromPrimitive, FromBoth, Fits
  <2>. QED BY <2>0, <2>5, <2>6, <2>7, <2>9, <2>10 DEF Sound
<1>181. CASE Staged!RecordSemantic(c) /\ Staged!Missing(c, "semantic")
  <2>1. Staged!End(c, "failed") /\ manifest' = manifest /\ disk' = disk /\ sPc[c] = "record semantic"
        /\ manifest = {copy[c]} /\ disk[at[c]]["semantic"] = {}
    BY <1>0, <1>181 DEF Staged!RecordSemantic, Staged!Missing, Staged!File
  <2>2. sPc'[c] = "failed" /\ "failed" \in Staged!Resting
    BY <1>04, <2>1 DEF Staged!Resting
  <2>3. Working(sPc'[c], copy'[c].page[at'[c]], disk'[at'[c]])
    BY <2>2, RestingWorks
  <2>4. ASSUME NEW p \in Staged!Pages
        PROVE  /\ SameSource(copy[c].page[p]) /\ copy[c].page[p]["semantic"] # {Staged!Partial}
               /\ FromPrimitive(copy[c].page[p], disk[p]) /\ (at[c] = p \/ FromBoth(copy[c].page[p], disk[p]))
    BY <2>1, Before DEF RowSound
  <2> DEFINE b == copy[c].page[at[c]]
             f == disk[at[c]]
  <2>5. Working("record semantic", b, f) /\ f["semantic"] = {}
    BY <1>0, <2>1
  <2>. HIDE DEF b, f
  <2>6. FromBoth(b, f)
    BY <2>5 DEF Working, FromBoth, Fits
  <2>7. \A p \in Staged!Pages : FromBoth(copy[c].page[p], disk[p])
    BY <2>4, <2>6 DEF b, f
  <2>. QED BY <2>1, <2>2, <2>3, <2>4, <2>7 DEF Sound, Staged!Resting
<1>18. CASE Staged!RecordSemantic(c) /\ ~Staged!Missing(c, "semantic")
  <2> DEFINE m == Staged!Recorded(c, "semantic")
  <2>1. Staged!Save(c, m) /\ Staged!Goto(c, "reset dxf") /\ disk' = disk /\ at' = at /\ sPc[c] = "record semantic"
    BY <1>0, <1>18 DEF Staged!RecordSemantic
  <2>2. \A p \in Staged!Pages, j \in Staged!Stages : m.page[p][j] = IF p = at[c] /\ j = "semantic" THEN disk[p][j] ELSE copy[c].page[p][j]
    BY <1>06, <1>08
  <2>. HIDE DEF m
  <2>3. sPc'[c] = "reset dxf" /\ copy'[c] = m /\ manifest' = {m} /\ at'[c] = at[c]
    BY <1>03, <1>05, <2>1
  <2> DEFINE r == m.page[at[c]]
             f == disk[at[c]]
             b == copy[c].page[at[c]]
  <2>4. r["primitive"] = b["primitive"] /\ r["rendered"] = b["rendered"] /\ r["semantic"] = f["semantic"]
    BY <1>01, <2>2, StageNames
  <2>5. /\ Near(b, f, "primitive") /\ f["semantic"] # {Staged!Partial}
        /\ f["semantic"] \in {{}, {Staged!Edited("semantic")}, b["primitive"]} \/ ~Fits(b, f, "primitive")
    BY <1>0, <2>1 DEF Working, AfterPrimitive
  <2>6. SameSource(b)
    BY <1>01, <2>1, Before DEF RowSound
  <2>. HIDE DEF r, f, b
  <2>7. SameSource(r)
    BY <2>4, <2>6 DEF SameSource
  <2>8. r["semantic"] # {Staged!Partial} /\ FromPrimitive(r, f)
    BY <2>4, <2>5 DEF FromPrimitive, Fits
  <2>9. Working("reset dxf", r, f)
    BY <2>4, <2>5 DEF Working, AfterPrimitive, Staged!Building, Near
  <2>10. Working(sPc'[c], copy'[c].page[at'[c]], disk'[at'[c]])
    BY <2>1, <2>3, <2>9 DEF r, f
  <2>11. \A p \in Staged!Pages \ {at[c]}, k \in Staged!Stages : m.page[p][k] = copy[c].page[p][k]
    BY <2>2
  <2>. QED BY <2>1, <2>3, <2>7, <2>8, <2>10, <2>11, ManifestSaved DEF r, f
<1>061. \A p \in Staged!Pages, j \in Staged!Stages :
          Staged!Forgotten(c, {"dxf", "evidence"}).page[p][j] = IF p = at[c] /\ j \in {"dxf", "evidence"} THEN {} ELSE copy[c].page[p][j]
  BY <1>00, ForgottenIs
<1>19. ASSUME NEW s \in {"reset dxf", "dxf"}, sPc[c] = s, Staged!Save(c, Staged!Forgotten(c, {"dxf", "evidence"})), sPc'[c] = "dxf",
              disk' = disk, at' = at
       PROVE  Sound(c)
  <2> DEFINE m == Staged!Forgotten(c, {"dxf", "evidence"})
  <2>2. \A p \in Staged!Pages, j \in Staged!Stages : m.page[p][j] = IF p = at[c] /\ j \in {"dxf", "evidence"} THEN {} ELSE copy[c].page[p][j]
    BY <1>061
  <2>3. copy'[c] = m /\ manifest' = {m} /\ at'[c] = at[c]
    BY <1>05, <1>19
  <2>. HIDE DEF m
  <2> DEFINE r == m.page[at[c]]
             f == disk[at[c]]
             b == copy[c].page[at[c]]
  <2>4. r["primitive"] = b["primitive"] /\ r["rendered"] = b["rendered"] /\ r["semantic"] = b["semantic"] /\ r["dxf"] = {}
    BY <1>01, <2>2, StageNames
  <2>5. Near(b, f, "primitive") /\ Near(b, f, "semantic")
    BY <1>0, <1>19 DEF Working, AfterPrimitive
  <2>6. SameSource(b) /\ b["semantic"] # {Staged!Partial} /\ FromPrimitive(b, f)
    <3>1. sPc[c] # "save new" /\ sPc[c] # "record render"
      BY <1>19
    <3>. QED BY <1>01, <3>1, Before DEF RowSound
  <2>. HIDE DEF r, f, b
  <2>7. SameSource(r)
    BY <2>4, <2>6 DEF SameSource
  <2>8. r["semantic"] # {Staged!Partial} /\ FromPrimitive(r, f) /\ FromBoth(r, f)
    BY <2>4, <2>6 DEF FromPrimitive, FromBoth, Fits, MadeOf
  <2>9. Working("dxf", r, f)
    BY <2>4, <2>5 DEF Working, AfterPrimitive, Staged!Building, Near
  <2>10. Working(sPc'[c], copy'[c].page[at'[c]], disk'[at'[c]])
    BY <1>19, <2>3, <2>9 DEF r, f
  <2>11. \A p \in Staged!Pages \ {at[c]}, k \in Staged!Stages : m.page[p][k] = copy[c].page[p][k]
    BY <2>2
  <2>12. sPc[c] \notin {"record render", "save new"} /\ sPc'[c] \notin {"record render", "save new"}
    BY <1>19
  <2>. QED BY <1>19, <2>3, <2>7, <2>8, <2>10, <2>11, <2>12, ManifestSaved DEF r, f
<1>20. CASE Staged!ResetDxf(c)
  BY <1>03, <1>19, <1>20 DEF Staged!ResetDxf
<1>21. CASE Staged!ForgetDxf(c)
  BY <1>19, <1>21 DEF Staged!ForgetDxf
<1>22. CASE Staged!KeepDxf(c)
  <2>1. CASE at[c] = Staged!Last
    BY <1>1, <1>22, <2>1 DEF Staged!KeepDxf, Staged!NextPage
  <2>2. CASE at[c] # Staged!Last
    <3>1. manifest' = manifest /\ disk' = disk /\ sPc[c] = "dxf" /\ Staged!Goto(c, "primitive")
      BY <1>22, <2>2 DEF Staged!KeepDxf, Staged!NextPage
    <3>2. sPc'[c] = "primitive"
      BY <1>03, <3>1
    <3>3. Working(sPc'[c], copy'[c].page[at'[c]], disk'[at'[c]])
      BY <3>2, RestingWorks
    <3>. QED BY <3>1, <3>2, <3>3, ManifestKept
  <2>. QED BY <2>1, <2>2
<1>23. CASE Staged!BuildDxf(c)
  <2>0. manifest' = manifest /\ sPc[c] = "dxf" /\ copy' = copy /\ at' = at
    BY <1>23 DEF Staged!BuildDxf
  <2>1. PICK i \in Staged!File(c, "primitive"), s \in Staged!File(c, "semantic") :
          /\ Staged!Partial \notin {i, s}
          /\ \A p \in Staged!Pages, j \in Staged!Stages : disk'[p][j] = IF p = at[c] /\ j = "dxf" THEN {i \cup s \cup {c}} ELSE disk[p][j]
          /\ sPc'[c] = "evidence"
    <3>1. PICK i \in Staged!File(c, "primitive"), s \in Staged!File(c, "semantic") :
            /\ Staged!Partial \notin {i, s} /\ {i \cup s \cup {c}} # {Staged!Partial}
            /\ \A p \in Staged!Pages, j \in Staged!Stages : disk'[p][j] = IF p = at[c] /\ j = "dxf" THEN {i \cup s \cup {c}} ELSE disk[p][j]
            /\ disk'[at[c]]["dxf"] = {i \cup s \cup {c}}
            /\ sPc'[c] = "evidence"
      BY <1>00, <1>23, BuildingIs
    <3>. QED BY <3>1
  <2> DEFINE r == copy[c].page[at[c]]
             f == disk[at[c]]
             f2 == disk'[at[c]]
  <2>2. Staged!File(c, "primitive") \in PageFiles /\ Staged!File(c, "semantic") \in PageFiles
    BY <1>01, <1>08
  <2>3. f["primitive"] = {i} /\ f["semantic"] = {s}
    BY <2>1, <2>2, FileFacts DEF Staged!File
  <2>4. f2["primitive"] = {i} /\ f2["semantic"] = {s} /\ f2["dxf"] = {i \cup s \cup {c}}
    BY <1>01, <1>08, <2>1, <2>3
  <2>5. Near(r, f, "primitive") /\ Near(r, f, "semantic")
    BY <1>0, <2>0 DEF Working, AfterPrimitive
  <2>6. i \cap Commands = {} /\ s \cap Commands = {}
    BY <1>01, <2>1 DEF Context, BuiltInv, Plain, Staged!File
  <2>7. (i \cup s \cup {c}) \ Commands = s \cup i
    BY <2>6
  <2>. HIDE DEF r, f, f2
  <2>8. Near(r, f2, "primitive") /\ Near(r, f2, "semantic")
    BY <2>3, <2>4, <2>5 DEF Near
  <2>9. Fits(r, f2, "primitive") /\ Fits(r, f2, "semantic") => MadeOf(f2["dxf"], r["semantic"], r["primitive"])
    <3>. SUFFICES ASSUME Fits(r, f2, "primitive"), Fits(r, f2, "semantic")
                  PROVE  MadeOf(f2["dxf"], r["semantic"], r["primitive"])
      OBVIOUS
    <3>1. r["primitive"] = {i} /\ r["semantic"] = {s}
      BY <2>4, <2>8, NearFits
    <3>. QED BY <2>4, <2>7, <3>1 DEF MadeOf
  <2>10. Working("evidence", r, f2)
    BY <2>9 DEF Working, AfterPrimitive, Staged!Building
  <2>11. Working(sPc'[c], copy'[c].page[at'[c]], disk'[at'[c]])
    BY <2>0, <2>1, <2>10 DEF r, f2
  <2>12. \A p \in Staged!Pages : disk'[p]["primitive"] = disk[p]["primitive"] /\ disk'[p]["semantic"] = disk[p]["semantic"]
    BY <1>08, <2>1
  <2>. QED BY <2>0, <2>1, <2>11, <2>12, ManifestKept DEF Fits
<1>24. CASE Staged!WriteEvidence(c)
  <2>0. manifest' = manifest /\ sPc[c] = "evidence"
    BY <1>24 DEF Staged!WriteEvidence
  <2>1. CASE Staged!File(c, "dxf") = {}
    BY <1>1, <1>24, <2>0, <2>1 DEF Staged!WriteEvidence
  <2>2. CASE Staged!File(c, "dxf") # {}
    <3>1. Staged!Put(c, "evidence", Staged!File(c, "dxf")) /\ Staged!Goto(c, "record dxf") /\ copy' = copy /\ at' = at
      BY <1>24, <2>2 DEF Staged!WriteEvidence
    <3>2. Staged!File(c, "dxf") \in PageFiles
      BY <1>01, <1>08
    <3>3. \A p \in Staged!Pages, j \in Staged!Stages : disk'[p][j] = IF p = at[c] /\ j = "evidence" THEN Staged!File(c, "dxf") ELSE disk[p][j]
      <4>1. Staged!Put(c, "evidence", Staged!File(c, "dxf"))
        BY <3>1
      <4>. QED BY <1>00, <1>08, <3>2, <4>1, PutIs
    <3>4. \A p \in Staged!Pages : disk'[p]["primitive"] = disk[p]["primitive"] /\ disk'[p]["semantic"] = disk[p]["semantic"]
                           /\ disk'[p]["dxf"] = disk[p]["dxf"]
      BY <1>08, <3>3
    <3> DEFINE r == copy[c].page[at[c]]
               f == disk[at[c]]
               f2 == disk'[at[c]]
    <3>5. f2["primitive"] = f["primitive"] /\ f2["semantic"] = f["semantic"] /\ f2["dxf"] = f["dxf"]
      BY <1>01, <3>4
    <3>6. Working("evidence", r, f)
      BY <1>0, <2>0
    <3>. HIDE DEF r, f, f2
    <3>7. Working("record dxf", r, f2)
      BY <3>5, <3>6 DEF Working, AfterPrimitive, Staged!Building, Fits
    <3>8. sPc'[c] = "record dxf"
      BY <1>03, <3>1
    <3>9. Working(sPc'[c], copy'[c].page[at'[c]], disk'[at'[c]])
      BY <3>1, <3>7, <3>8 DEF r, f2
    <3>. QED BY <2>0, <3>4, <3>8, <3>9, ManifestKept DEF Fits
  <2>. QED BY <2>1, <2>2
<1>251. CASE Staged!RecordDxf(c) /\ Staged!Missing(c, "dxf")
  BY <1>1, <1>251 DEF Staged!RecordDxf
<1>25. CASE Staged!RecordDxf(c) /\ ~Staged!Missing(c, "dxf")
  <2> DEFINE m == Staged!Recorded(c, "dxf")
  <2>1. Staged!Save(c, m) /\ Staged!Goto(c, "record evidence") /\ disk' = disk /\ at' = at /\ sPc[c] = "record dxf"
    BY <1>0, <1>25 DEF Staged!RecordDxf
  <2>2. \A p \in Staged!Pages, j \in Staged!Stages : m.page[p][j] = IF p = at[c] /\ j = "dxf" THEN disk[p][j] ELSE copy[c].page[p][j]
    BY <1>06, <1>08
  <2>. HIDE DEF m
  <2>3. sPc'[c] = "record evidence" /\ copy'[c] = m /\ manifest' = {m} /\ at'[c] = at[c]
    BY <1>03, <1>05, <2>1
  <2> DEFINE r == m.page[at[c]]
             f == disk[at[c]]
             b == copy[c].page[at[c]]
  <2>4. r["primitive"] = b["primitive"] /\ r["rendered"] = b["rendered"] /\ r["semantic"] = b["semantic"] /\ r["dxf"] = f["dxf"]
    BY <1>01, <2>2, StageNames
  <2>5. Working("record dxf", b, f)
    BY <1>0, <2>1
  <2>6. SameSource(b) /\ b["semantic"] # {Staged!Partial} /\ FromPrimitive(b, f)
    BY <1>01, <2>1, Before DEF RowSound
  <2>. HIDE DEF r, f, b
  <2>7. SameSource(r)
    BY <2>4, <2>6 DEF SameSource
  <2>8. r["semantic"] # {Staged!Partial} /\ FromPrimitive(r, f)
    BY <2>4, <2>6 DEF FromPrimitive, Fits
  <2>9. FromBoth(r, f)
    BY <2>4, <2>5 DEF Working, Staged!Building, FromBoth, Fits
  <2>10. Working("record evidence", r, f)
    BY <2>4, <2>5 DEF Working, AfterPrimitive, Staged!Building, Fits
  <2>11. Working(sPc'[c], copy'[c].page[at'[c]], disk'[at'[c]])
    BY <2>1, <2>3, <2>10 DEF r, f
  <2>12. \A p \in Staged!Pages \ {at[c]}, k \in Staged!Stages : m.page[p][k] = copy[c].page[p][k]
    BY <2>2
  <2>. QED BY <2>1, <2>3, <2>7, <2>8, <2>9, <2>11, <2>12, ManifestSaved DEF r, f
<1>261. CASE Staged!RecordEvidence(c) /\ Staged!Missing(c, "evidence")
  BY <1>1, <1>261 DEF Staged!RecordEvidence
<1>26. CASE Staged!RecordEvidence(c) /\ ~Staged!Missing(c, "evidence")
  <2> DEFINE m == Staged!Recorded(c, "evidence")
  <2>1. manifest' = {m} /\ disk' = disk /\ sPc[c] = "record evidence"
    BY <1>05, <1>26 DEF Staged!RecordEvidence
  <2>2. \A p \in Staged!Pages, j \in Staged!Stages : m.page[p][j] = IF p = at[c] /\ j = "evidence" THEN disk[p][j] ELSE copy[c].page[p][j]
    BY <1>06, <1>08
  <2>. HIDE DEF m
  <2>3. sPc'[c] \in Staged!Resting \cup {"primitive"} /\ sPc'[c] \notin {"record render", "save new"}
    BY <1>03, <1>04, <1>26 DEF Staged!RecordEvidence, Staged!Resting
  <2> DEFINE r == m.page[at[c]]
             f == disk[at[c]]
             b == copy[c].page[at[c]]
  <2>4. r["primitive"] = b["primitive"] /\ r["rendered"] = b["rendered"] /\ r["semantic"] = b["semantic"] /\ r["dxf"] = b["dxf"]
    BY <1>01, <2>2, StageNames
  <2>5. SameSource(b) /\ b["semantic"] # {Staged!Partial} /\ FromPrimitive(b, f) /\ FromBoth(b, f)
    BY <1>01, <2>1, Before DEF RowSound
  <2>. HIDE DEF r, f, b
  <2>6. SameSource(r) /\ r["semantic"] # {Staged!Partial} /\ FromPrimitive(r, f) /\ FromBoth(r, f)
    BY <2>4, <2>5 DEF SameSource, FromPrimitive, FromBoth, Fits
  <2>7. Working(sPc'[c], copy'[c].page[at'[c]], disk'[at'[c]])
    BY <2>3, RestingWorks
  <2>8. \A p \in Staged!Pages \ {at[c]}, k \in Staged!Stages : m.page[p][k] = copy[c].page[p][k]
    BY <2>2
  <2>. QED BY <2>1, <2>3, <2>6, <2>7, <2>8, ManifestSaved DEF r, f
<1>27. CASE Staged!Fail(c) \/ Staged!Kill(c)
  <2>1. /\ manifest' = manifest /\ \E how \in {"done", "failed", "killed"} : Staged!End(c, how)
        /\ sPc[c] \notin {"record render", "record semantic", "reset dxf"}
    BY <1>0, <1>27 DEF Staged!Fail, Staged!Kill, Staged!Making
  <2>2. CASE disk' = disk
    BY <1>1, <2>1, <2>2
  <2>3. CASE sPc[c] \in {"semantic", "dxf"} /\ Staged!Put(c, sPc[c], {Staged!Partial})
    <3>1. sPc[c] \in Staged!Stages /\ Staged!Put(c, sPc[c], {Staged!Partial})
      BY <1>08, <2>3
    <3>2. \A p \in Staged!Pages, j \in Staged!Stages : disk'[p][j] = IF p = at[c] /\ j = sPc[c] THEN {Staged!Partial} ELSE disk[p][j]
      BY <1>00, <1>02, <3>1, PutIs
    <3>3. \A p \in Staged!Pages : /\ disk'[p]["primitive"] = disk[p]["primitive"]
                                  /\ disk'[p]["semantic"] \in {disk[p]["semantic"], {Staged!Partial}}
      BY <1>08, <2>3, <3>2
    <3>4. \A m \in manifest, p \in Staged!Pages : m.page[p]["semantic"] # {Staged!Partial}
      BY Before DEF RowSound
    <3>. QED BY <1>1, <2>1, <3>3, <3>4 DEF Fits
  <2>4. disk' = disk \/ (sPc[c] \in {"semantic", "dxf"} /\ Staged!Put(c, sPc[c], {Staged!Partial}))
    BY <1>0, <1>27 DEF Staged!Fail, Staged!Kill, Staged!Making, Staged!WritePart
  <2>. QED BY <2>2, <2>3, <2>4
<1>28. ~Staged!Create(c) /\ ~Staged!Calibrate(c) /\ ~Staged!Resume(c)
  BY DEF Context, Staged!Create, Staged!Calibrate, Staged!Resume, Staged!Alive, Staged!Resting
<1>. QED BY <1>0, StepActions, <1>4, <1>5, <1>6, <1>7, <1>8, <1>9, <1>10, <1>11, <1>12, <1>13,
            <1>14, <1>151, <1>15, <1>16, <1>17, <1>181, <1>18, <1>20, <1>21, <1>22, <1>23, <1>24,
            <1>251, <1>25, <1>261, <1>26, <1>27, <1>28

LEMMA DerivedStays ==
    ASSUME StagedBounds, StagedTyped, CandidateInv, BuiltInv, DerivedInv, NEW c \in Commands, Staged!Step(c)
    PROVE  DerivedInv'
<1>. SUFFICES ASSUME ~met'
              PROVE  /\ Staged!AtMostOne(Staged!Alive)' /\ Manifested'
                     /\ kind' = "pdf" /\ ~cut' => (\A m \in manifest' : Derived(m)') /\ \A d \in Staged!Alive' : AtWork(d)'
  BY DEF DerivedInv
<1>1. ~met
  BY StepHistory
<1>2. /\ Staged!AtMostOne(Staged!Alive) /\ Manifested
      /\ kind = "pdf" /\ ~cut => (\A m \in manifest : Derived(m)) /\ \A d \in Staged!Alive : AtWork(d)
  BY <1>1 DEF DerivedInv
<1>3. /\ Staged!Alive \subseteq {c} /\ Staged!Alive' \subseteq {c}
      /\ Begins(c) \/ (~Begins(c) /\ Staged!Alive = {c})
  BY <1>2, StagedAlone
<1>4. Staged!AtMostOne(Staged!Alive)'
  BY <1>3 DEF Staged!AtMostOne
<1>5. Manifested'
  <2>1. sPc[c] \in Staged!Resting \/ sPc[c] = "save new" \/ manifest = {copy[c]}
    BY <1>2 DEF Manifested, Staged!Alive
  <2>2. sPc'[c] \in Staged!Resting \/ sPc'[c] = "save new" \/ manifest' = {copy'[c]}
    BY <2>1, StepSaves
  <2>. QED BY <1>3, <2>2 DEF Manifested, Staged!Alive
<1>6. ASSUME kind' = "pdf", ~cut'
      PROVE  (\A m \in manifest' : Derived(m)') /\ \A d \in Staged!Alive' : AtWork(d)'
  <2>1. kind = "pdf" /\ ~cut
    BY <1>6, StepDisk, StepHistory
  <2>2. CASE ~Begins(c)
    <3>1. Staged!Alive = {c}
      BY <1>3, <2>2
    <3>2. sPc[c] # "save new" => manifest = {copy[c]}
      BY <1>2, <3>1 DEF Manifested
    <3>3. AtWork(c) /\ \A m \in manifest : Derived(m)
      BY <1>2, <2>1, <3>1
    <3>4. Context(c)
      BY <1>1, <1>3, <1>6, <2>1, <3>1, <3>2, <3>3 DEF Context
    <3>5. AtWork(c)' /\ \A m \in manifest' : Derived(m)'
      BY <3>4, SoundStep, After
    <3>. QED BY <1>3, <3>5
  <2>3. CASE Begins(c)
    <3>1. Staged!Alive = {}
      BY <2>3 DEF Begins, Staged!Create, Staged!Calibrate, Staged!Resume, Staged!Meet
    <3>2. manifest' = manifest /\ disk' = disk
      BY <2>3 DEF Begins, Staged!Create, Staged!Calibrate, Staged!Resume
    <3>3. sPc'[c] \in {"save new", "verify"} /\ (sPc'[c] = "save new" => Staged!Create(c) \/ Staged!Calibrate(c))
      BY <2>3 DEF Begins, Staged!Create, Staged!Calibrate, Staged!Resume, Staged!Goto, StagedTyped,
         ControlTyped
    <3>4. ASSUME Staged!Create(c) \/ Staged!Calibrate(c) PROVE \A p \in Staged!Pages, k \in Staged!Stages : copy'[c].page[p][k] = {}
      <4>1. PICK how \in {"manual", "candidate"} : copy' = [copy EXCEPT ![c] = Staged!NewRun(source, how)]
        BY <3>4 DEF Staged!Create, Staged!Calibrate
      <4>2. copy'[c] = Staged!NewRun(source, how) /\ source \in Staged!Sources \cup {"none"}
        BY <4>1 DEF StagedTyped, DataTyped, ControlTyped
      <4>. QED BY <4>2, NewRunIs
    <3>5. \A d \in Commands : sPc[d] \in Staged!Resting
      BY <3>1 DEF Staged!Alive
    <3>6. ~Rerendering /\ \A p \in Staged!Pages : ~Remaking(p)
      BY <3>5 DEF Rerendering, Remaking, Staged!Resting
    <3>7. \A m \in manifest, p \in Staged!Pages :
            SameSource(m.page[p]) /\ m.page[p]["semantic"] # {Staged!Partial}
            /\ FromPrimitive(m.page[p], disk[p]) /\ FromBoth(m.page[p], disk[p])
      BY <1>2, <2>1, <3>6 DEF Derived
    <3>8. Working(sPc'[c], copy'[c].page[at'[c]], disk'[at'[c]])
      BY <3>3, RestingWorks
    <3>9. Sound(c)
      BY <3>2, <3>3, <3>4, <3>7, <3>8 DEF Sound
    <3>. QED BY <1>3, <3>9, After
  <2>. QED BY <2>2, <2>3
<1>. QED BY <1>4, <1>5, <1>6

-----------------------------------------------------------------------------
(* A command that met nobody. *)

\* Only those that end, or begin alone, are calm after a step that were not.
LEMMA StepCalm ==
    ASSUME StagedTyped, NEW c \in Commands, Staged!Step(c), ~Begins(c)
    PROVE  calm' = calm \/ (calm' = calm \cup {c} /\ sPc'[c] \in Staged!Resting)
<1>0. ASSUME NEW how \in {"done", "failed", "killed"}, Staged!End(c, how) PROVE calm' = calm \cup {c} /\ sPc'[c] \in Staged!Resting
  BY <1>0 DEF Staged!End, Staged!Goto, Staged!Resting, StagedTyped, ControlTyped
<1>1. CASE Staged!Create(c)
  BY <1>0, <1>1 DEF Staged!Create, Staged!World, Staged!NextPage, Begins
<1>2. CASE Staged!Calibrate(c)
  BY <1>0, <1>2 DEF Staged!Calibrate, Staged!World, Staged!NextPage, Begins
<1>3. CASE Staged!SaveNew(c)
  BY <1>0, <1>3 DEF Staged!SaveNew, Staged!World, Staged!NextPage, Begins
<1>4. CASE Staged!ExtractCandidate(c)
  BY <1>0, <1>4 DEF Staged!ExtractCandidate, Staged!World, Staged!NextPage, Begins
<1>5. CASE Staged!RecordCandidate(c)
  BY <1>0, <1>5 DEF Staged!RecordCandidate, Staged!World, Staged!NextPage, Begins
<1>6. CASE Staged!Resume(c)
  BY <1>0, <1>6 DEF Staged!Resume, Staged!World, Staged!NextPage, Begins
<1>7. CASE Staged!Verify(c)
  BY <1>0, <1>7 DEF Staged!Verify, Staged!World, Staged!NextPage, Begins
<1>8. CASE Staged!Extract(c)
  BY <1>0, <1>8 DEF Staged!Extract, Staged!World, Staged!NextPage, Begins
<1>9. CASE Staged!RecordRender(c)
  BY <1>0, <1>9 DEF Staged!RecordRender, Staged!World, Staged!NextPage, Begins
<1>10. CASE Staged!Validate(c)
  BY <1>0, <1>10 DEF Staged!Validate, Staged!World, Staged!NextPage, Begins
<1>11. CASE Staged!KeepPrimitive(c)
  BY <1>0, <1>11 DEF Staged!KeepPrimitive, Staged!World, Staged!NextPage, Begins
<1>12. CASE Staged!ExtractImage(c)
  BY <1>0, <1>12 DEF Staged!ExtractImage, Staged!World, Staged!NextPage, Begins
<1>13. CASE Staged!ResetPage(c)
  BY <1>0, <1>13 DEF Staged!ResetPage, Staged!World, Staged!NextPage, Begins
<1>14. CASE Staged!Regenerate(c)
  BY <1>0, <1>14 DEF Staged!Regenerate, Staged!World, Staged!NextPage, Begins
<1>15. CASE Staged!RecordPrimitive(c)
  BY <1>0, <1>15 DEF Staged!RecordPrimitive, Staged!World, Staged!NextPage, Begins
<1>16. CASE Staged!KeepSemantic(c)
  BY <1>0, <1>16 DEF Staged!KeepSemantic, Staged!World, Staged!NextPage, Begins
<1>17. CASE Staged!MakeSemantic(c)
  BY <1>0, <1>17 DEF Staged!MakeSemantic, Staged!World, Staged!NextPage, Begins
<1>18. CASE Staged!RecordSemantic(c)
  BY <1>0, <1>18 DEF Staged!RecordSemantic, Staged!World, Staged!NextPage, Begins
<1>19. CASE Staged!ResetDxf(c)
  BY <1>0, <1>19 DEF Staged!ResetDxf, Staged!World, Staged!NextPage, Begins
<1>20. CASE Staged!KeepDxf(c)
  BY <1>0, <1>20 DEF Staged!KeepDxf, Staged!World, Staged!NextPage, Begins
<1>21. CASE Staged!ForgetDxf(c)
  BY <1>0, <1>21 DEF Staged!ForgetDxf, Staged!World, Staged!NextPage, Begins
<1>22. CASE Staged!BuildDxf(c)
  BY <1>0, <1>22 DEF Staged!BuildDxf, Staged!World, Staged!NextPage, Begins
<1>23. CASE Staged!WriteEvidence(c)
  BY <1>0, <1>23 DEF Staged!WriteEvidence, Staged!World, Staged!NextPage, Begins
<1>24. CASE Staged!RecordDxf(c)
  BY <1>0, <1>24 DEF Staged!RecordDxf, Staged!World, Staged!NextPage, Begins
<1>25. CASE Staged!RecordEvidence(c)
  BY <1>0, <1>25 DEF Staged!RecordEvidence, Staged!World, Staged!NextPage, Begins
<1>26. CASE Staged!Fail(c)
  BY <1>0, <1>26 DEF Staged!Fail, Staged!World, Staged!NextPage, Begins
<1>27. CASE Staged!Kill(c)
  BY <1>0, <1>27 DEF Staged!Kill, Staged!World, Staged!NextPage, Begins
<1>. QED BY StepActions, <1>1, <1>2, <1>3, <1>4, <1>5, <1>6, <1>7, <1>8, <1>9, <1>10, <1>11, <1>12,
            <1>13, <1>14, <1>15, <1>16, <1>17, <1>18, <1>19, <1>20, <1>21, <1>22, <1>23, <1>24,
            <1>25, <1>26, <1>27

\* It is enough to show this of the next state.
CalmNext(c) ==
    /\ kind = "pdf" /\ sPc'[c] = "record render" => listing' # {}
    /\ kind = "pdf" /\ sPc'[c] = "validate" => copy'[c].render # {}
    /\ kind = "pdf" /\ sPc'[c] \in AfterRender => \A p \in Staged!Pages : Has(copy'[c].page[p], disk'[p], "rendered")
    /\ \A p \in Staged!Pages : p < at'[c] => \A k \in Staged!Needed : Has(copy'[c].page[p], disk'[p], k)
    /\ Ready(sPc'[c], copy'[c].page[at'[c]], disk'[at'[c]])

\* A command that is calm, and goes on.
GoesOnCalm(c) ==
    /\ StagedBounds /\ StagedTyped /\ Staged!Step(c) /\ sPc[c] \notin Staged!Resting /\ sPc'[c] \notin Staged!Resting
    /\ CalmCommand(c)

LEMMA NoPageBefore ==
    ASSUME StagedBounds
    PROVE  \A p \in Staged!Pages : ~(p < 1)
<1>1. LastPage \in Nat
  BY DEF StagedBounds
<1>. QED BY <1>1 DEF Staged!Pages

\* The first steps need nothing of the pages.
LEMMA CalmFirst ==
    ASSUME StagedBounds, NEW c \in Commands, at'[c] = 1, sPc'[c] \in FirstSteps \ {"record render", "validate"}
    PROVE  CalmNext(c)
<1>0. \A p \in Staged!Pages : ~(p < 1)
  BY NoPageBefore
<1>1. \A p \in Staged!Pages : ~(p < at'[c])
  BY <1>0
<1>2. sPc'[c] \notin AfterRender /\ sPc'[c] \notin {"record render", "validate"}
  BY DEF AfterRender
<1>3. Ready(sPc'[c], copy'[c].page[at'[c]], disk'[at'[c]])
  BY DEF Ready, FirstSteps, AfterPrimitive, Staged!Building
<1>. QED BY <1>1, <1>2, <1>3 DEF CalmNext

\* The stages an answer needs.
LEMMA NeededIs ==
    /\ Staged!Needed \subseteq Staged!Stages
    /\ \A k \in Staged!Needed : k \in {"primitive", "semantic", "dxf"} \/ (kind = "pdf" /\ k \in {"rendered", "evidence"})
BY StageNames DEF Staged!Needed

\* A step at a page leaves the other pages, and its render.
LEMMA CalmPage ==
    ASSUME NEW c \in Commands, StagedTyped, GoesOnCalm(c), sPc[c] \in AfterRender, sPc'[c] \in AfterRender, at'[c] = at[c],
           \A p \in Staged!Pages, k \in Staged!Stages : p # at[c] \/ k = "rendered" =>
               copy'[c].page[p][k] = copy[c].page[p][k] /\ disk'[p][k] = disk[p][k],
           Ready(sPc'[c], copy'[c].page[at'[c]], disk'[at'[c]])
    PROVE  CalmNext(c)
<1>1. sPc'[c] \notin {"record render", "validate"}
  BY DEF AfterRender, FirstSteps
<1>2. ASSUME kind = "pdf", NEW p \in Staged!Pages PROVE Has(copy'[c].page[p], disk'[p], "rendered")
  <2>1. Has(copy[c].page[p], disk[p], "rendered")
    BY <1>2 DEF GoesOnCalm, CalmCommand
  <2>. QED BY <2>1, StageNames DEF Has
<1>3. ASSUME NEW p \in Staged!Pages, p < at'[c], NEW k \in Staged!Needed PROVE Has(copy'[c].page[p], disk'[p], k)
  <2>1. Has(copy[c].page[p], disk[p], k)
    BY <1>3 DEF GoesOnCalm, CalmCommand
  <2>2. p # at[c] /\ k \in Staged!Stages
    BY <1>3, NeededIs DEF StagedTyped, ControlTyped, Staged!Pages
  <2>. QED BY <2>1, <2>2 DEF Has
<1>. QED BY <1>1, <1>2, <1>3 DEF CalmNext

\* The page at work is done.
LEMMA CalmPageDone ==
    ASSUME NEW c \in Commands, StagedTyped, GoesOnCalm(c), sPc[c] \in AfterRender, sPc'[c] = "primitive", at'[c] = at[c] + 1,
           \A p \in Staged!Pages, k \in Staged!Stages : p # at[c] \/ k = "rendered" =>
               copy'[c].page[p][k] = copy[c].page[p][k] /\ disk'[p][k] = disk[p][k],
           \A k \in Staged!Needed \ {"rendered"} : Has(copy'[c].page[at[c]], disk'[at[c]], k)
    PROVE  CalmNext(c)
<1>1. Ready(sPc'[c], copy'[c].page[at'[c]], disk'[at'[c]])
  BY DEF Ready, AfterPrimitive, Staged!Building
<1>2. ASSUME kind = "pdf", NEW p \in Staged!Pages PROVE Has(copy'[c].page[p], disk'[p], "rendered")
  <2>1. Has(copy[c].page[p], disk[p], "rendered")
    BY <1>2 DEF GoesOnCalm, CalmCommand
  <2>. QED BY <2>1, StageNames DEF Has
<1>3. ASSUME NEW p \in Staged!Pages, p < at'[c], NEW k \in Staged!Needed PROVE Has(copy'[c].page[p], disk'[p], k)
  <2>0. at[c] \in Nat /\ p \in Nat /\ k \in Staged!Stages
    BY NeededIs DEF StagedTyped, ControlTyped, Staged!Pages
  <2>1. CASE p < at[c]
    <3>1. Has(copy[c].page[p], disk[p], k)
      BY <1>3, <2>1 DEF GoesOnCalm, CalmCommand
    <3>. QED BY <2>0, <2>1, <3>1 DEF Has
  <2>2. CASE p = at[c] /\ k # "rendered"
    BY <1>3, <2>2
  <2>3. CASE k = "rendered"
    BY <1>2, <1>3, <2>3, NeededIs
  <2>4. p < at[c] \/ p = at[c]
    BY <1>3, <2>0
  <2>. QED BY <2>1, <2>2, <2>3, <2>4
<1>4. sPc'[c] \notin {"record render", "validate"}
  OBVIOUS
<1>. QED BY <1>1, <1>2, <1>3, <1>4 DEF CalmNext

\* A step at a page that writes one file, or one record.
LEMMA CalmPut ==
    ASSUME NEW c \in Commands, StagedTyped, GoesOnCalm(c), NEW k \in Staged!Stages \ {"rendered"}, NEW F \in PageFiles, NEW s,
           Staged!Put(c, k, F), Staged!Goto(c, s), copy' = copy, at' = at, sPc[c] \in AfterRender, s \in AfterRender,
           \A f2 : /\ \A j \in Staged!Stages \ {k} : f2[j] = disk[at[c]][j]
                   /\ f2[k] = F
                   => Ready(s, copy[c].page[at[c]], f2)
    PROVE  CalmNext(c)
<1>1. \A p \in Staged!Pages, j \in Staged!Stages : disk'[p][j] = IF p = at[c] /\ j = k THEN F ELSE disk[p][j]
  BY PutIs
<1>2. sPc'[c] = s /\ at'[c] = at[c] /\ at[c] \in Staged!Pages
  BY DEF Staged!Goto, StagedTyped, ControlTyped
<1>3. Ready(s, copy[c].page[at[c]], disk'[at[c]])
  <2>1. (\A j \in Staged!Stages \ {k} : disk'[at[c]][j] = disk[at[c]][j]) /\ disk'[at[c]][k] = F
    BY <1>1, <1>2
  <2>. QED BY <2>1
<1>4. \A p \in Staged!Pages, j \in Staged!Stages : p # at[c] \/ j = "rendered" =>
               copy'[c].page[p][j] = copy[c].page[p][j] /\ disk'[p][j] = disk[p][j]
  BY <1>1
<1>. QED BY <1>2, <1>3, <1>4, CalmPage

LEMMA CalmSave ==
    ASSUME NEW c \in Commands, StagedTyped, GoesOnCalm(c), disk' = disk, at' = at, sPc[c] \in AfterRender, sPc'[c] \in AfterRender,
           \A p \in Staged!Pages, j \in Staged!Stages : p # at[c] \/ j = "rendered" => copy'[c].page[p][j] = copy[c].page[p][j],
           Ready(sPc'[c], copy'[c].page[at[c]], disk[at[c]])
    PROVE  CalmNext(c)
<1>1. \A p \in Staged!Pages, j \in Staged!Stages : p # at[c] \/ j = "rendered" =>
               copy'[c].page[p][j] = copy[c].page[p][j] /\ disk'[p][j] = disk[p][j]
  OBVIOUS
<1>2. Ready(sPc'[c], copy'[c].page[at'[c]], disk'[at'[c]]) /\ at'[c] = at[c]
  OBVIOUS
<1>. QED BY <1>1, <1>2, CalmPage

LEMMA CalmStep ==
    ASSUME NEW c \in Commands, GoesOnCalm(c), kind \in {"image", "pdf"}, ~Begins(c)
    PROVE  CalmNext(c)
<1>0. /\ StagedBounds /\ StagedTyped /\ Staged!Step(c) /\ sPc'[c] \notin Staged!Resting /\ CalmCommand(c)
      /\ Ready(sPc[c], copy[c].page[at[c]], disk[at[c]])
  BY DEF GoesOnCalm, CalmCommand
<1>1. StagedBounds /\ StagedTyped
  BY <1>0
<1>2. /\ copy[c] \in RunManifests /\ at[c] \in Staged!Pages /\ \A k \in Staged!Stages : Staged!File(c, k) \in PageFiles
      /\ sPc \in [Commands -> StagedSteps \cup Staged!Resting] /\ at \in [Commands -> Staged!Pages]
      /\ copy \in [Commands -> RunManifests]
  BY <1>1 DEF StagedTyped, DataTyped, ControlTyped, Staged!File
<1>3. {{source}} \in PageFiles
  BY <1>1, MarksArePlain DEF StagedTyped, DataTyped
<1>4. "rendered" \in Staged!Stages /\ "primitive" \in Staged!Stages /\ "semantic" \in Staged!Stages /\ "dxf" \in Staged!Stages /\ "evidence" \in Staged!Stages
  BY StageNames
<1>5. ASSUME NEW s, Staged!Goto(c, s) PROVE sPc'[c] = s
  BY <1>2, <1>5 DEF Staged!Goto
<1>6. ASSUME NEW how \in {"done", "failed", "killed"}, Staged!End(c, how) PROVE FALSE
  <2>1. sPc'[c] = how
    BY <1>5, <1>6 DEF Staged!End
  <2>. QED BY <1>0, <2>1 DEF Staged!Resting
<1>7. ASSUME NEW m, Staged!Save(c, m) PROVE copy' = [copy EXCEPT ![c] = m]
  BY <1>7 DEF Staged!Save
<1>8. \A s \in {"primitive", "regenerate", "record primitive", "semantic", "record semantic", "reset dxf",
                "dxf", "evidence", "record dxf", "record evidence"} : s \in AfterRender
  BY DEF AfterRender, StagedSteps, FirstSteps
<1>9. /\ \A k \in Staged!Stages : \A p \in Staged!Pages, j \in Staged!Stages :
            Staged!Recorded(c, k).page[p][j] = IF p = at[c] /\ j = k THEN disk[p][k] ELSE copy[c].page[p][j]
      /\ \A S : \A p \in Staged!Pages, j \in Staged!Stages :
            Staged!Forgotten(c, S).page[p][j] = IF p = at[c] /\ j \in S THEN {} ELSE copy[c].page[p][j]
  BY <1>1, RecordedIs, ForgottenIs
<1>. DEFINE r == copy[c].page[at[c]]
            f == disk[at[c]]
\* The command goes on, and nothing else changes.
<1>10. ASSUME NEW s, Staged!Goto(c, s), UNCHANGED <<copy, at, disk>>, sPc[c] \in AfterRender, s \in AfterRender, Ready(s, r, f)
       PROVE  CalmNext(c)
  <2>1. sPc'[c] = s
    BY <1>5, <1>10
  <2>. QED BY <1>0, <1>10, <2>1, CalmPage
\* The first steps.
<1>11. ASSUME NEW s \in FirstSteps \ {"record render", "validate"}, Staged!Goto(c, s), at' = at, sPc[c] \in FirstSteps
       PROVE  CalmNext(c)
  <2>1. sPc'[c] = s /\ at'[c] = 1
    BY <1>1, <1>5, <1>11 DEF StagedTyped, ControlTyped
  <2>. QED BY <1>1, <1>11, <2>1, CalmFirst
<1>12. FirstSteps = {"save new", "verify", "render", "record render", "validate", "candidate", "record candidate"}
  BY DEF FirstSteps
<1>13. CASE Staged!SaveNew(c)
  BY <1>11, <1>12, <1>13 DEF Staged!SaveNew
<1>14. CASE Staged!ExtractCandidate(c)
  BY <1>6, <1>11, <1>12, <1>14 DEF Staged!ExtractCandidate
<1>15. CASE Staged!RecordCandidate(c)
  BY <1>6, <1>15 DEF Staged!RecordCandidate
\* From the first steps to the pages.
<1>16. ASSUME Staged!Goto(c, "primitive"), UNCHANGED <<copy, at, disk>>, sPc[c] \in FirstSteps,
              kind = "pdf" => \A p \in Staged!Pages : Has(copy[c].page[p], disk[p], "rendered")
       PROVE  CalmNext(c)
  <2>1. sPc'[c] = "primitive" /\ at'[c] = 1 /\ copy'[c] = copy[c] /\ disk' = disk
    BY <1>1, <1>5, <1>16 DEF StagedTyped, ControlTyped
  <2>2. \A p \in Staged!Pages : ~(p < at'[c])
    BY <1>1, <2>1 DEF Staged!Pages, StagedBounds
  <2>3. Ready(sPc'[c], copy'[c].page[at'[c]], disk'[at'[c]])
    BY <2>1 DEF Ready, AfterPrimitive, Staged!Building
  <2>. QED BY <1>16, <2>1, <2>2, <2>3 DEF CalmNext
<1>17. CASE Staged!Verify(c)
  <2>1. Staged!Goto(c, IF kind = "pdf" THEN "render" ELSE "primitive") /\ UNCHANGED <<copy, at, disk>> /\ sPc[c] = "verify"
    BY <1>6, <1>17 DEF Staged!Verify
  <2>2. CASE kind = "pdf"
    BY <1>11, <1>12, <2>1, <2>2
  <2>3. CASE kind # "pdf"
    BY <1>12, <1>16, <2>1, <2>3
  <2>. QED BY <2>2, <2>3
<1>18. CASE Staged!Extract(c)
  <2>0. sPc[c] = "render" /\ at[c] = 1
    BY <1>1, <1>12, <1>18 DEF Staged!Extract, StagedTyped, ControlTyped
  <2>1. \/ Staged!Goto(c, "validate") /\ copy' = copy /\ at' = at /\ copy[c].render # {}
        \/ Staged!Goto(c, "record render") /\ at' = at /\ listing' = {{source}}
    BY <1>6, <1>18 DEF Staged!Extract, Staged!Complete
  <2>2. \/ sPc'[c] = "validate" /\ copy'[c] = copy[c] /\ copy[c].render # {}
        \/ sPc'[c] = "record render" /\ listing' # {}
    BY <1>5, <2>1
  <2>3. at'[c] = 1
    BY <2>0, <2>1
  <2>4. \A p \in Staged!Pages : ~(p < at'[c])
    BY <1>1, <2>3 DEF Staged!Pages, StagedBounds
  <2>5. Ready(sPc'[c], copy'[c].page[at'[c]], disk'[at'[c]])
    BY <2>2 DEF Ready, AfterPrimitive, Staged!Building
  <2>6. sPc'[c] \notin AfterRender
    BY <1>12, <2>2 DEF AfterRender
  <2>. QED BY <2>2, <2>4, <2>5, <2>6 DEF CalmNext
<1>19. CASE Staged!RecordRender(c)
  <2>0. sPc[c] = "record render" /\ at[c] = 1
    BY <1>1, <1>12, <1>19 DEF Staged!RecordRender, StagedTyped, ControlTyped
  <2>1. Staged!Save(c, Staged!Rendered(c)) /\ Staged!Goto(c, "validate") /\ at' = at
    BY <1>6, <1>19 DEF Staged!RecordRender
  <2>2. sPc'[c] = "validate" /\ copy'[c] = Staged!Rendered(c) /\ at'[c] = 1
    BY <1>2, <1>5, <1>7, <2>0, <2>1
  <2>3. kind = "pdf" => listing # {}
    BY <1>0, <2>0 DEF CalmCommand
  <2>4. kind = "pdf" => copy'[c].render # {}
    BY <1>1, <2>2, <2>3, RenderedIs
  <2>5. \A p \in Staged!Pages : ~(p < at'[c])
    BY <1>1, <2>2 DEF Staged!Pages, StagedBounds
  <2>6. Ready(sPc'[c], copy'[c].page[at'[c]], disk'[at'[c]])
    BY <2>2 DEF Ready, AfterPrimitive, Staged!Building
  <2>7. sPc'[c] \notin AfterRender
    BY <1>12, <2>2 DEF AfterRender
  <2>. QED BY <2>2, <2>4, <2>5, <2>6, <2>7 DEF CalmNext
<1>20. CASE Staged!Validate(c)
  <2>1. Staged!Goto(c, "primitive") /\ UNCHANGED <<copy, at, disk>> /\ sPc[c] = "validate" /\ Staged!RendersIntact(copy[c])
    BY <1>6, <1>20 DEF Staged!Validate
  <2>2. kind = "pdf" => copy[c].render # {}
    BY <1>0, <2>1 DEF CalmCommand
  <2>3. kind = "pdf" => \A p \in Staged!Pages : Has(copy[c].page[p], disk[p], "rendered")
    BY <2>1, <2>2 DEF Staged!RendersIntact, Has
  <2>. QED BY <1>12, <1>16, <2>1, <2>3
<1>21. CASE Staged!KeepPrimitive(c)
  <2>1. Has(r, f, "primitive")
    BY <1>21 DEF Staged!KeepPrimitive, Staged!Done, Has
  <2>. HIDE DEF r, f
  <2>2. Ready("semantic", r, f)
    BY <2>1 DEF Ready, AfterPrimitive, Staged!Building
  <2>. QED BY <1>8, <1>10, <1>21, <2>2 DEF Staged!KeepPrimitive
\* The files a page's step writes.
<1>22. ASSUME NEW k \in Staged!Stages \ {"rendered"}, NEW F \in PageFiles, NEW s,
              Staged!Put(c, k, F), Staged!Goto(c, s), copy' = copy, at' = at, sPc[c] \in AfterRender, s \in AfterRender,
              \A f2 : (\A j \in Staged!Stages \ {k} : f2[j] = f[j]) /\ f2[k] = F => Ready(s, r, f2)
       PROVE  CalmNext(c)
  BY <1>1, <1>22, CalmPut
<1>23. CASE Staged!ExtractImage(c) \/ Staged!Regenerate(c)
  <2>1. Staged!Put(c, "primitive", {{source}}) /\ Staged!Goto(c, "record primitive") /\ copy' = copy /\ at' = at
        /\ sPc[c] \in {"primitive", "regenerate"}
    BY <1>6, <1>23 DEF Staged!ExtractImage, Staged!Regenerate
  <2>2. \A f2 : (\A j \in Staged!Stages \ {"primitive"} : f2[j] = f[j]) /\ f2["primitive"] = {{source}} => Ready("record primitive", r, f2)
    <3>. HIDE DEF r, f
    <3>. QED BY DEF Ready, AfterPrimitive, Staged!Building
  <2>. QED BY <1>3, <1>4, <1>8, <1>22, <2>1, <2>2
<1>24. CASE Staged!MakeSemantic(c)
  <2>1. Staged!Put(c, "semantic", Staged!File(c, "primitive")) /\ Staged!Goto(c, "record semantic") /\ copy' = copy /\ at' = at
        /\ sPc[c] = "semantic" /\ Staged!File(c, "primitive") # {} /\ Staged!File(c, "primitive") \in PageFiles
    BY <1>2, <1>4, <1>24 DEF Staged!MakeSemantic
  <2>2. Has(r, f, "primitive")
    BY <1>0, <2>1 DEF Ready, AfterPrimitive
  <2>3. \A f2 : (\A j \in Staged!Stages \ {"semantic"} : f2[j] = f[j]) /\ f2["semantic"] = Staged!File(c, "primitive") => Ready("record semantic", r, f2)
    <3>. HIDE DEF r, f
    <3>. QED BY <1>4, <2>1, <2>2 DEF Ready, AfterPrimitive, Staged!Building, Has
  <2>. QED BY <1>4, <1>8, <1>22, <2>1, <2>3
<1>25. CASE Staged!BuildDxf(c)
  <2>1. PICK i \in Staged!File(c, "primitive"), s \in Staged!File(c, "semantic") : Staged!Put(c, "dxf", {i \cup s \cup {c}})
    BY <1>25 DEF Staged!BuildDxf
  <2>2. Staged!File(c, "primitive") \in PageFiles /\ Staged!File(c, "semantic") \in PageFiles
    BY <1>2, <1>4
  <2>3. i \in PageContents /\ s \in PageContents
    BY <2>1, <2>2, FileFacts
  <2> DEFINE F == {i \cup s \cup {c}}
  <2>4. F \in PageFiles /\ F # {}
    BY <2>3 DEF PageFiles, PageContents
  <2>5. Staged!Put(c, "dxf", F) /\ Staged!Goto(c, "evidence") /\ copy' = copy /\ at' = at /\ sPc[c] = "dxf"
    BY <1>25, <2>1 DEF Staged!BuildDxf
  <2>6. Has(r, f, "primitive") /\ Has(r, f, "semantic")
    BY <1>0, <2>5 DEF Ready, AfterPrimitive
  <2>. HIDE DEF F
  <2>7. \A f2 : (\A j \in Staged!Stages \ {"dxf"} : f2[j] = f[j]) /\ f2["dxf"] = F => Ready("evidence", r, f2)
    <3>. HIDE DEF r, f
    <3>. QED BY <1>4, <2>4, <2>6 DEF Ready, AfterPrimitive, Staged!Building, Has
  <2>. QED BY <1>4, <1>8, <1>22, <2>4, <2>5, <2>7
<1>26. CASE Staged!WriteEvidence(c)
  <2>1. Staged!Put(c, "evidence", Staged!File(c, "dxf")) /\ Staged!Goto(c, "record dxf") /\ copy' = copy /\ at' = at
        /\ sPc[c] = "evidence" /\ Staged!File(c, "dxf") # {} /\ Staged!File(c, "dxf") \in PageFiles
    BY <1>2, <1>4, <1>6, <1>26 DEF Staged!WriteEvidence
  <2>2. Has(r, f, "primitive") /\ Has(r, f, "semantic") /\ f["dxf"] # {}
    BY <1>0, <2>1 DEF Ready, AfterPrimitive, Staged!Building
  <2>3. \A f2 : (\A j \in Staged!Stages \ {"evidence"} : f2[j] = f[j]) /\ f2["evidence"] = Staged!File(c, "dxf") => Ready("record dxf", r, f2)
    <3>. HIDE DEF r, f
    <3>. QED BY <1>4, <2>1, <2>2 DEF Ready, AfterPrimitive, Staged!Building, Has
  <2>. QED BY <1>4, <1>8, <1>22, <2>1, <2>3
\* What a page's step saves.
<1>28. CASE Staged!ResetPage(c)
  <2> DEFINE m == Staged!Forgotten(c, Staged!Stages \ {"rendered"})
  <2>1. Staged!Save(c, m) /\ Staged!Goto(c, "regenerate") /\ disk' = disk /\ at' = at /\ sPc[c] = "primitive"
    BY <1>28 DEF Staged!ResetPage, Staged!Reset
  <2>2. \A p \in Staged!Pages, j \in Staged!Stages : m.page[p][j] = IF p = at[c] /\ j \in Staged!Stages \ {"rendered"} THEN {} ELSE copy[c].page[p][j]
    BY <1>9
  <2>. HIDE DEF m
  <2>3. Ready("regenerate", m.page[at[c]], f)
    BY DEF Ready, AfterPrimitive, Staged!Building
  <2>20. copy'[c] = m /\ sPc'[c] = "regenerate"
    BY <1>2, <1>5, <1>7, <2>1
  <2>21. \A p \in Staged!Pages, j \in Staged!Stages : p # at[c] \/ j = "rendered" => copy'[c].page[p][j] = copy[c].page[p][j]
    BY <2>2, <2>20
  <2>22. sPc[c] \in AfterRender /\ sPc'[c] \in AfterRender
    BY <1>8, <2>1, <2>20
  <2>23. Ready(sPc'[c], copy'[c].page[at[c]], disk[at[c]])
    BY <2>20, <2>3
  <2>. QED BY <1>1, <2>1, <2>21, <2>22, <2>23, CalmSave
<1>29. CASE Staged!RecordPrimitive(c)
  <2> DEFINE m == Staged!Recorded(c, "primitive")
  <2>1. Staged!Save(c, m) /\ Staged!Goto(c, "semantic") /\ disk' = disk /\ at' = at /\ sPc[c] = "record primitive"
    BY <1>6, <1>29 DEF Staged!RecordPrimitive
  <2>2. \A p \in Staged!Pages, j \in Staged!Stages : m.page[p][j] = IF p = at[c] /\ j = "primitive" THEN disk[p][j] ELSE copy[c].page[p][j]
    BY <1>4, <1>9
  <2>3. f["primitive"] # {}
    BY <1>0, <2>1 DEF Ready
  <2>. HIDE DEF m
  <2> DEFINE b == m.page[at[c]]
  <2>4. b["primitive"] = f["primitive"]
    BY <1>2, <1>4, <2>2
  <2>5. Ready("semantic", b, f)
    <3>. HIDE DEF b, f
    <3>. QED BY <2>3, <2>4 DEF Ready, AfterPrimitive, Staged!Building, Has, Staged!Complete
  <2>20. copy'[c] = m /\ sPc'[c] = "semantic"
    BY <1>2, <1>5, <1>7, <2>1
  <2>21. \A p \in Staged!Pages, j \in Staged!Stages : p # at[c] \/ j = "rendered" => copy'[c].page[p][j] = copy[c].page[p][j]
    BY <2>2, <2>20
  <2>22. sPc[c] \in AfterRender /\ sPc'[c] \in AfterRender
    BY <1>8, <2>1, <2>20
  <2>23. Ready(sPc'[c], copy'[c].page[at[c]], disk[at[c]])
    BY <2>20, <2>5
  <2>. QED BY <1>1, <2>1, <2>21, <2>22, <2>23, CalmSave
<1>30. CASE Staged!KeepSemantic(c)
  <2>1. sPc[c] = "semantic" /\ Has(r, f, "semantic")
    BY <1>30 DEF Staged!KeepSemantic, Staged!Done, Has
  <2>2. Has(r, f, "primitive")
    BY <1>0, <2>1 DEF Ready, AfterPrimitive
  <2>. HIDE DEF r, f
  <2>3. Ready("dxf", r, f)
    BY <2>1, <2>2 DEF Ready, AfterPrimitive, Staged!Building
  <2>. QED BY <1>8, <1>10, <1>30, <2>3 DEF Staged!KeepSemantic
<1>31. CASE Staged!RecordSemantic(c)
  <2> DEFINE m == Staged!Recorded(c, "semantic")
             s == IF kind = "pdf" THEN "reset dxf" ELSE "dxf"
  <2>1. Staged!Save(c, m) /\ Staged!Goto(c, s) /\ disk' = disk /\ at' = at /\ sPc[c] = "record semantic"
    BY <1>6, <1>31 DEF Staged!RecordSemantic
  <2>2. \A p \in Staged!Pages, j \in Staged!Stages : m.page[p][j] = IF p = at[c] /\ j = "semantic" THEN disk[p][j] ELSE copy[c].page[p][j]
    BY <1>4, <1>9
  <2>3. f["semantic"] # {} /\ Has(r, f, "primitive")
    BY <1>0, <2>1 DEF Ready, AfterPrimitive
  <2>. HIDE DEF m
  <2> DEFINE b == m.page[at[c]]
  <2>4. b["semantic"] = f["semantic"] /\ b["primitive"] = r["primitive"]
    BY <1>2, <1>4, <2>2
  <2>5. s \in {"reset dxf", "dxf"} /\ s \in AfterRender
    BY <1>8
  <2>. HIDE DEF s
  <2>6. Ready(s, b, f)
    <3>. HIDE DEF b, f, r
    <3>. QED BY <2>3, <2>4, <2>5 DEF Ready, AfterPrimitive, Staged!Building, Has, Staged!Complete
  <2>20. copy'[c] = m /\ sPc'[c] = s
    BY <1>2, <1>5, <1>7, <2>1
  <2>21. \A p \in Staged!Pages, j \in Staged!Stages : p # at[c] \/ j = "rendered" => copy'[c].page[p][j] = copy[c].page[p][j]
    BY <2>2, <2>20
  <2>22. sPc[c] \in AfterRender /\ sPc'[c] \in AfterRender
    BY <1>8, <2>1, <2>20, <2>5
  <2>23. Ready(sPc'[c], copy'[c].page[at[c]], disk[at[c]])
    BY <2>20, <2>6
  <2>. QED BY <1>1, <2>1, <2>21, <2>22, <2>23, CalmSave
<1>32. ASSUME Staged!Save(c, Staged!Forgotten(c, {"dxf", "evidence"})), sPc'[c] = "dxf", disk' = disk, at' = at,
              sPc[c] \in {"reset dxf", "dxf"}
       PROVE  CalmNext(c)
  <2> DEFINE m == Staged!Forgotten(c, {"dxf", "evidence"})
  <2>1. \A p \in Staged!Pages, j \in Staged!Stages : m.page[p][j] = IF p = at[c] /\ j \in {"dxf", "evidence"} THEN {} ELSE copy[c].page[p][j]
    BY <1>9
  <2>2. copy'[c] = m
    BY <1>2, <1>7, <1>32
  <2>3. Has(r, f, "primitive") /\ Has(r, f, "semantic")
    BY <1>0, <1>32 DEF Ready, AfterPrimitive
  <2>. HIDE DEF m
  <2> DEFINE b == m.page[at[c]]
  <2>4. b["semantic"] = r["semantic"] /\ b["primitive"] = r["primitive"]
    BY <1>2, <1>4, <2>1
  <2>5. Ready("dxf", b, f)
    <3>. HIDE DEF b, f, r
    <3>. QED BY <2>3, <2>4 DEF Ready, AfterPrimitive, Staged!Building, Has, Staged!Complete
  <2>6. \A p \in Staged!Pages, j \in Staged!Stages : p # at[c] \/ j = "rendered" => copy'[c].page[p][j] = copy[c].page[p][j]
    BY <2>1, <2>2
  <2>7. sPc[c] \in AfterRender
    BY <1>8, <1>32
  <2>8. Ready(sPc'[c], copy'[c].page[at[c]], disk[at[c]]) /\ sPc'[c] \in AfterRender
    BY <1>8, <1>32, <2>2, <2>5
  <2>. QED BY <1>1, <1>32, <2>6, <2>7, <2>8, CalmSave
<1>33. CASE Staged!ResetDxf(c)
  BY <1>5, <1>32, <1>33 DEF Staged!ResetDxf
<1>34. CASE Staged!ForgetDxf(c)
  BY <1>32, <1>34 DEF Staged!ForgetDxf
<1>35. CASE Staged!RecordDxf(c)
  <2> DEFINE m == Staged!Recorded(c, "dxf")
  <2>1. Staged!Save(c, m) /\ Staged!Goto(c, "record evidence") /\ disk' = disk /\ at' = at /\ sPc[c] = "record dxf"
    BY <1>6, <1>35 DEF Staged!RecordDxf
  <2>2. \A p \in Staged!Pages, j \in Staged!Stages : m.page[p][j] = IF p = at[c] /\ j = "dxf" THEN disk[p][j] ELSE copy[c].page[p][j]
    BY <1>4, <1>9
  <2>3. Has(r, f, "primitive") /\ Has(r, f, "semantic") /\ f["dxf"] # {} /\ f["evidence"] # {}
    BY <1>0, <2>1 DEF Ready, AfterPrimitive, Staged!Building
  <2>. HIDE DEF m
  <2> DEFINE b == m.page[at[c]]
  <2>4. b["semantic"] = r["semantic"] /\ b["primitive"] = r["primitive"] /\ b["dxf"] = f["dxf"]
    BY <1>2, <1>4, <2>2
  <2>5. Ready("record evidence", b, f)
    <3>. HIDE DEF b, f, r
    <3>. QED BY <2>3, <2>4 DEF Ready, AfterPrimitive, Staged!Building, Has, Staged!Complete
  <2>20. copy'[c] = m /\ sPc'[c] = "record evidence"
    BY <1>2, <1>5, <1>7, <2>1
  <2>21. \A p \in Staged!Pages, j \in Staged!Stages : p # at[c] \/ j = "rendered" => copy'[c].page[p][j] = copy[c].page[p][j]
    BY <2>2, <2>20
  <2>22. sPc[c] \in AfterRender /\ sPc'[c] \in AfterRender
    BY <1>8, <2>1, <2>20
  <2>23. Ready(sPc'[c], copy'[c].page[at[c]], disk[at[c]])
    BY <2>20, <2>5
  <2>. QED BY <1>1, <2>1, <2>21, <2>22, <2>23, CalmSave
\* The page at work is done.
<1>36. CASE Staged!KeepDxf(c)
  <2>1. /\ sPc[c] = "dxf" /\ Has(r, f, "dxf") /\ (kind = "pdf" => Has(r, f, "evidence"))
        /\ at' = [at EXCEPT ![c] = @ + 1] /\ Staged!Goto(c, "primitive") /\ copy' = copy /\ disk' = disk
    BY <1>6, <1>36 DEF Staged!KeepDxf, Staged!NextPage, Staged!Done, Has
  <2>2. Has(r, f, "primitive") /\ Has(r, f, "semantic")
    BY <1>0, <2>1 DEF Ready, AfterPrimitive
  <2>3. \A k \in Staged!Needed \ {"rendered"} : Has(r, f, k)
    <3>. HIDE DEF r, f
    <3>. QED BY <2>1, <2>2, NeededIs
  <2>4. sPc'[c] = "primitive" /\ at'[c] = at[c] + 1 /\ sPc[c] \in AfterRender
    BY <1>2, <1>5, <1>8, <2>1
  <2>. QED BY <1>1, <2>1, <2>3, <2>4, CalmPageDone
<1>37. CASE Staged!RecordEvidence(c)
  <2> DEFINE m == Staged!Recorded(c, "evidence")
  <2>1. /\ sPc[c] = "record evidence" /\ disk' = disk /\ Staged!Save(c, m)
        /\ at' = [at EXCEPT ![c] = @ + 1] /\ Staged!Goto(c, "primitive")
    BY <1>6, <1>37 DEF Staged!RecordEvidence
  <2>2. \A p \in Staged!Pages, j \in Staged!Stages : m.page[p][j] = IF p = at[c] /\ j = "evidence" THEN disk[p][j] ELSE copy[c].page[p][j]
    BY <1>4, <1>9
  <2>3. Has(r, f, "primitive") /\ Has(r, f, "semantic") /\ Has(r, f, "dxf") /\ f["evidence"] # {}
    BY <1>0, <2>1 DEF Ready, AfterPrimitive, Staged!Building
  <2>. HIDE DEF m
  <2> DEFINE b == m.page[at[c]]
  <2>4. b["semantic"] = r["semantic"] /\ b["primitive"] = r["primitive"] /\ b["dxf"] = r["dxf"] /\ b["evidence"] = f["evidence"]
    BY <1>2, <1>4, <2>2
  <2>5. \A k \in Staged!Needed \ {"rendered"} : Has(b, f, k)
    <3>. HIDE DEF b, f, r
    <3>1. Has(b, f, "primitive") /\ Has(b, f, "semantic") /\ Has(b, f, "dxf") /\ Has(b, f, "evidence")
      BY <2>3, <2>4 DEF Has, Staged!Complete
    <3>. QED BY <3>1, NeededIs
  <2>6. sPc'[c] = "primitive" /\ at'[c] = at[c] + 1 /\ sPc[c] \in AfterRender /\ copy'[c] = m
    BY <1>2, <1>5, <1>7, <1>8, <2>1
  <2>7. \A p \in Staged!Pages, j \in Staged!Stages : p # at[c] \/ j = "rendered" =>
               copy'[c].page[p][j] = copy[c].page[p][j] /\ disk'[p][j] = disk[p][j]
    BY <2>1, <2>2, <2>6
  <2>8. \A k \in Staged!Needed \ {"rendered"} : Has(copy'[c].page[at[c]], disk'[at[c]], k)
    BY <2>1, <2>5, <2>6
  <2>. QED BY <1>1, <2>6, <2>7, <2>8, CalmPageDone
<1>38. CASE Staged!Fail(c) \/ Staged!Kill(c)
  BY <1>6, <1>38 DEF Staged!Fail, Staged!Kill
<1>39. ~Staged!Create(c) /\ ~Staged!Calibrate(c) /\ ~Staged!Resume(c)
  BY DEF Begins
<1>. QED BY <1>0, StepActions, <1>13, <1>14, <1>15, <1>17, <1>18, <1>19, <1>20, <1>21, <1>23, <1>24,
            <1>25, <1>26, <1>28, <1>29, <1>30, <1>31, <1>33, <1>34, <1>35, <1>36, <1>37, <1>38,
            <1>39

\* A calm command is alone, and stays complete behind it.
LEMMA CalmStays ==
    ASSUME StagedBounds, StagedTyped, CalmInv, NEW c \in Commands, Staged!Step(c)
    PROVE  CalmInv'
<1>. SUFFICES ASSUME NEW d \in calm' \cap Staged!Alive'
              PROVE  Staged!Alive' = {d} /\ CalmCommand(d)'
  BY DEF CalmInv
<1>0. kind' = kind /\ Staged!Needed' = Staged!Needed /\ kind \in {"image", "pdf"} /\ d \in Commands /\ d \in calm' /\ sPc'[d] \notin Staged!Resting
  BY StepDisk DEF StagedTyped, DataTyped, Staged!Alive, Staged!Needed
<1>1. \A e \in Commands \ {c} : sPc'[e] = sPc[e]
  BY OthersWait
<1>2. ASSUME CalmNext(c), sPc'[c] \notin Staged!Resting, sPc'[c] # "save new" => manifest' = {copy'[c]}
      PROVE  CalmCommand(c)'
  <2>1. \A p \in Staged!Pages : p < at'[c] => \A k \in Staged!Needed' : Has(copy'[c].page[p], disk'[p], k)
    BY <1>0, <1>2 DEF CalmNext
  <2>. QED BY <1>0, <1>2, <2>1 DEF CalmNext, CalmCommand, Has, Ready, Staged!Complete
<1>3. CASE Begins(c)
  <2>1. /\ Staged!Meet(c) /\ sPc[c] = "idle" /\ at' = at /\ sPc'[c] \in {"save new", "verify"}
        /\ sPc'[c] = "verify" => manifest # {} /\ manifest' = manifest /\ \E m \in manifest : copy' = [copy EXCEPT ![c] = m]
    BY <1>3 DEF Begins, Staged!Create, Staged!Calibrate, Staged!Resume, Staged!Goto, StagedTyped, ControlTyped
  <2>2. Staged!Alive = {}
    <3>. SUFFICES ASSUME Staged!Alive # {} PROVE FALSE
      OBVIOUS
    <3>1. calm' = calm \ (Staged!Alive \cup {c})
      BY <2>1 DEF Staged!Meet
    <3>2. d # c /\ d \notin Staged!Alive
      BY <1>0, <3>1
    <3>3. sPc[d] \in Staged!Resting
      BY <1>0, <3>2 DEF Staged!Alive
    <3>. QED BY <1>0, <1>1, <3>2, <3>3
  <2>3. \A e \in Commands \ {c} : sPc'[e] \in Staged!Resting
    BY <1>1, <2>2 DEF Staged!Alive
  <2>4. d = c /\ Staged!Alive' = {c}
    BY <1>0, <2>3 DEF Staged!Alive
  <2>5. at'[c] = 1
    BY <2>1 DEF StagedTyped, ControlTyped, Staged!Resting
  <2>6. sPc'[c] \in FirstSteps \ {"record render", "validate"}
    BY <2>1 DEF FirstSteps
  <2>7. CalmNext(c)
    BY <2>5, <2>6, CalmFirst
  <2>8. ASSUME sPc'[c] # "save new" PROVE manifest' = {copy'[c]}
    <3>1. PICK m \in manifest : copy' = [copy EXCEPT ![c] = m]
      BY <2>1, <2>8
    <3>2. copy'[c] = m
      BY <3>1 DEF StagedTyped, ControlTyped
    <3>3. manifest = {m} /\ manifest' = manifest
      BY <2>1, <2>8, <3>1 DEF StagedTyped, DataTyped
    <3>. QED BY <3>2, <3>3
  <2>. QED BY <1>0, <1>2, <2>4, <2>7, <2>8
<1>4. CASE ~Begins(c)
  <2>1. c \in Staged!Alive
    BY <1>4, StepAlive
  <2>2. calm' = calm \/ (calm' = calm \cup {c} /\ sPc'[c] \in Staged!Resting)
    BY <1>4, StepCalm
  <2>3. CASE d = c
    <3>1. d \in calm
      BY <1>0, <2>2, <2>3
    <3>2. Staged!Alive = {c} /\ CalmCommand(c)
      BY <2>1, <2>3, <3>1 DEF CalmInv
    <3>3. \A e \in Commands \ {c} : sPc'[e] \in Staged!Resting
      BY <1>1, <3>2 DEF Staged!Alive
    <3>4. Staged!Alive' = {c}
      BY <1>0, <2>3, <3>3 DEF Staged!Alive
    <3>5. sPc[c] \notin Staged!Resting /\ sPc'[c] \notin Staged!Resting
      BY <1>0, <2>1, <2>3 DEF Staged!Alive
    <3>6. GoesOnCalm(c)
      BY <3>2, <3>5 DEF GoesOnCalm
    <3>7. CalmNext(c)
      BY <1>0, <1>4, <3>6, CalmStep
    <3>8. sPc[c] \in Staged!Resting \/ sPc[c] = "save new" \/ manifest = {copy[c]}
      BY <3>2 DEF CalmCommand
    <3>9. sPc'[c] # "save new" => manifest' = {copy'[c]}
      BY <3>5, <3>8, StepSaves
    <3>. QED BY <1>2, <2>3, <3>4, <3>5, <3>7, <3>9
  <2>4. CASE d # c
    <3>1. d \in calm /\ sPc[d] \notin Staged!Resting
      BY <1>0, <1>1, <2>2, <2>4
    <3>2. Staged!Alive = {d}
      BY <1>0, <3>1 DEF CalmInv, Staged!Alive
    <3>. QED BY <2>1, <2>4, <3>2
  <2>. QED BY <2>3, <2>4
<1>. QED BY <1>3, <1>4

-----------------------------------------------------------------------------
(* A command that answers. *)

\* Which steps answer, and what they leave in the manifest.
LEMMA StepAnswers ==
    ASSUME StagedTyped, NEW c \in Commands, Staged!Step(c), NEW d \in Commands, sPc[d] # "done", sPc'[d] = "done"
    PROVE  /\ d = c
           /\ disk' = disk \/ Staged!ExtractCandidate(c)
           /\ \/ Staged!ExtractCandidate(c) \/ Staged!RecordCandidate(c)
              \/ Staged!KeepDxf(c) /\ at[c] = Staged!Last /\ manifest' = manifest
              \/ Staged!RecordDxf(c) /\ kind # "pdf" /\ manifest' = {Staged!Recorded(c, "dxf")}
              \/ Staged!RecordEvidence(c) /\ at[c] = Staged!Last /\ manifest' = {Staged!Recorded(c, "evidence")}
<1>1. d = c
  BY OthersWait
<1>2. \A s : Staged!Goto(c, s) => sPc'[c] = s
  BY DEF Staged!Goto, StagedTyped, ControlTyped
<1>3. \A s : Staged!End(c, s) => sPc'[c] = s
  BY <1>2 DEF Staged!End
<1>4. CASE Staged!ExtractCandidate(c)
  BY <1>1, <1>2, <1>3, <1>4 DEF Staged!ExtractCandidate
<1>5. CASE Staged!RecordCandidate(c)
  BY <1>1, <1>5 DEF Staged!RecordCandidate
<1>6. CASE Staged!KeepDxf(c)
  BY <1>1, <1>2, <1>6 DEF Staged!KeepDxf, Staged!NextPage
<1>7. CASE Staged!RecordDxf(c)
  BY <1>1, <1>2, <1>3, <1>7 DEF Staged!RecordDxf
<1>8. CASE Staged!RecordEvidence(c)
  BY <1>1, <1>2, <1>3, <1>8 DEF Staged!RecordEvidence
<1>9. CASE Staged!Create(c) \/ Staged!Calibrate(c) \/ Staged!SaveNew(c) \/ Staged!Resume(c)
  BY <1>1, <1>2, <1>9 DEF Staged!Create, Staged!Calibrate, Staged!SaveNew, Staged!Resume
<1>10. CASE Staged!Verify(c) \/ Staged!Extract(c) \/ Staged!RecordRender(c) \/ Staged!Validate(c)
  BY <1>1, <1>2, <1>3, <1>10 DEF Staged!Verify, Staged!Extract, Staged!RecordRender, Staged!Validate
<1>11. CASE Staged!KeepPrimitive(c) \/ Staged!ExtractImage(c) \/ Staged!ResetPage(c) \/ Staged!Regenerate(c) \/ Staged!RecordPrimitive(c)
  BY <1>1, <1>2, <1>3, <1>11 DEF Staged!KeepPrimitive, Staged!ExtractImage, Staged!ResetPage,
     Staged!Regenerate, Staged!RecordPrimitive
<1>12. CASE Staged!KeepSemantic(c) \/ Staged!MakeSemantic(c) \/ Staged!RecordSemantic(c) \/ Staged!ResetDxf(c)
  BY <1>1, <1>2, <1>3, <1>12 DEF Staged!KeepSemantic, Staged!MakeSemantic, Staged!RecordSemantic, Staged!ResetDxf
<1>13. CASE Staged!ForgetDxf(c) \/ Staged!BuildDxf(c) \/ Staged!WriteEvidence(c)
  BY <1>1, <1>2, <1>3, <1>13 DEF Staged!ForgetDxf, Staged!BuildDxf, Staged!WriteEvidence
<1>14. CASE Staged!Fail(c) \/ Staged!Kill(c)
  BY <1>1, <1>3, <1>14 DEF Staged!Fail, Staged!Kill
<1>. QED BY StepActions, <1>4, <1>5, <1>6, <1>7, <1>8, <1>9, <1>10, <1>11, <1>12, <1>13, <1>14

\* ... so a command that met nobody and answers leaves every stage recorded.
LEMMA StepAnswered ==
    ASSUME StagedBounds, StagedTyped, CandidateInv, CalmInv, NEW c \in Commands, Staged!Step(c),
           NEW d \in Commands, sPc[d] # "done", sPc'[d] = "done", d \in calm,
           NEW m \in manifest', m.mode = "manual", NEW p \in 1..Staged!Last', NEW k \in Staged!Needed'
    PROVE  Staged!IsComplete(m, p, k)'
<1>0. kind' = kind /\ Staged!Needed' = Staged!Needed /\ Staged!Last' = Staged!Last /\ kind \in {"image", "pdf"} /\ LastPage \in Nat \ {0}
  BY StepDisk DEF StagedTyped, DataTyped, Staged!Needed, Staged!Last, StagedBounds
<1>1. /\ d = c
      /\ disk' = disk \/ Staged!ExtractCandidate(c)
      /\ \/ Staged!ExtractCandidate(c) \/ Staged!RecordCandidate(c)
         \/ Staged!KeepDxf(c) /\ at[c] = Staged!Last /\ manifest' = manifest
         \/ Staged!RecordDxf(c) /\ kind # "pdf" /\ manifest' = {Staged!Recorded(c, "dxf")}
         \/ Staged!RecordEvidence(c) /\ at[c] = Staged!Last /\ manifest' = {Staged!Recorded(c, "evidence")}
  BY StepAnswers
<1>20. \A n \in 1..Staged!Last : n \in 1..LastPage
  <2>1. CASE kind = "image"
    BY <1>0, <2>1 DEF Staged!Last
  <2>2. CASE kind # "image"
    BY <2>2 DEF Staged!Last
  <2>. QED BY <2>1, <2>2
<1>2. p \in Staged!Pages /\ at[c] \in Staged!Pages /\ k \in Staged!Needed /\ k \in Staged!Stages /\ "dxf" \in Staged!Stages /\ "evidence" \in Staged!Stages
      /\ Staged!Pages \subseteq Nat
  <2>1. p \in Staged!Pages
    BY <1>0, <1>20 DEF Staged!Pages
  <2>2. k \in Staged!Needed /\ k \in Staged!Stages
    BY <1>0, NeededIs
  <2>3. at[c] \in Staged!Pages /\ "dxf" \in Staged!Stages /\ "evidence" \in Staged!Stages
    BY StageNames DEF StagedTyped, ControlTyped
  <2>4. Staged!Pages \subseteq Nat
    BY <1>0 DEF Staged!Pages
  <2>. QED BY <2>1, <2>2, <2>3, <2>4
<1>21. /\ \A q \in Staged!Pages, j \in Staged!Stages :
            Staged!Recorded(c, "dxf").page[q][j] = IF q = at[c] /\ j = "dxf" THEN disk[q]["dxf"] ELSE copy[c].page[q][j]
       /\ \A q \in Staged!Pages, j \in Staged!Stages :
            Staged!Recorded(c, "evidence").page[q][j] = IF q = at[c] /\ j = "evidence" THEN disk[q]["evidence"] ELSE copy[c].page[q][j]
  BY <1>2, RecordedIs
<1>5. ASSUME Staged!ExtractCandidate(c) \/ Staged!RecordCandidate(c) PROVE FALSE
  <2>1. copy[c].mode = "candidate" /\ copy[c] \in RunManifests
    BY <1>5 DEF Staged!ExtractCandidate, Staged!RecordCandidate, CandidateInv, EstimateSteps,
       StagedTyped, ControlTyped
  <2>2. Staged!Rendered(c).mode = "candidate"
    BY <2>1, RenderedIs
  <2>3. \A s : Staged!Goto(c, s) => sPc'[c] = s
    BY DEF Staged!Goto, StagedTyped, ControlTyped
  <2>4. \A s : Staged!End(c, s) => sPc'[c] = s
    BY <2>3 DEF Staged!End
  <2>5. manifest' = {copy[c]} \/ manifest' = {Staged!Rendered(c)}
    BY <1>1, <1>5, <2>3, <2>4 DEF Staged!ExtractCandidate, Staged!RecordCandidate
  <2>. QED BY <2>1, <2>2, <2>5
<1>3. SUFFICES Has(m.page[p], disk[p], k)
  BY <1>1, <1>5 DEF Staged!IsComplete, Has
<1>4. c \in Staged!Alive => Staged!Alive = {c} /\ CalmCommand(c)
  BY <1>1 DEF CalmInv
<1>6. Staged!Last \in Nat
  BY <1>0 DEF Staged!Last
<1>7. CASE Staged!KeepDxf(c) /\ at[c] = Staged!Last /\ manifest' = manifest
  <2>1. sPc[c] = "dxf" /\ Has(copy[c].page[at[c]], disk[at[c]], "dxf")
        /\ (kind = "pdf" => Has(copy[c].page[at[c]], disk[at[c]], "evidence"))
    BY <1>7 DEF Staged!KeepDxf, Staged!Done, Has
  <2>2. c \in Staged!Alive
    BY <2>1, StepNames DEF Staged!Alive
  <2>3. CalmCommand(c)
    BY <1>4, <2>2
  <2>4. manifest = {copy[c]}
    BY <2>1, <2>3 DEF CalmCommand
  <2>5. m = copy[c]
    BY <1>7, <2>4
  <2>6. CASE p < at[c]
    BY <1>2, <2>3, <2>5, <2>6 DEF CalmCommand
  <2>7. CASE p = at[c]
    <3>1. Has(copy[c].page[at[c]], disk[at[c]], "primitive") /\ Has(copy[c].page[at[c]], disk[at[c]], "semantic")
      BY <2>1, <2>3 DEF CalmCommand, Ready, AfterPrimitive
    <3>2. kind = "pdf" => Has(copy[c].page[at[c]], disk[at[c]], "rendered")
      BY <1>2, <2>1, <2>3, StepNames DEF CalmCommand, AfterRender
    <3>. QED BY <1>2, <2>1, <2>5, <2>7, <3>1, <3>2, NeededIs
  <2>. QED BY <1>0, <1>2, <1>6, <1>7, <2>6, <2>7
<1>8. CASE Staged!RecordDxf(c) /\ kind # "pdf" /\ manifest' = {Staged!Recorded(c, "dxf")}
  <2>1. sPc[c] = "record dxf" /\ m = Staged!Recorded(c, "dxf")
    BY <1>8 DEF Staged!RecordDxf
  <2>2. c \in Staged!Alive
    BY <2>1, StepNames DEF Staged!Alive
  <2>3. CalmCommand(c)
    BY <1>4, <2>2
  <2>4. p = 1 /\ at[c] = 1
    BY <1>0, <1>8 DEF Staged!Last, StagedTyped, ControlTyped
  <2>5. \A j \in Staged!Stages : m.page[p][j] = IF j = "dxf" THEN disk[p]["dxf"] ELSE copy[c].page[p][j]
    BY <1>2, <1>21, <2>1, <2>4
  <2>6. Has(copy[c].page[p], disk[p], "primitive") /\ Has(copy[c].page[p], disk[p], "semantic") /\ disk[p]["dxf"] # {}
    BY <2>1, <2>3, <2>4 DEF CalmCommand, Ready, AfterPrimitive, Staged!Building
  <2>7. Has(m.page[p], disk[p], "primitive") /\ Has(m.page[p], disk[p], "semantic") /\ Has(m.page[p], disk[p], "dxf")
    BY <2>5, <2>6, StageNames DEF Has, Staged!Complete
  <2>. QED BY <1>2, <1>8, <2>7, NeededIs
<1>9. CASE Staged!RecordEvidence(c) /\ at[c] = Staged!Last /\ manifest' = {Staged!Recorded(c, "evidence")}
  <2>1. sPc[c] = "record evidence" /\ m = Staged!Recorded(c, "evidence") /\ kind = "pdf"
    BY <1>9 DEF Staged!RecordEvidence, StagedTyped, ControlTyped, DocumentSteps
  <2>2. c \in Staged!Alive
    BY <2>1, StepNames DEF Staged!Alive
  <2>3. CalmCommand(c)
    BY <1>4, <2>2
  <2>4. \A q \in Staged!Pages, j \in Staged!Stages :
          m.page[q][j] = IF q = at[c] /\ j = "evidence" THEN disk[q]["evidence"] ELSE copy[c].page[q][j]
    BY <1>21, <2>1
  <2>5. CASE p < at[c]
    <3>1. Has(copy[c].page[p], disk[p], k)
      BY <1>2, <2>3, <2>5 DEF CalmCommand
    <3>2. p # at[c]
      BY <1>2, <2>5
    <3>. QED BY <1>2, <2>4, <3>1, <3>2 DEF Has
  <2>6. CASE p = at[c]
    <3>1. Has(copy[c].page[p], disk[p], "primitive") /\ Has(copy[c].page[p], disk[p], "semantic")
          /\ Has(copy[c].page[p], disk[p], "dxf") /\ disk[p]["evidence"] # {}
      BY <2>1, <2>3, <2>6 DEF CalmCommand, Ready, AfterPrimitive, Staged!Building
    <3>2. Has(copy[c].page[p], disk[p], "rendered")
      BY <1>2, <2>1, <2>3, StepNames DEF CalmCommand, AfterRender
    <3>3. \A j \in Staged!Stages : m.page[p][j] = IF j = "evidence" THEN disk[p]["evidence"] ELSE copy[c].page[p][j]
      BY <1>2, <2>4, <2>6
    <3>4. \A j \in Staged!Stages : Has(m.page[p], disk[p], j)
      <4>1. Staged!Stages = {"rendered", "primitive", "semantic", "dxf", "evidence"}
        BY StageNames
      <4>2. \A j \in {"rendered", "primitive", "semantic", "dxf"} : Has(m.page[p], disk[p], j)
        BY <3>1, <3>2, <3>3, <4>1 DEF Has
      <4>3. Has(m.page[p], disk[p], "evidence")
        BY <3>1, <3>3, <4>1 DEF Has, Staged!Complete
      <4>. QED BY <4>1, <4>2, <4>3
    <3>. QED BY <1>2, <3>4
  <2>. QED BY <1>0, <1>2, <1>6, <1>9, <2>5, <2>6
<1>. QED BY <1>1, <1>5, <1>7, <1>8, <1>9

LEMMA StepAnswersComplete ==
    ASSUME StagedBounds, StagedTyped, CandidateInv, CalmInv, NEW c \in Commands, Staged!Step(c)
    PROVE  Staged!AnswersWhenComplete
BY StepAnswered DEF Staged!AnswersWhenComplete

-----------------------------------------------------------------------------
(* The invariant is there at the start and stays. *)

StagedInvariant == StagedTyped /\ CandidateInv /\ BuiltInv /\ EvidenceInv /\ DerivedInv /\ CalmInv

\* Nothing is there at first.
LEMMA StagedStarts ==
    ASSUME StagedBounds, Staged!Init
    PROVE  StagedInvariant
<1>1. StagedTyped
  BY StagedTypedStart
<1>2. /\ \A c \in Commands : sPc[c] = "idle" /\ copy[c] = Staged!NoRun /\ at[c] = 1
      /\ manifest = {} /\ \A p \in Staged!Pages, k \in Staged!Stages : disk[p][k] = {}
  BY DEF Staged!Init, Staged!Empty
<1>3. Staged!Alive = {}
  BY <1>2 DEF Staged!Alive, Staged!Resting
<1>4. "idle" \notin StagedSteps /\ "idle" \notin EstimateSteps /\ "idle" \notin Staged!Building
      /\ "primitive" \in Staged!Stages /\ "semantic" \in Staged!Stages /\ "dxf" \in Staged!Stages /\ "evidence" \in Staged!Stages /\ "rendered" \in Staged!Stages
  BY StageNames DEF StagedSteps, EstimateSteps, Staged!Building
<1>5. CandidateInv
  BY <1>2, <1>4, NoRunIs DEF CandidateInv, HonestCandidate
<1>6. BuiltInv
  BY <1>2, <1>4, NoRunIs DEF BuiltInv, Plain, Known
<1>7. EvidenceInv
  <2>1. ASSUME NEW p \in Staged!Pages PROVE BuildsAlone(p) /\ BuiltTogether(p)
    BY <1>2, <1>4 DEF BuildsAlone, BuiltTogether
  <2>2. ASSUME NEW p \in Staged!Pages PROVE Binds(Staged!NoRun.page[p], disk[p])
    <3>1. Staged!NoRun.page[p]["dxf"] = {} /\ Staged!NoRun.page[p]["evidence"] = {} /\ disk[p]["dxf"] = {}
      BY <1>2, <1>4, NoRunIs
    <3>. QED BY <3>1 DEF Binds, Apart, Staged!Partial
  <2>. QED BY <1>2, <2>1, <2>2 DEF EvidenceInv
<1>8. DerivedInv
  BY <1>2, <1>3 DEF DerivedInv, Staged!AtMostOne, Manifested
<1>9. CalmInv
  BY <1>3 DEF CalmInv
<1>. QED BY <1>1, <1>5, <1>6, <1>7, <1>8, <1>9 DEF StagedInvariant

\* A file that is edited or removed passes for no record it did not pass for.
LEMMA EditedRow ==
    ASSUME StagedBounds, NEW r, NEW f, NEW f2, \A k \in Staged!Stages : f2[k] \in {f[k], {}, {Staged!Edited(k)}}
    PROVE  /\ Binds(r, f) => Binds(r, f2)
           /\ \A k \in Staged!Stages : Fits(r, f2, k) => Fits(r, f, k)
           /\ \A k \in Staged!Stages : Near(r, f, k) => Near(r, f2, k)
           /\ FromPrimitive(r, f) => FromPrimitive(r, f2)
           /\ FromBoth(r, f) => FromBoth(r, f2)
           /\ SameSource(f) => SameSource(f2)
           /\ \A s : Working(s, r, f) => Working(s, r, f2)
<1>1. \A k \in Staged!Stages : {Staged!Edited(k)} # {Staged!Partial}
  BY MarksArePlain
<1>2. "rendered" \in Staged!Stages /\ "primitive" \in Staged!Stages /\ "semantic" \in Staged!Stages /\ "dxf" \in Staged!Stages /\ "evidence" \in Staged!Stages
  BY StageNames
<1>3. Binds(r, f) => Binds(r, f2)
  BY <1>2 DEF Binds, Apart
<1>4. \A k \in Staged!Stages : Fits(r, f2, k) => Fits(r, f, k)
  BY DEF Fits
<1>5. \A k \in Staged!Stages : Near(r, f, k) => Near(r, f2, k)
  BY DEF Near
<1>6. (FromPrimitive(r, f) => FromPrimitive(r, f2)) /\ (FromBoth(r, f) => FromBoth(r, f2))
  BY <1>2, <1>4, RowKept
<1>7. SameSource(f) => SameSource(f2)
  BY <1>2 DEF SameSource
<1>8. ASSUME NEW s, Working(s, r, f) PROVE Working(s, r, f2)
  <2>1. s \in {"regenerate", "record primitive"} => r["primitive"] = {} /\ r["semantic"] = {} /\ r["dxf"] = {}
    BY <1>8 DEF Working
  <2>2. s = "record primitive" => f2["primitive"] \in {{}, {Staged!Edited("primitive")}, r["rendered"]}
    BY <1>2, <1>8 DEF Working
  <2>3. s \in AfterPrimitive => Near(r, f2, "primitive")
    BY <1>2, <1>5, <1>8 DEF Working
  <2>4. s \in {"reset dxf", "dxf"} => Near(r, f2, "semantic")
    BY <1>2, <1>5, <1>8 DEF Working
  <2>5. ASSUME s = "record semantic"
        PROVE  /\ f2["semantic"] # {Staged!Partial}
               /\ f2["semantic"] \in {{}, {Staged!Edited("semantic")}, r["primitive"]} \/ ~Fits(r, f2, "primitive")
               /\ \/ r["semantic"] # {Staged!Edited("semantic")} \/ ~Fits(r, f2, "primitive")
                  \/ r["dxf"] = {Staged!Edited("dxf")} \/ MadeOf(r["dxf"], r["semantic"], r["primitive"])
    <3>1. /\ f["semantic"] # {Staged!Partial}
          /\ f["semantic"] \in {{}, {Staged!Edited("semantic")}, r["primitive"]} \/ ~Fits(r, f, "primitive")
          /\ \/ r["semantic"] # {Staged!Edited("semantic")} \/ ~Fits(r, f, "primitive")
             \/ r["dxf"] = {Staged!Edited("dxf")} \/ MadeOf(r["dxf"], r["semantic"], r["primitive"])
      BY <1>8, <2>5 DEF Working
    <3>. QED BY <1>1, <1>2, <1>4, <3>1
  <2>6. ASSUME s \in Staged!Building
        PROVE  \/ f2["dxf"] = {Staged!Edited("dxf")}
               \/ ~Fits(r, f2, "primitive") \/ ~Fits(r, f2, "semantic")
               \/ MadeOf(f2["dxf"], r["semantic"], r["primitive"])
    <3>1. \/ f["dxf"] = {Staged!Edited("dxf")}
          \/ ~Fits(r, f, "primitive") \/ ~Fits(r, f, "semantic")
          \/ MadeOf(f["dxf"], r["semantic"], r["primitive"])
      BY <1>8, <2>6 DEF Working
    <3>2. CASE f2["dxf"] = {}
      BY <3>2 DEF MadeOf
    <3>3. CASE f2["dxf"] # {}
      BY <1>2, <1>4, <3>1, <3>3
    <3>. QED BY <3>2, <3>3
  <2>. QED BY <2>1, <2>2, <2>3, <2>4, <2>5, <2>6 DEF Working
<1>. QED BY <1>3, <1>4, <1>5, <1>6, <1>7, <1>8

\* What a person does to the files keeps the invariants.
LEMMA EditsKeep ==
    ASSUME StagedBounds, StagedInvariant, UNCHANGED <<kind, manifest, sPc, copy, at, met, raced, cut>>,
           \A p \in Staged!Pages, k \in Staged!Stages : disk'[p][k] \in {disk[p][k], {}, {Staged!Edited(k)}}
    PROVE  CandidateInv' /\ BuiltInv' /\ EvidenceInv' /\ DerivedInv'
<1>0. StagedTyped /\ CandidateInv /\ BuiltInv /\ EvidenceInv /\ DerivedInv
  BY DEF StagedInvariant
<1>1. CandidateInv'
  BY <1>0 DEF CandidateInv, HonestCandidate
<1>2. BuiltInv'
  <2>1. \A c, p : Built(c, p)' <=> Built(c, p)
    BY DEF Built
  <2>2. \A k \in Staged!Stages : \A x \in {Staged!Edited(k)} : x \cap Commands = {}
    BY MarksArePlain
  <2>3. ASSUME NEW p \in Staged!Pages, NEW k \in Staged!Stages
        PROVE  (Plain(disk[p][k]) => Plain(disk'[p][k])) /\ (Known(disk[p][k], p) => Known(disk'[p][k], p))
    <3>1. \A x \in disk'[p][k] : x \in disk[p][k] \/ x = Staged!Edited(k)
      OBVIOUS
    <3>2. Staged!Edited(k) \cap Commands = {}
      BY <2>2
    <3>. QED BY <3>1, <3>2 DEF Plain, Known
  <2>4. \A p : \A F : Known(F, p) => \A x \in F : \A c \in x \cap Commands : Built(c, p)'
    BY <2>1 DEF Known
  <2>5. "primitive" \in Staged!Stages /\ "semantic" \in Staged!Stages /\ "dxf" \in Staged!Stages /\ "evidence" \in Staged!Stages
    BY StageNames
  <2>6. \A p \in Staged!Pages : Plain(disk'[p]["primitive"]) /\ Plain(disk'[p]["semantic"])
    BY <1>0, <2>3, <2>5 DEF BuiltInv
  <2>7. ASSUME NEW p \in Staged!Pages, NEW k \in {"dxf", "evidence"}
        PROVE  /\ Known(disk'[p][k], p)
               /\ \A m \in manifest : Known(m.page[p][k], p)
               /\ \A c \in Commands : Known(copy[c].page[p][k], p)
    <3>1. /\ Known(disk[p][k], p)
          /\ \A m \in manifest : Known(m.page[p][k], p)
          /\ \A c \in Commands : Known(copy[c].page[p][k], p)
      BY <1>0 DEF BuiltInv
    <3>2. k \in Staged!Stages
      BY <2>5
    <3>. QED BY <2>3, <3>1, <3>2
  <2>8. ASSUME NEW p \in Staged!Pages, NEW k \in {"dxf", "evidence"}
        PROVE  /\ \A x \in disk'[p][k] : \A d \in x \cap Commands : Built(d, p)'
               /\ \A m \in manifest' : \A x \in m.page[p][k] : \A d \in x \cap Commands : Built(d, p)'
               /\ \A c \in Commands : \A x \in copy'[c].page[p][k] : \A d \in x \cap Commands : Built(d, p)'
    BY <2>4, <2>7
  <2>. QED BY <2>6, <2>8 DEF BuiltInv, Plain, Known
<1>3. \A p \in Staged!Pages : \A r : (Binds(r, disk[p]) => Binds(r, disk'[p]))
                              /\ (FromPrimitive(r, disk[p]) => FromPrimitive(r, disk'[p]))
                              /\ (FromBoth(r, disk[p]) => FromBoth(r, disk'[p]))
                              /\ (SameSource(disk[p]) => SameSource(disk'[p]))
                              /\ \A s : Working(s, r, disk[p]) => Working(s, r, disk'[p])
  BY EditedRow
<1>4. EvidenceInv'
  <2>. SUFFICES ASSUME kind = "pdf", NEW p \in Staged!Pages \ raced
                PROVE  /\ \A m \in manifest : Binds(m.page[p], disk'[p])
                       /\ \A c \in Commands : Binds(copy[c].page[p], disk'[p])
                       /\ BuildsAlone(p)' /\ BuiltTogether(p)'
    BY DEF EvidenceInv, Binds, Apart
  <2>1. /\ \A m \in manifest : Binds(m.page[p], disk[p])
        /\ \A c \in Commands : Binds(copy[c].page[p], disk[p])
        /\ BuildsAlone(p) /\ BuiltTogether(p)
    BY <1>0 DEF EvidenceInv
  <2>2. BuildsAlone(p)'
    BY <2>1 DEF BuildsAlone
  <2>3. "dxf" \in Staged!Stages /\ "evidence" \in Staged!Stages /\ {Staged!Edited("dxf")} # {Staged!Partial} /\ {} # {Staged!Partial}
    BY StageNames, MarksArePlain
  <2>4. disk'[p]["dxf"] \in {disk[p]["dxf"], {}, {Staged!Edited("dxf")}} /\ disk'[p]["evidence"] \in {disk[p]["evidence"], {}, {Staged!Edited("evidence")}}
    BY <2>3
  <2>5. Apart(disk'[p]) => Apart(disk[p])
    BY <2>4 DEF Apart
  <2>6. BuiltTogether(p)'
    BY <2>1, <2>3, <2>4, <2>5 DEF BuiltTogether, Apart
  <2>. QED BY <1>3, <2>1, <2>2, <2>6
<1>5. DerivedInv'
  <2>. SUFFICES ASSUME ~met
                PROVE  /\ Staged!AtMostOne(Staged!Alive)' /\ Manifested'
                       /\ kind = "pdf" /\ ~cut => (\A m \in manifest : Derived(m)') /\ \A c \in Staged!Alive : AtWork(c)'
    BY DEF DerivedInv, Staged!Alive
  <2>1. /\ Staged!AtMostOne(Staged!Alive) /\ Manifested
        /\ kind = "pdf" /\ ~cut => (\A m \in manifest : Derived(m)) /\ \A c \in Staged!Alive : AtWork(c)
    BY <1>0 DEF DerivedInv
  <2>2. Staged!AtMostOne(Staged!Alive)' /\ Manifested'
    BY <2>1 DEF Staged!AtMostOne, Manifested, Staged!Alive
  <2>3. ASSUME NEW m, Derived(m) PROVE Derived(m)'
    <3>1. (Rerendering' <=> Rerendering) /\ \A p : Remaking(p)' <=> Remaking(p)
      BY DEF Rerendering, Remaking
    <3>2. \A p \in Staged!Pages :
            /\ SameSource(m.page[p]) /\ m.page[p]["semantic"] # {Staged!Partial}
            /\ Rerendering \/ FromPrimitive(m.page[p], disk'[p])
            /\ Rerendering \/ Remaking(p) \/ FromBoth(m.page[p], disk'[p])
      BY <1>3, <2>3 DEF Derived
    <3>. QED BY <3>1, <3>2 DEF Derived, FromPrimitive, FromBoth, Fits, MadeOf, SameSource
  <2>4. ASSUME NEW c \in Commands, AtWork(c) PROVE AtWork(c)'
    <3>1. at[c] \in Staged!Pages
      BY <1>0 DEF StagedTyped, ControlTyped
    <3>2. sPc[c] = "save new" => \A p \in Staged!Pages, k \in Staged!Stages : copy[c].page[p][k] = {}
      BY <2>4 DEF AtWork
    <3>3. sPc[c] = "record render" => \A p \in Staged!Pages : SameSource(disk'[p])
      BY <1>3, <2>4 DEF AtWork
    <3>4. Working(sPc[c], copy[c].page[at[c]], disk'[at[c]])
      BY <1>3, <2>4, <3>1 DEF AtWork
    <3>. QED BY <3>2, <3>3, <3>4 DEF AtWork, Working, SameSource, Fits, Near, MadeOf
  <2>. QED BY <2>1, <2>2, <2>3, <2>4 DEF Staged!Alive
<1>. QED BY <1>1, <1>2, <1>4, <1>5

\* What an edit leaves of a file.
LEMMA EditsChange ==
    ASSUME StagedTyped, (\E p \in Staged!Pages, k \in Staged!Stages : Staged!EditFile(p, k)) \/ Staged!EditListing \/ Staged!ReplaceSource
    PROVE  \A p \in Staged!Pages, k \in Staged!Stages : disk'[p][k] \in {disk[p][k], {}, {Staged!Edited(k)}}
<1>0. disk \in [Staged!Pages -> [Staged!Stages -> PageFiles]]
  BY DEF StagedTyped, DataTyped
<1>1. CASE \E p \in Staged!Pages, k \in Staged!Stages : Staged!EditFile(p, k)
  <2>1. PICK p \in Staged!Pages, k \in Staged!Stages : Staged!EditFile(p, k)
    BY <1>1
  <2>2. PICK new \in {{}, {Staged!Edited(k)}} : disk' = [disk EXCEPT ![p][k] = new]
    BY <2>1 DEF Staged!EditFile
  <2>3. \A q \in Staged!Pages, j \in Staged!Stages : disk'[q][j] = IF q = p /\ j = k THEN new ELSE disk[q][j]
    BY <1>0, <2>2
  <2>. QED BY <2>2, <2>3
<1>2. CASE Staged!EditListing \/ Staged!ReplaceSource
  BY <1>2 DEF Staged!EditListing, Staged!ReplaceSource
<1>. QED BY <1>1, <1>2

LEMMA StagedStays ==
    ASSUME StagedBounds, StagedInvariant, [Staged!Next]_(Staged!vars)
    PROVE  StagedInvariant'
<1>0. StagedTyped /\ CandidateInv /\ BuiltInv /\ EvidenceInv /\ DerivedInv /\ CalmInv
  BY DEF StagedInvariant
<1>1. ASSUME NEW c \in Commands, Staged!Step(c) PROVE StagedInvariant'
  <2>1. StagedTyped'
    BY <1>0, <1>1, DataStays, ControlStays DEF StagedTyped
  <2>2. CandidateInv'
    BY <1>0, <1>1, CandidateStays
  <2>3. BuiltInv'
    BY <1>0, <1>1, BuiltInvStays
  <2>4. EvidenceInv'
    BY <1>0, <1>1, EvidenceStays
  <2>5. DerivedInv'
    BY <1>0, <1>1, DerivedStays
  <2>6. CalmInv'
    BY <1>0, <1>1, CalmStays
  <2>. QED BY <2>1, <2>2, <2>3, <2>4, <2>5, <2>6 DEF StagedInvariant
<1>2. ASSUME (\E p \in Staged!Pages, k \in Staged!Stages : Staged!EditFile(p, k)) \/ Staged!EditListing \/ Staged!ReplaceSource
      PROVE  StagedInvariant'
  <2>1. StagedTyped' /\ UNCHANGED <<kind, manifest, sPc, copy, at, kills, met, raced, cut>> /\ calm' = calm \ Staged!Alive
    BY <1>0, <1>2, StagedEditStays
  <2>2. \A p \in Staged!Pages, k \in Staged!Stages : disk'[p][k] \in {disk[p][k], {}, {Staged!Edited(k)}}
    BY <1>0, <1>2, EditsChange
  <2>3. CandidateInv' /\ BuiltInv' /\ EvidenceInv' /\ DerivedInv'
    BY <2>1, <2>2, EditsKeep
  <2>4. CalmInv'
    BY <2>1 DEF CalmInv, Staged!Alive
  <2>. QED BY <2>1, <2>3, <2>4 DEF StagedInvariant
<1>3. ASSUME UNCHANGED Staged!vars PROVE StagedInvariant'
  <2>0. UNCHANGED <<kind, source, disk, listing, manifest, sPc, copy, at, calm, met, raced, cut>>
    BY <1>3 DEF Staged!vars
  <2>1. StagedTyped'
    BY <1>0, <2>0 DEF StagedTyped, DataTyped, ControlTyped
  <2>2. \A p \in Staged!Pages, k \in Staged!Stages : disk'[p][k] \in {disk[p][k], {}, {Staged!Edited(k)}}
    BY <2>0
  <2>3. CandidateInv' /\ BuiltInv' /\ EvidenceInv' /\ DerivedInv'
    BY <2>0, <2>2, EditsKeep
  <2>4. \A c \in Commands : CalmCommand(c) => CalmCommand(c)'
    <3>. SUFFICES ASSUME NEW c \in Commands, CalmCommand(c) PROVE CalmCommand(c)'
      OBVIOUS
    <3>0. Staged!Needed' = Staged!Needed
      BY <2>0 DEF Staged!Needed
    <3>1. /\ sPc'[c] # "save new" => manifest' = {copy'[c]}
          /\ kind' = "pdf" /\ sPc'[c] = "record render" => listing' # {}
          /\ kind' = "pdf" /\ sPc'[c] = "validate" => copy'[c].render # {}
      BY <2>0 DEF CalmCommand
    <3>2. kind' = "pdf" /\ sPc'[c] \in AfterRender => \A p \in Staged!Pages : Has(copy'[c].page[p], disk'[p], "rendered")
      BY <2>0 DEF CalmCommand
    <3>3. \A p \in Staged!Pages : p < at'[c] => \A k \in Staged!Needed' : Has(copy'[c].page[p], disk'[p], k)
      BY <2>0, <3>0 DEF CalmCommand
    <3>4. Ready(sPc'[c], copy'[c].page[at'[c]], disk'[at'[c]])
      BY <2>0 DEF CalmCommand
    <3>. QED BY <3>1, <3>2, <3>3, <3>4 DEF CalmCommand, Has, Ready, Staged!Complete
  <2>5. Staged!Alive' = Staged!Alive
    BY <2>0 DEF Staged!Alive
  <2>6. CalmInv'
    BY <1>0, <2>0, <2>4, <2>5 DEF CalmInv, Staged!Alive
  <2>. QED BY <2>1, <2>3, <2>6 DEF StagedInvariant
<1>. QED BY <1>1, <1>2, <1>3 DEF Staged!Next

\* What the invariants say of a run.
LEMMA StagedSays ==
    ASSUME StagedBounds, StagedInvariant
    PROVE  Staged!TypeOK /\ Staged!CompleteIsDerived /\ Staged!EvidenceIsAboutTheDxf /\ Staged!CandidatesAreNotBuilt
<1>0. StagedTyped /\ CandidateInv /\ BuiltInv /\ EvidenceInv /\ DerivedInv
  BY DEF StagedInvariant
<1>1. "rendered" \in Staged!Stages /\ "primitive" \in Staged!Stages /\ "semantic" \in Staged!Stages /\ "dxf" \in Staged!Stages /\ "evidence" \in Staged!Stages
  BY StageNames
<1>2. Staged!TypeOK
  <2>1. \A F \in PageFiles : Staged!AtMostOne(F)
    BY FileFacts DEF Staged!AtMostOne
  <2>2. \A p \in Staged!Pages, k \in Staged!Stages : Staged!AtMostOne(disk[p][k])
    BY <1>0, <2>1 DEF StagedTyped, DataTyped
  <2>3. Staged!AtMostOne(listing) /\ Staged!AtMostOne(manifest)
    BY <1>0, <2>1 DEF StagedTyped, DataTyped, Staged!AtMostOne
  <2>4. \A c \in Commands : copy[c].of \in Staged!Sources \cup {"none"}
    BY <1>0, ManifestFacts DEF StagedTyped, ControlTyped
  <2>. QED BY <1>0, <2>2, <2>3, <2>4 DEF Staged!TypeOK, StagedTyped, DataTyped, ControlTyped
<1>3. Staged!CompleteIsDerived
  <2>. SUFFICES ASSUME kind = "pdf", Staged!Alive = {}, ~met, ~cut, NEW m \in manifest, NEW p \in Staged!Pages,
                       \A k \in Staged!Stages : Staged!IsComplete(m, p, k)
                PROVE  /\ Staged!ByHand(p, "rendered") \/ Staged!ByHand(p, "primitive") \/ disk[p]["rendered"] = disk[p]["primitive"]
                       /\ Staged!ByHand(p, "semantic") \/ disk[p]["semantic"] = disk[p]["primitive"]
                       /\ \/ Staged!ByHand(p, "dxf")
                          \/ \A d \in disk[p]["dxf"], s \in disk[p]["semantic"], i \in disk[p]["primitive"] :
                               d \ Commands = s \cup i
    BY DEF Staged!CompleteIsDerived
  <2>1. \A c \in Commands : sPc[c] \in Staged!Resting
    BY DEF Staged!Alive
  <2>2. ~Rerendering /\ ~Remaking(p)
    BY <2>1 DEF Rerendering, Remaking, Staged!Resting
  <2>3. SameSource(m.page[p]) /\ FromPrimitive(m.page[p], disk[p]) /\ FromBoth(m.page[p], disk[p])
    BY <1>0, <2>2 DEF DerivedInv, Derived
  <2>4. \A k \in Staged!Stages : m.page[p][k] = disk[p][k] /\ disk[p][k] # {}
    BY DEF Staged!IsComplete, Staged!Complete
  <2>5. Fits(m.page[p], disk[p], "primitive") /\ Fits(m.page[p], disk[p], "semantic")
    BY <1>1, <2>4 DEF Fits
  <2>6. Staged!ByHand(p, "rendered") \/ Staged!ByHand(p, "primitive") \/ disk[p]["rendered"] = disk[p]["primitive"]
    BY <1>1, <2>3, <2>4 DEF SameSource, Staged!ByHand
  <2>7. Staged!ByHand(p, "semantic") \/ disk[p]["semantic"] = disk[p]["primitive"]
    BY <1>1, <2>3, <2>4, <2>5 DEF FromPrimitive, Staged!ByHand
  <2>8. Staged!ByHand(p, "dxf") \/ MadeOf(disk[p]["dxf"], disk[p]["semantic"], disk[p]["primitive"])
    BY <1>1, <2>3, <2>4, <2>5 DEF FromBoth, Staged!ByHand
  <2>. QED BY <2>6, <2>7, <2>8 DEF MadeOf
<1>4. Staged!EvidenceIsAboutTheDxf
  <2>. SUFFICES ASSUME kind = "pdf", NEW m \in manifest, NEW p \in Staged!Pages \ raced,
                       Staged!IsComplete(m, p, "dxf"), Staged!IsComplete(m, p, "evidence")
                PROVE  Staged!ByHand(p, "dxf") \/ Staged!ByHand(p, "evidence") \/ disk[p]["dxf"] = disk[p]["evidence"]
    BY DEF Staged!EvidenceIsAboutTheDxf
  <2>1. Binds(m.page[p], disk[p])
    BY <1>0 DEF EvidenceInv
  <2>. QED BY <2>1 DEF Binds, Apart, Staged!IsComplete, Staged!Complete, Staged!ByHand
<1>5. Staged!CandidatesAreNotBuilt
  <2>1. \A m \in manifest : HonestCandidate(m)
    BY <1>0 DEF CandidateInv
  <2>. QED BY <2>1 DEF HonestCandidate, Staged!CandidatesAreNotBuilt
<1>. QED BY <1>2, <1>3, <1>4, <1>5

\* Whatever commands, edits and kills meet in a run's directory: what is complete
\* in it belongs together, and a command that met none of them and answers leaves
\* every stage of every page complete.
THEOREM StagesAreRepaired ==
    ASSUME StagedBounds
    PROVE  Staged!Spec => StagesAreDerived
<1>1. Staged!Init => StagedInvariant
  BY StagedStarts
<1>2. StagedInvariant /\ [Staged!Next]_(Staged!vars) => StagedInvariant'
  BY StagedStays
<1>3. StagedInvariant =>
        Staged!TypeOK /\ Staged!CompleteIsDerived /\ Staged!EvidenceIsAboutTheDxf /\ Staged!CandidatesAreNotBuilt
  BY StagedSays
<1>4. StagedInvariant /\ [Staged!Next]_(Staged!vars) => Staged!AnswersWhenComplete \/ UNCHANGED Staged!vars
  <2>. SUFFICES ASSUME StagedInvariant, Staged!Next PROVE Staged!AnswersWhenComplete
    OBVIOUS
  <2>0. StagedTyped /\ CandidateInv /\ CalmInv
    BY DEF StagedInvariant
  <2>1. ASSUME NEW c \in Commands, Staged!Step(c) PROVE Staged!AnswersWhenComplete
    BY <2>0, <2>1, StepAnswersComplete
  <2>2. ASSUME (\E p \in Staged!Pages, k \in Staged!Stages : Staged!EditFile(p, k)) \/ Staged!EditListing \/ Staged!ReplaceSource
        PROVE  Staged!AnswersWhenComplete
    <3>1. sPc' = sPc
      BY <2>0, <2>2, StagedEditStays
    <3>. QED BY <3>1 DEF Staged!AnswersWhenComplete
  <2>. QED BY <2>1, <2>2 DEF Staged!Next
<1>. QED BY <1>1, <1>2, <1>3, <1>4, PTL DEF Staged!Spec, StagesAreDerived, Staged!StagesAreDerived
=============================================================================
