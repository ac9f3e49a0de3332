----------------------------- MODULE VisionHandoff -----------------------------
(***************************************************************************)
(* A worker session opened for a vision handoff (cad_agent/                *)
(* vision_handoff.py, and the start and the turns of agent_lib/            *)
(* codex_worker.py): the handoff is bound to the output schema's file,     *)
(* the provider's thread to the handoff, and before every turn both are    *)
(* looked at again, with the instruction file that the provider says it    *)
(* loaded.  The supervisor accepts a turn's result under a binding.  Other *)
(* programs write the two files, handoffs expire, and the server records   *)
(* the used ones, all between any two reads.                               *)
(*                                                                         *)
(* A thread of Sessions stands for the session that starts it.  A handoff  *)
(* has one run, one authority and one instruction source.  `clock' and     *)
(* `known' are what a caller goes by: the                                  *)
(* `now' and the consumed ids of an authority context, both of a moment    *)
(* that may have passed.  A session keeps the context it was opened with.  *)
(* Abstracted: the shape checks of the payload; paths, the sandbox and the *)
(* model, which are those of the authority.                                *)
(***************************************************************************)
EXTENDS Naturals, FiniteSets

CONSTANTS Handoffs, Threads, MaxEvents,
          Sessions,   \* the threads that a session may start; the provider forks the others
          Renewals    \* pairs of handoffs of one policy whose approvals differ

Contents == {"schema", "other schema"}
Authorized == 0    \* the content of the instruction file whose hash the authority lists

VARIABLES
    content, stamp,      \* the schema's file: its bytes, its identity (inode, size, mtime)
    instructions,        \* the content of the instruction file
    expired, consumed,   \* handoffs past their time, handoffs the server has recorded as used
    clock, known,        \* what a caller knows of them
    objects,             \* ValidatedVisionHandoff
    bindings,            \* BoundWorkerThread
    pc, object, context, \* each session: where it is, its handoff and its authority context
    loaded, hashed,      \* the instructions the provider loaded, and what the child hashed
    turns,               \* the last turn that a session sent
    accepted,            \* the last result that the supervisor accepted
    events,
    raced,               \* history: threads whose instructions changed between load and hash
    overtaken,           \* history: sessions whose handoff expired between attestation and turn
    rebound              \* history: threads a server bound or forked a second time

files == <<content, stamp, instructions>>
time == <<expired, consumed>>
caller == <<clock, known>>
session == <<pc, object, context, loaded, hashed>>
history == <<events, raced, overtaken, rebound>>
vars == <<files, time, caller, objects, bindings, session, turns, accepted,
          history>>

Objects == [of : Handoffs, content : Contents, stamp : 0 .. MaxEvents]
Bindings == [of : Handoffs, content : Contents, thread : Threads]
Steps == {"none", "launch", "hash", "expect", "observe", "open", "attest", "confirm", "send",
          "closed"}

Init ==
    /\ content = "schema" /\ stamp = 0 /\ instructions = Authorized
    /\ expired = {} /\ consumed = {} /\ clock = {} /\ known = {}
    /\ objects = {} /\ bindings = {}
    /\ pc = [t \in Threads |-> "none"]
    /\ object = [t \in Threads |-> {}]
    /\ context = [t \in Threads |-> {}]
    /\ loaded = [t \in Threads |-> Authorized]
    /\ hashed = [t \in Threads |-> Authorized]
    /\ turns = {} /\ accepted = {}
    /\ events = 0 /\ raced = {} /\ overtaken = {} /\ rebound = {}

Goto(t, step) == pc' = [pc EXCEPT ![t] = step]

\* A session goes on if what it checks holds, and is closed if not.
Check(t, holds, step) == Goto(t, IF holds THEN step ELSE "closed")

-----------------------------------------------------------------------------
(* Handoffs *)

\* _validate_payload and _validate_authority_context.
Fresh(h, late, used) == h \notin late /\ h \notin used

Snapshot(h) == [of |-> h, content |-> content, stamp |-> stamp]

\* SchemaSnapshot.assert_unchanged.
Unchanged(o) == o.content = content /\ o.stamp = stamp

\* _worker_handoff_payload.
Live(o, late, used) == Unchanged(o) /\ Fresh(o.of, late, used)

\* bind_vision_handoff: the server writes the schema's hash into the payload.
Bind(h) ==
    /\ Fresh(h, clock, known)
    /\ objects' = objects \cup {Snapshot(h)}
    /\ UNCHANGED <<files, time, caller, bindings, session, turns, accepted,
                   history>>

\* validate_vision_handoff: the payload, already bound, names the schema it finds.
Validate(o) ==
    /\ Fresh(o.of, clock, known)
    /\ o.content = content
    /\ objects' = objects \cup {Snapshot(o.of)}
    /\ UNCHANGED <<files, time, caller, bindings, session, turns, accepted,
                   history>>

-----------------------------------------------------------------------------
(* Threads bound to handoffs *)

Binding(o, t) == [of |-> o.of, content |-> o.content, thread |-> t]

\* Threads that the provider has reported to the server.
Observed == {t \in Threads : t \notin Sessions \/ pc[t] \notin {"none", "launch", "hash"}}

\* A thread that a session has opened, and is now bound by other means.
Rebind(t) == rebound' = IF pc[t] # "none" THEN rebound \cup {t} ELSE rebound

\* bind_worker_thread: the server has observed the thread (a forked one is bound
\* by the fork).
BindThread(o, t) ==
    /\ t \in Observed \cap Sessions
    /\ Live(o, clock, known)
    /\ bindings' = bindings \cup {Binding(o, t)}
    /\ Rebind(t)
    /\ UNCHANGED <<files, time, caller, objects, session, turns, accepted,
                   events, raced, overtaken>>

\* Mutant: the binding is not compared with the one that the handoff gives.
ResumesAny(b, o, t) == t = b.thread /\ Live(o, clock, known)

\* resume_worker_thread: a binding is what its handoff and its thread give now.
Resumes(b, o, t) == Binding(o, t) = b /\ Live(o, clock, known) /\ Fresh(b.of, clock, {})

\* fork_worker_thread: another thread, handoff and approval, the same policy.
Fork(b, source, o, t) ==
    /\ Resumes(b, source, b.thread)
    /\ t \in Observed \ {b.thread}
    /\ Live(o, clock, known)
    /\ o.of # b.of /\ <<b.of, o.of>> \in Renewals
    /\ bindings' = bindings \cup {Binding(o, t)}
    /\ Rebind(t)
    /\ UNCHANGED <<files, time, caller, objects, session, turns, accepted,
                   events, raced, overtaken>>

-----------------------------------------------------------------------------
(* A session *)

\* start_codex_worker up to the provider's thread/start.
Start(t, o) ==
    /\ t \in Sessions /\ pc[t] = "none"
    /\ Live(o, clock, known)
    /\ object' = [object EXCEPT ![t] = {o}]
    /\ context' = [context EXCEPT ![t] = known]
    /\ Goto(t, "launch")
    /\ UNCHANGED <<files, time, caller, objects, bindings, loaded, hashed, turns,
                   accepted, history>>

\* The provider starts a thread and loads the instructions.
StartThread(t) ==
    /\ pc[t] = "launch"
    /\ loaded' = [loaded EXCEPT ![t] = instructions]
    /\ Goto(t, "hash")
    /\ UNCHANGED <<files, time, caller, objects, bindings, object, context,
                   hashed, turns, accepted, history>>

\* The child hashes the file that the provider names, and keeps the observation.
HashInstructions(t) ==
    /\ pc[t] = "hash"
    /\ hashed' = [hashed EXCEPT ![t] = instructions]
    /\ Goto(t, "expect")
    /\ UNCHANGED <<files, time, caller, objects, bindings, object, context, loaded,
                   turns, accepted, history>>

\* _expected_start_instruction_sources: the file has the authority's hash.
SourcesExpected == instructions = Authorized

\* _validate_provider_start_observation: so has the observation, still.
ObservationHolds(t) == hashed[t] = Authorized /\ instructions = hashed[t]

\* Mutant: the provider's observation is believed.
ObservationBelieved(t) == TRUE

LiveFor(t, late) == \A o \in object[t] : Live(o, late, context[t])

\* bind_provider_started_worker_thread, its first reads.
Expect(t) ==
    /\ pc[t] = "expect"
    /\ Check(t, LiveFor(t, clock) /\ SourcesExpected, "observe")
    /\ UNCHANGED <<files, time, caller, objects, bindings, object, context,
                   loaded, hashed, turns, accepted, history>>

\* ... and the reads after them.
Observe(t) ==
    /\ pc[t] = "observe"
    /\ LET holds == ObservationHolds(t) /\ LiveFor(t, clock)
       IN  /\ Check(t, holds, "open")
           /\ bindings' = IF holds THEN bindings \cup {Binding(o, t) : o \in object[t]}
                          ELSE bindings
    /\ UNCHANGED <<files, time, caller, objects, object, context, loaded, hashed,
                   turns, accepted, history>>

\* CodexWorkerSession.turn: the binding is validated as of the caller's `now'.
Turn(t) ==
    /\ pc[t] = "open"
    /\ Check(t, LiveFor(t, clock), "attest")
    /\ UNCHANGED <<files, time, caller, objects, bindings, object, context,
                   loaded, hashed, turns, accepted, history>>

\* validate_provider_start_observation, as of the real time: its first reads.
Attest(t) ==
    /\ pc[t] = "attest"
    /\ Check(t, LiveFor(t, expired) /\ SourcesExpected, "confirm")
    /\ UNCHANGED <<files, time, caller, objects, bindings, object, context,
                   loaded, hashed, turns, accepted, history>>

Confirm(t) ==
    /\ pc[t] = "confirm"
    /\ Check(t, ObservationHolds(t), "send")
    /\ UNCHANGED <<files, time, caller, objects, bindings, object, context,
                   loaded, hashed, turns, accepted, history>>

\* The provider completes the turn, or fails and the session is closed.
Send(t) ==
    /\ pc[t] = "send"
    /\ pc' \in {[pc EXCEPT ![t] = step] : step \in {"open", "closed"}}
    /\ turns' = {r \in turns : r.thread # t} \cup
                  {[thread |-> t, of |-> o.of, content |-> o.content, loaded |-> loaded[t],
                    late |-> o.of \in expired] : o \in object[t]}
    /\ UNCHANGED <<files, time, caller, objects, bindings, object, context,
                   loaded, hashed, accepted, history>>

\* _request_binding_facts of the supervisor: a result is accepted under a
\* binding of its thread and the request's handoff.
Accept(r, b, o) ==
    /\ Resumes(b, o, r.thread)
    /\ accepted' = {[turn |-> r, binding |-> b, content |-> content]}
    /\ UNCHANGED <<files, time, caller, objects, bindings, session, turns,
                   history>>

-----------------------------------------------------------------------------
(* Everybody else *)

Happens == events < MaxEvents /\ events' = events + 1

\* The caller asks for the time and for an authority context.
Look ==
    /\ clock' = expired /\ known' = consumed
    /\ UNCHANGED <<files, time, objects, bindings, session, turns, accepted,
                   history>>

WriteSchema ==
    /\ Happens
    /\ content' \in Contents
    /\ stamp' = stamp + 1
    /\ UNCHANGED <<instructions, time, caller, objects, bindings, session, turns,
                   accepted, raced, overtaken, rebound>>

WriteInstructions ==
    /\ Happens
    /\ instructions' = 1 - instructions
    /\ raced' = raced \cup {t \in Threads : pc[t] = "hash"}
    /\ UNCHANGED <<content, stamp, time, caller, objects, bindings, session,
                   turns, accepted, overtaken, rebound>>

Expire(h) ==
    /\ Happens
    /\ h \notin expired
    /\ expired' = expired \cup {h}
    /\ overtaken' = overtaken \cup {t \in Threads : pc[t] \in {"confirm", "send"}}
    /\ UNCHANGED <<files, consumed, caller, objects, bindings, session, turns,
                   accepted, raced, rebound>>

\* The server records that a handoff was used.
Consume(h) ==
    /\ Happens
    /\ h \notin consumed
    /\ consumed' = consumed \cup {h}
    /\ UNCHANGED <<files, expired, caller, objects, bindings, session, turns,
                   accepted, raced, overtaken, rebound>>

Next ==
    \/ \E h \in Handoffs : Bind(h) \/ Expire(h) \/ Consume(h)
    \/ \E o \in objects : Validate(o)
    \/ \E o \in objects, t \in Threads : Start(t, o) \/ BindThread(o, t)
    \/ \E b \in bindings, source, o \in objects, t \in Threads : Fork(b, source, o, t)
    \/ \E t \in Threads :
         \/ StartThread(t) \/ HashInstructions(t) \/ Expect(t) \/ Observe(t)
         \/ Turn(t) \/ Attest(t) \/ Confirm(t) \/ Send(t)
    \/ \E r \in turns, b \in bindings, o \in objects : Accept(r, b, o)
    \/ Look \/ WriteSchema \/ WriteInstructions

Spec == Init /\ [][Next]_vars

-----------------------------------------------------------------------------
TypeOK ==
    /\ content \in Contents /\ stamp \in 0 .. MaxEvents
    /\ expired \cup consumed \subseteq Handoffs
    /\ clock \subseteq expired /\ known \subseteq consumed
    /\ objects \subseteq Objects /\ bindings \subseteq Bindings
    /\ pc \in [Threads -> Steps]

\* A turn is sent to a provider that loaded the instructions of the authority,
\* unless they were another's only while it loaded them, before the child
\* hashed the file; and not on an expired handoff, unless it expired between
\* the attestation and the request, however old the caller's `now' is.
TurnsAreAuthorized ==
    \A r \in turns :
        /\ r.loaded # Authorized => r.thread \in raced
        /\ r.late => r.thread \in overtaken

\* A result is accepted under the handoff its session was opened for, while the
\* output schema is what the provider was given; unless a server bound its
\* thread to another handoff as well, which a result does not tell apart.
AcceptedIsBound ==
    \A a \in accepted :
        /\ a.turn.thread \notin rebound =>
             a.binding.of = a.turn.of /\ a.binding.content = a.turn.content
        /\ a.content = a.binding.content

\* What a worker was told and what is accepted of it rest on its handoff.
HandoffsAreBound == TypeOK /\ TurnsAreAuthorized /\ AcceptedIsBound
=============================================================================
