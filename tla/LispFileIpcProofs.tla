-------------------------- MODULE LispFileIpcProofs --------------------------
(***************************************************************************)
(* Proofs about LispFileIpc, for every number of clients, calls and        *)
(* faults, and every order in which typed commands reach the dispatcher;   *)
(* then about the handoff of a worker's session, and about SetupGate and   *)
(* DimensionPilot, for any records and events.                             *)
(***************************************************************************)
EXTENDS MCLispFileIpc, FiniteSetTheorems, TLAPS

Waits(i) == outcome[i] = "waiting"

\* A client before the end of its call.
Working(c) == client[c].pc \in {"part", "rename", "trigger", "poll"}

Busy == ~Lisp("idle")

\* Ids are taken by one client each, and waited for until the call has ended; of
\* an id that was not taken there is no trace.
ClientInv ==
    /\ \A c \in Clients :
         /\ At(c, "idle") <=> client[c].id = 0
         /\ ~At(c, "idle") => outcome[client[c].id] # "unsent"
         /\ ~At(c, "idle") => (Working(c) <=> Waits(client[c].id))
         /\ client[c].pc \in {"trigger", "poll"} => client[c].id \in requests
    /\ \A c, d \in Clients : client[c].id = client[d].id /\ client[c].id # 0 => c = d
    /\ \A i \in Ids : Waits(i) => \E c \in Clients : client[c].id = i
    /\ \A i \in Ids : outcome[i] = "unsent" =>
         /\ i \notin requests \cup requestParts \cup resultParts
         /\ result[i] = "none" /\ done[i] = 0 /\ lisp.id # i /\ owner # i

\* The dispatcher and the close it defers.
LispInv ==
    /\ Lisp("idle") <=> lisp.id = 0
    /\ Busy => reactor = 0
    /\ Lisp("report") => lisp.envelope = "failed"
    /\ lisp.pc \in {"write", "rename"} => lisp.envelope \in {"ok", "failed"}
    /\ Lisp("execute") => owner = 0 /\ SlotFree(lisp.id)
    /\ reactor # 0 => op[reactor] = "close" /\ reactor = owner

\* Answers are about what happened, and a close that happened keeps its owner
\* until its result is there.
AnswerInv ==
    /\ \A i \in Ids : result[i] = "ok" => done[i] > 0
    /\ lisp.pc \in {"write", "rename"} /\ lisp.envelope = "ok" => done[lisp.id] > 0
    /\ \A i \in Ids : op[i] = "close" /\ Waits(i) /\ done[i] > 0 =>
         /\ owner = i \/ result[i] # "none"
         /\ result[i] # "failed"
         /\ ~(lisp.id = i /\ lisp.pc \in {"write", "rename"} /\ lisp.envelope = "failed")
         /\ reactor # i

\* Without a fault, what has happened while its caller waits is on its way to
\* the caller.
WaitInv ==
    faults = 0 =>
        /\ \A i \in resultParts : Lisp("rename") /\ lisp.id = i
        /\ Lisp("rename") /\ Waits(lisp.id) => lisp.id \in resultParts
        /\ \A i \in Ids : Waits(i) /\ done[i] > 0 =>
             /\ done[i] = 1
             /\ \/ lisp.id = i /\ lisp.pc \in {"report", "write", "rename"}
                \/ result[i] # "none"
                \/ owner = i

\* Requests whose command was typed and whose caller waits, and those of them
\* the dispatcher has taken up.
Polling == {i \in Ids : \E c \in Clients : client[c].id = i /\ At(c, "poll")}
Taken == {i \in Ids : done[i] > 0 \/ lisp.id = i \/ reactor = i \/ result[i] # "none"}

\* While no call has ended without an answer, a command is there only for a
\* request that was not taken up, and none is taken up twice.
OnceInv ==
    Undisturbed =>
        /\ commands <= Cardinality(Polling \ Taken)
        /\ \A i \in Ids : done[i] <= 1
        /\ \A i \in Ids : i = lisp.id \/ i = reactor => i \in Polling /\ result[i] = "none"
        /\ \A i \in Ids : i = reactor
               \/ (i = lisp.id /\ lisp.pc \in {"read", "check", "execute"}) =>
             done[i] = 0
        /\ \A c \in Clients : client[c].pc \in {"part", "rename", "trigger"} =>
             client[c].id \notin Taken

\* The files of a call are there until it deletes them, or could not.
FilesInv ==
    Undisturbed =>
        /\ \A i \in requests \cup requestParts : i \in kept \/ \E c \in Clients :
             client[c].id = i /\ client[c].pc \notin {"unlink part", "unlink result"}
        /\ \A i \in resultParts : i \in kept \/ \E c \in Clients :
             client[c].id = i /\ client[c].pc # "unlink result"
        /\ \A i \in Results : i \in kept \/ \E c \in Clients : client[c].id = i

\* A command was typed for a call that has come to its poll.
Triggered == {i \in Ids : /\ outcome[i] # "unsent"
                          /\ \A c \in Clients : client[c].id = i =>
                               client[c].pc \notin {"part", "rename", "trigger"}}

CommandInv == commands \in Nat /\ commands <= Cardinality(Triggered)

ChannelInv ==
    /\ TypeOK /\ ClientInv /\ LispInv /\ AnswerInv
    /\ WaitInv /\ OnceInv /\ FilesInv /\ CommandInv

-----------------------------------------------------------------------------
(* What the steps of a client do to the clients. *)

Steps == {"idle", "part", "rename", "trigger", "poll",
          "unlink request", "unlink part", "unlink result"}

\* Only client c moves, within its call.
Moves(c, step) ==
    /\ client'[c].pc = step /\ client'[c].id = client[c].id
    /\ \A d \in Clients \ {c} : client'[d] = client[d]

ClientType == [Clients -> [pc : Steps, id : 0..MaxCalls]]

LEMMA Moving ==
    ASSUME TypeOK, NEW c \in Clients, NEW step \in Steps,
           client' = [client EXCEPT ![c].pc = step]
    PROVE  Moves(c, step) /\ client' \in ClientType
<1>1. client \in ClientType
  BY DEF TypeOK, Steps, ClientType
<1>2. client'[c] = [client[c] EXCEPT !.pc = step]
  BY <1>1 DEF ClientType
<1>3. \A d \in Clients \ {c} : client'[d] = client[d]
  BY <1>1 DEF ClientType
<1>4. client'[c] \in [pc : Steps, id : 0..MaxCalls]
  BY <1>1, <1>2 DEF ClientType
<1>5. client' \in ClientType
  BY <1>1, <1>4 DEF ClientType
<1> QED
  BY <1>1, <1>2, <1>3, <1>5 DEF Moves, ClientType

LEMMA Leaving ==
    ASSUME TypeOK, NEW c \in Clients, client' = [client EXCEPT ![c] = Idle]
    PROVE  /\ client'[c].pc = "idle" /\ client'[c].id = 0
           /\ \A d \in Clients \ {c} : client'[d] = client[d]
           /\ client' \in ClientType
<1>1. client \in ClientType
  BY DEF TypeOK, Steps, ClientType
<1>2. Idle \in [pc : Steps, id : 0..MaxCalls]
  BY LispBounds DEF Idle, Steps
<1> QED
  BY <1>1, <1>2 DEF ClientType, Idle

-----------------------------------------------------------------------------
(* Counting requests. *)

LEMMA Fewer ==
    ASSUME NEW S \in SUBSET Ids, NEW T \in SUBSET Ids, S \subseteq T
    PROVE  /\ Cardinality(S) \in Nat /\ Cardinality(T) \in Nat
           /\ Cardinality(S) <= Cardinality(T)
<1>1. IsFiniteSet(Ids)
  BY FS_Interval, LispBounds DEF Ids
<1>2. IsFiniteSet(S) /\ IsFiniteSet(T)
  BY <1>1, FS_Subset
<1> QED
  BY <1>2, FS_CardinalityType, FS_Subset

LEMMA OneMore ==
    ASSUME NEW S \in SUBSET Ids, NEW i \in Ids \ S
    PROVE  Cardinality(S \cup {i}) = Cardinality(S) + 1
<1>1. IsFiniteSet(Ids)
  BY FS_Interval, LispBounds DEF Ids
<1>2. IsFiniteSet(S)
  BY <1>1, FS_Subset
<1> QED
  BY <1>2, FS_AddElement

LEMMA CallsAreBounded ==
    ASSUME NEW S \in SUBSET Ids
    PROVE  Cardinality(S) \in 0..MaxCalls
<1>1. Cardinality(Ids) = MaxCalls
  BY FS_Interval, LispBounds DEF Ids
<1> QED
  BY <1>1, Fewer, LispBounds

\* The requests the actors name are ids, or 0 for none.
LEMMA Naming ==
    ASSUME TypeOK
    PROVE  /\ 0 \notin Ids
           /\ \A c \in Clients : client[c].id \in Ids \cup {0}
           /\ lisp.id \in Ids \cup {0}
           /\ owner \in Ids \cup {0} /\ reactor \in Ids \cup {0} /\ reactor \in {0, owner}
<1>1. 0..MaxCalls = Ids \cup {0} /\ 0 \notin Ids
  BY LispBounds DEF Ids
<1>2. \A c \in Clients : client[c].id \in 0..MaxCalls
  BY DEF TypeOK
<1>3. lisp.id \in 0..MaxCalls
  BY DEF TypeOK
<1>4. owner \in 0..MaxCalls /\ reactor \in {0, owner}
  BY DEF TypeOK
<1>5. reactor \in 0..MaxCalls
  BY <1>4, LispBounds
<1> QED
  BY <1>1, <1>2, <1>3, <1>4, <1>5

-----------------------------------------------------------------------------
(* The steps of a client. *)

Typing == {"part", "rename", "trigger"}

\* Only client c moves, and only request i is touched: the one it works on, or
\* the one it begins.
Turn(c, i) ==
    /\ client[c].id = i \/ (client[c].id = 0 /\ outcome[i] = "unsent")
    /\ client'[c].id \in {i, 0}
    /\ \A d \in Clients \ {c} : client'[d] = client[d] /\ client[d].id # i
    /\ \A j \in Ids \ {i} :
         /\ op'[j] = op[j] /\ outcome'[j] = outcome[j] /\ result'[j] = result[j]
         /\ j \in requests' <=> j \in requests
         /\ j \in requestParts' <=> j \in requestParts
         /\ j \in resultParts' <=> j \in resultParts
    /\ op'[i] = op[i] \/ outcome[i] = "unsent"
    /\ outcome'[i] # "unsent"
    /\ outcome'[i] = outcome[i] \/ outcome[i] \in {"unsent", "waiting"}
    /\ kept \subseteq kept'
    /\ faults' = 0 => faults = 0
    /\ UNCHANGED <<lisp, owner, reactor, done>>

\* Where the step leaves the call, and what it leaves of its answer.
Lands(c, i) ==
    /\ client'[c].pc = "idle" <=> client'[c].id = 0
    /\ client'[c].pc \in Typing \cup {"poll"} <=> outcome'[i] = "waiting"
    /\ client'[c].pc \in {"trigger", "poll"} => i \in requests'
    /\ client'[c].pc \in Typing => client[c].pc \in Typing \/ outcome[i] = "unsent"
    /\ result'[i] \in {result[i], "none"}
    /\ resultParts' \subseteq resultParts
    /\ outcome'[i] = "waiting" =>
         result'[i] = result[i] /\ (i \in resultParts' <=> i \in resultParts)

LEMMA ClientInvKept ==
    ASSUME ChannelInv, NEW c \in Clients, NEW i \in Ids, Turn(c, i), Lands(c, i)
    PROVE  ClientInv'
<1>0. /\ 0 \notin Ids
      /\ \A d \in Clients : client[d].id \in Ids \cup {0}
  BY Naming DEF ChannelInv
<1>1. ASSUME NEW d \in Clients
      PROVE  /\ client'[d].pc = "idle" <=> client'[d].id = 0
             /\ client'[d].pc # "idle" =>
                  /\ outcome'[client'[d].id] # "unsent"
                  /\ client'[d].pc \in Typing \cup {"poll"}
                       <=> outcome'[client'[d].id] = "waiting"
             /\ client'[d].pc \in {"trigger", "poll"} => client'[d].id \in requests'
  <2>1. CASE d = c
    BY <2>1, <1>0 DEF Turn, Lands
  <2>2. CASE d # c
    <3>1. client'[d] = client[d] /\ client[d].id # i
      BY <2>2 DEF Turn
    <3>2. /\ client[d].pc = "idle" <=> client[d].id = 0
          /\ client[d].pc # "idle" =>
               /\ outcome[client[d].id] # "unsent"
               /\ client[d].pc \in Typing \cup {"poll"} <=> outcome[client[d].id] = "waiting"
          /\ client[d].pc \in {"trigger", "poll"} => client[d].id \in requests
      BY DEF ChannelInv, ClientInv, Working, Waits, At, Typing
    <3>3. client[d].id # 0 =>
            /\ outcome'[client[d].id] = outcome[client[d].id]
            /\ client[d].id \in requests' <=> client[d].id \in requests
      BY <3>1, <1>0 DEF Turn
    <3> QED
      BY <3>1, <3>2, <3>3
  <2> QED
    BY <2>1, <2>2
<1>2. \A d, e \in Clients : client'[d].id = client'[e].id /\ client'[d].id # 0 => d = e
  BY <1>0 DEF ChannelInv, ClientInv, Turn
<1>3. ASSUME NEW j \in Ids, outcome'[j] = "waiting" PROVE \E d \in Clients : client'[d].id = j
  <2>1. CASE j = i
    <3>1. client'[c].id = i
      BY <2>1, <1>3, <1>0 DEF Turn, Lands, Typing
    <3> QED
      BY <3>1, <2>1
  <2>2. CASE j # i
    <3>1. PICK d \in Clients : client[d].id = j
      BY <2>2, <1>3 DEF Turn, ChannelInv, ClientInv, Waits
    <3>2. d # c
      BY <3>1, <2>2, <1>0 DEF Turn
    <3> QED
      BY <3>1, <3>2 DEF Turn
  <2> QED
    BY <2>1, <2>2
<1>4. ASSUME NEW j \in Ids, outcome'[j] = "unsent"
      PROVE  /\ j \notin requests' \cup requestParts' \cup resultParts'
             /\ result'[j] = "none" /\ done'[j] = 0 /\ lisp'.id # j /\ owner' # j
  <2>1. j # i
    BY <1>4 DEF Turn
  <2>2. outcome[j] = "unsent"
    BY <2>1, <1>4 DEF Turn
  <2>3. /\ j \notin requests \cup requestParts \cup resultParts
        /\ result[j] = "none" /\ done[j] = 0 /\ lisp.id # j /\ owner # j
    BY <2>2 DEF ChannelInv, ClientInv
  <2> QED
    BY <2>1, <2>3 DEF Turn
<1> QED
  BY <1>1, <1>2, <1>3, <1>4 DEF ClientInv, Working, Waits, At, Typing

\* Nothing that AutoCAD relies on changes under it.
LEMMA AutocadInvKept ==
    ASSUME ChannelInv, NEW c \in Clients, NEW i \in Ids, Turn(c, i), Lands(c, i)
    PROVE  LispInv' /\ AnswerInv' /\ WaitInv'
<1>0. 0 \notin Ids /\ lisp.id \in Ids \cup {0} /\ reactor \in Ids \cup {0} /\ reactor \in {0, owner}
  BY Naming DEF ChannelInv
<1>1. outcome[i] = "unsent" =>
        /\ result[i] = "none" /\ done[i] = 0 /\ i \notin resultParts
        /\ lisp.id # i /\ owner # i /\ reactor # i
  BY <1>0 DEF ChannelInv, ClientInv
<1>2. \A j \in Ids : outcome'[j] = "waiting" /\ outcome[j] # "unsent" =>
        /\ outcome[j] = "waiting" /\ op'[j] = op[j] /\ result'[j] = result[j]
        /\ j \in resultParts' <=> j \in resultParts
  BY DEF Turn, Lands
<1>3. \A j \in Ids : /\ result'[j] \in {result[j], "none"}
                     /\ j \in resultParts' => j \in resultParts
  BY DEF Turn, Lands
<1>4. LispInv'
  <2>1. reactor # 0 => op'[reactor] = op[reactor]
    BY <1>0, <1>1 DEF Turn
  <2>2. Lisp("execute") => lisp.id \in Ids
    BY <1>0 DEF ChannelInv, LispInv, Lisp
  <2>3. Lisp("execute") => SlotFree(lisp.id)'
    BY <2>2, <1>3 DEF ChannelInv, LispInv, SlotFree, Lisp, Turn
  <2> QED
    BY <2>1, <2>3 DEF ChannelInv, LispInv, Busy, Lisp, Turn, SlotFree
<1>5. AnswerInv'
  <2>1. \A j \in Ids : result'[j] = "ok" => done'[j] > 0
    BY <1>3 DEF ChannelInv, AnswerInv, Turn
  <2>2. ASSUME NEW j \in Ids, op'[j] = "close", outcome'[j] = "waiting", done'[j] > 0
        PROVE  /\ owner' = j \/ result'[j] # "none"
               /\ result'[j] # "failed"
               /\ ~(lisp'.id = j /\ lisp'.pc \in {"write", "rename"} /\ lisp'.envelope = "failed")
               /\ reactor' # j
    <3>1. done[j] > 0
      BY <2>2 DEF Turn
    <3>2. outcome[j] # "unsent"
      BY <3>1, <1>1, <2>2 DEF ChannelInv, ClientInv
    <3>3. op[j] = "close" /\ Waits(j) /\ result'[j] = result[j]
      BY <3>2, <2>2, <1>2 DEF Waits
    <3> QED
      BY <3>1, <3>3 DEF ChannelInv, AnswerInv, Turn, Lisp
  <2> QED
    BY <2>1, <2>2 DEF ChannelInv, AnswerInv, Turn, Lisp, Waits
<1>6. WaitInv'
  <2> SUFFICES ASSUME faults' = 0
               PROVE  /\ \A j \in resultParts' : lisp'.pc = "rename" /\ lisp'.id = j
                      /\ lisp'.pc = "rename" /\ outcome'[lisp'.id] = "waiting" =>
                           lisp'.id \in resultParts'
                      /\ \A j \in Ids : outcome'[j] = "waiting" /\ done'[j] > 0 =>
                           /\ done'[j] = 1
                           /\ \/ lisp'.id = j /\ lisp'.pc \in {"report", "write", "rename"}
                              \/ result'[j] # "none"
                              \/ owner' = j
    BY DEF WaitInv, Lisp, Waits
  <2>1. faults = 0
    BY DEF Turn
  <2>2. resultParts' \subseteq Ids
    BY DEF Lands, ChannelInv, TypeOK
  <2>3. \A j \in resultParts' : lisp'.pc = "rename" /\ lisp'.id = j
    BY <2>1, <2>2, <1>3 DEF Turn, ChannelInv, WaitInv, Lisp
  <2>4. lisp'.pc = "rename" /\ outcome'[lisp'.id] = "waiting" => lisp'.id \in resultParts'
    <3> SUFFICES ASSUME lisp.pc = "rename", outcome'[lisp.id] = "waiting"
                 PROVE  lisp.id \in resultParts'
      BY DEF Turn
    <3>1. lisp.id \in Ids
      BY <1>0 DEF ChannelInv, LispInv, Lisp
    <3>2. outcome[lisp.id] # "unsent"
      BY <3>1, <1>1 DEF ChannelInv, ClientInv
    <3>3. lisp.id \in resultParts
      BY <3>1, <3>2, <1>2, <2>1 DEF ChannelInv, WaitInv, Lisp, Waits
    <3> QED
      BY <3>1, <3>2, <3>3, <1>2
  <2>5. ASSUME NEW j \in Ids, outcome'[j] = "waiting", done'[j] > 0
        PROVE  /\ done'[j] = 1
               /\ \/ lisp'.id = j /\ lisp'.pc \in {"report", "write", "rename"}
                  \/ result'[j] # "none"
                  \/ owner' = j
    <3>1. done[j] > 0
      BY <2>5 DEF Turn
    <3>2. outcome[j] # "unsent"
      BY <3>1 DEF ChannelInv, ClientInv
    <3>3. Waits(j) /\ result'[j] = result[j]
      BY <3>2, <2>5, <1>2 DEF Waits
    <3> QED
      BY <3>1, <3>3, <2>1 DEF ChannelInv, WaitInv, Turn, Lisp
  <2> QED
    BY <2>3, <2>4, <2>5
<1> QED
  BY <1>4, <1>5, <1>6

\* A command is typed on the way to the poll.
Types(c) ==
    \/ commands' = commands
    \/ commands' = commands + 1 /\ At(c, "trigger") /\ At(c, "poll")'

LEMMA StaysDisturbed ==
    ASSUME NEW c \in Clients, NEW i \in Ids, Turn(c, i)
    PROVE  Undisturbed' => Undisturbed
BY DEF Turn, Undisturbed

\* No request that waits for the dispatcher is given up, and none that it has
\* taken waits again.
LEMMA OnceInvKept ==
    ASSUME ChannelInv, NEW c \in Clients, NEW i \in Ids, Turn(c, i), Lands(c, i), Types(c),
           Undisturbed' /\ At(c, "poll") => result[i] # "none"
    PROVE  OnceInv'
<1> SUFFICES ASSUME Undisturbed'
             PROVE  /\ commands' <= Cardinality(Polling' \ Taken')
                    /\ \A j \in Ids : done'[j] <= 1
                    /\ \A j \in Ids : j = lisp'.id \/ j = reactor' =>
                         j \in Polling' /\ result'[j] = "none"
                    /\ \A j \in Ids : j = reactor'
                           \/ (j = lisp'.id /\ lisp'.pc \in {"read", "check", "execute"}) =>
                         done'[j] = 0
                    /\ \A d \in Clients : client'[d].pc \in Typing => client'[d].id \notin Taken'
  BY DEF OnceInv, Typing
<1>0. /\ 0 \notin Ids /\ reactor \in {0, owner}
      /\ \A d \in Clients : client[d].id \in Ids \cup {0}
  BY Naming DEF ChannelInv
<1>1. /\ commands <= Cardinality(Polling \ Taken)
      /\ \A j \in Ids : done[j] <= 1
      /\ \A j \in Ids : j = lisp.id \/ j = reactor => j \in Polling /\ result[j] = "none"
      /\ \A j \in Ids : j = reactor
             \/ (j = lisp.id /\ lisp.pc \in {"read", "check", "execute"}) => done[j] = 0
      /\ \A d \in Clients : client[d].pc \in Typing => client[d].id \notin Taken
  BY StaysDisturbed DEF ChannelInv, OnceInv, Typing
<1>2. Taken' \subseteq Taken
  BY DEF Turn, Lands, Taken
<1>3. ASSUME NEW j \in Polling, j \notin Polling' PROVE j = i /\ result[i] # "none"
  <2>1. PICK d \in Clients : client[d].id = j /\ At(d, "poll")
    BY <1>3 DEF Polling
  <2>2. d = c
    BY <2>1, <1>3 DEF Turn, Polling, At
  <2> QED
    BY <2>1, <2>2, <1>0, <1>3 DEF Turn, Polling
<1>4. Polling \ Taken \subseteq Polling' \ Taken'
  BY <1>2, <1>3 DEF Taken, Polling
<1>5. commands' <= Cardinality(Polling' \ Taken')
  <2>0. /\ Polling \ Taken \in SUBSET Ids /\ Polling' \ Taken' \in SUBSET Ids
        /\ commands \in Nat
    BY DEF Polling, ChannelInv, CommandInv
  <2>1. CASE commands' = commands
    BY <2>0, <2>1, <1>1, <1>4, Fewer
  <2>2. CASE commands' = commands + 1 /\ At(c, "trigger") /\ At(c, "poll")'
    <3>1. client[c].id = i /\ client'[c].id = i
      BY <2>2, <1>0 DEF Turn, Lands, ChannelInv, ClientInv, At
    <3>2. i \notin Taken
      BY <2>2, <3>1, <1>1 DEF At, Typing
    <3>3. i \in Polling'
      BY <2>2, <3>1 DEF Polling
    <3>4. i \notin Polling
      BY <2>2, <3>1 DEF Polling, Turn, At
    <3>5. (Polling \ Taken) \cup {i} \subseteq Polling' \ Taken'
      BY <3>2, <3>3, <1>2, <1>4
    <3>6. Cardinality((Polling \ Taken) \cup {i}) = Cardinality(Polling \ Taken) + 1
      BY <2>0, <3>4, OneMore
    <3>7. (Polling \ Taken) \cup {i} \in SUBSET Ids
      BY <2>0
    <3>8. Cardinality((Polling \ Taken) \cup {i}) <= Cardinality(Polling' \ Taken')
      BY <2>0, <3>5, <3>7, Fewer
    <3>9. Cardinality(Polling \ Taken) \in Nat /\ Cardinality(Polling' \ Taken') \in Nat
      BY <2>0, CallsAreBounded
    <3> QED
      BY <2>0, <2>2, <3>6, <3>8, <3>9, <1>1
  <2> QED
    BY <2>1, <2>2 DEF Types
<1>6. \A j \in Ids : j = lisp'.id \/ j = reactor' => j \in Polling' /\ result'[j] = "none"
  BY <1>1, <1>3 DEF Turn, Lands
<1>7. ASSUME NEW d \in Clients, client'[d].pc \in Typing PROVE client'[d].id \notin Taken'
  <2>1. CASE d = c
    <3>1. client'[c].id = i
      BY <2>1, <1>7 DEF Turn, Lands, Typing
    <3>2. CASE client[c].pc \in Typing
      BY <3>1, <3>2, <2>1, <1>0, <1>1, <1>2 DEF Turn, ChannelInv, ClientInv, At, Typing
    <3>3. CASE outcome[i] = "unsent"
      BY <3>1, <3>3, <2>1, <1>0, <1>2 DEF ChannelInv, ClientInv, Taken
    <3> QED
      BY <2>1, <1>7, <3>2, <3>3 DEF Lands
  <2>2. CASE d # c
    BY <2>2, <1>1, <1>2, <1>7 DEF Turn
  <2> QED
    BY <2>1, <2>2
<1> QED
  BY <1>1, <1>5, <1>6, <1>7 DEF Turn

\* What is left of the request in the directory.
Tidy(c, i) ==
    /\ requests' \subseteq Ids /\ requestParts' \subseteq Ids
    /\ i \in requests' \cup requestParts' =>
         i \in kept' \/ (client'[c].id = i /\ client'[c].pc \notin {"unlink part", "unlink result"})
    /\ i \in resultParts' =>
         i \in kept' \/ (client'[c].id = i /\ client'[c].pc # "unlink result")
    /\ result'[i] # "none" => i \in kept' \/ client'[c].id = i

LEMMA FilesInvKept ==
    ASSUME ChannelInv, NEW c \in Clients, NEW i \in Ids, Turn(c, i), Lands(c, i),
           Undisturbed' => Tidy(c, i)
    PROVE  FilesInv'
<1> SUFFICES ASSUME Undisturbed'
             PROVE  /\ \A j \in requests' \cup requestParts' : j \in kept' \/ \E d \in Clients :
                         client'[d].id = j /\ client'[d].pc \notin {"unlink part", "unlink result"}
                    /\ \A j \in resultParts' : j \in kept' \/ \E d \in Clients :
                         client'[d].id = j /\ client'[d].pc # "unlink result"
                    /\ \A j \in Results' : j \in kept' \/ \E d \in Clients : client'[d].id = j
  BY DEF FilesInv
<1>0. 0 \notin Ids /\ resultParts \subseteq Ids
  BY Naming DEF ChannelInv, TypeOK
<1>1. /\ \A j \in requests \cup requestParts : j \in kept \/ \E d \in Clients :
           client[d].id = j /\ client[d].pc \notin {"unlink part", "unlink result"}
      /\ \A j \in resultParts : j \in kept \/ \E d \in Clients :
           client[d].id = j /\ client[d].pc # "unlink result"
      /\ \A j \in Results : j \in kept \/ \E d \in Clients : client[d].id = j
  BY StaysDisturbed DEF ChannelInv, FilesInv
<1>2. \A j \in Ids \ {i} : \A d \in Clients : client[d].id = j => client'[d] = client[d]
  BY <1>0 DEF Turn
<1>3. ASSUME NEW j \in requests' \cup requestParts'
      PROVE  j \in kept' \/ \E d \in Clients :
               client'[d].id = j /\ client'[d].pc \notin {"unlink part", "unlink result"}
  <2>1. CASE j = i
    BY <2>1, <1>3 DEF Tidy
  <2>2. CASE j # i
    <3>1. j \in Ids /\ j \in requests \cup requestParts
      BY <2>2, <1>3 DEF Tidy, Turn
    <3> QED
      <4>1. j \in kept \/ \E d \in Clients :
              client[d].id = j /\ client[d].pc \notin {"unlink part", "unlink result"}
        BY <3>1, <1>1
      <4>2. \A d \in Clients : client[d].id = j => client'[d] = client[d]
        BY <2>2, <3>1, <1>2
      <4>3. kept \subseteq kept'
        BY DEF Turn
      <4> QED
        BY <4>1, <4>2, <4>3
  <2> QED
    BY <2>1, <2>2
<1>4. ASSUME NEW j \in resultParts'
      PROVE  j \in kept' \/ \E d \in Clients : client'[d].id = j /\ client'[d].pc # "unlink result"
  <2>1. CASE j = i
    BY <2>1, <1>4 DEF Tidy
  <2>2. CASE j # i
    <3>1. j \in Ids /\ j \in resultParts
      BY <1>0, <1>4 DEF Lands
    <3>2. j \in kept \/ \E d \in Clients : client[d].id = j /\ client[d].pc # "unlink result"
      BY <3>1, <1>1
    <3>3. \A d \in Clients : client[d].id = j => client'[d] = client[d]
      BY <2>2, <3>1, <1>2
    <3>4. kept \subseteq kept'
      BY DEF Turn
    <3> QED
      BY <3>2, <3>3, <3>4
  <2> QED
    BY <2>1, <2>2
<1>5. ASSUME NEW j \in Results' PROVE j \in kept' \/ \E d \in Clients : client'[d].id = j
  <2>0. j \in Ids /\ result'[j] # "none"
    BY <1>5 DEF Results
  <2>1. CASE j = i
    BY <2>0, <2>1 DEF Tidy
  <2>2. CASE j # i
    <3>1. j \in Results
      BY <2>0, <2>2 DEF Turn, Results
    <3> QED
      <4>1. j \in kept \/ \E d \in Clients : client[d].id = j
        BY <3>1, <1>1
      <4>2. \A d \in Clients : client[d].id = j => client'[d] = client[d]
        BY <2>0, <2>2, <1>2
      <4>3. kept \subseteq kept'
        BY DEF Turn
      <4> QED
        BY <4>1, <4>2, <4>3
  <2> QED
    BY <2>1, <2>2
<1> QED
  BY <1>3, <1>4, <1>5

LEMMA CommandInvKept ==
    ASSUME ChannelInv, NEW c \in Clients, NEW i \in Ids, Turn(c, i), Lands(c, i), Types(c)
    PROVE  CommandInv' /\ commands' \in 0..MaxCalls
<1>0. /\ Triggered \in SUBSET Ids /\ Triggered' \in SUBSET Ids
      /\ commands \in Nat /\ commands <= Cardinality(Triggered)
      /\ 0 \notin Ids
  BY Naming DEF Triggered, ChannelInv, CommandInv
<1>1. ASSUME NEW j \in Triggered PROVE j \in Triggered'
  <2>1. outcome[j] # "unsent" /\ outcome'[j] # "unsent"
    BY <1>1 DEF Triggered, Turn
  <2>2. ASSUME NEW d \in Clients, client'[d].id = j PROVE client'[d].pc \notin Typing
    <3>1. CASE d = c
      <4>1. j = i
        BY <3>1, <2>2, <1>0, <1>1 DEF Turn, Triggered
      <4>2. client[c].id = i
        BY <4>1, <2>1 DEF Turn
      <4>3. client[c].pc \notin Typing
        BY <4>1, <4>2, <1>1 DEF Triggered, Typing
      <4> QED
        BY <3>1, <4>1, <4>3, <2>1 DEF Lands
    <3>2. CASE d # c
      BY <3>2, <2>2, <1>1 DEF Turn, Triggered, Typing
    <3> QED
      BY <3>1, <3>2
  <2> QED
    BY <2>1, <2>2, <1>0, <1>1 DEF Triggered, Typing
<1>2. Triggered \subseteq Triggered'
  BY <1>1
<1>3. CommandInv'
  <2>1. CASE commands' = commands
    BY <2>1, <1>0, <1>2, Fewer DEF CommandInv
  <2>2. CASE commands' = commands + 1 /\ At(c, "trigger") /\ At(c, "poll")'
    <3>1. client[c].id = i /\ client'[c].id = i
      BY <2>2, <1>0 DEF Turn, Lands, ChannelInv, ClientInv, At
    <3>2. i \notin Triggered
      BY <2>2, <3>1 DEF Triggered, At
    <3>3. i \in Triggered'
      BY <2>2, <3>1 DEF Triggered, Turn, At
    <3>4. Triggered \cup {i} \in SUBSET Ids /\ Triggered \cup {i} \subseteq Triggered'
      BY <1>0, <1>2, <3>3
    <3>5. Cardinality(Triggered \cup {i}) = Cardinality(Triggered) + 1
      BY <1>0, <3>2, OneMore
    <3>6. Cardinality(Triggered \cup {i}) <= Cardinality(Triggered')
      BY <1>0, <3>4, Fewer
    <3>7. Cardinality(Triggered) \in Nat /\ Cardinality(Triggered') \in Nat
      BY <1>0, CallsAreBounded
    <3> QED
      BY <2>2, <3>5, <3>6, <3>7, <1>0 DEF CommandInv
  <2> QED
    BY <2>1, <2>2 DEF Types
<1>4. Cardinality(Triggered') \in 0..MaxCalls
  BY <1>0, CallsAreBounded
<1> QED
  BY <1>3, <1>4, LispBounds DEF CommandInv

\* A step of a client that does the above preserves everything.
LEMMA ClientKeeps ==
    ASSUME ChannelInv, NEW c \in Clients, NEW i \in Ids, Turn(c, i), Lands(c, i), Types(c),
           commands' \in 0..MaxCalls => TypeOK',
           Undisturbed' /\ At(c, "poll") => result[i] # "none",
           Undisturbed' => Tidy(c, i)
    PROVE  ChannelInv'
BY ClientInvKept, AutocadInvKept, OnceInvKept, FilesInvKept, CommandInvKept DEF ChannelInv

\* A client at work names one request, which nobody else does.
LEMMA AtWork ==
    ASSUME ChannelInv, NEW c \in Clients, ~At(c, "idle")
    PROVE  /\ client[c].id \in Ids
           /\ \A d \in Clients \ {c} : client[d].id # client[c].id
           /\ outcome[client[c].id] # "unsent"
           /\ client[c].pc \in Typing \cup {"poll"} <=> outcome[client[c].id] = "waiting"
           /\ client[c].pc \in {"trigger", "poll"} => client[c].id \in requests
<1>1. client[c].id \in Ids
  BY Naming DEF ChannelInv, ClientInv
<1>2. 0 \notin Ids
  BY Naming DEF ChannelInv
<1> QED
  BY <1>1, <1>2 DEF ChannelInv, ClientInv, Working, Waits, At, Typing

LEMMA WasTidy ==
    ASSUME ChannelInv, NEW c \in Clients, ~At(c, "idle"), Undisturbed
    PROVE  /\ client[c].id \in requests \cup requestParts =>
                client[c].id \in kept \/ client[c].pc \notin {"unlink part", "unlink result"}
           /\ client[c].id \in resultParts =>
                client[c].id \in kept \/ client[c].pc # "unlink result"
<1> DEFINE i == client[c].id
<1>1. i \in Ids /\ \A d \in Clients : client[d].id = i => d = c
  BY AtWork
<1>2. i \in requests \cup requestParts =>
        i \in kept \/ \E d \in Clients :
          client[d].id = i /\ client[d].pc \notin {"unlink part", "unlink result"}
  BY DEF ChannelInv, FilesInv
<1>3. i \in resultParts =>
        i \in kept \/ \E d \in Clients : client[d].id = i /\ client[d].pc # "unlink result"
  BY DEF ChannelInv, FilesInv
<1> QED
  BY <1>1, <1>2, <1>3

LEMMA BeginKeeps ==
    ASSUME ChannelInv, NEW c \in Clients, Begin(c)
    PROVE  ChannelInv'
<1>0. TypeOK /\ 0 \notin Ids /\ \A d \in Clients : client[d].id \in Ids \cup {0}
  BY Naming DEF ChannelInv
<1>1. PICK i \in Ids, o \in Operations :
        /\ At(c, "idle") /\ ChannelFree /\ outcome[i] = "unsent"
        /\ client' = [client EXCEPT ![c] = [pc |-> "part", id |-> i]]
        /\ op' = [op EXCEPT ![i] = o]
        /\ outcome' = [outcome EXCEPT ![i] = "waiting"]
        /\ UNCHANGED <<requests, requestParts, result, resultParts, commands, lisp, owner,
                       reactor, done, kept, faults>>
  BY DEF Begin, directory, autocad
<1>2. /\ client'[c].pc = "part" /\ client'[c].id = i
      /\ \A d \in Clients \ {c} : client'[d] = client[d]
  BY <1>0, <1>1 DEF TypeOK
<1>3. client[c].id = 0 /\ \A d \in Clients : client[d].id # i
  BY <1>0, <1>1 DEF ChannelInv, ClientInv, At
<1>4. outcome'[i] = "waiting" /\ \A j \in Ids \ {i} : outcome'[j] = outcome[j] /\ op'[j] = op[j]
  BY <1>0, <1>1 DEF TypeOK
<1>5. Turn(c, i)
  BY <1>1, <1>2, <1>3, <1>4 DEF Turn
<1>6. Lands(c, i)
  BY <1>0, <1>1, <1>2, <1>4 DEF Lands, Typing
<1>7. TypeOK'
  <2>1. i \in 0..MaxCalls
    BY LispBounds DEF Ids
  <2>2. client' \in [Clients -> [pc : Steps, id : 0..MaxCalls]]
    BY <2>1, <1>1, <1>0 DEF TypeOK, Steps
  <2>3. op' \in [Ids -> Operations \cup {"none"}]
    BY <1>0, <1>1 DEF TypeOK
  <2>4. outcome' \in [Ids -> {"unsent", "waiting", "ok", "failed", "unanswered"}]
    BY <1>0, <1>1 DEF TypeOK
  <2> QED
    BY <1>0, <1>1, <2>2, <2>3, <2>4 DEF TypeOK, Steps
<1>8. Tidy(c, i)
  BY <1>0, <1>1, <1>2 DEF Tidy, TypeOK, ChannelInv, ClientInv
<1> QED
  BY <1>1, <1>5, <1>6, <1>7, <1>8, ClientKeeps DEF Types, At

LEMMA WritePartKeeps ==
    ASSUME ChannelInv, NEW c \in Clients, WritePart(c)
    PROVE  ChannelInv'
<1> DEFINE i == client[c].id
<1>0. TypeOK /\ 0 \notin Ids
  BY Naming DEF ChannelInv
<1>1. /\ At(c, "part")
      /\ requestParts' = requestParts \cup {client[c].id}
      /\ client' = [client EXCEPT ![c].pc = "rename"]
      /\ UNCHANGED <<requests, result, resultParts, op, outcome, commands, lisp, owner,
                     reactor, done, kept, faults>>
  BY DEF WritePart, Goto, autocad
<1>2. /\ i \in Ids /\ \A d \in Clients \ {c} : client[d].id # i
      /\ outcome[i] # "unsent"
      /\ client[c].pc \in Typing \cup {"poll"} <=> outcome[i] = "waiting"
      /\ client[c].pc \in {"trigger", "poll"} => i \in requests
  BY <1>1, AtWork DEF At, Typing
<1>3. /\ client'[c].pc = "rename" /\ client'[c].id = i
      /\ \A d \in Clients \ {c} : client'[d] = client[d]
  BY <1>0, <1>1, Moving DEF Moves, Steps
<1>4. requests \subseteq Ids /\ requestParts \subseteq Ids /\ resultParts \subseteq Ids
  BY <1>0 DEF TypeOK
<1>5. Turn(c, i)
  BY <1>0, <1>1, <1>2, <1>3, <1>4 DEF Turn, TypeOK
<1>6. Lands(c, i)
  BY <1>0, <1>1, <1>2, <1>3, <1>4 DEF Lands, Typing, At
<1>7. commands' \in 0..MaxCalls => TypeOK'
  <2>1. client' \in ClientType
    BY <1>0, <1>1, Moving DEF Steps
  <2> QED
    BY <1>0, <1>1, <1>2, <2>1, LispBounds DEF TypeOK, ClientType, Steps
<1>8. Undisturbed' => Tidy(c, i)
  <2> SUFFICES ASSUME Undisturbed' PROVE Tidy(c, i)
    OBVIOUS
  <2>1. /\ i \in requests \cup requestParts =>
             i \in kept \/ client[c].pc \notin {"unlink part", "unlink result"}
        /\ i \in resultParts => i \in kept \/ client[c].pc # "unlink result"
    BY <1>1, <1>2, <1>5, WasTidy, StaysDisturbed DEF At, Typing
  <2>2. requests' \subseteq Ids /\ requestParts' \subseteq Ids
    BY <1>0, <1>1, <1>2 DEF TypeOK
  <2> QED
    BY <1>1, <1>2, <1>3, <1>4, <2>1, <2>2 DEF Tidy, At
<1>9. Undisturbed' /\ At(c, "poll") => result[i] # "none"
  BY <1>1, <1>2, <1>4 DEF At, Undisturbed, Typing
<1>10. Types(c)
  BY <1>1, <1>3 DEF Types, At
<1> QED
  BY <1>2, <1>5, <1>6, <1>7, <1>8, <1>9, <1>10, ClientKeeps

LEMMA PublishKeeps ==
    ASSUME ChannelInv, NEW c \in Clients, Publish(c)
    PROVE  ChannelInv'
<1> DEFINE i == client[c].id
<1>0. TypeOK /\ 0 \notin Ids
  BY Naming DEF ChannelInv
<1>1. /\ At(c, "rename")
      /\ requestParts' = requestParts \ {client[c].id}
      /\ requests' = requests \cup {client[c].id}
      /\ client' = [client EXCEPT ![c].pc = "trigger"]
      /\ UNCHANGED <<result, resultParts, op, outcome, commands, lisp, owner, reactor,
                     done, kept, faults>>
  BY DEF Publish, Goto, autocad
<1>2. /\ i \in Ids /\ \A d \in Clients \ {c} : client[d].id # i
      /\ outcome[i] # "unsent"
      /\ client[c].pc \in Typing \cup {"poll"} <=> outcome[i] = "waiting"
      /\ client[c].pc \in {"trigger", "poll"} => i \in requests
  BY <1>1, AtWork DEF At, Typing
<1>3. /\ client'[c].pc = "trigger" /\ client'[c].id = i
      /\ \A d \in Clients \ {c} : client'[d] = client[d]
  BY <1>0, <1>1, Moving DEF Moves, Steps
<1>4. requests \subseteq Ids /\ requestParts \subseteq Ids /\ resultParts \subseteq Ids
  BY <1>0 DEF TypeOK
<1>5. Turn(c, i)
  BY <1>0, <1>1, <1>2, <1>3, <1>4 DEF Turn, TypeOK
<1>6. Lands(c, i)
  BY <1>0, <1>1, <1>2, <1>3, <1>4 DEF Lands, Typing, At
<1>7. commands' \in 0..MaxCalls => TypeOK'
  <2>1. client' \in ClientType
    BY <1>0, <1>1, Moving DEF Steps
  <2> QED
    BY <1>0, <1>1, <1>2, <2>1, LispBounds DEF TypeOK, ClientType, Steps
<1>8. Undisturbed' => Tidy(c, i)
  <2> SUFFICES ASSUME Undisturbed' PROVE Tidy(c, i)
    OBVIOUS
  <2>1. /\ i \in requests \cup requestParts =>
             i \in kept \/ client[c].pc \notin {"unlink part", "unlink result"}
        /\ i \in resultParts => i \in kept \/ client[c].pc # "unlink result"
    BY <1>1, <1>2, <1>5, WasTidy, StaysDisturbed DEF At, Typing
  <2>2. requests' \subseteq Ids /\ requestParts' \subseteq Ids
    BY <1>0, <1>1, <1>2 DEF TypeOK
  <2> QED
    BY <1>1, <1>2, <1>3, <1>4, <2>1, <2>2 DEF Tidy, At
<1>9. Undisturbed' /\ At(c, "poll") => result[i] # "none"
  BY <1>1, <1>2, <1>4 DEF At, Undisturbed, Typing
<1>10. Types(c)
  BY <1>1, <1>3 DEF Types, At
<1> QED
  BY <1>2, <1>5, <1>6, <1>7, <1>8, <1>9, <1>10, ClientKeeps

LEMMA TriggerKeeps ==
    ASSUME ChannelInv, NEW c \in Clients, Trigger(c)
    PROVE  ChannelInv'
<1> DEFINE i == client[c].id
<1>0. TypeOK /\ 0 \notin Ids
  BY Naming DEF ChannelInv
<1>1. /\ At(c, "trigger")
      /\ commands' = commands + 1
      /\ client' = [client EXCEPT ![c].pc = "poll"]
      /\ UNCHANGED <<requests, requestParts, result, resultParts, op, outcome, lisp, owner,
                     reactor, done, kept, faults>>
  BY DEF Trigger, Goto, directory, autocad
<1>2. /\ i \in Ids /\ \A d \in Clients \ {c} : client[d].id # i
      /\ outcome[i] # "unsent"
      /\ client[c].pc \in Typing \cup {"poll"} <=> outcome[i] = "waiting"
      /\ client[c].pc \in {"trigger", "poll"} => i \in requests
  BY <1>1, AtWork DEF At, Typing
<1>3. /\ client'[c].pc = "poll" /\ client'[c].id = i
      /\ \A d \in Clients \ {c} : client'[d] = client[d]
  BY <1>0, <1>1, Moving DEF Moves, Steps
<1>4. requests \subseteq Ids /\ requestParts \subseteq Ids /\ resultParts \subseteq Ids
  BY <1>0 DEF TypeOK
<1>5. Turn(c, i)
  BY <1>0, <1>1, <1>2, <1>3, <1>4 DEF Turn, TypeOK
<1>6. Lands(c, i)
  BY <1>0, <1>1, <1>2, <1>3, <1>4 DEF Lands, Typing, At
<1>7. commands' \in 0..MaxCalls => TypeOK'
  <2>1. client' \in ClientType
    BY <1>0, <1>1, Moving DEF Steps
  <2> QED
    BY <1>0, <1>1, <1>2, <2>1, LispBounds DEF TypeOK, ClientType, Steps
<1>8. Undisturbed' => Tidy(c, i)
  <2> SUFFICES ASSUME Undisturbed' PROVE Tidy(c, i)
    OBVIOUS
  <2>1. /\ i \in requests \cup requestParts =>
             i \in kept \/ client[c].pc \notin {"unlink part", "unlink result"}
        /\ i \in resultParts => i \in kept \/ client[c].pc # "unlink result"
    BY <1>1, <1>2, <1>5, WasTidy, StaysDisturbed DEF At, Typing
  <2>2. requests' \subseteq Ids /\ requestParts' \subseteq Ids
    BY <1>0, <1>1, <1>2 DEF TypeOK
  <2> QED
    BY <1>1, <1>2, <1>3, <1>4, <2>1, <2>2 DEF Tidy, At
<1>9. Undisturbed' /\ At(c, "poll") => result[i] # "none"
  BY <1>1, <1>2, <1>4 DEF At, Undisturbed, Typing
<1>10. Types(c)
  BY <1>1, <1>3 DEF Types, At
<1> QED
  BY <1>2, <1>5, <1>6, <1>7, <1>8, <1>9, <1>10, ClientKeeps

LEMMA ReceiveKeeps ==
    ASSUME ChannelInv, NEW c \in Clients, Receive(c)
    PROVE  ChannelInv'
<1> DEFINE i == client[c].id
<1>0. TypeOK /\ 0 \notin Ids
  BY Naming DEF ChannelInv
<1>1. /\ At(c, "poll") /\ Results = {client[c].id}
      /\ client' = [client EXCEPT ![c].pc = "unlink request"]
      /\ outcome' = [outcome EXCEPT ![client[c].id] = result[client[c].id]]
      /\ UNCHANGED <<requests, requestParts, result, resultParts, op, commands, lisp, owner,
                     reactor, done, kept, faults>>
  BY DEF Receive, End, directory, autocad
<1>2. /\ i \in Ids /\ \A d \in Clients \ {c} : client[d].id # i
      /\ outcome[i] # "unsent"
      /\ client[c].pc \in Typing \cup {"poll"} <=> outcome[i] = "waiting"
      /\ client[c].pc \in {"trigger", "poll"} => i \in requests
  BY <1>1, AtWork DEF At, Typing
<1>3. /\ client'[c].pc = "unlink request" /\ client'[c].id = i
      /\ \A d \in Clients \ {c} : client'[d] = client[d]
  BY <1>0, <1>1, Moving DEF Moves, Steps
<1>4. /\ outcome'[i] = result[i]
      /\ \A j \in Ids \ {i} : outcome'[j] = outcome[j]
      /\ result[i] \in {"ok", "failed"}
  <2>1. result[i] # "none"
    BY <1>1 DEF Results
  <2> QED
    BY <2>1, <1>0, <1>1, <1>2 DEF TypeOK
<1>5. Turn(c, i)
  BY <1>0, <1>1, <1>2, <1>3, <1>4 DEF Turn, Typing, At
<1>6. Lands(c, i)
  BY <1>0, <1>1, <1>2, <1>3, <1>4 DEF Lands, Typing, At
<1>7. commands' \in 0..MaxCalls => TypeOK'
  <2>1. client' \in ClientType
    BY <1>0, <1>1, Moving DEF Steps
  <2>2. outcome' \in [Ids -> {"unsent", "waiting", "ok", "failed", "unanswered"}]
    BY <1>0, <1>1, <1>2, <1>4 DEF TypeOK
  <2> QED
    BY <1>0, <1>1, <1>2, <2>1, <2>2, LispBounds DEF TypeOK, ClientType, Steps
<1>8. Undisturbed' => Tidy(c, i)
  <2> SUFFICES ASSUME Undisturbed' PROVE Tidy(c, i)
    OBVIOUS
  <2>1. /\ i \in requests \cup requestParts =>
             i \in kept \/ client[c].pc \notin {"unlink part", "unlink result"}
        /\ i \in resultParts => i \in kept \/ client[c].pc # "unlink result"
    BY <1>1, <1>2, <1>5, WasTidy, StaysDisturbed DEF At, Typing
  <2>2. requests' \subseteq Ids /\ requestParts' \subseteq Ids
    BY <1>0, <1>1, <1>2 DEF TypeOK
  <2> QED
    BY <1>1, <1>2, <1>3, <1>4, <2>1, <2>2 DEF Tidy, At
<1>9. Undisturbed' /\ At(c, "poll") => result[i] # "none"
  BY <1>1, <1>2, <1>4 DEF At, Undisturbed, Typing
<1>10. Types(c)
  BY <1>1, <1>3 DEF Types, At
<1> QED
  BY <1>2, <1>5, <1>6, <1>7, <1>8, <1>9, <1>10, ClientKeeps

LEMMA GiveUpKeeps ==
    ASSUME ChannelInv, NEW c \in Clients, GiveUp(c)
    PROVE  ChannelInv'
<1> DEFINE i == client[c].id
<1>0. TypeOK /\ 0 \notin Ids
  BY Naming DEF ChannelInv
<1>1. /\ client[c].pc \in Typing \cup {"poll"}
      /\ client' = [client EXCEPT ![c].pc = "unlink request"]
      /\ outcome' = [outcome EXCEPT ![client[c].id] = "unanswered"]
      /\ UNCHANGED <<requests, requestParts, result, resultParts, op, commands, lisp, owner,
                     reactor, done, kept, faults>>
  BY DEF GiveUp, End, directory, Typing, autocad
<1>2. /\ i \in Ids /\ \A d \in Clients \ {c} : client[d].id # i
      /\ outcome[i] # "unsent"
      /\ client[c].pc \in Typing \cup {"poll"} <=> outcome[i] = "waiting"
      /\ client[c].pc \in {"trigger", "poll"} => i \in requests
  BY <1>1, AtWork DEF At, Typing
<1>3. /\ client'[c].pc = "unlink request" /\ client'[c].id = i
      /\ \A d \in Clients \ {c} : client'[d] = client[d]
  BY <1>0, <1>1, Moving DEF Moves, Steps
<1>4. /\ outcome'[i] = "unanswered"
      /\ \A j \in Ids \ {i} : outcome'[j] = outcome[j]
  BY <1>0, <1>1, <1>2 DEF TypeOK
<1>5. Turn(c, i)
  BY <1>0, <1>1, <1>2, <1>3, <1>4 DEF Turn, TypeOK
<1>6. Lands(c, i)
  BY <1>0, <1>1, <1>2, <1>3, <1>4 DEF Lands, Typing, At
<1>7. commands' \in 0..MaxCalls => TypeOK'
  <2>1. client' \in ClientType
    BY <1>0, <1>1, Moving DEF Steps
  <2>2. outcome' \in [Ids -> {"unsent", "waiting", "ok", "failed", "unanswered"}]
    BY <1>0, <1>1, <1>2, <1>4 DEF TypeOK
  <2> QED
    BY <1>0, <1>1, <1>2, <2>1, <2>2, LispBounds DEF TypeOK, ClientType, Steps
<1>8. Undisturbed' => Tidy(c, i)
  <2> SUFFICES ASSUME Undisturbed' PROVE Tidy(c, i)
    OBVIOUS
  <2>1. /\ i \in requests \cup requestParts =>
             i \in kept \/ client[c].pc \notin {"unlink part", "unlink result"}
        /\ i \in resultParts => i \in kept \/ client[c].pc # "unlink result"
    BY <1>1, <1>2, <1>5, WasTidy, StaysDisturbed DEF At, Typing
  <2>2. requests' \subseteq Ids /\ requestParts' \subseteq Ids
    BY <1>0, <1>1, <1>2 DEF TypeOK
  <2> QED
    BY <1>1, <1>2, <1>3, <1>4, <2>1, <2>2 DEF Tidy, At
<1>9. Undisturbed' /\ At(c, "poll") => result[i] # "none"
  BY <1>1, <1>2, <1>4 DEF At, Undisturbed, Typing
<1>10. Types(c)
  BY <1>1, <1>3 DEF Types, At
<1> QED
  BY <1>2, <1>5, <1>6, <1>7, <1>8, <1>9, <1>10, ClientKeeps

LEMMA UnlinkRequestKeeps ==
    ASSUME ChannelInv, NEW c \in Clients, UnlinkRequest(c)
    PROVE  ChannelInv'
<1> DEFINE i == client[c].id
<1>0. TypeOK /\ 0 \notin Ids
  BY Naming DEF ChannelInv
<1>1. /\ At(c, "unlink request")
      /\ client' = [client EXCEPT ![c].pc = "unlink part"]
      /\ \/ /\ requests' = requests \ {client[c].id}
            /\ requestParts' = requestParts \ {client[c].id}
            /\ UNCHANGED <<result, resultParts, kept, faults>>
         \/ /\ faults < MaxFaults /\ faults' = faults + 1
            /\ kept' = kept \cup {client[c].id}
            /\ UNCHANGED <<requests, requestParts, result, resultParts>>
      /\ UNCHANGED <<op, outcome, commands, lisp, owner, reactor, done>>
  BY DEF UnlinkRequest, Goto, Unlinked, NotUnlinked, Fault, directory, autocad
<1>2. /\ i \in Ids /\ \A d \in Clients \ {c} : client[d].id # i
      /\ outcome[i] # "unsent"
      /\ client[c].pc \in Typing \cup {"poll"} <=> outcome[i] = "waiting"
      /\ client[c].pc \in {"trigger", "poll"} => i \in requests
  BY <1>1, AtWork DEF At, Typing
<1>3. /\ client'[c].pc = "unlink part" /\ client'[c].id = i
      /\ \A d \in Clients \ {c} : client'[d] = client[d]
  BY <1>0, <1>1, Moving DEF Moves, Steps
<1>4. requests \subseteq Ids /\ requestParts \subseteq Ids /\ resultParts \subseteq Ids
  BY <1>0 DEF TypeOK
<1>5. /\ kept \subseteq kept' /\ kept' \subseteq Ids
       /\ faults' \in 0..MaxFaults /\ (faults' = 0 => faults = 0)
  <2>1. kept \subseteq Ids /\ faults \in 0..MaxFaults
    BY <1>0 DEF TypeOK
  <2>2. kept' = kept \/ kept' = kept \cup {i}
    BY <1>1
  <2>3. faults' = faults \/ (faults < MaxFaults /\ faults' = faults + 1)
    BY <1>1
  <2>4. faults' \in 0..MaxFaults /\ (faults' = 0 => faults = 0)
    BY <2>1, <2>3, LispBounds
  <2> QED
    BY <2>1, <2>2, <2>4, <1>2
<1>6. Turn(c, i)
  BY <1>1, <1>2, <1>3, <1>4, <1>5 DEF Turn
<1>7. Lands(c, i)
  BY <1>0, <1>1, <1>2, <1>3, <1>4 DEF Lands, Typing, At
<1>8. commands' \in 0..MaxCalls => TypeOK'
  <2>1. client' \in ClientType
    BY <1>0, <1>1, Moving DEF Steps
  <2> QED
    BY <1>0, <1>1, <1>2, <1>5, <2>1, LispBounds DEF TypeOK, ClientType, Steps
<1>9. Undisturbed' => Tidy(c, i)
  <2> SUFFICES ASSUME Undisturbed' PROVE Tidy(c, i)
    OBVIOUS
  <2>1. /\ i \in requests \cup requestParts =>
             i \in kept \/ client[c].pc \notin {"unlink part", "unlink result"}
        /\ i \in resultParts => i \in kept \/ client[c].pc # "unlink result"
    BY <1>1, <1>2, <1>6, WasTidy, StaysDisturbed DEF At, Typing
  <2>2. requests' \subseteq Ids /\ requestParts' \subseteq Ids
    BY <1>0, <1>1, <1>2 DEF TypeOK
  <2> QED
    BY <1>1, <1>2, <1>3, <1>4, <2>1, <2>2 DEF Tidy, At
<1>10. Undisturbed' /\ At(c, "poll") => result[i] # "none"
  BY <1>1, <1>2, <1>4 DEF At, Undisturbed, Typing
<1>11. Types(c)
  BY <1>1, <1>3 DEF Types, At
<1> QED
  BY <1>2, <1>6, <1>7, <1>8, <1>9, <1>10, <1>11, ClientKeeps

LEMMA UnlinkPartKeeps ==
    ASSUME ChannelInv, NEW c \in Clients, UnlinkPart(c)
    PROVE  ChannelInv'
<1> DEFINE i == client[c].id
<1>0. TypeOK /\ 0 \notin Ids
  BY Naming DEF ChannelInv
<1>1. /\ At(c, "unlink part")
      /\ client' = [client EXCEPT ![c].pc = "unlink result"]
      /\ \/ /\ resultParts' = resultParts \ {client[c].id}
            /\ UNCHANGED <<requests, requestParts, result, kept, faults>>
         \/ /\ faults < MaxFaults /\ faults' = faults + 1
            /\ kept' = kept \cup {client[c].id}
            /\ UNCHANGED <<requests, requestParts, result, resultParts>>
      /\ UNCHANGED <<op, outcome, commands, lisp, owner, reactor, done>>
  BY DEF UnlinkPart, Goto, Unlinked, NotUnlinked, Fault, directory, autocad
<1>2. /\ i \in Ids /\ \A d \in Clients \ {c} : client[d].id # i
      /\ outcome[i] # "unsent"
      /\ client[c].pc \in Typing \cup {"poll"} <=> outcome[i] = "waiting"
      /\ client[c].pc \in {"trigger", "poll"} => i \in requests
  BY <1>1, AtWork DEF At, Typing
<1>3. /\ client'[c].pc = "unlink result" /\ client'[c].id = i
      /\ \A d \in Clients \ {c} : client'[d] = client[d]
  BY <1>0, <1>1, Moving DEF Moves, Steps
<1>4. requests \subseteq Ids /\ requestParts \subseteq Ids /\ resultParts \subseteq Ids
  BY <1>0 DEF TypeOK
<1>5. /\ kept \subseteq kept' /\ kept' \subseteq Ids
       /\ faults' \in 0..MaxFaults /\ (faults' = 0 => faults = 0)
  <2>1. kept \subseteq Ids /\ faults \in 0..MaxFaults
    BY <1>0 DEF TypeOK
  <2>2. kept' = kept \/ kept' = kept \cup {i}
    BY <1>1
  <2>3. faults' = faults \/ (faults < MaxFaults /\ faults' = faults + 1)
    BY <1>1
  <2>4. faults' \in 0..MaxFaults /\ (faults' = 0 => faults = 0)
    BY <2>1, <2>3, LispBounds
  <2> QED
    BY <2>1, <2>2, <2>4, <1>2
<1>6. Turn(c, i)
  BY <1>1, <1>2, <1>3, <1>4, <1>5 DEF Turn
<1>7. Lands(c, i)
  BY <1>0, <1>1, <1>2, <1>3, <1>4 DEF Lands, Typing, At
<1>8. commands' \in 0..MaxCalls => TypeOK'
  <2>1. client' \in ClientType
    BY <1>0, <1>1, Moving DEF Steps
  <2> QED
    BY <1>0, <1>1, <1>2, <1>5, <2>1, LispBounds DEF TypeOK, ClientType, Steps
<1>9. Undisturbed' => Tidy(c, i)
  <2> SUFFICES ASSUME Undisturbed' PROVE Tidy(c, i)
    OBVIOUS
  <2>1. /\ i \in requests \cup requestParts =>
             i \in kept \/ client[c].pc \notin {"unlink part", "unlink result"}
        /\ i \in resultParts => i \in kept \/ client[c].pc # "unlink result"
    BY <1>1, <1>2, <1>6, WasTidy, StaysDisturbed DEF At, Typing
  <2>2. requests' \subseteq Ids /\ requestParts' \subseteq Ids
    BY <1>0, <1>1, <1>2 DEF TypeOK
  <2> QED
    BY <1>1, <1>2, <1>3, <1>4, <2>1, <2>2 DEF Tidy, At
<1>10. Undisturbed' /\ At(c, "poll") => result[i] # "none"
  BY <1>1, <1>2, <1>4 DEF At, Undisturbed, Typing
<1>11. Types(c)
  BY <1>1, <1>3 DEF Types, At
<1> QED
  BY <1>2, <1>6, <1>7, <1>8, <1>9, <1>10, <1>11, ClientKeeps

LEMMA UnlinkResultKeeps ==
    ASSUME ChannelInv, NEW c \in Clients, UnlinkResult(c)
    PROVE  ChannelInv'
<1> DEFINE i == client[c].id
<1>0. TypeOK /\ 0 \notin Ids
  BY Naming DEF ChannelInv
<1>1. /\ At(c, "unlink result")
      /\ client' = [client EXCEPT ![c] = Idle]
      /\ \/ /\ result' = [result EXCEPT ![client[c].id] = "none"]
            /\ UNCHANGED <<requests, requestParts, resultParts, kept, faults>>
         \/ /\ faults < MaxFaults /\ faults' = faults + 1
            /\ kept' = kept \cup {client[c].id}
            /\ UNCHANGED <<requests, requestParts, result, resultParts>>
      /\ UNCHANGED <<op, outcome, commands, lisp, owner, reactor, done>>
  BY DEF UnlinkResult, Unlinked, NotUnlinked, Fault, directory, autocad
<1>2. /\ i \in Ids /\ \A d \in Clients \ {c} : client[d].id # i
      /\ outcome[i] # "unsent"
      /\ client[c].pc \in Typing \cup {"poll"} <=> outcome[i] = "waiting"
      /\ client[c].pc \in {"trigger", "poll"} => i \in requests
  BY <1>1, AtWork DEF At, Typing
<1>3. /\ client'[c].pc = "idle" /\ client'[c].id = 0
      /\ \A d \in Clients \ {c} : client'[d] = client[d]
  BY <1>0, <1>1, Leaving DEF Idle
<1>4. /\ \A j \in Ids \ {i} : result'[j] = result[j]
      /\ result'[i] = "none" \/ (result'[i] = result[i] /\ i \in kept')
  BY <1>0, <1>1, <1>2 DEF TypeOK
<1>5. /\ kept \subseteq kept' /\ kept' \subseteq Ids
       /\ faults' \in 0..MaxFaults /\ (faults' = 0 => faults = 0)
  <2>1. kept \subseteq Ids /\ faults \in 0..MaxFaults
    BY <1>0 DEF TypeOK
  <2>2. kept' = kept \/ kept' = kept \cup {i}
    BY <1>1
  <2>3. faults' = faults \/ (faults < MaxFaults /\ faults' = faults + 1)
    BY <1>1
  <2>4. faults' \in 0..MaxFaults /\ (faults' = 0 => faults = 0)
    BY <2>1, <2>3, LispBounds
  <2> QED
    BY <2>1, <2>2, <2>4, <1>2
<1>6. Turn(c, i)
  BY <1>1, <1>2, <1>3, <1>4, <1>5 DEF Turn
<1>7. Lands(c, i)
  BY <1>0, <1>1, <1>2, <1>3, <1>4 DEF Lands, Typing, At
<1>8. commands' \in 0..MaxCalls => TypeOK'
  <2>1. client' \in ClientType
    BY <1>0, <1>1, Leaving DEF Steps
  <2> QED
    BY <1>0, <1>1, <1>2, <1>5, <2>1, LispBounds DEF TypeOK, ClientType, Steps
<1>9. Undisturbed' => Tidy(c, i)
  <2> SUFFICES ASSUME Undisturbed' PROVE Tidy(c, i)
    OBVIOUS
  <2>1. /\ i \in requests \cup requestParts =>
             i \in kept \/ client[c].pc \notin {"unlink part", "unlink result"}
        /\ i \in resultParts => i \in kept \/ client[c].pc # "unlink result"
    BY <1>1, <1>2, <1>6, WasTidy, StaysDisturbed DEF At, Typing
  <2>2. requests' \subseteq Ids /\ requestParts' \subseteq Ids
    BY <1>0, <1>1, <1>2 DEF TypeOK
  <2> QED
    BY <1>1, <1>2, <1>3, <1>4, <2>1, <2>2 DEF Tidy, At
<1>10. Undisturbed' /\ At(c, "poll") => result[i] # "none"
  BY <1>1, <1>2, <1>4 DEF At, Undisturbed, Typing
<1>11. Types(c)
  BY <1>1, <1>3 DEF Types, At
<1> QED
  BY <1>2, <1>6, <1>7, <1>8, <1>9, <1>10, <1>11, ClientKeeps

LEMMA KillKeeps ==
    ASSUME ChannelInv, NEW c \in Clients, Kill(c)
    PROVE  ChannelInv'
<1> DEFINE i == client[c].id
<1>0. TypeOK /\ 0 \notin Ids
  BY Naming DEF ChannelInv
<1>1. /\ ~ At(c, "idle") /\ faults < MaxFaults /\ faults' = faults + 1
      /\ client' = [client EXCEPT ![c] = Idle]
      /\ outcome' = [outcome EXCEPT ![client[c].id] = IF @ = "waiting" THEN "unanswered" ELSE @]
      /\ kept' = kept \cup {client[c].id}
      /\ UNCHANGED <<requests, requestParts, result, resultParts, op, commands, lisp, owner,
                     reactor, done>>
  BY DEF Kill, Fault, directory, autocad
<1>2. /\ i \in Ids /\ \A d \in Clients \ {c} : client[d].id # i
      /\ outcome[i] # "unsent"
      /\ client[c].pc \in Typing \cup {"poll"} <=> outcome[i] = "waiting"
      /\ client[c].pc \in {"trigger", "poll"} => i \in requests
  BY <1>1, AtWork DEF At, Typing
<1>3. /\ client'[c].pc = "idle" /\ client'[c].id = 0
      /\ \A d \in Clients \ {c} : client'[d] = client[d]
  BY <1>0, <1>1, Leaving DEF Idle
<1>4. /\ outcome'[i] = (IF outcome[i] = "waiting" THEN "unanswered" ELSE outcome[i])
      /\ \A j \in Ids \ {i} : outcome'[j] = outcome[j]
  BY <1>0, <1>1, <1>2 DEF TypeOK
<1>5. /\ kept \subseteq kept' /\ kept' \subseteq Ids
       /\ faults' \in 0..MaxFaults /\ (faults' = 0 => faults = 0)
  <2>1. kept \subseteq Ids /\ faults \in 0..MaxFaults
    BY <1>0 DEF TypeOK
  <2>2. kept' = kept \/ kept' = kept \cup {i}
    BY <1>1
  <2>3. faults' = faults \/ (faults < MaxFaults /\ faults' = faults + 1)
    BY <1>1
  <2>4. faults' \in 0..MaxFaults /\ (faults' = 0 => faults = 0)
    BY <2>1, <2>3, LispBounds
  <2> QED
    BY <2>1, <2>2, <2>4, <1>2
<1>6. Turn(c, i)
  BY <1>1, <1>2, <1>3, <1>4, <1>5 DEF Turn
<1>7. Lands(c, i)
  BY <1>0, <1>1, <1>2, <1>3, <1>4 DEF Lands, Typing, At
<1>8. commands' \in 0..MaxCalls => TypeOK'
  <2>1. client' \in ClientType
    BY <1>0, <1>1, Leaving DEF Steps
  <2>2. outcome' \in [Ids -> {"unsent", "waiting", "ok", "failed", "unanswered"}]
    BY <1>0, <1>1, <1>2, <1>4 DEF TypeOK
  <2> QED
    BY <1>0, <1>1, <1>2, <1>5, <2>1, <2>2, LispBounds DEF TypeOK, ClientType, Steps
<1>9. Undisturbed' => Tidy(c, i)
  <2> SUFFICES ASSUME Undisturbed' PROVE Tidy(c, i)
    OBVIOUS
  <2>1. /\ i \in requests \cup requestParts =>
             i \in kept \/ client[c].pc \notin {"unlink part", "unlink result"}
        /\ i \in resultParts => i \in kept \/ client[c].pc # "unlink result"
    BY <1>1, <1>2, <1>6, WasTidy, StaysDisturbed DEF At, Typing
  <2>2. requests' \subseteq Ids /\ requestParts' \subseteq Ids
    BY <1>0, <1>1, <1>2 DEF TypeOK
  <2> QED
    BY <1>1, <1>2, <1>3, <1>4, <2>1, <2>2 DEF Tidy, At
<1>10. Undisturbed' /\ At(c, "poll") => result[i] # "none"
  BY <1>1, <1>2, <1>4 DEF At, Undisturbed, Typing
<1>11. Types(c)
  BY <1>1, <1>3 DEF Types, At
<1> QED
  BY <1>2, <1>6, <1>7, <1>8, <1>9, <1>10, <1>11, ClientKeeps

-----------------------------------------------------------------------------
(* The steps of AutoCAD. *)

LispFields == [pc : {"idle", "read", "check", "execute", "report", "write", "rename"},
           id : 0..MaxCalls, envelope : {"none", "ok", "failed"}]

LEMMA Going ==
    ASSUME TypeOK,
           NEW step \in {"read", "check", "execute", "report", "write", "rename"},
           LispGoto(step)
    PROVE  /\ lisp'.pc = step /\ lisp'.id = lisp.id /\ lisp'.envelope = lisp.envelope
           /\ lisp' \in LispFields
<1>1. lisp \in LispFields
  BY DEF TypeOK, LispFields
<1> QED
  BY <1>1 DEF LispGoto, LispFields

LEMMA Answering ==
    ASSUME TypeOK, NEW step \in {"report", "write"}, NEW envelope \in {"ok", "failed"},
           Answer(step, envelope)
    PROVE  /\ lisp'.pc = step /\ lisp'.id = lisp.id /\ lisp'.envelope = envelope
           /\ lisp' \in LispFields
<1>1. lisp \in LispFields
  BY DEF TypeOK, LispFields
<1> QED
  BY <1>1 DEF Answer, LispFields

LEMMA Stopping ==
    ASSUME Stop
    PROVE  lisp'.pc = "idle" /\ lisp'.id = 0 /\ lisp' \in LispFields
BY LispBounds DEF Stop, Asleep, LispFields

\* The clients are left alone, and what changes is about the request of the
\* dispatcher.
Works ==
    /\ UNCHANGED <<requests, requestParts, client, op, outcome, kept>>
    /\ commands' \in Nat /\ commands' <= commands
    /\ lisp'.id \in {0, lisp.id, reactor} \cup requests
    /\ owner' \in {owner, 0, lisp.id} /\ reactor' \in {reactor, 0, lisp.id}
    /\ \A j \in Ids : /\ done'[j] # done[j] => j \in {lisp.id, reactor}
                      /\ result'[j] # result[j] => j = lisp.id
    /\ resultParts' \subseteq (resultParts \cup {lisp.id}) \cap Ids
    /\ faults' = 0 => faults = 0

\* Steps of an expression: no other request is taken up, and an effect happens
\* only at its place.
Serves ==
    /\ lisp'.id \in {0, lisp.id, reactor}
    /\ result' = result \/ (lisp'.id = 0 /\ reactor' = 0)
    /\ \A j \in Ids :
         \/ done'[j] = done[j]
         \/ done'[j] = done[j] + 1 /\ (j = reactor \/ (j = lisp.id /\ Lisp("execute")))
    /\ \A j \in Ids :
         j = reactor' \/ (j = lisp'.id /\ lisp'.pc \in {"read", "check", "execute"}) =>
           /\ done'[j] = done[j]
           /\ j = reactor \/ (j = lisp.id /\ lisp.pc \in {"read", "check", "execute"})

LEMMA ClientInvStays ==
    ASSUME ChannelInv, Works
    PROVE  ClientInv'
<1>1. \A c \in Clients :
        /\ At(c, "idle")' <=> client'[c].id = 0
        /\ ~At(c, "idle")' => outcome'[client'[c].id] # "unsent"
        /\ ~At(c, "idle")' => (Working(c)' <=> outcome'[client'[c].id] = "waiting")
        /\ client'[c].pc \in {"trigger", "poll"} => client'[c].id \in requests'
  BY DEF ChannelInv, ClientInv, Works, At, Working, Waits
<1>2. \A c, d \in Clients : client'[c].id = client'[d].id /\ client'[c].id # 0 => c = d
  BY DEF ChannelInv, ClientInv, Works
<1>3. \A j \in Ids : outcome'[j] = "waiting" => \E c \in Clients : client'[c].id = j
  BY DEF ChannelInv, ClientInv, Works, Waits
<1>4. ASSUME NEW j \in Ids, outcome'[j] = "unsent"
      PROVE  /\ j \notin requests' \cup requestParts' \cup resultParts'
             /\ result'[j] = "none" /\ done'[j] = 0 /\ lisp'.id # j /\ owner' # j
  <2>1. outcome[j] = "unsent"
    BY <1>4 DEF Works
  <2>2. /\ j \notin requests \cup requestParts \cup resultParts
        /\ result[j] = "none" /\ done[j] = 0 /\ lisp.id # j /\ owner # j
    BY <2>1 DEF ChannelInv, ClientInv
  <2>3. reactor # j /\ j # 0
    BY <2>2, Naming DEF ChannelInv
  <2> QED
    BY <2>2, <2>3 DEF Works
<1> QED
  BY <1>1, <1>2, <1>3, <1>4 DEF ClientInv, Working, Waits, At

LEMMA FilesInvStays ==
    ASSUME ChannelInv, Works
    PROVE  FilesInv'
<1> SUFFICES ASSUME Undisturbed'
             PROVE  /\ \A j \in requests' \cup requestParts' : j \in kept' \/ \E d \in Clients :
                         client'[d].id = j /\ client'[d].pc \notin {"unlink part", "unlink result"}
                    /\ \A j \in resultParts' : j \in kept' \/ \E d \in Clients :
                         client'[d].id = j /\ client'[d].pc # "unlink result"
                    /\ \A j \in Results' : j \in kept' \/ \E d \in Clients : client'[d].id = j
  BY DEF FilesInv
<1>1. Undisturbed
  BY DEF Works, Undisturbed
<1>2. lisp.id \in Ids => \E d \in Clients : client[d].id = lisp.id /\ client[d].pc = "poll"
  BY <1>1 DEF ChannelInv, OnceInv, Polling, At
<1>3. Results' \subseteq Results \cup ({lisp.id} \cap Ids)
  BY DEF Works, Results
<1>4. \A j \in requests' \cup requestParts' : j \in kept' \/ \E d \in Clients :
         client'[d].id = j /\ client'[d].pc \notin {"unlink part", "unlink result"}
  <2>1. \A j \in requests \cup requestParts : j \in kept \/ \E d \in Clients :
          client[d].id = j /\ client[d].pc \notin {"unlink part", "unlink result"}
    BY <1>1 DEF ChannelInv, FilesInv
  <2> QED
    BY <2>1 DEF Works
<1>5. ASSUME NEW j \in resultParts'
      PROVE  j \in kept' \/ \E d \in Clients : client'[d].id = j /\ client'[d].pc # "unlink result"
  <2>1. CASE j \in resultParts
    <3>1. j \in kept \/ \E d \in Clients : client[d].id = j /\ client[d].pc # "unlink result"
      BY <2>1, <1>1 DEF ChannelInv, FilesInv
    <3> QED
      BY <3>1 DEF Works
  <2>2. CASE j = lisp.id
    <3>1. PICK d \in Clients : client[d].id = j /\ client[d].pc = "poll"
      BY <2>2, <1>2, <1>5 DEF Works
    <3> QED
      BY <3>1 DEF Works
  <2> QED
    BY <2>1, <2>2, <1>5 DEF Works
<1>6. ASSUME NEW j \in Results'
      PROVE  j \in kept' \/ \E d \in Clients : client'[d].id = j
  <2>1. CASE j \in Results
    <3>1. j \in kept \/ \E d \in Clients : client[d].id = j
      BY <2>1, <1>1 DEF ChannelInv, FilesInv
    <3> QED
      BY <3>1 DEF Works
  <2>2. CASE j = lisp.id
    <3>1. PICK d \in Clients : client[d].id = j
      BY <2>2, <1>2, <1>6 DEF Results
    <3> QED
      BY <3>1 DEF Works
  <2> QED
    BY <2>1, <2>2, <1>3, <1>6
<1> QED
  BY <1>4, <1>5, <1>6

LEMMA CommandInvStays ==
    ASSUME ChannelInv, Works
    PROVE  CommandInv' /\ commands' \in 0..MaxCalls
<1>1. Triggered' = Triggered
  BY DEF Works, Triggered
<1>2. commands \in Nat /\ commands <= Cardinality(Triggered) /\ Triggered \in SUBSET Ids
  BY DEF ChannelInv, CommandInv, Triggered
<1>3. Cardinality(Triggered) \in 0..MaxCalls
  BY <1>2, CallsAreBounded
<1>4. commands' \in Nat /\ commands' <= commands
  BY DEF Works
<1> QED
  BY <1>1, <1>2, <1>3, <1>4, LispBounds DEF CommandInv

LEMMA OnceInvStays ==
    ASSUME ChannelInv, Works, Serves
    PROVE  OnceInv'
<1> SUFFICES ASSUME Undisturbed'
             PROVE  /\ commands' <= Cardinality(Polling' \ Taken')
                    /\ \A j \in Ids : done'[j] <= 1
                    /\ \A j \in Ids : j = lisp'.id \/ j = reactor' =>
                         j \in Polling' /\ result'[j] = "none"
                    /\ \A j \in Ids : j = reactor'
                           \/ (j = lisp'.id /\ lisp'.pc \in {"read", "check", "execute"}) =>
                         done'[j] = 0
                    /\ \A d \in Clients : client'[d].pc \in Typing => client'[d].id \notin Taken'
  BY DEF OnceInv, Typing
<1>0. 0 \notin Ids /\ commands \in Nat /\ done \in [Ids -> Nat]
  BY Naming DEF ChannelInv, CommandInv, TypeOK
<1>1. /\ commands <= Cardinality(Polling \ Taken)
      /\ \A j \in Ids : done[j] <= 1
      /\ \A j \in Ids : j = lisp.id \/ j = reactor => j \in Polling /\ result[j] = "none"
      /\ \A j \in Ids : j = reactor
             \/ (j = lisp.id /\ lisp.pc \in {"read", "check", "execute"}) => done[j] = 0
      /\ \A d \in Clients : client[d].pc \in Typing => client[d].id \notin Taken
  <2>1. Undisturbed
    BY DEF Works, Undisturbed
  <2> QED
    BY <2>1 DEF ChannelInv, OnceInv, Typing
<1>2. Polling' = Polling
  BY DEF Works, Polling, At
<1>3. Taken' \subseteq Taken
  <2> SUFFICES ASSUME NEW j \in Taken' PROVE j \in Taken
    OBVIOUS
  <2>1. j \in Ids /\ (done'[j] > 0 \/ lisp'.id = j \/ reactor' = j \/ result'[j] # "none")
    BY DEF Taken
  <2>2. done[j] > 0 \/ lisp.id = j \/ reactor = j \/ result[j] # "none"
    BY <2>1, <1>0 DEF Works, Serves
  <2> QED
    BY <2>1, <2>2 DEF Taken
<1>4. commands' <= Cardinality(Polling' \ Taken')
  <2>1. /\ Polling \ Taken \in SUBSET Ids /\ Polling' \ Taken' \in SUBSET Ids
        /\ Polling \ Taken \subseteq Polling' \ Taken'
    BY <1>2, <1>3 DEF Polling
  <2>2. /\ Cardinality(Polling \ Taken) \in Nat /\ Cardinality(Polling' \ Taken') \in Nat
        /\ Cardinality(Polling \ Taken) <= Cardinality(Polling' \ Taken')
    BY <2>1, Fewer
  <2>3. commands' \in Nat /\ commands' <= commands
    BY DEF Works
  <2> QED
    BY <2>2, <2>3, <1>0, <1>1
<1>5. \A j \in Ids : done'[j] <= 1
  BY <1>0, <1>1 DEF Serves, Lisp
<1>6. \A j \in Ids : j = lisp'.id \/ j = reactor' => j \in Polling' /\ result'[j] = "none"
  BY <1>0, <1>1, <1>2 DEF Serves, Works
<1>7. \A j \in Ids : j = reactor'
         \/ (j = lisp'.id /\ lisp'.pc \in {"read", "check", "execute"}) => done'[j] = 0
  BY <1>1 DEF Serves
<1>8. \A d \in Clients : client'[d].pc \in Typing => client'[d].id \notin Taken'
  BY <1>1, <1>3 DEF Works
<1> QED
  BY <1>4, <1>5, <1>6, <1>7, <1>8

\* A step of an expression preserves everything if it preserves what is said of
\* the dispatcher and its answers.
LEMMA ServingKeeps ==
    ASSUME ChannelInv, Works, Serves, commands' \in 0..MaxCalls => TypeOK',
           LispInv', AnswerInv', WaitInv'
    PROVE  ChannelInv'
BY ClientInvStays, FilesInvStays, CommandInvStays, OnceInvStays DEF ChannelInv

LEMMA CommandsAre == ChannelInv => commands \in Nat
BY DEF ChannelInv, CommandInv

LEMMA Happening ==
    ASSUME TypeOK, NEW i \in Ids, Happens(i)
    PROVE  /\ done' \in [Ids -> Nat]
           /\ done'[i] = done[i] + 1 /\ done'[i] > 0
           /\ \A j \in Ids \ {i} : done'[j] = done[j]
<1>1. done \in [Ids -> Nat]
  BY DEF TypeOK
<1>2. done' = [done EXCEPT ![i] = done[i] + 1]
  BY DEF Happens
<1> QED
  BY <1>1, <1>2

LEMMA ReadKeeps ==
    ASSUME ChannelInv, Read
    PROVE  ChannelInv'
<1>0. /\ TypeOK /\ LispInv /\ AnswerInv /\ WaitInv
      /\ 0 \notin Ids /\ lisp.id \in Ids \cup {0} /\ reactor \in {0, owner}
      /\ owner \in Ids \cup {0}
  BY Naming DEF ChannelInv
<1>1. /\ lisp.pc = "read"
      /\ IF lisp.id \in requests THEN LispGoto("check") ELSE Answer("report", "failed")
      /\ UNCHANGED <<requests, requestParts, result, resultParts, client, op, outcome,
                     commands, owner, reactor, done, kept, faults>>
  BY DEF Read, directory, calls, Lisp
<1>2. /\ \/ lisp'.pc = "check"
         \/ lisp'.pc = "report" /\ lisp'.envelope = "failed"
      /\ lisp'.id = lisp.id /\ lisp' \in LispFields /\ lisp.id \in Ids
  BY <1>0, <1>1, Going, Answering DEF LispInv, Lisp
<1>3. Works
  <2>1. commands' \in Nat /\ commands' <= commands
    BY <1>1, CommandsAre
  <2>2. resultParts \subseteq Ids
    BY <1>0 DEF TypeOK
  <2> QED
    BY <1>0, <1>1, <1>2, <2>1, <2>2 DEF Works
<1>4. Serves
  BY <1>0, <1>1, <1>2 DEF Serves, Lisp
<1>5. commands' \in 0..MaxCalls => TypeOK'
  BY <1>0, <1>1, <1>2, LispBounds DEF TypeOK, LispFields
<1>6. LispInv'
  BY <1>0, <1>1, <1>2 DEF LispInv, Busy, Lisp, SlotFree
<1>7. AnswerInv'
  BY <1>0, <1>1, <1>2 DEF AnswerInv, LispInv, Lisp, Waits, SlotFree
<1>8. WaitInv'
  BY <1>0, <1>1, <1>2 DEF WaitInv, AnswerInv, LispInv, Lisp, Waits, SlotFree
<1> QED
  BY <1>3, <1>4, <1>5, <1>6, <1>7, <1>8, ServingKeeps

LEMMA CheckKeeps ==
    ASSUME ChannelInv, Check
    PROVE  ChannelInv'
<1>0. /\ TypeOK /\ LispInv /\ AnswerInv /\ WaitInv
      /\ 0 \notin Ids /\ lisp.id \in Ids \cup {0} /\ reactor \in {0, owner}
      /\ owner \in Ids \cup {0}
  BY Naming DEF ChannelInv
<1>1. /\ lisp.pc = "check"
      /\ IF owner = 0 /\ SlotFree(lisp.id)
           THEN LispGoto("execute") ELSE Answer("report", "failed")
      /\ UNCHANGED <<requests, requestParts, result, resultParts, client, op, outcome,
                     commands, owner, reactor, done, kept, faults>>
  BY DEF Check, directory, calls, Lisp
<1>2. /\ \/ lisp'.pc = "execute" /\ owner = 0 /\ SlotFree(lisp.id)
         \/ lisp'.pc = "report" /\ lisp'.envelope = "failed"
      /\ lisp'.id = lisp.id /\ lisp' \in LispFields /\ lisp.id \in Ids
  BY <1>0, <1>1, Going, Answering DEF LispInv, Lisp
<1>3. Works
  <2>1. commands' \in Nat /\ commands' <= commands
    BY <1>1, CommandsAre
  <2>2. resultParts \subseteq Ids
    BY <1>0 DEF TypeOK
  <2> QED
    BY <1>0, <1>1, <1>2, <2>1, <2>2 DEF Works
<1>4. Serves
  BY <1>0, <1>1, <1>2 DEF Serves, Lisp
<1>5. commands' \in 0..MaxCalls => TypeOK'
  BY <1>0, <1>1, <1>2, LispBounds DEF TypeOK, LispFields
<1>6. LispInv'
  BY <1>0, <1>1, <1>2 DEF LispInv, Busy, Lisp, SlotFree
<1>7. AnswerInv'
  BY <1>0, <1>1, <1>2 DEF AnswerInv, LispInv, Lisp, Waits, SlotFree
<1>8. WaitInv'
  BY <1>0, <1>1, <1>2 DEF WaitInv, AnswerInv, LispInv, Lisp, Waits, SlotFree
<1> QED
  BY <1>3, <1>4, <1>5, <1>6, <1>7, <1>8, ServingKeeps

LEMMA ExecuteKeeps ==
    ASSUME ChannelInv, Execute
    PROVE  ChannelInv'
<1>0. /\ TypeOK /\ LispInv /\ AnswerInv /\ WaitInv
      /\ 0 \notin Ids /\ lisp.id \in Ids \cup {0} /\ reactor \in {0, owner}
      /\ owner \in Ids \cup {0}
  BY Naming DEF ChannelInv
<1>1. /\ lisp.pc = "execute" /\ op[lisp.id] # "close"
      /\ \/ Answer("report", "failed") /\ done' = done
         \/ /\ \E envelope \in {"ok", "failed"} :
                  Answer(IF envelope = "ok" THEN "write" ELSE "report", envelope)
            /\ Happens(lisp.id)
      /\ UNCHANGED <<requests, requestParts, result, resultParts, client, op, outcome,
                     commands, owner, reactor, kept, faults>>
  BY DEF Execute, directory, calls, Lisp
<1>2. /\ \/ /\ lisp'.pc = "report" /\ lisp'.envelope = "failed"
            /\ done'[lisp.id] \in {done[lisp.id], done[lisp.id] + 1}
         \/ /\ lisp'.pc = "write" /\ lisp'.envelope = "ok"
            /\ done'[lisp.id] = done[lisp.id] + 1 /\ done'[lisp.id] > 0
      /\ done' \in [Ids -> Nat] /\ \A j \in Ids \ {lisp.id} : done'[j] = done[j]
      /\ lisp'.id = lisp.id /\ lisp' \in LispFields /\ lisp.id \in Ids
      /\ owner = 0 /\ SlotFree(lisp.id) /\ reactor = 0
  <2>1. /\ lisp.id \in Ids /\ owner = 0 /\ SlotFree(lisp.id) /\ reactor = 0
        /\ done \in [Ids -> Nat]
    BY <1>0, <1>1 DEF LispInv, Lisp, Busy, TypeOK
  <2>2. CASE Answer("report", "failed") /\ done' = done
    BY <1>0, <2>1, <2>2, Answering
  <2>3. ASSUME NEW envelope \in {"ok", "failed"}, Happens(lisp.id),
               Answer(IF envelope = "ok" THEN "write" ELSE "report", envelope)
        PROVE  <1>2!:
    BY <1>0, <2>1, <2>3, Answering, Happening
  <2> QED
    BY <1>1, <2>2, <2>3
<1>3. Works
  <2>1. commands' \in Nat /\ commands' <= commands
    BY <1>1, CommandsAre
  <2>2. resultParts \subseteq Ids
    BY <1>0 DEF TypeOK
  <2> QED
    BY <1>0, <1>1, <1>2, <2>1, <2>2 DEF Works
<1>4. Serves
  BY <1>0, <1>1, <1>2 DEF Serves, Lisp
<1>5. commands' \in 0..MaxCalls => TypeOK'
  BY <1>0, <1>1, <1>2, LispBounds DEF TypeOK, LispFields
<1>6. LispInv'
  BY <1>0, <1>1, <1>2 DEF LispInv, Busy, Lisp, SlotFree
<1>7. AnswerInv'
  BY <1>0, <1>1, <1>2 DEF AnswerInv, LispInv, Lisp, Waits, SlotFree
<1>8. WaitInv'
  <2> SUFFICES ASSUME faults = 0 PROVE WaitInv'
    BY <1>1 DEF WaitInv
  <2>1. resultParts = {}
    BY <1>0, <1>1 DEF WaitInv, Lisp
  <2>2. lisp.id \in Ids => ~(Waits(lisp.id) /\ done[lisp.id] > 0)
    BY <1>0, <1>1, <1>2 DEF WaitInv, Lisp, SlotFree
  <2>3. Waits(lisp.id) => done[lisp.id] = 0
    <3>1. done \in [Ids -> Nat]
      BY <1>0 DEF TypeOK
    <3> QED
      BY <3>1, <1>2, <2>2
  <2>4. ASSUME NEW j \in Ids, outcome'[j] = "waiting", done'[j] > 0
        PROVE  /\ done'[j] = 1
               /\ \/ lisp'.id = j /\ lisp'.pc \in {"report", "write", "rename"}
                  \/ result'[j] # "none"
                  \/ owner' = j
    <3>1. CASE j = lisp.id
      BY <3>1, <2>3, <2>4, <1>1, <1>2 DEF Waits
    <3>2. CASE j # lisp.id
      BY <3>2, <2>4, <1>0, <1>1, <1>2 DEF WaitInv, Waits
    <3> QED
      BY <3>1, <3>2
  <2> QED
    BY <1>1, <1>2, <2>1, <2>4 DEF WaitInv, Lisp, Waits
<1> QED
  BY <1>3, <1>4, <1>5, <1>6, <1>7, <1>8, ServingKeeps

LEMMA DeferCloseKeeps ==
    ASSUME ChannelInv, DeferClose
    PROVE  ChannelInv'
<1>0. /\ TypeOK /\ LispInv /\ AnswerInv /\ WaitInv
      /\ 0 \notin Ids /\ lisp.id \in Ids \cup {0} /\ reactor \in {0, owner}
      /\ owner \in Ids \cup {0}
  BY Naming DEF ChannelInv
<1>1. /\ lisp.pc = "execute" /\ op[lisp.id] = "close"
      /\ \/ Answer("report", "failed") /\ UNCHANGED <<owner, reactor>>
         \/ owner' = lisp.id /\ reactor' = lisp.id /\ Stop
      /\ UNCHANGED <<requests, requestParts, result, resultParts, client, op, outcome,
                     commands, done, kept, faults>>
  BY DEF DeferClose, directory, calls, Lisp
<1>2. /\ \/ /\ lisp'.pc = "report" /\ lisp'.envelope = "failed" /\ lisp'.id = lisp.id
            /\ owner' = owner /\ reactor' = reactor
         \/ /\ lisp'.pc = "idle" /\ lisp'.id = 0
            /\ owner' = lisp.id /\ reactor' = lisp.id
      /\ lisp' \in LispFields /\ lisp.id \in Ids
      /\ owner = 0 /\ SlotFree(lisp.id) /\ reactor = 0
  BY <1>0, <1>1, Answering, Stopping DEF LispInv, Lisp, Busy
<1>3. Works
  <2>1. commands' \in Nat /\ commands' <= commands
    BY <1>1, CommandsAre
  <2>2. resultParts \subseteq Ids
    BY <1>0 DEF TypeOK
  <2> QED
    BY <1>0, <1>1, <1>2, <2>1, <2>2 DEF Works
<1>4. Serves
  BY <1>0, <1>1, <1>2 DEF Serves, Lisp
<1>5. commands' \in 0..MaxCalls => TypeOK'
  BY <1>0, <1>1, <1>2, LispBounds DEF TypeOK, LispFields
<1>6. LispInv'
  BY <1>0, <1>1, <1>2 DEF LispInv, Busy, Lisp, SlotFree
<1>7. AnswerInv'
  BY <1>0, <1>1, <1>2 DEF AnswerInv, LispInv, Lisp, Waits, SlotFree
<1>8. WaitInv'
  BY <1>0, <1>1, <1>2 DEF WaitInv, AnswerInv, LispInv, Lisp, Waits, SlotFree
<1> QED
  BY <1>3, <1>4, <1>5, <1>6, <1>7, <1>8, ServingKeeps

LEMMA ReportKeeps ==
    ASSUME ChannelInv, Report
    PROVE  ChannelInv'
<1>0. /\ TypeOK /\ LispInv /\ AnswerInv /\ WaitInv
      /\ 0 \notin Ids /\ lisp.id \in Ids \cup {0} /\ reactor \in {0, owner}
      /\ owner \in Ids \cup {0}
  BY Naming DEF ChannelInv
<1>1. /\ lisp.pc = "report"
      /\ IF owner # lisp.id /\ result[lisp.id] = "none" THEN LispGoto("write") ELSE Stop
      /\ UNCHANGED <<requests, requestParts, result, resultParts, client, op, outcome,
                     commands, owner, reactor, done, kept, faults>>
  BY DEF Report, directory, calls, Lisp
<1>2. /\ \/ /\ owner # lisp.id /\ result[lisp.id] = "none"
            /\ lisp'.pc = "write" /\ lisp'.id = lisp.id /\ lisp'.envelope = "failed"
         \/ /\ owner = lisp.id \/ result[lisp.id] # "none"
            /\ lisp'.pc = "idle" /\ lisp'.id = 0
      /\ lisp' \in LispFields /\ lisp.id \in Ids /\ reactor = 0
  BY <1>0, <1>1, Going, Stopping DEF LispInv, Lisp, Busy
<1>3. Works
  <2>1. commands' \in Nat /\ commands' <= commands
    BY <1>1, CommandsAre
  <2>2. resultParts \subseteq Ids
    BY <1>0 DEF TypeOK
  <2> QED
    BY <1>0, <1>1, <1>2, <2>1, <2>2 DEF Works
<1>4. Serves
  BY <1>0, <1>1, <1>2 DEF Serves, Lisp
<1>5. commands' \in 0..MaxCalls => TypeOK'
  BY <1>0, <1>1, <1>2, LispBounds DEF TypeOK, LispFields
<1>6. LispInv'
  BY <1>0, <1>1, <1>2 DEF LispInv, Busy, Lisp, SlotFree
<1>7. AnswerInv'
  BY <1>0, <1>1, <1>2 DEF AnswerInv, LispInv, Lisp, Waits, SlotFree
<1>8. WaitInv'
  BY <1>0, <1>1, <1>2 DEF WaitInv, AnswerInv, LispInv, Lisp, Waits, SlotFree
<1> QED
  BY <1>3, <1>4, <1>5, <1>6, <1>7, <1>8, ServingKeeps

LEMMA ReactKeeps ==
    ASSUME ChannelInv, React
    PROVE  ChannelInv'
<1>0. /\ TypeOK /\ LispInv /\ AnswerInv /\ WaitInv
      /\ 0 \notin Ids /\ lisp.id \in Ids \cup {0} /\ reactor \in {0, owner}
      /\ owner \in Ids \cup {0}
  BY Naming DEF ChannelInv
<1>1. /\ lisp.pc = "idle" /\ reactor # 0 /\ reactor' = 0
      /\ LET Reply(envelope) == lisp' = [pc |-> "write", id |-> reactor, envelope |-> envelope] IN
         IF SlotFree(reactor)
           THEN \/ Reply("ok") /\ Happens(reactor)
                \/ Reply("failed") /\ UNCHANGED done
           ELSE Stop /\ UNCHANGED done
      /\ UNCHANGED <<requests, requestParts, result, resultParts, client, op, outcome,
                     commands, owner, kept, faults>>
  BY DEF React, directory, calls, Lisp
<1>2. /\ \/ /\ SlotFree(reactor) /\ lisp'.pc = "write" /\ lisp'.id = reactor
            /\ \/ lisp'.envelope = "ok" /\ done'[reactor] = done[reactor] + 1
                  /\ done'[reactor] > 0
               \/ lisp'.envelope = "failed" /\ done' = done
         \/ /\ ~SlotFree(reactor) /\ done' = done
            /\ lisp'.pc = "idle" /\ lisp'.id = 0
      /\ lisp' \in LispFields /\ lisp.id = 0 /\ reactor \in Ids /\ reactor = owner
      /\ op[reactor] = "close"
      /\ done' \in [Ids -> Nat] /\ \A j \in Ids \ {reactor} : done'[j] = done[j]
  <2>1. lisp.id = 0 /\ reactor \in Ids /\ reactor = owner /\ op[reactor] = "close"
    BY <1>0, <1>1 DEF LispInv, Lisp
  <2>2. reactor \in 0..MaxCalls
    BY <2>1, LispBounds DEF Ids
  <2>3. done \in [Ids -> Nat]
    BY <1>0 DEF TypeOK
  <2> QED
    BY <1>0, <1>1, <2>1, <2>2, <2>3, Stopping, Happening DEF LispFields
<1>3. Works
  <2>1. commands' \in Nat /\ commands' <= commands
    BY <1>1, CommandsAre
  <2>2. resultParts \subseteq Ids
    BY <1>0 DEF TypeOK
  <2> QED
    BY <1>0, <1>1, <1>2, <2>1, <2>2 DEF Works
<1>4. Serves
  BY <1>0, <1>1, <1>2 DEF Serves, Lisp
<1>5. commands' \in 0..MaxCalls => TypeOK'
  BY <1>0, <1>1, <1>2, LispBounds DEF TypeOK, LispFields
<1>6. LispInv'
  BY <1>0, <1>1, <1>2 DEF LispInv, Busy, Lisp, SlotFree
<1>7. AnswerInv'
  BY <1>0, <1>1, <1>2 DEF AnswerInv, LispInv, Lisp, Waits, SlotFree
<1>8. WaitInv'
  <2> SUFFICES ASSUME faults = 0 PROVE WaitInv'
    BY <1>1 DEF WaitInv
  <2>1. resultParts = {}
    BY <1>0, <1>1 DEF WaitInv, Lisp
  <2>2. ~(Waits(reactor) /\ done[reactor] > 0)
    BY <1>0, <1>2 DEF AnswerInv
  <2>3. Waits(reactor) => done[reactor] = 0
    <3>1. done \in [Ids -> Nat]
      BY <1>0 DEF TypeOK
    <3> QED
      BY <3>1, <1>2, <2>2
  <2>4. ASSUME NEW j \in Ids, outcome'[j] = "waiting", done'[j] > 0
        PROVE  /\ done'[j] = 1
               /\ \/ lisp'.id = j /\ lisp'.pc \in {"report", "write", "rename"}
                  \/ result'[j] # "none"
                  \/ owner' = j
    <3>1. CASE j = reactor
      BY <3>1, <2>3, <2>4, <1>1, <1>2 DEF Waits
    <3>2. CASE j # reactor
      BY <3>2, <2>4, <1>0, <1>1, <1>2 DEF WaitInv, Waits
    <3> QED
      BY <3>1, <3>2
  <2> QED
    BY <1>1, <1>2, <2>1, <2>4 DEF WaitInv, Lisp, Waits
<1> QED
  BY <1>3, <1>4, <1>5, <1>6, <1>7, <1>8, ServingKeeps

LEMMA WriteResultPartKeeps ==
    ASSUME ChannelInv, WriteResultPart
    PROVE  ChannelInv'
<1>0. /\ TypeOK /\ LispInv /\ AnswerInv /\ WaitInv
      /\ 0 \notin Ids /\ lisp.id \in Ids \cup {0} /\ reactor \in {0, owner}
      /\ owner \in Ids \cup {0}
  BY Naming DEF ChannelInv
<1>1. /\ lisp.pc = "write"
      /\ \/ /\ SlotFree(lisp.id)
            /\ resultParts' = resultParts \cup {lisp.id}
            /\ LispGoto("rename")
            /\ UNCHANGED faults
         \/ /\ ~ SlotFree(lisp.id)
            /\ NotWritten
            /\ UNCHANGED <<resultParts, faults>>
         \/ Fault /\ NotWritten /\ UNCHANGED resultParts
      /\ UNCHANGED <<requests, requestParts, result, client, op, outcome, commands, owner,
                     reactor, done, kept>>
  BY DEF WriteResultPart, directory, calls, Lisp
<1>2. /\ \/ /\ SlotFree(lisp.id) /\ resultParts' = resultParts \cup {lisp.id}
            /\ lisp'.pc = "rename" /\ lisp'.id = lisp.id /\ lisp'.envelope = lisp.envelope
            /\ faults' = faults
         \/ /\ ~SlotFree(lisp.id) \/ faults' # 0
            /\ resultParts' = resultParts
            /\ \/ /\ lisp'.pc = "report" /\ lisp'.id = lisp.id /\ lisp'.envelope = "failed"
                  /\ owner # lisp.id
               \/ /\ lisp'.pc = "idle" /\ lisp'.id = 0
                  /\ owner = lisp.id \/ lisp.envelope = "failed"
      /\ faults' \in 0..MaxFaults /\ (faults' = 0 => faults = 0)
      /\ lisp' \in LispFields /\ lisp.id \in Ids /\ reactor = 0
      /\ lisp.envelope \in {"ok", "failed"}
  <2>0. /\ faults \in 0..MaxFaults /\ lisp.id \in Ids /\ reactor = 0
        /\ lisp.envelope \in {"ok", "failed"}
    BY <1>0, <1>1 DEF TypeOK, LispInv, Lisp, Busy
  <2>1. NotWritten => /\ lisp' \in LispFields
                      /\ \/ /\ lisp'.pc = "report" /\ lisp'.id = lisp.id
                            /\ lisp'.envelope = "failed" /\ owner # lisp.id
                         \/ /\ lisp'.pc = "idle" /\ lisp'.id = 0
                            /\ owner = lisp.id \/ lisp.envelope = "failed"
    BY <1>0, <2>0, Answering, Stopping DEF NotWritten
  <2>2. Fault => faults' \in 0..MaxFaults /\ faults' # 0
    BY <2>0, LispBounds DEF Fault
  <2> QED
    BY <1>0, <1>1, <2>0, <2>1, <2>2, Going
<1>3. Works
  <2>1. commands' \in Nat /\ commands' <= commands
    BY <1>1, CommandsAre
  <2>2. resultParts \subseteq Ids
    BY <1>0 DEF TypeOK
  <2> QED
    BY <1>0, <1>1, <1>2, <2>1, <2>2 DEF Works
<1>4. Serves
  BY <1>0, <1>1, <1>2 DEF Serves, Lisp
<1>5. commands' \in 0..MaxCalls => TypeOK'
  BY <1>0, <1>1, <1>2, LispBounds DEF TypeOK, LispFields
<1>6. LispInv'
  BY <1>0, <1>1, <1>2 DEF LispInv, Busy, Lisp, SlotFree
<1>7. AnswerInv'
  BY <1>0, <1>1, <1>2 DEF AnswerInv, LispInv, Lisp, Waits, SlotFree
<1>8. WaitInv'
  BY <1>0, <1>1, <1>2 DEF WaitInv, AnswerInv, LispInv, Lisp, Waits, SlotFree
<1> QED
  BY <1>3, <1>4, <1>5, <1>6, <1>7, <1>8, ServingKeeps

LEMMA CommitKeeps ==
    ASSUME ChannelInv, Commit
    PROVE  ChannelInv'
<1>0. /\ TypeOK /\ LispInv /\ AnswerInv /\ WaitInv
      /\ 0 \notin Ids /\ lisp.id \in Ids \cup {0} /\ reactor \in {0, owner}
      /\ owner \in Ids \cup {0}
  BY Naming DEF ChannelInv
<1>1. /\ lisp.pc = "rename"
      /\ \/ /\ lisp.id \in resultParts
            /\ result' = [result EXCEPT ![lisp.id] = lisp.envelope]
            /\ resultParts' = resultParts \ {lisp.id}
            /\ owner' = IF owner = lisp.id THEN 0 ELSE owner
            /\ Stop
            /\ UNCHANGED faults
         \/ /\ (lisp.id \notin resultParts /\ UNCHANGED faults) \/ Fault
            /\ NotWritten
            /\ UNCHANGED <<result, resultParts, owner>>
      /\ UNCHANGED <<requests, requestParts, client, op, outcome, commands, reactor, done, kept>>
  BY DEF Commit, directory, calls, Lisp
<1>2. /\ \/ /\ lisp.id \in resultParts /\ resultParts' = resultParts \ {lisp.id}
            /\ result'[lisp.id] = lisp.envelope
            /\ owner' = IF owner = lisp.id THEN 0 ELSE owner
            /\ lisp'.pc = "idle" /\ lisp'.id = 0
         \/ /\ lisp.id \notin resultParts \/ faults' # 0
            /\ result' = result /\ resultParts' = resultParts /\ owner' = owner
            /\ \/ /\ lisp'.pc = "report" /\ lisp'.id = lisp.id /\ lisp'.envelope = "failed"
                  /\ owner # lisp.id
               \/ /\ lisp'.pc = "idle" /\ lisp'.id = 0
                  /\ owner = lisp.id \/ lisp.envelope = "failed"
      /\ faults' \in 0..MaxFaults /\ (faults' = 0 => faults = 0)
      /\ lisp' \in LispFields /\ lisp.id \in Ids /\ reactor = 0
      /\ lisp.envelope \in {"ok", "failed"}
      /\ result' \in [Ids -> {"none", "ok", "failed"}]
      /\ \A j \in Ids \ {lisp.id} : result'[j] = result[j]
  <2>0. /\ faults \in 0..MaxFaults /\ lisp.id \in Ids /\ reactor = 0
        /\ lisp.envelope \in {"ok", "failed"}
        /\ result \in [Ids -> {"none", "ok", "failed"}]
    BY <1>0, <1>1 DEF TypeOK, LispInv, Lisp, Busy
  <2>1. NotWritten => /\ lisp' \in LispFields
                      /\ \/ /\ lisp'.pc = "report" /\ lisp'.id = lisp.id
                            /\ lisp'.envelope = "failed" /\ owner # lisp.id
                         \/ /\ lisp'.pc = "idle" /\ lisp'.id = 0
                            /\ owner = lisp.id \/ lisp.envelope = "failed"
    BY <1>0, <2>0, Answering, Stopping DEF NotWritten
  <2>2. Fault => faults' \in 0..MaxFaults /\ faults' # 0
    BY <2>0, LispBounds DEF Fault
  <2> QED
    BY <1>1, <2>0, <2>1, <2>2, Stopping
<1>3. Works
  <2>1. commands' \in Nat /\ commands' <= commands
    BY <1>1, CommandsAre
  <2>2. resultParts \subseteq Ids
    BY <1>0 DEF TypeOK
  <2> QED
    BY <1>0, <1>1, <1>2, <2>1, <2>2 DEF Works
<1>4. Serves
  BY <1>0, <1>1, <1>2 DEF Serves, Lisp
<1>5. commands' \in 0..MaxCalls => TypeOK'
  <2>1. owner' \in {owner, 0} /\ reactor' = 0 /\ resultParts' \subseteq resultParts
    BY <1>1, <1>2
  <2>2. owner' \in 0..MaxCalls /\ reactor' \in {0, owner'} /\ resultParts' \subseteq Ids
    <3>1. owner \in 0..MaxCalls /\ resultParts \subseteq Ids
      BY <1>0 DEF TypeOK
    <3> QED
      BY <3>1, <2>1, LispBounds
  <2> QED
    BY <1>0, <1>1, <1>2, <2>2 DEF TypeOK, LispFields
<1>6. LispInv'
  BY <1>0, <1>1, <1>2 DEF LispInv, Busy, Lisp, SlotFree
<1>7. AnswerInv'
  BY <1>0, <1>1, <1>2 DEF AnswerInv, LispInv, Lisp, Waits, SlotFree
<1>8. WaitInv'
  BY <1>0, <1>1, <1>2 DEF WaitInv, AnswerInv, LispInv, Lisp, Waits, SlotFree
<1> QED
  BY <1>3, <1>4, <1>5, <1>6, <1>7, <1>8, ServingKeeps

LEMMA CancelKeeps ==
    ASSUME ChannelInv, Cancel
    PROVE  ChannelInv'
<1>0. /\ TypeOK /\ LispInv /\ AnswerInv /\ WaitInv
      /\ 0 \notin Ids /\ lisp.id \in Ids \cup {0} /\ reactor \in {0, owner}
      /\ owner \in Ids \cup {0}
  BY Naming DEF ChannelInv
<1>1. /\ lisp.pc # "idle" /\ Fault /\ Stop
      /\ UNCHANGED <<requests, requestParts, result, resultParts, client, op, outcome,
                     commands, owner, reactor, done, kept>>
  BY DEF Cancel, directory, calls, Lisp
<1>2. /\ lisp'.pc = "idle" /\ lisp'.id = 0 /\ lisp' \in LispFields /\ reactor = 0
      /\ faults' \in 0..MaxFaults /\ faults' # 0
  <2>1. faults \in 0..MaxFaults
    BY <1>0 DEF TypeOK
  <2> QED
    BY <1>0, <1>1, <2>1, Stopping, LispBounds DEF Fault, LispInv, Lisp, Busy
<1>3. Works
  <2>1. commands' \in Nat /\ commands' <= commands
    BY <1>1, CommandsAre
  <2>2. resultParts \subseteq Ids
    BY <1>0 DEF TypeOK
  <2> QED
    BY <1>0, <1>1, <1>2, <2>1, <2>2 DEF Works
<1>4. Serves
  BY <1>0, <1>1, <1>2 DEF Serves, Lisp
<1>5. commands' \in 0..MaxCalls => TypeOK'
  BY <1>0, <1>1, <1>2, LispBounds DEF TypeOK, LispFields
<1>6. LispInv'
  BY <1>0, <1>1, <1>2 DEF LispInv, Busy, Lisp, SlotFree
<1>7. AnswerInv'
  BY <1>0, <1>1, <1>2 DEF AnswerInv, LispInv, Lisp, Waits, SlotFree
<1>8. WaitInv'
  BY <1>0, <1>1, <1>2 DEF WaitInv, AnswerInv, LispInv, Lisp, Waits, SlotFree
<1> QED
  BY <1>3, <1>4, <1>5, <1>6, <1>7, <1>8, ServingKeeps

\* c:mcp-dispatch takes up only a request whose command it was given: while no
\* call was left unanswered, a command that waits is one for a request that
\* waits, and the only request there is can only be that.
LEMMA ScanKeeps ==
    ASSUME ChannelInv, Scan
    PROVE  ChannelInv'
<1>0. /\ TypeOK /\ LispInv /\ AnswerInv /\ WaitInv /\ ClientInv
      /\ 0 \notin Ids /\ reactor \in {0, owner}
  BY Naming DEF ChannelInv
<1>1. /\ lisp.pc = "idle" /\ reactor = 0 /\ commands > 0 /\ commands' = commands - 1
      /\ UNCHANGED <<requests, requestParts, result, resultParts, client, op, outcome,
                     owner, reactor, done, kept, faults>>
  BY DEF Scan, directory, calls, Lisp
<1>2. commands \in Nat
  BY CommandsAre
<1>3. Works /\ lisp.id = 0
  <2>1. resultParts \subseteq Ids
    BY <1>0 DEF TypeOK
  <2>2. lisp.id = 0
    BY <1>0, <1>1 DEF LispInv, Lisp
  <2>3. lisp'.id \in {0} \cup requests
    BY Stopping DEF Scan
  <2> QED
    BY <1>1, <1>2, <2>1, <2>2, <2>3 DEF Works
<1>4. CASE Stop
  <2>1. lisp'.pc = "idle" /\ lisp'.id = 0 /\ lisp' \in LispFields
    BY <1>4, Stopping
  <2>2. Serves
    BY <1>0, <1>1, <2>1 DEF Serves
  <2>3. commands' \in 0..MaxCalls => TypeOK'
    BY <1>0, <1>1, <2>1 DEF TypeOK, LispFields
  <2>4. LispInv' /\ AnswerInv' /\ WaitInv'
    BY <1>0, <1>1, <1>3, <2>1 DEF LispInv, AnswerInv, WaitInv, Busy, Lisp, Waits, SlotFree
  <2> QED
    BY <1>3, <2>2, <2>3, <2>4, ServingKeeps
<1>5. ASSUME requestParts = {}, resultParts = {}, Cardinality(requests) = 1,
             NEW i \in requests, lisp' = [pc |-> "read", id |-> i, envelope |-> "none"]
      PROVE  ChannelInv'
  <2>1. i \in Ids /\ i \in 0..MaxCalls
    <3>1. requests \subseteq Ids
      BY <1>0 DEF TypeOK
    <3>2. i \in Ids
      BY <3>1, <1>5
    <3> QED
      BY <3>2, LispBounds DEF Ids
  <2>2. requests = {i}
    <3>1. IsFiniteSet(Ids)
      BY FS_Interval, LispBounds DEF Ids
    <3>2. IsFiniteSet(requests)
      BY <1>0, <3>1, FS_Subset DEF TypeOK
    <3> QED
      BY <1>5, <3>2, FS_Singleton
  <2>3. lisp'.pc = "read" /\ lisp'.id = i /\ lisp' \in LispFields
    BY <1>5, <2>1 DEF LispFields
  <2>4. TypeOK'
    BY <1>0, <1>1, <1>3, <2>3, CommandInvStays DEF TypeOK, LispFields
  <2>5. LispInv' /\ AnswerInv' /\ WaitInv'
    BY <1>0, <1>1, <1>5, <2>1, <2>3
       DEF LispInv, AnswerInv, WaitInv, Busy, Lisp, Waits, SlotFree
  <2>6. OnceInv'
    <3> SUFFICES ASSUME Undisturbed'
                 PROVE  /\ commands' <= Cardinality(Polling' \ Taken')
                        /\ \A j \in Ids : done'[j] <= 1
                        /\ \A j \in Ids : j = lisp'.id \/ j = reactor' =>
                             j \in Polling' /\ result'[j] = "none"
                        /\ \A j \in Ids : j = reactor'
                               \/ (j = lisp'.id /\ lisp'.pc \in {"read", "check", "execute"}) =>
                             done'[j] = 0
                        /\ \A d \in Clients :
                             client'[d].pc \in Typing => client'[d].id \notin Taken'
      BY DEF OnceInv, Typing
    <3>1. /\ commands <= Cardinality(Polling \ Taken)
          /\ \A j \in Ids : done[j] <= 1
          /\ \A d \in Clients : client[d].pc \in Typing => client[d].id \notin Taken
      <4>1. Undisturbed
        BY <1>1 DEF Undisturbed
      <4> QED
        BY <4>1 DEF ChannelInv, OnceInv, Typing
    <3>2. Polling \subseteq {i}
      BY <1>0, <2>2 DEF Polling, ClientInv, At
    <3>3. Polling \ Taken = {i} /\ commands = 1
      <4>1. Polling \ Taken = {} \/ Polling \ Taken = {i}
        BY <3>2
      <4>2. Cardinality({}) = 0 /\ Cardinality({i}) = 1
        BY FS_EmptySet, FS_Singleton
      <4> QED
        <5>1. CASE Polling \ Taken = {}
          <6>1. commands <= 0
            BY <5>1, <4>2, <3>1
          <6> QED
            BY <6>1, <1>1, <1>2
        <5>2. CASE Polling \ Taken = {i}
          <6>1. commands <= 1
            BY <5>2, <4>2, <3>1
          <6> QED
            BY <5>2, <6>1, <1>1, <1>2
        <5> QED
          BY <4>1, <5>1, <5>2
    <3>4. i \in Polling /\ done[i] = 0 /\ result[i] = "none"
      <4>1. i \in Polling /\ i \notin Taken
        BY <3>3
      <4>2. done[i] \in Nat
        BY <2>1, <1>0 DEF TypeOK
      <4>3. ~(done[i] > 0) /\ result[i] = "none"
        BY <4>1, <2>1 DEF Taken
      <4> QED
        BY <4>1, <4>2, <4>3
    <3>5. Polling' = Polling
      BY <1>1 DEF Polling, At
    <3>6. Taken' = Taken \cup {i}
      BY <1>1, <1>3, <2>1, <2>3, <1>0 DEF Taken
    <3>7. commands' <= Cardinality(Polling' \ Taken')
      <4>1. commands' = 0
        BY <1>1, <3>3
      <4>2. Polling' \ Taken' \in SUBSET Ids
        BY DEF Polling
      <4>3. Cardinality(Polling' \ Taken') \in 0..MaxCalls
        BY <4>2, CallsAreBounded
      <4> QED
        BY <4>1, <4>3, LispBounds
    <3>8. ASSUME NEW d \in Clients, client'[d].pc \in Typing PROVE client'[d].id \notin Taken'
      <4>1. client[d].pc \in Typing /\ client[d].id \notin Taken /\ client'[d].id = client[d].id
        BY <3>8, <3>1, <1>1
      <4>2. PICK e \in Clients : client[e].id = i /\ client[e].pc = "poll"
        BY <3>4 DEF Polling, At
      <4>3. client[d].id # i
        BY <4>1, <4>2, <2>1, <1>0 DEF ClientInv, Typing
      <4> QED
        BY <4>1, <4>3, <3>6
    <3> QED
      BY <3>1, <3>4, <3>5, <3>7, <3>8, <1>0, <1>1, <2>3
  <2> QED
    BY <1>3, <2>4, <2>5, <2>6, ClientInvStays, FilesInvStays, CommandInvStays DEF ChannelInv
<1> QED
  BY <1>4, <1>5 DEF Scan

-----------------------------------------------------------------------------
(* The theorems. *)

LEMMA InitChannel == Init => ChannelInv
<1> SUFFICES ASSUME Init PROVE ChannelInv
  OBVIOUS
<1>1. TypeOK
  BY LispBounds DEF Init, TypeOK, Idle, Asleep
<1>2. ClientInv
  <2>1. 0 \notin Ids
    BY <1>1, Naming
  <2> QED
    BY <2>1 DEF Init, ClientInv, Idle, Asleep, At, Working, Waits
<1>3. LispInv /\ AnswerInv /\ WaitInv
  BY DEF Init, LispInv, AnswerInv, WaitInv, Asleep, Busy, Lisp, Waits
<1>4. OnceInv
  <2>1. 0 \notin Ids
    BY <1>1, Naming
  <2>2. Polling \ Taken \in SUBSET Ids
    BY DEF Polling
  <2>3. Cardinality(Polling \ Taken) \in 0..MaxCalls
    BY <2>2, CallsAreBounded
  <2>4. commands <= Cardinality(Polling \ Taken)
    BY <2>3, LispBounds DEF Init
  <2> QED
    BY <2>1, <2>4 DEF Init, OnceInv, Asleep, Idle
<1>5. FilesInv
  BY DEF Init, FilesInv, Results
<1>6. CommandInv
  <2>1. Triggered \in SUBSET Ids
    BY DEF Triggered
  <2>2. Cardinality(Triggered) \in 0..MaxCalls
    BY <2>1, CallsAreBounded
  <2> QED
    BY <2>2, LispBounds DEF Init, CommandInv
<1> QED
  BY <1>1, <1>2, <1>3, <1>4, <1>5, <1>6 DEF ChannelInv

LEMMA ChannelStep == ChannelInv /\ [Next]_vars => ChannelInv'
<1> SUFFICES ASSUME ChannelInv, [Next]_vars PROVE ChannelInv'
  OBVIOUS
<1>1. CASE UNCHANGED vars
  <2>1. TypeOK' /\ LispInv' /\ AnswerInv' /\ WaitInv'
    BY <1>1, ZenonT(30) DEF vars, directory, calls, autocad, ChannelInv, TypeOK, LispInv, AnswerInv, WaitInv,
       Waits, Busy, Lisp, SlotFree
  <2>2. Works
    <3>1. commands \in Nat /\ commands' = commands
      BY <1>1, CommandsAre DEF vars
    <3>2. resultParts \subseteq Ids
      BY DEF ChannelInv, TypeOK
    <3>3. UNCHANGED <<requests, requestParts, result, resultParts, client, op, outcome, lisp,
                      owner, reactor, done, kept, faults>>
      BY <1>1 DEF vars, directory, calls, autocad
    <3> QED
      BY <3>1, <3>2, <3>3 DEF Works
  <2>3. Serves
    BY <1>1 DEF vars, directory, calls, autocad, Serves
  <2> QED
    BY <2>1, <2>2, <2>3, ServingKeeps
<1>2. CASE Dispatch
  BY <1>2, ScanKeeps, ReadKeeps, CheckKeeps, ExecuteKeeps, DeferCloseKeeps, ReportKeeps,
     ReactKeeps, WriteResultPartKeeps, CommitKeeps DEF Dispatch
<1>3. CASE Cancel
  BY <1>3, CancelKeeps
<1>4. ASSUME NEW c \in Clients, Call(c) PROVE ChannelInv'
  BY <1>4, BeginKeeps, WritePartKeeps, PublishKeeps, TriggerKeeps, ReceiveKeeps, GiveUpKeeps,
     UnlinkRequestKeeps, UnlinkPartKeeps, UnlinkResultKeeps DEF Call
<1>5. ASSUME NEW c \in Clients, Kill(c) PROVE ChannelInv'
  BY <1>5, KillKeeps
<1> QED
  BY <1>1, <1>2, <1>3, <1>4, <1>5 DEF Next

LEMMA AlwaysChannelInv == Spec => []ChannelInv
BY InitChannel, ChannelStep, PTL DEF Spec

\* The directory, the clients and the dispatcher hold data of their kinds; no
\* more commands wait than calls were made.
THEOREM TypeCorrect == Spec => []TypeOK
<1>1. ChannelInv => TypeOK
  BY DEF ChannelInv
<1> QED
  BY <1>1, AlwaysChannelInv, PTL

\* However the files of the clients and the dispatcher interleave, and
\* whatever is killed, cancelled or cannot be deleted: no request has its
\* effect twice while its caller waits, a close that happened holds the
\* channel, and a file left behind has its reason.
THEOREM TheChannelIsSound == Spec => []ChannelIsSound
<1>1. ChannelInv => ChannelIsSound
  <2> SUFFICES ASSUME ChannelInv PROVE ChannelIsSound
    OBVIOUS
  <2>1. TypeOK /\ 0 \notin Ids
    BY Naming DEF ChannelInv
  <2>2. OnceUnlessDisturbed
    BY DEF ChannelInv, OnceInv, OnceUnlessDisturbed
  <2>3. OnceWhileWaiting
    <3> SUFFICES ASSUME faults = 0, NEW i \in Ids, outcome[i] = "waiting" PROVE done[i] <= 1
      BY DEF OnceWhileWaiting
    <3>1. done[i] \in Nat
      BY <2>1 DEF TypeOK
    <3>2. done[i] > 0 => done[i] = 1
      BY DEF ChannelInv, WaitInv, Waits
    <3> QED
      BY <3>1, <3>2
  <2>4. CloseIsHeld
    BY DEF ChannelInv, AnswerInv, CloseIsHeld, Waits
  <2>5. LeftoverIsExplained
    <3> SUFFICES ASSUME \A c \in Clients : At(c, "idle"), Undisturbed
                 PROVE  requests \cup requestParts \cup Results \cup resultParts \subseteq kept
      BY DEF LeftoverIsExplained
    <3>1. \A c \in Clients : client[c].id \notin Ids
      BY <2>1 DEF ChannelInv, ClientInv
    <3>2. /\ requests \subseteq Ids /\ requestParts \subseteq Ids /\ resultParts \subseteq Ids
          /\ Results \subseteq Ids
      BY <2>1 DEF TypeOK, Results
    <3> QED
      <4>1. /\ \A j \in requests \cup requestParts : j \in kept
            /\ \A j \in resultParts : j \in kept
            /\ \A j \in Results : j \in kept
        <5>1. /\ \A j \in requests \cup requestParts : j \in kept \/ \E c \in Clients :
                   client[c].id = j /\ client[c].pc \notin {"unlink part", "unlink result"}
              /\ \A j \in resultParts : j \in kept \/ \E c \in Clients :
                   client[c].id = j /\ client[c].pc # "unlink result"
              /\ \A j \in Results : j \in kept \/ \E c \in Clients : client[c].id = j
          BY DEF ChannelInv, FilesInv
        <5>2. \A j \in Ids : \A c \in Clients : client[c].id # j
          BY <3>1
        <5>3. \A j \in requests \cup requestParts : j \in kept
          BY <5>1, <5>2, <3>2
        <5>4. \A j \in resultParts : j \in kept
          BY <5>1, <5>2, <3>2
        <5>5. \A j \in Results : j \in kept
          BY <5>1, <5>2, <3>2
        <5> QED
          BY <5>3, <5>4, <5>5
      <4> QED
        BY <4>1
  <2> QED
    BY <2>1, <2>2, <2>3, <2>4, <2>5 DEF ChannelIsSound
<1> QED
  BY <1>1, AlwaysChannelInv, PTL

\* What _dispatch returns is true: "ok" only if the effect has happened, and a
\* close reported as failed has not.
THEOREM AnswersTellTheTruth == Spec => AnswersAreTrue
<1>1. ChannelInv /\ [Next]_vars =>
        [\A i \in Ids : outcome[i] = "waiting" =>
           /\ outcome'[i] = "ok" => done[i] > 0
           /\ outcome'[i] = "failed" /\ op[i] = "close" => done[i] = 0]_vars
  <2> SUFFICES ASSUME ChannelInv, Next, NEW i \in Ids, outcome[i] = "waiting",
                      outcome'[i] \in {"ok", "failed"}
               PROVE  /\ outcome'[i] = "ok" => done[i] > 0
                      /\ outcome'[i] = "failed" /\ op[i] = "close" => done[i] = 0
    OBVIOUS
  <2>1. outcome'[i] = result[i]
    <3>1. outcome \in [Ids -> {"unsent", "waiting", "ok", "failed", "unanswered"}]
      BY DEF ChannelInv, TypeOK
    <3>2. outcome' # outcome
      OBVIOUS
    <3>3. PICK c \in Clients : Call(c) \/ Kill(c)
      BY <3>2 DEF Next, Dispatch, Cancel, Scan, Read, Check, Execute, DeferClose, Report, React,
         WriteResultPart, Commit, calls
    <3>4. CASE Begin(c)
      BY <3>1, <3>4 DEF Begin
    <3>5. CASE Receive(c)
      BY <3>1, <3>5 DEF Receive, End
    <3>6. CASE GiveUp(c)
      BY <3>1, <3>6 DEF GiveUp, End
    <3>7. CASE Kill(c)
      BY <3>1, <3>7 DEF Kill
    <3> QED
      BY <3>2, <3>3, <3>4, <3>5, <3>6, <3>7 DEF Call, WritePart, Publish, Trigger,
         UnlinkRequest, UnlinkPart, UnlinkResult
  <2>2. done[i] \in Nat
    BY DEF ChannelInv, TypeOK
  <2>3. result[i] = "ok" => done[i] > 0
    BY DEF ChannelInv, AnswerInv
  <2>4. op[i] = "close" /\ done[i] > 0 => result[i] # "failed"
    BY DEF ChannelInv, AnswerInv, Waits
  <2> QED
    BY <2>1, <2>2, <2>3, <2>4
<1> QED
  BY <1>1, AlwaysChannelInv, PTL DEF Spec, AnswersAreTrue


-----------------------------------------------------------------------------
(***************************************************************************)
(* The handoff of a worker's session (VisionHandoff), for any handoffs,    *)
(* threads, sessions among them, renewals and number of events.            *)
(***************************************************************************)
VisionBounds == MaxEvents \in Nat /\ Sessions \subseteq Threads

\* Where a session has been opened and its handoff bound to its thread.
OpenSteps == {"open", "attest", "confirm", "send"}

\* What the files, the times and the records are; only WriteSchema advances
\* the stamp, and it is an event.
VisionTyped ==
    /\ Vision!TypeOK
    /\ events \in 0 .. MaxEvents /\ stamp <= events
    /\ \A t \in Threads : object[t] \subseteq objects
    /\ object = [t \in Threads |-> object[t]]
    /\ loaded = [t \in Threads |-> loaded[t]] /\ hashed = [t \in Threads |-> hashed[t]]

\* A session is started once, with one handoff.
SessionInv ==
    \A t \in Threads :
        /\ pc[t] # "none" => t \in Sessions
        /\ pc[t] = "none" => object[t] = {}
        /\ \A o, p \in object[t] : o = p

\* The provider loaded what the child hashed, unless it was changed between,
\* and the session went on only if that was the authority's.
InstructionInv ==
    \A t \in Threads :
        /\ pc[t] = "hash" => t \in raced \/ loaded[t] = instructions
        /\ pc[t] \in {"expect", "observe"} => t \in raced \/ loaded[t] = hashed[t]
        /\ pc[t] \in OpenSteps => t \in raced \/ loaded[t] = Vision!Authorized

\* An attested session's handoff has not expired since, unless that was noted.
AttestedInv ==
    \A t \in Threads : pc[t] \in {"confirm", "send"} =>
        t \in overtaken \/ \A o \in object[t] : o.of \notin expired

\* A session's thread is bound to the session's handoff, unless a server
\* bound it again.
BindingInv ==
    \A b \in bindings : b.thread \in Sessions /\ b.thread \notin rebound =>
        /\ pc[b.thread] # "none"
        /\ \E o \in object[b.thread] : b.of = o.of /\ b.content = o.content

\* A turn is one of its session's handoff.
TurnInv ==
    \A r \in turns :
        /\ r.thread \in Sessions /\ pc[r.thread] # "none"
        /\ \E o \in object[r.thread] : r.of = o.of /\ r.content = o.content

HandoffInv ==
    /\ VisionTyped /\ SessionInv /\ InstructionInv /\ AttestedInv /\ BindingInv /\ TurnInv
    /\ Vision!TurnsAreAuthorized /\ Vision!AcceptedIsBound

-----------------------------------------------------------------------------
LEMMA VisionStarts ==
    ASSUME VisionBounds, Vision!Init
    PROVE  HandoffInv
  <1>1. VisionTyped
    BY DEF VisionBounds, Vision!Init, VisionTyped, Vision!TypeOK, Vision!Contents, Vision!Steps
  <1>2. SessionInv /\ InstructionInv /\ AttestedInv
    BY DEF Vision!Init, SessionInv, InstructionInv, AttestedInv, OpenSteps
  <1>3. BindingInv /\ TurnInv /\ Vision!TurnsAreAuthorized /\ Vision!AcceptedIsBound
    BY DEF Vision!Init, BindingInv, TurnInv, Vision!TurnsAreAuthorized, Vision!AcceptedIsBound
  <1> QED
    BY <1>1, <1>2, <1>3 DEF HandoffInv

\* A step that leaves the sessions and their records alone, while files are
\* written and times pass with notice, keeps what is said of sessions.
SessionsStay ==
    /\ UNCHANGED <<bindings, pc, object, loaded, hashed, turns, accepted>>
    /\ raced \subseteq raced' /\ overtaken \subseteq overtaken' /\ rebound' = rebound

LEMMA SessionsKept ==
    ASSUME HandoffInv, SessionsStay, VisionTyped',
           \A t \in Threads : pc[t] = "hash" => t \in raced' \/ instructions' = instructions,
           \A t \in Threads : pc[t] \in {"confirm", "send"} => t \in overtaken' \/ expired' = expired
    PROVE  HandoffInv'
  <1>1. SessionInv'
    BY DEF HandoffInv, SessionInv, SessionsStay
  <1>2. InstructionInv'
    BY DEF HandoffInv, InstructionInv, SessionsStay
  <1>3. AttestedInv'
    BY DEF HandoffInv, AttestedInv, SessionsStay
  <1>4. BindingInv' /\ TurnInv'
    BY DEF HandoffInv, BindingInv, TurnInv, SessionsStay
  <1>5. Vision!TurnsAreAuthorized' /\ Vision!AcceptedIsBound'
    BY DEF HandoffInv, Vision!TurnsAreAuthorized, Vision!AcceptedIsBound, SessionsStay
  <1> QED
    BY <1>1, <1>2, <1>3, <1>4, <1>5 DEF HandoffInv

\* The records of a handoff, and a server's binding, are well formed.
LEMMA SnapshotTyped ==
    ASSUME HandoffInv, NEW h \in Handoffs
    PROVE  Vision!Snapshot(h) \in Vision!Objects
  BY DEF HandoffInv, VisionTyped, Vision!TypeOK, Vision!Snapshot, Vision!Objects

LEMMA BindingTyped ==
    ASSUME NEW o \in Vision!Objects, NEW t \in Threads
    PROVE  /\ Vision!Binding(o, t) \in Vision!Bindings
           /\ Vision!Binding(o, t).thread = t /\ Vision!Binding(o, t).of = o.of
           /\ Vision!Binding(o, t).content = o.content
  BY DEF Vision!Objects, Vision!Bindings, Vision!Binding

\* Handoffs are bound and validated, callers look, files are written and
\* handoffs expire or are used.
LEMMA WorldKeeps ==
    ASSUME HandoffInv, VisionBounds,
           \/ \E h \in Handoffs : Vision!Bind(h) \/ Vision!Expire(h) \/ Vision!Consume(h)
           \/ \E o \in objects : Vision!Validate(o)
           \/ Vision!Look \/ Vision!WriteSchema \/ Vision!WriteInstructions
    PROVE  HandoffInv'
  <1> USE DEF Vision!files, Vision!time, Vision!caller, Vision!session, Vision!history
  <1>1. CASE \/ \E h \in Handoffs : Vision!Bind(h)
             \/ \E o \in objects : Vision!Validate(o)
    <2>1. PICK h \in Handoffs : objects' = objects \cup {Vision!Snapshot(h)}
      <3>1. \A o \in objects : o.of \in Handoffs
        BY DEF HandoffInv, VisionTyped, Vision!TypeOK, Vision!Objects
      <3> QED
        BY <1>1, <3>1 DEF Vision!Bind, Vision!Validate
    <2>2. UNCHANGED <<content, stamp, instructions, expired, consumed, clock, known, bindings, pc,
                      object, loaded, hashed, turns, accepted, events, raced, overtaken, rebound>>
      BY <1>1 DEF Vision!Bind, Vision!Validate
    <2>3. VisionTyped'
      BY <2>1, <2>2, SnapshotTyped DEF HandoffInv, VisionTyped, Vision!TypeOK
    <2> QED
      BY <2>2, <2>3, SessionsKept DEF SessionsStay
  <1>2. CASE Vision!Look
    <2>1. UNCHANGED <<content, stamp, instructions, expired, consumed, objects, bindings, pc,
                      object, loaded, hashed, turns, accepted, events, raced, overtaken, rebound>>
          /\ clock' = expired /\ known' = consumed
      BY <1>2 DEF Vision!Look
    <2>2. VisionTyped'
      BY <2>1 DEF HandoffInv, VisionTyped, Vision!TypeOK
    <2> QED
      BY <2>1, <2>2, SessionsKept DEF SessionsStay
  <1>3. CASE Vision!WriteSchema \/ Vision!WriteInstructions
    <2>1. /\ UNCHANGED <<expired, consumed, clock, known, objects, bindings, pc, object, loaded,
                         hashed, turns, accepted, overtaken, rebound>>
          /\ raced \subseteq raced' /\ events < MaxEvents /\ events' = events + 1
          /\ content' \in Vision!Contents \cup {content} /\ stamp' \in {stamp, stamp + 1}
          /\ \A t \in Threads : pc[t] = "hash" => t \in raced' \/ instructions' = instructions
      BY <1>3 DEF Vision!WriteSchema, Vision!WriteInstructions, Vision!Happens
    <2>2. VisionTyped'
      BY <2>1 DEF HandoffInv, VisionBounds, VisionTyped, Vision!TypeOK
    <2> QED
      BY <2>1, <2>2, SessionsKept DEF SessionsStay
  <1>4. CASE \E h \in Handoffs : Vision!Expire(h) \/ Vision!Consume(h)
    <2>1. /\ UNCHANGED <<content, stamp, instructions, clock, known, objects, bindings, pc, object,
                         loaded, hashed, turns, accepted, raced, rebound>>
          /\ overtaken \subseteq overtaken' /\ events < MaxEvents /\ events' = events + 1
          /\ expired \subseteq expired' /\ expired' \subseteq Handoffs \cup expired
          /\ consumed \subseteq consumed' /\ consumed' \subseteq Handoffs \cup consumed
          /\ \A t \in Threads : pc[t] \in {"confirm", "send"} =>
                t \in overtaken' \/ expired' = expired
      BY <1>4 DEF Vision!Expire, Vision!Consume, Vision!Happens
    <2>2. VisionTyped'
      BY <2>1 DEF HandoffInv, VisionBounds, VisionTyped, Vision!TypeOK
    <2> QED
      BY <2>1, <2>2, SessionsKept DEF SessionsStay
  <1> QED
    BY <1>1, <1>2, <1>3, <1>4

\* A server binds a thread it has observed: a session's is then bound again.
LEMMA BindThreadKeeps ==
    ASSUME HandoffInv, VisionBounds,
           \/ \E o \in objects, t \in Threads : Vision!BindThread(o, t)
           \/ \E b \in bindings, source, o \in objects, t \in Threads : Vision!Fork(b, source, o, t)
    PROVE  HandoffInv'
  <1> USE DEF Vision!files, Vision!time, Vision!caller, Vision!session, Vision!history
  <1>1. PICK o \in objects, t \in Threads :
            /\ t \in Vision!Observed /\ bindings' = bindings \cup {Vision!Binding(o, t)}
            /\ Vision!Rebind(t)
    BY DEF Vision!BindThread, Vision!Fork
  <1>2. UNCHANGED <<content, stamp, instructions, expired, consumed, clock, known, objects, pc,
                    object, loaded, hashed, turns, accepted, events, raced, overtaken>>
    BY DEF Vision!BindThread, Vision!Fork
  <1>3. o \in Vision!Objects
    BY DEF HandoffInv, VisionTyped, Vision!TypeOK
  <1>4. VisionTyped'
    BY <1>1, <1>2, <1>3, BindingTyped DEF HandoffInv, VisionTyped, Vision!TypeOK
  <1>5. rebound \subseteq rebound' /\ (t \in Sessions => t \in rebound')
    BY <1>1 DEF Vision!Rebind, Vision!Observed
  <1>6. BindingInv'
    BY <1>1, <1>2, <1>3, <1>5, BindingTyped DEF HandoffInv, BindingInv
  <1>7. SessionInv' /\ InstructionInv' /\ AttestedInv' /\ TurnInv'
    BY <1>2 DEF HandoffInv, SessionInv, InstructionInv, AttestedInv, TurnInv
  <1>8. Vision!TurnsAreAuthorized' /\ Vision!AcceptedIsBound'
    BY <1>2, <1>5 DEF HandoffInv, Vision!TurnsAreAuthorized, Vision!AcceptedIsBound
  <1> QED
    BY <1>4, <1>6, <1>7, <1>8 DEF HandoffInv

\* A session starts.
LEMMA StartKeeps ==
    ASSUME HandoffInv, VisionBounds, NEW t \in Threads, NEW o \in objects, Vision!Start(t, o)
    PROVE  HandoffInv'
  <1> USE DEF Vision!files, Vision!time, Vision!caller, Vision!history
  <1>1. /\ t \in Sessions /\ pc[t] = "none" /\ pc' = [pc EXCEPT ![t] = "launch"]
        /\ object' = [object EXCEPT ![t] = {o}]
        /\ UNCHANGED <<content, stamp, instructions, expired, consumed, clock, known, objects,
                       bindings, loaded, hashed, turns, accepted, events, raced, overtaken, rebound>>
    BY DEF Vision!Start, Vision!Goto
  <1>2. pc \in [Threads -> Vision!Steps] /\ object = [s \in Threads |-> object[s]]
    BY DEF HandoffInv, VisionTyped, Vision!TypeOK
  <1>3. /\ pc' \in [Threads -> Vision!Steps]
        /\ \A s \in Threads : pc'[s] = IF s = t THEN "launch" ELSE pc[s]
        /\ object' = [s \in Threads |-> object'[s]]
        /\ \A s \in Threads : object'[s] = IF s = t THEN {o} ELSE object[s]
    BY <1>1, <1>2 DEF Vision!Steps
  <1>4. VisionTyped'
    BY <1>1, <1>3 DEF HandoffInv, VisionTyped, Vision!TypeOK
  <1>5. SessionInv' /\ InstructionInv' /\ AttestedInv'
    BY <1>1, <1>3 DEF HandoffInv, SessionInv, InstructionInv, AttestedInv, OpenSteps
  <1>6. BindingInv' /\ TurnInv'
    <2>1. \A b \in bindings : b.thread \in Threads
      BY DEF HandoffInv, VisionTyped, Vision!TypeOK, Vision!Bindings
    <2>2. \A s \in Sessions : s \in Threads
      BY DEF VisionBounds
    <2> QED
      BY <1>1, <1>3, <2>1, <2>2 DEF HandoffInv, BindingInv, TurnInv
  <1>7. Vision!TurnsAreAuthorized' /\ Vision!AcceptedIsBound'
    BY <1>1 DEF HandoffInv, Vision!TurnsAreAuthorized, Vision!AcceptedIsBound
  <1> QED
    BY <1>4, <1>5, <1>6, <1>7 DEF HandoffInv

\* The provider loads the instructions, and the child hashes their file.
LEMMA LoadKeeps ==
    ASSUME HandoffInv, VisionBounds, NEW t \in Threads,
           Vision!StartThread(t) \/ Vision!HashInstructions(t)
    PROVE  HandoffInv'
  <1> USE DEF Vision!files, Vision!time, Vision!caller, Vision!history
  <1>1. /\ pc[t] \in {"launch", "hash"} /\ \E step \in {"hash", "expect"} : pc' = [pc EXCEPT ![t] = step]
        /\ UNCHANGED <<content, stamp, instructions, expired, consumed, clock, known, objects, object,
                       bindings, turns, accepted, events, raced, overtaken, rebound>>
    BY DEF Vision!StartThread, Vision!HashInstructions, Vision!Goto
  <1>2. /\ pc \in [Threads -> Vision!Steps]
        /\ loaded = [s \in Threads |-> loaded[s]] /\ hashed = [s \in Threads |-> hashed[s]]
    BY DEF HandoffInv, VisionTyped, Vision!TypeOK
  <1>3. /\ pc' \in [Threads -> Vision!Steps] /\ pc'[t] \in {"hash", "expect"}
        /\ \A s \in Threads \ {t} : pc'[s] = pc[s]
    BY <1>1, <1>2 DEF Vision!Steps
  <1>4. /\ loaded' = [s \in Threads |-> loaded'[s]] /\ hashed' = [s \in Threads |-> hashed'[s]]
        /\ \A s \in Threads \ {t} : loaded'[s] = loaded[s] /\ hashed'[s] = hashed[s]
    BY <1>2 DEF Vision!StartThread, Vision!HashInstructions
  <1>5. \/ pc'[t] = "hash" /\ loaded'[t] = instructions
        \/ pc[t] = "hash" /\ pc'[t] = "expect" /\ loaded' = loaded /\ hashed'[t] = instructions
    BY <1>2 DEF Vision!StartThread, Vision!HashInstructions, Vision!Goto
  <1>6. VisionTyped'
    BY <1>1, <1>3, <1>4 DEF HandoffInv, VisionTyped, Vision!TypeOK
  <1>7. InstructionInv'
    BY <1>1, <1>3, <1>4, <1>5 DEF HandoffInv, InstructionInv, OpenSteps
  <1>8. SessionInv' /\ AttestedInv'
    BY <1>1, <1>3 DEF HandoffInv, SessionInv, AttestedInv
  <1>9. BindingInv' /\ TurnInv'
    <2>1. \A s \in Sessions : s \in Threads
      BY DEF VisionBounds
    <2> QED
      BY <1>1, <1>3, <2>1 DEF HandoffInv, BindingInv, TurnInv
  <1>10. Vision!TurnsAreAuthorized' /\ Vision!AcceptedIsBound'
    BY <1>1 DEF HandoffInv, Vision!TurnsAreAuthorized, Vision!AcceptedIsBound
  <1> QED
    BY <1>6, <1>7, <1>8, <1>9, <1>10 DEF HandoffInv

\* A session is checked and goes on, or is closed.
LEMMA SessionCheckKeeps ==
    ASSUME HandoffInv, VisionBounds, NEW t \in Threads,
           \/ Vision!Expect(t) \/ Vision!Observe(t)
           \/ Vision!Turn(t) \/ Vision!Attest(t) \/ Vision!Confirm(t)
    PROVE  HandoffInv'
  <1> USE DEF Vision!files, Vision!time, Vision!caller, Vision!history
  <1>1. /\ \E step \in {"closed", "observe", "open", "attest", "confirm", "send"} :
             pc' = [pc EXCEPT ![t] = step]
        /\ UNCHANGED <<content, stamp, instructions, expired, consumed, clock, known, objects, object,
                       loaded, hashed, turns, accepted, events, raced, overtaken, rebound>>
    BY DEF Vision!Expect, Vision!Observe, Vision!Turn, Vision!Attest, Vision!Confirm,
       Vision!Check, Vision!Goto
  <1>2. pc \in [Threads -> Vision!Steps]
    BY DEF HandoffInv, VisionTyped, Vision!TypeOK
  <1>3. /\ pc' \in [Threads -> Vision!Steps] /\ pc'[t] # "none"
        /\ \A s \in Threads \ {t} : pc'[s] = pc[s]
    BY <1>1, <1>2 DEF Vision!Steps
  <1>4. /\ pc[t] \in {"expect", "observe", "open", "attest", "confirm"}
        /\ \/ pc'[t] = "closed"
           \/ pc[t] = "expect" /\ pc'[t] = "observe"
           \/ pc[t] = "observe" /\ pc'[t] = "open" /\ Vision!ObservationHolds(t)
           \/ pc[t] = "open" /\ pc'[t] = "attest"
           \/ pc[t] = "attest" /\ pc'[t] = "confirm" /\ Vision!LiveFor(t, expired)
           \/ pc[t] = "confirm" /\ pc'[t] = "send"
    BY <1>2 DEF Vision!Expect, Vision!Observe, Vision!Turn, Vision!Attest, Vision!Confirm,
       Vision!Check, Vision!Goto
  <1>5. \A b \in bindings' : b \in bindings \/ \E o \in object[t] : b = Vision!Binding(o, t)
    BY DEF Vision!Expect, Vision!Observe, Vision!Turn, Vision!Attest, Vision!Confirm
  <1>6. \A o \in object[t] : o \in Vision!Objects
    BY DEF HandoffInv, VisionTyped, Vision!TypeOK
  <1>7. bindings' \subseteq Vision!Bindings
    BY <1>5, <1>6, BindingTyped DEF HandoffInv, VisionTyped, Vision!TypeOK
  <1>8. VisionTyped'
    BY <1>1, <1>3, <1>7 DEF HandoffInv, VisionTyped, Vision!TypeOK
  <1>9. InstructionInv'
    BY <1>1, <1>3, <1>4 DEF HandoffInv, InstructionInv, OpenSteps, Vision!ObservationHolds
  <1>10. SessionInv'
    BY <1>1, <1>3, <1>4 DEF HandoffInv, SessionInv
  <1>11. AttestedInv'
    BY <1>1, <1>3, <1>4 DEF HandoffInv, AttestedInv, Vision!LiveFor, Vision!Live, Vision!Fresh
  <1>12. \A s \in Sessions : s \in Threads
    BY DEF VisionBounds
  <1>13. TurnInv'
    BY <1>1, <1>3, <1>12 DEF HandoffInv, TurnInv
  <1>14. BindingInv'
    <2> SUFFICES ASSUME NEW b \in bindings', b.thread \in Sessions, b.thread \notin rebound
                 PROVE  /\ pc'[b.thread] # "none"
                        /\ \E o \in object[b.thread] : b.of = o.of /\ b.content = o.content
      BY <1>1 DEF BindingInv
    <2>1. CASE b \in bindings
      BY <1>3, <1>12, <2>1 DEF HandoffInv, BindingInv
    <2>2. CASE \E o \in object[t] : b = Vision!Binding(o, t)
      BY <1>3, <1>6, <2>2, BindingTyped
    <2> QED
      BY <1>5, <2>1, <2>2
  <1>15. Vision!TurnsAreAuthorized' /\ Vision!AcceptedIsBound'
    BY <1>1 DEF HandoffInv, Vision!TurnsAreAuthorized, Vision!AcceptedIsBound
  <1> QED
    BY <1>8, <1>9, <1>10, <1>11, <1>13, <1>14, <1>15 DEF HandoffInv

\* A turn is sent to a provider with the authority's instructions, on a
\* handoff that was attested.
LEMMA SendKeeps ==
    ASSUME HandoffInv, VisionBounds, NEW t \in Threads, Vision!Send(t)
    PROVE  HandoffInv'
  <1> USE DEF Vision!files, Vision!time, Vision!caller, Vision!history
  <1>1. /\ pc[t] = "send" /\ \E step \in {"open", "closed"} : pc' = [pc EXCEPT ![t] = step]
        /\ UNCHANGED <<content, stamp, instructions, expired, consumed, clock, known, objects, object,
                       bindings, loaded, hashed, accepted, events, raced, overtaken, rebound>>
        /\ \A r \in turns' : r \in turns \/ \E o \in object[t] :
              r = [thread |-> t, of |-> o.of, content |-> o.content, loaded |-> loaded[t],
                   late |-> o.of \in expired]
    BY DEF Vision!Send
  <1>2. pc \in [Threads -> Vision!Steps]
    BY DEF HandoffInv, VisionTyped, Vision!TypeOK
  <1>3. /\ pc' \in [Threads -> Vision!Steps] /\ pc'[t] \in {"open", "closed"}
        /\ \A s \in Threads \ {t} : pc'[s] = pc[s]
    BY <1>1, <1>2 DEF Vision!Steps
  <1>4. VisionTyped'
    BY <1>1, <1>3 DEF HandoffInv, VisionTyped, Vision!TypeOK
  <1>5. SessionInv' /\ AttestedInv'
    BY <1>1, <1>3 DEF HandoffInv, SessionInv, AttestedInv
  <1>6. InstructionInv'
    BY <1>1, <1>3 DEF HandoffInv, InstructionInv, OpenSteps
  <1>7. \A s \in Sessions : s \in Threads
    BY DEF VisionBounds
  <1>8. BindingInv'
    BY <1>1, <1>3, <1>7 DEF HandoffInv, BindingInv
  <1>9. \A o \in object[t] : t \in overtaken \/ o.of \notin expired
    BY <1>1 DEF HandoffInv, AttestedInv
  <1>10. t \in Sessions /\ (t \in raced \/ loaded[t] = Vision!Authorized)
    BY <1>1 DEF HandoffInv, SessionInv, InstructionInv, OpenSteps
  <1>11. TurnInv'
    BY <1>1, <1>3, <1>7, <1>10 DEF HandoffInv, TurnInv
  <1>12. Vision!TurnsAreAuthorized'
    <2> SUFFICES ASSUME NEW r \in turns'
                 PROVE  /\ r.loaded # Vision!Authorized => r.thread \in raced
                        /\ r.late => r.thread \in overtaken
      BY <1>1 DEF Vision!TurnsAreAuthorized
    <2>1. CASE r \in turns
      BY <2>1 DEF HandoffInv, Vision!TurnsAreAuthorized
    <2>2. ASSUME NEW o \in object[t],
                 r = [thread |-> t, of |-> o.of, content |-> o.content, loaded |-> loaded[t],
                      late |-> o.of \in expired]
          PROVE  /\ r.loaded # Vision!Authorized => r.thread \in raced
                 /\ r.late => r.thread \in overtaken
      <3>1. r.thread = t /\ r.loaded = loaded[t] /\ r.late = (o.of \in expired)
        BY <2>2
      <3> QED
        BY <1>9, <1>10, <3>1
    <2> QED
      BY <1>1, <2>1, <2>2
  <1>13. Vision!AcceptedIsBound'
    BY <1>1 DEF HandoffInv, Vision!AcceptedIsBound
  <1> QED
    BY <1>4, <1>5, <1>6, <1>8, <1>11, <1>12, <1>13 DEF HandoffInv

\* A result is accepted under the binding of its thread.
LEMMA AcceptKeeps ==
    ASSUME HandoffInv, NEW r \in turns, NEW b \in bindings, NEW o \in objects,
           Vision!Accept(r, b, o)
    PROVE  HandoffInv'
  <1> USE DEF Vision!files, Vision!time, Vision!caller, Vision!session, Vision!history
  <1>1. /\ UNCHANGED <<content, stamp, instructions, expired, consumed, clock, known, objects, object,
                       bindings, pc, loaded, hashed, turns, events, raced, overtaken, rebound>>
        /\ accepted' = {[turn |-> r, binding |-> b, content |-> content]}
        /\ Vision!Binding(o, r.thread) = b /\ o.content = content
    BY DEF Vision!Accept, Vision!Resumes, Vision!Live, Vision!Unchanged
  <1>2. b.content = content /\ b.thread = r.thread
    BY <1>1 DEF Vision!Binding
  <1>3. VisionTyped'
    BY <1>1 DEF HandoffInv, VisionTyped, Vision!TypeOK
  <1>4. SessionInv' /\ InstructionInv' /\ AttestedInv' /\ BindingInv' /\ TurnInv'
    BY <1>1 DEF HandoffInv, SessionInv, InstructionInv, AttestedInv, BindingInv, TurnInv
  <1>5. Vision!TurnsAreAuthorized'
    BY <1>1 DEF HandoffInv, Vision!TurnsAreAuthorized
  <1>6. r.thread \notin rebound => b.of = r.of /\ b.content = r.content
    <2> SUFFICES ASSUME r.thread \notin rebound
                 PROVE  b.of = r.of /\ b.content = r.content
      OBVIOUS
    <2>1. r.thread \in Sessions /\ \E x \in object[r.thread] : r.of = x.of /\ r.content = x.content
      BY DEF HandoffInv, TurnInv
    <2>2. \E x \in object[r.thread] : b.of = x.of /\ b.content = x.content
      BY <1>2, <2>1 DEF HandoffInv, BindingInv
    <2>3. \A x, y \in object[r.thread] : x = y
      <3>1. b.thread \in Threads
        BY DEF HandoffInv, VisionTyped, Vision!TypeOK, Vision!Bindings
      <3> QED
        BY <1>2, <3>1 DEF HandoffInv, SessionInv
    <2> QED
      BY <2>1, <2>2, <2>3
  <1>7. Vision!AcceptedIsBound'
    BY <1>1, <1>2, <1>6 DEF Vision!AcceptedIsBound
  <1> QED
    BY <1>3, <1>4, <1>5, <1>7 DEF HandoffInv

\* The invariant of handoffs and sessions is inductive.
LEMMA HandoffInvariant ==
    ASSUME VisionBounds
    PROVE  Vision!Spec => []HandoffInv
  <1>1. Vision!Init => HandoffInv
    BY VisionStarts
  <1>2. ASSUME HandoffInv, Vision!Next
        PROVE  HandoffInv'
    BY <1>2, WorldKeeps, BindThreadKeeps, StartKeeps, LoadKeeps, SessionCheckKeeps, SendKeeps,
       AcceptKeeps DEF Vision!Next
  <1>3. ASSUME HandoffInv, UNCHANGED Vision!vars
        PROVE  HandoffInv'
    <2>1. UNCHANGED <<content, stamp, instructions, expired, consumed, clock, known, objects, object,
                      bindings, pc, loaded, hashed, turns, accepted, events, raced, overtaken, rebound>>
      BY <1>3 DEF Vision!vars, Vision!files, Vision!time, Vision!caller, Vision!session,
         Vision!history
    <2>2. VisionTyped'
      BY <1>3, <2>1 DEF HandoffInv, VisionTyped, Vision!TypeOK
    <2> QED
      BY <1>3, <2>1, <2>2, SessionsKept DEF SessionsStay
  <1> QED
    BY <1>1, <1>2, <1>3, PTL DEF Vision!Spec

\* A turn is sent with the authority's instructions and on a handoff that had
\* not expired when it was attested, and its result is accepted under the
\* handoff of its session, while the schema is what the provider was given;
\* each but for the overtaking that the property names.
THEOREM WorkersAreBound ==
    ASSUME VisionBounds
    PROVE  Vision!Spec => []HandoffsAreBound
  <1>1. HandoffInv => HandoffsAreBound
    BY DEF HandoffInv, VisionTyped, HandoffsAreBound, Vision!HandoffsAreBound
  <1> QED
    BY <1>1, HandoffInvariant, PTL

-----------------------------------------------------------------------------
(***************************************************************************)
(* The gate of a drawing's set-up and the dimension pilot behind it        *)
(* (SetupGate, DimensionPilot), for any drawings, inputs, policies, runs   *)
(* and events.                                                             *)
(***************************************************************************)
\* Something is compared; marks that are not runs.
PilotBounds ==
    /\ Fields # {} /\ MaxChanges \in Nat /\ MaxEvents \in Nat
    /\ Absent \notin Runs /\ "other" \notin Runs /\ Absent # "other"

\* The records that these commands write.
Plans == [template : Templates \cap {Released}, policy : Policies \cup {NoPolicy},
          unresolved : Unresolvable \cup {{}}]
Audits == [drawing : Drawings, shows : Drawings, unsaved : BOOLEAN, saved : BOOLEAN]
Verdicts == [verified : BOOLEAN, plan : Plans, audit : Audits,
              template : Templates \cap {Released}, policy : Policies \cup {NoPolicy},
              gating : SUBSET Fields, observed : SUBSET Fields, asserted : BOOLEAN]
Checks == [audit : Audits, drawing : Drawings, names : Drawings]
Questions == [command : {"none", "audit", "layers"}, before : Drawings \cup {Absent},
              audit : Audits \cup {Absent}, shows : Drawings \cup {Absent},
              unsaved : BOOLEAN, saved : BOOLEAN]

GateTyped ==
    /\ template \in Templates /\ drawing \in Drawings /\ memory \in Drawings
    /\ plan \in Plans \cup {Absent} /\ audit \in Audits \cup {Absent}
    /\ evidence \in Verdicts \cup {Absent} /\ layers \in Checks \cup {Absent}
    /\ asked \in Questions /\ changes \in 0..MaxChanges

\* What verified evidence means.
Conforms(e) ==
    e.verified =>
        /\ e.plan.template = Released /\ e.template = Released
        /\ Pilot!Gating(e.plan) # {} /\ Pilot!Gating(e.plan) \cap e.plan.unresolved = {}
        /\ Pilot!Gating(e.plan) \subseteq Conforming[e.audit.shows]
        /\ Pilot!ValidEvidence(e)

EvidenceInv == evidence # Absent => Conforms(evidence)

\* Where an audit stands: what it hashed is there until the drawing is saved.
AuditStands(q, d) ==
    q.command = "audit" =>
        /\ q.before \in Drawings /\ (q.saved \/ q.before = d)
        /\ q.shows # Absent => q.unsaved \/ q.saved \/ q.shows = q.before

CheckStands(q) ==
    q.command = "layers" =>
        q.before \in Drawings /\ q.audit \in Audits /\ q.audit.drawing = q.before

GateInv ==
    /\ GateTyped /\ EvidenceInv
    /\ AuditStands(asked, drawing) /\ CheckStands(asked) /\ Pilot!AuditsAreTrue

-----------------------------------------------------------------------------
LEMMA GateStarts ==
    ASSUME PilotBounds, Pilot!GateInit
    PROVE  GateInv
  <1>1. Pilot!Idle \in Questions /\ Pilot!Idle.command = "none"
    BY DEF Pilot!Idle, Questions
  <1>2. GateTyped
    BY <1>1 DEF PilotBounds, Pilot!GateInit, GateTyped
  <1> QED
    BY <1>1, <1>2 DEF Pilot!GateInit, GateInv, EvidenceInv, AuditStands, CheckStands,
       Pilot!AuditsAreTrue

\* Evidence that an evaluation makes of a valid plan and an audit.
LEMMA EvaluationConforms ==
    ASSUME PilotBounds, NEW p \in Plans, NEW a \in Audits, Pilot!ValidPlan(p)
    PROVE  /\ Pilot!EvaluateSetupPlan(p, a) \in Verdicts
           /\ Conforms(Pilot!EvaluateSetupPlan(p, a))
  <1> DEFINE e == Pilot!EvaluateSetupPlan(p, a)
             v == Pilot!Mismatches(p, a) = {} /\ (p.policy = NoPolicy \/ Pilot!Gating(p) # {})
  <1>1. Pilot!Gating(p) \in SUBSET Fields /\ Pilot!Observed(p) \in SUBSET Fields
    BY DEF Pilot!Gating, Pilot!Observed
  <1>2. v \in BOOLEAN /\ (p.policy # NoPolicy /\ v) \in BOOLEAN
    OBVIOUS
  <1>3. e = [verified |-> v, plan |-> p, audit |-> a, template |-> p.template,
             policy |-> p.policy,
             gating |-> IF p.policy = NoPolicy THEN {} ELSE Pilot!Gating(p),
             observed |-> IF p.policy = NoPolicy THEN {} ELSE Pilot!Observed(p),
             asserted |-> p.policy # NoPolicy /\ v]
    BY DEF Pilot!EvaluateSetupPlan
  <1> DEFINE w == p.policy # NoPolicy /\ v
  <1>4. v => /\ Pilot!Mismatches(p, a) = {} /\ Pilot!Gating(p) # {}
    BY DEF PilotBounds, Pilot!Gating
  <1>5. /\ e.verified = v /\ e.plan = p /\ e.audit = a /\ e.template = p.template
        /\ e.policy = p.policy /\ e.asserted = w
        /\ e.gating = IF p.policy = NoPolicy THEN {} ELSE Pilot!Gating(p)
    BY <1>3
  <1>6. w = (p.policy # NoPolicy /\ v)
    OBVIOUS
  <1> HIDE DEF v, w
  <1>7. e \in Verdicts
    BY <1>1, <1>2, <1>3 DEF Plans, Verdicts, w
  <1> HIDE DEF e
  <1>8. p.template = Released /\ (Pilot!Gating(p) \cap p.unresolved = {})
    BY DEF Plans, Pilot!ValidPlan, Pilot!Observed
  <1>9. ASSUME v
        PROVE  /\ Pilot!Gating(p) \subseteq Conforming[a.shows]
               /\ Pilot!ValidEvidence(e)
    <2>1. Pilot!Gating(p) \subseteq Conforming[a.shows]
      BY <1>4, <1>9 DEF Pilot!Mismatches
    <2>2. CASE p.policy = NoPolicy
      BY <1>5, <2>1, <2>2 DEF Pilot!ValidEvidence
    <2>3. CASE p.policy # NoPolicy
      BY <1>4, <1>5, <1>6, <1>9, <2>1, <2>3 DEF Pilot!ValidEvidence
    <2> QED
      BY <2>1, <2>2, <2>3
  <1>10. Conforms(e)
    BY <1>4, <1>5, <1>8, <1>9 DEF Conforms
  <1> QED
    BY <1>7, <1>10 DEF e

\* The gate's commands, and others beside them.
LEMMA GateKeeps ==
    ASSUME PilotBounds, GateInv, Pilot!GateNext
    PROVE  GateInv'
  <1> USE DEF GateInv, GateTyped
  <1>1. CASE Pilot!CreateSetupPlan
    <2>1. plan' \in Plans
      BY <1>1 DEF Pilot!CreateSetupPlan, Plans
    <2> QED
      BY <1>1, <2>1 DEF Pilot!CreateSetupPlan, EvidenceInv, Pilot!AuditsAreTrue
  <1>2. CASE Pilot!BeginAudit
    <2>1. /\ asked' \in Questions /\ asked'.command = "audit" /\ asked'.before = drawing
          /\ asked'.shows = Absent
      BY <1>2 DEF Pilot!BeginAudit, Pilot!Idle, Questions
    <2>2. AuditStands(asked', drawing') /\ CheckStands(asked')
      BY <1>2, <2>1 DEF Pilot!BeginAudit, AuditStands, CheckStands
    <2> QED
      BY <1>2, <2>1, <2>2 DEF Pilot!BeginAudit, EvidenceInv, Pilot!AuditsAreTrue
  <1>3. CASE Pilot!AskAutoCad
    <2>1. /\ asked' \in Questions /\ asked'.command = "audit" /\ asked'.before = asked.before
          /\ asked'.shows = memory /\ asked'.saved = asked.saved
          /\ asked'.unsaved = (memory # drawing)
      BY <1>3 DEF Pilot!AskAutoCad, Questions
    <2>2. AuditStands(asked', drawing') /\ CheckStands(asked')
      BY <1>3, <2>1 DEF Pilot!AskAutoCad, AuditStands, CheckStands
    <2> QED
      BY <1>3, <2>1, <2>2 DEF Pilot!AskAutoCad, EvidenceInv, Pilot!AuditsAreTrue
  <1>4. CASE Pilot!CreateSetupAudit
    <2>1. asked' = Pilot!Idle /\ asked' \in Questions /\ asked'.command = "none"
      BY <1>4 DEF Pilot!CreateSetupAudit, Pilot!Idle, Questions
    <2>2. \/ audit' = audit
          \/ /\ audit' \in Audits
             /\ ~audit'.unsaved /\ ~audit'.saved => audit'.shows = audit'.drawing
      BY <1>4 DEF Pilot!CreateSetupAudit, AuditStands, Audits, Questions
    <2>3. UNCHANGED <<template, drawing, memory, plan, evidence, layers, changes>>
      BY <1>4 DEF Pilot!CreateSetupAudit
    <2>4. AuditStands(asked', drawing') /\ CheckStands(asked')
      BY <2>1 DEF AuditStands, CheckStands
    <2> QED
      BY <2>1, <2>2, <2>3, <2>4 DEF EvidenceInv, Pilot!AuditsAreTrue
  <1>5. CASE Pilot!VerifySetup
    <2>1. /\ plan \in Plans /\ audit \in Audits /\ Pilot!ValidPlan(plan)
          /\ evidence' = Pilot!EvaluateSetupPlan(plan, audit)
          /\ UNCHANGED <<template, drawing, memory, plan, audit, layers, asked, changes>>
      BY <1>5 DEF Pilot!VerifySetup
    <2>2. evidence' \in Verdicts /\ Conforms(evidence')
      BY <2>1, EvaluationConforms
    <2> QED
      BY <2>1, <2>2 DEF EvidenceInv, Pilot!AuditsAreTrue
  <1>6. CASE Pilot!BeginLayerCheck
    <2>1. /\ asked' \in Questions /\ asked'.command = "layers" /\ asked'.before = drawing
          /\ asked'.audit = audit /\ audit \in Audits /\ audit.drawing = drawing
      BY <1>6 DEF Pilot!BeginLayerCheck, Pilot!Idle, Questions
    <2>2. AuditStands(asked', drawing') /\ CheckStands(asked')
      BY <1>6, <2>1 DEF AuditStands, CheckStands
    <2> QED
      BY <1>6, <2>1, <2>2 DEF Pilot!BeginLayerCheck, EvidenceInv, Pilot!AuditsAreTrue
  <1>7. CASE Pilot!CreateLayerStandardCheck
    <2>1. asked' = Pilot!Idle /\ asked' \in Questions /\ asked'.command = "none"
      BY <1>7 DEF Pilot!CreateLayerStandardCheck, Pilot!Idle, Questions
    <2>2. \/ layers' = layers
          \/ /\ layers' \in Checks
             /\ layers'.names = layers'.audit.shows /\ layers'.drawing = layers'.audit.drawing
      BY <1>7 DEF Pilot!CreateLayerStandardCheck, CheckStands, Checks, Audits
    <2>3. UNCHANGED <<template, drawing, memory, plan, audit, evidence, changes>>
      BY <1>7 DEF Pilot!CreateLayerStandardCheck
    <2>4. AuditStands(asked', drawing') /\ CheckStands(asked')
      BY <2>1 DEF AuditStands, CheckStands
    <2> QED
      BY <2>1, <2>2, <2>3, <2>4 DEF EvidenceInv, Pilot!AuditsAreTrue
  <1>8. ASSUME Pilot!Change
        PROVE  changes' \in 0..MaxChanges
    BY <1>8 DEF PilotBounds, Pilot!Change
  <1>9. CASE Pilot!EditDrawing \/ Pilot!ReplaceTemplate
    <2>1. /\ template' \in Templates /\ memory' \in Drawings /\ changes' \in 0..MaxChanges
          /\ UNCHANGED <<drawing, plan, audit, evidence, layers, asked>>
      BY <1>8, <1>9 DEF Pilot!EditDrawing, Pilot!ReplaceTemplate
    <2> QED
      BY <2>1 DEF EvidenceInv, Pilot!AuditsAreTrue
  <1>10. CASE Pilot!SaveDrawing
    <2>1. /\ drawing' = memory /\ changes' \in 0..MaxChanges
          /\ UNCHANGED <<template, memory, plan, audit, evidence, layers>>
      BY <1>8, <1>10 DEF Pilot!SaveDrawing
    <2>2. /\ asked' \in Questions /\ asked'.command = asked.command
          /\ asked'.before = asked.before /\ asked'.shows = asked.shows
          /\ asked'.audit = asked.audit
          /\ asked'.saved \/ asked.command = "none"
      <3>1. CASE asked = Pilot!Idle
        BY <1>10, <3>1 DEF Pilot!SaveDrawing, Pilot!Idle, Questions
      <3>2. CASE asked # Pilot!Idle
        BY <1>10, <3>2 DEF Pilot!SaveDrawing, Questions
      <3> QED
        BY <3>1, <3>2
    <2>3. AuditStands(asked', drawing') /\ CheckStands(asked')
      BY <2>2 DEF AuditStands, CheckStands
    <2> QED
      BY <2>1, <2>2, <2>3 DEF EvidenceInv, Pilot!AuditsAreTrue
  <1>11. CASE Pilot!WritePolicy
    <2>1. PICK policy \in Policies, unresolved \in Unresolvable :
            plan' = [plan EXCEPT !.policy = policy, !.unresolved = unresolved]
      BY <1>11 DEF Pilot!WritePolicy
    <2>2. plan \in Plans
      BY <1>11 DEF Pilot!WritePolicy
    <2>3. plan' \in Plans
      BY <2>1, <2>2 DEF Plans
    <2>4. /\ changes' \in 0..MaxChanges
          /\ UNCHANGED <<template, drawing, memory, audit, evidence, layers, asked>>
      BY <1>8, <1>11 DEF Pilot!WritePolicy
    <2> QED
      BY <2>3, <2>4 DEF EvidenceInv, Pilot!AuditsAreTrue
  <1>12. CASE Pilot!Discard
    <2>1. /\ changes' \in 0..MaxChanges /\ audit' \in {audit, Absent}
          /\ evidence' \in {evidence, Absent}
          /\ UNCHANGED <<template, drawing, memory, plan, layers, asked>>
      BY <1>8, <1>12 DEF Pilot!Discard
    <2> QED
      BY <2>1 DEF EvidenceInv, Pilot!AuditsAreTrue
  <1> QED
    BY <1>1, <1>2, <1>3, <1>4, <1>5, <1>6, <1>7, <1>9, <1>10, <1>11, <1>12 DEF Pilot!GateNext

-----------------------------------------------------------------------------
Contents == (Primitives \X Semantics) \cup {<<"empty">>, <<"alien">>}
Files == [by : Runs \cup {"other", Absent}, content : Contents \cup {Absent}]
Approvals == [inputs : Pilot!Inputs, plan : Plans, evidence : Verdicts,
              template : Templates \cap {Released}]
Locals == [plan : Approvals \cup {Absent}, setup : Plans \cup {Absent},
           gate : Verdicts \cup {Absent}, snapshot : Pilot!Inputs \cup {Absent},
           before : Contents \cup {Absent}, seen : Contents \cup {Absent},
           after : Contents \cup {Absent}, stuck : BOOLEAN]
Reports == [run : Runs, passed : BOOLEAN, plan : Approvals \cup {Absent},
            gate : Verdicts \cup {Absent}, inputs : Pilot!Inputs \cup {Absent},
            dxf : Contents \cup {Absent}]

PilotTyped ==
    /\ inputs \in Pilot!Inputs /\ approvals \subseteq Approvals
    /\ approved \in approvals \cup {Absent}
    /\ tmp \in Files /\ out \in Files /\ report \in Reports \cup {Absent}
    /\ pilotPc \in [Runs -> Pilot!Labels] /\ run \in [Runs -> Locals]
    /\ pilotEvents \in 0..MaxEvents /\ touched \in Nat

\* The steps of a run: with its plan read, with its inputs found the plan's,
\* with the drawing built, reviewed, and found as it was reviewed.
Begun == Pilot!Labels \ {"idle", "raised", "dead"}
Bound == Begun \ {"snapshot", "report", "done"}
Drawing == {"before", "seen", "after", "judge", "absent", "rename"}
Reviewed == {"judge", "absent", "rename", "verify", "passed"}
Published == {"verify", "passed", "done", "raised", "dead"}

\* What was approved is what the run works by.
ByApproval(p, g, snapshot) ==
    /\ snapshot = p.inputs /\ g = p.evidence
    /\ g.verified /\ g.plan = p.plan /\ g.template = Released

Chained(s) == SourceOf[s.primitive] = s.source /\ PrimitiveOf[s.semantic] = s.primitive

\* A run at its step.
RunStands(label, q) ==
    /\ label \in Begun => q.plan \in approvals /\ q.gate \in Verdicts /\ Conforms(q.gate)
    /\ label \in Bound => ByApproval(q.plan, q.gate, q.snapshot)
    /\ label \in Bound \ {"model"} => Chained(q.snapshot)

RunsInv == \A r \in Runs : RunStands(pilotPc[r], run[r])

\* A temporary file is its run's, while nobody else touches it.
TmpInv ==
    \A r \in Runs : tmp.by = r => pilotPc[r] \in Pilot!Writing \cup {"dead"} \/ run[r].stuck

\* What a run left at its step in the temporary file, t, and the output, o.
Left(r, label, q, t, o) ==
    /\ label \in Pilot!Writing => t.by = r
    /\ label \in Drawing => t.content = Pilot!Built(q.snapshot)
    /\ label \in Reviewed => q.after = Pilot!Built(q.snapshot)
    /\ o.by = r => label \in Published /\ q.after = o.content

PilotFilesInv == touched = 0 => \A r \in Runs : Left(r, pilotPc[r], run[r], tmp, out)

PassedInv ==
    report # Absent /\ report.passed =>
        /\ report.plan \in approvals /\ Chained(report.inputs)
        /\ ByApproval(report.plan, report.gate, report.inputs)
        /\ report.dxf = Pilot!Built(report.inputs) \/ touched > 0

PilotInv ==
    /\ GateInv /\ PilotTyped /\ RunsInv /\ TmpInv /\ PilotFilesInv /\ PassedInv /\ Pilot!OutputsAreKept

-----------------------------------------------------------------------------
LEMMA PilotStarts ==
    ASSUME PilotBounds, Pilot!PilotInit
    PROVE  PilotInv
  <1>1. GateInv
    BY GateStarts DEF Pilot!PilotInit
  <1>2. Pilot!Nothing \in Files /\ Pilot!Nothing.by = Absent
    BY DEF Pilot!Nothing, Files
  <1>3. Pilot!Fresh \in Locals
    BY DEF Pilot!Fresh, Locals
  <1>4. PilotTyped
    <2>1. /\ inputs \in Pilot!Inputs /\ approvals = {} /\ approved = Absent
          /\ tmp = Pilot!Nothing /\ out = Pilot!Nothing /\ report = Absent
          /\ touched = 0 /\ pilotEvents = 0
      BY DEF Pilot!PilotInit
    <2>2. pilotPc \in [Runs -> Pilot!Labels] /\ run \in [Runs -> Locals]
      BY <1>3 DEF Pilot!PilotInit, Pilot!Labels
    <2>3. pilotEvents \in 0..MaxEvents
      BY <2>1 DEF PilotBounds
    <2> QED
      BY <1>2, <2>1, <2>2, <2>3 DEF PilotTyped
  <1>5. /\ \A r \in Runs : pilotPc[r] = "idle"
        /\ tmp.by = Absent /\ out.by = Absent /\ report = Absent /\ lost = {}
    BY <1>2 DEF Pilot!PilotInit
  <1>6. RunsInv
    BY <1>5 DEF RunsInv, RunStands, Begun, Bound
  <1>7. TmpInv /\ PilotFilesInv
    BY <1>5 DEF PilotBounds, TmpInv, PilotFilesInv, Left, Pilot!Writing, Drawing, Reviewed
  <1>8. PassedInv /\ Pilot!OutputsAreKept
    BY <1>5 DEF PassedInv, Pilot!OutputsAreKept
  <1> QED
    BY <1>1, <1>4, <1>6, <1>7, <1>8 DEF PilotInv

\* The gate beside the pilot, and a plan that is approved.
LEMMA GateBesidePilot ==
    ASSUME PilotBounds, PilotInv, Pilot!GateNext, UNCHANGED Pilot!pvars
    PROVE  PilotInv'
  <1>1. GateInv'
    BY GateKeeps DEF PilotInv
  <1>2. UNCHANGED <<inputs, approved, approvals, tmp, out, report, pilotPc, run, pilotEvents, lost,
                    touched>>
    BY DEF Pilot!pvars
  <1> QED
    BY <1>1, <1>2 DEF PilotInv, PilotTyped, RunsInv, RunStands, TmpInv, PilotFilesInv, PassedInv,
       Pilot!OutputsAreKept

LEMMA GateIsKept ==
    ASSUME GateInv, UNCHANGED Pilot!gvars
    PROVE  GateInv'
  <1>1. UNCHANGED <<template, drawing, memory, plan, audit, evidence, layers, asked, changes>>
    BY DEF Pilot!gvars
  <1> QED
    BY <1>1 DEF GateInv, GateTyped, EvidenceInv, Pilot!AuditsAreTrue

LEMMA PlanApproved ==
    ASSUME PilotBounds, PilotInv, Pilot!ApprovePlan
    PROVE  PilotInv'
  <1>1. /\ plan \in Plans /\ evidence \in Verdicts
        /\ approved' = [inputs |-> inputs, plan |-> plan, evidence |-> evidence,
                        template |-> evidence.template]
        /\ approvals' = approvals \cup {approved'}
        /\ UNCHANGED <<inputs, tmp, out, report, pilotPc, run, pilotEvents, lost, touched>>
    BY DEF Pilot!ApprovePlan, PilotInv, GateInv, GateTyped
  <1>2. evidence.template \in Templates \cap {Released}
    BY <1>1 DEF Verdicts
  <1>3. approved' \in Approvals
    BY <1>1, <1>2 DEF Approvals, PilotInv, PilotTyped
  <1>4. GateInv'
    BY GateIsKept DEF PilotInv, Pilot!ApprovePlan
  <1>5. PilotTyped'
    BY <1>1, <1>3 DEF PilotInv, PilotTyped
  <1>6. RunsInv'
    BY <1>1 DEF PilotInv, RunsInv, RunStands
  <1>7. TmpInv' /\ PilotFilesInv' /\ PassedInv' /\ Pilot!OutputsAreKept'
    BY <1>1 DEF PilotInv, TmpInv, PilotFilesInv, PassedInv, Pilot!OutputsAreKept
  <1> QED
    BY <1>4, <1>5, <1>6, <1>7 DEF PilotInv

\* One run moves: what it is to show of itself, and of the files for the others.
LEMMA RunMoves ==
    ASSUME PilotBounds, PilotInv, NEW r \in Runs,
           NEW label \in Pilot!Labels, NEW q \in Locals,
           pilotPc' = [pilotPc EXCEPT ![r] = label], run' = [run EXCEPT ![r] = q],
           UNCHANGED Pilot!gvars, UNCHANGED <<inputs, approved, approvals, touched>>,
           tmp' \in Files, out' \in Files, report' \in Reports \cup {Absent},
           pilotEvents' \in 0..MaxEvents,
           RunStands(label, q),
           tmp' = tmp \/ tmp'.by \in {r, Absent},
           tmp'.by = r => label \in Pilot!Writing \cup {"dead"} \/ q.stuck,
           touched = 0 =>
               /\ tmp' = tmp \/ tmp.by \in {r, Absent}
               /\ out' = out \/ out'.by \in {r, Absent}
               /\ Left(r, label, q, tmp', out'),
           PassedInv', Pilot!OutputsAreKept'
    PROVE  PilotInv'
  <1>1. GateInv'
    BY GateIsKept DEF PilotInv
  <1>2. /\ pilotPc' \in [Runs -> Pilot!Labels] /\ run' \in [Runs -> Locals]
        /\ pilotPc'[r] = label /\ run'[r] = q
        /\ \A s \in Runs \ {r} : pilotPc'[s] = pilotPc[s] /\ run'[s] = run[s]
    BY DEF PilotInv, PilotTyped
  <1>3. PilotTyped'
    BY <1>2 DEF PilotInv, PilotTyped
  <1>4. RunsInv'
    <2>1. RunStands(label, q)'
      BY DEF RunStands
    <2>2. \A s \in Runs \ {r} : RunStands(pilotPc[s], run[s])
      BY DEF PilotInv, RunsInv
    <2> QED
      BY <1>2, <2>2 DEF RunsInv, RunStands
  <1>5. TmpInv'
    BY <1>2 DEF PilotInv, TmpInv, PilotBounds
  <1>6. PilotFilesInv'
    <2> SUFFICES ASSUME touched = 0, NEW s \in Runs
                 PROVE  Left(s, pilotPc'[s], run'[s], tmp', out')
      BY DEF PilotFilesInv
    <2>1. CASE s = r
      BY <1>2, <2>1
    <2>2. CASE s # r
      <3>1. Left(s, pilotPc[s], run[s], tmp, out)
        BY DEF PilotInv, PilotFilesInv
      <3>2. out' = out \/ out'.by # s
        BY <2>2 DEF PilotBounds
      <3>3. tmp' = tmp \/ tmp.by # s
        BY <2>2 DEF PilotBounds
      <3>4. pilotPc[s] \in Drawing => pilotPc[s] \in Pilot!Writing
        BY DEF Drawing, Pilot!Writing
      <3>5. Left(s, pilotPc[s], run[s], tmp', out')
        BY <3>1, <3>2, <3>3, <3>4 DEF Left
      <3> QED
        BY <1>2, <2>2, <3>5
    <2> QED
      BY <2>1, <2>2
  <1> QED
    BY <1>1, <1>3, <1>4, <1>5, <1>6 DEF PilotInv

\* Nothing but the run's own locals and step changes.
LEMMA RunAlone ==
    ASSUME PilotBounds, PilotInv, NEW r \in Runs,
           NEW label \in Pilot!Labels, NEW q \in Locals,
           pilotPc' = [pilotPc EXCEPT ![r] = label], run' = [run EXCEPT ![r] = q],
           UNCHANGED Pilot!gvars,
           UNCHANGED <<inputs, approved, approvals, touched, tmp, out, report, lost>>,
           pilotEvents' \in 0..MaxEvents,
           RunStands(label, q),
           tmp.by = r => label \in Pilot!Writing \cup {"dead"} \/ q.stuck,
           touched = 0 => Left(r, label, q, tmp, out)
    PROVE  PilotInv'
  <1>1. PassedInv' /\ Pilot!OutputsAreKept'
    BY DEF PilotInv, PassedInv, Pilot!OutputsAreKept
  <1>2. tmp' \in Files /\ out' \in Files /\ report' \in Reports \cup {Absent}
    BY DEF PilotInv, PilotTyped
  <1> QED
    BY <1>1, <1>2, RunMoves

\* A run reads its plan, takes the snapshot, checks the model and solves.
LEMMA RunPrepares ==
    ASSUME PilotBounds, PilotInv, NEW r \in Runs,
           Pilot!Begin(r) \/ Pilot!Snapshot(r) \/ Pilot!CheckModel(r) \/ Pilot!Solve(r)
    PROVE  PilotInv'
  <1>1. /\ UNCHANGED Pilot!gvars
        /\ UNCHANGED <<inputs, approved, approvals, touched, tmp, out, report, lost, pilotEvents>>
    BY DEF Pilot!Begin, Pilot!Snapshot, Pilot!CheckModel, Pilot!Solve
  <1>2. /\ pilotPc \in [Runs -> Pilot!Labels] /\ run \in [Runs -> Locals] /\ run[r] \in Locals
        /\ run = [run EXCEPT ![r] = run[r]]
    BY DEF PilotInv, PilotTyped
  <1>3. PICK label \in {"raised", "snapshot", "model", "solve", "open", "report"},
             q \in Locals :
          /\ pilotPc' = [pilotPc EXCEPT ![r] = label] /\ run' = [run EXCEPT ![r] = q]
          /\ q.stuck = run[r].stuck /\ q.after = run[r].after
          /\ RunStands(label, q)
    <2>0. RunStands(pilotPc[r], run[r])
      BY DEF PilotInv, RunsInv
    <2>1. CASE Pilot!Begin(r)
      <3>1. CASE out # Pilot!Nothing \/ report # Absent
        <4>1. pilotPc' = [pilotPc EXCEPT ![r] = "raised"] /\ run' = run
          BY <2>1, <3>1 DEF Pilot!Begin, Pilot!Goto
        <4>2. RunStands("raised", run[r])
          BY DEF RunStands, Begun, Bound
        <4> QED
          BY <1>2, <4>1, <4>2
      <3>2. CASE ~(out # Pilot!Nothing \/ report # Absent)
        <4> DEFINE q == [run[r] EXCEPT !.plan = approved, !.setup = plan, !.gate = evidence]
        <4>1. approved \in approvals /\ approved \in Approvals /\ plan \in Plans
              /\ evidence \in Verdicts /\ Conforms(evidence)
          BY <2>1 DEF Pilot!Begin, PilotInv, PilotTyped, GateInv, GateTyped, EvidenceInv
        <4>2. q \in Locals /\ q.plan = approved /\ q.gate = evidence
              /\ q.stuck = run[r].stuck /\ q.after = run[r].after
          BY <1>2, <4>1 DEF Locals
        <4>3. pilotPc' = [pilotPc EXCEPT ![r] = "snapshot"]
          BY <2>1, <3>2 DEF Pilot!Begin, Pilot!Goto
        <4>4. run' = [run EXCEPT ![r] = q]
          BY <1>2, <2>1, <3>2 DEF Pilot!Begin
        <4> HIDE DEF q
        <4>5. RunStands("snapshot", q)
          BY <4>1, <4>2 DEF RunStands, Bound
        <4> QED
          BY <4>2, <4>3, <4>4, <4>5
      <3> QED
        BY <3>1, <3>2
    <2>2. CASE Pilot!Snapshot(r)
      <3> DEFINE q == [run[r] EXCEPT !.snapshot = inputs]
      <3>1. q \in Locals /\ q.plan = run[r].plan /\ q.gate = run[r].gate
            /\ q.setup = run[r].setup /\ q.snapshot = inputs
            /\ q.stuck = run[r].stuck /\ q.after = run[r].after
        BY <1>2 DEF Locals, PilotInv, PilotTyped
      <3>2. run' = [run EXCEPT ![r] = q]
        BY <1>2, <2>2 DEF Pilot!Snapshot, Pilot!Set, Locals
      <3> HIDE DEF q
      <3>3. PICK label \in {"model", "report"} :
              /\ pilotPc' = [pilotPc EXCEPT ![r] = label]
              /\ label = "model" =>
                  /\ inputs = run[r].plan.inputs /\ run[r].setup = run[r].plan.plan
                  /\ run[r].gate = run[r].plan.evidence
                  /\ Pilot!SetupVerified(run[r].gate, run[r].setup, run[r].plan)
        BY <2>2 DEF Pilot!Snapshot, Pilot!Goto
      <3>4. /\ run[r].plan \in approvals /\ run[r].gate \in Verdicts /\ Conforms(run[r].gate)
            /\ pilotPc[r] = "snapshot"
        BY <2>0, <2>2 DEF RunStands, Pilot!Snapshot, Begun, Pilot!Labels
      <3>5. label = "model" => ByApproval(q.plan, q.gate, q.snapshot)
        BY <3>1, <3>3, <3>4 DEF ByApproval, Conforms, Pilot!SetupVerified
      <3>6. RunStands(label, q)
        BY <3>1, <3>3, <3>4, <3>5 DEF RunStands, Bound
      <3> QED
        BY <3>1, <3>2, <3>3, <3>6
    <2>3. CASE Pilot!CheckModel(r) \/ Pilot!Solve(r)
      <3>1. PICK label \in {"solve", "open", "report"} :
              /\ pilotPc' = [pilotPc EXCEPT ![r] = label] /\ run' = run
              /\ pilotPc[r] = "model" => label = "report" \/ Chained(run[r].snapshot)
              /\ pilotPc[r] \in {"model", "solve"}
        BY <2>3 DEF Pilot!CheckModel, Pilot!Solve, Pilot!Goto, Chained
      <3>2. RunStands(label, run[r])
        BY <2>0, <3>1 DEF RunStands, Begun, Bound, Pilot!Labels
      <3> QED
        BY <1>2, <3>1, <3>2
    <2> QED
      BY <2>1, <2>2, <2>3
  <1>4. pilotPc[r] \in {"idle", "snapshot", "model", "solve"}
    BY DEF Pilot!Begin, Pilot!Snapshot, Pilot!CheckModel, Pilot!Solve
  <1>5. tmp.by = r => q.stuck
    BY <1>3, <1>4 DEF PilotInv, TmpInv, Pilot!Writing
  <1>6. touched = 0 => Left(r, label, q, tmp, out)
    <2>1. touched = 0 => Left(r, pilotPc[r], run[r], tmp, out)
      BY DEF PilotInv, PilotFilesInv
    <2> QED
      BY <1>3, <1>4, <2>1 DEF Left, Pilot!Writing, Drawing, Reviewed, Published
  <1>7. label \in Pilot!Labels /\ pilotEvents' \in 0..MaxEvents
    BY <1>1 DEF Pilot!Labels, PilotInv, PilotTyped
  <1> QED
    BY <1>1, <1>3, <1>5, <1>6, <1>7, RunAlone

\* A run gives its drawing up: the temporary file is deleted or cannot be.
LEMMA RunCleansUp ==
    ASSUME PilotBounds, PilotInv, NEW r \in Runs, Pilot!CleanUp(r),
           NEW label \in {"raised", "report"}, pilotPc' = [pilotPc EXCEPT ![r] = label],
           pilotPc[r] \in Pilot!Writing, RunStands(label, run[r]),
           UNCHANGED Pilot!gvars, UNCHANGED <<inputs, approved, approvals, touched, out, report>>
    PROVE  PilotInv'
  <1>1. /\ run \in [Runs -> Locals] /\ run[r] \in Locals
        /\ run = [run EXCEPT ![r] = run[r]]
    BY DEF PilotInv, PilotTyped
  <1>2. Pilot!Nothing \in Files /\ Pilot!Nothing.by = Absent
    BY DEF Pilot!Nothing, Files
  <1>3. PICK q \in Locals :
          /\ run' = [run EXCEPT ![r] = q] /\ RunStands(label, q) /\ q.after = run[r].after
          /\ tmp' = Pilot!Nothing \/ (tmp' = tmp /\ q.stuck)
          /\ pilotEvents' \in 0..MaxEvents /\ lost' \subseteq lost \cup {"cleanup"}
    <2>1. CASE tmp' = Pilot!Nothing /\ Pilot!Losing("cleanup", tmp) /\ UNCHANGED <<run, pilotEvents>>
      BY <1>1, <2>1 DEF Pilot!Losing, PilotInv, PilotTyped
    <2>2. CASE /\ tmp # Pilot!Nothing /\ Pilot!Event /\ Pilot!Set(r, "stuck", TRUE)
               /\ UNCHANGED <<tmp, lost>>
      <3> DEFINE q == [run[r] EXCEPT !.stuck = TRUE]
      <3>1. /\ q \in Locals /\ q.stuck /\ q.after = run[r].after /\ q.plan = run[r].plan
            /\ q.gate = run[r].gate /\ q.setup = run[r].setup /\ q.snapshot = run[r].snapshot
        BY <1>1 DEF Locals
      <3>2. run' = [run EXCEPT ![r] = q]
        BY <1>1, <2>2 DEF Pilot!Set, Locals
      <3>3. pilotEvents' \in 0..MaxEvents
        BY <2>2 DEF Pilot!Event, PilotInv, PilotTyped, PilotBounds
      <3> HIDE DEF q
      <3>4. RunStands(label, q)
        BY <3>1 DEF RunStands
      <3> QED
        BY <2>2, <3>1, <3>2, <3>3, <3>4
    <2> QED
      BY <2>1, <2>2 DEF Pilot!CleanUp
  <1>4. label \in Pilot!Labels
    BY DEF Pilot!Labels
  <1>5. tmp' \in Files /\ (tmp' = tmp \/ tmp'.by = Absent)
    BY <1>2, <1>3 DEF PilotInv, PilotTyped
  <1>6. tmp'.by = r => q.stuck
    BY <1>2, <1>3 DEF PilotBounds
  <1>7. ASSUME touched = 0
        PROVE  tmp.by = r /\ Left(r, label, q, tmp', out')
    <2>1. Left(r, pilotPc[r], run[r], tmp, out)
      BY <1>7 DEF PilotInv, PilotFilesInv
    <2>2. tmp.by = r /\ out.by # r
      BY <2>1 DEF Left, Published, Pilot!Writing
    <2> QED
      BY <2>2 DEF Left, Pilot!Writing, Drawing, Reviewed
  <1>8. PassedInv' /\ Pilot!OutputsAreKept'
    BY <1>3 DEF PilotInv, PassedInv, Pilot!OutputsAreKept
  <1>9. out' \in Files /\ report' \in Reports \cup {Absent}
    BY DEF PilotInv, PilotTyped
  <1> QED
    BY <1>3, <1>4, <1>5, <1>6, <1>7, <1>8, <1>9, RunMoves

\* The temporary file is created and written.
LEMMA RunWrites ==
    ASSUME PilotBounds, PilotInv, NEW r \in Runs,
           Pilot!OpenTemporary(r) \/ Pilot!BuildDxf(r)
    PROVE  PilotInv'
  <1>1. /\ run \in [Runs -> Locals] /\ run[r] \in Locals
        /\ run = [run EXCEPT ![r] = run[r]] /\ RunStands(pilotPc[r], run[r])
        /\ touched = 0 => Left(r, pilotPc[r], run[r], tmp, out)
    BY DEF PilotInv, PilotTyped, RunsInv, PilotFilesInv
  <1>2. /\ UNCHANGED Pilot!gvars /\ run' = [run EXCEPT ![r] = run[r]]
        /\ UNCHANGED <<inputs, approved, approvals, touched, out, report, pilotEvents>>
    BY <1>1 DEF Pilot!OpenTemporary, Pilot!BuildDxf
  <1>3. /\ pilotEvents' \in 0..MaxEvents /\ out' \in Files /\ report' \in Reports \cup {Absent}
        /\ PassedInv'
    BY <1>2 DEF PilotInv, PilotTyped, PassedInv
  <1>4. CASE Pilot!OpenTemporary(r) /\ tmp # Pilot!Nothing
    <2>1. pilotPc' = [pilotPc EXCEPT ![r] = "raised"] /\ UNCHANGED <<tmp, lost>> /\ pilotPc[r] = "open"
      BY <1>4 DEF Pilot!OpenTemporary, Pilot!Goto
    <2>2. RunStands("raised", run[r]) /\ "raised" \in Pilot!Labels
      BY DEF RunStands, Begun, Bound, Pilot!Labels
    <2>3. tmp.by = r => run[r].stuck
      BY <2>1 DEF PilotInv, TmpInv, Pilot!Writing
    <2>4. touched = 0 => Left(r, "raised", run[r], tmp, out)
      BY <1>1, <2>1 DEF Left, Pilot!Writing, Drawing, Reviewed, Published
    <2> QED
      BY <1>1, <1>2, <1>3, <2>1, <2>2, <2>3, <2>4, RunAlone
  <1>5. CASE Pilot!OpenTemporary(r) /\ tmp = Pilot!Nothing
    <2>1. /\ pilotPc' = [pilotPc EXCEPT ![r] = "build"] /\ lost' = lost /\ pilotPc[r] = "open"
          /\ tmp' = [by |-> r, content |-> <<"empty">>]
      BY <1>5 DEF Pilot!OpenTemporary, Pilot!Goto
    <2>2. tmp' \in Files /\ tmp'.by = r /\ tmp.by = Absent
      BY <1>5, <2>1 DEF Files, Contents, Pilot!Nothing
    <2>3. RunStands("build", run[r]) /\ "build" \in Pilot!Labels
      BY <1>1, <2>1 DEF RunStands, Begun, Bound, Pilot!Labels
    <2>4. touched = 0 => Left(r, "build", run[r], tmp', out')
      BY <1>1, <1>2, <2>1, <2>2 DEF Left, Drawing, Reviewed, Published
    <2>5. Pilot!OutputsAreKept' /\ "build" \in Pilot!Writing
      BY <2>1 DEF PilotInv, Pilot!OutputsAreKept, Pilot!Writing
    <2> QED
      BY <1>1, <1>2, <1>3, <2>1, <2>2, <2>3, <2>4, <2>5, RunMoves
  <1>6. CASE Pilot!BuildDxf(r)
    <2>1. /\ pilotPc' = [pilotPc EXCEPT ![r] = "before"] /\ pilotPc[r] = "build"
          /\ tmp' = [by |-> r, content |-> Pilot!Built(run[r].snapshot)]
          /\ lost' \subseteq lost \cup {"build"}
      BY <1>6 DEF Pilot!BuildDxf, Pilot!Goto, Pilot!Losing
    <2>2. run[r].snapshot \in Pilot!Inputs
      BY <1>1, <2>1 DEF RunStands, Begun, Bound, ByApproval, Approvals, Pilot!Labels, PilotInv,
         PilotTyped
    <2>3. /\ tmp' \in Files /\ tmp'.by = r
          /\ tmp'.content = Pilot!Built(run[r].snapshot)
      BY <2>1, <2>2 DEF Files, Contents, Pilot!Built, Pilot!Inputs
    <2>4. RunStands("before", run[r]) /\ "before" \in Pilot!Labels
      BY <1>1, <2>1 DEF RunStands, Begun, Bound, Pilot!Labels
    <2>5. touched = 0 => tmp.by = r /\ Left(r, "before", run[r], tmp', out')
      BY <1>1, <1>2, <2>1, <2>3 DEF Left, Reviewed, Published, Pilot!Writing
    <2>6. Pilot!OutputsAreKept' /\ "before" \in Pilot!Writing
      BY <2>1 DEF PilotInv, Pilot!OutputsAreKept, Pilot!Writing
    <2> QED
      BY <1>1, <1>2, <1>3, <2>1, <2>3, <2>4, <2>5, <2>6, RunMoves
  <1> QED
    BY <1>4, <1>5, <1>6

\* It is read three times; a run may be killed.
LEMMA RunReads ==
    ASSUME PilotBounds, PilotInv, NEW r \in Runs,
           Pilot!ReadTemporary(r) \/ Pilot!Kill(r)
    PROVE  PilotInv'
  <1>1. /\ run \in [Runs -> Locals] /\ run[r] \in Locals
        /\ run = [run EXCEPT ![r] = run[r]] /\ RunStands(pilotPc[r], run[r])
        /\ touched = 0 => Left(r, pilotPc[r], run[r], tmp, out)
    BY DEF PilotInv, PilotTyped, RunsInv, PilotFilesInv
  <1>2. /\ UNCHANGED Pilot!gvars
        /\ UNCHANGED <<inputs, approved, approvals, touched, tmp, out, report, lost>>
    BY DEF Pilot!ReadTemporary, Pilot!Kill
  <1>3. CASE Pilot!ReadTemporary(r)
    <2>1. PICK label \in {"seen", "after", "judge"}, q \in Locals :
            /\ pilotPc' = [pilotPc EXCEPT ![r] = label] /\ run' = [run EXCEPT ![r] = q]
            /\ q.plan = run[r].plan /\ q.gate = run[r].gate /\ q.setup = run[r].setup
            /\ q.snapshot = run[r].snapshot /\ q.stuck = run[r].stuck
            /\ label = "judge" => q.after = tmp.content
            /\ pilotPc[r] \in {"before", "seen", "after"}
      <3>1. tmp.content \in Contents \cup {Absent}
        BY DEF PilotInv, PilotTyped, Files
      <3>2. CASE pilotPc[r] = "before"
        <4> DEFINE q == [run[r] EXCEPT !.before = tmp.content]
        <4>1. /\ q \in Locals
              /\ q.plan = run[r].plan /\ q.gate = run[r].gate /\ q.setup = run[r].setup
              /\ q.snapshot = run[r].snapshot /\ q.stuck = run[r].stuck
          BY <1>1, <3>1 DEF Locals
        <4>2. run' = [run EXCEPT ![r] = q] /\ pilotPc' = [pilotPc EXCEPT ![r] = "seen"]
          BY <1>1, <1>3, <3>2 DEF Pilot!ReadTemporary, Pilot!Set, Pilot!Goto, Locals
        <4> QED
          BY <3>2, <4>1, <4>2
      <3>3. CASE pilotPc[r] = "seen"
        <4> DEFINE q == [run[r] EXCEPT !.seen = tmp.content]
        <4>1. /\ q \in Locals
              /\ q.plan = run[r].plan /\ q.gate = run[r].gate /\ q.setup = run[r].setup
              /\ q.snapshot = run[r].snapshot /\ q.stuck = run[r].stuck
          BY <1>1, <3>1 DEF Locals
        <4>2. run' = [run EXCEPT ![r] = q] /\ pilotPc' = [pilotPc EXCEPT ![r] = "after"]
          BY <1>1, <1>3, <3>3 DEF Pilot!ReadTemporary, Pilot!Set, Pilot!Goto, Locals
        <4> QED
          BY <3>3, <4>1, <4>2
      <3>4. CASE pilotPc[r] = "after"
        <4> DEFINE q == [run[r] EXCEPT !.after = tmp.content]
        <4>1. /\ q \in Locals /\ q.after = tmp.content
              /\ q.plan = run[r].plan /\ q.gate = run[r].gate /\ q.setup = run[r].setup
              /\ q.snapshot = run[r].snapshot /\ q.stuck = run[r].stuck
          BY <1>1, <3>1 DEF Locals
        <4>2. run' = [run EXCEPT ![r] = q] /\ pilotPc' = [pilotPc EXCEPT ![r] = "judge"]
          BY <1>1, <1>3, <3>4 DEF Pilot!ReadTemporary, Pilot!Set, Pilot!Goto, Locals
        <4> QED
          BY <3>4, <4>1, <4>2
      <3> QED
        BY <1>3, <3>2, <3>3, <3>4 DEF Pilot!ReadTemporary
    <2>2. RunStands(label, q) /\ label \in Pilot!Labels /\ label \in Pilot!Writing
      BY <1>1, <2>1 DEF RunStands, Begun, Bound, Pilot!Labels, Pilot!Writing
    <2>3. touched = 0 => Left(r, label, q, tmp, out)
      BY <1>1, <2>1 DEF Left, Pilot!Writing, Drawing, Reviewed, Published
    <2>4. pilotEvents' \in 0..MaxEvents
      BY <1>3 DEF Pilot!ReadTemporary, PilotInv, PilotTyped
    <2> QED
      BY <1>2, <2>1, <2>2, <2>3, <2>4, RunAlone
  <1>4. CASE Pilot!Kill(r)
    <2>1. /\ pilotPc' = [pilotPc EXCEPT ![r] = "dead"] /\ run' = [run EXCEPT ![r] = run[r]]
          /\ pilotEvents' \in 0..MaxEvents
          /\ pilotPc[r] \in {"build", "before", "seen", "after", "judge", "absent", "rename",
                           "verify", "passed"}
      BY <1>1, <1>4 DEF Pilot!Kill, Pilot!Goto, Pilot!Event, PilotInv, PilotTyped, PilotBounds
    <2>2. RunStands("dead", run[r]) /\ "dead" \in Pilot!Labels
      BY DEF RunStands, Begun, Bound, Pilot!Labels
    <2>3. touched = 0 => Left(r, "dead", run[r], tmp, out)
      BY <1>1, <2>1 DEF Left, Pilot!Writing, Drawing, Reviewed, Published
    <2> QED
      BY <1>1, <1>2, <2>1, <2>2, <2>3, RunAlone
  <1> QED
    BY <1>3, <1>4

\* The drawing is judged and renamed into place, or given up.
LEMMA RunPublishes ==
    ASSUME PilotBounds, PilotInv, NEW r \in Runs,
           \/ Pilot!BuildFails(r) \/ Pilot!Judge(r) \/ Pilot!CheckAbsent(r) \/ Pilot!Rename(r)
    PROVE  PilotInv'
  <1>1. /\ run \in [Runs -> Locals] /\ run[r] \in Locals
        /\ run = [run EXCEPT ![r] = run[r]] /\ RunStands(pilotPc[r], run[r])
        /\ touched = 0 => Left(r, pilotPc[r], run[r], tmp, out)
    BY DEF PilotInv, PilotTyped, RunsInv, PilotFilesInv
  <1>2. /\ UNCHANGED Pilot!gvars
        /\ UNCHANGED <<inputs, approved, approvals, touched, report>>
        /\ pilotPc[r] \in {"build", "before", "seen", "after", "judge", "absent", "rename"}
    BY DEF Pilot!BuildFails, Pilot!Judge, Pilot!CheckAbsent, Pilot!Rename
  <1>3. /\ \A label \in {"raised", "report", "absent", "rename", "verify"} :
              RunStands(label, run[r]) /\ label \in Pilot!Labels
        /\ pilotPc[r] \in Pilot!Writing
    BY <1>1, <1>2 DEF RunStands, Begun, Bound, Pilot!Labels, Pilot!Writing
  <1>4. PassedInv' /\ report' \in Reports \cup {Absent}
    BY <1>2 DEF PilotInv, PassedInv, PilotTyped
  <1>5. \/ /\ Pilot!CleanUp(r) /\ out' = out
           /\ \E label \in {"raised", "report"} : pilotPc' = [pilotPc EXCEPT ![r] = label]
        \/ /\ pilotPc[r] = "judge" /\ Pilot!Accepted(r) /\ pilotPc' = [pilotPc EXCEPT ![r] = "absent"]
           /\ UNCHANGED <<tmp, run, pilotEvents, lost, out>>
        \/ /\ pilotPc[r] = "absent" /\ pilotPc' = [pilotPc EXCEPT ![r] = "rename"]
           /\ UNCHANGED <<tmp, run, pilotEvents, lost, out>>
        \/ /\ pilotPc[r] = "rename" /\ pilotPc' = [pilotPc EXCEPT ![r] = "verify"]
           /\ Windows => out = Pilot!Nothing
           /\ out' = tmp /\ tmp' = Pilot!Nothing
           /\ Pilot!Losing("rename", out) /\ UNCHANGED <<run, pilotEvents>>
    BY DEF Pilot!BuildFails, Pilot!Judge, Pilot!CheckAbsent, Pilot!Rename, Pilot!Goto
  <1>6. CASE /\ Pilot!CleanUp(r) /\ out' = out
             /\ \E label \in {"raised", "report"} : pilotPc' = [pilotPc EXCEPT ![r] = label]
    BY <1>2, <1>3, <1>6, RunCleansUp
  <1>7. CASE /\ pilotPc[r] \in {"judge", "absent"}
             /\ \E label \in {"absent", "rename"} : pilotPc' = [pilotPc EXCEPT ![r] = label]
             /\ UNCHANGED <<tmp, run, pilotEvents, lost, out>>
    <2>1. PICK label \in {"absent", "rename"} : pilotPc' = [pilotPc EXCEPT ![r] = label]
      BY <1>7
    <2>2. label \in Pilot!Writing /\ pilotEvents' \in 0..MaxEvents
      BY <1>7 DEF Pilot!Writing, PilotInv, PilotTyped
    <2>3. touched = 0 => Left(r, label, run[r], tmp, out)
      BY <1>1, <1>7 DEF Left, Pilot!Writing, Drawing, Reviewed, Published
    <2>4. /\ RunStands(label, run[r]) /\ label \in Pilot!Labels
          /\ run' = [run EXCEPT ![r] = run[r]]
          /\ UNCHANGED <<inputs, approved, approvals, touched, tmp, out, report, lost>>
      BY <1>1, <1>2, <1>3, <1>7
    <2> QED
      BY <1>1, <1>2, <2>1, <2>2, <2>3, <2>4, RunAlone
  <1>8. CASE /\ pilotPc[r] = "rename" /\ pilotPc' = [pilotPc EXCEPT ![r] = "verify"]
             /\ Windows => out = Pilot!Nothing
             /\ out' = tmp /\ tmp' = Pilot!Nothing
             /\ Pilot!Losing("rename", out) /\ UNCHANGED <<run, pilotEvents>>
    <2>1. tmp' \in Files /\ tmp'.by = Absent /\ out' \in Files /\ pilotEvents' \in 0..MaxEvents
      BY <1>8 DEF Pilot!Nothing, Files, PilotInv, PilotTyped
    <2>2. touched = 0 => tmp.by = r /\ Left(r, "verify", run[r], tmp', out')
      BY <1>1, <1>8, <2>1 DEF Left, Pilot!Writing, Drawing, Reviewed, Published, PilotBounds
    <2>3. Pilot!OutputsAreKept'
      <3>1. Windows => out.by = Absent
        BY <1>8 DEF Pilot!Nothing
      <3>2. Windows => lost' = lost
        BY <1>8, <3>1 DEF Pilot!Losing, PilotBounds
      <3> QED
        BY <3>2 DEF PilotInv, Pilot!OutputsAreKept
    <2>4. tmp'.by # r
      BY <2>1 DEF PilotBounds
    <2> QED
      BY <1>1, <1>2, <1>3, <1>4, <1>8, <2>1, <2>2, <2>3, <2>4, RunMoves
  <1> QED
    BY <1>5, <1>6, <1>7, <1>8

\* The output is hashed, the evidence written.
LEMMA RunReports ==
    ASSUME PilotBounds, PilotInv, NEW r \in Runs,
           Pilot!VerifyOutput(r) \/ Pilot!WriteEvidence(r)
    PROVE  PilotInv'
  <1>1. /\ run \in [Runs -> Locals] /\ run[r] \in Locals
        /\ run = [run EXCEPT ![r] = run[r]] /\ RunStands(pilotPc[r], run[r])
        /\ touched = 0 => Left(r, pilotPc[r], run[r], tmp, out)
    BY DEF PilotInv, PilotTyped, RunsInv, PilotFilesInv
  <1>2. /\ UNCHANGED Pilot!gvars /\ UNCHANGED run
        /\ UNCHANGED <<inputs, approved, approvals, touched, tmp, pilotEvents>>
        /\ pilotPc[r] \in {"verify", "passed", "report"}
    BY DEF Pilot!VerifyOutput, Pilot!WriteEvidence
  <1>3. \A label \in {"raised", "passed", "done"} :
            /\ label \in Pilot!Labels
            /\ label # "passed" \/ pilotPc[r] = "verify" => RunStands(label, run[r])
    BY <1>1, <1>2 DEF RunStands, Begun, Bound, Pilot!Labels
  <1>4. /\ pilotEvents' \in 0..MaxEvents
        /\ tmp.by = r => run[r].stuck
        /\ tmp' \in Files
    BY <1>2 DEF PilotInv, PilotTyped, TmpInv, Pilot!Writing
  <1>5. CASE Pilot!VerifyOutput(r)
    <2>1. PICK label \in {"passed", "raised"} :
            /\ pilotPc' = [pilotPc EXCEPT ![r] = label] /\ report' = report /\ pilotPc[r] = "verify"
            /\ \/ out' = out /\ lost' = lost
               \/ /\ out' = Pilot!Nothing
                  /\ lost' \subseteq lost \cup {"verify"}
      BY <1>5 DEF Pilot!VerifyOutput, Pilot!Goto, Pilot!Losing
    <2>2. out' \in Files /\ (out' = out \/ out'.by = Absent)
      BY <2>1 DEF PilotInv, PilotTyped, Files, Pilot!Nothing
    <2>3. touched = 0 => Left(r, label, run[r], tmp', out')
      BY <1>1, <1>2, <2>1, <2>2 DEF Left, Pilot!Writing, Drawing, Reviewed, Published, PilotBounds
    <2>4. PassedInv' /\ Pilot!OutputsAreKept' /\ report' \in Reports \cup {Absent}
      BY <1>2, <2>1 DEF PilotInv, PilotTyped, PassedInv, Pilot!OutputsAreKept
    <2>5. RunStands(label, run[r]) /\ label \in Pilot!Labels
          /\ run' = [run EXCEPT ![r] = run[r]]
      BY <1>1, <1>2, <1>3, <2>1
    <2>6. touched = 0 =>
            /\ tmp' = tmp \/ tmp.by \in {r, Absent}
            /\ out' = out \/ out'.by \in {r, Absent}
            /\ Left(r, label, run[r], tmp', out')
      BY <1>2, <2>2, <2>3
    <2>7. tmp' = tmp /\ (tmp'.by = r => run[r].stuck)
      BY <1>2, <1>4
    <2> QED
      BY <1>1, <1>2, <1>4, <2>1, <2>2, <2>4, <2>5, <2>6, <2>7, RunMoves
  <1>6. CASE Pilot!WriteEvidence(r)
    <2>1. PICK label \in {"done", "raised"} :
            /\ pilotPc' = [pilotPc EXCEPT ![r] = label] /\ out' = out /\ lost' = lost
            /\ pilotPc[r] \in {"passed", "report"}
            /\ report' = report \/ report' = Pilot!Evidence(r)
      BY <1>6 DEF Pilot!WriteEvidence, Pilot!Goto
    <2>2. touched = 0 => Left(r, label, run[r], tmp', out')
      BY <1>1, <1>2, <2>1 DEF Left, Pilot!Writing, Drawing, Reviewed, Published
    <2> DEFINE e == Pilot!Evidence(r)
               v == pilotPc[r] = "passed"
    <2>3. /\ e \in Reports
          /\ e.passed = v /\ e.plan = run[r].plan /\ e.gate = run[r].gate
          /\ e.inputs = run[r].snapshot /\ (v => e.dxf = run[r].after)
      BY <1>1 DEF Pilot!Evidence, Reports, Locals
    <2> HIDE DEF e
    <2>4. ASSUME v
          PROVE  /\ e.plan \in approvals /\ Chained(e.inputs)
                 /\ ByApproval(e.plan, e.gate, e.inputs)
                 /\ e.dxf = Pilot!Built(e.inputs) \/ touched > 0
      <3>1. RunStands("passed", run[r])
        BY <1>1, <2>4
      <3>2. touched = 0 => run[r].after = Pilot!Built(run[r].snapshot)
        BY <1>1, <2>4 DEF Left, Reviewed
      <3>3. touched = 0 \/ touched > 0
        BY DEF PilotInv, PilotTyped
      <3> QED
        BY <2>3, <2>4, <3>1, <3>2, <3>3 DEF RunStands, Begun, Bound, Pilot!Labels
    <2>5. PassedInv'
      <3>1. CASE report' = report
        BY <1>2, <3>1 DEF PilotInv, PassedInv
      <3>2. CASE report' = e
        BY <1>2, <2>3, <2>4, <3>2 DEF PassedInv
      <3> QED
        BY <2>1, <3>1, <3>2 DEF e
    <2>6. Pilot!OutputsAreKept' /\ report' \in Reports \cup {Absent} /\ out' \in Files
      BY <2>1, <2>3 DEF PilotInv, PilotTyped, Pilot!OutputsAreKept, e
    <2>7. RunStands(label, run[r]) /\ label \in Pilot!Labels
          /\ run' = [run EXCEPT ![r] = run[r]]
      BY <1>1, <1>2, <1>3, <2>1
    <2>8. touched = 0 =>
            /\ tmp' = tmp \/ tmp.by \in {r, Absent}
            /\ out' = out \/ out'.by \in {r, Absent}
            /\ Left(r, label, run[r], tmp', out')
      BY <1>2, <2>1, <2>2
    <2>9. tmp' = tmp /\ (tmp'.by = r => run[r].stuck)
      BY <1>2, <1>4
    <2> QED
      BY <1>1, <1>2, <1>4, <2>1, <2>5, <2>6, <2>7, <2>8, <2>9, RunMoves
  <1> QED
    BY <1>5, <1>6

\* Others rewrite an input, write the temporary file or the output.
LEMMA OthersTouch ==
    ASSUME PilotBounds, PilotInv,
           Pilot!RewriteInput \/ Pilot!TouchTemporary \/ Pilot!TouchOutput
    PROVE  PilotInv'
  <1>1. /\ UNCHANGED Pilot!gvars
        /\ UNCHANGED <<approved, approvals, report, pilotPc, run, lost>>
        /\ pilotEvents' \in 0..MaxEvents
    BY DEF Pilot!RewriteInput, Pilot!TouchTemporary, Pilot!TouchOutput, Pilot!Event,
       PilotInv, PilotTyped, PilotBounds
  <1>2. GateInv'
    BY <1>1, GateIsKept DEF PilotInv
  <1>3. \A file \in Files : \A other \in Pilot!Foreign(file) :
            other \in Files /\ other.by \in {"other", Absent}
    <2> SUFFICES ASSUME NEW file \in Files, NEW other \in Pilot!Foreign(file)
                 PROVE  other \in Files /\ other.by \in {"other", Absent}
      OBVIOUS
    <2>1. CASE other \in {Pilot!Nothing, Pilot!Alien}
      BY <2>1 DEF Pilot!Nothing, Pilot!Alien, Files, Contents
    <2>2. CASE other \notin {Pilot!Nothing, Pilot!Alien}
      <3>1. PICK r \in Runs : /\ run[r].snapshot # Absent
                              /\ other = [by |-> "other", content |-> Pilot!Built(run[r].snapshot)]
        BY <2>2 DEF Pilot!Foreign
      <3>2. run[r].snapshot \in Pilot!Inputs
        BY <3>1 DEF PilotInv, PilotTyped, Locals
      <3>3. Pilot!Built(run[r].snapshot) \in Contents
        BY <3>2 DEF Pilot!Built, Pilot!Inputs, Contents
      <3> QED
        BY <3>1, <3>3 DEF Files
    <2> QED
      BY <2>1, <2>2
  <1>4. RunsInv'
    BY <1>1 DEF PilotInv, RunsInv, RunStands
  <1>5. Pilot!OutputsAreKept'
    BY <1>1 DEF PilotInv, Pilot!OutputsAreKept
  <1>6. CASE Pilot!RewriteInput
    <2>1. inputs' \in Pilot!Inputs /\ UNCHANGED <<tmp, out, touched>>
      BY <1>6 DEF Pilot!RewriteInput
    <2> QED
      BY <1>1, <1>2, <1>4, <1>5, <2>1 DEF PilotInv, PilotTyped, TmpInv, PilotFilesInv, PassedInv
  <1>7. CASE Pilot!TouchTemporary
    <2>1. /\ tmp' \in Files /\ tmp'.by \in {"other", Absent} /\ touched' = touched + 1
          /\ UNCHANGED <<inputs, out>>
      BY <1>3, <1>7 DEF Pilot!TouchTemporary, PilotInv, PilotTyped
    <2>2. touched' \in Nat /\ touched' > 0
      BY <2>1 DEF PilotInv, PilotTyped
    <2>3. PilotTyped' /\ TmpInv'
      BY <1>1, <2>1, <2>2 DEF PilotInv, PilotTyped, TmpInv, PilotBounds
    <2>4. PilotFilesInv' /\ PassedInv'
      BY <1>1, <2>2 DEF PilotInv, PilotFilesInv, PassedInv
    <2> QED
      BY <1>2, <1>4, <1>5, <2>3, <2>4 DEF PilotInv
  <1>8. CASE Pilot!TouchOutput
    <2>1. /\ out' \in Files /\ out'.by \in {"other", Absent} /\ UNCHANGED <<inputs, tmp, touched>>
      BY <1>3, <1>8 DEF Pilot!TouchOutput, PilotInv, PilotTyped
    <2>2. PilotTyped' /\ TmpInv' /\ PassedInv'
      BY <1>1, <2>1 DEF PilotInv, PilotTyped, TmpInv, PassedInv
    <2>3. \A r \in Runs : out'.by # r
      BY <2>1 DEF PilotBounds
    <2>4. PilotFilesInv'
      BY <1>1, <2>1, <2>3 DEF PilotInv, PilotFilesInv, Left
    <2> QED
      BY <1>2, <1>4, <1>5, <2>2, <2>4 DEF PilotInv
  <1> QED
    BY <1>6, <1>7, <1>8

\* The invariant of gate and pilot is inductive.
LEMMA PilotInvariant ==
    ASSUME PilotBounds
    PROVE  Pilot!PilotSpec => []PilotInv
  <1>1. Pilot!PilotInit => PilotInv
    BY PilotStarts
  <1>2. ASSUME PilotInv, Pilot!PilotNext
        PROVE  PilotInv'
    BY <1>2, GateBesidePilot, PlanApproved, RunPrepares, RunWrites, RunReads, RunPublishes,
       RunReports, OthersTouch DEF Pilot!PilotNext, Pilot!RunNext
  <1>3. ASSUME PilotInv, UNCHANGED <<Pilot!gvars, Pilot!pvars>>
        PROVE  PilotInv'
    <2>1. GateInv'
      BY <1>3, GateIsKept DEF PilotInv
    <2>2. UNCHANGED <<inputs, approved, approvals, tmp, out, report, pilotPc, run, pilotEvents, lost,
                      touched>>
      BY <1>3 DEF Pilot!pvars
    <2> QED
      BY <1>3, <2>1, <2>2 DEF PilotInv, PilotTyped, RunsInv, RunStands, TmpInv, PilotFilesInv,
         PassedInv, Pilot!OutputsAreKept
  <1> QED
    BY <1>1, <1>2, <1>3, PTL DEF Pilot!PilotSpec

-----------------------------------------------------------------------------
\* While others wrote the temporary file once at most, and two runs share it:
\* a run that found another drawing before its review finds its own from then
\* on, since nobody is left who would write another.
Openers == {"idle", "snapshot", "model", "solve", "open", "build"}
Settled(r) == \A q \in Runs \ {r} : pilotPc[q] \notin Openers
Own(r) == Pilot!Built(run[r].snapshot)

SwapFits(r) ==
    touched <= 1 =>
        /\ pilotPc[r] = "seen" =>
             \/ run[r].before = Own(r)
             \/ touched = 1 /\ (tmp = Pilot!Nothing \/ tmp.content # Own(r) \/ Settled(r))
        /\ pilotPc[r] = "after" =>
             \/ run[r].before = Own(r) \/ run[r].seen # Own(r)
             \/ touched = 1 /\ Settled(r) /\ (tmp = Pilot!Nothing \/ tmp.content = Own(r))
        /\ pilotPc[r] = "judge" =>
             run[r].before = Own(r) \/ run[r].seen # Own(r) \/ run[r].after = Own(r)
        /\ pilotPc[r] \in {"absent", "rename", "verify", "passed"} => run[r].after = Own(r)

Three == \E q, r, s \in Runs : q # r /\ r # s /\ q # s

SwapInv ==
    \/ Three
    \/ /\ \A r \in Runs : SwapFits(r)
       /\ report # Absent /\ report.passed =>
            report.dxf = Pilot!Built(report.inputs) \/ touched # 1

\* What a step of a run can do to the others' temporary file.
LEMMA RunEffect ==
    ASSUME PilotInv, NEW q \in Runs, Pilot!RunNext(q)
    PROVE  /\ \A r \in Runs \ {q} : pilotPc'[r] = pilotPc[r] /\ run'[r] = run[r]
           /\ touched' = touched
           /\ pilotPc[q] \notin Openers => pilotPc'[q] \notin Openers
           /\ \/ tmp' = tmp \/ tmp' = Pilot!Nothing
              \/ tmp' = [by |-> q, content |-> <<"empty">>] /\ pilotPc[q] = "open"
              \/ pilotPc[q] = "build" /\ pilotPc'[q] = "before"
  <1>1. pilotPc \in [Runs -> Pilot!Labels] /\ run \in [Runs -> Locals]
    BY DEF PilotInv, PilotTyped
  <1> USE DEF Openers
  <1>2. CASE Pilot!Begin(q) \/ Pilot!Snapshot(q) \/ Pilot!CheckModel(q) \/ Pilot!Solve(q)
    BY <1>1, <1>2 DEF Pilot!Begin, Pilot!Snapshot, Pilot!CheckModel, Pilot!Solve, Pilot!Goto,
       Pilot!Set
  <1>3. CASE Pilot!OpenTemporary(q) \/ Pilot!BuildDxf(q)
    BY <1>1, <1>3 DEF Pilot!OpenTemporary, Pilot!BuildDxf, Pilot!Goto
  <1>4. CASE Pilot!ReadTemporary(q) \/ Pilot!Kill(q)
    <2>1. PICK label \in {"seen", "after", "judge", "dead"} :
            pilotPc' = [pilotPc EXCEPT ![q] = label]
      BY <1>4 DEF Pilot!ReadTemporary, Pilot!Kill, Pilot!Goto
    <2>2. \A r \in Runs \ {q} : run'[r] = run[r]
      BY <1>1, <1>4 DEF Pilot!ReadTemporary, Pilot!Kill, Pilot!Set
    <2>3. tmp' = tmp /\ touched' = touched
      BY <1>4 DEF Pilot!ReadTemporary, Pilot!Kill
    <2> QED
      BY <1>1, <2>1, <2>2, <2>3
  <1>5. CASE Pilot!BuildFails(q) \/ Pilot!Judge(q) \/ Pilot!CheckAbsent(q) \/ Pilot!Rename(q)
    <2>1. /\ \E label \in {"raised", "report", "absent", "rename", "verify"} :
                pilotPc' = [pilotPc EXCEPT ![q] = label]
          /\ touched' = touched
          /\ run' = run \/ Pilot!Set(q, "stuck", TRUE)
          /\ tmp' = tmp \/ tmp' = Pilot!Nothing
      BY <1>5 DEF Pilot!BuildFails, Pilot!Judge, Pilot!CheckAbsent, Pilot!Rename, Pilot!CleanUp,
         Pilot!Goto
    <2>2. \A r \in Runs \ {q} : run'[r] = run[r]
      BY <1>1, <2>1 DEF Pilot!Set
    <2> QED
      BY <1>1, <2>1, <2>2
  <1>6. CASE Pilot!VerifyOutput(q) \/ Pilot!WriteEvidence(q)
    <2>1. /\ \E label \in {"passed", "raised", "done"} : pilotPc' = [pilotPc EXCEPT ![q] = label]
          /\ touched' = touched /\ run' = run /\ tmp' = tmp
      BY <1>6 DEF Pilot!VerifyOutput, Pilot!WriteEvidence, Pilot!Goto
    <2> QED
      BY <1>1, <2>1
  <1> QED
    BY <1>2, <1>3, <1>4, <1>5, <1>6 DEF Pilot!RunNext

\* Beside another run, which is the only other one.
LEMMA SwapBeside ==
    ASSUME PilotInv, NEW q \in Runs, NEW r \in Runs \ {q}, Pilot!RunNext(q), ~Three, SwapFits(r)
    PROVE  SwapFits(r)'
  <1>1. /\ pilotPc'[r] = pilotPc[r] /\ run'[r] = run[r] /\ touched' = touched
        /\ pilotPc[q] \notin Openers => pilotPc'[q] \notin Openers
        /\ \A p \in Runs \ {r} : p = q
    BY RunEffect DEF Three
  <1>2. Settled(r) => Settled(r)'
    BY <1>1 DEF Settled
  <1>3. Own(r)' = Own(r)
    BY <1>1 DEF Own
  <1>4. CASE tmp' = tmp \/ tmp' = Pilot!Nothing
    BY <1>1, <1>2, <1>3, <1>4 DEF SwapFits
  <1>5. CASE tmp' = [by |-> q, content |-> <<"empty">>] /\ pilotPc[q] = "open"
    <2>1. tmp'.content # Own(r)
      BY <1>5 DEF Own, Pilot!Built
    <2>2. ~Settled(r)
      BY <1>5 DEF Settled, Openers
    <2> QED
      BY <1>1, <1>3, <2>1, <2>2 DEF SwapFits
  <1>6. CASE pilotPc[q] = "build" /\ pilotPc'[q] = "before"
    <2>1. Settled(r)' /\ ~Settled(r)
      BY <1>1, <1>6 DEF Settled, Openers
    <2> QED
      BY <1>1, <1>3, <2>1 DEF SwapFits
  <1> QED
    BY <1>4, <1>5, <1>6, RunEffect

\* The run that reads, judges and publishes.
LEMMA SwapOwn ==
    ASSUME PilotBounds, PilotInv, NEW r \in Runs, Pilot!RunNext(r), SwapFits(r)
    PROVE  SwapFits(r)'
  <1>1. /\ pilotPc \in [Runs -> Pilot!Labels] /\ run \in [Runs -> Locals] /\ run[r] \in Locals
        /\ touched \in Nat /\ touched' = touched
        /\ \A q \in Runs \ {r} : pilotPc'[q] = pilotPc[q]
    BY RunEffect DEF PilotInv, PilotTyped
  <1>2. CASE pilotPc'[r] \notin {"seen", "after", "judge", "absent", "rename", "verify", "passed"}
    BY <1>2 DEF SwapFits
  <1>3. CASE Pilot!ReadTemporary(r)
    <2>1. tmp' = tmp /\ tmp # Pilot!Nothing /\ pilotPc[r] \in {"before", "seen", "after"}
      BY <1>3 DEF Pilot!ReadTemporary
    <2>2. /\ Settled(r)' = Settled(r)
          /\ run'[r] = [run[r] EXCEPT ![pilotPc[r]] = tmp.content]
      BY <1>1, <1>3 DEF Settled, Pilot!ReadTemporary, Pilot!Set
    <2>3. CASE pilotPc[r] = "before"
      <3>1. /\ pilotPc'[r] = "seen" /\ run'[r].before = tmp.content
            /\ run'[r].snapshot = run[r].snapshot
        BY <1>1, <1>3, <2>2, <2>3 DEF Pilot!ReadTemporary, Pilot!Goto, Locals
      <3>2. touched = 0 => tmp.content = Own(r)
        BY <2>3 DEF PilotInv, PilotFilesInv, Left, Drawing, Own
      <3> QED
        BY <1>1, <2>1, <3>1, <3>2 DEF SwapFits, Own
    <2>4. CASE pilotPc[r] = "seen"
      <3>1. /\ pilotPc'[r] = "after" /\ run'[r].seen = tmp.content
            /\ run'[r].snapshot = run[r].snapshot /\ run'[r].before = run[r].before
        BY <1>1, <1>3, <2>2, <2>4 DEF Pilot!ReadTemporary, Pilot!Goto, Locals
      <3> QED
        BY <1>1, <2>1, <2>2, <2>4, <3>1 DEF SwapFits, Own
    <2>5. CASE pilotPc[r] = "after"
      <3>1. /\ pilotPc'[r] = "judge" /\ run'[r].after = tmp.content
            /\ run'[r].snapshot = run[r].snapshot /\ run'[r].before = run[r].before
            /\ run'[r].seen = run[r].seen
        BY <1>1, <1>3, <2>2, <2>5 DEF Pilot!ReadTemporary, Pilot!Goto, Locals
      <3> QED
        BY <1>1, <2>1, <2>2, <2>5, <3>1 DEF SwapFits, Own
    <2> QED
      BY <2>1, <2>3, <2>4, <2>5
  <1>4. CASE pilotPc'[r] \in {"absent", "rename", "verify", "passed"}
    <2>1. /\ pilotPc[r] \in {"judge", "absent", "rename", "verify"} /\ run' = run
          /\ pilotPc[r] = "judge" => Pilot!Accepted(r)
      BY <1>1, <1>4 DEF Pilot!RunNext, Pilot!Begin, Pilot!Snapshot, Pilot!CheckModel,
         Pilot!Solve, Pilot!OpenTemporary, Pilot!BuildDxf, Pilot!ReadTemporary,
         Pilot!BuildFails, Pilot!Judge, Pilot!CheckAbsent, Pilot!Rename, Pilot!VerifyOutput,
         Pilot!WriteEvidence, Pilot!Kill, Pilot!Goto
    <2>2. touched <= 1 => run[r].after = Own(r)
      BY <2>1 DEF SwapFits, Own, Pilot!Accepted
    <2> QED
      BY <1>1, <1>4, <2>1, <2>2 DEF SwapFits, Own
  <1>5. pilotPc'[r] \in {"seen", "after", "judge"} => Pilot!ReadTemporary(r)
    BY <1>1 DEF Pilot!RunNext, Pilot!Begin, Pilot!Snapshot, Pilot!CheckModel,
       Pilot!Solve, Pilot!OpenTemporary, Pilot!BuildDxf,
       Pilot!BuildFails, Pilot!Judge, Pilot!CheckAbsent, Pilot!Rename, Pilot!VerifyOutput,
       Pilot!WriteEvidence, Pilot!Kill, Pilot!Goto
  <1> QED
    BY <1>2, <1>3, <1>4, <1>5

\* Evidence is written of what was published.
LEMMA SwapReported ==
    ASSUME PilotInv, SwapInv, ~Three, NEW r \in Runs, Pilot!RunNext(r), report' # Absent,
           report'.passed
    PROVE  report'.dxf = Pilot!Built(report'.inputs) \/ touched # 1
  <1>1. CASE report' = report
    BY <1>1 DEF SwapInv
  <1>2. CASE report' # report
    <2>1. Pilot!WriteEvidence(r) /\ report' = Pilot!Evidence(r)
      BY <1>2 DEF Pilot!RunNext, Pilot!Begin, Pilot!Snapshot, Pilot!CheckModel,
         Pilot!Solve, Pilot!OpenTemporary, Pilot!BuildDxf, Pilot!ReadTemporary,
         Pilot!BuildFails, Pilot!Judge, Pilot!CheckAbsent, Pilot!Rename, Pilot!VerifyOutput,
         Pilot!WriteEvidence, Pilot!Kill, Pilot!Goto
    <2>2. pilotPc[r] = "passed" /\ report'.dxf = run[r].after /\ report'.inputs = run[r].snapshot
      BY <2>1 DEF Pilot!Evidence
    <2>3. touched = 1 => run[r].after = Own(r)
      BY <2>2 DEF SwapInv, SwapFits
    <2> QED
      BY <2>2, <2>3 DEF Own
  <1> QED
    BY <1>1, <1>2

LEMMA SwapStep ==
    ASSUME PilotBounds, PilotInv, SwapInv, Pilot!PilotNext
    PROVE  SwapInv'
  <1> SUFFICES ASSUME ~Three PROVE SwapInv'
    BY DEF SwapInv, Three
  <1>1. CASE \E q \in Runs : Pilot!RunNext(q)
    <2>1. PICK q \in Runs : Pilot!RunNext(q)
      BY <1>1
    <2>2. ASSUME NEW r \in Runs PROVE SwapFits(r)'
      <3>1. SwapFits(r)
        BY DEF SwapInv
      <3> QED
        BY <2>1, <3>1, SwapOwn, SwapBeside
    <2>3. touched' = touched
      BY <2>1, RunEffect
    <2> QED
      BY <2>1, <2>2, <2>3, SwapReported DEF SwapInv
  <1>2. CASE UNCHANGED <<tmp, pilotPc, run, touched, report>>
    <2>1. ASSUME NEW r \in Runs PROVE SwapFits(r)'
      <3>1. SwapFits(r)
        BY DEF SwapInv
      <3> QED
        BY <1>2, <3>1 DEF SwapFits, Settled, Own
    <2> QED
      BY <1>2, <2>1 DEF SwapInv
  <1>3. CASE Pilot!TouchTemporary
    <2>1. UNCHANGED <<pilotPc, run, report>> /\ touched' = touched + 1 /\ touched \in Nat
      BY <1>3 DEF Pilot!TouchTemporary, PilotInv, PilotTyped
    <2>2. ASSUME NEW r \in Runs PROVE SwapFits(r)'
      <3>1. SwapFits(r)
        BY DEF SwapInv
      <3> QED
        BY <2>1, <3>1 DEF SwapFits, Own
    <2>3. report # Absent /\ report.passed =>
            report.dxf = Pilot!Built(report.inputs) \/ touched' # 1
      BY <2>1 DEF PilotInv, PassedInv
    <2> QED
      BY <2>1, <2>2, <2>3 DEF SwapInv
  <1>4. CASE \/ Pilot!GateNext /\ UNCHANGED Pilot!pvars
             \/ Pilot!ApprovePlan \/ Pilot!RewriteInput \/ Pilot!TouchOutput
    BY <1>2, <1>4 DEF Pilot!pvars, Pilot!ApprovePlan, Pilot!RewriteInput, Pilot!TouchOutput
  <1> QED
    BY <1>1, <1>3, <1>4 DEF Pilot!PilotNext

LEMMA SwapInvariant ==
    ASSUME PilotBounds
    PROVE  Pilot!PilotSpec => [](PilotInv /\ SwapInv)
  <1>1. Pilot!PilotInit => SwapInv
    <2> SUFFICES ASSUME Pilot!PilotInit PROVE SwapInv
      OBVIOUS
    <2>1. report = Absent /\ \A r \in Runs : pilotPc[r] = "idle"
      BY DEF Pilot!PilotInit
    <2> QED
      BY <2>1 DEF SwapInv, SwapFits
  <1>2. ASSUME SwapInv, UNCHANGED <<Pilot!gvars, Pilot!pvars>>
        PROVE  SwapInv'
    <2>1. UNCHANGED <<tmp, pilotPc, run, touched, report>>
      BY <1>2 DEF Pilot!pvars
    <2> QED
      BY <1>2, <2>1 DEF SwapInv, SwapFits, Settled, Own, Three
  <1>3. PilotInv /\ SwapInv /\ [Pilot!PilotNext]_<<Pilot!gvars, Pilot!pvars>> => SwapInv'
    BY <1>2, SwapStep
  <1> QED
    BY <1>1, <1>3, PilotInvariant, PTL DEF Pilot!PilotSpec

\* Verified set-up conforms and audits are true, whoever edits drawings,
\* templates and records; what a pilot reports as passed is of an approved
\* plan, its drawing the reviewed one unless others wrote the temporary file,
\* and with two runs twice, with nothing left behind and no other program's
\* output replaced on Windows.
THEOREM PilotRestsOnApproval ==
    ASSUME PilotBounds
    PROVE  Pilot!PilotSpec => []PilotsAreSound
  <1>1. ASSUME PilotInv
        PROVE  /\ Pilot!VerifiedConforms /\ Pilot!AuditsAreTrue
               /\ Pilot!GateTypeOK
    <2>1. Pilot!VerifiedConforms /\ Pilot!AuditsAreTrue
      BY <1>1 DEF PilotInv, GateInv, EvidenceInv, Conforms, Pilot!VerifiedConforms
    <2>2. Pilot!GateTypeOK
      BY <1>1 DEF PilotInv, GateInv, GateTyped, Plans, Audits, Questions, Pilot!GateTypeOK
    <2> QED
      BY <2>1, <2>2
  <1>2. ASSUME PilotInv
        PROVE  Pilot!PassedIsApproved /\ Pilot!PilotTypeOK
    <2>1. Pilot!PassedIsApproved
      BY <1>2 DEF PilotInv, PassedInv, ByApproval, Chained, Pilot!PassedIsApproved
    <2>2. Pilot!PilotTypeOK
      BY <1>2 DEF PilotInv, PilotTyped, Files, Pilot!PilotTypeOK
    <2> QED
      BY <2>1, <2>2
  <1>3. ASSUME PilotInv
        PROVE  Pilot!NothingIsLeft
    <2>1. touched = 0 \/ touched > 0
      BY <1>3 DEF PilotInv, PilotTyped
    <2>2. \A r \in Runs : out.by = r /\ pilotPc[r] \in {"report", "done", "raised"} =>
            run[r].after = out.content \/ touched > 0
      BY <1>3, <2>1 DEF PilotInv, PilotFilesInv, Left
    <2>3. \A r, s \in Runs :
            pilotPc[r] \in Pilot!Writing /\ pilotPc[s] \in Pilot!Writing /\ r # s => touched > 0
      BY <1>3, <2>1 DEF PilotInv, PilotFilesInv, Left
    <2> QED
      BY <1>3, <2>2, <2>3 DEF PilotInv, TmpInv, Pilot!NothingIsLeft
  <1>4. PilotInv /\ SwapInv => PilotsAreSound
    <2>1. SwapInv => Pilot!OneSwapIsSeen
      BY DEF SwapInv, Three, Pilot!OneSwapIsSeen
    <2>2. PilotInv => Pilot!PilotIsSound
      BY <1>2, <1>3 DEF PilotInv, Pilot!PilotIsSound
    <2> QED
      BY <1>1, <1>2, <2>1, <2>2 DEF PilotsAreSound, Pilot!PilotsAreSound
  <1> QED
    BY <1>4, SwapInvariant, PTL
=============================================================================
