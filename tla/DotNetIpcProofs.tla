--------------------------- MODULE DotNetIpcProofs ---------------------------
(***************************************************************************)
(* Proofs about DotNetIpc, for every number of callers, ids and requests.  *)
(***************************************************************************)
EXTENDS DotNetIpc, Sequences, TLAPS

\* The type invariant, with what the program counters say of the records.
TypeInv ==
    /\ TypeOK
    /\ \A c \in Clients : client[c].pc # "idle" =>
         client[c].body \in Bodies /\ client[c].id \in RequestIds
    /\ plugin.pc # "idle" => plugin.id \in RequestIds
    /\ plugin.pc = "read" => plugin.body \in Bodies
    /\ plugin.reply.success => plugin.reply.serial \in Serials

\* Every write was made over the bytes its request was bound to, and every
\* save moved the drawing on: no two writes were made over the same bytes.
WritesInv ==
    /\ \A w \in writes : w.base = w.over /\ w.over < drawing.sha
    /\ \A w1, w2 \in writes : w1.over = w2.over => w1 = w2

LEMMA InitTypeInv == Init => TypeInv
  <1> USE BoundsAssumption
  <1> QED
    BY DEF Init, TypeInv, TypeOK, Bodies, Replies, NoBody, NoReply, IdleClient,
           IdlePlugin, ClientPcs, PluginPcs, Fates, States, Serials, Writes

LEMMA TypeInvStep == TypeInv /\ [Next]_vars => TypeInv'
  <1> SUFFICES ASSUME TypeInv, [Next]_vars PROVE TypeInv'
    OBVIOUS
  <1> USE RequestIdsAssumption, OpsAssumption, BoundsAssumption, NoFileAssumption
  <1> USE DEF TypeInv, TypeOK, files, caller, cad
  <1>1. ASSUME NEW c \in Clients, NEW id \in RequestIds, NEW op \in Ops, Begin(c, id, op)
        PROVE  TypeInv'
    <2> DEFINE body == [serial |-> issued + 1, op |-> op, base |-> drawing.sha]
    <2>1. issued + 1 \in Serials /\ issued' \in 0..MaxIssues
      BY <1>1 DEF Begin, Serials
    <2>2. body \in Bodies /\ NoReply \in Replies
      BY <2>1 DEF Bodies, NoReply, Replies, States
    <2> HIDE DEF body
    <2>3. client' = [client EXCEPT ![c] =
                       [pc |-> "unlinked", id |-> id, reply |-> NoReply, body |-> body]]
      BY <1>1 DEF Begin, body
    <2>4. /\ client' \in [Clients -> [pc : ClientPcs, id : RequestIds \cup {0},
                                    body : Bodies \cup {NoBody}, reply : Replies]]
          /\ \A d \in Clients : client'[d].pc # "idle" =>
               client'[d].body \in Bodies /\ client'[d].id \in RequestIds
      BY <2>2, <2>3 DEF ClientPcs
    <2> QED
      BY <1>1, <2>1, <2>4 DEF Begin, Fates
  <1>2. ASSUME NEW c \in Clients, WriteRequest(c) PROVE TypeInv'
    BY <1>2 DEF WriteRequest, ClientPcs
  <1>3. ASSUME NEW c \in Clients, Trigger(c) PROVE TypeInv'
    BY <1>3 DEF Trigger, ClientPcs
  <1>4. ASSUME NEW c \in Clients, CallFails(c) PROVE TypeInv'
    BY <1>4, ZenonT(30) DEF CallFails, ClientPcs, Fates
  <1>5. ASSUME NEW c \in Clients, TakeResult(c) PROVE TypeInv'
    <2>1. client[c].pc = "polling" /\ client[c].id \in RequestIds
      BY <1>5 DEF TakeResult
    <2>2. result[client[c].id] \in Replies
      BY <1>5, <2>1 DEF TakeResult
    <2>3. NoReply \in Replies
      BY DEF NoReply, Replies, States
    <2>4. PICK accepted \in BOOLEAN :
            /\ client' = [client EXCEPT ![c].pc = "cleaning",
                     ![c].reply = IF accepted THEN result[client[c].id] ELSE NoReply]
            /\ fate' = [fate EXCEPT ![client[c].body.serial] =
                           IF accepted THEN "answered" ELSE "failed"]
      BY <1>5 DEF TakeResult
    <2>5. fate' \in [Serials -> Fates]
      BY <2>4 DEF Fates
    <2>6. PICK r \in Replies : client' = [client EXCEPT ![c].pc = "cleaning", ![c].reply = r]
      BY <2>2, <2>3, <2>4
    <2>7. /\ client' \in [Clients -> [pc : ClientPcs, id : RequestIds \cup {0},
                                    body : Bodies \cup {NoBody}, reply : Replies]]
          /\ \A d \in Clients : client'[d].pc # "idle" =>
               client'[d].body \in Bodies /\ client'[d].id \in RequestIds
      BY <2>1, <2>6 DEF ClientPcs
    <2> QED
      BY <1>5, <2>5, <2>7 DEF TakeResult
  <1>6. ASSUME NEW c \in Clients, TimeOut(c) PROVE TypeInv'
    BY <1>6, ZenonT(30) DEF TimeOut, ClientPcs, Fates
  <1>7. ASSUME NEW c \in Clients, UnlinkRequest(c) PROVE TypeInv'
    BY <1>7 DEF UnlinkRequest, ClientPcs
  <1>8. ASSUME NEW c \in Clients, UnlinkResult(c) PROVE TypeInv'
    BY <1>8 DEF UnlinkResult, ClientPcs
  <1>9. CASE Pick
    <2>1. commands' \in Nat
      <3>1. commands \in Nat
        OBVIOUS
      <3>2. commands > 0 /\ commands' = commands - 1
        BY <1>9 DEF Pick
      <3> HIDE DEF TypeInv
      <3> QED
        BY <3>1, <3>2
    <2>2. /\ plugin' \in [pc : PluginPcs, id : RequestIds \cup {0},
                         body : Bodies \cup {NoBody}, reply : Replies]
          /\ plugin'.pc # "idle" => plugin'.id \in RequestIds
          /\ plugin'.pc # "read"
          /\ plugin'.reply = plugin.reply
      BY <1>9 DEF Pick, PluginPcs
    <2> QED
      BY <1>9, <2>1, <2>2 DEF Pick
  <1>10. CASE ReadRequest
    BY <1>10, ZenonT(30) DEF ReadRequest, PluginPcs, NoReply, Replies, States
  <1>11. CASE Refuse
    BY <1>11 DEF Refuse, Answer, Reply, PluginPcs, Replies, Bodies, States
  <1>12. CASE Serve
    BY <1>12 DEF Serve, Answer, Reply, PluginPcs, Replies, Bodies, States
  <1>13. CASE EditSaves
    <2>1. drawing' \in [open : BOOLEAN, sha : Nat]
      BY <1>13 DEF EditSaves, Save
    <2>2. writes' \subseteq Writes
      BY <1>13 DEF EditSaves, Save, Writes, Bodies
    <2>3. PICK state \in States : plugin' = [plugin EXCEPT !.pc = "replied",
                                              !.reply = Reply(state = "SAVED", state)]
      BY <1>13 DEF EditSaves, Answer, States
    <2>4. plugin.body \in Bodies
      BY <1>13 DEF EditSaves
    <2>5. Reply(state = "SAVED", state) \in Replies /\ plugin.body.serial \in Serials
      BY <2>4 DEF Reply, Replies, Bodies
    <2> QED
      BY <1>13, <2>1, <2>2, <2>3, <2>4, <2>5 DEF EditSaves, PluginPcs, Reply
  <1>14. CASE EditLeaves
    <2>1. PICK state \in States : plugin' = [plugin EXCEPT !.pc = "replied",
                                              !.reply = Reply(FALSE, state)]
      BY <1>14 DEF EditLeaves, Answer, States
    <2>2. plugin.body \in Bodies
      BY <1>14 DEF EditLeaves
    <2>3. Reply(FALSE, state) \in Replies
      BY <2>2 DEF Reply, Replies, Bodies
    <2> QED
      BY <1>14, <2>1, <2>2, <2>3 DEF EditLeaves, PluginPcs, Reply
  <1>15. CASE WriteResult
    BY <1>15 DEF WriteResult, Reschedules, IdlePlugin, PluginPcs, NoBody, NoReply, Replies, States
  <1>16. CASE WriteResultFails
    BY <1>16 DEF WriteResultFails, IdlePlugin, PluginPcs, NoBody, NoReply, Replies, States
  <1>17. CASE IdleClose
    <2>1. closing' \in Nat
      BY <1>17 DEF IdleClose
    <2>2. drawing' \in [open : BOOLEAN, sha : Nat]
      BY <1>17 DEF IdleClose
    <2> QED
      BY <1>17, <2>1, <2>2 DEF IdleClose
  <1>18. CASE Restart
    BY <1>18 DEF Restart, IdlePlugin, PluginPcs, NoBody, NoReply, Replies, States
  <1>19. CASE UNCHANGED vars
    BY <1>19 DEF vars
  <1> QED
    BY <1>1, <1>2, <1>3, <1>4, <1>5, <1>6, <1>7, <1>8, <1>9, <1>10, <1>11, <1>12,
       <1>13, <1>14, <1>15, <1>16, <1>17, <1>18, <1>19 DEF Next, Call, Command

\* The directory, the callers and the plug-in always hold well-formed data.
THEOREM TypeCorrect == Spec => []TypeOK
  <1>1. TypeInv => TypeOK
    BY DEF TypeInv
  <1> QED
    BY <1>1, InitTypeInv, TypeInvStep, PTL DEF Spec

-----------------------------------------------------------------------------
(* Edits are compare-and-swap writes of the drawing *)

\* Only the saving outcome of the native edit touches the drawing's bytes.
LEMMA OnlyEditsWrite ==
    ASSUME [Next]_vars, ~EditSaves
    PROVE  drawing'.sha = drawing.sha /\ writes' = writes
  <1> USE DEF files, caller, cad
  <1>1. ASSUME NEW c \in Clients, NEW id \in RequestIds, NEW op \in Ops, Begin(c, id, op)
        PROVE  drawing' = drawing /\ writes' = writes
    BY <1>1 DEF Begin
  <1>2. ASSUME NEW c \in Clients, Call(c) PROVE drawing' = drawing /\ writes' = writes
    BY <1>2 DEF Call, WriteRequest, Trigger, CallFails, TakeResult, TimeOut,
                UnlinkRequest, UnlinkResult
  <1>3. CASE Command
    BY <1>3 DEF Command, Pick, ReadRequest, Refuse, Serve, EditLeaves, WriteResult,
                WriteResultFails
  <1>4. CASE IdleClose
    BY <1>4 DEF IdleClose
  <1>5. CASE Restart
    BY <1>5 DEF Restart
  <1>6. CASE UNCHANGED vars
    BY <1>6 DEF vars
  <1> QED
    BY <1>1, <1>2, <1>3, <1>4, <1>5, <1>6 DEF Next

LEMMA WritesInvStep == TypeInv /\ WritesInv /\ [Next]_vars => WritesInv'
  <1> SUFFICES ASSUME TypeInv, WritesInv, [Next]_vars PROVE WritesInv'
    OBVIOUS
  <1>1. CASE ~EditSaves
    BY <1>1, OnlyEditsWrite DEF WritesInv
  <1>2. CASE EditSaves
    <2>1. drawing.sha \in Nat /\ drawing'.sha = drawing.sha + 1
      BY <1>2 DEF EditSaves, Save, TypeInv, TypeOK
    <2> DEFINE w == [serial |-> plugin.body.serial, base |-> plugin.body.base,
                     over |-> drawing.sha]
    <2>2. writes' = writes \cup {w} /\ w.base = drawing.sha /\ w.over = drawing.sha
      BY <1>2 DEF EditSaves, Save, IsCurrent
    <2> HIDE DEF w
    <2>3. \A v \in writes : v.over \in Nat
      BY DEF TypeInv, TypeOK, Writes
    <2>4. \A v \in writes' : v.base = v.over /\ v.over < drawing'.sha
      BY <2>1, <2>2, <2>3 DEF WritesInv
    <2>5. \A v \in writes : v.over # w.over
      BY <2>1, <2>2, <2>3 DEF WritesInv
    <2> QED
      BY <2>2, <2>4, <2>5 DEF WritesInv
  <1> QED
    BY <1>1, <1>2

LEMMA Invariance == Spec => [](TypeInv /\ WritesInv)
  <1>1. Init => WritesInv
    BY DEF Init, WritesInv
  <1> QED
    BY <1>1, InitTypeInv, TypeInvStep, WritesInvStep, PTL DEF Spec

\* However requests are repeated, kept, re-executed or interleaved, two edits
\* bound to the same drawing bytes are never both written.
THEOREM AtMostOneEditPerDrawing == Spec => []OneEditPerDrawing
  <1>1. WritesInv => OneEditPerDrawing
    BY DEF WritesInv, OneEditPerDrawing
  <1> QED
    BY <1>1, Invariance, PTL

\* The bridge implements the register: each of its steps is a write by
\* compare-and-swap, or leaves the drawing's bytes alone.
THEOREM ImplementsRegister == Spec => WritesAreCompareAndSwap
  <1>1. Init => Register!Init
    BY DEF Init, Register!Init
  <1>2. TypeInv /\ [Next]_vars => [Register!Next]_<<drawing.sha, writes>>
    <2> SUFFICES ASSUME TypeInv, [Next]_vars
                 PROVE  Register!Next \/ UNCHANGED <<drawing.sha, writes>>
      OBVIOUS
    <2>1. CASE ~EditSaves
      BY <2>1, OnlyEditsWrite
    <2>2. CASE EditSaves
      <3>1. plugin.body.serial \in Serials
        BY <2>2 DEF EditSaves, TypeInv, Bodies
      <3>2. drawing'.sha = drawing.sha + 1
        BY <2>2 DEF EditSaves, Save, TypeInv, TypeOK
      <3>3. Register!Apply(plugin.body.serial)
        BY <2>2, <3>2 DEF EditSaves, Save, IsCurrent, Register!Apply
      <3> QED
        BY <3>1, <3>3 DEF Register!Next
    <2> QED
      BY <2>1, <2>2
  <1> QED
    BY <1>1, <1>2, Invariance, PTL DEF Spec, WritesAreCompareAndSwap, Register!Spec

-----------------------------------------------------------------------------
(* Answers are about the caller's own request *)

Called(c) == client[c].body \in Bodies

WritesOf(serial, done) == {w \in done : w.serial = serial}

\* What a reply says to the caller of a request, given the writes made so far.
IsTrueOf(reply, body, done) ==
    reply # NoReply =>
        /\ reply.serial = body.serial
        /\ reply.state = "SAVED" =>
             WritesOf(body.serial, done) =
               {[serial |-> body.serial, base |-> body.base, over |-> body.base]}

\* Ids and serials that are in use anywhere have been given out, and no two
\* calls were given the same.
GivenInv ==
    /\ \A id \in RequestIds :
         /\ request[id] # NoFile => id \in usedIds /\ request[id].serial <= issued
         /\ result[id] # NoFile => id \in usedIds
    /\ plugin.pc # "idle" => plugin.id \in usedIds
    /\ plugin.pc = "read" => plugin.body.serial <= issued
    /\ \A w \in writes : w.serial <= issued
    /\ \A c \in Clients : Called(c) => client[c].id \in usedIds /\ client[c].body.serial <= issued
    /\ \A c, d \in Clients :
         /\ Called(c) /\ Called(d)
         /\ client[c].id = client[d].id \/ client[c].body.serial = client[d].body.serial
         => c = d

\* The files and the command that a call's id or serial leads to are the call's
\* own, and every reply on its way to the caller is true.
OwnInv ==
    \A c \in Clients :
        LET id == client[c].id  body == client[c].body IN
        /\ ~Called(c) => client[c].reply = NoReply
        /\ IsTrueOf(client[c].reply, body, writes)
        /\ Called(c) =>
             /\ \A i \in RequestIds :
                  /\ request[i] # NoFile
                  /\ i = id \/ request[i].serial = body.serial
                  => request[i] = body
             /\ /\ plugin.pc = "read"
                /\ plugin.id = id \/ plugin.body.serial = body.serial
                => plugin.body = body
             /\ plugin.pc = "replied" /\ plugin.id = id => IsTrueOf(plugin.reply, body, writes)
             /\ result[id] # NoFile => IsTrueOf(result[id], body, writes)
             /\ \A w \in WritesOf(body.serial, writes) : w.base = body.base

AnswersInv == GivenInv /\ OwnInv /\ CloseFollowsResult

LEMMA AnswerKept ==
    ASSUME TypeInv, NEW reply, Answer(reply)
    PROVE  /\ plugin'.pc = "replied" /\ plugin'.id = plugin.id
           /\ plugin'.body = plugin.body /\ plugin'.reply = reply
  BY DEF Answer, TypeInv, TypeOK

LEMMA CloseFollowsResultStep ==
    ASSUME TypeInv, CloseFollowsResult, [Next]_vars
    PROVE  CloseFollowsResult'
  <1> USE DEF files, caller, cad, CloseFollowsResult
  <1>1. ASSUME NEW c \in Clients, NEW id \in RequestIds, NEW op \in Ops, Begin(c, id, op)
        PROVE  CloseFollowsResult'
    BY <1>1 DEF Begin
  <1>2. ASSUME NEW c \in Clients, Call(c) PROVE CloseFollowsResult'
    BY <1>2 DEF Call, WriteRequest, Trigger, CallFails, TakeResult, TimeOut,
                UnlinkRequest, UnlinkResult
  <1>3. CASE Command
    <2>1. CASE EditSaves
      BY <2>1 DEF EditSaves, Save, TypeInv, TypeOK
    <2>2. CASE WriteResult
      BY <2>2 DEF WriteResult
    <2>3. CASE Pick \/ ReadRequest \/ Refuse \/ Serve \/ EditLeaves \/ WriteResultFails
      BY <2>3 DEF Pick, ReadRequest, Refuse, Serve, EditLeaves, WriteResultFails
    <2> QED
      BY <1>3, <2>1, <2>2, <2>3 DEF Command
  <1>4. CASE IdleClose
    BY <1>4 DEF IdleClose, TypeInv, TypeOK
  <1>5. CASE Restart
    BY <1>5 DEF Restart, TypeInv, TypeOK
  <1>6. CASE UNCHANGED vars
    BY <1>6 DEF vars
  <1> QED
    BY <1>1, <1>2, <1>3, <1>4, <1>5, <1>6 DEF Next

LEMMA GivenInvStep ==
    ASSUME ~CallerNamesIds, TypeInv, GivenInv, [Next]_vars
    PROVE  GivenInv'
  <1> USE BoundsAssumption, NoFileAssumption, RequestIdsAssumption
  <1> USE DEF files, caller, cad, GivenInv, Called
  <1>0. /\ issued \in Nat /\ \A b \in Bodies : b.serial \in Nat /\ b # NoFile
        /\ NoBody \notin Bodies
    BY DEF TypeInv, TypeOK, Bodies, Serials, NoBody
  <1>1. ASSUME NEW c \in Clients, NEW id \in RequestIds, NEW op \in Ops, Begin(c, id, op)
        PROVE  GivenInv'
    <2> DEFINE body == [serial |-> issued + 1, op |-> op, base |-> drawing.sha]
    <2>1. /\ id \notin usedIds /\ usedIds' = usedIds \cup {id} /\ issued' = issued + 1
          /\ result' = [result EXCEPT ![id] = NoFile]
          /\ UNCHANGED <<request, plugin, writes>>
      BY <1>1 DEF Begin
    <2>2. /\ client'[c].id = id /\ client'[c].body = body
          /\ \A d \in Clients \ {c} : client'[d] = client[d]
      BY <1>1 DEF Begin, TypeInv, TypeOK
    <2>3. body.serial = issued + 1
      OBVIOUS
    <2> HIDE DEF body
    <2>4. /\ \A i \in RequestIds : request[i] # NoFile => request[i].serial \in Nat
          /\ \A w \in writes : w.serial \in Nat
          /\ plugin.pc = "read" => plugin.body.serial \in Nat
          /\ result \in [RequestIds -> Replies \cup {NoFile}]
      BY <1>0 DEF TypeInv, TypeOK, Writes, Serials
    <2>5. /\ \A i \in RequestIds :
               /\ request'[i] # NoFile => i \in usedIds' /\ request'[i].serial <= issued'
               /\ result'[i] # NoFile => i \in usedIds'
          /\ plugin'.pc # "idle" => plugin'.id \in usedIds'
          /\ plugin'.pc = "read" => plugin'.body.serial <= issued'
          /\ \A w \in writes' : w.serial <= issued'
      BY <1>0, <2>1, <2>4
    <2>6. \A d \in Clients : Called(d) => client[d].id # id /\ client[d].body.serial # issued + 1
      BY <1>0, <2>1
    <2>7. \A d \in Clients : Called(d)' =>
            client'[d].id \in usedIds' /\ client'[d].body.serial <= issued'
      BY <1>0, <2>1, <2>2, <2>3
    <2>8. ASSUME NEW d \in Clients, NEW e \in Clients, Called(d)', Called(e)',
                 \/ client'[d].id = client'[e].id
                 \/ client'[d].body.serial = client'[e].body.serial
          PROVE  d = e
      BY <2>2, <2>3, <2>6, <2>8
    <2> QED
      BY <2>5, <2>7, <2>8
  <1>2. ASSUME NEW c \in Clients, WriteRequest(c) PROVE GivenInv'
    <2>1. client[c].body \in Bodies /\ client[c].id \in RequestIds
      BY <1>2 DEF WriteRequest, TypeInv
    <2>2. \A d \in Clients : client'[d].id = client[d].id /\ client'[d].body = client[d].body
      BY <1>2 DEF WriteRequest, TypeInv, TypeOK
    <2>3. \A i \in RequestIds : request'[i] # NoFile =>
            i \in usedIds /\ request'[i].serial <= issued
      BY <1>2, <2>1 DEF WriteRequest, TypeInv, TypeOK
    <2> QED
      BY <1>2, <2>2, <2>3 DEF WriteRequest
  <1>3. ASSUME NEW c \in Clients,
               Trigger(c) \/ CallFails(c) \/ TakeResult(c) \/ TimeOut(c)
        PROVE  GivenInv'
    <2>1. \A d \in Clients : client'[d].id = client[d].id /\ client'[d].body = client[d].body
      BY <1>3 DEF Trigger, CallFails, TakeResult, TimeOut, TypeInv, TypeOK
    <2> QED
      BY <1>3, <2>1 DEF Trigger, CallFails, TakeResult, TimeOut
  <1>4. ASSUME NEW c \in Clients, UnlinkRequest(c) \/ UnlinkResult(c) PROVE GivenInv'
    <2>1. \A d \in Clients : client'[d].id = client[d].id /\ client'[d].body = client[d].body
      BY <1>4 DEF UnlinkRequest, UnlinkResult, TypeInv, TypeOK
    <2>2. \A i \in RequestIds :
            /\ request'[i] # NoFile => request'[i] = request[i]
            /\ result'[i] # NoFile => result'[i] = result[i]
      BY <1>4 DEF UnlinkRequest, UnlinkResult, TypeInv, TypeOK
    <2> QED
      BY <1>4, <2>1, <2>2 DEF UnlinkRequest, UnlinkResult
  <1>5. CASE Pick
    <2>1. plugin'.pc # "idle" => plugin'.id \in usedIds /\ plugin'.pc # "read"
      BY <1>5, ZenonT(30) DEF Pick, IsFirst, Pending, TypeInv, TypeOK, PluginPcs
    <2> QED
      BY <1>5, <2>1 DEF Pick
  <1>6. CASE ReadRequest
    <2>1. /\ plugin'.id = plugin.id /\ plugin.pc # "idle" /\ plugin.id \in RequestIds
          /\ plugin'.pc = "read" => plugin'.body = request[plugin.id] /\ plugin'.body # NoFile
      BY <1>6 DEF ReadRequest, TypeInv, TypeOK
    <2> QED
      BY <1>6, <2>1 DEF ReadRequest
  <1>7. CASE Refuse \/ Serve \/ EditLeaves
    <2>1. plugin'.id = plugin.id /\ plugin.pc # "idle" /\ plugin'.pc # "read"
      BY <1>7, AnswerKept DEF Refuse, Serve, EditLeaves
    <2> QED
      BY <1>7, <2>1 DEF Refuse, Serve, EditLeaves
  <1>8. CASE EditSaves
    <2>1. plugin'.id = plugin.id /\ plugin.pc = "read" /\ plugin'.pc # "read"
      BY <1>8, AnswerKept DEF EditSaves
    <2>2. \A w \in writes' : w \in writes \/ w.serial = plugin.body.serial
      BY <1>8 DEF EditSaves, Save
    <2> QED
      BY <1>8, <2>1, <2>2 DEF EditSaves
  <1>9. CASE WriteResult
    BY <1>9 DEF WriteResult, IdlePlugin, TypeInv, TypeOK
  <1>10. CASE WriteResultFails
    BY <1>10 DEF WriteResultFails, IdlePlugin
  <1>11. CASE IdleClose
    BY <1>11 DEF IdleClose
  <1>12. CASE Restart
    BY <1>12 DEF Restart, IdlePlugin
  <1>13. CASE UNCHANGED vars
    BY <1>13 DEF vars
  <1> QED
    BY <1>1, <1>2, <1>3, <1>4, <1>5, <1>6, <1>7, <1>8, <1>9, <1>10, <1>11, <1>12, <1>13
    DEF Next, Call, Command

LEMMA OwnInvStep ==
    ASSUME ~CallerNamesIds, TypeInv, WritesInv, GivenInv, OwnInv, [Next]_vars
    PROVE  OwnInv'
  <1> USE BoundsAssumption, NoFileAssumption, RequestIdsAssumption
  <1> USE DEF files, caller, cad
  <1>0. /\ issued \in Nat /\ drawing.sha \in Nat
        /\ \A b \in Bodies : b.serial \in Nat /\ b.base \in Nat /\ b # NoFile
        /\ \A c \in Clients : client[c].pc # "idle" => Called(c) /\ client[c].id \in RequestIds
        /\ \A w \in writes : w \in Writes
    BY DEF TypeInv, TypeOK, Bodies, Serials, Called
  \* A step that changes no call, no file and no write disturbs at most the
  \* clauses about the command.
  <1>a. ASSUME UNCHANGED <<request, result, client, writes>>,
               \A c \in Clients : Called(c) =>
                 /\ /\ plugin'.pc = "read"
                    /\ plugin'.id = client[c].id \/ plugin'.body.serial = client[c].body.serial
                    => plugin'.body = client[c].body
                 /\ plugin'.pc = "replied" /\ plugin'.id = client[c].id
                    => IsTrueOf(plugin'.reply, client[c].body, writes)
        PROVE  OwnInv'
    BY <1>a DEF OwnInv, IsTrueOf, WritesOf, Called
  <1>1. ASSUME NEW c \in Clients, NEW id \in RequestIds, NEW op \in Ops, Begin(c, id, op)
        PROVE  OwnInv'
    <2> DEFINE body == [serial |-> issued + 1, op |-> op, base |-> drawing.sha]
    <2>1. /\ id \notin usedIds
          /\ \A i \in RequestIds : result'[i] = IF i = id THEN NoFile ELSE result[i]
          /\ UNCHANGED <<request, plugin, writes>>
      BY <1>1 DEF Begin, TypeInv, TypeOK
    <2>2. /\ client'[c].id = id /\ client'[c].body = body /\ client'[c].reply = NoReply
          /\ \A d \in Clients \ {c} : client'[d] = client[d]
      BY <1>1 DEF Begin, TypeInv, TypeOK
    <2>3. body.serial = issued + 1
      OBVIOUS
    <2> HIDE DEF body
    <2>4. /\ \A i \in RequestIds : request[i] # NoFile => request[i].serial \in Nat
          /\ \A w \in writes : w.serial \in Nat
          /\ plugin.pc = "read" => plugin.body.serial \in Nat
      BY <1>0 DEF TypeInv, TypeOK, Writes, Serials
    <2>5. /\ request[id] = NoFile
          /\ \A i \in RequestIds : request[i] # NoFile => request[i].serial # issued + 1
          /\ plugin.pc # "idle" => plugin.id # id
          /\ plugin.pc = "read" => plugin.body.serial # issued + 1
          /\ \A w \in writes : w.serial # issued + 1
      BY <1>0, <2>1, <2>4 DEF GivenInv
    <2>7. ASSUME NEW d \in Clients, d # c, Called(d)
          PROVE  client[d].id # id /\ result'[client[d].id] = result[client[d].id]
      BY <2>1, <2>7, <1>0 DEF GivenInv, TypeInv, TypeOK
    <2>8. ASSUME NEW d \in Clients, d # c PROVE OwnInv!(d)'
      BY <2>1, <2>2, <2>7, <2>8 DEF OwnInv, Called
    <2>9. OwnInv!(c)'
      BY <2>1, <2>2, <2>3, <2>5 DEF IsTrueOf, WritesOf
    <2> QED
      BY <2>8, <2>9 DEF OwnInv
  <1>2. ASSUME NEW c \in Clients, WriteRequest(c) PROVE OwnInv'
    <2>1. Called(c) /\ client[c].id \in RequestIds
      BY <1>0, <1>2 DEF WriteRequest
    <2>2. \A d \in Clients : /\ client'[d].id = client[d].id
                             /\ client'[d].body = client[d].body
                             /\ client'[d].reply = client[d].reply
      BY <1>2 DEF WriteRequest, TypeInv, TypeOK
    <2>3. \A i \in RequestIds :
            request'[i] = IF i = client[c].id THEN client[c].body ELSE request[i]
      BY <1>2, <2>1 DEF WriteRequest, TypeInv, TypeOK
    <2>4. \A d \in Clients : Called(d) =>
            \A i \in RequestIds :
              /\ request'[i] # NoFile
              /\ i = client[d].id \/ request'[i].serial = client[d].body.serial
              => request'[i] = client[d].body
      BY <2>1, <2>3 DEF OwnInv, GivenInv
    <2>5. UNCHANGED <<result, plugin, writes>>
      BY <1>2 DEF WriteRequest
    <2> QED
      BY <2>2, <2>4, <2>5 DEF OwnInv, Called, IsTrueOf, WritesOf
  <1>3. ASSUME NEW c \in Clients, TakeResult(c) PROVE OwnInv'
    <2>1. Called(c)
      BY <1>0, <1>3 DEF TakeResult
    <2>2. \A d \in Clients : /\ client'[d].id = client[d].id
                             /\ client'[d].body = client[d].body
                             /\ d # c => client'[d].reply = client[d].reply
      BY <1>3 DEF TakeResult, TypeInv, TypeOK
    <2>3. client'[c].reply = NoReply \/ client'[c].reply = result[client[c].id]
      BY <1>3 DEF TakeResult, TypeInv, TypeOK
    <2>4. result[client[c].id] # NoFile
      BY <1>3 DEF TakeResult
    <2>5. UNCHANGED <<request, result, plugin, writes>>
      BY <1>3 DEF TakeResult
    <2>6. IsTrueOf(client'[c].reply, client[c].body, writes)
      BY <2>1, <2>3, <2>4 DEF OwnInv, IsTrueOf
    <2> QED
      BY <2>1, <2>2, <2>5, <2>6 DEF OwnInv, Called, IsTrueOf, WritesOf
  <1>4. ASSUME NEW c \in Clients,
               \/ Trigger(c) \/ CallFails(c) \/ TimeOut(c)
               \/ UnlinkRequest(c) \/ UnlinkResult(c)
        PROVE  OwnInv'
    <2>1. \A d \in Clients : /\ client'[d].id = client[d].id
                             /\ client'[d].body = client[d].body
                             /\ client'[d].reply = client[d].reply
      BY <1>4 DEF Trigger, CallFails, TimeOut, UnlinkRequest, UnlinkResult, TypeInv, TypeOK
    <2>2. /\ \A i \in RequestIds : request'[i] # NoFile => request'[i] = request[i]
          /\ \A i \in RequestIds : result'[i] # NoFile => result'[i] = result[i]
          /\ UNCHANGED <<plugin, writes>>
      BY <1>4 DEF Trigger, CallFails, TimeOut, UnlinkRequest, UnlinkResult, TypeInv, TypeOK
    <2>3. \A d \in Clients : Called(d) => client[d].id \in RequestIds
      BY DEF GivenInv, TypeInv, TypeOK
    <2>4. ASSUME NEW d \in Clients PROVE OwnInv!(d)'
      <3>1. OwnInv!(d)
        BY DEF OwnInv
      <3>2. /\ client'[d].id = client[d].id /\ client'[d].body = client[d].body
            /\ client'[d].reply = client[d].reply
        BY <2>1
      <3>3. CASE ~Called(d)
        BY <2>2, <3>1, <3>2, <3>3 DEF Called
      <3>4. CASE Called(d)
        <4>1. client[d].id \in RequestIds
          BY <2>3, <3>4
        <4> QED
          BY <2>2, <3>1, <3>2, <3>4, <4>1 DEF Called
      <3> QED
        BY <3>3, <3>4
    <2> QED
      BY <2>4 DEF OwnInv
  <1>5. CASE Pick
    <2>1. plugin'.pc # "read" /\ plugin'.pc # "replied"
      BY <1>5 DEF Pick, TypeInv, TypeOK
    <2> QED
      BY <1>5, <1>a, <2>1 DEF Pick
  <1>6. CASE ReadRequest
    <2>1. /\ plugin'.id = plugin.id /\ plugin.id \in RequestIds
          /\ plugin'.pc = "read" =>
               plugin'.body = request[plugin.id] /\ request[plugin.id] # NoFile
          /\ plugin'.pc = "replied" => plugin'.reply = NoReply
      BY <1>6 DEF ReadRequest, TypeInv, TypeOK
    <2>2. \A c \in Clients : Called(c) =>
            /\ /\ plugin'.pc = "read"
               /\ plugin'.id = client[c].id \/ plugin'.body.serial = client[c].body.serial
               => plugin'.body = client[c].body
            /\ plugin'.pc = "replied" /\ plugin'.id = client[c].id
               => IsTrueOf(plugin'.reply, client[c].body, writes)
      BY <2>1 DEF OwnInv, IsTrueOf
    <2> QED
      BY <1>6, <1>a, <2>2 DEF ReadRequest
  <1>7. CASE Refuse \/ Serve \/ EditLeaves
    <2> DEFINE Told == /\ plugin.pc = "read" /\ plugin'.pc = "replied" /\ plugin'.id = plugin.id
                       /\ plugin'.reply.serial = plugin.body.serial
                       /\ plugin'.reply.state # "SAVED"
    <2>0. ASSUME Refuse \/ Serve PROVE Told
      <3>1. PICK success \in BOOLEAN :
              plugin' = [plugin EXCEPT !.pc = "replied", !.reply = Reply(success, "none")]
        BY <2>0 DEF Refuse, Serve, Answer
      <3> QED
        BY <2>0, <3>1 DEF Refuse, Serve, Reply, TypeInv, TypeOK
    <2>1. ASSUME EditLeaves PROVE Told
      <3>1. PICK state \in {"UNCHANGED", "UNCERTAIN"} :
              plugin' = [plugin EXCEPT !.pc = "replied", !.reply = Reply(FALSE, state)]
        BY <2>1 DEF EditLeaves, Answer
      <3> QED
        BY <2>1, <3>1 DEF EditLeaves, Reply, TypeInv, TypeOK
    <2>2. \A c \in Clients : Called(c) =>
            (plugin'.pc = "replied" /\ plugin'.id = client[c].id
               => IsTrueOf(plugin'.reply, client[c].body, writes))
      BY <1>7, <2>0, <2>1 DEF OwnInv, IsTrueOf
    <2> QED
      BY <1>7, <1>a, <2>0, <2>1, <2>2 DEF Refuse, Serve, EditLeaves
  <1>8. CASE EditSaves
    <2> DEFINE own == plugin.body
               w == [serial |-> own.serial, base |-> own.base, over |-> drawing.sha]
    <2>1. /\ plugin.pc = "read" /\ plugin'.pc = "replied" /\ plugin'.id = plugin.id
          /\ plugin'.reply.serial = own.serial
          /\ own.base = drawing.sha
      BY <1>8, AnswerKept DEF EditSaves, Reply, IsCurrent
    <2>2. /\ writes' = writes \cup {w} /\ w.serial = own.serial /\ w.base = own.base
          /\ w = [serial |-> own.serial, base |-> own.base, over |-> own.base]
          /\ UNCHANGED <<request, result, client>>
      BY <1>8 DEF EditSaves, Save, IsCurrent
    <2> HIDE DEF w
    <2>3. ASSUME NEW c \in Clients, Called(c), client[c].body.serial = own.serial
          PROVE  /\ own = client[c].body
                 /\ WritesOf(own.serial, writes) = {}
                 /\ WritesOf(own.serial, writes') = {w}
      <3>1. own = client[c].body
        BY <2>1, <2>3 DEF OwnInv
      <3>2. \A v \in WritesOf(own.serial, writes) : v.base = own.base
        BY <2>3, <3>1 DEF OwnInv
      <3>3. \A v \in writes : v.base \in Nat /\ v.base < drawing.sha
        BY <1>0 DEF WritesInv, Writes
      <3>4. WritesOf(own.serial, writes) = {}
        BY <1>0, <2>1, <3>2, <3>3 DEF WritesOf
      <3> QED
        BY <2>2, <3>1, <3>4 DEF WritesOf
    <2>4. ASSUME NEW c \in Clients, Called(c), client[c].body.serial # own.serial
          PROVE  WritesOf(client[c].body.serial, writes')
                   = WritesOf(client[c].body.serial, writes)
      BY <2>2, <2>4 DEF WritesOf
    <2>5. ASSUME NEW c \in Clients, Called(c), NEW reply, IsTrueOf(reply, client[c].body, writes)
          PROVE  IsTrueOf(reply, client[c].body, writes')
      BY <2>2, <2>3, <2>4, <2>5 DEF IsTrueOf
    <2>6. ASSUME NEW c \in Clients, Called(c), plugin.id = client[c].id
          PROVE  IsTrueOf(plugin'.reply, client[c].body, writes')
      <3>1. own = client[c].body
        BY <2>1, <2>6 DEF OwnInv
      <3> QED
        BY <2>1, <2>2, <2>3, <3>1, <2>6 DEF IsTrueOf
    <2>7. ASSUME NEW c \in Clients, Called(c), NEW v \in WritesOf(client[c].body.serial, writes')
          PROVE  v.base = client[c].body.base
      <3>1. CASE client[c].body.serial = own.serial
        BY <2>2, <2>3, <2>7, <3>1
      <3>2. CASE client[c].body.serial # own.serial
        BY <2>4, <2>7, <3>2 DEF OwnInv
      <3> QED
        BY <3>1, <3>2
    <2>8. ASSUME NEW c \in Clients, ~Called(c)
          PROVE  client'[c].reply = NoReply /\ ~Called(c)'
      BY <2>2, <2>8 DEF OwnInv, Called
    <2>9. ASSUME NEW c \in Clients, Called(c)
          PROVE  /\ client'[c] = client[c] /\ Called(c)'
                 /\ IsTrueOf(client[c].reply, client[c].body, writes')
                 /\ result[client[c].id] # NoFile =>
                      IsTrueOf(result[client[c].id], client[c].body, writes')
      BY <2>2, <2>5, <2>9 DEF OwnInv, Called
    <2> QED
      BY <2>1, <2>2, <2>6, <2>7, <2>8, <2>9, ZenonT(40) DEF OwnInv, IsTrueOf
  <1>9. CASE WriteResult
    <2>1. /\ UNCHANGED <<request, client, writes>> /\ plugin'.pc = "idle"
          /\ plugin.pc = "replied"
          /\ \A i \in RequestIds :
               result'[i] = IF i = plugin.id THEN plugin.reply ELSE result[i]
      BY <1>9 DEF WriteResult, IdlePlugin, TypeInv, TypeOK
    <2>2. \A c \in Clients : Called(c) => client[c].id \in RequestIds
      BY DEF GivenInv, TypeInv, TypeOK
    <2>3. \A c \in Clients : Called(c) /\ result'[client[c].id] # NoFile =>
            IsTrueOf(result'[client[c].id], client[c].body, writes)
      BY <2>1, <2>2 DEF OwnInv
    <2> QED
      BY <2>1, <2>3 DEF OwnInv, Called, IsTrueOf, WritesOf
  <1>10. CASE WriteResultFails \/ Restart
    <2>1. plugin'.pc = "idle" /\ UNCHANGED <<request, result, client, writes>>
      BY <1>10 DEF WriteResultFails, Restart, IdlePlugin
    <2> QED
      BY <1>a, <2>1
  <1>11. CASE IdleClose
    BY <1>11 DEF IdleClose, OwnInv, IsTrueOf, WritesOf, Called
  <1>12. CASE UNCHANGED vars
    BY <1>12 DEF vars, OwnInv, IsTrueOf, WritesOf, Called
  <1> QED
    BY <1>1, <1>2, <1>3, <1>4, <1>5, <1>6, <1>7, <1>8, <1>9, <1>10, <1>11, <1>12
    DEF Next, Call, Command

\* Of generated ids: an answer that reached a caller was computed for the
\* request that the caller wrote, a SAVED answer is about exactly one write,
\* made over the bytes the caller had read, and no handler closes the drawing
\* before the result of a close is on disk.
THEOREM AnswersAreTheCallers == ~CallerNamesIds /\ Spec => []AnswersAreTrue
  <1>1. Init => AnswersInv
    BY DEF Init, AnswersInv, GivenInv, OwnInv, CloseFollowsResult, Called, IsTrueOf, WritesOf,
           IdleClient, IdlePlugin, NoBody, Bodies, Serials
  <1>2. ~CallerNamesIds /\ TypeInv /\ WritesInv /\ AnswersInv /\ [Next]_vars => AnswersInv'
    BY GivenInvStep, OwnInvStep, CloseFollowsResultStep DEF AnswersInv
  <1>3. OwnInv => AnswersAreOwn
    BY DEF OwnInv, AnswersAreOwn, IsTrueOf, WritesOf
  <1>4. AnswersInv => AnswersAreTrue
    BY <1>3 DEF AnswersInv, AnswersAreTrue
  <1>5. CASE ~CallerNamesIds
    <2>1. TypeInv /\ WritesInv /\ AnswersInv /\ [Next]_vars => AnswersInv'
      BY <1>2, <1>5
    <2> QED
      BY <1>1, <1>4, <2>1, Invariance, PTL DEF Spec
  <1> QED
    BY <1>5
=============================================================================
